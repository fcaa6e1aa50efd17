---------------------- MODULE NotificationOutboxProofs ----------------------
(***************************************************************************)
(* Proofs about NotificationOutbox, for any messages, preferences, number  *)
(* of overlapping calls and limits.  Calls write by id what they read long *)
(* ago, so the invariants rest on what a call has in hand: a row is queued *)
(* by one call alone, a retry only has rows that were delivered before,    *)
(* and an acceptance, once given, stays.  The last part bounds how often   *)
(* two calls that overlap attempt a row.                                   *)
(***************************************************************************)
EXTENDS NotificationOutbox, FiniteSetTheorems, TLAPS

Busy(w) == worker[w] # Idle

\* A call that is past the choice of its next row has one in hand.
HasRow == \A w \in Workers : Busy(w) /\ worker[w].stage # "next" => Current(w) \in Rows

\* What a call is about to record as sent was accepted.
AcceptedInHand ==
    \A w \in Workers :
        Busy(w) /\ worker[w].stage = "accepted" /\ Current(w) \in Mails
        => accepted[Current(w)]

\* The rows that notify() has still to create exist nowhere and are its own.
NotifyOwns ==
    \A w \in Workers : Busy(w) /\ worker[w].op = "notify" =>
        /\ \A n \in worker[w].todo : row[n].status = "ABSENT"
        /\ \A v \in Workers \ {w} : Busy(v) => worker[v].todo \cap worker[w].todo = {}

\* What a sweep has read, and what any call has in hand, is in the table.
RowsExist ==
    \A w \in Workers : Busy(w) =>
        /\ Current(w) \in Rows => row[Current(w)].status # "ABSENT"
        /\ worker[w].op # "notify" => \A n \in worker[w].todo : row[n].status # "ABSENT"

\* Rows in the hands of a retry are no longer queued; notify() has in hand
\* only rows that are not held.
InHand ==
    \A w \in Workers : Busy(w) =>
        /\ worker[w].op = "retry" =>
              /\ \A n \in worker[w].todo : row[n].status # "QUEUED"
              /\ Current(w) \in Rows => row[Current(w)].status # "QUEUED"
        /\ worker[w].op = "notify" /\ Current(w) \in Rows => ~row[Current(w)].held

IInv ==
    /\ TableOK /\ SentMeansAccepted /\ ScheduledOrExhausted
    /\ HasRow /\ AcceptedInHand /\ NotifyOwns /\ RowsExist /\ InHand
-----------------------------------------------------------------------------
\* All steps but the start of a call and the creation of a row are of one
\* kind: a row may change, but never appears, is queued or held anew, and it
\* is marked SENT or FAILED as it should be; a call goes on with what it has, or
\* it ends.
RowStep(n) ==
    \/ row'[n] = row[n]
    \/ /\ row'[n].status = "ABSENT" <=> row[n].status = "ABSENT"
       /\ row'[n].status = "QUEUED" => row[n].status = "QUEUED"
       /\ row'[n].held => row[n].held
       /\ row'[n].status = "SENT" /\ n \in Mails => row[n].status = "SENT" \/ accepted'[n]
       /\ row'[n].status = "FAILED" =>
             (row'[n].nextRetryAt = Null <=> row'[n].attempts >= MaxAttempts)

CallStep(w) ==
    \/ worker'[w] \in {worker[w], Idle}
    \/ /\ worker[w] \in InProgress /\ worker'[w] \in InProgress
       /\ worker'[w].op = worker[w].op
       /\ worker'[w].todo \subseteq worker[w].todo
       /\ \/ worker'[w].current \in {worker[w].current, Null}
          \/ worker[w].op # "notify" /\ worker'[w].current \in worker[w].todo
       /\ worker'[w].stage # "next" => worker'[w].current \in Rows
       /\ worker'[w].stage = "accepted" /\ worker'[w].current \in Mails
          => accepted'[worker'[w].current]

Continues ==
    /\ TableOK'
    /\ \A n \in Rows : RowStep(n)
    /\ \A n \in Rows : accepted[n] => accepted'[n]
    /\ \A w \in Workers : CallStep(w)

LEMMA RowTypes ==
    ASSUME TableOK, NEW n \in Rows
    PROVE  row[n] \in RowType
BY DEF TableOK

LEMMA BusyType ==
    ASSUME TableOK, NEW w \in Workers, Busy(w)
    PROVE  worker[w] \in InProgress
BY DEF TableOK, Call, Busy

LEMMA NullIsNoRow == Null \notin Rows /\ Null # "waiting" /\ Null # "due"
BY OutboxAssumption

LEMMA ContinuesKeepsIInv ==
    ASSUME IInv, Continues
    PROVE  IInv'
<1> USE DEF IInv, Continues
<1>1. SentMeansAccepted'
  <2> SUFFICES ASSUME NEW n \in Mails, row'[n].status = "SENT"
               PROVE  accepted'[n]
    BY DEF SentMeansAccepted, Mails, Channel
  <2>1. n \in Rows /\ RowStep(n)
    BY DEF Mails
  <2>2. CASE row[n].status = "SENT"
    BY <2>1, <2>2 DEF SentMeansAccepted
  <2>3. CASE row[n].status # "SENT"
    BY <2>1, <2>3 DEF RowStep
  <2> QED BY <2>2, <2>3
<1>2. ScheduledOrExhausted'
  <2> SUFFICES ASSUME NEW n \in Rows, row'[n].status = "FAILED"
               PROVE  row'[n].nextRetryAt = Null <=> row'[n].attempts >= MaxAttempts
    BY DEF ScheduledOrExhausted
  <2> QED BY DEF RowStep, ScheduledOrExhausted
<1>3. HasRow'
  <2> SUFFICES ASSUME NEW w \in Workers, Busy(w)', worker'[w].stage # "next"
               PROVE  worker'[w].current \in Rows
    BY DEF HasRow, Current
  <2> QED BY DEF CallStep, HasRow, Busy, Current
<1>4. AcceptedInHand'
  <2> SUFFICES ASSUME NEW w \in Workers, Busy(w)', worker'[w].stage = "accepted",
                      worker'[w].current \in Mails
               PROVE  accepted'[worker'[w].current]
    BY DEF AcceptedInHand, Current, Mails, Channel
  <2>1. worker'[w].current \in Rows
    BY DEF Mails
  <2> QED BY <2>1 DEF CallStep, AcceptedInHand, Busy, Current
<1>5. ASSUME NEW w \in Workers, Busy(w)'
      PROVE  /\ Busy(w) /\ worker'[w].op = worker[w].op
             /\ worker'[w].todo \subseteq worker[w].todo
             /\ worker'[w].current \in Rows =>
                   \/ worker'[w].current = worker[w].current
                   \/ worker[w].op # "notify" /\ worker'[w].current \in worker[w].todo
  <2>1. CASE worker'[w] = worker[w]
    BY <1>5, <2>1 DEF Busy
  <2>2. CASE worker'[w] # worker[w]
    <3>1. worker[w] \in InProgress
      BY <1>5, <2>2 DEF CallStep, Busy
    <3>2. Busy(w)
      BY <3>1 DEF InProgress, Idle, Busy
    <3> QED BY <1>5, <2>2, <3>2, NullIsNoRow DEF CallStep, Busy
  <2> QED BY <2>1, <2>2
<1>6. \A n \in Rows : (row'[n].status = "ABSENT" <=> row[n].status = "ABSENT")
  BY DEF RowStep
<1>7. \A w \in Workers : Busy(w) => worker[w].todo \subseteq Rows
  BY BusyType DEF InProgress
<1>8. NotifyOwns'
  <2> SUFFICES ASSUME NEW w \in Workers, Busy(w)', worker'[w].op = "notify"
               PROVE  /\ \A n \in worker'[w].todo : row'[n].status = "ABSENT"
                      /\ \A v \in Workers \ {w} :
                            Busy(v)' => worker'[v].todo \cap worker'[w].todo = {}
    BY DEF NotifyOwns
  <2>1. Busy(w) /\ worker[w].op = "notify" /\ worker'[w].todo \subseteq worker[w].todo
    BY <1>5
  <2>2. \A n \in worker'[w].todo : row'[n].status = "ABSENT"
    BY <2>1, <1>6, <1>7 DEF NotifyOwns
  <2>3. \A v \in Workers \ {w} : Busy(v)' => worker'[v].todo \cap worker'[w].todo = {}
    <3> SUFFICES ASSUME NEW v \in Workers \ {w}, Busy(v)'
                 PROVE  worker'[v].todo \cap worker'[w].todo = {}
      OBVIOUS
    <3>1. Busy(v) /\ worker'[v].todo \subseteq worker[v].todo
      BY <1>5
    <3>2. worker[v].todo \cap worker[w].todo = {}
      BY <2>1, <3>1 DEF NotifyOwns
    <3> QED BY <2>1, <3>1, <3>2
  <2> QED BY <2>2, <2>3
<1>9. RowsExist'
  <2> SUFFICES ASSUME NEW w \in Workers, Busy(w)'
               PROVE  /\ worker'[w].current \in Rows
                         => row'[worker'[w].current].status # "ABSENT"
                      /\ worker'[w].op # "notify"
                         => \A n \in worker'[w].todo : row'[n].status # "ABSENT"
    BY DEF RowsExist, Current
  <2> QED BY <1>5, <1>6, <1>7 DEF RowsExist, Current
<1>10. InHand'
  <2> SUFFICES ASSUME NEW w \in Workers, Busy(w)'
               PROVE  /\ worker'[w].op = "retry" =>
                            /\ \A n \in worker'[w].todo : row'[n].status # "QUEUED"
                            /\ worker'[w].current \in Rows
                               => row'[worker'[w].current].status # "QUEUED"
                      /\ worker'[w].op = "notify" /\ worker'[w].current \in Rows
                         => ~row'[worker'[w].current].held
    BY DEF InHand, Current
  <2>1. \A n \in Rows : /\ row'[n].status = "QUEUED" => row[n].status = "QUEUED"
                        /\ row'[n].held => row[n].held
    BY DEF RowStep
  <2> QED BY <1>5, <1>7, <2>1 DEF InHand, Current
<1> QED BY <1>1, <1>2, <1>3, <1>4, <1>8, <1>9, <1>10
-----------------------------------------------------------------------------
\* A call moves on to another stage, or to its next row.
LEMMA ToStage ==
    ASSUME TableOK, NEW w \in Workers, Busy(w), NEW s \in Stages, To(w, s)
    PROVE  /\ worker' \in [Workers -> Call]
           /\ \A v \in Workers \ {w} : worker'[v] = worker[v]
           /\ worker[w] \in InProgress /\ worker'[w] \in InProgress
           /\ worker'[w].op = worker[w].op /\ worker'[w].todo = worker[w].todo
           /\ worker'[w].current = worker[w].current /\ worker'[w].stage = s
<1>1. worker[w] \in InProgress
  BY BusyType
<1>2. [worker[w] EXCEPT !.stage = s] \in InProgress
  BY <1>1 DEF InProgress
<1>3. worker' = [worker EXCEPT ![w] = [worker[w] EXCEPT !.stage = s]]
  BY DEF To
<1>4. worker'[w] = [worker[w] EXCEPT !.stage = s]
  BY <1>3 DEF TableOK
<1> QED BY <1>1, <1>2, <1>3, <1>4 DEF TableOK, Call, InProgress

LEMMA ToNextRow ==
    ASSUME TableOK, NEW w \in Workers, Busy(w), NextRow(w)
    PROVE  /\ worker' \in [Workers -> Call]
           /\ \A v \in Workers \ {w} : worker'[v] = worker[v]
           /\ worker[w] \in InProgress /\ worker'[w] \in InProgress
           /\ worker'[w].op = worker[w].op /\ worker'[w].todo = worker[w].todo
           /\ worker'[w].current = Null /\ worker'[w].stage = "next"
<1> DEFINE c == [worker[w] EXCEPT !.current = Null, !.stage = "next", !.seen = 0]
<1>1. worker[w] \in InProgress
  BY BusyType
<1>2. c \in InProgress
  BY <1>1 DEF InProgress, Stages
<1>3. worker' = [worker EXCEPT ![w] = c]
  BY DEF NextRow
<1>4. worker'[w] = c
  BY <1>3 DEF TableOK
<1> QED BY <1>1, <1>2, <1>3, <1>4 DEF TableOK, Call, InProgress

\* What follows a delivery is either of the two.
LEMMA AfterDelivery ==
    ASSUME TableOK, HasRow, NEW w \in Workers, Busy(w), worker[w].stage # "next", Delivered(w)
    PROVE  worker' \in [Workers -> Call] /\ \A v \in Workers : CallStep(v)
<1>1. worker[w].current \in Rows
  BY DEF HasRow, Current
<1>2. CASE To(w, "unhold")
  <2>1. "unhold" \in Stages
    BY DEF Stages
  <2> QED BY <1>1, <1>2, <2>1, ToStage DEF CallStep
<1>3. CASE NextRow(w)
  BY <1>3, ToNextRow DEF CallStep
<1> QED BY <1>2, <1>3 DEF Delivered

\* A step to a stage of the delivery of the row in hand.
LEMMA StageStep ==
    ASSUME TableOK, HasRow, NEW w \in Workers, Busy(w), worker[w].stage # "next",
           NEW s \in Stages, To(w, s),
           s = "accepted" /\ worker[w].current \in Mails => accepted'[worker[w].current]
    PROVE  worker' \in [Workers -> Call] /\ \A v \in Workers : CallStep(v)
<1>1. worker[w].current \in Rows
  BY DEF HasRow, Current
<1> QED BY <1>1, ToStage DEF CallStep

\* The actions that leave the table alone, by the stage they lead to.
LEMMA StageActions ==
    ASSUME IInv, NEW w \in Workers,
           \/ SendInApp(w) \/ NoRecipient(w) \/ CircuitOpen(w) \/ CallProvider(w)
           \/ MarkSentFails(w)
    PROVE  Continues
<1>1. Busy(w) /\ worker[w].stage # "next" /\ UNCHANGED <<row, accepted, failures, open>>
  BY DEF SendInApp, NoRecipient, CircuitOpen, CallProvider, MarkSentFails, At, Busy
<1>2. PICK s \in Stages : To(w, s) /\ (s = "accepted" => worker[w].current \notin Mails)
  <2>1. {"accepted", "failed", "calling"} \subseteq Stages
    BY DEF Stages
  <2>2. CASE SendInApp(w)
    BY <2>1, <2>2 DEF SendInApp, Mails, Current
  <2>3. CASE NoRecipient(w) \/ CircuitOpen(w) \/ MarkSentFails(w)
    BY <2>1, <2>3 DEF NoRecipient, CircuitOpen, MarkSentFails
  <2>4. CASE CallProvider(w)
    BY <2>1, <2>4 DEF CallProvider
  <2> QED BY <2>2, <2>3, <2>4
<1>3. worker' \in [Workers -> Call] /\ \A v \in Workers : CallStep(v)
  BY <1>1, <1>2, StageStep DEF IInv
<1> QED BY <1>1, <1>3 DEF Continues, IInv, TableOK, RowStep

LEMMA AcceptContinues ==
    ASSUME IInv, NEW w \in Workers, Accept(w)
    PROVE  Continues
<1>1. Busy(w) /\ worker[w].stage # "next" /\ "accepted" \in Stages
  BY DEF Accept, At, Busy, Stages
<1>2. worker[w].current \in Rows
  BY <1>1 DEF IInv, HasRow, Current
<1>3. accepted' = [accepted EXCEPT ![worker[w].current] = TRUE] /\ accepted \in [Rows -> BOOLEAN]
  BY DEF Accept, Current, IInv, TableOK
<1>4. /\ accepted'[worker[w].current] /\ accepted' \in [Rows -> BOOLEAN]
      /\ \A n \in Rows : accepted[n] => accepted'[n]
  BY <1>2, <1>3
<1>5. worker' \in [Workers -> Call] /\ \A v \in Workers : CallStep(v)
  BY <1>1, <1>4, StageStep DEF Accept, IInv
<1>6. UNCHANGED <<row, open>> /\ failures' \in 0..Threshold
  BY OutboxAssumption DEF Accept
<1> QED BY <1>4, <1>5, <1>6 DEF Continues, IInv, TableOK, RowStep

LEMMA RejectContinues ==
    ASSUME IInv, NEW w \in Workers, Reject(w)
    PROVE  Continues
<1>1. Busy(w) /\ worker[w].stage # "next" /\ "failed" \in Stages
  BY DEF Reject, At, Busy, Stages
<1>2. worker' \in [Workers -> Call] /\ \A v \in Workers : CallStep(v)
  BY <1>1, StageStep DEF Reject, IInv
<1>3. failures' \in 0..Threshold
  BY OutboxAssumption DEF Reject, IInv, TableOK
<1>4. open' \in BOOLEAN
  BY DEF Reject, IInv, TableOK
<1>5. UNCHANGED <<row, accepted>>
  BY DEF Reject
<1> QED BY <1>2, <1>3, <1>4, <1>5 DEF Continues, IInv, TableOK, RowStep
-----------------------------------------------------------------------------
\* Writing one row that is in the table.
LEMMA WriteRow ==
    ASSUME TableOK, NEW n \in Rows, NEW r \in RowType, row' = [row EXCEPT ![n] = r],
           r.status = "ABSENT" <=> row[n].status = "ABSENT",
           r.status = "QUEUED" => row[n].status = "QUEUED",
           r.held => row[n].held,
           r.status = "SENT" /\ n \in Mails => row[n].status = "SENT" \/ accepted'[n],
           r.status = "FAILED" => (r.nextRetryAt = Null <=> r.attempts >= MaxAttempts)
    PROVE  row' \in [Rows -> RowType] /\ \A m \in Rows : RowStep(m)
<1>1. row'[n] = r /\ \A m \in Rows \ {n} : row'[m] = row[m]
  BY DEF TableOK
<1>2. row' \in [Rows -> RowType]
  BY DEF TableOK
<1> QED BY <1>1, <1>2 DEF RowStep

LEMMA MarkSentContinues ==
    ASSUME IInv, NEW w \in Workers, MarkSent(w)
    PROVE  Continues
<1> DEFINE n == worker[w].current
           r == [row[n] EXCEPT !.status = "SENT"]
<1>1. Busy(w) /\ worker[w].stage = "accepted" /\ UNCHANGED <<accepted, failures, open>>
  BY DEF MarkSent, At, Busy
<1>2. n \in Rows /\ row[n] \in RowType /\ row[n].status # "ABSENT"
  BY <1>1 DEF IInv, HasRow, RowsExist, Current, TableOK
<1>3. n \in Mails => accepted'[n]
  BY <1>1 DEF IInv, AcceptedInHand, Current
<1>4. r \in RowType /\ r.status = "SENT" /\ r.held = row[n].held
  BY <1>2 DEF RowType
<1>5. row' = [row EXCEPT ![n] = r]
  BY DEF MarkSent, Current
<1>6. row' \in [Rows -> RowType] /\ \A m \in Rows : RowStep(m)
  BY <1>2, <1>3, <1>4, <1>5, WriteRow DEF IInv
<1>7. worker' \in [Workers -> Call] /\ \A v \in Workers : CallStep(v)
  BY <1>1, AfterDelivery DEF MarkSent, IInv
<1> QED BY <1>1, <1>6, <1>7 DEF Continues, IInv, TableOK

LEMMA MarkFailedContinues ==
    ASSUME IInv, NEW w \in Workers, MarkFailed(w)
    PROVE  Continues
<1> DEFINE n == worker[w].current
           a == worker[w].seen + 1
           r == Failed(row[n], a)
<1>1. Busy(w) /\ worker[w].stage = "failing" /\ UNCHANGED <<accepted, failures, open>>
  BY DEF MarkFailed, At, Busy
<1>2. n \in Rows /\ row[n] \in RowType /\ row[n].status # "ABSENT"
  BY <1>1 DEF IInv, HasRow, RowsExist, Current, TableOK
<1>3. a \in Nat
  BY <1>1, BusyType DEF IInv, InProgress
<1>4. /\ r \in RowType /\ r.status = "FAILED" /\ r.held = row[n].held
      /\ r.nextRetryAt = Null <=> r.attempts >= MaxAttempts
  BY <1>2, <1>3, NullIsNoRow, OutboxAssumption DEF Failed, Exhausted, RowType
<1>5. row' = [row EXCEPT ![n] = r]
  BY DEF MarkFailed, Current
<1> HIDE DEF r
<1>6. row' \in [Rows -> RowType] /\ \A m \in Rows : RowStep(m)
  BY <1>2, <1>4, <1>5, WriteRow DEF IInv
<1>7. worker' \in [Workers -> Call] /\ \A v \in Workers : CallStep(v)
  BY <1>1, AfterDelivery DEF MarkFailed, IInv
<1> QED BY <1>1, <1>6, <1>7 DEF Continues, IInv, TableOK

LEMMA UnholdContinues ==
    ASSUME IInv, NEW w \in Workers, Unhold(w)
    PROVE  Continues
<1> DEFINE n == worker[w].current
           r == [row[n] EXCEPT !.held = FALSE]
<1>1. Busy(w) /\ worker[w].stage = "unhold" /\ UNCHANGED <<accepted, failures, open>>
  BY DEF Unhold, At, Busy
<1>2. n \in Rows /\ row[n] \in RowType /\ row[n].status # "ABSENT"
  BY <1>1 DEF IInv, HasRow, RowsExist, Current, TableOK
<1>3. /\ r \in RowType /\ ~r.held /\ r.status = row[n].status
      /\ r.nextRetryAt = row[n].nextRetryAt /\ r.attempts = row[n].attempts
  BY <1>2 DEF RowType
<1>4. row[n].status = "FAILED" => (row[n].nextRetryAt = Null <=> row[n].attempts >= MaxAttempts)
  BY <1>2 DEF IInv, ScheduledOrExhausted
<1>5. row' = [row EXCEPT ![n] = r]
  BY DEF Unhold, Current
<1>6. row' \in [Rows -> RowType] /\ \A m \in Rows : RowStep(m)
  BY <1>2, <1>3, <1>4, <1>5, WriteRow DEF IInv
<1>7. worker' \in [Workers -> Call] /\ \A v \in Workers : CallStep(v)
  BY <1>1, ToNextRow DEF Unhold, IInv, CallStep
<1> QED BY <1>1, <1>6, <1>7 DEF Continues, IInv, TableOK

LEMMA ReadAttemptsContinues ==
    ASSUME IInv, NEW w \in Workers, ReadAttempts(w)
    PROVE  Continues
<1> DEFINE c == [worker[w] EXCEPT !.stage = "failing", !.seen = row[worker[w].current].attempts]
<1>1. Busy(w) /\ worker[w].stage = "failed" /\ UNCHANGED <<row, accepted, failures, open>>
  BY DEF ReadAttempts, At, Busy
<1>2. worker[w] \in InProgress /\ worker[w].current \in Rows
  BY <1>1, BusyType DEF IInv, HasRow, Current
<1>3. row[worker[w].current].attempts \in Nat
  BY <1>2 DEF IInv, TableOK, RowType
<1>4. /\ c \in InProgress /\ c.op = worker[w].op /\ c.todo = worker[w].todo
      /\ c.current = worker[w].current /\ c.stage = "failing"
  BY <1>2, <1>3 DEF InProgress, Stages
<1>5. worker' = [worker EXCEPT ![w] = c]
  BY DEF ReadAttempts, Current
<1> HIDE DEF c
<1>6. worker' \in [Workers -> Call] /\ \A v \in Workers : CallStep(v)
  BY <1>2, <1>4, <1>5 DEF IInv, TableOK, Call, CallStep
<1> QED BY <1>1, <1>6 DEF Continues, IInv, TableOK, RowStep

LEMMA TakeContinues ==
    ASSUME IInv, NEW w \in Workers, NEW n \in Rows, Take(w, n)
    PROVE  Continues
<1> DEFINE c == [worker[w] EXCEPT !.todo = @ \ {n}, !.current = n, !.stage = "send"]
<1>1. /\ Busy(w) /\ worker[w].op # "notify" /\ n \in worker[w].todo
      /\ UNCHANGED <<row, accepted, failures, open>>
  BY DEF Take, At, Busy
<1>2. worker[w] \in InProgress
  BY <1>1, BusyType DEF IInv
<1>3. /\ c \in InProgress /\ c.op = worker[w].op /\ c.todo \subseteq worker[w].todo
      /\ c.current = n /\ c.stage = "send"
  BY <1>2 DEF InProgress, Stages
<1>4. worker' = [worker EXCEPT ![w] = c]
  BY DEF Take
<1> HIDE DEF c
<1>5. worker' \in [Workers -> Call] /\ \A v \in Workers : CallStep(v)
  BY <1>1, <1>2, <1>3, <1>4 DEF IInv, TableOK, Call, CallStep
<1> QED BY <1>1, <1>5 DEF Continues, IInv, TableOK, RowStep

LEMMA EndContinues ==
    ASSUME IInv, NEW w \in Workers, Finish(w) \/ Aborted(w)
    PROVE  Continues
<1>1. worker' = [worker EXCEPT ![w] = Idle] /\ UNCHANGED <<row, accepted, failures, open>>
  BY DEF Finish, Aborted
<1>2. worker' \in [Workers -> Call] /\ \A v \in Workers : CallStep(v)
  BY <1>1 DEF IInv, TableOK, Call, CallStep
<1> QED BY <1>1, <1>2 DEF Continues, IInv, TableOK, RowStep

LEMMA SwallowedContinues ==
    ASSUME IInv, NEW w \in Workers, Swallowed(w)
    PROVE  Continues
<1>1. Busy(w) /\ worker[w].stage # "next" /\ UNCHANGED <<row, accepted, failures, open>>
  BY DEF Swallowed, At, Busy
<1>2. worker' \in [Workers -> Call] /\ \A v \in Workers : CallStep(v)
  BY <1>1, AfterDelivery DEF Swallowed, IInv
<1> QED BY <1>1, <1>2 DEF Continues, IInv, TableOK, RowStep

LEMMA MarkReadContinues ==
    ASSUME IInv, NEW n \in Rows, MarkRead(n)
    PROVE  Continues
<1> DEFINE r == [row[n] EXCEPT !.status = "READ"]
<1>1. row[n] \in RowType /\ row[n].status # "ABSENT" /\ UNCHANGED <<accepted, failures, open, worker>>
  BY DEF MarkRead, IInv, TableOK
<1>2. r \in RowType /\ r.status = "READ" /\ r.held = row[n].held
  BY <1>1 DEF RowType
<1>3. row' = [row EXCEPT ![n] = r]
  BY DEF MarkRead
<1>4. row' \in [Rows -> RowType] /\ \A m \in Rows : RowStep(m)
  BY <1>1, <1>2, <1>3, WriteRow DEF IInv
<1> QED BY <1>1, <1>4 DEF Continues, IInv, TableOK, CallStep

LEMMA TimeContinues ==
    ASSUME IInv, (\E n \in Rows : BackoffElapses(n)) \/ CooldownElapses \/ Crash
    PROVE  Continues
<1>1. CASE \E n \in Rows : BackoffElapses(n)
  <2>1. PICK n \in Rows : BackoffElapses(n)
    BY <1>1
  <2> DEFINE r == [row[n] EXCEPT !.nextRetryAt = "due"]
  <2>2. /\ row[n] \in RowType /\ row[n].nextRetryAt = "waiting"
        /\ UNCHANGED <<accepted, failures, open, worker>>
    BY <2>1 DEF BackoffElapses, IInv, TableOK
  <2>3. /\ r \in RowType /\ r.status = row[n].status /\ r.held = row[n].held
        /\ r.nextRetryAt = "due" /\ r.attempts = row[n].attempts
    BY <2>2 DEF RowType
  <2>4. row[n].status = "FAILED" => ~(row[n].attempts >= MaxAttempts)
    BY <2>2, NullIsNoRow DEF IInv, ScheduledOrExhausted
  <2>5. row' = [row EXCEPT ![n] = r]
    BY <2>1 DEF BackoffElapses
  <2> HIDE DEF r
  <2>6. row' \in [Rows -> RowType] /\ \A m \in Rows : RowStep(m)
    BY <2>3, <2>4, <2>5, NullIsNoRow, WriteRow DEF IInv
  <2> QED BY <2>2, <2>6 DEF Continues, IInv, TableOK, CallStep
<1>2. CASE CooldownElapses
  BY <1>2 DEF CooldownElapses, Continues, IInv, TableOK, RowStep, CallStep
<1>3. CASE Crash
  <2>1. worker' \in [Workers -> Call] /\ \A v \in Workers : CallStep(v)
    BY <1>3 DEF Crash, Call, CallStep
  <2>2. failures' = 0 /\ open' = FALSE /\ UNCHANGED <<row, accepted>>
    BY <1>3 DEF Crash
  <2>3. failures' \in 0..Threshold
    BY <2>2, OutboxAssumption
  <2>4. open' \in BOOLEAN
    BY <2>2
  <2> QED BY <2>1, <2>2, <2>3, <2>4 DEF Continues, IInv, TableOK, RowStep
<1> QED BY <1>1, <1>2, <1>3
-----------------------------------------------------------------------------
\* A call starts: it has no row in hand, and rows to do that fit what it is.
LEMMA StartKeepsIInv ==
    ASSUME IInv, NEW w \in Workers, NEW op \in {"notify", "retry", "flush"},
           NEW held \in BOOLEAN, NEW todo \in SUBSET Rows, Start(w, op, held, todo),
           op = "notify" => \A n \in todo :
               /\ row[n].status = "ABSENT"
               /\ \A v \in Workers : Busy(v) => n \notin worker[v].todo,
           op # "notify" => \A n \in todo : row[n].status # "ABSENT",
           op = "retry" => \A n \in todo : row[n].status # "QUEUED"
    PROVE  IInv'
<1> DEFINE c == [op |-> op, held |-> held, todo |-> todo,
                 current |-> Null, stage |-> "next", seen |-> 0]
<1> USE DEF IInv
<1>1. /\ worker[w] = Idle /\ worker' = [worker EXCEPT ![w] = c]
      /\ UNCHANGED <<row, accepted, failures, open>>
  BY DEF Start
<1>2. /\ c \in InProgress /\ c.op = op /\ c.todo = todo /\ c.current = Null /\ c.stage = "next"
  BY DEF InProgress, Stages
<1> HIDE DEF c
<1>3. /\ worker' \in [Workers -> Call] /\ worker'[w] = c
      /\ \A v \in Workers \ {w} : worker'[v] = worker[v]
  BY <1>1, <1>2 DEF TableOK, Call
<1>4. TableOK'
  BY <1>1, <1>3 DEF TableOK
<1>5. SentMeansAccepted' /\ ScheduledOrExhausted'
  BY <1>1 DEF SentMeansAccepted, ScheduledOrExhausted, Mails, Channel
<1>6. HasRow'
  BY <1>2, <1>3 DEF HasRow, Busy, Current
<1>7. AcceptedInHand'
  BY <1>1, <1>2, <1>3 DEF AcceptedInHand, Busy, Current, Mails, Channel
<1>8. NotifyOwns'
  <2> SUFFICES ASSUME NEW u \in Workers, Busy(u)', worker'[u].op = "notify"
               PROVE  /\ \A n \in worker'[u].todo : row'[n].status = "ABSENT"
                      /\ \A v \in Workers \ {u} :
                            Busy(v)' => worker'[v].todo \cap worker'[u].todo = {}
    BY DEF NotifyOwns
  <2>1. CASE u = w
    BY <1>1, <1>2, <1>3, <2>1 DEF Busy
  <2>2. CASE u # w
    <3>1. Busy(u) /\ worker[u].op = "notify" /\ worker'[u] = worker[u]
      BY <1>3, <2>2 DEF Busy
    <3>2. \A n \in worker[u].todo : row[n].status = "ABSENT"
      BY <3>1 DEF NotifyOwns
    <3>3. worker'[w].todo \cap worker[u].todo = {}
      <4>1. CASE op = "notify"
        BY <1>2, <1>3, <3>1, <4>1
      <4>2. CASE op # "notify"
        BY <1>2, <1>3, <3>2, <4>2
      <4> QED BY <4>1, <4>2
    <3>4. \A v \in Workers \ {u, w} :
             Busy(v)' => worker'[v].todo \cap worker[u].todo = {}
      BY <1>3, <3>1 DEF NotifyOwns, Busy
    <3> QED BY <1>1, <3>1, <3>2, <3>3, <3>4
  <2> QED BY <2>1, <2>2
<1>9. RowsExist'
  BY <1>1, <1>2, <1>3, NullIsNoRow DEF RowsExist, Busy, Current
<1>10. InHand'
  BY <1>1, <1>2, <1>3, NullIsNoRow DEF InHand, Busy, Current
<1> QED BY <1>4, <1>5, <1>6, <1>7, <1>8, <1>9, <1>10

LEMMA StartsKeepIInv ==
    ASSUME IInv, NEW w \in Workers,
           \/ \E m \in Messages, cs \in Preferences, held \in BOOLEAN : Notify(w, m, cs, held)
           \/ StartRetry(w) \/ StartFlush(w)
    PROVE  IInv'
<1>1. CASE \E m \in Messages, cs \in Preferences, held \in BOOLEAN : Notify(w, m, cs, held)
  <2>1. PICK m \in Messages, cs \in Preferences, held \in BOOLEAN : Notify(w, m, cs, held)
    BY <1>1
  <2> DEFINE todo == {m} \X cs
  <2>2. cs \subseteq Channels /\ todo \subseteq {m} \X Channels /\ todo \subseteq Rows
    BY OutboxAssumption DEF Rows
  <2>3. \A n \in todo : /\ row[n].status = "ABSENT"
                        /\ \A v \in Workers : Busy(v) => n \notin worker[v].todo
    BY <2>1, <2>2 DEF Notify, Busy
  <2>4. Start(w, "notify", held, todo)
    BY <2>1 DEF Notify
  <2> QED BY <2>2, <2>3, <2>4, StartKeepsIInv
<1>2. CASE StartRetry(w)
  <2>1. /\ Due \subseteq Rows /\ Start(w, "retry", FALSE, Due)
        /\ \A n \in Due : row[n].status = "FAILED"
    BY <1>2 DEF StartRetry, Due
  <2> QED BY <2>1, StartKeepsIInv
<1>3. CASE StartFlush(w)
  <2>1. /\ Held \subseteq Rows /\ Start(w, "flush", FALSE, Held)
        /\ \A n \in Held : row[n].status = "QUEUED"
    BY <1>3 DEF StartFlush, Held
  <2> QED BY <2>1, StartKeepsIInv
<1> QED BY <1>1, <1>2, <1>3

\* notify() creates its next row, which is nobody else's.
LEMMA CreateKeepsIInv ==
    ASSUME IInv, NEW w \in Workers, NEW n \in Rows, Create(w, n)
    PROVE  IInv'
<1> DEFINE c == worker'[w]
           r == NewRow("QUEUED", worker[w].held)
<1> USE DEF IInv
<1>1. /\ Busy(w) /\ worker[w].stage = "next" /\ worker[w].op = "notify" /\ n \in worker[w].todo
      /\ row' = [row EXCEPT ![n] = r] /\ UNCHANGED <<accepted, failures, open>>
  BY DEF Create, At, Busy
<1>2. worker[w] \in InProgress /\ row[n].status = "ABSENT"
  BY <1>1, BusyType DEF NotifyOwns
<1>3. /\ c \in InProgress /\ c.op = "notify" /\ c.todo = worker[w].todo \ {n}
      /\ worker' \in [Workers -> Call] /\ \A v \in Workers \ {w} : worker'[v] = worker[v]
      /\ \/ c.current = worker[w].current /\ c.stage = "next"
         \/ c.current = n /\ c.stage = "send" /\ ~worker[w].held
  <2> DEFINE a == [worker[w] EXCEPT !.todo = @ \ {n}]
             b == [worker[w] EXCEPT !.todo = @ \ {n}, !.current = n, !.stage = "send"]
  <2>1. a \in InProgress /\ b \in InProgress
    BY <1>2 DEF InProgress, Stages
  <2>2. CASE worker[w].held
    <3>1. worker' = [worker EXCEPT ![w] = a]
      BY <2>2 DEF Create
    <3>2. /\ a.op = "notify" /\ a.todo = worker[w].todo \ {n}
          /\ a.current = worker[w].current /\ a.stage = "next"
      BY <1>1, <1>2 DEF InProgress
    <3> HIDE DEF a
    <3> QED BY <2>1, <3>1, <3>2 DEF TableOK, Call
  <2>3. CASE ~worker[w].held
    <3>1. worker' = [worker EXCEPT ![w] = b]
      BY <2>3 DEF Create
    <3>2. /\ b.op = "notify" /\ b.todo = worker[w].todo \ {n}
          /\ b.current = n /\ b.stage = "send"
      BY <1>1, <1>2 DEF InProgress
    <3> HIDE DEF b
    <3> QED BY <2>1, <2>3, <3>1, <3>2 DEF TableOK, Call
  <2> QED BY <2>2, <2>3
<1>4. r \in RowType /\ r.status = "QUEUED" /\ r.held = worker[w].held
  BY <1>2 DEF NewRow, RowType, InProgress
<1> HIDE DEF c, r
<1>5. /\ row' \in [Rows -> RowType] /\ row'[n] = r
      /\ \A m \in Rows \ {n} : row'[m] = row[m]
  BY <1>1, <1>4 DEF TableOK
<1>6. Busy(w)' /\ worker'[w] = c /\ \A v \in Workers \ {w} : Busy(v)' <=> Busy(v)
  BY <1>3 DEF c, Busy, InProgress, Idle
<1>7. \A v \in Workers : Busy(v) => worker[v].todo \subseteq Rows
  BY BusyType DEF InProgress
<1>8. \A v \in Workers \ {w} : Busy(v) =>
         n \notin worker[v].todo /\ worker[v].current # n
  BY <1>1, <1>2 DEF NotifyOwns, RowsExist, Current
<1>9. worker[w].current # n
  BY <1>1, <1>2 DEF RowsExist, Current
<1>10. TableOK'
  BY <1>1, <1>3, <1>5 DEF TableOK
<1>11. SentMeansAccepted' /\ ScheduledOrExhausted'
  BY <1>1, <1>4, <1>5 DEF SentMeansAccepted, ScheduledOrExhausted, Mails, Channel
<1>12. HasRow'
  BY <1>3, <1>6 DEF HasRow, Current, Busy
<1>13. AcceptedInHand'
  BY <1>1, <1>3, <1>6 DEF AcceptedInHand, Current, Busy, Mails, Channel
<1>14. NotifyOwns'
  <2> SUFFICES ASSUME NEW u \in Workers, Busy(u)', worker'[u].op = "notify"
               PROVE  /\ \A m \in worker'[u].todo : row'[m].status = "ABSENT"
                      /\ \A v \in Workers \ {u} :
                            Busy(v)' => worker'[v].todo \cap worker'[u].todo = {}
    BY DEF NotifyOwns
  <2>1. Busy(u) /\ worker[u].op = "notify" /\ worker'[u].todo = worker[u].todo \ {n}
    BY <1>1, <1>3, <1>6, <1>8
  <2>2. \A v \in Workers : Busy(v)' => Busy(v) /\ worker'[v].todo \subseteq worker[v].todo
    BY <1>1, <1>3, <1>6
  <2> QED BY <1>5, <1>7, <2>1, <2>2 DEF NotifyOwns
<1>15. RowsExist'
  <2> SUFFICES ASSUME NEW u \in Workers, Busy(u)'
               PROVE  /\ worker'[u].current \in Rows
                         => row'[worker'[u].current].status # "ABSENT"
                      /\ worker'[u].op # "notify"
                         => \A m \in worker'[u].todo : row'[m].status # "ABSENT"
    BY DEF RowsExist, Current
  <2>1. CASE u = w
    BY <1>1, <1>3, <1>4, <1>5, <1>6, <1>9, <2>1 DEF RowsExist, Current
  <2>2. CASE u # w
    BY <1>3, <1>5, <1>6, <1>7, <1>8, <2>2 DEF RowsExist, Current
  <2> QED BY <2>1, <2>2
<1>16. InHand'
  <2> SUFFICES ASSUME NEW u \in Workers, Busy(u)'
               PROVE  /\ worker'[u].op = "retry" =>
                            /\ \A m \in worker'[u].todo : row'[m].status # "QUEUED"
                            /\ worker'[u].current \in Rows
                               => row'[worker'[u].current].status # "QUEUED"
                      /\ worker'[u].op = "notify" /\ worker'[u].current \in Rows
                         => ~row'[worker'[u].current].held
    BY DEF InHand, Current
  <2>1. CASE u = w
    BY <1>1, <1>3, <1>4, <1>5, <1>6, <1>9, <2>1 DEF InHand, Current
  <2>2. CASE u # w
    BY <1>3, <1>5, <1>6, <1>7, <1>8, <2>2 DEF InHand, Current
  <2> QED BY <2>1, <2>2
<1> QED BY <1>10, <1>11, <1>12, <1>13, <1>14, <1>15, <1>16
-----------------------------------------------------------------------------
LEMMA InitIInv == Init => IInv
<1> SUFFICES ASSUME Init PROVE IInv
  OBVIOUS
<1>1. TableOK
  <2>1. NewRow("ABSENT", FALSE) \in RowType
    BY DEF NewRow, RowType
  <2>2. row \in [Rows -> RowType] /\ accepted \in [Rows -> BOOLEAN]
    BY <2>1 DEF Init
  <2>3. failures \in 0..Threshold
    BY OutboxAssumption DEF Init
  <2>4. open \in BOOLEAN
    BY DEF Init
  <2>5. worker \in [Workers -> Call]
    BY DEF Init, Call
  <2> QED BY <2>2, <2>3, <2>4, <2>5 DEF TableOK
<1>2. \A w \in Workers : ~Busy(w)
  BY DEF Init, Busy
<1>3. \A n \in Rows : row[n].status = "ABSENT"
  BY DEF Init, NewRow
<1> QED BY <1>1, <1>2, <1>3
        DEF IInv, SentMeansAccepted, ScheduledOrExhausted, Mails, HasRow, AcceptedInHand,
            NotifyOwns, RowsExist, InHand

\* Every step keeps the invariant: by the kinds of step above.
LEMMA NextIInv == IInv /\ [Next]_vars => IInv'
<1> SUFFICES ASSUME IInv, [Next]_vars PROVE IInv'
  OBVIOUS
<1>1. CASE UNCHANGED vars
  <2>1. Continues
    BY <1>1 DEF vars, Continues, IInv, TableOK, RowStep, CallStep
  <2> QED BY <2>1, ContinuesKeepsIInv
<1>2. ASSUME NEW w \in Workers,
             \/ \E m \in Messages, cs \in Preferences, held \in BOOLEAN :
                   Notify(w, m, cs, held)
             \/ StartRetry(w) \/ StartFlush(w)
      PROVE  IInv'
  BY <1>2, StartsKeepIInv
<1>3. ASSUME NEW w \in Workers, NEW n \in Rows, Create(w, n)
      PROVE  IInv'
  BY <1>3, CreateKeepsIInv
<1>4. ASSUME NEW w \in Workers, Deliver(w) \/ Swallowed(w) \/ Aborted(w) \/ Finish(w)
      PROVE  IInv'
  <2>1. Continues
    BY <1>4, StageActions, AcceptContinues, RejectContinues, MarkSentContinues,
       MarkFailedContinues, UnholdContinues, ReadAttemptsContinues, EndContinues,
       SwallowedContinues DEF Deliver
  <2> QED BY <2>1, ContinuesKeepsIInv
<1>5. ASSUME NEW w \in Workers, NEW n \in Rows, Take(w, n)
      PROVE  IInv'
  BY <1>5, TakeContinues, ContinuesKeepsIInv
<1>6. ASSUME \/ \E n \in Rows : MarkRead(n) \/ BackoffElapses(n)
             \/ CooldownElapses \/ Crash
      PROVE  IInv'
  BY <1>6, MarkReadContinues, TimeContinues, ContinuesKeepsIInv
<1> QED BY <1>1, <1>2, <1>3, <1>4, <1>5, <1>6 DEF Next, Proceed

\* The invariant the other theorems rest on: the types, and what every call in
\* progress may assume of the rows that it has read or has in hand.
THEOREM OutboxInvariant == Spec => []IInv
<1>1. Init /\ [][Next]_vars => []IInv
  BY InitIInv, NextIInv, PTL
<1> QED BY <1>1, PTL DEF Spec

\* What a step does to the history of tries: a row is counted once more, or not
\* any more.
LEMMA NextTries ==
    ASSUME tries \in [Rows -> Nat \cup {Null}], [Next]_vars
    PROVE  tries' \in [Rows -> Nat \cup {Null}]
<1>1. \A n \in Rows : /\ Untold(n) \in [Rows -> Nat \cup {Null}]
                     /\ Tried(n) \in [Rows -> Nat \cup {Null}]
  BY DEF Untold, Tried
<1>2. CASE UNCHANGED vars
  BY <1>2 DEF vars
<1>3. ASSUME NEW w \in Workers, NEW op, NEW held, NEW todo, Start(w, op, held, todo)
      PROVE  tries' \in [Rows -> Nat \cup {Null}]
  BY <1>3 DEF Start
<1>4. ASSUME NEW w \in Workers,
             \/ \E m \in Messages, cs \in Preferences, held \in BOOLEAN : Notify(w, m, cs, held)
             \/ StartRetry(w) \/ StartFlush(w)
      PROVE  tries' \in [Rows -> Nat \cup {Null}]
  BY <1>3, <1>4 DEF Notify, StartRetry, StartFlush
<1>5. ASSUME NEW w \in Workers, Deliver(w) \/ Finish(w) \/ Aborted(w)
      PROVE  tries' = tries
  BY <1>5 DEF Deliver, Finish, Aborted, SendInApp, NoRecipient, CircuitOpen, CallProvider, Accept,
              Reject, MarkSent, MarkSentFails, ReadAttempts, MarkFailed, Unhold
<1>6. ASSUME NEW w \in Workers, Swallowed(w)
      PROVE  tries' \in [Rows -> Nat \cup {Null}]
  BY <1>6 DEF Swallowed, Untold
<1>7. ASSUME NEW w \in Workers, NEW n \in Rows, Create(w, n) \/ Take(w, n)
      PROVE  tries' \in [Rows -> Nat \cup {Null}]
  BY <1>1, <1>7 DEF Create, Take
<1>8. ASSUME \/ \E n \in Rows : MarkRead(n) \/ BackoffElapses(n)
             \/ CooldownElapses \/ Crash
      PROVE  tries' \in [Rows -> Nat \cup {Null}]
  BY <1>8 DEF MarkRead, BackoffElapses, CooldownElapses, Crash
<1> QED BY <1>2, <1>4, <1>5, <1>6, <1>7, <1>8 DEF Next, Proceed

\* The notification table, the breaker and the calls in progress keep their
\* types, whatever overlaps and whatever the database refuses.
THEOREM OutboxTypeOK == Spec => []TypeOK
<1>1. Init => TypeOK
  BY InitIInv DEF IInv, TypeOK, Init
<1>2. IInv /\ TypeOK /\ [Next]_vars => TypeOK'
  BY NextIInv, NextTries DEF IInv, TypeOK
<1>3. Init /\ [][Next]_vars => []TypeOK
  BY <1>1, <1>2, InitIInv, NextIInv, PTL
<1> QED BY <1>3, PTL DEF Spec

\* A mail recorded as SENT (markSent) was accepted by the provider, for any
\* number of overlapping deliveries, through open circuits and restarts.
THEOREM SentWasAccepted == Spec => []SentMeansAccepted
<1>1. IInv => SentMeansAccepted
  BY DEF IInv
<1> QED BY <1>1, OutboxInvariant, PTL

\* markFailed leaves no row with attempts to spend and no time to spend them,
\* however many calls write the count of one row over each other.
THEOREM FailuresAreScheduled == Spec => []ScheduledOrExhausted
<1>1. IInv => ScheduledOrExhausted
  BY DEF IInv
<1> QED BY <1>1, OutboxInvariant, PTL

\* A row that waits for the end of quiet hours is in the hands of a flush or
\* of nobody: neither notify() nor a retry delivers it.
THEOREM QuietHoursAreKept == Spec => []QuietRowsWait
<1>1. IInv => QuietRowsWait
  <2> SUFFICES ASSUME IInv, NEW n \in Rows, NEW w \in Workers,
                      row[n].status = "QUEUED", row[n].held, Busy(w), Current(w) = n
               PROVE  worker[w].op = "flush"
    BY DEF QuietRowsWait, Busy
  <2>1. worker[w] \in InProgress
    BY BusyType DEF IInv
  <2>2. worker[w].op # "retry" /\ worker[w].op # "notify"
    BY DEF IInv, InHand
  <2> QED BY <2>1, <2>2 DEF InProgress
<1> QED BY <1>1, OutboxInvariant, PTL
-----------------------------------------------------------------------------
\* How often a row is attempted, while at most two calls overlap.
AtMostTwo == \A u, v, w \in Workers : u = v \/ v = w \/ u = w

\* A call may still write the count of a row.
Pending(w, n) ==
    /\ Busy(w)
    /\ n \in worker[w].todo \/ (Current(w) = n /\ worker[w].stage \in Delivering)

\* A row that was never tried has no attempts to its name.
Fresh == \A n \in Rows : row[n].status \in {"ABSENT", "QUEUED"} => row[n].attempts = 0

\* Nobody delivers a row twice in one sweep.
OnceEach == \A w \in Workers : Busy(w) => Current(w) \notin worker[w].todo

\* At the limit one call at least is done with the row, and beyond it, one
\* attempt too many, both are; what a call read at the limit still holds.
AtLimit ==
    \A n \in Rows : row[n].attempts = MaxAttempts => \E w \in Workers : ~Pending(w, n)
BeyondLimit ==
    \A n \in Rows : row[n].attempts > MaxAttempts =>
        /\ row[n].attempts = MaxAttempts + 1
        /\ \A w \in Workers : ~Pending(w, n)
        /\ \E u, v \in Workers : u # v
ReadAtLimit ==
    \A w \in Workers :
        /\ Busy(w) /\ worker[w].stage = "failing" /\ worker[w].seen >= MaxAttempts
        => row[Current(w)].attempts = worker[w].seen

BoundInv == Fresh /\ OnceEach /\ AtLimit /\ BeyondLimit /\ ReadAtLimit

\* Most steps leave every count alone, queue nothing that was tried, and bring
\* no call nearer to writing a count: it goes on with what it has, or ends.
CallEases(w) ==
    \/ worker'[w] \in {worker[w], Idle}
    \/ /\ worker[w] \in InProgress /\ worker'[w] \in InProgress
       /\ worker'[w].todo \subseteq worker[w].todo
       /\ worker'[w].current \notin worker'[w].todo
       /\ worker'[w].stage # "failing"
       /\ \/ worker'[w].stage \notin Delivering
          \/ worker'[w].current \in worker[w].todo
          \/ worker'[w].current = worker[w].current /\ worker[w].stage \in Delivering

Eases ==
    /\ \A n \in Rows : row'[n].attempts = row[n].attempts
    /\ \A n \in Rows : row'[n].status \in {"ABSENT", "QUEUED"}
                       => row[n].status \in {"ABSENT", "QUEUED"}
    /\ \A w \in Workers : CallEases(w)

LEMMA EasesPending ==
    ASSUME NEW w \in Workers, CallEases(w), NEW n, Pending(w, n)'
    PROVE  Pending(w, n)
<1>1. Busy(w)' /\ (n \in worker'[w].todo
                   \/ (worker'[w].current = n /\ worker'[w].stage \in Delivering))
  BY DEF Pending, Current, Busy
<1>2. CASE worker'[w] = worker[w]
  BY <1>1, <1>2 DEF Pending, Current, Busy
<1>3. CASE worker'[w] # worker[w]
  <2>1. worker[w] \in InProgress
    BY <1>1, <1>3 DEF CallEases, Busy
  <2>2. Busy(w)
    BY <2>1 DEF InProgress, Idle, Busy
  <2> QED BY <1>1, <1>3, <2>2 DEF CallEases, Pending, Current, Busy
<1> QED BY <1>2, <1>3

LEMMA EasesKeepsBound ==
    ASSUME IInv, BoundInv, Eases
    PROVE  BoundInv'
<1> USE DEF BoundInv
<1>1. \A n \in Rows : row'[n].attempts = row[n].attempts
  BY DEF Eases
<1>2. \A w \in Workers : \A n \in Rows : Pending(w, n)' => Pending(w, n)
  BY EasesPending DEF Eases
<1>3. Fresh'
  BY <1>1 DEF Eases, Fresh
<1>4. OnceEach'
  BY DEF Eases, CallEases, OnceEach, Current, Busy
<1>5. AtLimit'
  <2> SUFFICES ASSUME NEW n \in Rows, row'[n].attempts = MaxAttempts
               PROVE  \E w \in Workers : ~Pending(w, n)'
    BY DEF AtLimit
  <2> QED BY <1>1, <1>2 DEF AtLimit
<1>6. BeyondLimit'
  <2> SUFFICES ASSUME NEW n \in Rows, row'[n].attempts > MaxAttempts
               PROVE  /\ row'[n].attempts = MaxAttempts + 1
                      /\ \A w \in Workers : ~Pending(w, n)'
                      /\ \E u, v \in Workers : u # v
    BY DEF BeyondLimit
  <2> QED BY <1>1, <1>2 DEF BeyondLimit
<1>7. ReadAtLimit'
  <2> SUFFICES ASSUME NEW w \in Workers, Busy(w)', worker'[w].stage = "failing",
                      worker'[w].seen >= MaxAttempts
               PROVE  row'[worker'[w].current].attempts = worker'[w].seen
    BY DEF ReadAtLimit, Current
  <2>1. worker'[w] = worker[w]
    BY DEF Eases, CallEases, Busy
  <2>2. Busy(w) /\ worker[w].current \in Rows
    BY <2>1 DEF Busy, IInv, HasRow, Current
  <2> QED BY <1>1, <2>1, <2>2 DEF ReadAtLimit, Current
<1> QED BY <1>3, <1>4, <1>5, <1>6, <1>7
-----------------------------------------------------------------------------
LEMMA StageEases ==
    ASSUME TableOK, OnceEach, NEW w \in Workers, Busy(w),
           NEW s \in Stages \ {"failing"}, To(w, s),
           worker[w].stage \in Delivering \/ s \notin Delivering
    PROVE  \A v \in Workers : CallEases(v)
<1>1. worker[w].current \notin worker[w].todo
  BY DEF OnceEach, Current
<1> QED BY <1>1, ToStage DEF CallEases

LEMMA NextRowEases ==
    ASSUME TableOK, NEW w \in Workers, Busy(w), NextRow(w)
    PROVE  \A v \in Workers : CallEases(v)
<1>1. worker[w].todo \subseteq Rows
  BY BusyType DEF InProgress
<1> QED BY <1>1, ToNextRow, NullIsNoRow DEF CallEases, Delivering

LEMMA DeliveredEases ==
    ASSUME TableOK, OnceEach, NEW w \in Workers, Busy(w), Delivered(w)
    PROVE  \A v \in Workers : CallEases(v)
<1>1. "unhold" \in Stages \ {"failing"} /\ "unhold" \notin Delivering
  BY DEF Stages, Delivering
<1> QED BY <1>1, StageEases, NextRowEases DEF Delivered

\* The delivery of a row, but for the two steps of markFailed.
LEMMA DeliveryEases ==
    ASSUME IInv, BoundInv, NEW w \in Workers,
           \/ SendInApp(w) \/ NoRecipient(w) \/ CircuitOpen(w) \/ CallProvider(w)
           \/ Accept(w) \/ Reject(w) \/ MarkSentFails(w) \/ Swallowed(w)
    PROVE  Eases
<1>1. Busy(w) /\ worker[w].stage \in Delivering /\ row' = row
  BY DEF SendInApp, NoRecipient, CircuitOpen, CallProvider, Accept, Reject, MarkSentFails,
         Swallowed, At, Busy, Delivering
<1>2. {"accepted", "failed", "calling"} \subseteq Stages \ {"failing"}
  BY DEF Stages
<1>3. CASE Swallowed(w)
  BY <1>1, <1>3, DeliveredEases DEF Swallowed, Eases, IInv, BoundInv
<1>4. CASE ~Swallowed(w)
  <2>1. PICK s \in Stages \ {"failing"} : To(w, s)
    BY <1>2, <1>4 DEF SendInApp, NoRecipient, CircuitOpen, CallProvider, Accept, Reject,
                      MarkSentFails
  <2> QED BY <1>1, <2>1, StageEases DEF Eases, IInv, BoundInv
<1> QED BY <1>3, <1>4

\* The steps that write a row and not its count.
LEMMA WritesEase ==
    ASSUME IInv, BoundInv, NEW w \in Workers, MarkSent(w) \/ Unhold(w)
    PROVE  Eases
<1> DEFINE n == worker[w].current
<1>1. Busy(w) /\ worker[w].stage # "next"
  BY DEF MarkSent, Unhold, At, Busy
<1>2. n \in Rows /\ row[n] \in RowType
  BY <1>1 DEF IInv, HasRow, Current, TableOK
<1>3. /\ \A m \in Rows : row'[m].attempts = row[m].attempts
      /\ \A m \in Rows : row'[m].status \in {row[m].status, "SENT"}
  <2>1. CASE MarkSent(w)
    <3>1. row' = [row EXCEPT ![n] = [row[n] EXCEPT !.status = "SENT"]]
      BY <2>1 DEF MarkSent, Current
    <3> QED BY <1>2, <3>1 DEF IInv, TableOK, RowType
  <2>2. CASE Unhold(w)
    <3>1. row' = [row EXCEPT ![n] = [row[n] EXCEPT !.held = FALSE]]
      BY <2>2 DEF Unhold, Current
    <3> QED BY <1>2, <3>1 DEF IInv, TableOK, RowType
  <2> QED BY <2>1, <2>2
<1>4. \A v \in Workers : CallEases(v)
  BY <1>1, DeliveredEases, NextRowEases DEF MarkSent, Unhold, IInv, BoundInv
<1> QED BY <1>3, <1>4 DEF Eases

LEMMA EndEases ==
    ASSUME IInv, NEW w \in Workers, Finish(w) \/ Aborted(w)
    PROVE  Eases
<1>1. worker' = [worker EXCEPT ![w] = Idle] /\ row' = row
  BY DEF Finish, Aborted
<1> QED BY <1>1 DEF Eases, CallEases, IInv, TableOK

LEMMA TakeEases ==
    ASSUME IInv, NEW w \in Workers, NEW n \in Rows, Take(w, n)
    PROVE  Eases
<1> DEFINE c == [worker[w] EXCEPT !.todo = @ \ {n}, !.current = n, !.stage = "send"]
<1>1. Busy(w) /\ n \in worker[w].todo /\ row' = row /\ worker' = [worker EXCEPT ![w] = c]
  BY DEF Take, At, Busy
<1>2. worker[w] \in InProgress
  BY <1>1, BusyType DEF IInv
<1>3. /\ c \in InProgress /\ c.todo = worker[w].todo \ {n} /\ c.current = n /\ c.stage = "send"
  BY <1>2 DEF InProgress, Stages
<1> HIDE DEF c
<1>4. \A v \in Workers : CallEases(v)
  BY <1>1, <1>2, <1>3 DEF IInv, TableOK, CallEases
<1> QED BY <1>1, <1>4 DEF Eases

\* A row that is created replaces one with no attempts either.
LEMMA CreateEases ==
    ASSUME IInv, BoundInv, NEW w \in Workers, NEW n \in Rows, Create(w, n)
    PROVE  Eases
<1> DEFINE r == NewRow("QUEUED", worker[w].held)
           a == [worker[w] EXCEPT !.todo = @ \ {n}]
           b == [worker[w] EXCEPT !.todo = @ \ {n}, !.current = n, !.stage = "send"]
<1>1. /\ Busy(w) /\ worker[w].stage = "next" /\ worker[w].op = "notify" /\ n \in worker[w].todo
      /\ row' = [row EXCEPT ![n] = r]
      /\ worker' = [worker EXCEPT ![w] = a] \/ worker' = [worker EXCEPT ![w] = b]
  BY DEF Create, At, Busy
<1>2. worker[w] \in InProgress /\ row[n].status = "ABSENT" /\ row[n].attempts = 0
  BY <1>1, BusyType DEF IInv, NotifyOwns, BoundInv, Fresh
<1>3. worker[w].current \notin worker[w].todo
  BY <1>1 DEF BoundInv, OnceEach, Current
<1>4. /\ a \in InProgress /\ a.todo = worker[w].todo \ {n}
      /\ a.current = worker[w].current /\ a.stage = "next"
      /\ b \in InProgress /\ b.todo = worker[w].todo \ {n}
      /\ b.current = n /\ b.stage = "send"
  BY <1>1, <1>2 DEF InProgress, Stages
<1>5. r.attempts = 0
  BY DEF NewRow
<1> HIDE DEF a, b, r
<1>6. \A v \in Workers : CallEases(v)
  BY <1>1, <1>2, <1>3, <1>4 DEF IInv, TableOK, CallEases, Delivering
<1>7. /\ \A m \in Rows : row'[m].attempts = row[m].attempts
      /\ \A m \in Rows : m # n => row'[m] = row[m]
  BY <1>1, <1>2, <1>5 DEF IInv, TableOK
<1> QED BY <1>2, <1>6, <1>7 DEF Eases

\* Reads of the feed, clocks and restarts.
LEMMA ClocksEase ==
    ASSUME IInv, (\E n \in Rows : MarkRead(n) \/ BackoffElapses(n)) \/ CooldownElapses \/ Crash
    PROVE  Eases
<1>1. CASE \E n \in Rows : MarkRead(n) \/ BackoffElapses(n)
  <2>1. PICK n \in Rows : MarkRead(n) \/ BackoffElapses(n)
    BY <1>1
  <2>2. row[n] \in RowType /\ worker' = worker
    BY <2>1 DEF MarkRead, BackoffElapses, IInv, TableOK
  <2>3. /\ \A m \in Rows : row'[m].attempts = row[m].attempts
        /\ \A m \in Rows : row'[m].status \in {row[m].status, "READ"}
    <3>1. CASE MarkRead(n)
      <4>1. row' = [row EXCEPT ![n] = [row[n] EXCEPT !.status = "READ"]]
        BY <3>1 DEF MarkRead
      <4> QED BY <2>2, <4>1 DEF IInv, TableOK, RowType
    <3>2. CASE BackoffElapses(n)
      <4>1. row' = [row EXCEPT ![n] = [row[n] EXCEPT !.nextRetryAt = "due"]]
        BY <3>2 DEF BackoffElapses
      <4> QED BY <2>2, <4>1 DEF IInv, TableOK, RowType
    <3> QED BY <2>1, <3>1, <3>2
  <2> QED BY <2>2, <2>3 DEF Eases, CallEases
<1>2. CASE CooldownElapses
  BY <1>2 DEF CooldownElapses, Eases, CallEases
<1>3. CASE Crash
  BY <1>3 DEF Crash, Eases, CallEases
<1> QED BY <1>1, <1>2, <1>3
-----------------------------------------------------------------------------
\* A call that starts has only rows in hand that are below the limit: those
\* to retry by the query, those that wait or are to be created by Fresh.
LEMMA StartKeepsBound ==
    ASSUME IInv, BoundInv, NEW w \in Workers, NEW op, NEW held, NEW todo \in SUBSET Rows,
           Start(w, op, held, todo), \A n \in todo : row[n].attempts < MaxAttempts
    PROVE  BoundInv'
<1> DEFINE c == [op |-> op, held |-> held, todo |-> todo,
                 current |-> Null, stage |-> "next", seen |-> 0]
<1> USE DEF BoundInv
<1>1. ~Busy(w) /\ worker' = [worker EXCEPT ![w] = c] /\ row' = row
  BY DEF Start, Busy
<1>2. c.todo = todo /\ c.current = Null /\ c.stage = "next"
  OBVIOUS
<1> HIDE DEF c
<1>3. worker'[w] = c /\ \A v \in Workers \ {w} : worker'[v] = worker[v]
  BY <1>1 DEF IInv, TableOK
<1>4. \A n \in Rows : row[n].attempts \in Nat
  BY RowTypes DEF IInv, RowType
<1>5. \A v \in Workers : \A n \in Rows :
         Pending(v, n)' => Pending(v, n) \/ row[n].attempts < MaxAttempts
  <2> SUFFICES ASSUME NEW v \in Workers, NEW n \in Rows, Pending(v, n)'
               PROVE  Pending(v, n) \/ row[n].attempts < MaxAttempts
    OBVIOUS
  <2>1. CASE v = w
    BY <1>2, <1>3, <2>1 DEF Pending, Current, Busy, Delivering
  <2>2. CASE v # w
    BY <1>3, <2>2 DEF Pending, Current, Busy
  <2> QED BY <2>1, <2>2
<1>6. Fresh'
  BY <1>1 DEF Fresh
<1>7. OnceEach'
  BY <1>2, <1>3, NullIsNoRow DEF OnceEach, Current, Busy
<1>8. AtLimit'
  <2> SUFFICES ASSUME NEW n \in Rows, row[n].attempts = MaxAttempts
               PROVE  \E v \in Workers : ~Pending(v, n)'
    BY <1>1 DEF AtLimit
  <2>1. ~(row[n].attempts < MaxAttempts)
    BY OutboxAssumption
  <2> QED BY <1>5, <2>1 DEF AtLimit
<1>9. BeyondLimit'
  <2> SUFFICES ASSUME NEW n \in Rows, row[n].attempts > MaxAttempts
               PROVE  /\ row[n].attempts = MaxAttempts + 1
                      /\ \A v \in Workers : ~Pending(v, n)'
                      /\ \E u, v \in Workers : u # v
    BY <1>1 DEF BeyondLimit
  <2>1. ~(row[n].attempts < MaxAttempts)
    BY <1>4, OutboxAssumption
  <2> QED BY <1>5, <2>1 DEF BeyondLimit
<1>10. ReadAtLimit'
  <2> SUFFICES ASSUME NEW v \in Workers, Busy(v)', worker'[v].stage = "failing",
                      worker'[v].seen >= MaxAttempts
               PROVE  row'[worker'[v].current].attempts = worker'[v].seen
    BY DEF ReadAtLimit, Current
  <2>1. v # w
    BY <1>2, <1>3
  <2> QED BY <1>1, <1>3, <2>1 DEF ReadAtLimit, Current, Busy
<1> QED BY <1>6, <1>7, <1>8, <1>9, <1>10

LEMMA StartsKeepBound ==
    ASSUME IInv, BoundInv, NEW w \in Workers,
           \/ \E m \in Messages, cs \in Preferences, held \in BOOLEAN : Notify(w, m, cs, held)
           \/ StartRetry(w) \/ StartFlush(w)
    PROVE  BoundInv'
<1>1. \A n \in Rows : row[n].status \in {"ABSENT", "QUEUED"} => row[n].attempts < MaxAttempts
  BY OutboxAssumption DEF BoundInv, Fresh
<1>2. CASE \E m \in Messages, cs \in Preferences, held \in BOOLEAN : Notify(w, m, cs, held)
  <2>1. PICK m \in Messages, cs \in Preferences, held \in BOOLEAN : Notify(w, m, cs, held)
    BY <1>2
  <2> DEFINE todo == {m} \X cs
  <2>2. todo \subseteq {m} \X Channels /\ todo \subseteq Rows
    BY OutboxAssumption DEF Rows
  <2>3. \A n \in todo : row[n].status = "ABSENT"
    BY <2>1, <2>2 DEF Notify
  <2>4. Start(w, "notify", held, todo)
    BY <2>1 DEF Notify
  <2> HIDE DEF todo
  <2> QED BY <1>1, <2>2, <2>3, <2>4, StartKeepsBound
<1>3. CASE StartRetry(w)
  <2>1. /\ Due \subseteq Rows /\ Start(w, "retry", FALSE, Due)
        /\ \A n \in Due : row[n].attempts < MaxAttempts
    BY <1>3 DEF StartRetry, Due
  <2> QED BY <2>1, StartKeepsBound
<1>4. CASE StartFlush(w)
  <2>1. /\ Held \subseteq Rows /\ Start(w, "flush", FALSE, Held)
        /\ \A n \in Held : row[n].status = "QUEUED"
    BY <1>4 DEF StartFlush, Held
  <2> QED BY <1>1, <2>1, StartKeepsBound
<1> QED BY <1>2, <1>3, <1>4

\* markFailed reads the count: at the limit, what it read is what there is.
LEMMA ReadAttemptsKeepsBound ==
    ASSUME IInv, BoundInv, NEW w \in Workers, ReadAttempts(w)
    PROVE  BoundInv'
<1> DEFINE n == worker[w].current
           c == [worker[w] EXCEPT !.stage = "failing", !.seen = row[n].attempts]
<1> USE DEF BoundInv
<1>1. /\ Busy(w) /\ worker[w].stage = "failed" /\ row' = row
      /\ worker' = [worker EXCEPT ![w] = c]
  BY DEF ReadAttempts, At, Busy, Current
<1>2. worker[w] \in InProgress /\ n \in Rows /\ n \notin worker[w].todo
  BY <1>1, BusyType DEF IInv, HasRow, OnceEach, Current
<1>3. /\ c.todo = worker[w].todo /\ c.current = n
      /\ c.stage = "failing" /\ c.seen = row[n].attempts
  BY <1>2 DEF InProgress
<1> HIDE DEF c
<1>4. worker'[w] = c /\ \A v \in Workers \ {w} : worker'[v] = worker[v]
  BY <1>1 DEF IInv, TableOK
<1>5. \A v \in Workers : \A m \in Rows : Pending(v, m)' => Pending(v, m)
  <2> SUFFICES ASSUME NEW v \in Workers, NEW m \in Rows, Pending(v, m)'
               PROVE  Pending(v, m)
    OBVIOUS
  <2>1. CASE v = w
    BY <1>1, <1>3, <1>4, <2>1 DEF Pending, Current, Busy, Delivering
  <2>2. CASE v # w
    BY <1>4, <2>2 DEF Pending, Current, Busy
  <2> QED BY <2>1, <2>2
<1>6. Fresh'
  BY <1>1 DEF Fresh
<1>7. OnceEach'
  BY <1>2, <1>3, <1>4 DEF OnceEach, Current, Busy
<1>8. AtLimit' /\ BeyondLimit'
  BY <1>1, <1>5 DEF AtLimit, BeyondLimit
<1>9. ReadAtLimit'
  <2> SUFFICES ASSUME NEW v \in Workers, Busy(v)', worker'[v].stage = "failing",
                      worker'[v].seen >= MaxAttempts
               PROVE  row'[worker'[v].current].attempts = worker'[v].seen
    BY DEF ReadAtLimit, Current
  <2>1. CASE v = w
    BY <1>1, <1>3, <1>4, <2>1
  <2>2. CASE v # w
    BY <1>1, <1>4, <2>2 DEF ReadAtLimit, Current, Busy
  <2> QED BY <2>1, <2>2
<1> QED BY <1>6, <1>7, <1>8, <1>9

\* It writes one more.  A count beyond the limit needs a call that read the limit,
\* hence one that had done with the row before, and no third.
LEMMA MarkFailedKeepsBound ==
    ASSUME AtMostTwo, IInv, BoundInv, NEW w \in Workers, MarkFailed(w),
           NEW n \in Rows, n = worker[w].current
    PROVE  BoundInv'
<1> DEFINE a == worker[w].seen + 1
           r == Failed(row[n], a)
<1> USE DEF BoundInv
<1>1. /\ Busy(w) /\ worker[w].stage = "failing" /\ row' = [row EXCEPT ![n] = r]
      /\ Delivered(w)
  BY DEF MarkFailed, At, Busy, Current
<1>2. /\ worker[w] \in InProgress /\ row[n] \in RowType /\ worker[w].seen \in Nat
  BY <1>1, BusyType DEF IInv, HasRow, Current, TableOK, InProgress
<1>3. r.status = "FAILED" /\ r.attempts = a
  BY <1>2 DEF Failed, RowType
<1> HIDE DEF r
<1>4. row'[n] = r /\ \A m \in Rows \ {n} : row'[m] = row[m]
  BY <1>1, <1>2 DEF IInv, TableOK
<1>5. \A v \in Workers : CallEases(v)
  BY <1>1, DeliveredEases DEF IInv
<1>6. \A v \in Workers : \A m \in Rows : Pending(v, m)' => Pending(v, m)
  BY <1>5, EasesPending
<1>7. Pending(w, n)
  BY <1>1 DEF Pending, Current, Delivering
<1>8. /\ \A v \in Workers \ {w} : worker'[v] = worker[v]
      /\ worker'[w].stage \in {"next", "unhold"} /\ worker'[w].todo = worker[w].todo
  <2>1. "unhold" \in Stages
    BY DEF Stages
  <2> QED BY <1>1, <2>1, ToStage, ToNextRow DEF Delivered, IInv
<1>9. ~Pending(w, n)'
  <2>1. n \notin worker[w].todo
    BY <1>1 DEF OnceEach, Current
  <2> QED BY <1>8, <2>1 DEF Pending, Current, Delivering
<1>10. row[n].attempts \in Nat /\ row[n].attempts <= MaxAttempts
  BY <1>2, <1>7, OutboxAssumption DEF RowType, BeyondLimit
<1>11. CASE a <= MaxAttempts
  <2>1. \A v \in Workers : v # w /\ Pending(v, n) /\ worker[v].stage = "failing"
                           /\ worker[v].current = n => worker[v].seen < MaxAttempts
    <3> SUFFICES ASSUME NEW v \in Workers, v # w, Pending(v, n), worker[v].stage = "failing",
                        worker[v].current = n, ~(worker[v].seen < MaxAttempts)
                 PROVE  FALSE
      OBVIOUS
    <3>1. worker[v].seen \in Nat
      BY BusyType DEF Pending, IInv, InProgress
    <3>2. row[n].attempts = worker[v].seen
      BY <3>1, OutboxAssumption DEF ReadAtLimit, Pending, Current
    <3>3. row[n].attempts = MaxAttempts
      BY <1>10, <3>1, <3>2, OutboxAssumption
    <3>4. PICK u \in Workers : ~Pending(u, n)
      BY <1>2, <3>3 DEF AtLimit
    <3> QED BY <1>7, <3>4 DEF AtMostTwo
  <2>2. Fresh'
    BY <1>3, <1>4 DEF Fresh
  <2>3. OnceEach'
    BY <1>5 DEF CallEases, OnceEach, Current, Busy
  <2>4. AtLimit'
    <3> SUFFICES ASSUME NEW m \in Rows, row'[m].attempts = MaxAttempts
                 PROVE  \E v \in Workers : ~Pending(v, m)'
      BY DEF AtLimit
    <3>1. CASE m = n
      BY <1>9, <3>1
    <3>2. CASE m # n
      BY <1>4, <1>6, <3>2 DEF AtLimit
    <3> QED BY <3>1, <3>2
  <2>5. BeyondLimit'
    <3> SUFFICES ASSUME NEW m \in Rows, row'[m].attempts > MaxAttempts
                 PROVE  /\ row'[m].attempts = MaxAttempts + 1
                        /\ \A v \in Workers : ~Pending(v, m)'
                        /\ \E u, v \in Workers : u # v
      BY DEF BeyondLimit
    <3>1. m # n
      BY <1>2, <1>3, <1>4, <1>11, OutboxAssumption
    <3> QED BY <1>4, <1>6, <3>1 DEF BeyondLimit
  <2>6. ReadAtLimit'
    <3> SUFFICES ASSUME NEW v \in Workers, Busy(v)', worker'[v].stage = "failing",
                        worker'[v].seen >= MaxAttempts
                 PROVE  row'[worker'[v].current].attempts = worker'[v].seen
      BY DEF ReadAtLimit, Current
    <3>1. v # w
      BY <1>8
    <3>2. worker'[v] = worker[v] /\ Busy(v) /\ worker[v].seen \in Nat
      BY <1>8, <3>1, BusyType DEF Busy, IInv, InProgress
    <3>3. worker[v].current \in Rows
      BY <3>2 DEF IInv, HasRow, Current
    <3>4. worker[v].current # n
      BY <2>1, <3>1, <3>2, OutboxAssumption DEF Pending, Current, Delivering
    <3> QED BY <1>4, <3>2, <3>3, <3>4 DEF ReadAtLimit, Current
  <2> QED BY <2>2, <2>3, <2>4, <2>5, <2>6
<1>12. CASE ~(a <= MaxAttempts)
  <2>1. worker[w].seen >= MaxAttempts
    BY <1>2, <1>12, OutboxAssumption
  <2>2. row[n].attempts = worker[w].seen
    BY <1>1, <2>1 DEF ReadAtLimit, Current
  <2>3. row[n].attempts = MaxAttempts /\ a = MaxAttempts + 1
    BY <1>2, <1>10, <2>1, <2>2, OutboxAssumption
  <2>4. PICK u \in Workers : ~Pending(u, n)
    BY <1>2, <2>3 DEF AtLimit
  <2>5. u # w /\ \A v \in Workers : v \in {u, w}
    BY <1>7, <2>4 DEF AtMostTwo
  <2>6. \A v \in Workers : ~Pending(v, n)'
    BY <1>2, <1>6, <1>9, <2>4, <2>5
  <2>7. Fresh'
    BY <1>3, <1>4 DEF Fresh
  <2>8. OnceEach'
    BY <1>5 DEF CallEases, OnceEach, Current, Busy
  <2>9. AtLimit'
    <3> SUFFICES ASSUME NEW m \in Rows, row'[m].attempts = MaxAttempts
                 PROVE  \E v \in Workers : ~Pending(v, m)'
      BY DEF AtLimit
    <3>1. CASE m = n
      BY <1>9, <3>1
    <3>2. CASE m # n
      BY <1>4, <1>6, <3>2 DEF AtLimit
    <3> QED BY <3>1, <3>2
  <2>10. BeyondLimit'
    <3> SUFFICES ASSUME NEW m \in Rows, row'[m].attempts > MaxAttempts
                 PROVE  /\ row'[m].attempts = MaxAttempts + 1
                        /\ \A v \in Workers : ~Pending(v, m)'
                        /\ \E x, v \in Workers : x # v
      BY DEF BeyondLimit
    <3>1. CASE m = n
      BY <1>3, <1>4, <2>3, <2>5, <2>6, <3>1
    <3>2. CASE m # n
      BY <1>4, <1>6, <3>2 DEF BeyondLimit
    <3> QED BY <3>1, <3>2
  <2>11. ReadAtLimit'
    <3> SUFFICES ASSUME NEW v \in Workers, Busy(v)', worker'[v].stage = "failing",
                        worker'[v].seen >= MaxAttempts
                 PROVE  row'[worker'[v].current].attempts = worker'[v].seen
      BY DEF ReadAtLimit, Current
    <3>1. v # w
      BY <1>8
    <3>2. worker'[v] = worker[v] /\ Busy(v)
      BY <1>8, <3>1 DEF Busy
    <3>3. worker[v].current \in Rows
      BY <3>2 DEF IInv, HasRow, Current
    <3>4. worker[v].current # n
      BY <2>4, <2>5, <3>1, <3>2 DEF Pending, Current, Delivering
    <3> QED BY <1>4, <3>2, <3>3, <3>4 DEF ReadAtLimit, Current
  <2> QED BY <2>7, <2>8, <2>9, <2>10, <2>11
<1> QED BY <1>11, <1>12
-----------------------------------------------------------------------------
LEMMA InitBound == Init => BoundInv
<1> SUFFICES ASSUME Init PROVE BoundInv
  OBVIOUS
<1>1. \A n \in Rows : row[n].attempts = 0
  BY DEF Init, NewRow
<1>2. \A w \in Workers : ~Busy(w)
  BY DEF Init, Busy
<1> QED BY <1>1, <1>2, OutboxAssumption
        DEF BoundInv, Fresh, OnceEach, AtLimit, BeyondLimit, ReadAtLimit

LEMMA NextBound ==
    ASSUME AtMostTwo
    PROVE  IInv /\ BoundInv /\ [Next]_vars => BoundInv'
<1> SUFFICES ASSUME IInv, BoundInv, [Next]_vars PROVE BoundInv'
  OBVIOUS
<1>1. CASE UNCHANGED vars
  <2>1. Eases
    BY <1>1 DEF vars, Eases, CallEases
  <2> QED BY <2>1, EasesKeepsBound
<1>2. ASSUME NEW w \in Workers,
             \/ \E m \in Messages, cs \in Preferences, held \in BOOLEAN :
                   Notify(w, m, cs, held)
             \/ StartRetry(w) \/ StartFlush(w)
      PROVE  BoundInv'
  BY <1>2, StartsKeepBound
<1>3. ASSUME NEW w \in Workers, Deliver(w) \/ Swallowed(w) \/ Aborted(w) \/ Finish(w)
      PROVE  BoundInv'
  <2>1. CASE ReadAttempts(w)
    BY <2>1, ReadAttemptsKeepsBound
  <2>2. CASE MarkFailed(w)
    <3>1. worker[w].current \in Rows
      BY <2>2 DEF MarkFailed, At, IInv, HasRow, Busy, Current
    <3> QED BY <2>2, <3>1, MarkFailedKeepsBound
  <2>3. CASE ~ReadAttempts(w) /\ ~MarkFailed(w)
    <3>1. Eases
      BY <1>3, <2>3, DeliveryEases, WritesEase, EndEases DEF Deliver
    <3> QED BY <3>1, EasesKeepsBound
  <2> QED BY <2>1, <2>2, <2>3
<1>4. ASSUME NEW w \in Workers, NEW n \in Rows, Create(w, n) \/ Take(w, n)
      PROVE  BoundInv'
  BY <1>4, CreateEases, TakeEases, EasesKeepsBound
<1>5. ASSUME \/ \E n \in Rows : MarkRead(n) \/ BackoffElapses(n)
             \/ CooldownElapses \/ Crash
      PROVE  BoundInv'
  BY <1>5, ClocksEase, EasesKeepsBound
<1> QED BY <1>1, <1>2, <1>3, <1>4, <1>5 DEF Next, Proceed

\* Two calls are two at most: what the cardinality means to the invariant.
LEMMA FewWorkers ==
    ASSUME Cardinality(Workers) <= 2
    PROVE  /\ AtMostTwo /\ Cardinality(Workers) \in Nat
           /\ \A w \in Workers : Cardinality(Workers) >= 1
           /\ \A v, w \in Workers : v # w => Cardinality(Workers) = 2
<1>1. IsFiniteSet(Workers) /\ Cardinality(Workers) \in Nat
  BY OutboxAssumption, FS_CardinalityType
<1>2. ASSUME NEW w \in Workers
      PROVE  Cardinality(Workers) >= 1 /\ Cardinality({w}) = 1 /\ {w} \in SUBSET Workers
  <2>1. Cardinality({w}) = 1 /\ {w} \in SUBSET Workers
    BY FS_Singleton
  <2>2. Cardinality({w}) <= Cardinality(Workers)
    BY <1>1, <2>1, FS_Subset
  <2> QED BY <1>1, <2>1, <2>2
<1>3. ASSUME NEW v \in Workers, NEW w \in Workers, v # w
      PROVE  Cardinality(Workers) = 2 /\ Workers = {v, w}
  <2>1. IsFiniteSet({v}) /\ Cardinality({v}) = 1 /\ w \notin {v}
    BY <1>3, FS_Singleton
  <2>2. Cardinality({v} \cup {w}) = 2
    BY <2>1, FS_AddElement
  <2>3. {v} \cup {w} \in SUBSET Workers
    OBVIOUS
  <2>4. Cardinality({v} \cup {w}) <= Cardinality(Workers)
    BY <1>1, <2>3, FS_Subset
  <2>5. Cardinality(Workers) = Cardinality({v} \cup {w})
    BY <1>1, <2>2, <2>4
  <2>6. Workers = {v} \cup {w}
    BY <1>1, <2>3, <2>5, FS_Subset
  <2> QED BY <2>2, <2>5, <2>6
<1>4. AtMostTwo
  BY <1>3 DEF AtMostTwo
<1> QED BY <1>1, <1>2, <1>3, <1>4

\* The column attempts, which is not the number of tries: one call at a time never
\* writes more than MAX_ATTEMPTS into it, and two that overlap one more at most,
\* whatever is refused or comes between markFailed's read and its write.
THEOREM AttemptsStayBounded == Spec => []AttemptsBounded
<1>1. CASE Cardinality(Workers) <= 2
  <2>1. AtMostTwo
    BY <1>1, FewWorkers
  <2>2. IInv /\ BoundInv => AttemptsBounded
    <3> SUFFICES ASSUME IInv, BoundInv, NEW n \in Rows
                 PROVE  row[n].attempts <= MaxAttempts + Cardinality(Workers) - 1
      BY DEF AttemptsBounded
    <3>1. row[n].attempts \in Nat
      BY RowTypes DEF IInv, RowType
    <3>2. CASE row[n].attempts < MaxAttempts
      BY <1>1, <3>1, <3>2, FewWorkers, OutboxAssumption
    <3>3. CASE row[n].attempts = MaxAttempts
      <4>1. PICK w \in Workers : ~Pending(w, n)
        BY <3>3 DEF BoundInv, AtLimit
      <4>2. Cardinality(Workers) >= 1 /\ Cardinality(Workers) \in Nat
        BY <1>1, <4>1, FewWorkers
      <4> QED BY <3>1, <3>3, <4>2, OutboxAssumption
    <3>4. CASE row[n].attempts > MaxAttempts
      <4>1. row[n].attempts = MaxAttempts + 1 /\ \E u, v \in Workers : u # v
        BY <3>4 DEF BoundInv, BeyondLimit
      <4>2. Cardinality(Workers) = 2
        BY <1>1, <4>1, FewWorkers
      <4> QED BY <4>1, <4>2, OutboxAssumption
    <3> QED BY <3>1, <3>2, <3>3, <3>4, OutboxAssumption
  <2>3. IInv /\ BoundInv /\ [Next]_vars => (IInv /\ BoundInv)'
    BY <2>1, NextIInv, NextBound
  <2>4. Init => IInv /\ BoundInv
    BY InitIInv, InitBound
  <2> QED BY <2>2, <2>3, <2>4, PTL DEF Spec
<1>2. CASE ~(Cardinality(Workers) <= 2)
  <2>1. AttemptsBounded
    BY <1>2 DEF AttemptsBounded
  <2> QED BY <2>1, PTL
<1> QED BY <1>1, <1>2
-----------------------------------------------------------------------------
\* The tries themselves.  As long as they can be told from the column, one call
\* at most has the row; its count is the number of tries, one less while a try
\* is in progress, and below the limit before each.
Listed(w, n) == Busy(w) /\ n \in worker[w].todo

Fits(n) ==
    /\ tries[n] <= MaxAttempts
    /\ row[n].status \in {"ABSENT", "QUEUED"} => row[n].attempts = 0
    /\ \A w \in Workers : Listed(w, n) =>
          tries[n] = row[n].attempts /\ row[n].attempts < MaxAttempts
    /\ \A w \in Workers : Trying(w, n) =>
          /\ tries[n] = row[n].attempts + 1
          /\ worker[w].stage = "failing" => worker[w].seen = row[n].attempts
    /\ \A v, w \in Workers : Claims(v, n) /\ Claims(w, n) => v = w
    /\ row[n].status \in {"ABSENT", "QUEUED", "FAILED"} =>
          tries[n] = row[n].attempts \/ \E w \in Workers : Trying(w, n)

TriesFit == \A n \in Rows : tries[n] # Null => Fits(n)

TriesInv == IInv /\ TypeOK /\ TriesFit

\* A step that is no try of the row, and records none of its failures.
Rests(n) ==
    /\ tries'[n] = tries[n] /\ row'[n].attempts = row[n].attempts
    /\ row'[n].status \in {row[n].status, "SENT", "READ"}
    /\ \A w \in Workers : Listed(w, n)' => Listed(w, n)
    /\ \A w \in Workers : Trying(w, n)' =>
          /\ Trying(w, n)
          /\ worker'[w].stage = "failing" =>
                \/ worker'[w].seen = row[n].attempts
                \/ worker[w].stage = "failing" /\ worker'[w].seen = worker[w].seen
    /\ \A w \in Workers : Trying(w, n) => Trying(w, n)' \/ row'[n].status \in {"SENT", "READ"}

LEMMA ClaimsAre ==
    ASSUME NEW w, NEW n
    PROVE  Claims(w, n) <=> Trying(w, n) \/ Listed(w, n)
BY DEF Claims, Listed, Busy

LEMMA RestsKeepsFit ==
    ASSUME NEW n \in Rows, Fits(n), Rests(n)
    PROVE  Fits(n)'
<1>1. \A w \in Workers : Claims(w, n)' => Claims(w, n)
  <2> SUFFICES ASSUME NEW w \in Workers, Claims(w, n)' PROVE Claims(w, n)
    OBVIOUS
  <2>1. Trying(w, n)' \/ Listed(w, n)'
    BY DEF Claims, Trying, Listed, Busy
  <2> QED BY <2>1, ClaimsAre DEF Rests
<1>2. \A w \in Workers : Trying(w, n)' =>
         /\ tries'[n] = row'[n].attempts + 1
         /\ worker'[w].stage = "failing" => worker'[w].seen = row'[n].attempts
  BY DEF Fits, Rests
<1>3. row'[n].status \in {"ABSENT", "QUEUED", "FAILED"} =>
         tries'[n] = row'[n].attempts \/ \E w \in Workers : Trying(w, n)'
  BY DEF Fits, Rests
<1>4. /\ tries'[n] <= MaxAttempts
      /\ row'[n].status \in {"ABSENT", "QUEUED"} => row'[n].attempts = 0
      /\ \A w \in Workers : Listed(w, n)' =>
            tries'[n] = row'[n].attempts /\ row'[n].attempts < MaxAttempts
  BY DEF Fits, Rests
<1>5. \A v, w \in Workers : Claims(v, n)' /\ Claims(w, n)' => v = w
  BY <1>1 DEF Fits
<1> QED BY <1>2, <1>3, <1>4, <1>5 DEF Fits

\* One call moves: what the others have is as it was.
LEMMA OneMoves ==
    ASSUME NEW w \in Workers, \A v \in Workers \ {w} : worker'[v] = worker[v],
           NEW n \in Rows, tries'[n] = tries[n], row'[n].attempts = row[n].attempts,
           row'[n].status \in {row[n].status, "SENT", "READ"},
           Listed(w, n)' => Listed(w, n),
           Trying(w, n)' =>
              /\ Trying(w, n)
              /\ worker'[w].stage = "failing" =>
                    \/ worker'[w].seen = row[n].attempts
                    \/ worker[w].stage = "failing" /\ worker'[w].seen = worker[w].seen,
           Trying(w, n) => Trying(w, n)' \/ row'[n].status \in {"SENT", "READ"}
    PROVE  Rests(n)
<1>1. ASSUME NEW v \in Workers, v # w
      PROVE  /\ Listed(v, n)' <=> Listed(v, n)
             /\ Trying(v, n)' <=> Trying(v, n)
             /\ worker'[v] = worker[v]
  BY <1>1 DEF Listed, Trying, Busy
<1>2. \A v \in Workers : Listed(v, n)' => Listed(v, n)
  BY <1>1
<1>3. \A v \in Workers : Trying(v, n)' =>
          /\ Trying(v, n)
          /\ worker'[v].stage = "failing" =>
                \/ worker'[v].seen = row[n].attempts
                \/ worker[v].stage = "failing" /\ worker'[v].seen = worker[v].seen
  BY <1>1
<1>4. \A v \in Workers : Trying(v, n) => Trying(v, n)' \/ row'[n].status \in {"SENT", "READ"}
  BY <1>1
<1> QED BY <1>2, <1>3, <1>4 DEF Rests

\* A row other than the one in hand, while a call works on that one.
LEMMA OthersRest ==
    ASSUME TableOK, NEW w \in Workers, Busy(w), Delivered(w) \/ NextRow(w), worker[w].stage # "next",
           NEW n \in Rows, n # worker[w].current, row'[n] = row[n], tries'[n] = tries[n]
    PROVE  Rests(n)
<1>1. "unhold" \in Stages
  BY DEF Stages
<1>2. /\ \A v \in Workers \ {w} : worker'[v] = worker[v]
      /\ worker'[w].todo = worker[w].todo /\ worker'[w].current \in {worker[w].current, Null}
  BY <1>1, ToStage, ToNextRow DEF Delivered
<1>3. Listed(w, n)' => Listed(w, n)
  BY <1>2 DEF Listed
<1>4. ~Trying(w, n)' /\ ~Trying(w, n)
  BY <1>2, NullIsNoRow DEF Trying
<1> QED BY <1>2, <1>3, <1>4, OneMoves

LEMMA MarkFailedFits ==
    ASSUME TriesInv, NEW w \in Workers, MarkFailed(w), NEW n \in Rows, tries'[n] # Null
    PROVE  Fits(n)'
<1> DEFINE a == worker[w].seen + 1
           c == worker[w].current
           r == Failed(row[c], a)
<1>1. /\ Busy(w) /\ worker[w].stage = "failing" /\ row' = [row EXCEPT ![c] = r]
      /\ Delivered(w) /\ tries' = tries
  BY DEF MarkFailed, At, Busy, Current
<1>2. c \in Rows /\ row[c] \in RowType
  BY <1>1 DEF TriesInv, IInv, HasRow, Current, TableOK
<1>3. r.status = "FAILED" /\ r.attempts = a
  BY <1>2 DEF Failed, RowType
<1> HIDE DEF r
<1>4. row'[c] = r /\ \A m \in Rows \ {c} : row'[m] = row[m]
  BY <1>1, <1>2 DEF TriesInv, IInv, TableOK
<1>5. tries[n] # Null /\ Fits(n)
  BY <1>1 DEF TriesInv, TriesFit
<1>6. CASE n # c
  BY <1>1, <1>4, <1>5, <1>6, OthersRest, RestsKeepsFit DEF TriesInv, IInv
<1>7. CASE n = c
  <2>1. Trying(w, n)
    BY <1>1, <1>7 DEF Trying, Busy, Delivering
  <2>2. tries[n] = row[n].attempts + 1 /\ worker[w].seen = row[n].attempts
    BY <1>1, <1>5, <2>1 DEF Fits
  <2>3. tries'[n] = row'[n].attempts /\ row'[n].status = "FAILED"
    BY <1>1, <1>3, <1>4, <1>7, <2>2
  <2>4. "unhold" \in Stages
    BY DEF Stages
  <2>5. /\ \A v \in Workers \ {w} : worker'[v] = worker[v]
        /\ worker'[w].stage \in {"next", "unhold"} /\ worker'[w].todo = worker[w].todo
    BY <1>1, <2>4, ToStage, ToNextRow DEF Delivered, TriesInv, IInv
  <2>6. ~Listed(w, n)
    <3>1. row[n].attempts \in Nat
      BY RowTypes DEF TriesInv, IInv, RowType
    <3> QED BY <1>5, <2>2, <3>1 DEF Fits
  <2>7. ~Listed(w, n)' /\ ~Trying(w, n)'
    BY <1>1, <2>5, <2>6 DEF Listed, Trying, Delivering
  <2>8. ASSUME NEW v \in Workers
        PROVE  ~Listed(v, n)' /\ ~Trying(v, n)'
    <3>1. CASE v = w
      BY <2>7, <3>1
    <3>2. CASE v # w
      <4>1. ~Claims(v, n)
        BY <1>5, <2>1, <3>2, ClaimsAre DEF Fits
      <4>2. worker'[v] = worker[v]
        BY <2>5, <3>2
      <4> QED BY <4>1, <4>2 DEF Claims, Listed, Trying, Busy
    <3> QED BY <3>1, <3>2
  <2>9. \A v \in Workers : ~Claims(v, n)'
    BY <2>8 DEF Claims, Listed, Trying, Busy
  <2>10. tries'[n] <= MaxAttempts
    BY <1>1, <1>5 DEF Fits
  <2> QED BY <2>3, <2>8, <2>9, <2>10 DEF Fits
<1> QED BY <1>6, <1>7

\* The steps of a delivery that end no try.
LEMMA StagesRest ==
    ASSUME TriesInv, NEW w \in Workers, NEW n \in Rows,
           \/ SendInApp(w) \/ NoRecipient(w) \/ CircuitOpen(w) \/ CallProvider(w)
           \/ Accept(w) \/ Reject(w) \/ MarkSentFails(w)
    PROVE  Rests(n)
<1>1. /\ Busy(w) /\ worker[w].stage \in Delivering /\ row' = row /\ tries' = tries
      /\ \E s \in {"accepted", "failed", "calling"} : To(w, s)
  BY DEF SendInApp, NoRecipient, CircuitOpen, CallProvider, Accept, Reject, MarkSentFails,
         At, Busy, Delivering
<1>2. PICK s \in {"accepted", "failed", "calling"} : To(w, s)
  BY <1>1
<1>3. s \in Stages /\ s \in Delivering /\ s # "failing"
  BY DEF Stages, Delivering
<1>4. /\ \A v \in Workers \ {w} : worker'[v] = worker[v]
      /\ worker'[w] \in InProgress /\ worker'[w].todo = worker[w].todo
      /\ worker'[w].current = worker[w].current /\ worker'[w].stage = s
  BY <1>1, <1>2, <1>3, ToStage DEF TriesInv, IInv
<1>5. worker'[w] # Idle
  BY <1>4 DEF InProgress, Idle
<1>6. Listed(w, n)' => Listed(w, n)
  BY <1>1, <1>4 DEF Listed
<1>7. Trying(w, n)' <=> Trying(w, n)
  BY <1>1, <1>3, <1>4, <1>5 DEF Trying, Busy
<1> QED BY <1>1, <1>3, <1>4, <1>6, <1>7, OneMoves

LEMMA ReadAttemptsRests ==
    ASSUME TriesInv, NEW w \in Workers, NEW n \in Rows, ReadAttempts(w)
    PROVE  Rests(n)
<1> DEFINE c == [worker[w] EXCEPT !.stage = "failing", !.seen = row[worker[w].current].attempts]
<1>1. /\ Busy(w) /\ worker[w].stage = "failed" /\ row' = row /\ tries' = tries
      /\ worker' = [worker EXCEPT ![w] = c]
  BY DEF ReadAttempts, At, Busy, Current
<1>2. worker[w] \in InProgress
  BY <1>1, BusyType DEF TriesInv, IInv
<1>3. /\ c.todo = worker[w].todo /\ c.current = worker[w].current
      /\ c.stage = "failing" /\ c.seen = row[worker[w].current].attempts /\ c # Idle
  BY <1>2 DEF InProgress, Idle
<1> HIDE DEF c
<1>4. worker'[w] = c /\ \A v \in Workers \ {w} : worker'[v] = worker[v]
  BY <1>1 DEF TriesInv, IInv, TableOK
<1>5. Listed(w, n)' => Listed(w, n)
  BY <1>1, <1>3, <1>4 DEF Listed
<1>6. Trying(w, n)' <=> Trying(w, n)
  BY <1>1, <1>3, <1>4 DEF Trying, Busy, Delivering
<1>7. Trying(w, n)' => worker'[w].seen = row[n].attempts
  BY <1>3, <1>4 DEF Trying
<1> QED BY <1>1, <1>4, <1>5, <1>6, <1>7, OneMoves

\* A delivery recorded as sent, a hold that is lifted.
LEMMA WritesRest ==
    ASSUME TriesInv, NEW w \in Workers, NEW n \in Rows, MarkSent(w) \/ Unhold(w)
    PROVE  Rests(n)
<1> DEFINE c == worker[w].current
<1>1. /\ Busy(w) /\ worker[w].stage # "next" /\ tries' = tries
      /\ Delivered(w) \/ NextRow(w)
  BY DEF MarkSent, Unhold, At, Busy
<1>2. c \in Rows /\ row[c] \in RowType
  BY <1>1 DEF TriesInv, IInv, HasRow, Current, TableOK
<1>3. /\ \A m \in Rows \ {c} : row'[m] = row[m]
      /\ row'[c].attempts = row[c].attempts
      /\ row'[c].status \in {row[c].status, "SENT"}
      /\ MarkSent(w) => row'[c].status = "SENT"
  <2>1. CASE MarkSent(w)
    <3>1. row' = [row EXCEPT ![c] = [row[c] EXCEPT !.status = "SENT"]]
      BY <2>1 DEF MarkSent, Current
    <3> QED BY <1>2, <3>1 DEF TriesInv, IInv, TableOK, RowType
  <2>2. CASE Unhold(w)
    <3>1. row' = [row EXCEPT ![c] = [row[c] EXCEPT !.held = FALSE]]
      BY <2>2 DEF Unhold, Current
    <3>2. ~MarkSent(w)
      BY <2>2 DEF MarkSent, Unhold, At
    <3> QED BY <1>2, <3>1, <3>2 DEF TriesInv, IInv, TableOK, RowType
  <2> QED BY <2>1, <2>2
<1>4. CASE n # c
  BY <1>1, <1>3, <1>4, OthersRest DEF TriesInv, IInv
<1>5. CASE n = c
  <2>1. "unhold" \in Stages
    BY DEF Stages
  <2>2. /\ \A v \in Workers \ {w} : worker'[v] = worker[v]
        /\ worker'[w].stage \in {"next", "unhold"} /\ worker'[w].todo = worker[w].todo
    BY <1>1, <2>1, ToStage, ToNextRow DEF Delivered, TriesInv, IInv
  <2>3. Listed(w, n)' => Listed(w, n)
    BY <1>1, <2>2 DEF Listed
  <2>4. ~Trying(w, n)'
    BY <2>2 DEF Trying, Delivering
  <2>5. Trying(w, n) => row'[n].status = "SENT"
    <3>1. CASE MarkSent(w)
      BY <1>3, <1>5, <3>1
    <3>2. CASE Unhold(w)
      BY <3>2 DEF Unhold, At, Trying, Delivering
    <3> QED BY <3>1, <3>2
  <2> QED BY <1>1, <1>3, <1>5, <2>2, <2>3, <2>4, <2>5, OneMoves
<1> QED BY <1>4, <1>5

LEMMA EndRests ==
    ASSUME TriesInv, NEW w \in Workers, NEW n \in Rows, Finish(w) \/ Aborted(w)
    PROVE  Rests(n)
<1>1. /\ Busy(w) /\ worker[w].stage \notin Delivering /\ row' = row /\ tries' = tries
      /\ worker' = [worker EXCEPT ![w] = Idle]
  BY DEF Finish, Aborted, At, Busy, Delivering
<1>2. worker'[w] = Idle /\ \A v \in Workers \ {w} : worker'[v] = worker[v]
  BY <1>1 DEF TriesInv, IInv, TableOK
<1>3. ~Listed(w, n)' /\ ~Trying(w, n)' /\ ~Trying(w, n)
  BY <1>1, <1>2 DEF Listed, Trying, Busy
<1> QED BY <1>1, <1>2, <1>3, OneMoves
-----------------------------------------------------------------------------
\* A call takes the next of the rows it read, or creates the next of its own: a
\* row on its list only, with tries to spend.
LEMMA ListedRow ==
    ASSUME TriesInv, NEW w \in Workers, NEW n \in Rows, Listed(w, n), tries[n] # Null
    PROVE  /\ Fits(n) /\ tries[n] = row[n].attempts /\ tries[n] \in Nat /\ tries[n] < MaxAttempts
           /\ \A v \in Workers \ {w} : ~Listed(v, n) /\ ~Trying(v, n)
<1>1. Fits(n)
  BY DEF TriesInv, TriesFit
<1>2. \A v \in Workers \ {w} : ~Claims(v, n)
  BY <1>1, ClaimsAre DEF Fits
<1>3. tries[n] \in Nat
  BY DEF TriesInv, TypeOK
<1> QED BY <1>1, <1>2, <1>3, ClaimsAre DEF Fits

\* The try begins.
LEMMA TryFits ==
    ASSUME TriesInv, NEW w \in Workers, NEW n \in Rows, Listed(w, n), tries[n] # Null,
           tries'[n] = tries[n] + 1, row'[n].attempts = row[n].attempts,
           \A v \in Workers \ {w} : worker'[v] = worker[v],
           worker'[w] # Idle, worker'[w].current = n, worker'[w].stage = "send",
           n \notin worker'[w].todo,
           row'[n].status \in {"ABSENT", "QUEUED"} => row'[n].attempts = 0
    PROVE  Fits(n)'
<1>1. /\ Fits(n) /\ tries[n] = row[n].attempts /\ tries[n] \in Nat /\ tries[n] < MaxAttempts
      /\ \A v \in Workers \ {w} : ~Listed(v, n) /\ ~Trying(v, n)
  BY ListedRow
<1>2. Trying(w, n)' /\ ~Listed(w, n)'
  BY DEF Trying, Listed, Delivering
<1>3. \A v \in Workers \ {w} : ~Listed(v, n)' /\ ~Trying(v, n)'
  BY <1>1 DEF Listed, Trying, Busy
<1>4. \A v \in Workers \ {w} : ~Claims(v, n)'
  BY <1>3 DEF Claims, Listed, Trying, Busy
<1>5. tries'[n] <= MaxAttempts
  BY <1>1, OutboxAssumption
<1> QED BY <1>1, <1>2, <1>3, <1>4, <1>5 DEF Fits

LEMMA TakeFits ==
    ASSUME TriesInv, NEW w \in Workers, NEW m \in Rows, Take(w, m), NEW n \in Rows, tries'[n] # Null
    PROVE  Fits(n)'
<1> DEFINE c == [worker[w] EXCEPT !.todo = @ \ {m}, !.current = m, !.stage = "send"]
<1>1. /\ Busy(w) /\ worker[w].stage = "next" /\ m \in worker[w].todo /\ row' = row
      /\ worker' = [worker EXCEPT ![w] = c] /\ tries' = Tried(m)
  BY DEF Take, At, Busy
<1>2. worker[w] \in InProgress
  BY <1>1, BusyType DEF TriesInv, IInv
<1>3. /\ c.todo = worker[w].todo \ {m} /\ c.current = m /\ c.stage = "send" /\ c # Idle
  BY <1>2 DEF InProgress, Idle
<1> HIDE DEF c
<1>4. worker'[w] = c /\ \A v \in Workers \ {w} : worker'[v] = worker[v]
  BY <1>1 DEF TriesInv, IInv, TableOK
<1>5. /\ tries' = [tries EXCEPT ![m] = IF tries[m] = Null THEN Null ELSE tries[m] + 1]
      /\ tries \in [Rows -> Nat \cup {Null}]
  BY <1>1 DEF Tried, TriesInv, TypeOK
<1>6. CASE n = m
  <2>1. tries[n] # Null /\ tries'[n] = tries[n] + 1
    BY <1>5, <1>6
  <2>2. Listed(w, n)
    BY <1>1, <1>6 DEF Listed
  <2>3. Fits(n)
    BY <2>1, <2>2, ListedRow
  <2> QED BY <1>1, <1>3, <1>4, <1>6, <2>1, <2>2, <2>3, TryFits DEF Fits
<1>7. CASE n # m
  <2>1. tries'[n] = tries[n]
    BY <1>5, <1>7
  <2>2. Fits(n)
    BY <2>1 DEF TriesInv, TriesFit
  <2>3. Listed(w, n)' => Listed(w, n)
    BY <1>1, <1>3, <1>4 DEF Listed
  <2>4. ~Trying(w, n)' /\ ~Trying(w, n)
    BY <1>1, <1>3, <1>4, <1>7 DEF Trying, Delivering
  <2>5. Rests(n)
    BY <1>1, <1>4, <2>1, <2>3, <2>4, OneMoves
  <2> QED BY <2>2, <2>5, RestsKeepsFit
<1> QED BY <1>6, <1>7

LEMMA CreateFits ==
    ASSUME TriesInv, NEW w \in Workers, NEW m \in Rows, Create(w, m),
           NEW n \in Rows, tries'[n] # Null
    PROVE  Fits(n)'
<1> DEFINE h == worker[w].held
           r == NewRow("QUEUED", h)
           a == [worker[w] EXCEPT !.todo = @ \ {m}]
           b == [worker[w] EXCEPT !.todo = @ \ {m}, !.current = m, !.stage = "send"]
<1>1. /\ Busy(w) /\ worker[w].stage = "next" /\ m \in worker[w].todo
      /\ row' = [row EXCEPT ![m] = r]
      /\ h => worker' = [worker EXCEPT ![w] = a] /\ tries' = tries
      /\ ~h => worker' = [worker EXCEPT ![w] = b] /\ tries' = Tried(m)
  BY DEF Create, At, Busy
<1>2. worker[w] \in InProgress
  BY <1>1, BusyType DEF TriesInv, IInv
<1>3. /\ a.todo = worker[w].todo \ {m} /\ a.stage = "next" /\ a # Idle
      /\ b.todo = worker[w].todo \ {m} /\ b.current = m /\ b.stage = "send" /\ b # Idle
  BY <1>1, <1>2 DEF InProgress, Idle
<1>4. r.attempts = 0 /\ r.status = "QUEUED"
  BY DEF NewRow
<1>5. row[m].status = "ABSENT"
  BY <1>1 DEF Create, TriesInv, IInv, NotifyOwns
<1> HIDE DEF a, b, r
<1>6. /\ h => worker'[w] = a
      /\ ~h => worker'[w] = b
      /\ \A v \in Workers \ {w} : worker'[v] = worker[v]
      /\ row'[m] = r /\ \A x \in Rows \ {m} : row'[x] = row[x]
  <2>1. worker \in [Workers -> Call] /\ row \in [Rows -> RowType]
    BY DEF TriesInv, IInv, TableOK
  <2> QED BY <1>1, <2>1
<1>7. /\ ~h => tries' = [tries EXCEPT ![m] = IF tries[m] = Null THEN Null ELSE tries[m] + 1]
      /\ tries \in [Rows -> Nat \cup {Null}]
  BY <1>1 DEF Tried, TriesInv, TypeOK
<1>8. /\ worker'[w].todo = worker[w].todo \ {m} /\ worker'[w] # Idle
      /\ worker'[w].stage \in Delivering => worker'[w].current = m
  BY <1>3, <1>6 DEF Delivering
<1>9. CASE n = m
  <2>1. tries[n] # Null
    BY <1>1, <1>7, <1>9
  <2>2. Listed(w, n)
    BY <1>1, <1>9 DEF Listed
  <2>3. /\ Fits(n) /\ tries[n] = row[n].attempts /\ tries[n] \in Nat /\ tries[n] < MaxAttempts
        /\ \A v \in Workers \ {w} : ~Listed(v, n) /\ ~Trying(v, n)
    BY <2>1, <2>2, ListedRow
  <2>4. row[n].attempts = 0 /\ row'[n].attempts = 0 /\ row'[n].status = "QUEUED"
    BY <1>4, <1>5, <1>6, <1>9, <2>3 DEF Fits
  <2>5. CASE ~h
    <3>1. tries'[n] = tries[n] + 1
      BY <1>7, <1>9, <2>1, <2>5
    <3> QED BY <1>3, <1>6, <1>9, <2>1, <2>2, <2>4, <2>5, <3>1, TryFits
  <2>6. CASE h
    <3>1. tries'[n] = tries[n] /\ worker'[w].stage = "next"
      BY <1>1, <1>3, <1>6, <2>6
    <3>2. ~Listed(w, n)' /\ ~Trying(w, n)'
      BY <1>8, <1>9, <3>1 DEF Listed, Trying, Delivering
    <3>3. \A v \in Workers : ~Listed(v, n)' /\ ~Trying(v, n)'
      BY <1>6, <2>3, <3>2 DEF Listed, Trying, Busy
    <3>4. \A v \in Workers : ~Claims(v, n)'
      BY <3>3 DEF Claims, Listed, Trying, Busy
    <3>5. tries'[n] <= MaxAttempts /\ tries'[n] = row'[n].attempts
      BY <2>3, <2>4, <3>1, OutboxAssumption
    <3> QED BY <2>4, <3>3, <3>4, <3>5 DEF Fits
  <2> QED BY <2>5, <2>6
<1>10. CASE n # m
  <2>1. tries'[n] = tries[n] /\ row'[n] = row[n]
    BY <1>1, <1>6, <1>7, <1>10
  <2>2. Fits(n)
    BY <2>1 DEF TriesInv, TriesFit
  <2>3. Listed(w, n)' => Listed(w, n)
    BY <1>1, <1>8 DEF Listed
  <2>4. ~Trying(w, n)' /\ ~Trying(w, n)
    BY <1>1, <1>8, <1>10 DEF Trying, Delivering
  <2>5. Rests(n)
    BY <1>6, <2>1, <2>3, <2>4, OneMoves
  <2> QED BY <2>2, <2>5, RestsKeepsFit
<1> QED BY <1>9, <1>10

\* A call that starts lists rows that nobody claims, or their tries are not told
\* any more; a row that nobody claims was recorded.
LEMMA StartFits ==
    ASSUME TriesInv, NEW w \in Workers, NEW op, NEW held, NEW todo \in SUBSET Rows,
           Start(w, op, held, todo),
           \A n \in todo : \/ row[n].status \in {"ABSENT", "QUEUED"}
                           \/ row[n].status = "FAILED" /\ row[n].attempts < MaxAttempts,
           NEW n \in Rows, tries'[n] # Null
    PROVE  Fits(n)'
<1> DEFINE c == [op |-> op, held |-> held, todo |-> todo,
                 current |-> Null, stage |-> "next", seen |-> 0]
<1>1. /\ ~Busy(w) /\ worker' = [worker EXCEPT ![w] = c] /\ row' = row
      /\ tries' = [x \in Rows |-> IF x \in todo /\ \E v \in Workers : Claims(v, x)
                                  THEN Null ELSE tries[x]]
  BY DEF Start, Busy
<1>2. c.todo = todo /\ c.stage = "next"
  OBVIOUS
<1> HIDE DEF c
<1>3. worker'[w] = c /\ \A v \in Workers \ {w} : worker'[v] = worker[v]
  BY <1>1 DEF TriesInv, IInv, TableOK
<1>4. tries'[n] = tries[n] /\ (n \in todo => \A v \in Workers : ~Claims(v, n))
  BY <1>1
<1>5. Fits(n)
  BY <1>4 DEF TriesInv, TriesFit
<1>6. ~Trying(w, n)' /\ ~Trying(w, n) /\ ~Listed(w, n)
  BY <1>1, <1>2, <1>3 DEF Trying, Listed, Busy, Delivering
<1>7. CASE n \notin todo
  <2>1. ~Listed(w, n)'
    BY <1>2, <1>3, <1>7 DEF Listed
  <2>2. Rests(n)
    BY <1>1, <1>3, <1>4, <1>6, <2>1, OneMoves
  <2> QED BY <1>5, <2>2, RestsKeepsFit
<1>8. CASE n \in todo
  <2>1. \A v \in Workers : ~Claims(v, n) /\ ~Trying(v, n) /\ ~Listed(v, n)
    BY <1>4, <1>8, ClaimsAre
  <2>2. \A v \in Workers : ~Trying(v, n)'
    BY <1>3, <1>6, <2>1 DEF Trying
  <2>3. \A v \in Workers : Claims(v, n)' => v = w
    <3> SUFFICES ASSUME NEW v \in Workers, v # w PROVE ~Claims(v, n)'
      OBVIOUS
    <3>1. worker'[v] = worker[v]
      BY <1>3
    <3> QED BY <2>1, <3>1 DEF Claims, Trying
  <2>4. tries[n] = row[n].attempts /\ row[n].attempts < MaxAttempts
    BY <1>5, <1>8, <2>1, OutboxAssumption DEF Fits
  <2>5. tries'[n] <= MaxAttempts /\ tries'[n] = row'[n].attempts /\ row'[n].attempts < MaxAttempts
    BY <1>1, <1>4, <1>5, <2>4 DEF Fits
  <2>6. row'[n].status \in {"ABSENT", "QUEUED"} => row'[n].attempts = 0
    BY <1>1, <1>5 DEF Fits
  <2> QED BY <2>2, <2>3, <2>5, <2>6 DEF Fits
<1> QED BY <1>7, <1>8

LEMMA StartsFit ==
    ASSUME TriesInv, NEW w \in Workers, NEW n \in Rows, tries'[n] # Null,
           \/ \E m \in Messages, cs \in Preferences, held \in BOOLEAN : Notify(w, m, cs, held)
           \/ StartRetry(w) \/ StartFlush(w)
    PROVE  Fits(n)'
<1>1. CASE \E m \in Messages, cs \in Preferences, held \in BOOLEAN : Notify(w, m, cs, held)
  <2>1. PICK m \in Messages, cs \in Preferences, held \in BOOLEAN : Notify(w, m, cs, held)
    BY <1>1
  <2> DEFINE todo == {m} \X cs
  <2>2. todo \subseteq {m} \X Channels /\ todo \subseteq Rows
    BY OutboxAssumption DEF Rows
  <2>3. \A x \in todo : row[x].status = "ABSENT"
    BY <2>1, <2>2 DEF Notify
  <2>4. Start(w, "notify", held, todo)
    BY <2>1 DEF Notify
  <2> HIDE DEF todo
  <2> QED BY <2>2, <2>3, <2>4, StartFits
<1>2. CASE StartRetry(w)
  <2>1. /\ Due \subseteq Rows /\ Start(w, "retry", FALSE, Due)
        /\ \A x \in Due : row[x].status = "FAILED" /\ row[x].attempts < MaxAttempts
    BY <1>2 DEF StartRetry, Due
  <2> QED BY <2>1, StartFits
<1>3. CASE StartFlush(w)
  <2>1. /\ Held \subseteq Rows /\ Start(w, "flush", FALSE, Held)
        /\ \A x \in Held : row[x].status = "QUEUED"
    BY <1>3 DEF StartFlush, Held
  <2> QED BY <2>1, StartFits
<1> QED BY <1>1, <1>2, <1>3

\* A try that leaves no record is not told any more.
LEMMA SwallowedFits ==
    ASSUME TriesInv, NEW w \in Workers, Swallowed(w), NEW n \in Rows, tries'[n] # Null
    PROVE  Fits(n)'
<1>1. /\ Busy(w) /\ worker[w].stage # "next" /\ Delivered(w) /\ row' = row
      /\ tries' = [tries EXCEPT ![worker[w].current] = Null]
  BY DEF Swallowed, At, Busy, Untold, Current
<1>2. n # worker[w].current /\ tries'[n] = tries[n]
  BY <1>1 DEF TriesInv, TypeOK
<1>3. Fits(n)
  BY <1>2 DEF TriesInv, TriesFit
<1>4. Rests(n)
  BY <1>1, <1>2, OthersRest DEF TriesInv, IInv
<1> QED BY <1>3, <1>4, RestsKeepsFit

LEMMA ClocksFit ==
    ASSUME TriesInv, NEW n \in Rows, tries'[n] # Null,
           (\E m \in Rows : MarkRead(m) \/ BackoffElapses(m)) \/ CooldownElapses \/ Crash
    PROVE  Fits(n)'
<1>1. CASE \E m \in Rows : MarkRead(m) \/ BackoffElapses(m)
  <2>1. PICK m \in Rows : MarkRead(m) \/ BackoffElapses(m)
    BY <1>1
  <2>2. row[m] \in RowType /\ worker' = worker /\ tries' = tries
    BY <2>1 DEF MarkRead, BackoffElapses, TriesInv, IInv, TableOK
  <2>3. row'[n].attempts = row[n].attempts /\ row'[n].status \in {row[n].status, "READ"}
    <3>1. CASE MarkRead(m)
      <4>1. row' = [row EXCEPT ![m] = [row[m] EXCEPT !.status = "READ"]]
        BY <3>1 DEF MarkRead
      <4> QED BY <2>2, <4>1 DEF TriesInv, IInv, TableOK, RowType
    <3>2. CASE BackoffElapses(m)
      <4>1. row' = [row EXCEPT ![m] = [row[m] EXCEPT !.nextRetryAt = "due"]]
        BY <3>2 DEF BackoffElapses
      <4> QED BY <2>2, <4>1 DEF TriesInv, IInv, TableOK, RowType
    <3> QED BY <2>1, <3>1, <3>2
  <2>4. Rests(n)
    BY <2>2, <2>3 DEF Rests, Listed, Trying, Busy
  <2> QED BY <2>2, <2>4, RestsKeepsFit DEF TriesInv, TriesFit
<1>2. CASE CooldownElapses
  <2>1. Rests(n) /\ tries' = tries
    BY <1>2 DEF CooldownElapses, Rests, Listed, Trying, Busy
  <2> QED BY <2>1, RestsKeepsFit DEF TriesInv, TriesFit
<1>3. CASE Crash
  <2>1. /\ worker' = [w \in Workers |-> Idle] /\ row' = row
        /\ tries' = [x \in Rows |-> IF \E w \in Workers : Trying(w, x) THEN Null ELSE tries[x]]
    BY <1>3 DEF Crash
  <2>2. tries'[n] = tries[n] /\ \A w \in Workers : ~Trying(w, n)
    BY <2>1
  <2>3. \A w \in Workers : ~Listed(w, n)' /\ ~Trying(w, n)'
    BY <2>1 DEF Listed, Trying, Busy
  <2>4. Rests(n)
    BY <2>1, <2>2, <2>3 DEF Rests
  <2> QED BY <2>2, <2>4, RestsKeepsFit DEF TriesInv, TriesFit
<1> QED BY <1>1, <1>2, <1>3

LEMMA InitTries == Init => TriesInv
<1> SUFFICES ASSUME Init PROVE TriesInv
  OBVIOUS
<1>1. IInv /\ tries \in [Rows -> Nat \cup {Null}]
  BY InitIInv DEF Init
<1>2. ASSUME NEW n \in Rows PROVE Fits(n)
  <2>1. row[n].status = "ABSENT" /\ row[n].attempts = 0 /\ tries[n] = 0
    BY DEF Init, NewRow
  <2>2. \A w \in Workers : ~Listed(w, n) /\ ~Trying(w, n) /\ ~Claims(w, n)
    BY DEF Init, Listed, Trying, Claims, Busy
  <2> QED BY <2>1, <2>2, OutboxAssumption DEF Fits
<1> QED BY <1>1, <1>2 DEF TriesInv, TriesFit, IInv, TypeOK

LEMMA NextTriesInv == TriesInv /\ [Next]_vars => TriesInv'
<1> SUFFICES ASSUME TriesInv, [Next]_vars PROVE TriesInv'
  OBVIOUS
<1>1. IInv' /\ tries' \in [Rows -> Nat \cup {Null}]
  BY NextIInv, NextTries DEF TriesInv, TypeOK
<1>2. ASSUME NEW n \in Rows, tries'[n] # Null
      PROVE  Fits(n)'
  <2>1. ASSUME tries' = tries, Rests(n)
        PROVE  Fits(n)'
    BY <1>2, <2>1, RestsKeepsFit DEF TriesInv, TriesFit
  <2>2. CASE UNCHANGED vars
    <3>1. Rests(n)
      BY <2>2 DEF vars, Rests, Listed, Trying, Busy
    <3> QED BY <2>1, <2>2, <3>1 DEF vars
  <2>3. ASSUME NEW w \in Workers,
               \/ \E m \in Messages, cs \in Preferences, held \in BOOLEAN :
                     Notify(w, m, cs, held)
               \/ StartRetry(w) \/ StartFlush(w)
        PROVE  Fits(n)'
    BY <1>2, <2>3, StartsFit
  <2>4. ASSUME NEW w \in Workers, Deliver(w) \/ Finish(w) \/ Swallowed(w) \/ Aborted(w)
        PROVE  Fits(n)'
    <3>1. CASE MarkFailed(w)
      BY <1>2, <3>1, MarkFailedFits
    <3>2. CASE Swallowed(w)
      BY <1>2, <3>2, SwallowedFits
    <3>3. CASE ~MarkFailed(w) /\ ~Swallowed(w)
      <4>1. Rests(n)
        BY <2>4, <3>3, StagesRest, ReadAttemptsRests, WritesRest, EndRests DEF Deliver
      <4>2. tries' = tries
        BY <2>4, <3>3 DEF Deliver, Finish, Aborted, SendInApp, NoRecipient, CircuitOpen,
                          CallProvider, Accept, Reject, MarkSent, MarkSentFails, ReadAttempts,
                          Unhold
      <4> QED BY <2>1, <4>1, <4>2
    <3> QED BY <3>1, <3>2, <3>3
  <2>5. ASSUME NEW w \in Workers, NEW m \in Rows, Create(w, m) \/ Take(w, m)
        PROVE  Fits(n)'
    BY <1>2, <2>5, CreateFits, TakeFits
  <2>6. ASSUME \/ \E m \in Rows : MarkRead(m) \/ BackoffElapses(m)
               \/ CooldownElapses \/ Crash
        PROVE  Fits(n)'
    BY <1>2, <2>6, ClocksFit
  <2> QED BY <2>2, <2>3, <2>4, <2>5, <2>6 DEF Next, Proceed
<1> QED BY <1>1, <1>2 DEF TriesInv, TriesFit, IInv, TypeOK

\* retryFailed gives up after MAX_ATTEMPTS tries of a row, however many calls are in
\* progress, as long as markFailed recorded every try of it that failed and no
\* two calls had it at the same time.
THEOREM RetriesGiveUp == Spec => []GivesUp
<1>1. TriesInv => GivesUp
  BY DEF TriesInv, TriesFit, Fits, GivesUp
<1>2. Init /\ [][Next]_vars => []TriesInv
  BY InitTries, NextTriesInv, PTL
<1> QED BY <1>1, <1>2, PTL DEF Spec
=============================================================================
