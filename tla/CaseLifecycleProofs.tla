------------------------ MODULE CaseLifecycleProofs ------------------------
(***************************************************************************)
(* What CaseLifecycle guarantees for any number of cases, handlers, case   *)
(* types and clock values, however the handlers interleave.                *)
(***************************************************************************)
EXTENDS CaseLifecycle, TLAPS

Triage == {"SUBMITTED", "QUALIFIED", "ASSIGNED"}

\* The stamps of a row are no later than the instant t.
StampedBy(row, t) ==
    /\ row.submittedAt # Null => row.submittedAt <= t
    /\ row.slaPausedAt # Null => row.slaPausedAt <= t
    /\ row.resolvedAt # Null => row.resolvedAt <= t
    /\ row.closedAt # Null => row.closedAt <= t

\* What holds of a row whatever its writers saw: the properties below, row
\* by row, and stamps of the past.
RowOK(row) ==
    /\ StampedBy(row, now)
    /\ row.status \in PausedStatuses => row.slaPausedAt # Null
    /\ row.status = "RESOLVED" => row.resolvedAt # Null
    /\ row.status = "CLOSED" => row.closedAt # Null
    /\ row.status \in Triage => row.submittedAt # Null
    /\ row.status # "ARCHIVED"
    /\ row.status = "ABSENT" => row.submittedAt = Null

\* What a transition that saw the row `seen` may rely on when it writes: it
\* follows the map, it does not leave a closed case except to reopen it, and
\* if it saw the case in triage then the case is still a submitted one.
MayWrite(seen, to, row) ==
    /\ IsTransition(seen.status, to)
    /\ NotClosed(seen.status) \/ IsReopen(seen.status, to)
    /\ seen.status \in Triage => row.submittedAt # Null

RequestsOK ==
    \A h \in Handlers :
        req[h].op = "transition" =>
            /\ req[h].since <= now /\ StampedBy(req[h].seen, req[h].since)
            /\ MayWrite(req[h].seen, req[h].to, cases[req[h].case])

IInv ==
    /\ TypeOK
    /\ \A c \in Cases : RowOK(cases[c])
    /\ RequestsOK
-----------------------------------------------------------------------------
\* The entries of the map that lead to a status with an obligation.
LEMMA RulesInto ==
    ASSUME NEW f, NEW t, IsTransition(f, t)
    PROVE  /\ t = "SUBMITTED" => f = "DRAFT"
           /\ t = "QUALIFIED" => f = "SUBMITTED"
           /\ t = "ASSIGNED" => f = "QUALIFIED"
           /\ t = "ARCHIVED" => f = "CLOSED"
           /\ t # "DRAFT" /\ t \in CaseStatus /\ f \in CaseStatus
BY DEF IsTransition, RulesFor, CaseTransitionRules, Rule, ActiveStatuses, CaseStatus

LEMMA MayIsTransition ==
    ASSUME NEW f, NEW t, NEW reason, NEW granted, MayTransition(f, t, reason, granted)
    PROVE  IsTransition(f, t)
BY DEF MayTransition, IsTransition

\* Deadlines computed from instants of the clock are instants.
LEMMA Deadlines ==
    ASSUME NEW start \in Time, NEW cal \in Calendars
    PROVE  /\ \A t \in CaseTypes : SlaDueAt(start, SlaHours[t], cal) \in Nat
           /\ SlaDueAt(start, ReopenHours, cal) \in Nat
BY SlaDueAtAssumption

\* Leaving a pause yields a row.
LEMMA ResumedType ==
    ASSUME NEW at \in Time, NEW row \in CaseRow, NEW seen \in CaseRow, StampedBy(seen, at)
    PROVE  Resumed(row, seen, at) \in CaseRow
<1> USE ConstantsAssumption
<1>1. CASE seen.slaPausedAt = Null
  BY <1>1 DEF Resumed
<1>2. CASE seen.slaPausedAt # Null
  <2> DEFINE p == at - seen.slaPausedAt
             m == row.slaPausedMs + p
             d == IF seen.slaDueAt = Null THEN row.slaDueAt ELSE seen.slaDueAt + p
  <2>1. p \in Nat
    BY <1>2 DEF CaseRow, OrNull, Time, StampedBy
  <2>2. m \in Nat
    BY <2>1 DEF CaseRow
  <2>3. d \in OrNull(Nat)
    BY <2>1 DEF CaseRow, OrNull
  <2>4. Resumed(row, seen, at) = [row EXCEPT !.slaPausedMs = m, !.slaPausedAt = Null,
                                         !.slaDueAt = d]
    BY <1>2 DEF Resumed
  <2> HIDE DEF m, d
  <2> QED
    BY <2>2, <2>3, <2>4 DEF CaseRow, OrNull
<1> QED BY <1>1, <1>2

\* The side effects of a transition yield a row.
LEMMA EffectsRowType ==
    ASSUME NEW at \in Time, NEW row \in CaseRow, NEW seen \in CaseRow, StampedBy(seen, at),
           NEW to \in CaseStatus, NEW i \in BOOLEAN
    PROVE  Effects(row, seen, to, i, at) \in CaseRow
<1> USE ConstantsAssumption
<1>0. at \in Nat /\ "organisation" \in Calendars /\ "default" \in Calendars
  BY DEF Time, Calendars
<1>1. Resumed(row, seen, at) \in CaseRow
  BY ResumedType
<1>2. \A r \in CaseRow : Reopened(r, at) \in CaseRow
  BY <1>0, Deadlines DEF Reopened, CaseRow, OrNull
<1>3. (IF seen.submittedAt = Null THEN at ELSE seen.submittedAt) \in Time
  BY DEF CaseRow, OrNull
<1>4. /\ SlaDueAt(at, SlaHours[seen.caseType], "organisation") \in Nat
      /\ SlaDueAt(IF seen.submittedAt = Null THEN at ELSE seen.submittedAt,
                  SlaHours[seen.caseType], "default") \in Nat
  BY <1>0, <1>3, Deadlines DEF CaseRow
<1>5. CASE to \in {"SUBMITTED", "QUALIFIED", "ASSIGNED"}
  <2> DEFINE d1 == SlaDueAt(at, SlaHours[seen.caseType], "organisation")
             d2 == SlaDueAt(IF seen.submittedAt = Null THEN at ELSE seen.submittedAt,
                            SlaHours[seen.caseType], "default")
             n == IF i THEN row.instances + 1 ELSE row.instances
  <2>1. d1 \in Nat /\ d2 \in Nat /\ n \in Nat
    BY <1>4 DEF CaseRow
  <2>2. CASE to = "SUBMITTED"
    <3>1. Effects(row, seen, to, i, at) = [row EXCEPT !.submittedAt = at, !.slaDueAt = d1]
      BY <2>2 DEF Effects, PausedStatuses
    <3> HIDE DEF d1
    <3> QED BY <2>1, <3>1 DEF CaseRow, OrNull
  <2>3. CASE to = "QUALIFIED"
    <3>1. Effects(row, seen, to, i, at) = [row EXCEPT !.slaDueAt = d2]
      BY <2>3 DEF Effects, PausedStatuses
    <3> HIDE DEF d2
    <3> QED BY <2>1, <3>1 DEF CaseRow, OrNull
  <2>4. CASE to = "ASSIGNED"
    <3>1. Effects(row, seen, to, i, at) = [row EXCEPT !.instances = n]
      BY <2>4 DEF Effects, PausedStatuses
    <3> HIDE DEF n
    <3> QED BY <2>1, <3>1 DEF CaseRow, OrNull
  <2> QED BY <1>5, <2>2, <2>3, <2>4
<1>6. CASE to \in PausedStatuses \cup {"RESOLVED", "CLOSED"}
  BY <1>6 DEF Effects, CaseRow, OrNull, PausedStatuses
<1>7. CASE to = "IN_PROGRESS"
  BY <1>7, <1>1, <1>2 DEF Effects, PausedStatuses
<1>8. CASE to \notin {"SUBMITTED", "QUALIFIED", "ASSIGNED", "IN_PROGRESS",
                      "RESOLVED", "CLOSED"} \cup PausedStatuses
  BY <1>8 DEF Effects, PausedStatuses
<1> QED BY <1>5, <1>6, <1>7, <1>8

\* And it is a row in order, that keeps the submission.
LEMMA EffectsOK ==
    ASSUME now \in Time, NEW at \in Time, at <= now,
           NEW row \in CaseRow, RowOK(row), NEW seen \in CaseRow, StampedBy(seen, at),
           NEW to \in CaseStatus, MayWrite(seen, to, row), NEW i \in BOOLEAN
    PROVE  LET new == [Effects(row, seen, to, i, at) EXCEPT !.status = to] IN
           /\ RowOK(new)
           /\ row.submittedAt # Null => new.submittedAt # Null
<1> USE ConstantsAssumption
<1> DEFINE new == [Effects(row, seen, to, i, at) EXCEPT !.status = to]
<1>0. now \in Nat /\ at \in Nat /\ at # Null
  BY DEF Time
<1>1. /\ to # "ARCHIVED" /\ to # "DRAFT" /\ to # "ABSENT"
      /\ to \in {"QUALIFIED", "ASSIGNED"} => row.submittedAt # Null
  BY RulesInto DEF MayWrite, NotClosed, IsReopen, Triage, CaseStatus
<1>2. new \in CaseRow /\ new.status = to
  <2>1. Effects(row, seen, to, i, at) \in CaseRow
    BY EffectsRowType
  <2> QED BY <2>1 DEF CaseRow
<1>3. CASE to = "SUBMITTED"
  BY <1>0, <1>3 DEF Effects, RowOK, StampedBy, CaseRow, PausedStatuses, Triage
<1>4. CASE to = "QUALIFIED"
  BY <1>1, <1>4 DEF Effects, RowOK, StampedBy, CaseRow, PausedStatuses, Triage
<1>5. CASE to = "ASSIGNED"
  BY <1>1, <1>5 DEF Effects, RowOK, StampedBy, CaseRow, PausedStatuses, Triage
<1>6. CASE to \in PausedStatuses
  BY <1>0, <1>6 DEF Effects, RowOK, StampedBy, CaseRow, PausedStatuses, Triage
<1>7. CASE to = "IN_PROGRESS"
  <2>1. LET r == Resumed(row, seen, at) IN
        /\ r.slaPausedAt \in {row.slaPausedAt, Null}
        /\ r.resolvedAt = row.resolvedAt /\ r.closedAt = row.closedAt
        /\ r.submittedAt = row.submittedAt
    BY DEF Resumed, CaseRow
  <2>2. LET r == Effects(row, seen, to, i, at) IN
        /\ r.slaPausedAt \in {row.slaPausedAt, Null}
        /\ r.resolvedAt \in {row.resolvedAt, Null}
        /\ r.closedAt \in {row.closedAt, Null}
        /\ r.submittedAt = row.submittedAt
    BY <1>7, <2>1, ResumedType DEF Effects, PausedStatuses, Reopened, CaseRow
  <2>3. /\ new.slaPausedAt \in {row.slaPausedAt, Null}
        /\ new.resolvedAt \in {row.resolvedAt, Null}
        /\ new.closedAt \in {row.closedAt, Null}
        /\ new.submittedAt = row.submittedAt
    BY <2>2
  <2> QED
    BY <1>2, <1>7, <2>3 DEF RowOK, StampedBy, PausedStatuses, Triage
<1>8. CASE to = "RESOLVED"
  BY <1>0, <1>8 DEF Effects, RowOK, StampedBy, CaseRow, PausedStatuses, Triage
<1>9. CASE to = "CLOSED"
  BY <1>0, <1>9 DEF Effects, RowOK, StampedBy, CaseRow, PausedStatuses, Triage
<1>10. CASE to \notin {"SUBMITTED", "QUALIFIED", "ASSIGNED", "IN_PROGRESS",
                       "RESOLVED", "CLOSED"} \cup PausedStatuses
  BY <1>1, <1>10 DEF Effects, RowOK, StampedBy, CaseRow, PausedStatuses, Triage
<1> QED BY <1>3, <1>4, <1>5, <1>6, <1>7, <1>8, <1>9, <1>10
-----------------------------------------------------------------------------
\* Writing one row in order, without taking back a submission, keeps the
\* table in order.
LEMMA RowWritten ==
    ASSUME TypeOK, \A c \in Cases : RowOK(cases[c]), now' = now,
           NEW c0 \in Cases, NEW new \in CaseRow, RowOK(new),
           cases[c0].submittedAt # Null => new.submittedAt # Null,
           cases' = [cases EXCEPT ![c0] = new]
    PROVE  /\ cases' \in [Cases -> CaseRow]
           /\ (\A c \in Cases : RowOK(cases[c]))'
           /\ \A c \in Cases : cases[c].submittedAt # Null => cases'[c].submittedAt # Null
BY DEF TypeOK, RowOK, StampedBy

\* Requests in flight stay in order when submissions are kept and no
\* transition is begun.
LEMMA RequestsKept ==
    ASSUME TypeOK, RequestsOK, now' = now \/ now' = now + 1,
           \A c \in Cases : cases[c].submittedAt # Null => cases'[c].submittedAt # Null,
           \A h \in Handlers : req'[h] = req[h] \/ req'[h].op # "transition"
    PROVE  RequestsOK'
<1> SUFFICES ASSUME NEW h \in Handlers, req'[h].op = "transition"
             PROVE  /\ req'[h].since <= now' /\ StampedBy(req'[h].seen, req'[h].since)
                    /\ MayWrite(req'[h].seen, req'[h].to, cases'[req'[h].case])
  BY DEF RequestsOK
<1>1. req'[h] = req[h] /\ req[h].op = "transition"
  OBVIOUS
<1>2. req[h].case \in Cases /\ req[h].since \in Time
  BY <1>1 DEF TypeOK, Request, Idle
<1>3. /\ req[h].since <= now /\ StampedBy(req[h].seen, req[h].since)
      /\ MayWrite(req[h].seen, req[h].to, cases[req[h].case])
  BY <1>1 DEF RequestsOK
<1>4. req[h].since <= now'
  BY <1>2, <1>3, ConstantsAssumption DEF TypeOK, Time
<1> QED
  BY <1>1, <1>2, <1>3, <1>4 DEF MayWrite

\* The end of a request leaves its handler idle.
LEMMA FinishType ==
    ASSUME TypeOK, NEW h \in Handlers, Finish(h)
    PROVE  /\ req' \in [Handlers -> Request]
           /\ \A k \in Handlers : req'[k] = req[k] \/ req'[k].op # "transition"
BY DEF TypeOK, Finish, Request, Idle

\* So does every step that begins a request other than a transition.
LEMMA BeginType ==
    ASSUME TypeOK, NEW h \in Handlers, NEW r \in Request, Begin(h, r)
    PROVE  /\ req' \in [Handlers -> Request]
           /\ \A k \in Handlers : req'[k] = req[k] \/ req'[k] = r
BY DEF TypeOK, Begin
-----------------------------------------------------------------------------
\* A step that opens a case.
LEMMA StepCreate ==
    ASSUME IInv, NEW c \in Cases, NEW t \in CaseTypes, NEW valid \in BOOLEAN,
           CreateCase(c, t, valid) \/ PublicRequest(c, t, valid)
    PROVE  IInv'
<1> USE ConstantsAssumption DEF IInv
<1> DEFINE draft == NewRow("DRAFT", t, valid)
           due == IF SlaHours[t] = 0 THEN Null ELSE now + SlaHours[t]
           web == [NewRow("SUBMITTED", t, valid) EXCEPT
                      !.submittedAt = now, !.slaDueAt = due]
<1>1. now \in Nat /\ now \in Time /\ now # Null /\ due \in OrNull(Nat)
  BY DEF TypeOK, Time, OrNull
<1>2. cases[c].submittedAt = Null
  BY DEF CreateCase, PublicRequest, Exists, RowOK
<1>3. draft \in CaseRow /\ RowOK(draft)
  BY DEF NewRow, CaseRow, OrNull, CaseStatus, RowOK, StampedBy, PausedStatuses, Triage
<1>4. web \in CaseRow /\ RowOK(web)
  <2> HIDE DEF due
  <2>1. web \in CaseRow
    BY <1>1 DEF NewRow, CaseRow, OrNull, CaseStatus
  <2> QED
    BY <1>1, <2>1 DEF NewRow, RowOK, StampedBy, PausedStatuses, Triage
<1>5. PICK new \in {draft, web} :
        now' = now /\ lastRow' = lastRow /\ req' = req /\ cases' = [cases EXCEPT ![c] = new]
  BY DEF CreateCase, PublicRequest
<1>6. /\ cases' \in [Cases -> CaseRow]
      /\ (\A k \in Cases : RowOK(cases[k]))'
      /\ \A k \in Cases : cases[k].submittedAt # Null => cases'[k].submittedAt # Null
  <2> HIDE DEF draft, web
  <2> QED BY <1>2, <1>3, <1>4, <1>5, RowWritten
<1>7. RequestsOK'
  BY <1>5, <1>6, RequestsKept
<1> QED BY <1>5, <1>6, <1>7 DEF TypeOK

\* A step of the clock.
LEMMA StepTick ==
    ASSUME IInv, Tick
    PROVE  IInv'
<1> USE ConstantsAssumption DEF IInv
<1>1. TypeOK'
  BY DEF TypeOK, Tick, Time
<1>2. (\A c \in Cases : RowOK(cases[c]))'
  <2> SUFFICES ASSUME NEW c \in Cases PROVE RowOK(cases[c])'
    OBVIOUS
  <2>1. cases'[c] = cases[c] /\ cases[c] \in CaseRow /\ RowOK(cases[c])
    BY DEF Tick, TypeOK
  <2>2. StampedBy(cases[c], now)'
    BY <2>1 DEF Tick, TypeOK, Time, StampedBy, RowOK, CaseRow, OrNull
  <2> QED BY <2>1, <2>2 DEF RowOK
<1>3. RequestsOK'
  BY RequestsKept DEF Tick
<1> QED BY <1>1, <1>2, <1>3

\* A step that only changes a handler, to anything but a transition.
LEMMA StepHandler ==
    ASSUME IInv, UNCHANGED <<now, cases, lastRow>>, req' \in [Handlers -> Request],
           \A k \in Handlers : req'[k] = req[k] \/ req'[k].op # "transition"
    PROVE  IInv'
<1>1. RequestsOK'
  BY RequestsKept DEF IInv
<1> QED BY <1>1 DEF IInv, TypeOK, RowOK, StampedBy

\* A transition is begun on what the map allows.
LEMMA StepBeginTransition ==
    ASSUME IInv, NEW h \in Handlers, NEW c \in Cases, NEW to \in CaseStatus,
           NEW reason \in BOOLEAN, NEW i \in BOOLEAN,
           BeginTransition(h, c, to, reason, i)
    PROVE  IInv'
<1> USE DEF IInv
<1> DEFINE r == [op |-> "transition", case |-> c, seen |-> cases[c], to |-> to,
                 instantiate |-> i, since |-> now]
<1>1. r \in Request
  BY DEF TypeOK, Request
<1>2. /\ req' \in [Handlers -> Request]
      /\ \A k \in Handlers : req'[k] = req[k] \/ req'[k] = r
  BY <1>1, BeginType DEF BeginTransition
<1>3. now <= now /\ StampedBy(cases[c], now) /\ MayWrite(cases[c], to, cases[c])
  BY MayIsTransition DEF BeginTransition, MayWrite, RowOK, TypeOK, Time
<1>4. UNCHANGED <<now, cases, lastRow>>
  BY DEF BeginTransition
<1>5. RequestsOK'
  <2> SUFFICES ASSUME NEW k \in Handlers, req'[k].op = "transition"
               PROVE  /\ req'[k].since <= now' /\ StampedBy(req'[k].seen, req'[k].since)
                      /\ MayWrite(req'[k].seen, req'[k].to, cases'[req'[k].case])
    BY DEF RequestsOK
  <2>1. CASE req'[k] = r
    BY <1>3, <1>4, <2>1 DEF MayWrite, StampedBy
  <2>2. CASE req'[k] = req[k]
    BY <1>4, <2>2 DEF RequestsOK, MayWrite, StampedBy
  <2> QED BY <1>2, <2>1, <2>2
<1> QED BY <1>2, <1>4, <1>5 DEF TypeOK, RowOK, StampedBy

\* Every other step that begins a request, confirms or abandons one.
LEMMA StepBegin ==
    ASSUME IInv, NEW h \in Handlers, NEW c \in Cases, NEW t \in CaseTypes,
           NEW valid \in BOOLEAN, NEW to \in {"APPROVED", "REJECTED"},
           NEW reason \in BOOLEAN,
           \/ BeginUpdate(h, c, t, valid) \/ BeginBreach(h, c)
           \/ BeginDecision(h, c, to, reason)
           \/ ConfirmDecision(h) \/ Abandon(h)
    PROVE  IInv'
<1> USE ConstantsAssumption DEF IInv
<1>0. Exists(c) => cases[c].status \in CaseStatus
  BY DEF Exists, TypeOK, CaseRow
<1>1. CASE BeginUpdate(h, c, t, valid)
  <2> DEFINE submitted == cases[c].submittedAt
             retyped == t # cases[c].caseType
             r == [op |-> "update", case |-> c, from |-> cases[c].status,
                   retyped |-> retyped, caseType |-> t, formValid |-> valid,
                   submittedAt |-> submitted, since |-> now]
  <2>1. submitted \in OrNull(Time) /\ now \in Time /\ retyped \in BOOLEAN
    BY DEF TypeOK, CaseRow
  <2>3. Begin(h, r) /\ UNCHANGED <<now, cases, lastRow>>
    BY <1>1 DEF BeginUpdate
  <2>4. r \in Request
    <3> HIDE DEF submitted, retyped
    <3> QED BY <1>0, <1>1, <2>1 DEF BeginUpdate, Request
  <2>5. r.op # "transition"
    OBVIOUS
  <2> HIDE DEF r
  <2> QED BY <2>3, <2>4, <2>5, BeginType, StepHandler
<1>2. CASE BeginBreach(h, c)
  <2> DEFINE r == [op |-> "breach", case |-> c, from |-> cases[c].status]
  <2>1. r \in Request /\ r.op # "transition"
    BY <1>2 DEF BeginBreach, Request, SweptStatuses, CaseStatus
  <2>2. Begin(h, r) /\ UNCHANGED <<now, cases, lastRow>>
    BY <1>2 DEF BeginBreach
  <2> HIDE DEF r
  <2> QED BY <2>1, <2>2, BeginType, StepHandler
<1>3. CASE BeginDecision(h, c, to, reason)
  <2> DEFINE r == [op |-> "decide", case |-> c, from |-> cases[c].status, to |-> to]
  <2>1. r \in Request /\ r.op # "transition"
    BY <1>0, <1>3 DEF BeginDecision, Request
  <2>2. Begin(h, r) /\ UNCHANGED <<now, cases, lastRow>>
    BY <1>3 DEF BeginDecision
  <2> HIDE DEF r
  <2> QED BY <2>1, <2>2, BeginType, StepHandler
<1>4. CASE ConfirmDecision(h)
  <2> DEFINE r == req[h]
             confirmed == [r EXCEPT !.op = "apply"]
  <2>1. r \in [op: {"decide", "apply"}, case: Cases, from: CaseStatus,
               to: {"APPROVED", "REJECTED"}]
    BY <1>4 DEF ConfirmDecision, TypeOK, Request, Idle
  <2>2. confirmed \in Request /\ confirmed.op # "transition"
    BY <2>1 DEF Request
  <2>3. /\ UNCHANGED <<now, cases, lastRow>>
        /\ \/ req' = [req EXCEPT ![h] = confirmed]
           \/ req' = [req EXCEPT ![h] = Idle]
    BY <1>4 DEF ConfirmDecision, TypeOK
  <2> HIDE DEF confirmed
  <2>4. /\ req' \in [Handlers -> Request]
        /\ \A k \in Handlers : req'[k] = req[k] \/ req'[k].op # "transition"
    BY <2>2, <2>3 DEF TypeOK, Request, Idle
  <2> QED BY <2>3, <2>4, StepHandler
<1>5. CASE Abandon(h)
  BY <1>5, FinishType, StepHandler DEF Abandon
<1> QED BY <1>1, <1>2, <1>3, <1>4, <1>5

\* A step that writes one row and ends its request.
LEMMA StepWrite ==
    ASSUME IInv, NEW h \in Handlers, Finish(h), now' = now,
           lastRow' \in [Cases -> HistoryRow \cup {Null}],
           NEW c \in Cases, NEW new \in CaseRow, RowOK(new),
           cases[c].submittedAt # Null => new.submittedAt # Null,
           cases' = [cases EXCEPT ![c] = new]
    PROVE  IInv'
<1> USE DEF IInv
<1>1. /\ cases' \in [Cases -> CaseRow]
      /\ (\A k \in Cases : RowOK(cases[k]))'
      /\ \A k \in Cases : cases[k].submittedAt # Null => cases'[k].submittedAt # Null
  BY RowWritten
<1>2. /\ req' \in [Handlers -> Request]
      /\ \A k \in Handlers : req'[k] = req[k] \/ req'[k].op # "transition"
  BY FinishType
<1>3. RequestsOK'
  BY <1>1, <1>2, RequestsKept
<1> QED BY <1>1, <1>2, <1>3 DEF TypeOK

\* A history row can be logged for any two statuses.
LEMMA LogType ==
    ASSUME TypeOK, NEW c \in Cases, NEW from \in CaseStatus, NEW to \in CaseStatus,
           Log(c, from, to)
    PROVE  lastRow' \in [Cases -> HistoryRow \cup {Null}]
BY DEF TypeOK, Log, HistoryRow

UpdateRequest ==
    [op: {"update"}, case: Cases, from: CaseStatus, retyped: BOOLEAN,
     caseType: CaseTypes, formValid: BOOLEAN, submittedAt: OrNull(Time), since: Time]

\* An instant that a handler may have taken is one of the clock's, and later
\* than its reading.
LEMMA InstantTaken ==
    ASSUME TypeOK, NEW r, r.since \in Time, NEW at \in Instants(r)
    PROVE  at \in Time /\ r.since <= at /\ at <= now
BY ConstantsAssumption DEF TypeOK, Time, Instants

LEMMA StampedLater ==
    ASSUME NEW row \in CaseRow, NEW t \in Time, NEW u \in Time, t <= u, StampedBy(row, t)
    PROVE  StampedBy(row, u)
BY ConstantsAssumption DEF StampedBy, CaseRow, OrNull, Time

\* An edit of the form leaves the status and the stamps alone.
LEMMA UpdatedOK ==
    ASSUME NEW at \in Time, NEW row \in CaseRow, RowOK(row), NEW r \in UpdateRequest
    PROVE  /\ Updated(row, r, at) \in CaseRow /\ RowOK(Updated(row, r, at))
           /\ Updated(row, r, at).submittedAt = row.submittedAt
<1> DEFINE start == IF r.submittedAt = Null THEN at ELSE r.submittedAt
           due == SlaDueAt(start, SlaHours[r.caseType], "organisation")
           t == IF r.retyped THEN r.caseType ELSE row.caseType
           d == IF r.retyped THEN due ELSE row.slaDueAt
           v == r.formValid
<1>0. due \in Nat
  <2>1. start \in Time /\ "organisation" \in Calendars /\ r.caseType \in CaseTypes
    BY DEF UpdateRequest, OrNull, Calendars
  <2> QED BY <2>1, Deadlines
<1>1. Updated(row, r, at) = [row EXCEPT !.formValid = v, !.caseType = t, !.slaDueAt = d]
  BY DEF Updated
<1>2. t \in CaseTypes /\ d \in OrNull(Nat) /\ v \in BOOLEAN
  <2> HIDE DEF due
  <2> QED BY <1>0 DEF CaseRow, OrNull, UpdateRequest
<1> HIDE DEF t, d, v
<1> QED BY <1>1, <1>2, ZenonT(40) DEF CaseRow, RowOK, StampedBy

\* The four transactions.
LEMMA StepCommit ==
    ASSUME IInv, NEW h \in Handlers,
           \/ CommitTransition(h) \/ CommitUpdate(h)
           \/ CommitBreach(h) \/ ApplyDecision(h)
    PROVE  IInv'
<1> USE ConstantsAssumption DEF IInv
<1> DEFINE r == req[h]
           row == cases[r.case]
<1>0. now \in Time /\ r \in Request
  BY DEF TypeOK
<1>1. CASE CommitTransition(h)
  <2>1. /\ r.op = "transition" /\ r.case \in Cases /\ r.seen \in CaseRow
        /\ r.to \in CaseStatus /\ r.instantiate \in BOOLEAN /\ r.since \in Time
    BY <1>0, <1>1 DEF CommitTransition, Request, Idle
  <2>2. /\ row \in CaseRow /\ RowOK(row) /\ MayWrite(r.seen, r.to, row)
        /\ StampedBy(r.seen, r.since)
    BY <2>1 DEF TypeOK, RequestsOK
  <2>3. PICK at \in Instants(r) :
           /\ cases' = [cases EXCEPT ![r.case] =
                           [Effects(row, r.seen, r.to, r.instantiate, at) EXCEPT !.status = r.to]]
           /\ Log(r.case, r.seen.status, r.to) /\ Finish(h) /\ now' = now
    BY <1>1, <2>1 DEF CommitTransition, TypeOK
  <2> DEFINE new == [Effects(row, r.seen, r.to, r.instantiate, at) EXCEPT !.status = r.to]
  <2>8. at \in Time /\ r.since <= at /\ at <= now
    BY <2>1, <2>3, InstantTaken
  <2>9. StampedBy(r.seen, at)
    BY <2>1, <2>2, <2>8, StampedLater
  <2>4. r.seen.status \in CaseStatus
    BY <2>2, RulesInto DEF MayWrite
  <2>5. RowOK(new) /\ (row.submittedAt # Null => new.submittedAt # Null)
    BY <1>0, <2>1, <2>2, <2>8, <2>9, EffectsOK
  <2>6. new \in CaseRow
    <3>1. Effects(row, r.seen, r.to, r.instantiate, at) \in CaseRow
      BY <2>1, <2>2, <2>8, <2>9, EffectsRowType
    <3> QED BY <2>1, <3>1 DEF CaseRow
  <2>7. lastRow' \in [Cases -> HistoryRow \cup {Null}]
    BY <2>1, <2>3, <2>4, LogType
  <2>10. cases' = [cases EXCEPT ![r.case] = new] /\ Finish(h) /\ now' = now
    BY <2>3
  <2> HIDE DEF new
  <2> QED BY <2>1, <2>5, <2>6, <2>7, <2>10, StepWrite
<1>2. CASE CommitUpdate(h)
  <2>1. r \in UpdateRequest
    BY <1>0, <1>2 DEF CommitUpdate, Request, Idle, UpdateRequest
  <2>2. row \in CaseRow /\ RowOK(row) /\ r.case \in Cases /\ r.since \in Time
    BY <2>1 DEF TypeOK, UpdateRequest
  <2>3. PICK at \in Instants(r) :
           /\ cases' = [cases EXCEPT ![r.case] = Updated(row, r, at)]
           /\ r.retyped => Log(r.case, r.from, r.from)
           /\ ~r.retyped => lastRow' = lastRow
           /\ Finish(h) /\ now' = now
    BY <1>2, <2>2 DEF CommitUpdate, TypeOK
  <2> DEFINE new == Updated(row, r, at)
  <2>4. lastRow' \in [Cases -> HistoryRow \cup {Null}]
    BY <2>1, <2>3, LogType DEF TypeOK, UpdateRequest
  <2>5. new \in CaseRow /\ RowOK(new) /\ new.submittedAt = row.submittedAt
    BY <2>1, <2>2, <2>3, InstantTaken, UpdatedOK
  <2>6. cases' = [cases EXCEPT ![r.case] = new] /\ Finish(h) /\ now' = now
    BY <2>3
  <2> HIDE DEF new
  <2> QED BY <2>2, <2>4, <2>5, <2>6, StepWrite
<1>3. CASE CommitBreach(h) \/ ApplyDecision(h)
  <2> DEFINE to == IF r.op = "breach" THEN "ESCALATED" ELSE r.to
             new == [row EXCEPT !.status = to]
  <2>1. /\ r.case \in Cases /\ r.from \in CaseStatus
        /\ to \in {"ESCALATED", "APPROVED", "REJECTED"}
    BY <1>0, <1>3 DEF CommitBreach, ApplyDecision, Request, Idle
  <2>2. row \in CaseRow /\ RowOK(row)
    BY <2>1 DEF TypeOK
  <2>3. /\ cases' = [cases EXCEPT ![r.case] = new]
        /\ Log(r.case, r.from, to) /\ Finish(h) /\ now' = now
    BY <1>3, <2>1 DEF CommitBreach, ApplyDecision, TypeOK
  <2>4. lastRow' \in [Cases -> HistoryRow \cup {Null}]
    BY <2>1, <2>3, LogType DEF CaseStatus
  <2> HIDE DEF to
  <2>5. new \in CaseRow /\ RowOK(new) /\ new.submittedAt = row.submittedAt
    BY <2>1, <2>2 DEF CaseRow, CaseStatus, RowOK, StampedBy, PausedStatuses, Triage
  <2> HIDE DEF new
  <2> QED BY <2>1, <2>3, <2>4, <2>5, StepWrite
<1> QED BY <1>1, <1>2, <1>3
-----------------------------------------------------------------------------
\* The invariant holds at first and is kept by every step.
LEMMA InitIInv == Init => IInv
<1> SUFFICES ASSUME Init PROVE IInv
  OBVIOUS
<1> USE ConstantsAssumption
<1>1. PICK t \in CaseTypes : cases = [c \in Cases |-> NewRow("ABSENT", t, FALSE)]
  BY DEF Init
<1>2. NewRow("ABSENT", t, FALSE) \in CaseRow /\ RowOK(NewRow("ABSENT", t, FALSE))
  BY DEF NewRow, CaseRow, OrNull, RowOK, StampedBy, PausedStatuses, Triage
<1>3. TypeOK
  <2>1. now \in Time /\ lastRow \in [Cases -> HistoryRow \cup {Null}]
    BY DEF Init, Time
  <2>2. req \in [Handlers -> Request]
    BY DEF Init, Request
  <2>3. cases \in [Cases -> CaseRow]
    BY <1>1, <1>2
  <2> QED BY <2>1, <2>2, <2>3 DEF TypeOK
<1>4. \A c \in Cases : RowOK(cases[c])
  BY <1>1, <1>2
<1>5. RequestsOK
  BY DEF Init, RequestsOK, Idle
<1> QED BY <1>3, <1>4, <1>5 DEF IInv

LEMMA NextIInv == IInv /\ [Next]_vars => IInv'
<1> SUFFICES ASSUME IInv, [Next]_vars PROVE IInv'
  OBVIOUS
<1>1. CASE Tick
  BY <1>1, StepTick
<1>2. CASE \E c \in Cases, t \in CaseTypes, valid \in BOOLEAN :
              CreateCase(c, t, valid) \/ PublicRequest(c, t, valid)
  BY <1>2, StepCreate
<1>3. ASSUME NEW h \in Handlers, NEW c \in Cases, NEW to \in CaseStatus,
             NEW reason \in BOOLEAN, NEW i \in BOOLEAN,
             BeginTransition(h, c, to, reason, i)
      PROVE  IInv'
  BY <1>3, StepBeginTransition
<1>4. ASSUME NEW h \in Handlers, NEW c \in Cases,
             \/ \E t \in CaseTypes, valid \in BOOLEAN : BeginUpdate(h, c, t, valid)
             \/ BeginBreach(h, c)
             \/ \E to \in {"APPROVED", "REJECTED"}, reason \in BOOLEAN :
                   BeginDecision(h, c, to, reason)
             \/ ConfirmDecision(h) \/ Abandon(h)
      PROVE  IInv'
  <2>1. cases[c].caseType \in CaseTypes
    BY DEF IInv, TypeOK, CaseRow
  <2> QED BY <1>4, <2>1, StepBegin
<1>5. ASSUME NEW h \in Handlers,
             \/ CommitTransition(h) \/ CommitUpdate(h)
             \/ CommitBreach(h) \/ ApplyDecision(h)
      PROVE  IInv'
  BY <1>5, StepCommit
<1>6. ASSUME NEW h \in Handlers, ConfirmDecision(h) \/ Abandon(h)
      PROVE  IInv'
  <2>1. CASE Abandon(h)
    BY <2>1, FinishType, StepHandler DEF Abandon, IInv
  <2>2. CASE ConfirmDecision(h)
    <3>1. req[h].case \in Cases
      BY <2>2 DEF ConfirmDecision, IInv, TypeOK, Request, Idle
    <3> QED BY <2>2, <3>1, <1>4
  <2> QED BY <1>6, <2>1, <2>2
<1>7. CASE UNCHANGED vars
  BY <1>7 DEF vars, IInv, TypeOK, RowOK, StampedBy, RequestsOK, MayWrite
<1> QED BY <1>1, <1>2, <1>3, <1>4, <1>5, <1>6, <1>7 DEF Next

LEMMA Inductive == Spec => []IInv
BY InitIInv, NextIInv, PTL DEF Spec

\* Every variable keeps its type.
THEOREM TypeCorrect == Spec => []TypeOK
<1>1. IInv => TypeOK
  BY DEF IInv
<1> QED BY Inductive, <1>1, PTL

\* A case on hold or awaiting information never has a running clock.
THEOREM PausesStopTheClock == Spec => []PausedStopsClock
<1>1. IInv => PausedStopsClock
  BY DEF IInv, RowOK, PausedStopsClock, PausedStatuses
<1> QED BY Inductive, <1>1, PTL

\* Only submitted cases are in triage, however late a request commits.
THEOREM TriageIsSubmitted == Spec => []TriageSubmitted
<1>1. IInv => TriageSubmitted
  BY DEF IInv, RowOK, TriageSubmitted, Triage
<1> QED BY Inductive, <1>1, PTL

\* No granting of permissions lets a case be archived.
THEOREM ArchiveIsDead == Spec => []NeverArchived
<1>1. IInv => NeverArchived
  BY DEF IInv, RowOK, NeverArchived
<1> QED BY Inductive, <1>1, PTL
-----------------------------------------------------------------------------
(***************************************************************************)
(* Any number of handlers whose requests do not overlap on a case.  What a *)
(* pending request has seen is then what it is going to overwrite.         *)
(***************************************************************************)
Unassigned == {"ABSENT", "DRAFT", "SUBMITTED", "QUALIFIED"}

\* The pauses counted by the instant t fit between the submission and the
\* present pause, or t.
CountedBy(row, t) ==
    row.submittedAt # Null =>
        row.slaPausedMs + row.submittedAt
            <= IF row.slaPausedAt = Null THEN t ELSE row.slaPausedAt

\* The stamps of its end are those of the status.
Ended(row) ==
    /\ row.status \in {"RESOLVED", "CLOSED"} =>
          /\ row.resolvedAt # Null
          /\ row.submittedAt # Null => row.submittedAt <= row.resolvedAt
    /\ row.status = "CLOSED" => row.resolvedAt <= row.closedAt
    /\ ~ApprovalSteps /\ row.closedAt # Null => row.status = "CLOSED"

SerialRow(row) ==
    /\ row.status \in Unassigned => row.instances = 0
    /\ row.instances <= 1
    /\ row.status \in {"ABSENT", "DRAFT"} => row.slaPausedMs = 0
    /\ row.status \in {"DRAFT", "IN_PROGRESS"} => row.slaPausedAt = Null
    /\ CountedBy(row, now)
    /\ Ended(row)

Current(r) ==
    /\ r.op \in {"decide", "apply"} => ApprovalSteps
    /\ r.op = "transition" => /\ r.seen = cases[r.case] /\ Submittable(r.seen, r.to)
                              /\ CountedBy(r.seen, r.since)
    /\ r.op = "update" => r.from = cases[r.case].status /\ NotClosed(r.from)
    /\ r.op = "breach" => r.from = cases[r.case].status /\ r.from \in SweptStatuses
    /\ r.op = "apply" => r.from = cases[r.case].status
UpToDate == \A h \in Handlers : Current(req[h])

SerialInv == IInv /\ Apart /\ UpToDate /\ TrailMatches /\ \A c \in Cases : SerialRow(cases[c])

\* What one step may make of a row: the properties of steps, row by row.
Moved(old, new) ==
    old.status # "ABSENT" /\ new.status # old.status =>
        /\ IsTransition(old.status, new.status)
        /\ old.status = "DRAFT" /\ new.status = "SUBMITTED" => old.formValid
Thawed(old, new) ==
    old.status = "CLOSED" /\ new # old => new.status = "IN_PROGRESS" /\ new.closedAt = Null
PutOff(old, new) ==
    old.slaPausedMs # new.slaPausedMs /\ old.status # "CLOSED" /\ old.slaDueAt # Null
        => new.slaDueAt = old.slaDueAt + (new.slaPausedMs - old.slaPausedMs)
Orderly(old, new) ==
    /\ ~ApprovalSteps => Moved(old, new) /\ Thawed(old, new)
    /\ PutOff(old, new)

\* The entries of the map that lead into a pause, to a closure or anywhere at all.
LEMMA RulesOfPauses ==
    ASSUME NEW f, NEW t, IsTransition(f, t)
    PROVE  /\ t \in PausedStatuses => f = "IN_PROGRESS"
           /\ t = "CLOSED" => f = "RESOLVED"
           /\ f # "ABSENT"
BY DEF IsTransition, RulesFor, CaseTransitionRules, Rule, ActiveStatuses, PausedStatuses

LEMMA BreachIsTransition == \A f \in SweptStatuses : IsTransition(f, "ESCALATED")
<1> SUFFICES ASSUME NEW f \in SweptStatuses PROVE IsTransition(f, "ESCALATED")
  OBVIOUS
<1>1. Rule(ActiveStatuses, "ESCALATED", "case.transition", FALSE) \in CaseTransitionRules
  BY DEF CaseTransitionRules
<1>2. f \in ActiveStatuses
  BY DEF SweptStatuses, ActiveStatuses
<1> QED BY <1>1, <1>2 DEF IsTransition, RulesFor, Rule

\* A transition that overwrites the row it has seen.
LEMMA EffectsSerial ==
    ASSUME now \in Time, NEW at \in Time, at <= now,
           NEW row \in CaseRow, RowOK(row), SerialRow(row),
           StampedBy(row, at), CountedBy(row, at),
           NEW to \in CaseStatus, MayWrite(row, to, row), Submittable(row, to),
           NEW i \in BOOLEAN
    PROVE  LET new == [Effects(row, row, to, i, at) EXCEPT !.status = to] IN
           SerialRow(new) /\ Orderly(row, new)
<1> USE ConstantsAssumption
<1> DEFINE effects == Effects(row, row, to, i, at)
           new == [effects EXCEPT !.status = to]
<1>0. now \in Nat /\ now # Null /\ at \in Nat /\ at # Null
  BY DEF Time
<1>1. /\ to \notin {"ARCHIVED", "DRAFT", "ABSENT"}
      /\ to = "SUBMITTED" => row.status = "DRAFT"
      /\ to = "QUALIFIED" => row.status = "SUBMITTED"
      /\ to = "ASSIGNED" => row.status = "QUALIFIED"
      /\ to \in PausedStatuses => row.status = "IN_PROGRESS"
      /\ to = "CLOSED" => row.status = "RESOLVED"
      /\ row.status = "CLOSED" => to = "IN_PROGRESS"
  BY RulesInto, RulesOfPauses DEF MayWrite, NotClosed, IsReopen, CaseStatus
<1>2. effects \in CaseRow
  BY EffectsRowType
<1>3. new = [effects EXCEPT !.status = to] /\ new \in CaseRow /\ new.status = to
  BY <1>2 DEF CaseRow
<1>4. Moved(row, new)
  BY <1>3 DEF Moved, MayWrite, Submittable
<1>5. CASE to = "SUBMITTED"
  <2>1. /\ new.submittedAt = at /\ new.slaPausedMs = row.slaPausedMs
        /\ new.slaPausedAt = row.slaPausedAt /\ new.instances = row.instances
        /\ new.closedAt = row.closedAt
    BY <1>5 DEF Effects, CaseRow, PausedStatuses
  <2>2. row.status = "DRAFT" /\ row.slaPausedMs = 0 /\ row.slaPausedAt = Null
    BY <1>1, <1>5 DEF SerialRow
  <2>3. CountedBy(new, now) /\ Ended(new)
    BY <1>0, <1>3, <1>5, <2>1, <2>2 DEF SerialRow, CountedBy, Ended
  <2>4. SerialRow(new)
    BY <1>3, <1>5, <2>1, <2>2, <2>3 DEF SerialRow, Unassigned
  <2> QED BY <1>4, <2>1, <2>2, <2>4 DEF Orderly, Thawed, PutOff
<1>6. CASE to = "ASSIGNED"
  <2>1. /\ new.submittedAt = row.submittedAt /\ new.slaPausedMs = row.slaPausedMs
        /\ new.slaPausedAt = row.slaPausedAt /\ new.closedAt = row.closedAt
        /\ new.instances \in {row.instances, row.instances + 1}
    BY <1>6 DEF Effects, CaseRow, PausedStatuses
  <2>2. row.status = "QUALIFIED"
    BY <1>1, <1>6
  <2>3. CountedBy(new, now) /\ Ended(new)
    BY <1>3, <1>6, <2>1, <2>2 DEF SerialRow, CountedBy, Ended
  <2>4. SerialRow(new)
    BY <1>0, <1>3, <1>6, <2>1, <2>2, <2>3 DEF SerialRow, Unassigned
  <2> QED BY <1>4, <2>1, <2>2, <2>4 DEF Orderly, Thawed, PutOff
<1>7. CASE to \in PausedStatuses
  <2>1. /\ new.submittedAt = row.submittedAt /\ new.slaPausedMs = row.slaPausedMs
        /\ new.slaPausedAt = at /\ new.instances = row.instances
        /\ new.closedAt = row.closedAt
    BY <1>7 DEF Effects, CaseRow, PausedStatuses
  <2>2. row.status = "IN_PROGRESS" /\ row.slaPausedAt = Null
    BY <1>1, <1>7 DEF SerialRow
  <2>3. to \notin Unassigned \cup {"DRAFT", "IN_PROGRESS", "RESOLVED", "CLOSED"}
    BY <1>7 DEF PausedStatuses, Unassigned
  <2>4. CountedBy(new, now) /\ Ended(new)
    BY <1>0, <1>3, <2>1, <2>2, <2>3 DEF CountedBy, SerialRow, Ended
  <2>5. SerialRow(new)
    BY <1>3, <2>1, <2>2, <2>3, <2>4 DEF SerialRow, Unassigned
  <2> QED BY <1>4, <2>1, <2>2, <2>5 DEF Orderly, Thawed, PutOff
<1>8. CASE to = "IN_PROGRESS"
  <2> DEFINE resumed == Resumed(row, row, at)
  <2>1. /\ resumed \in CaseRow /\ resumed.slaPausedAt = Null
        /\ resumed.instances = row.instances /\ resumed.submittedAt = row.submittedAt
        /\ resumed.closedAt = row.closedAt
    BY ResumedType DEF Resumed, CaseRow
  <2>2. row.submittedAt # Null => resumed.slaPausedMs + row.submittedAt <= at
    <3>1. row.slaPausedMs \in Nat /\ row.submittedAt \in OrNull(Time)
          /\ row.slaPausedAt \in OrNull(Time)
      BY DEF CaseRow
    <3>2. CASE row.slaPausedAt = Null
      BY <3>1, <3>2 DEF Resumed, CountedBy
    <3>3. CASE row.slaPausedAt # Null
      <4>1. resumed.slaPausedMs = row.slaPausedMs + (at - row.slaPausedAt)
        BY <3>3 DEF Resumed, CaseRow
      <4> HIDE DEF resumed
      <4> QED BY <1>0, <3>1, <3>3, <4>1 DEF CountedBy, OrNull, Time
    <3> QED BY <3>2, <3>3
  <2>3. row.slaDueAt # Null =>
            resumed.slaDueAt = row.slaDueAt + (resumed.slaPausedMs - row.slaPausedMs)
    <3>1. CASE row.slaPausedAt = Null
      BY <3>1 DEF Resumed, CaseRow, OrNull
    <3>2. CASE row.slaPausedAt # Null
      <4> DEFINE p == at - row.slaPausedAt
      <4>1. p \in Nat
        BY <1>0, <3>2 DEF CaseRow, OrNull, Time, StampedBy
      <4>2. row.slaDueAt # Null => resumed.slaDueAt = row.slaDueAt + p
        BY <3>2 DEF Resumed, CaseRow
      <4>3. resumed.slaPausedMs = row.slaPausedMs + p
        BY <3>2 DEF Resumed, CaseRow
      <4>4. row.slaPausedMs \in Nat
        BY DEF CaseRow
      <4> HIDE DEF p
      <4> QED BY <4>1, <4>2, <4>3, <4>4
    <3> QED BY <3>1, <3>2
  <2>4. /\ new.slaPausedAt = Null /\ new.instances = row.instances
        /\ new.submittedAt = row.submittedAt /\ new.slaPausedMs = resumed.slaPausedMs
        /\ row.status = "CLOSED" => new.closedAt = Null
        /\ row.status # "CLOSED" => new.closedAt = row.closedAt
        /\ row.status # "CLOSED" => new.slaDueAt = resumed.slaDueAt
    <3> HIDE DEF resumed
    <3>1. effects = IF row.status = "CLOSED" THEN Reopened(resumed, at) ELSE resumed
      BY <1>8 DEF Effects, IsReopen, PausedStatuses, resumed
    <3> QED BY <1>2, <2>1, <3>1 DEF Reopened, CaseRow
  <2>5. CountedBy(new, now)
    <3> HIDE DEF resumed
    <3>1. resumed.slaPausedMs \in Nat /\ row.submittedAt \in OrNull(Time)
      BY <2>1 DEF CaseRow
    <3> QED BY <1>0, <2>2, <2>4, <3>1 DEF CountedBy, OrNull, Time
  <2>6. SerialRow(new)
    BY <1>3, <1>8, <2>4, <2>5 DEF SerialRow, Unassigned, Ended
  <2> QED BY <1>3, <1>4, <1>8, <2>3, <2>4, <2>6 DEF Orderly, Thawed, PutOff
<1>9. CASE to \notin {"SUBMITTED", "ASSIGNED", "IN_PROGRESS"} \cup PausedStatuses
  <2>1. /\ new.submittedAt = row.submittedAt /\ new.slaPausedMs = row.slaPausedMs
        /\ new.slaPausedAt = row.slaPausedAt /\ new.instances = row.instances
        /\ new.resolvedAt = IF to = "RESOLVED" THEN at ELSE row.resolvedAt
        /\ new.closedAt = IF to = "CLOSED" THEN at ELSE row.closedAt
    BY <1>9 DEF Effects, CaseRow, PausedStatuses
  <2>2. /\ to \in Unassigned => to = "QUALIFIED" /\ row.status = "SUBMITTED"
        /\ row.status # "CLOSED"
    BY <1>1, <1>9 DEF Unassigned
  <2>3. CountedBy(new, now)
    BY <2>1 DEF SerialRow, CountedBy
  <2>4. Ended(new)
    BY <1>0, <1>1, <1>3, <2>1, <2>2 DEF SerialRow, Ended, StampedBy
  <2>5. SerialRow(new)
    BY <1>1, <1>3, <1>9, <2>1, <2>2, <2>3, <2>4 DEF SerialRow, Unassigned
  <2> QED BY <1>4, <2>1, <2>2, <2>5 DEF Orderly, Thawed, PutOff
<1> QED BY <1>5, <1>6, <1>7, <1>8, <1>9

\* A row that is written over what the request has seen, and told of.
LEMMA SerialWrite ==
    ASSUME SerialInv, NEW h \in Handlers, req[h] # Idle, Finish(h), now' = now,
           NEW c \in Cases, c = req[h].case, NEW new \in CaseRow, SerialRow(new), Orderly(cases[c], new),
           cases' = [cases EXCEPT ![c] = new],
           \/ lastRow' = lastRow /\ new.status = cases[c].status
           \/ \E from \in CaseStatus : Log(c, from, new.status)
    PROVE  /\ UpToDate' /\ TrailMatches' /\ (\A k \in Cases : SerialRow(cases[k]))'
           /\ \A k \in Cases : Orderly(cases[k], cases'[k])
<1> USE DEF SerialInv
<1>1. UpToDate'
  <2>1. req'[h] = Idle /\ \A k \in Handlers : k # h => req'[k] = req[k]
    BY DEF Finish, IInv, TypeOK
  <2> SUFFICES ASSUME NEW k \in Handlers, k # h, req[k] # Idle PROVE Current(req[k])'
    BY <2>1 DEF UpToDate, Current, Idle
  <2>2. req[k].case \in Cases /\ req[k].case # c
    BY DEF Apart, IInv, TypeOK, Request
  <2>3. cases'[req[k].case] = cases[req[k].case] /\ req'[k] = req[k]
    BY <2>1, <2>2 DEF IInv, TypeOK
  <2> QED BY <2>3 DEF UpToDate, Current, Submittable
<1>2. \A k \in Cases : cases'[k] = IF k = c THEN new ELSE cases[k]
  BY DEF IInv, TypeOK
<1>3. TrailMatches'
  <2>1. CASE lastRow' = lastRow /\ new.status = cases[c].status
    BY <1>2, <2>1 DEF TrailMatches
  <2>2. ASSUME NEW from \in CaseStatus, Log(c, from, new.status)
        PROVE  TrailMatches'
    <3>1. \A k \in Cases : k # c => lastRow'[k] = lastRow[k]
      BY <2>2 DEF Log, IInv, TypeOK
    <3>2. lastRow'[c].to = new.status
      BY <2>2 DEF Log, IInv, TypeOK
    <3> QED BY <1>2, <3>1, <3>2 DEF TrailMatches
  <2> QED BY <2>1, <2>2
<1>4. (\A k \in Cases : SerialRow(cases[k]))'
  BY <1>2 DEF SerialRow, CountedBy, Ended
<1>5. \A k \in Cases : Orderly(cases[k], cases[k])
  BY DEF Orderly, Moved, Thawed, PutOff
<1> QED BY <1>1, <1>2, <1>3, <1>4, <1>5

\* The columns that only transitions write.
LEMMA SerialSame ==
    ASSUME NEW row, NEW new, SerialRow(row),
           new.status = row.status \/ new.status \in {"ESCALATED", "APPROVED", "REJECTED"},
           new.instances = row.instances, new.slaPausedMs = row.slaPausedMs,
           new.slaPausedAt = row.slaPausedAt, new.submittedAt = row.submittedAt,
           new.resolvedAt = row.resolvedAt, new.closedAt = row.closedAt,
           new.status = row.status \/ row.status # "CLOSED" \/ ApprovalSteps
    PROVE  SerialRow(new) /\ PutOff(row, new)
BY DEF SerialRow, CountedBy, Ended, PutOff, Unassigned

LEMMA SerialCommit ==
    ASSUME SerialInv, NEW h \in Handlers,
           CommitTransition(h) \/ CommitUpdate(h) \/ CommitBreach(h) \/ ApplyDecision(h)
    PROVE  /\ UpToDate' /\ TrailMatches' /\ (\A k \in Cases : SerialRow(cases[k]))'
           /\ \A k \in Cases : Orderly(cases[k], cases'[k])
<1> DEFINE r == req[h]
           row == cases[r.case]
<1> USE DEF SerialInv
<1>0. TypeOK /\ r \in Request /\ now \in Time
  BY DEF IInv, TypeOK
<1>1. CASE CommitTransition(h)
  <2>1. /\ r.op = "transition" /\ r.case \in Cases /\ r.to \in CaseStatus
        /\ r.instantiate \in BOOLEAN /\ r.since \in Time /\ r # Idle
    BY <1>0, <1>1 DEF CommitTransition, Request, Idle
  <2>2. r.seen = row /\ Submittable(row, r.to) /\ CountedBy(row, r.since)
    BY <2>1 DEF UpToDate, Current
  <2>3. /\ row \in CaseRow /\ RowOK(row) /\ SerialRow(row) /\ MayWrite(row, r.to, row)
        /\ StampedBy(row, r.since)
    BY <2>1, <2>2 DEF IInv, TypeOK, RequestsOK
  <2>4. PICK at \in Instants(r) :
           /\ cases' = [cases EXCEPT ![r.case] =
                           [Effects(row, row, r.to, r.instantiate, at) EXCEPT !.status = r.to]]
           /\ Log(r.case, row.status, r.to) /\ Finish(h) /\ now' = now
    BY <1>0, <1>1, <2>1, <2>2 DEF CommitTransition, TypeOK
  <2> DEFINE new == [Effects(row, row, r.to, r.instantiate, at) EXCEPT !.status = r.to]
  <2>8. at \in Time /\ r.since <= at /\ at <= now
    BY <1>0, <2>1, <2>4, InstantTaken
  <2>9. StampedBy(row, at) /\ CountedBy(row, at)
    <3>1. StampedBy(row, at)
      BY <2>1, <2>3, <2>8, StampedLater
    <3> QED BY <2>1, <2>2, <2>3, <2>8, <3>1, ConstantsAssumption
            DEF CountedBy, CaseRow, OrNull, Time
  <2>5. row.status \in CaseStatus
    BY <2>3, RulesInto DEF MayWrite
  <2>6. SerialRow(new) /\ Orderly(row, new)
    BY <1>0, <2>1, <2>2, <2>3, <2>8, <2>9, EffectsSerial
  <2>7. new \in CaseRow /\ new.status = r.to
    <3>1. Effects(row, row, r.to, r.instantiate, at) \in CaseRow
      BY <2>1, <2>3, <2>8, <2>9, EffectsRowType
    <3> QED BY <2>1, <3>1 DEF CaseRow
  <2>10. /\ cases' = [cases EXCEPT ![r.case] = new] /\ Finish(h) /\ now' = now
         /\ Log(r.case, row.status, new.status)
    BY <2>4, <2>7
  <2> HIDE DEF new
  <2> QED BY <2>1, <2>5, <2>6, <2>7, <2>10, SerialWrite
<1>2. CASE CommitUpdate(h)
  <2>1. r \in UpdateRequest /\ r.op = "update" /\ r # Idle /\ r.since \in Time
    BY <1>0, <1>2 DEF CommitUpdate, Request, Idle, UpdateRequest
  <2>2. row \in CaseRow /\ RowOK(row) /\ SerialRow(row)
    BY <2>1 DEF IInv, TypeOK, UpdateRequest
  <2>3. r.from = row.status /\ row.status # "CLOSED"
    BY <2>1 DEF UpToDate, Current, NotClosed
  <2>9. r.case \in Cases
    BY <2>1 DEF UpdateRequest
  <2>4. PICK at \in Instants(r) :
           /\ cases' = [cases EXCEPT ![r.case] = Updated(row, r, at)]
           /\ r.retyped => Log(r.case, r.from, r.from)
           /\ ~r.retyped => lastRow' = lastRow
           /\ Finish(h) /\ now' = now
    BY <1>0, <1>2, <2>9 DEF CommitUpdate, TypeOK
  <2> DEFINE new == Updated(row, r, at)
  <2>5. /\ new.status = row.status /\ new.instances = row.instances
        /\ new.slaPausedMs = row.slaPausedMs /\ new.slaPausedAt = row.slaPausedAt
        /\ new.submittedAt = row.submittedAt
        /\ new.resolvedAt = row.resolvedAt /\ new.closedAt = row.closedAt
    BY <2>2 DEF Updated, CaseRow
  <2>6. new \in CaseRow
    BY <1>0, <2>1, <2>2, <2>4, InstantTaken, UpdatedOK
  <2>10. cases' = [cases EXCEPT ![r.case] = new] /\ Finish(h) /\ now' = now
    BY <2>4
  <2> HIDE DEF new
  <2>7. SerialRow(new) /\ Orderly(row, new)
    BY <2>2, <2>3, <2>5, SerialSame DEF Orderly, Moved, Thawed
  <2>8. \/ lastRow' = lastRow /\ new.status = row.status
        \/ \E from \in CaseStatus : Log(r.case, from, new.status)
    BY <2>1, <2>3, <2>4, <2>5 DEF UpdateRequest
  <2> QED BY <2>1, <2>6, <2>7, <2>8, <2>9, <2>10, SerialWrite
<1>3. CASE CommitBreach(h)
  <2> DEFINE new == [row EXCEPT !.status = "ESCALATED"]
  <2>1. r.op = "breach" /\ r.case \in Cases /\ r # Idle
    BY <1>0, <1>3 DEF CommitBreach, Request, Idle
  <2>2. row \in CaseRow /\ SerialRow(row)
    BY <2>1 DEF IInv, TypeOK
  <2>3. r.from = row.status /\ row.status \in SweptStatuses
    BY <2>1 DEF UpToDate, Current
  <2>4. /\ cases' = [cases EXCEPT ![r.case] = new]
        /\ Log(r.case, row.status, "ESCALATED") /\ Finish(h) /\ now' = now
    BY <1>3, <2>1, <2>3 DEF CommitBreach, IInv, TypeOK
  <2>5. /\ new \in CaseRow
        /\ new.status = "ESCALATED" /\ new.instances = row.instances
        /\ new.slaPausedMs = row.slaPausedMs /\ new.slaPausedAt = row.slaPausedAt
        /\ new.submittedAt = row.submittedAt
        /\ new.resolvedAt = row.resolvedAt /\ new.closedAt = row.closedAt
    BY <2>2 DEF CaseRow, CaseStatus
  <2> HIDE DEF new
  <2>6. IsTransition(row.status, "ESCALATED") /\ row.status # "CLOSED"
        /\ row.status \in CaseStatus
    BY <2>3, BreachIsTransition DEF SweptStatuses, CaseStatus
  <2>7. SerialRow(new) /\ Orderly(row, new)
    BY <2>2, <2>5, <2>6, SerialSame DEF Orderly, Moved, Thawed
  <2> QED BY <2>1, <2>4, <2>5, <2>6, <2>7, SerialWrite
<1>4. CASE ApplyDecision(h)
  <2> DEFINE new == [row EXCEPT !.status = r.to]
  <2>1. r.op = "apply" /\ r.case \in Cases /\ r.to \in {"APPROVED", "REJECTED"} /\ r # Idle
    BY <1>0, <1>4 DEF ApplyDecision, Request, Idle
  <2>2. row \in CaseRow /\ SerialRow(row)
    BY <2>1 DEF IInv, TypeOK
  <2>3. r.from = row.status /\ r.from \in CaseStatus /\ ApprovalSteps
    BY <1>0, <2>1 DEF UpToDate, Current, Request, Idle
  <2>4. /\ cases' = [cases EXCEPT ![r.case] = new]
        /\ Log(r.case, row.status, r.to) /\ Finish(h) /\ now' = now
    BY <1>4, <2>1, <2>3 DEF ApplyDecision, IInv, TypeOK
  <2>5. /\ new \in CaseRow /\ new.status = r.to /\ new.instances = row.instances
        /\ new.slaPausedMs = row.slaPausedMs /\ new.slaPausedAt = row.slaPausedAt
        /\ new.submittedAt = row.submittedAt
        /\ new.resolvedAt = row.resolvedAt /\ new.closedAt = row.closedAt
    BY <2>1, <2>2 DEF CaseRow, CaseStatus
  <2> HIDE DEF new
  <2>6. SerialRow(new) /\ Orderly(row, new)
    BY <2>1, <2>2, <2>3, <2>5, SerialSame DEF Orderly
  <2> QED BY <2>1, <2>3, <2>4, <2>5, <2>6, SerialWrite
<1> QED BY <1>1, <1>2, <1>3, <1>4

\* A step that begins or ends a request and leaves the tables alone.
LEMMA SerialHandler ==
    ASSUME SerialInv, UNCHANGED <<now, cases, lastRow>>, UpToDate'
    PROVE  /\ UpToDate' /\ TrailMatches' /\ (\A k \in Cases : SerialRow(cases[k]))'
           /\ \A k \in Cases : Orderly(cases[k], cases'[k])
BY DEF SerialInv, TrailMatches, SerialRow, CountedBy, Ended, Orderly, Moved, Thawed, PutOff

LEMMA SerialBegin ==
    ASSUME SerialInv, NEW h \in Handlers, NEW c \in Cases,
           \/ \E to \in CaseStatus, reason, instantiate \in BOOLEAN :
                 BeginTransition(h, c, to, reason, instantiate)
           \/ \E t \in CaseTypes, valid \in BOOLEAN : BeginUpdate(h, c, t, valid)
           \/ BeginBreach(h, c)
           \/ \E to \in {"APPROVED", "REJECTED"}, reason \in BOOLEAN :
                 BeginDecision(h, c, to, reason)
    PROVE  UpToDate' /\ UNCHANGED <<now, cases, lastRow>>
<1> USE DEF SerialInv
<1>0. ASSUME NEW r, Begin(h, r), Current(r), UNCHANGED <<now, cases, lastRow>>
      PROVE  UpToDate'
  <2>1. req'[h] = r /\ \A k \in Handlers : k # h => req'[k] = req[k]
    BY <1>0 DEF Begin, IInv, TypeOK
  <2> QED BY <1>0, <2>1 DEF UpToDate, Current
<1>1. ASSUME NEW to \in CaseStatus, NEW reason \in BOOLEAN, NEW i \in BOOLEAN,
             BeginTransition(h, c, to, reason, i)
      PROVE  UpToDate' /\ UNCHANGED <<now, cases, lastRow>>
  <2> DEFINE r == [op |-> "transition", case |-> c, seen |-> cases[c], to |-> to,
                   instantiate |-> i, since |-> now]
  <2>1. Begin(h, r) /\ Submittable(cases[c], to) /\ UNCHANGED <<now, cases, lastRow>>
    BY <1>1 DEF BeginTransition
  <2>2. Current(r)
    BY <2>1 DEF Current, SerialRow
  <2> HIDE DEF r
  <2> QED BY <1>0, <2>1, <2>2
<1>2. ASSUME NEW t \in CaseTypes, NEW valid \in BOOLEAN, BeginUpdate(h, c, t, valid)
      PROVE  UpToDate' /\ UNCHANGED <<now, cases, lastRow>>
  <2>1. PICK r : /\ Begin(h, r) /\ r.op = "update" /\ r.case = c /\ r.from = cases[c].status
    BY <1>2 DEF BeginUpdate
  <2>2. NotClosed(cases[c].status) /\ UNCHANGED <<now, cases, lastRow>>
    BY <1>2 DEF BeginUpdate
  <2>3. Current(r)
    BY <2>1, <2>2 DEF Current
  <2> QED BY <1>0, <2>1, <2>2, <2>3
<1>3. CASE BeginBreach(h, c)
  <2> DEFINE r == [op |-> "breach", case |-> c, from |-> cases[c].status]
  <2>1. Begin(h, r) /\ cases[c].status \in SweptStatuses /\ UNCHANGED <<now, cases, lastRow>>
    BY <1>3 DEF BeginBreach
  <2>2. Current(r)
    BY <2>1 DEF Current
  <2> HIDE DEF r
  <2> QED BY <1>0, <2>1, <2>2
<1>4. ASSUME NEW to \in {"APPROVED", "REJECTED"}, NEW reason \in BOOLEAN,
             BeginDecision(h, c, to, reason)
      PROVE  UpToDate' /\ UNCHANGED <<now, cases, lastRow>>
  <2> DEFINE r == [op |-> "decide", case |-> c, from |-> cases[c].status, to |-> to]
  <2>1. Begin(h, r) /\ ApprovalSteps /\ UNCHANGED <<now, cases, lastRow>>
    BY <1>4 DEF BeginDecision
  <2>2. Current(r)
    BY <2>1 DEF Current
  <2> HIDE DEF r
  <2> QED BY <1>0, <2>1, <2>2
<1> QED BY <1>1, <1>2, <1>3, <1>4

\* A request that goes on to its write, or is given up.
LEMMA SerialGoOn ==
    ASSUME SerialInv, NEW h \in Handlers, ConfirmDecision(h) \/ Abandon(h)
    PROVE  UpToDate' /\ UNCHANGED <<now, cases, lastRow>>
<1> USE DEF SerialInv
<1>1. req[h] \in Request
  BY DEF IInv, TypeOK
<1>2. CASE Abandon(h)
  <2>1. req'[h] = Idle /\ \A k \in Handlers : k # h => req'[k] = req[k]
    BY <1>2 DEF Abandon, Finish, IInv, TypeOK
  <2> QED BY <1>2, <2>1 DEF Abandon, UpToDate, Current, Idle
<1>3. CASE ConfirmDecision(h)
  <2>1. /\ req[h].op = "decide" /\ UNCHANGED <<now, cases, lastRow>>
        /\ \A k \in Handlers : k # h => req'[k] = req[k]
    BY <1>3 DEF ConfirmDecision, IInv, TypeOK
  <2>2. req'[h] = IF cases[req[h].case].status = req[h].from
                  THEN [req[h] EXCEPT !.op = "apply"] ELSE Idle
    BY <1>3 DEF ConfirmDecision, IInv, TypeOK
  <2>3. req[h] \in [op: {"decide", "apply"}, case: Cases, from: CaseStatus,
                    to: {"APPROVED", "REJECTED"}]
    BY <1>1, <2>1 DEF Request, Idle
  <2>4. ApprovalSteps
    BY <2>1 DEF UpToDate, Current
  <2>5. Current(req[h])'
    BY <2>1, <2>2, <2>3, <2>4 DEF Current, Idle
  <2> QED BY <2>1, <2>5 DEF UpToDate, Current
<1> QED BY <1>2, <1>3

\* A case is opened that no request has seen and nothing was told of.
LEMMA SerialCreate ==
    ASSUME SerialInv, NEW c \in Cases, NEW t \in CaseTypes, NEW valid \in BOOLEAN,
           CreateCase(c, t, valid) \/ PublicRequest(c, t, valid)
    PROVE  /\ UpToDate' /\ TrailMatches' /\ (\A k \in Cases : SerialRow(cases[k]))'
           /\ \A k \in Cases : Orderly(cases[k], cases'[k])
<1> USE ConstantsAssumption DEF SerialInv
<1>0. TypeOK /\ now \in Nat /\ now # Null
  BY DEF IInv, TypeOK, Time
<1>1. cases[c].status = "ABSENT" /\ UNCHANGED <<now, lastRow, req>>
  BY DEF CreateCase, PublicRequest, Exists
<1> DEFINE draft == NewRow("DRAFT", t, valid)
           due == IF SlaHours[t] = 0 THEN Null ELSE now + SlaHours[t]
           web == [NewRow("SUBMITTED", t, valid) EXCEPT !.submittedAt = now, !.slaDueAt = due]
<1> DEFINE Fresh(row) == /\ row.status \in {"DRAFT", "SUBMITTED"} /\ row.instances = 0
                         /\ row.slaPausedMs = 0 /\ row.slaPausedAt = Null
                         /\ row.submittedAt \in {Null, now} /\ row.closedAt = Null
<1>2. PICK new : cases' = [cases EXCEPT ![c] = new] /\ Fresh(new)
  <2>1. CASE CreateCase(c, t, valid)
    <3>1. cases' = [cases EXCEPT ![c] = draft] /\ Fresh(draft)
      BY <2>1 DEF CreateCase, NewRow
    <3> HIDE DEF draft, Fresh
    <3> QED BY <3>1
  <2>2. CASE PublicRequest(c, t, valid)
    <3>1. cases' = [cases EXCEPT ![c] = web]
      BY <2>2 DEF PublicRequest
    <3> HIDE DEF due
    <3>2. Fresh(web)
      BY DEF NewRow
    <3> HIDE DEF web, Fresh
    <3> QED BY <3>1, <3>2
  <2> QED BY <2>1, <2>2
<1>3. SerialRow(new)
  BY <1>0, <1>2 DEF SerialRow, CountedBy, Ended, Unassigned
<1>4. \A k \in Cases : cases'[k] = IF k = c THEN new ELSE cases[k]
  BY <1>0, <1>2 DEF TypeOK
<1>5. cases[c].slaPausedMs = 0
  BY <1>1 DEF SerialRow
<1>6. lastRow[c] = Null
  BY <1>0, <1>1 DEF TypeOK, TrailMatches, HistoryRow, CaseStatus
<1>7. TrailMatches'
  BY <1>1, <1>4, <1>6 DEF TrailMatches
<1>8. (\A k \in Cases : SerialRow(cases[k]))'
  BY <1>1, <1>3, <1>4 DEF SerialRow, CountedBy, Ended
<1>9. \A k \in Cases : Orderly(cases[k], cases'[k])
  BY <1>1, <1>2, <1>4, <1>5 DEF Orderly, Moved, Thawed, PutOff
<1>10. UpToDate'
  <2> SUFFICES ASSUME NEW h \in Handlers,
                      req[h].op \in {"transition", "update", "breach", "apply"}
               PROVE  req[h].case # c
    <3>1. \A h \in Handlers : req[h].op \in {"transition", "update", "breach", "apply"}
                             => req[h].case \in Cases
      BY <1>0 DEF TypeOK, Request, Idle
    <3> QED BY <1>1, <1>4, <3>1 DEF UpToDate, Current, Submittable
  <2>1. CASE req[h].op = "transition"
    <3>1. IsTransition(req[h].seen.status, req[h].to) /\ req[h].seen = cases[req[h].case]
      BY <2>1 DEF IInv, RequestsOK, MayWrite, UpToDate, Current
    <3> QED BY <1>1, <3>1, RulesOfPauses
  <2>2. CASE req[h].op \in {"update", "apply"}
    <3>1. req[h].from \in CaseStatus
      BY <1>0, <2>2 DEF TypeOK, Request, Idle
    <3>2. req[h].from = cases[req[h].case].status
      BY <2>2 DEF UpToDate, Current
    <3> QED BY <1>1, <3>1, <3>2 DEF CaseStatus
  <2>3. CASE req[h].op = "breach"
    BY <1>1, <2>3 DEF UpToDate, Current, SweptStatuses
  <2> QED BY <2>1, <2>2, <2>3
<1> QED BY <1>7, <1>8, <1>9, <1>10

LEMMA SerialTick ==
    ASSUME SerialInv, Tick
    PROVE  /\ UpToDate' /\ TrailMatches' /\ (\A k \in Cases : SerialRow(cases[k]))'
           /\ \A k \in Cases : Orderly(cases[k], cases'[k])
<1> USE ConstantsAssumption DEF SerialInv, Tick
<1>1. UpToDate' /\ TrailMatches'
  BY DEF UpToDate, Current, TrailMatches
<1>2. \A k \in Cases : Orderly(cases[k], cases'[k])
  BY DEF Orderly, Moved, Thawed, PutOff
<1>3. ASSUME NEW k \in Cases PROVE SerialRow(cases[k])'
  <2>1. cases[k] \in CaseRow /\ now \in Nat /\ SerialRow(cases[k])
    BY DEF IInv, TypeOK, Time
  <2>2. CountedBy(cases[k], now)'
    BY <2>1 DEF CountedBy, SerialRow, CaseRow, OrNull, Time
  <2> QED BY <2>1, <2>2 DEF SerialRow, Ended
<1> QED BY <1>1, <1>2, <1>3

LEMMA SerialStep ==
    ASSUME SerialInv, [Next /\ Apart']_vars
    PROVE  /\ UpToDate' /\ TrailMatches' /\ (\A k \in Cases : SerialRow(cases[k]))'
           /\ \A k \in Cases : Orderly(cases[k], cases'[k])
<1>1. CASE Tick
  BY <1>1, SerialTick
<1>2. ASSUME NEW c \in Cases, NEW t \in CaseTypes, NEW valid \in BOOLEAN,
             CreateCase(c, t, valid) \/ PublicRequest(c, t, valid)
      PROVE  /\ UpToDate' /\ TrailMatches' /\ (\A k \in Cases : SerialRow(cases[k]))'
             /\ \A k \in Cases : Orderly(cases[k], cases'[k])
  BY <1>2, SerialCreate
<1>3. ASSUME NEW h \in Handlers, NEW c \in Cases,
             \/ \E to \in CaseStatus, reason, instantiate \in BOOLEAN :
                   BeginTransition(h, c, to, reason, instantiate)
             \/ \E t \in CaseTypes, valid \in BOOLEAN : BeginUpdate(h, c, t, valid)
             \/ BeginBreach(h, c)
             \/ \E to \in {"APPROVED", "REJECTED"}, reason \in BOOLEAN :
                   BeginDecision(h, c, to, reason)
      PROVE  UpToDate' /\ UNCHANGED <<now, cases, lastRow>>
  BY <1>3, SerialBegin
<1>5. ASSUME NEW h \in Handlers,
             CommitTransition(h) \/ CommitUpdate(h) \/ CommitBreach(h) \/ ApplyDecision(h)
      PROVE  /\ UpToDate' /\ TrailMatches' /\ (\A k \in Cases : SerialRow(cases[k]))'
             /\ \A k \in Cases : Orderly(cases[k], cases'[k])
  BY <1>5, SerialCommit
<1>6. ASSUME NEW h \in Handlers, ConfirmDecision(h) \/ Abandon(h)
      PROVE  UpToDate' /\ UNCHANGED <<now, cases, lastRow>>
  BY <1>6, SerialGoOn
<1>7. CASE UNCHANGED vars
  <2>1. UpToDate'
    BY <1>7 DEF vars, SerialInv, UpToDate, Current
  <2> QED BY <1>7, <2>1, SerialHandler DEF vars
<1> QED BY <1>1, <1>2, <1>3, <1>5, <1>6, <1>7, SerialHandler DEF Next

LEMMA InitSerial == Init => SerialInv
<1> SUFFICES ASSUME Init PROVE SerialInv
  OBVIOUS
<1>1. PICK t \in CaseTypes : cases = [c \in Cases |-> NewRow("ABSENT", t, FALSE)]
  BY DEF Init
<1>2. \A c \in Cases : SerialRow(cases[c])
  BY <1>1 DEF NewRow, SerialRow, CountedBy, Ended, Unassigned
<1>3. UpToDate /\ TrailMatches
  BY DEF Init, UpToDate, Current, TrailMatches, Idle
<1>4. Apart
  BY DEF Init, Apart
<1> QED BY <1>2, <1>3, <1>4, InitIInv DEF SerialInv

LEMMA SerialInductive ==
    SerialSpec => []SerialInv
<1>1. SerialInv /\ [Next /\ Apart']_vars => SerialInv'
  <2> SUFFICES ASSUME SerialInv, [Next /\ Apart']_vars PROVE SerialInv'
    OBVIOUS
  <2>1. IInv'
    BY NextIInv DEF SerialInv
  <2>2. Apart'
    BY DEF SerialInv, Apart, vars
  <2> QED BY <2>1, <2>2, SerialStep DEF SerialInv
<1> QED BY <1>1, InitSerial, PTL DEF SerialSpec

\* US-3.3, FR-4.2: while requests do not overlap on a case, whatever happens to the
\* other cases meanwhile, the last row of its history leads to its status, and it is
\* given its work once.
THEOREM SerialHistoryTells ==
    SerialSpec => []HistoryTells
<1>1. SerialInv => HistoryTells
  BY DEF SerialInv, SerialRow, HistoryTells, OneInstance
<1> QED BY <1>1, SerialInductive, PTL

\* Of requests that do not overlap on a case: a case in progress has a running clock,
\* and no time is counted as a pause twice.
THEOREM SerialClockTells ==
    SerialSpec => []ClockTells
<1>1. ASSUME SerialInv PROVE ClockTells
  <2>1. RunningClock
    BY <1>1 DEF SerialInv, SerialRow, RunningClock
  <2>2. PausedWithinElapsed
    BY <1>1, ConstantsAssumption
       DEF SerialInv, IInv, TypeOK, SerialRow, CountedBy, PausedWithinElapsed, CaseRow, OrNull, Time
  <2> QED BY <2>1, <2>2 DEF ClockTells
<1> QED BY <1>1, SerialInductive, PTL

\* Of requests that do not overlap on a case: it is resolved after its submission and
\* closed after its resolution, by the instants that are stamped on it, and only a
\* closed case bears the stamp of a closure where no approval goes around the map.
THEOREM SerialEndsAreInOrder ==
    SerialSpec => []EndsInOrder
<1>1. SerialInv => EndsInOrder
  BY DEF SerialInv, IInv, RowOK, SerialRow, Ended, EndsInOrder
<1> QED BY <1>1, SerialInductive, PTL

\* US-3.3, FR-3.6: without approvals, and while requests do not overlap on a case, the
\* status moves along the map, and no draft is submitted with a payload that its form
\* refuses.
THEOREM SerialMovesAreLegal ==
    ASSUME ~ApprovalSteps
    PROVE  SerialSpec => LegalMoves
<1>1. SerialInv /\ [Next /\ Apart']_vars =>
        [\A c \in Cases :
           LET old == cases[c].status
               new == cases'[c].status
           IN Exists(c) /\ new # old =>
                 /\ IsTransition(old, new)
                 /\ old = "DRAFT" /\ new = "SUBMITTED" => cases[c].formValid]_vars
  BY SerialStep DEF Orderly, Moved, Exists
<1> QED BY <1>1, SerialInductive, PTL DEF SerialSpec, LegalMoves

\* R-07: without approvals, and while requests do not overlap on a case, a closed case
\* changes only by being reopened.
THEOREM SerialClosedIsFrozen ==
    ASSUME ~ApprovalSteps
    PROVE  SerialSpec => ClosedFrozen
<1>1. SerialInv /\ [Next /\ Apart']_vars =>
        [\A c \in Cases :
           cases[c].status = "CLOSED" /\ cases'[c] # cases[c]
              => cases'[c].status = "IN_PROGRESS" /\ cases'[c].closedAt = Null]_vars
  BY SerialStep DEF Orderly, Thawed
<1> QED BY <1>1, SerialInductive, PTL DEF SerialSpec, ClosedFrozen

\* While requests do not overlap on a case, a pause puts its deadline off by exactly
\* the time that it is counted with.
THEOREM SerialPausesExtend ==
    SerialSpec => PauseExtendsDeadline
<1>1. SerialInv /\ [Next /\ Apart']_vars =>
        [\A c \in Cases :
           LET old == cases[c]
               new == cases'[c]
           IN old.slaPausedMs # new.slaPausedMs /\ old.status # "CLOSED"
                  /\ old.slaDueAt # Null
              => new.slaDueAt = old.slaDueAt + (new.slaPausedMs - old.slaPausedMs)]_vars
  BY SerialStep DEF Orderly, PutOff
<1> QED BY <1>1, SerialInductive, PTL DEF SerialSpec, PauseExtendsDeadline
=============================================================================
