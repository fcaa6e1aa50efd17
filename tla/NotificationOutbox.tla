------------------------- MODULE NotificationOutbox -------------------------
(***************************************************************************)
(* Notifications and their delivery (common/notification.service.ts), the  *)
(* mailer with its circuit breaker (common/mailer.service.ts) and the feed *)
(* of the recipient (notifications.controller.ts).  notify() queues a row  *)
(* for each channel and tries it inline; retryFailed() takes the failed    *)
(* rows that are due, flushHeld() those held for quiet hours.  Calls       *)
(* overlap: each carries the rows it read and updates them by id alone.    *)
(* The breaker lives in the memory of the process and dies with it.        *)
(***************************************************************************)
EXTENDS Naturals, FiniteSets

CONSTANTS
    Messages,      \* the events that somebody is notified of
    Preferences,   \* the sets of channels that recipients ask for
    Workers,       \* calls that may be in progress at once
    MaxAttempts,   \* MAX_ATTEMPTS, the length of the backoff table
    Threshold,     \* BREAKER_THRESHOLD
    Null           \* SQL NULL

Channels == {"IN_APP", "EMAIL"}
Rows == Messages \X Channels
Channel(n) == n[2]

ASSUME OutboxAssumption ==
    /\ MaxAttempts \in Nat \ {0} /\ Threshold \in Nat \ {0}
    /\ IsFiniteSet(Workers) /\ Preferences \subseteq SUBSET Channels
    /\ Null \notin Nat \cup Rows \cup {"waiting", "due"}

VARIABLES
    row,        \* the notification table
    accepted,   \* has the provider ever answered that it accepts the mail?
    failures,   \* MailerService.consecutiveFailures, up to the threshold
    open,       \* is the circuit open?
    worker,     \* what each call is in the middle of
    tries       \* how often each row was tried (a history variable)

vars == <<row, accepted, failures, open, worker, tries>>
-----------------------------------------------------------------------------
\* nextRetryAt is NULL, in the future or past.
RowType ==
    [status: {"ABSENT", "QUEUED", "SENT", "FAILED", "READ"}, attempts: Nat,
     nextRetryAt: {Null, "waiting", "due"}, held: BOOLEAN]

NewRow(status, held) ==
    [status |-> status, attempts |-> 0, nextRetryAt |-> Null, held |-> held]

\* A call works through the rows it has to create or has read (todo), one
\* after the other (current, at a stage of its delivery).
Stages == {"next", "send", "calling", "accepted", "failed", "failing", "unhold"}
Idle == [op |-> "idle"]
InProgress ==
    [op: {"notify", "retry", "flush"}, held: BOOLEAN, todo: SUBSET Rows,
     current: Rows \cup {Null}, stage: Stages, seen: Nat]
Call == {Idle} \cup InProgress

Init ==
    /\ row = [n \in Rows |-> NewRow("ABSENT", FALSE)]
    /\ accepted = [n \in Rows |-> FALSE]
    /\ failures = 0 /\ open = FALSE
    /\ worker = [w \in Workers |-> Idle]
    /\ tries = [n \in Rows |-> 0]

\* The history of tries.  The column attempts cannot tell a try that left no
\* record, nor those of two calls that have the row at the same time: from then
\* on the tries of the row are Null.
Delivering == {"send", "calling", "accepted", "failed", "failing"}
Trying(w, n) ==
    worker[w] # Idle /\ worker[w].current = n /\ worker[w].stage \in Delivering
Claims(w, n) == Trying(w, n) \/ (worker[w] # Idle /\ n \in worker[w].todo)
Untold(n) == [tries EXCEPT ![n] = Null]
Tried(n) == [tries EXCEPT ![n] = IF @ = Null THEN Null ELSE @ + 1]

Start(w, op, held, todo) ==
    /\ worker[w] = Idle
    /\ worker' = [worker EXCEPT ![w] = [op |-> op, held |-> held, todo |-> todo,
                                        current |-> Null, stage |-> "next", seen |-> 0]]
    /\ tries' = [n \in Rows |-> IF n \in todo /\ \E v \in Workers : Claims(v, n)
                                THEN Null ELSE tries[n]]
    /\ UNCHANGED <<row, accepted, failures, open>>

At(w, stage) == worker[w] # Idle /\ worker[w].stage = stage
Current(w) == worker[w].current
To(w, stage) == worker' = [worker EXCEPT ![w].stage = stage]

\* What follows a row: the next one, after flushHeld has lifted the hold.
NextRow(w) == worker' = [worker EXCEPT ![w].current = Null, ![w].stage = "next", ![w].seen = 0]
Delivered(w) == IF worker[w].op = "flush" THEN To(w, "unhold") ELSE NextRow(w)
-----------------------------------------------------------------------------
\* notify: the channels come from the preferences of the recipient, and the
\* message is held when it is not urgent and falls in their quiet hours.
Notify(w, m, channels, held) ==
    /\ \A n \in {m} \X Channels :
          /\ row[n].status = "ABSENT"
          /\ \A v \in Workers : worker[v] # Idle => n \notin worker[v].todo
    /\ Start(w, "notify", held, {m} \X channels)

\* Wrong variant: quiet hours do not keep the row from being delivered.
CreateAndDeliver(w, n) ==
    /\ At(w, "next") /\ worker[w].op = "notify" /\ n \in worker[w].todo
    /\ row' = [row EXCEPT ![n] = NewRow("QUEUED", worker[w].held)]
    /\ worker' = [worker EXCEPT ![w].todo = @ \ {n}, ![w].current = n, ![w].stage = "send"]
    /\ tries' = Tried(n)
    /\ UNCHANGED <<accepted, failures, open>>

\* A row is queued; unless it is held its delivery follows.
Create(w, n) ==
    /\ At(w, "next") /\ worker[w].op = "notify" /\ n \in worker[w].todo
    /\ row' = [row EXCEPT ![n] = NewRow("QUEUED", worker[w].held)]
    /\ worker' = IF worker[w].held
                 THEN [worker EXCEPT ![w].todo = @ \ {n}]
                 ELSE [worker EXCEPT ![w].todo = @ \ {n}, ![w].current = n,
                                     ![w].stage = "send"]
    /\ tries' = IF worker[w].held THEN tries ELSE Tried(n)
    /\ UNCHANGED <<accepted, failures, open>>

\* Wrong variant: the last attempt is never made.
DueButLast ==
    {n \in Rows : row[n].status = "FAILED" /\ row[n].attempts + 1 < MaxAttempts
                                           /\ row[n].nextRetryAt = "due"}

\* retryFailed: the failed rows that have attempts left and are due.
Due ==
    {n \in Rows : row[n].status = "FAILED" /\ row[n].attempts < MaxAttempts
                                           /\ row[n].nextRetryAt = "due"}

StartRetry(w) == Due # {} /\ Start(w, "retry", FALSE, Due)

\* flushHeld: the queued rows that are held, whatever the hour.
Held == {n \in Rows : row[n].status = "QUEUED" /\ row[n].held}
StartFlush(w) == Held # {} /\ Start(w, "flush", FALSE, Held)

\* The next row of the list that was read, whatever has become of it since.
Take(w, n) ==
    /\ At(w, "next") /\ worker[w].op # "notify" /\ n \in worker[w].todo
    /\ worker' = [worker EXCEPT ![w].todo = @ \ {n}, ![w].current = n, ![w].stage = "send"]
    /\ tries' = Tried(n)
    /\ UNCHANGED <<row, accepted, failures, open>>

Finish(w) ==
    /\ At(w, "next") /\ worker[w].todo = {}
    /\ worker' = [worker EXCEPT ![w] = Idle]
    /\ UNCHANGED <<row, accepted, failures, open, tries>>
-----------------------------------------------------------------------------
\* deliverRow.  A row of the feed is its own delivery.
SendInApp(w) ==
    /\ At(w, "send") /\ Channel(Current(w)) = "IN_APP"
    /\ To(w, "accepted")
    /\ UNCHANGED <<row, accepted, failures, open, tries>>

\* Wrong variant: the answer of an open circuit passes for an acceptance.
CircuitOpenAccepts(w) ==
    /\ At(w, "send") /\ Channel(Current(w)) = "EMAIL" /\ open
    /\ To(w, "accepted")
    /\ UNCHANGED <<row, accepted, failures, open, tries>>

\* MailerService.send fails fast while the circuit is open.
CircuitOpen(w) ==
    /\ At(w, "send") /\ Channel(Current(w)) = "EMAIL" /\ open
    /\ To(w, "failed")
    /\ UNCHANGED <<row, accepted, failures, open, tries>>

\* The mail fails before the breaker is asked: the recipient is gone, or the
\* database does not tell.
NoRecipient(w) ==
    /\ At(w, "send") /\ Channel(Current(w)) = "EMAIL"
    /\ To(w, "failed")
    /\ UNCHANGED <<row, accepted, failures, open, tries>>

CallProvider(w) ==
    /\ At(w, "send") /\ Channel(Current(w)) = "EMAIL" /\ ~open
    /\ To(w, "calling")
    /\ UNCHANGED <<row, accepted, failures, open, tries>>

Accept(w) ==
    /\ At(w, "calling")
    /\ accepted' = [accepted EXCEPT ![Current(w)] = TRUE]
    /\ failures' = 0
    /\ To(w, "accepted")
    /\ UNCHANGED <<row, open, tries>>

\* The provider rejects the mail, or does not answer in time.
Reject(w) ==
    /\ At(w, "calling")
    /\ failures' = IF failures < Threshold THEN failures + 1 ELSE failures
    /\ open' = (open \/ failures + 1 >= Threshold)
    /\ To(w, "failed")
    /\ UNCHANGED <<row, accepted, tries>>

\* markSent leaves the attempts and the next retry as they are.
MarkSent(w) ==
    /\ At(w, "accepted")
    /\ row' = [row EXCEPT ![Current(w)].status = "SENT"]
    /\ Delivered(w)
    /\ UNCHANGED <<accepted, failures, open, tries>>

\* The database refuses markSent: the exception is caught and counts as a
\* failed delivery.
MarkSentFails(w) ==
    /\ At(w, "accepted")
    /\ To(w, "failed")
    /\ UNCHANGED <<row, accepted, failures, open, tries>>

\* Wrong variant: the number of attempts is not selected, and defaults to 0.
ReadNoAttempts(w) ==
    /\ At(w, "failed")
    /\ worker' = [worker EXCEPT ![w].stage = "failing", ![w].seen = 0]
    /\ UNCHANGED <<row, accepted, failures, open, tries>>

\* markFailed reads the number of attempts and writes one more, later.
ReadAttempts(w) ==
    /\ At(w, "failed")
    /\ worker' = [worker EXCEPT ![w].stage = "failing", ![w].seen = row[Current(w)].attempts]
    /\ UNCHANGED <<row, accepted, failures, open, tries>>

Exhausted(attempts) == attempts >= MaxAttempts

\* Wrong variant: the counter alone is written.
FailedUnscheduled(r, attempts) == [r EXCEPT !.status = "FAILED", !.attempts = attempts]

Failed(r, attempts) ==
    [r EXCEPT !.status = "FAILED", !.attempts = attempts,
              !.nextRetryAt = IF Exhausted(attempts) THEN Null ELSE "waiting"]

MarkFailed(w) ==
    /\ At(w, "failing")
    /\ row' = [row EXCEPT ![Current(w)] = Failed(@, worker[w].seen + 1)]
    /\ Delivered(w)
    /\ UNCHANGED <<accepted, failures, open, tries>>

\* flushHeld lifts the hold of a row after its delivery, however that went.
Unhold(w) ==
    /\ At(w, "unhold")
    /\ row' = [row EXCEPT ![Current(w)].held = FALSE]
    /\ NextRow(w)
    /\ UNCHANGED <<accepted, failures, open, tries>>

\* The database refuses.  A failure that cannot be recorded is swallowed; any
\* other exception ends the call.
Swallowed(w) ==
    /\ At(w, "failed") \/ At(w, "failing")
    /\ Delivered(w)
    /\ tries' = Untold(Current(w))
    /\ UNCHANGED <<row, accepted, failures, open>>
Aborted(w) ==
    /\ At(w, "next") \/ At(w, "unhold")
    /\ worker' = [worker EXCEPT ![w] = Idle]
    /\ UNCHANGED <<row, accepted, failures, open, tries>>
-----------------------------------------------------------------------------
\* markRead and markAllRead: a row of any status, sent or not.
MarkRead(n) ==
    /\ row[n].status # "ABSENT"
    /\ row' = [row EXCEPT ![n].status = "READ"]
    /\ UNCHANGED <<accepted, failures, open, worker, tries>>

\* The backoff of a row, and the cooldown of the breaker, run out.
BackoffElapses(n) ==
    /\ row[n].nextRetryAt = "waiting"
    /\ row' = [row EXCEPT ![n].nextRetryAt = "due"]
    /\ UNCHANGED <<accepted, failures, open, worker, tries>>
CooldownElapses ==
    /\ open /\ open' = FALSE
    /\ UNCHANGED <<row, accepted, failures, worker, tries>>

\* The process restarts: calls in progress and the breaker are forgotten.
Crash ==
    /\ worker' = [w \in Workers |-> Idle]
    /\ failures' = 0 /\ open' = FALSE
    /\ tries' = [n \in Rows |-> IF \E w \in Workers : Trying(w, n) THEN Null ELSE tries[n]]
    /\ UNCHANGED <<row, accepted>>

Deliver(w) ==
    \/ SendInApp(w) \/ NoRecipient(w) \/ CircuitOpen(w) \/ CallProvider(w)
    \/ Accept(w) \/ Reject(w)
    \/ MarkSent(w) \/ MarkSentFails(w) \/ ReadAttempts(w) \/ MarkFailed(w) \/ Unhold(w)

\* A call that was started goes on to its end.
Proceed(w) == Deliver(w) \/ Finish(w) \/ \E n \in Rows : Create(w, n) \/ Take(w, n)

Next ==
    \/ \E w \in Workers :
          \/ \E m \in Messages, cs \in Preferences, held \in BOOLEAN :
                Notify(w, m, cs, held)
          \/ StartRetry(w) \/ StartFlush(w) \/ Proceed(w)
          \/ Swallowed(w) \/ Aborted(w)
    \/ \E n \in Rows : MarkRead(n) \/ BackoffElapses(n)
    \/ CooldownElapses \/ Crash

\* Calls run to their end, backoffs run out, and the operator keeps calling
\* POST notifications/delivery/run: the API has no timer of its own.  A call in
\* progress is never idle, so that one condition serves for both.  Restarts
\* and refusals of the database come to an end.
Fairness ==
    /\ \A w \in Workers : WF_vars(Proceed(w) \/ StartRetry(w))
    /\ WF_vars(\E n \in Rows : BackoffElapses(n))
    /\ <>[][~Crash /\ \A w \in Workers : ~Swallowed(w) /\ ~Aborted(w)]_vars

Spec == Init /\ [][Next]_vars /\ Fairness
-----------------------------------------------------------------------------
TableOK ==
    /\ row \in [Rows -> RowType]
    /\ accepted \in [Rows -> BOOLEAN]
    /\ failures \in 0..Threshold /\ open \in BOOLEAN
    /\ worker \in [Workers -> Call]

TypeOK == TableOK /\ tries \in [Rows -> Nat \cup {Null}]

Mails == {n \in Rows : Channel(n) = "EMAIL"}

\* A mail that is recorded as SENT was accepted by the provider, through
\* retries that overlap, an open circuit and restarts.
SentMeansAccepted ==
    \A n \in Mails : row[n].status = "SENT" => accepted[n]

\* A failed row is on its way to another attempt or has used them all: none
\* is left with attempts to spend and no time at which to spend them.
ScheduledOrExhausted ==
    \A n \in Rows : row[n].status = "FAILED" =>
        (row[n].nextRetryAt = Null <=> row[n].attempts >= MaxAttempts)

\* retryFailed gives up after MAX_ATTEMPTS tries, the inline one and a flush
\* included, as long as every try of the row left its record and no two calls
\* had the row at the same time.  A restart or a refusal of the database between
\* the answer of the provider and the record, or a second sweep that read the row
\* before the first was through with it, makes for tries that nobody counts.
GivesUp == \A n \in Rows : tries[n] # Null => tries[n] <= MaxAttempts

\* The column attempts under overlap, whatever the number of tries: one call at
\* a time keeps it within the limit, two exceed it by one at most, although each
\* writes one more than it read a while ago.
AttemptsBounded ==
    Cardinality(Workers) <= 2 =>
        \A n \in Rows : row[n].attempts <= MaxAttempts + Cardinality(Workers) - 1

\* While a row waits for the end of quiet hours only a flush delivers it.
QuietRowsWait ==
    \A n \in Rows, w \in Workers :
        /\ row[n].status = "QUEUED" /\ row[n].held
        /\ worker[w] # Idle /\ Current(w) = n
        => worker[w].op = "flush"

\* A failed mail with attempts left is in the end sent, read or out of attempts:
\* no restart, overlap or open circuit makes the retries pass it by for ever.
FailedResolves ==
    \A n \in Mails :
        row[n].status = "FAILED" /\ row[n].attempts < MaxAttempts
        ~> row[n].status \in {"SENT", "READ"} \/ row[n].attempts >= MaxAttempts
=============================================================================
