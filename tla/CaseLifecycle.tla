--------------------------- MODULE CaseLifecycle ---------------------------
(***************************************************************************)
(* The row of a case and everything that writes its status: the cases      *)
(* service, the public intake form, the escalation sweep's breach path and *)
(* the approval decision.  Each of them is an HTTP handler that first      *)
(* reads the row, awaits, and later writes it in a transaction whose WHERE *)
(* clause is the id alone.  Handlers run concurrently, so a handler keeps  *)
(* what it has SEEN from its reading step to its writing step, and the row *)
(* may have moved on in between.                                           *)
(*                                                                         *)
(* Time is a bounded clock.  A handler reads it before its transaction, so *)
(* what it writes bears an instant `at` that is older than the write: any  *)
(* instant from its reading of the row (`since`) on.                       *)
(*                                                                         *)
(* SlaDueAt(start, hours, calendar) stands for computeSlaDueAt.  The       *)
(* status history is kept as its last row, which is what the properties    *)
(* compare the status with.                                                *)
(***************************************************************************)
EXTENDS Naturals, CaseTransitions

CONSTANTS
    Cases,               \* identities of case rows
    Handlers,            \* request handlers that may be in flight at once
    CaseTypes,           \* active case types
    SlaHours,            \* case type -> its SLA, in clock units
    SlaDueAt(_, _, _),   \* computeSlaDueAt(start, hours, calendar)
    ReopenHours,         \* the shortened SLA of a reopened case
    ReopenWindow,        \* how long after closure a case may be reopened
    Granted,             \* permissions that some caller holds
    ApprovalSteps,       \* do the process templates contain approval steps?
    MaxTime,             \* bound of the clock
    Null                 \* SQL NULL

Time == 0..MaxTime
Calendars == {"organisation", "default"}

ASSUME ConstantsAssumption ==
    /\ MaxTime \in Nat /\ ReopenHours \in Nat /\ ReopenWindow \in Nat
    /\ SlaHours \in [CaseTypes -> Nat]
    /\ ApprovalSteps \in BOOLEAN
    /\ Null \notin Nat

\* A deadline is an instant, never before the moment it is counted from.
ASSUME SlaDueAtAssumption ==
    \A start \in Time, cal \in Calendars :
        \A hours \in {SlaHours[t] : t \in CaseTypes} \cup {ReopenHours} :
            /\ SlaDueAt(start, hours, cal) \in Nat
            /\ SlaDueAt(start, hours, cal) >= start

VARIABLES
    now,       \* the clock
    cases,     \* the case table
    lastRow,   \* per case, the latest row of case_status_history
    req        \* what each handler is in the middle of

vars == <<now, cases, lastRow, req>>
-----------------------------------------------------------------------------
OrNull(S) == S \cup {Null}

\* The columns of a case row that the lifecycle reads or writes.  A status of
\* "ABSENT" stands for a row that has not been inserted; `formValid` says
\* whether the payload satisfies the form schema of the case's type, and
\* `instances` how many times a process template was instantiated for it.
CaseRow ==
    [status: CaseStatus \cup {"ABSENT"}, caseType: CaseTypes,
     formValid: BOOLEAN, submittedAt: OrNull(Time), slaDueAt: OrNull(Nat),
     slaPausedAt: OrNull(Time), slaPausedMs: Nat, resolvedAt: OrNull(Time),
     closedAt: OrNull(Time), instances: Nat]

HistoryRow == [from: CaseStatus, to: CaseStatus]

Idle == [op |-> "idle"]

Request ==
    {Idle}
    \cup [op: {"transition"}, case: Cases, seen: CaseRow, to: CaseStatus,
          instantiate: BOOLEAN, since: Time]
    \cup [op: {"update"}, case: Cases, from: CaseStatus, retyped: BOOLEAN,
          caseType: CaseTypes, formValid: BOOLEAN, submittedAt: OrNull(Time),
          since: Time]
    \cup [op: {"breach"}, case: Cases, from: CaseStatus]
    \cup [op: {"decide", "apply"}, case: Cases, from: CaseStatus,
          to: {"APPROVED", "REJECTED"}]

NewRow(status, t, valid) ==
    [status |-> status, caseType |-> t, formValid |-> valid,
     submittedAt |-> Null, slaDueAt |-> Null, slaPausedAt |-> Null,
     slaPausedMs |-> 0, resolvedAt |-> Null, closedAt |-> Null,
     instances |-> 0]

Init ==
    /\ now = 0
    /\ \E t \in CaseTypes : cases = [c \in Cases |-> NewRow("ABSENT", t, FALSE)]
    /\ lastRow = [c \in Cases |-> Null]
    /\ req = [h \in Handlers |-> Idle]

Exists(c) == cases[c].status # "ABSENT"

\* Wrong variant: the two statuses are swapped.
LogSwapped(c, from, to) ==
    lastRow' = [lastRow EXCEPT ![c] = [from |-> to, to |-> from]]

Log(c, from, to) ==
    lastRow' = [lastRow EXCEPT ![c] = [from |-> from, to |-> to]]

Begin(h, r) == req[h] = Idle /\ req' = [req EXCEPT ![h] = r]
Finish(h) == req' = [req EXCEPT ![h] = Idle]

\* The instants a handler may have taken for its `now`: it reads the clock
\* after the row and before the transaction that writes.
Instants(r) == r.since..now
-----------------------------------------------------------------------------
\* createCase: the row is inserted as a DRAFT; no history row is written.
CreateCase(c, t, valid) ==
    /\ ~Exists(c)
    /\ cases' = [cases EXCEPT ![c] = NewRow("DRAFT", t, valid)]
    /\ UNCHANGED <<now, lastRow, req>>

\* PublicController.submitRequest: the web form opens a case directly in
\* SUBMITTED, on a wall-clock deadline that is NULL for a type without hours.
PublicRequest(c, t, valid) ==
    /\ ~Exists(c)
    /\ cases' = [cases EXCEPT ![c] =
          [NewRow("SUBMITTED", t, valid) EXCEPT
              !.submittedAt = now,
              !.slaDueAt = IF SlaHours[t] = 0 THEN Null ELSE now + SlaHours[t]]]
    /\ UNCHANGED <<now, lastRow, req>>
-----------------------------------------------------------------------------
\* Wrong variant: the form is not validated.
SubmittableUnchecked(row, to) == TRUE

\* validateAgainstSchema, on a submission only.
Submittable(row, to) == to = "SUBMITTED" => row.formValid

\* transitionCase up to the transaction: the row is read, and every check is
\* made on that reading.  `instantiate` holds when an assignment names an
\* owner and the type has an active process template.
BeginTransition(h, c, to, reason, instantiate) ==
    LET seen == cases[c] IN
    /\ Exists(c)
    /\ NotClosed(seen.status) \/ IsReopen(seen.status, to)
    /\ MayTransition(seen.status, to, reason, Granted)
    /\ Submittable(seen, to)
    /\ instantiate => to = "ASSIGNED"
    /\ Begin(h, [op |-> "transition", case |-> c, seen |-> seen, to |-> to,
                 instantiate |-> instantiate, since |-> now])
    /\ UNCHANGED <<now, cases, lastRow>>

\* Wrong variants: the pause left in place, the deadline left in place.
ResumedStillPaused(row, seen, at) ==
    IF seen.slaPausedAt = Null THEN row
    ELSE [row EXCEPT !.slaPausedMs = @ + (at - seen.slaPausedAt)]
ResumedSameDeadline(row, seen, at) ==
    IF seen.slaPausedAt = Null THEN row
    ELSE [row EXCEPT !.slaPausedMs = @ + (at - seen.slaPausedAt), !.slaPausedAt = Null]

\* Leaving a pause: the interval since the pause that was SEEN is added to
\* the paused total (a database increment) and to the deadline that was seen.
Resumed(row, seen, at) ==
    IF seen.slaPausedAt = Null THEN row
    ELSE LET paused == at - seen.slaPausedAt IN
         [row EXCEPT !.slaPausedMs = @ + paused,
                     !.slaPausedAt = Null,
                     !.slaDueAt = IF seen.slaDueAt = Null THEN @
                                  ELSE seen.slaDueAt + paused]

\* Wrong variant: the stamps of the end that was taken back stay.
ReopenedStillStamped(row, at) ==
    [row EXCEPT !.slaDueAt = SlaDueAt(at, ReopenHours, "default")]

Reopened(row, at) ==
    [row EXCEPT !.closedAt = Null, !.resolvedAt = Null,
                !.slaDueAt = SlaDueAt(at, ReopenHours, "default")]

\* updateData apart from the status: what the transition to `to` writes over
\* the current row, computed from the row that was seen and the instant `at`.
Effects(row, seen, to, instantiate, at) ==
    CASE to = "SUBMITTED" ->
           [row EXCEPT !.submittedAt = at,
              !.slaDueAt = SlaDueAt(at, SlaHours[seen.caseType], "organisation")]
      [] to = "QUALIFIED" ->
           [row EXCEPT !.slaDueAt =
              SlaDueAt(IF seen.submittedAt = Null THEN at ELSE seen.submittedAt,
                       SlaHours[seen.caseType], "default")]
      [] to = "ASSIGNED" ->
           [row EXCEPT !.instances = IF instantiate THEN @ + 1 ELSE @]
      [] to \in PausedStatuses -> [row EXCEPT !.slaPausedAt = at]
      [] to = "IN_PROGRESS" ->
           IF IsReopen(seen.status, to) THEN Reopened(Resumed(row, seen, at), at)
                                        ELSE Resumed(row, seen, at)
      [] to = "RESOLVED" -> [row EXCEPT !.resolvedAt = at]
      [] to = "CLOSED" -> [row EXCEPT !.closedAt = at]
      [] OTHER -> row

\* The window of a reopening is looked at inside the transaction, at an instant
\* that may still be `at`.
ReopenAllowed(seen, at) ==
    seen.closedAt # Null /\ at - seen.closedAt <= ReopenWindow

\* The transaction of transitionCase: the status, its side effects and the
\* history row together.  The update selects the row by id alone, and what it
\* writes was stamped before the transaction began.
CommitTransition(h) ==
    /\ req[h].op = "transition"
    /\ LET r == req[h] IN \E at \in Instants(r) :
       /\ IsReopen(r.seen.status, r.to) => ReopenAllowed(r.seen, at)
       /\ cases' = [cases EXCEPT ![r.case] =
             [Effects(@, r.seen, r.to, r.instantiate, at) EXCEPT !.status = r.to]]
       /\ Log(r.case, r.seen.status, r.to)
    /\ Finish(h)
    /\ UNCHANGED now
-----------------------------------------------------------------------------
\* updateCase up to the transaction.  A change of type re-derives the deadline
\* from the submission that was seen; the payload may become valid or invalid.
BeginUpdate(h, c, t, valid) ==
    LET seen == cases[c] IN
    /\ Exists(c)
    /\ NotClosed(seen.status)
    /\ Begin(h, [op |-> "update", case |-> c, from |-> seen.status,
                 retyped |-> t # seen.caseType, caseType |-> t,
                 formValid |-> valid, submittedAt |-> seen.submittedAt, since |-> now])
    /\ UNCHANGED <<now, cases, lastRow>>

Updated(row, r, at) ==
    [row EXCEPT !.formValid = r.formValid,
                !.caseType = IF r.retyped THEN r.caseType ELSE @,
                !.slaDueAt =
                   IF r.retyped
                   THEN SlaDueAt(IF r.submittedAt = Null THEN at ELSE r.submittedAt,
                                 SlaHours[r.caseType], "organisation")
                   ELSE @]

\* A change of type also writes a history row that repeats the status seen.
CommitUpdate(h) ==
    /\ req[h].op = "update"
    /\ LET r == req[h] IN
       /\ \E at \in Instants(r) : cases' = [cases EXCEPT ![r.case] = Updated(@, r, at)]
       /\ IF r.retyped THEN Log(r.case, r.from, r.from)
                       ELSE UNCHANGED lastRow
    /\ Finish(h)
    /\ UNCHANGED now
-----------------------------------------------------------------------------
SweptStatuses == {"ASSIGNED", "IN_PROGRESS", "SUBMITTED", "QUALIFIED", "IN_REVIEW"}

\* The escalation sweep reads its candidates and decides on that reading that
\* the clock runs and the due instant has passed.
BeginBreach(h, c) ==
    LET seen == cases[c] IN
    /\ seen.status \in SweptStatuses
    /\ seen.submittedAt # Null /\ seen.slaDueAt # Null
    /\ seen.slaPausedAt = Null
    /\ seen.slaDueAt < now
    /\ Begin(h, [op |-> "breach", case |-> c, from |-> seen.status])
    /\ UNCHANGED <<now, cases, lastRow>>

CommitBreach(h) ==
    /\ req[h].op = "breach"
    /\ LET r == req[h] IN
       /\ cases' = [cases EXCEPT ![r.case].status = "ESCALATED"]
       /\ Log(r.case, r.from, "ESCALATED")
    /\ Finish(h)
    /\ UNCHANGED now
-----------------------------------------------------------------------------
\* decideApproval reads the approval together with its case, whatever the
\* status of the case; approvals exist once a template was instantiated.
BeginDecision(h, c, to, reason) ==
    /\ ApprovalSteps /\ Exists(c) /\ cases[c].instances > 0
    /\ to = "REJECTED" => reason
    /\ Begin(h, [op |-> "decide", case |-> c, from |-> cases[c].status,
                 to |-> to])
    /\ UNCHANGED <<now, cases, lastRow>>

\* applyCaseTransition reads the case again and goes on only if its status is
\* still the one the decision saw.
ConfirmDecision(h) ==
    /\ req[h].op = "decide"
    /\ req' = [req EXCEPT ![h] =
                  IF cases[@.case].status = @.from
                  THEN [@ EXCEPT !.op = "apply"] ELSE Idle]
    /\ UNCHANGED <<now, cases, lastRow>>

\* It then writes the status and a history row, with no look at the map.
ApplyDecision(h) ==
    /\ req[h].op = "apply"
    /\ LET r == req[h] IN
       /\ cases' = [cases EXCEPT ![r.case].status = r.to]
       /\ Log(r.case, r.from, r.to)
    /\ Finish(h)
    /\ UNCHANGED now
-----------------------------------------------------------------------------
\* A handler that ends without its write: the transaction rolls back, the
\* reopening window has passed, or the process dies.
Abandon(h) ==
    /\ req[h] # Idle
    /\ Finish(h)
    /\ UNCHANGED <<now, cases, lastRow>>

Tick ==
    /\ now < MaxTime
    /\ now' = now + 1
    /\ UNCHANGED <<cases, lastRow, req>>

Next ==
    \/ Tick
    \/ \E c \in Cases, t \in CaseTypes, valid \in BOOLEAN :
          CreateCase(c, t, valid) \/ PublicRequest(c, t, valid)
    \/ \E h \in Handlers, c \in Cases :
          \/ \E to \in CaseStatus, reason, instantiate \in BOOLEAN :
                BeginTransition(h, c, to, reason, instantiate)
          \/ \E t \in CaseTypes, valid \in BOOLEAN : BeginUpdate(h, c, t, valid)
          \/ BeginBreach(h, c)
          \/ \E to \in {"APPROVED", "REJECTED"}, reason \in BOOLEAN :
                BeginDecision(h, c, to, reason)
    \/ \E h \in Handlers :
          \/ CommitTransition(h) \/ CommitUpdate(h) \/ CommitBreach(h)
          \/ ConfirmDecision(h) \/ ApplyDecision(h) \/ Abandon(h)

Spec == Init /\ [][Next]_vars

\* Requests that do not overlap on a case, however they overlap otherwise.
Apart ==
    \A h, k \in Handlers :
        h # k /\ req[h] # Idle /\ req[k] # Idle => req[h].case # req[k].case
SerialSpec == Init /\ [][Next /\ Apart']_vars
-----------------------------------------------------------------------------
TypeOK ==
    /\ now \in Time
    /\ cases \in [Cases -> CaseRow]
    /\ lastRow \in [Cases -> HistoryRow \cup {Null}]
    /\ req \in [Handlers -> Request]

(***************************************************************************)
(* What holds whatever the handlers do to each other.                      *)
(***************************************************************************)

\* A case in a paused status has a stopped clock: transitionCase writes
\* slaPausedAt together with the status, so no interleaving leaves a case on
\* hold with its SLA running (spec 10.3).
PausedStopsClock ==
    \A c \in Cases :
        cases[c].status \in {"ON_HOLD", "AWAITING_INFO"} => cases[c].slaPausedAt # Null

\* Every case in triage was submitted: QUALIFIED and ASSIGNED are reached
\* only on a reading that had passed through SUBMITTED, and nothing clears
\* submittedAt, so a stale request cannot put an unsubmitted case there.
TriageSubmitted ==
    \A c \in Cases :
        cases[c].status \in {"SUBMITTED", "QUALIFIED", "ASSIGNED"}
            => cases[c].submittedAt # Null

\* No caller can archive a case.  The map has CLOSED -> ARCHIVED for the
\* permission `system`, but canWrite lets a closed case be written only by a
\* reopening, so the rule is dead whatever permissions are granted.
NeverArchived == \A c \in Cases : cases[c].status # "ARCHIVED"

(***************************************************************************)
(* What holds when requests do not overlap on a case.                      *)
(***************************************************************************)

\* The history ends where the case is: the last row leads to the status
\* (US-3.3: never the status update without its row).
TrailMatches ==
    \A c \in Cases : lastRow[c] # Null => lastRow[c].to = cases[c].status

\* A case in progress has a running clock, or the sweep would skip it.
RunningClock ==
    \A c \in Cases :
        cases[c].status = "IN_PROGRESS" => cases[c].slaPausedAt = Null

\* The pauses counted, the current one included, fit into the time since the
\* submission: no interval is counted twice.
PausedWithinElapsed ==
    \A c \in Cases :
        LET row == cases[c] IN
        row.submittedAt # Null =>
            row.slaPausedMs
              + (IF row.slaPausedAt = Null THEN 0 ELSE now - row.slaPausedAt)
            <= now - row.submittedAt

\* The stamps of the end of a case: a resolved case says when, after its
\* submission; a closed case when, after its resolution; and, where no approval
\* goes around the map, only a closed case bears the stamp of a closure.  Each
\* instant is taken before the transaction that writes it, so requests that
\* overlap on a case may stamp its closure before its resolution.
EndsInOrder ==
    \A c \in Cases :
        LET row == cases[c] IN
        /\ row.status \in {"RESOLVED", "CLOSED"} =>
              /\ row.resolvedAt # Null
              /\ row.submittedAt # Null => row.submittedAt <= row.resolvedAt
        /\ row.status = "CLOSED" => row.closedAt # Null /\ row.resolvedAt <= row.closedAt
        /\ ~ApprovalSteps /\ row.closedAt # Null => row.status = "CLOSED"

\* A case gets its tasks and approvals once (FR-4.2).
OneInstance == \A c \in Cases : cases[c].instances <= 1

\* What is told of a case: where its history has led it and with what work, and
\* how long its clock ran.
HistoryTells == TrailMatches /\ OneInstance
ClockTells == RunningClock /\ PausedWithinElapsed

\* The status moves only along the transition map (US-3.3, FR-3.6), and a draft
\* is submitted only while its payload satisfies the form schema.  This and the
\* next hold of templates without approvals, whose decisions go around the map.
LegalMoves ==
    [][\A c \in Cases :
          LET old == cases[c].status
              new == cases'[c].status
          IN Exists(c) /\ new # old =>
                /\ IsTransition(old, new)
                /\ old = "DRAFT" /\ new = "SUBMITTED" => cases[c].formValid]_vars

\* A closed case is read-only: it changes only by being reopened, which
\* clears its closing stamp (R-07, checkNotClosedForMutation).
ClosedFrozen ==
    [][\A c \in Cases :
          cases[c].status = "CLOSED" /\ cases'[c] # cases[c]
              => cases'[c].status = "IN_PROGRESS" /\ cases'[c].closedAt = Null]_vars

\* The time a pause adds to slaPausedMs is the time the deadline is put off
\* by; a reopening sets a new deadline instead.
PauseExtendsDeadline ==
    [][\A c \in Cases :
          LET old == cases[c]
              new == cases'[c]
          IN old.slaPausedMs # new.slaPausedMs /\ old.status # "CLOSED"
                 /\ old.slaDueAt # Null
             => new.slaDueAt = old.slaDueAt + (new.slaPausedMs - old.slaPausedMs)]_vars
=============================================================================
