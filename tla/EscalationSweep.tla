-------------------------- MODULE EscalationSweep --------------------------
(***************************************************************************)
(* The sweeps that warn people ahead of time: workflow.service.ts sweep    *)
(* (the thresholds of a case, its inactivity, the breach) and runReminders *)
(* (a task), and the dunning half of finance.service.ts sweepOverdue (an   *)
(* invoice).  None keeps a mark of its own: each asks the table of         *)
(* notifications whether a warning was sent, under the key of the event,   *)
(* and sends it after that.  notify() stores the code of the template that *)
(* it finds, which may be another, and no row for who wants no channel.    *)
(* One thing to warn about is followed, for they share no row.             *)
(***************************************************************************)
EXTENDS Naturals, FiniteSets

CONSTANTS
    Sweepers,     \* sweeps that may run at once
    People,       \* who may own the case, hold the task or pay the invoice
    Managers,     \* the active managers of the organisation
    Candidate,    \* the member that a REASSIGN rule finds
    Thresholds,   \* how many thresholds the rules configure
    ReassignAt,   \* those whose rule reassigns the case
    Null

VARIABLES
    subject,      \* what is followed: "case", "idleCase", "task" or "invoice"
    progress,     \* is the case ACTIVE, its clock STOPPED (paused, closed), or ESCALATED?
    owner,        \* the owner, the assignee or the billing contact
    reached,      \* how many thresholds the clock has passed; one more is the breach
    ledger,       \* notification rows under a key that is looked up: how many of each
                  \* warning who got
    fired,        \* history: the thresholds that a sweep has gone through with
    sweep         \* what each sweep has read and where it is

sweepVars == <<subject, progress, owner, reached, ledger, fired, sweep>>
-----------------------------------------------------------------------------
\* Warnings are numbered; without a rule on the deadline there is one threshold.
Limit == IF subject = "case" THEN Thresholds ELSE 1
Inactive == Thresholds + 1
Warnings == 1..Inactive
Escalation == Inactive + 1   \* the notice of a breach, which nobody looks up

Sweep == [at: {"idle", "check", "fire", "send", "breach"}, seen: People \cup {Null},
          hit: 0..Inactive, warning: 0..Escalation, to: SUBSET People]
NoSweep == [at |-> "idle", seen |-> Null, hit |-> 0, warning |-> 0, to |-> {}]

Init ==
    /\ subject \in {"case", "idleCase", "task", "invoice"}
    /\ progress = "ACTIVE" /\ owner = Null
    /\ reached = 0
    /\ ledger = [w \in Warnings |-> [p \in People |-> 0]] /\ fired = {}
    /\ sweep = [s \in Sweepers |-> NoSweep]

Case == subject \in {"case", "idleCase"}
Sent(w) == \E p \in People : ledger[w][p] > 0
Named(p) == {p} \ {Null}
At(s, stage) == sweep[s].at = stage
Step(s, next) ==
    /\ sweep' = [sweep EXCEPT ![s] = next]
    /\ UNCHANGED <<subject, progress, owner, reached, ledger, fired>>
-----------------------------------------------------------------------------
\* Wrong variant: a sweep that comes late begins with the nearest threshold.
BeginNearest(s) ==
    /\ At(s, "idle") /\ Case /\ progress = "ACTIVE" /\ reached <= Limit
    /\ Step(s, [NoSweep EXCEPT !.at = "check", !.seen = owner, !.hit = reached,
                               !.warning = IF reached = 0 THEN 1 ELSE reached])

\* sweep: the candidates are the cases whose clock runs.  Past the deadline the
\* case is escalated, before it the thresholds are gone through.
Begin(s) ==
    /\ At(s, "idle") /\ Case /\ progress = "ACTIVE"
    /\ Step(s, [NoSweep EXCEPT !.at = IF reached > Limit THEN "breach" ELSE "check",
                               !.seen = owner, !.hit = reached, !.warning = 1])

\* The case is escalated whatever it is by now, and whoever owned it when the
\* sweep began is told.
Breach(s) ==
    /\ At(s, "breach")
    /\ progress' = "ESCALATED"
    /\ sweep' = [sweep EXCEPT ![s].at = "send", ![s].warning = Escalation,
                              ![s].to = Named(sweep[s].seen)]
    /\ UNCHANGED <<subject, owner, reached, ledger, fired>>

\* Wrong variant: a threshold is not looked up among the notifications.
CheckNothing(s) ==
    /\ At(s, "check") /\ Case /\ sweep[s].warning <= Limit
    /\ Step(s, IF sweep[s].warning > sweep[s].hit THEN [sweep[s] EXCEPT !.warning = Inactive]
               ELSE [sweep[s] EXCEPT !.at = "fire"])

\* A threshold that is not reached ends them; alreadyFired passes over one of
\* which anybody was warned.
Check(s) ==
    /\ At(s, "check") /\ Case /\ sweep[s].warning <= Limit
    /\ LET w == sweep[s].warning IN
       Step(s, CASE w > sweep[s].hit -> [sweep[s] EXCEPT !.warning = Inactive]
                 [] w <= sweep[s].hit /\ Sent(w) -> [sweep[s] EXCEPT !.warning = w + 1]
                 [] OTHER -> [sweep[s] EXCEPT !.at = "fire"])

\* After them comes the rule on inactivity, if there is one and it is met.
CheckInactive(s, idle) ==
    /\ At(s, "check") /\ Case /\ sweep[s].warning > Limit
    /\ Step(s, IF subject = "idleCase" /\ idle /\ ~Sent(Inactive)
               THEN [sweep[s] EXCEPT !.at = "fire", !.warning = Inactive] ELSE NoSweep)

\* A rule that reassigns tells the new owner and the one before, any other the
\* owner and the managers; inactivity is told to the owner alone.
Reassigns(s) == sweep[s].warning \in ReassignAt /\ Candidate # sweep[s].seen
Recipients(s) ==
    Named(sweep[s].seen) \cup
    CASE sweep[s].warning = Inactive -> {}
      [] Reassigns(s) -> {Candidate}
      [] OTHER -> Managers
Fire(s) ==
    /\ At(s, "fire")
    /\ owner' = IF Reassigns(s) THEN Candidate ELSE owner
    /\ sweep' = [sweep EXCEPT ![s].at = "send", ![s].to = Recipients(s)]
    /\ UNCHANGED <<subject, progress, reached, ledger, fired>>

\* notify: the row is stored under the key, or where no look-up finds it, or not
\* at all, as templates and preferences, which may change at any time, have it.
Send(s, p) ==
    /\ At(s, "send") /\ p \in sweep[s].to
    /\ \/ /\ sweep[s].warning \in Warnings
          /\ ledger' = [ledger EXCEPT ![sweep[s].warning][p] = @ + 1]
       \/ UNCHANGED ledger
    /\ sweep' = [sweep EXCEPT ![s].to = @ \ {p}]
    /\ UNCHANGED <<subject, progress, owner, reached, fired>>

\* After a threshold comes the next; any other notice is the last of a sweep.
NextThreshold(s) ==
    /\ At(s, "send") /\ sweep[s].to = {} /\ Case /\ sweep[s].warning < Inactive
    /\ fired' = fired \cup {sweep[s].warning}
    /\ sweep' = [sweep EXCEPT ![s].at = "check", ![s].warning = @ + 1]
    /\ UNCHANGED <<subject, progress, owner, reached, ledger>>
Finish(s) ==
    /\ At(s, "send") /\ sweep[s].to = {} /\ ~(Case /\ sweep[s].warning < Inactive)
    /\ Step(s, NoSweep)
-----------------------------------------------------------------------------
\* runReminders asks whether the assignee it read was reminded, dunning whether
\* anybody was, of the contact that it looks up after that.
BeginReminder(s) ==
    /\ At(s, "idle") /\ subject = "task" /\ owner # Null
    /\ Step(s, [NoSweep EXCEPT !.at = "check", !.seen = owner, !.warning = 1])
CheckReminder(s) ==
    /\ At(s, "check") /\ subject = "task"
    /\ Step(s, IF ledger[1][sweep[s].seen] = 0
               THEN [sweep[s] EXCEPT !.at = "send", !.to = {sweep[s].seen}] ELSE NoSweep)
BeginDunning(s) ==
    /\ At(s, "idle") /\ subject = "invoice" /\ ~Sent(1)
    /\ Step(s, [NoSweep EXCEPT !.at = "check", !.warning = 1])
FindContact(s) ==
    /\ At(s, "check") /\ subject = "invoice"
    /\ Step(s, [sweep[s] EXCEPT !.at = "send", !.to = Named(owner)])

\* A sweep fails, or the process dies, between two statements.
Die(s) == ~At(s, "idle") /\ Step(s, NoSweep)
-----------------------------------------------------------------------------
\* Meanwhile time passes, and people work on the case or change places.
TimePasses ==
    /\ Case /\ progress # "STOPPED" /\ reached <= Limit /\ reached' = reached + 1
    /\ UNCHANGED <<subject, progress, owner, ledger, fired, sweep>>
Move(from, to) ==
    /\ progress = from /\ progress' = to
    /\ UNCHANGED <<subject, owner, reached, ledger, fired, sweep>>
Assign(p) ==
    /\ owner' = p
    /\ UNCHANGED <<subject, progress, reached, ledger, fired, sweep>>

Next ==
    \/ \E s \in Sweepers :
          \/ Begin(s) \/ Breach(s) \/ Check(s) \/ Fire(s) \/ NextThreshold(s) \/ Finish(s)
          \/ Die(s)
          \/ \E idle \in BOOLEAN : CheckInactive(s, idle)
          \/ \E p \in People : Send(s, p)
          \/ BeginReminder(s) \/ CheckReminder(s) \/ BeginDunning(s) \/ FindContact(s)
    \/ \E p \in People : Assign(p)
    \/ TimePasses
    \/ Move("ACTIVE", "STOPPED") \/ Move("STOPPED", "ACTIVE") \/ Move("ESCALATED", "ACTIVE")

Spec == Init /\ [][Next]_sweepVars
-----------------------------------------------------------------------------
TypeOK ==
    /\ subject \in {"case", "idleCase", "task", "invoice"}
    /\ progress \in {"ACTIVE", "STOPPED", "ESCALATED"} /\ owner \in People \cup {Null}
    /\ reached \in 0..Inactive
    /\ ledger \in [Warnings -> [People -> Nat]] /\ fired \subseteq 0..Thresholds
    /\ sweep \in [Sweepers -> Sweep]

\* Through crashes and repetitions a warning that can be found, stored under the
\* key of its event, reaches nobody twice, except from sweeps that overlap, and
\* then once from each at most.  One whose template has a code of its own is
\* found by nobody and sent by every sweep.
WarnedOnce == \A w \in Warnings, p \in People : ledger[w][p] <= Cardinality(Sweepers)

\* Warnings of a case come in order, also from sweeps that are cut short, overlap
\* or come late: before anybody is warned of a threshold the one before was found
\* to be sent, or a sweep has gone through with it, whoever wanted to hear of it.
WarnedInOrder ==
    \A w \in 2..Thresholds : Sent(w) => Sent(w - 1) \/ w - 1 \in fired
=============================================================================
