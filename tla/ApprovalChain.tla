--------------------------- MODULE ApprovalChain ---------------------------
(***************************************************************************)
(* The approvals of one case: decideApproval, overrideApproval,            *)
(* applyCaseTransition and delegateApproval (workflow.service.ts), and the *)
(* instantiation of the process template that creates them                 *)
(* (cases.service.ts).  A decision is recorded in one transaction; then,   *)
(* outside of it, the pending approvals of its task are asked for, the     *)
(* status of the case is read again and at last written.  Requests         *)
(* interleave between any two of these, and a process may die there.       *)
(* Transitions that people make are one step here: CaseLifecycle has their *)
(* interleavings.                                                          *)
(***************************************************************************)
EXTENDS CaseTransitions, Naturals

CONSTANTS
    Approvals,      \* the approval steps of the template, one task each
    Level,          \* the level of each
    Users,
    Authority,      \* the approval level of each user
    Deputies,       \* bound: whom approvals are delegated to
    Handlers,       \* requests that may be in progress at once
    Destinations,   \* bound: the statuses that people move the case to
    Null            \* SQL NULL

ASSUME ChainAssumption ==
    /\ Level \in [Approvals -> Nat] /\ Authority \in [Users -> Nat]
    /\ Deputies \subseteq Users /\ Null \notin Users
    /\ Destinations \subseteq CaseStatus

VARIABLES
    caseStatus,   \* case.status
    approval,     \* the approval rows
    delegates,    \* history: whom each approval was ever delegated to
    req           \* what each request is in the middle of

vars == <<caseStatus, approval, delegates, req>>
-----------------------------------------------------------------------------
ApprovalRow ==
    [state: {"ABSENT", "PENDING", "APPROVED", "REJECTED", "DELEGATED"},
     decidedBy: Users \cup {Null}, delegatedTo: Users \cup {Null}]

NewApproval(state) == [state |-> state, decidedBy |-> Null, delegatedTo |-> Null]

\* A request is idle, about to delegate, on its way through a decision, with
\* what it still needs of what it read, or gone: its process died or its
\* transaction failed.
Idle == [step |-> "idle"]
Gone == [step |-> "gone"]
Outcomes == {"APPROVED", "REJECTED"}
Request ==
    {Idle, Gone}
    \cup [step: {"delegating"}, approval: Approvals, to: Users]
    \cup [step: {"deciding"}, approval: Approvals, user: Users, outcome: Outcomes,
          from: CaseStatus]
    \cup [step: {"recorded"}, approval: Approvals, outcome: Outcomes, from: CaseStatus]
    \cup [step: {"last"}, outcome: Outcomes, from: CaseStatus]
    \cup [step: {"confirmed"}, outcome: Outcomes]

Free(h) == req[h] \in {Idle, Gone}
Deciding(h, step) == req[h].step = step
Go(h, r) == req' = [req EXCEPT ![h] = r]
Recorded(h) == [step |-> "recorded", approval |-> req[h].approval,
                outcome |-> req[h].outcome, from |-> req[h].from]
Last(h) == [step |-> "last", outcome |-> req[h].outcome, from |-> req[h].from]
Confirmed(h) == [step |-> "confirmed", outcome |-> req[h].outcome]

Init ==
    /\ caseStatus = "QUALIFIED"
    /\ approval = [a \in Approvals |-> NewApproval("ABSENT")]
    /\ delegates = [a \in Approvals |-> {}]
    /\ req = [h \in Handlers |-> Idle]
-----------------------------------------------------------------------------
\* transitionCase to ASSIGNED with an owner instantiates the template.
Assign ==
    /\ caseStatus = "QUALIFIED"
    /\ caseStatus' = "ASSIGNED"
    /\ approval' = [a \in Approvals |-> NewApproval("PENDING")]
    /\ UNCHANGED <<delegates, req>>

\* Any other transition, an assignment that names no owner included.
Move(to) ==
    /\ IsTransition(caseStatus, to)
    /\ caseStatus' = to
    /\ UNCHANGED <<approval, delegates, req>>

\* Wrong variant: a delegate need not have been named by the row.
AnyoneMayDecide(u, a) == TRUE

\* A user decides or delegates at or below their level, or as the delegate.
MayDecide(u, a) == Authority[u] >= Level[a] \/ approval[a].delegatedTo = u

\* decideApproval reads the approval with its case.  Neither the state of the
\* approval nor the status of the case is looked at.
BeginDecide(h, u, a, outcome) ==
    /\ Free(h) /\ approval[a].state # "ABSENT"
    /\ MayDecide(u, a)
    /\ Go(h, [step |-> "deciding", approval |-> a, user |-> u, outcome |-> outcome,
              from |-> caseStatus])
    /\ UNCHANGED <<caseStatus, approval, delegates>>

\* The approvals that share the task of a: template steps have a task each.
OfSameTask(a) == {a}

\* Wrong variant: only approvals of the same task are cancelled.
CancelledOfTask(a, b) ==
    IF b \in OfSameTask(a) \ {a} /\ approval[b].state = "PENDING"
    THEN [approval[b] EXCEPT !.state = "REJECTED"] ELSE approval[b]

\* A rejection cancels every approval of the case that is still pending.
Cancelled(a, b) ==
    IF b # a /\ approval[b].state = "PENDING"
    THEN [approval[b] EXCEPT !.state = "REJECTED"] ELSE approval[b]

\* Wrong variant: the decision is not stamped with its user.
RecordUnsigned(h) ==
    /\ Deciding(h, "deciding")
    /\ LET a == req[h].approval IN
       approval' = [b \in Approvals |->
                      IF b = a THEN [approval[a] EXCEPT !.state = req[h].outcome]
                      ELSE IF req[h].outcome = "REJECTED" THEN Cancelled(a, b)
                      ELSE approval[b]]
    /\ Go(h, Recorded(h))
    /\ UNCHANGED <<caseStatus, delegates>>

\* The transaction of decideApproval.
Record(h) ==
    /\ Deciding(h, "deciding")
    /\ LET a == req[h].approval IN
       approval' = [b \in Approvals |->
                      IF b = a THEN [approval[a] EXCEPT !.state = req[h].outcome,
                                                        !.decidedBy = req[h].user]
                      ELSE IF req[h].outcome = "REJECTED" THEN Cancelled(a, b)
                      ELSE approval[b]]
    /\ Go(h, Recorded(h))
    /\ UNCHANGED <<caseStatus, delegates>>

\* A rejection moves the case at once, an approval when nothing is pending in
\* its task.
AskPending(h) ==
    /\ Deciding(h, "recorded")
    /\ IF /\ req[h].outcome = "APPROVED"
          /\ \E b \in OfSameTask(req[h].approval) : approval[b].state = "PENDING"
       THEN Go(h, Idle) ELSE Go(h, Last(h))
    /\ UNCHANGED <<caseStatus, approval, delegates>>

\* Wrong variant: the two statuses are swapped.
ConfirmSwapped(h) ==
    /\ Deciding(h, "last")
    /\ IF caseStatus = req[h].outcome THEN Go(h, Confirmed(h)) ELSE Go(h, Idle)
    /\ UNCHANGED <<caseStatus, approval, delegates>>

\* applyCaseTransition reads the case again: it must be as it was.
Confirm(h) ==
    /\ Deciding(h, "last")
    /\ IF caseStatus = req[h].from THEN Go(h, Confirmed(h)) ELSE Go(h, Idle)
    /\ UNCHANGED <<caseStatus, approval, delegates>>

\* It then writes the status by id, whatever it has become.
Apply(h) ==
    /\ Deciding(h, "confirmed")
    /\ caseStatus' = req[h].outcome
    /\ Go(h, Idle)
    /\ UNCHANGED <<approval, delegates>>

\* delegateApproval: to anybody, decided or not; no state is looked at.
BeginDelegate(h, u, a, to) ==
    /\ Free(h) /\ approval[a].state # "ABSENT"
    /\ MayDecide(u, a)
    /\ Go(h, [step |-> "delegating", approval |-> a, to |-> to])
    /\ UNCHANGED <<caseStatus, approval, delegates>>

CommitDelegate(h) ==
    /\ Deciding(h, "delegating")
    /\ LET a == req[h].approval IN
       /\ approval' = [approval EXCEPT ![a].state = "DELEGATED",
                                       ![a].delegatedTo = req[h].to]
       /\ delegates' = [delegates EXCEPT ![a] = @ \cup {req[h].to}]
    /\ Go(h, Idle)
    /\ UNCHANGED caseStatus

\* The process dies, or the database refuses, between two statements.
Abandon(h) ==
    /\ ~Free(h)
    /\ Go(h, Gone)
    /\ UNCHANGED <<caseStatus, approval, delegates>>

Proceed(h) ==
    Record(h) \/ AskPending(h) \/ Confirm(h) \/ Apply(h) \/ CommitDelegate(h)

Next ==
    \/ Assign
    \/ \E to \in Destinations : Move(to)
    \/ \E h \in Handlers :
          \/ \E u \in Users, a \in Approvals :
                \/ \E outcome \in Outcomes : BeginDecide(h, u, a, outcome)
                \/ \E to \in Deputies : BeginDelegate(h, u, a, to)
          \/ Proceed(h) \/ Abandon(h)

Spec == Init /\ [][Next]_vars
-----------------------------------------------------------------------------
TypeOK ==
    /\ caseStatus \in CaseStatus
    /\ approval \in [Approvals -> ApprovalRow]
    /\ delegates \in [Approvals -> SUBSET Users]
    /\ req \in [Handlers -> Request]

\* R-06: whoever is recorded as having decided an approval had its level or
\* was its delegate, though the delegation may be changed meanwhile and the
\* decision is written long after the check.
DecidedWithAuthority ==
    \A a \in Approvals :
        LET u == approval[a].decidedBy IN
        u # Null => Authority[u] >= Level[a] \/ u \in delegates[a]

\* No level stays pending once a level has rejected, whichever tasks they are
\* on and however decisions overlap.
RejectionReachesAll ==
    (\E a \in Approvals : approval[a].state = "REJECTED")
    => \A b \in Approvals : approval[b].state # "PENDING"

\* Where people leave the outcome to the approvals, a case is approved or
\* rejected by a decision that somebody has signed.
OutcomeWasDecided ==
    caseStatus \in Outcomes \ Destinations
    => \E a \in Approvals : approval[a].decidedBy # Null

\* A decision that was recorded on a case found in review does not end with the
\* case in review, whatever other decisions, delegations and people did to the
\* case and to the approval since the record was committed.
DecisionTakesEffect ==
    [][ \A h \in Handlers :
          /\ \/ Deciding(h, "confirmed")
             \/ req[h].step \in {"recorded", "last"} /\ req[h].from = "IN_REVIEW"
          /\ req'[h] = Idle
          => caseStatus' # "IN_REVIEW" ]_vars

\* "Every approval level approved" (spec.txt:2578).
ApprovedByAll ==
    caseStatus = "APPROVED" /\ "APPROVED" \notin Destinations
    => \A a \in Approvals : approval[a].state = "APPROVED"
=============================================================================
