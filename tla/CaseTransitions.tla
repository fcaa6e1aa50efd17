-------------------------- MODULE CaseTransitions --------------------------
(***************************************************************************)
(* The declarative transition map of a case                                *)
(* (apps/api/src/modules/cases/transitions.ts) and the pure checks that    *)
(* CasesService applies to a case row before it opens a transaction.       *)
(* No state: CaseLifecycle and the modules built on it EXTEND this one.    *)
(***************************************************************************)

CaseStatus ==
    {"DRAFT", "SUBMITTED", "QUALIFIED", "ASSIGNED", "IN_PROGRESS",
     "AWAITING_INFO", "ON_HOLD", "IN_REVIEW", "ESCALATED", "APPROVED",
     "REJECTED", "RESOLVED", "CLOSED", "ARCHIVED"}

\* What the source calls ANY_ACTIVE.
ActiveStatuses ==
    {"DRAFT", "SUBMITTED", "QUALIFIED", "ASSIGNED", "IN_PROGRESS",
     "AWAITING_INFO", "ON_HOLD", "IN_REVIEW", "ESCALATED", "APPROVED"}

\* One entry of the map.  The guardCondition and sideEffects strings of an
\* entry are descriptive and are not evaluated by the code.
Rule(fs, t, p, r) ==
    [from |-> fs, to |-> t, permission |-> p, reasonMandatory |-> r]

CaseTransitionRules ==
    { Rule({"DRAFT"}, "SUBMITTED", "case.create", FALSE),
      Rule({"SUBMITTED"}, "QUALIFIED", "case.update", FALSE),
      Rule({"SUBMITTED"}, "REJECTED", "case.transition", TRUE),
      Rule({"QUALIFIED"}, "ASSIGNED", "case.assign", FALSE),
      Rule({"ASSIGNED"}, "IN_PROGRESS", "case.transition", FALSE),
      Rule({"IN_PROGRESS"}, "AWAITING_INFO", "case.transition", FALSE),
      Rule({"AWAITING_INFO"}, "IN_PROGRESS", "case.transition", FALSE),
      Rule({"IN_PROGRESS"}, "ON_HOLD", "case.transition", TRUE),
      Rule({"ON_HOLD"}, "IN_PROGRESS", "case.transition", FALSE),
      Rule({"IN_PROGRESS"}, "IN_REVIEW", "case.transition", FALSE),
      Rule({"IN_REVIEW"}, "APPROVED", "approval.decide", FALSE),
      Rule({"IN_REVIEW"}, "REJECTED", "approval.decide", TRUE),
      Rule(ActiveStatuses, "ESCALATED", "case.transition", FALSE),
      Rule({"ESCALATED"}, "IN_PROGRESS", "case.transition", FALSE),
      Rule({"APPROVED"}, "RESOLVED", "case.transition", FALSE),
      Rule({"RESOLVED"}, "CLOSED", "case.close", FALSE),
      Rule({"CLOSED"}, "IN_PROGRESS", "case.reopen", TRUE),
      Rule({"CLOSED"}, "ARCHIVED", "system", FALSE) }

\* getTransition: the entry that joins two statuses, if there is one.  At
\* most one entry joins a given pair, so `find` needs no order here.
RulesFor(f, t) == { r \in CaseTransitionRules : f \in r.from /\ r.to = t }

IsTransition(f, t) == RulesFor(f, t) # {}

\* Statuses that need a reason whatever rule leads to them
\* (REASONS_REQUIRED in cases.service.ts).
ReasonsRequired == {"ON_HOLD", "REJECTED", "ESCALATED", "AWAITING_INFO"}

\* Wrong variant: the status the case is in is not compared with the rule's.
MayTransitionAnywhere(f, t, reason, granted) ==
    \E r \in CaseTransitionRules :
        /\ r.to = t /\ r.permission \in granted
        /\ r.reasonMandatory \/ t \in ReasonsRequired => reason

\* A request to move a case from f to t, by callers that hold the permissions
\* `granted` between them, passes the checks on the map: there is a rule, the
\* caller holds its permission, and a mandatory reason is present.
MayTransition(f, t, reason, granted) ==
    \E r \in RulesFor(f, t) :
        /\ r.permission \in granted
        /\ r.reasonMandatory \/ t \in ReasonsRequired => reason

\* Wrong variant: only an archived case is protected.
NotArchived(status) == status # "ARCHIVED"

\* checkNotClosedForMutation: a closed or archived case is written only by a
\* reopening.
NotClosed(status) == status \notin {"CLOSED", "ARCHIVED"}

IsReopen(f, t) == f = "CLOSED" /\ t = "IN_PROGRESS"

\* Wrong variant: waiting for information does not pause.
OnlyHoldPauses == {"ON_HOLD"}

\* The two statuses in which the SLA clock stands still.
PausedStatuses == {"ON_HOLD", "AWAITING_INFO"}
=============================================================================
