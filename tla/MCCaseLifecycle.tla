-------------------------- MODULE MCCaseLifecycle --------------------------
(***************************************************************************)
(* CaseLifecycle for TLC.  The organisation's calendar has one more hour   *)
(* off than the default one, so that the two give different deadlines.     *)
(***************************************************************************)
EXTENDS CaseLifecycle, TLC

CONSTANTS t1, t2, c2

MCSlaDueAt(start, hours, calendar) ==
    start + hours + (IF calendar = "organisation" THEN 1 ELSE 0)

\* A quick type and a slow one, and a single quick type for the larger run, whose
\* deadlines pass within its clock.
MCTwoTypes == {t1, t2}
MCTwoHours == [t \in MCTwoTypes |-> IF t = t1 THEN 0 ELSE 1]
MCOneType == {t2}
MCOneHours == [t \in MCOneType |-> 0]

\* Requests are interchangeable: symmetry is sound for the invariants.
MCSymmetry == Permutations(Handlers)

\* A second case is there to be submitted, in good form, while the first is
\* worked on.
MCSecondStarts ==
    /\ cases[c2].status \in {"ABSENT", "DRAFT"}
    /\ cases[c2].status = "DRAFT" => cases[c2].formValid
    /\ cases[c2].caseType = t2
    /\ \A h \in Handlers :
          req[h] # Idle /\ req[h].case = c2 => req[h].op = "transition" /\ req[h].to = "SUBMITTED"

\* The race run asks nothing of the history, the paused total, the number of
\* instances or the instant of a resolution, the form of a case matters only in
\* a draft, and a pending transition uses of the row it saw, and of the time
\* since, only what its target calls for: states that differ in the rest have
\* the same future.
MCRow(row) ==
    [row EXCEPT !.slaPausedMs = 0, !.instances = IF @ > 0 THEN 1 ELSE 0,
                !.resolvedAt = Null, !.formValid = @ \/ row.status # "DRAFT"]
MCUsed(r) ==
    CASE r.op = "transition" ->
           <<r.op, r.case, r.to, r.seen.status, r.instantiate,
             CASE r.to = "IN_PROGRESS" ->
                    <<r.seen.slaPausedAt, r.seen.slaDueAt, r.seen.closedAt, r.since>>
               [] r.to = "QUALIFIED" -> <<r.seen.submittedAt, r.seen.caseType, r.since>>
               [] r.to = "SUBMITTED" -> <<r.seen.caseType, r.since>>
               [] r.to \in PausedStatuses \cup {"CLOSED"} -> <<r.since>>
               [] OTHER -> <<>> >>
      [] r.op = "update" ->
           <<r.op, r.case, r.retyped,
             IF r.retyped THEN <<r.caseType, r.submittedAt, r.since>> ELSE <<>>,
             r.formValid \/ cases[r.case].status # "DRAFT">>
      [] r.op = "breach" -> <<r.op, r.case>>
      [] r.op = "apply" -> <<r.op, r.case, r.to>>
      [] OTHER -> r
MCView == <<now, [c \in Cases |-> MCRow(cases[c])], [h \in Handlers |-> MCUsed(req[h])]>>

\* A super-administrator holds every permission, the reserved one included.
MCGranted == {r.permission : r \in CaseTransitionRules}
=============================================================================
