------------------------ MODULE ApprovalChainProofs ------------------------
(***************************************************************************)
(* Proofs about ApprovalChain, for any template, users, levels and number  *)
(* of overlapping requests.  A decision is written long after its checks:  *)
(* what makes the invariants inductive is what a request in progress       *)
(* keeps of them, and that nobody is ever forgotten as a delegate.         *)
(***************************************************************************)
EXTENDS ApprovalChain, TLAPS

Entitled(u, a) == Authority[u] >= Level[a] \/ u \in delegates[a]

\* Who is about to decide had the right to when the request looked.
AskedWithAuthority ==
    \A h \in Handlers :
        Deciding(h, "deciding") => Entitled(req[h].user, req[h].approval)

\* The delegate on the row is one of those it was ever delegated to.
DelegateNamed ==
    \A a \in Approvals :
        approval[a].delegatedTo # Null => approval[a].delegatedTo \in delegates[a]

\* Nothing is in progress before the template is instantiated, which happens
\* once: the case does not come back to where it started.
Untouched ==
    /\ caseStatus \notin {"DRAFT", "SUBMITTED"}
    /\ caseStatus = "QUALIFIED" =>
          /\ \A a \in Approvals : approval[a].state = "ABSENT"
          /\ \A h \in Handlers : req[h] = Idle

\* A request that is past the recording of its decision leaves a signature.
Signed ==
    (\E h \in Handlers : req[h].step \in {"recorded", "last", "confirmed"})
    => \E a \in Approvals : approval[a].decidedBy # Null

IInv ==
    /\ TypeOK /\ DecidedWithAuthority /\ RejectionReachesAll /\ OutcomeWasDecided
    /\ AskedWithAuthority /\ DelegateNamed /\ Untouched /\ Signed
-----------------------------------------------------------------------------
\* The map has no way back to the beginning.
LEMMA NoWayBack ==
    ASSUME NEW s, NEW t, IsTransition(s, t)
    PROVE  /\ t # "DRAFT"
           /\ t = "SUBMITTED" => s = "DRAFT"
           /\ t = "QUALIFIED" => s = "SUBMITTED"
BY DEF IsTransition, RulesFor, CaseTransitionRules, Rule, ActiveStatuses

LEMMA InitIInv == Init => IInv
<1> SUFFICES ASSUME Init PROVE IInv
  OBVIOUS
<1>1. TypeOK
  BY DEF Init, TypeOK, CaseStatus, NewApproval, ApprovalRow, Request
<1>2. \A a \in Approvals :
         /\ approval[a].state = "ABSENT" /\ approval[a].decidedBy = Null
         /\ approval[a].delegatedTo = Null
  BY DEF Init, NewApproval
<1>3. \A h \in Handlers : req[h] = Idle /\ req[h].step = "idle"
  BY DEF Init, Idle
<1>4. caseStatus = "QUALIFIED"
  BY DEF Init
<1> QED BY <1>1, <1>2, <1>3, <1>4
        DEF IInv, DecidedWithAuthority, RejectionReachesAll, OutcomeWasDecided, Outcomes,
            AskedWithAuthority, Deciding, DelegateNamed, Untouched, Signed
-----------------------------------------------------------------------------
LEMMA AssignStep ==
    ASSUME IInv, Assign
    PROVE  IInv'
<1> USE DEF IInv
<1>1. /\ caseStatus' = "ASSIGNED" /\ UNCHANGED <<delegates, req>>
      /\ approval' = [a \in Approvals |-> NewApproval("PENDING")]
      /\ \A h \in Handlers : req[h] = Idle
  BY DEF Assign, Untouched
<1>2. \A a \in Approvals :
         /\ approval'[a].state = "PENDING" /\ approval'[a].decidedBy = Null
         /\ approval'[a].delegatedTo = Null
  BY <1>1 DEF NewApproval
<1>3. NewApproval("PENDING") \in ApprovalRow
  BY DEF NewApproval, ApprovalRow
<1>4. TypeOK'
  BY <1>1, <1>3 DEF TypeOK, CaseStatus
<1>5. \A h \in Handlers : req'[h].step = "idle"
  BY <1>1 DEF Idle
<1> QED BY <1>1, <1>2, <1>4, <1>5
        DEF DecidedWithAuthority, RejectionReachesAll, OutcomeWasDecided, Outcomes,
            AskedWithAuthority, Deciding, DelegateNamed, Untouched, Signed

LEMMA MoveStep ==
    ASSUME IInv, NEW to \in Destinations, Move(to)
    PROVE  IInv'
<1> USE DEF IInv
<1>1. caseStatus' = to /\ IsTransition(caseStatus, to) /\ UNCHANGED <<approval, delegates, req>>
  BY DEF Move
<1>2. TypeOK'
  BY <1>1, ChainAssumption DEF TypeOK
<1>3. Untouched'
  BY <1>1, NoWayBack DEF Untouched
<1>4. OutcomeWasDecided'
  BY <1>1 DEF OutcomeWasDecided
<1> QED BY <1>1, <1>2, <1>3, <1>4
        DEF DecidedWithAuthority, RejectionReachesAll, AskedWithAuthority, Deciding,
            Entitled, DelegateNamed, Signed

\* A request that goes on without touching the case or its approvals.
LEMMA GoStep ==
    ASSUME IInv, NEW h \in Handlers, NEW r \in Request, Go(h, r),
           UNCHANGED <<caseStatus, approval, delegates>>,
           caseStatus # "QUALIFIED",
           r.step = "deciding" => Entitled(r.user, r.approval),
           r.step \in {"recorded", "last", "confirmed"}
               => req[h].step \in {"recorded", "last", "confirmed"}
    PROVE  IInv'
<1> USE DEF IInv
<1>1. req'[h] = r /\ \A g \in Handlers \ {h} : req'[g] = req[g]
  BY DEF Go, TypeOK
<1>2. TypeOK'
  BY DEF Go, TypeOK
<1>3. AskedWithAuthority'
  BY <1>1 DEF AskedWithAuthority, Deciding, Entitled
<1>4. Signed'
  BY <1>1 DEF Signed
<1> QED BY <1>2, <1>3, <1>4
        DEF DecidedWithAuthority, RejectionReachesAll, OutcomeWasDecided,
            DelegateNamed, Untouched

LEMMA BusyOutside ==
    ASSUME IInv, NEW h \in Handlers, req[h] # Idle
    PROVE  caseStatus # "QUALIFIED"
BY DEF IInv, Untouched

LEMMA PresentOutside ==
    ASSUME IInv, NEW a \in Approvals, approval[a].state # "ABSENT"
    PROVE  caseStatus # "QUALIFIED"
BY DEF IInv, Untouched

LEMMA MayDecideEntitles ==
    ASSUME IInv, NEW u \in Users, NEW a \in Approvals, MayDecide(u, a)
    PROVE  Entitled(u, a)
BY ChainAssumption DEF IInv, MayDecide, Entitled, DelegateNamed

\* What a request is when it is at a step.
LEMMA RequestAt ==
    ASSUME TypeOK, NEW h \in Handlers
    PROVE  /\ Deciding(h, "deciding") =>
                 /\ req[h].approval \in Approvals /\ req[h].user \in Users
                 /\ req[h].outcome \in Outcomes /\ req[h].from \in CaseStatus
           /\ Deciding(h, "recorded") =>
                 /\ req[h].approval \in Approvals
                 /\ req[h].outcome \in Outcomes /\ req[h].from \in CaseStatus
           /\ Deciding(h, "last") =>
                 req[h].outcome \in Outcomes /\ req[h].from \in CaseStatus
           /\ Deciding(h, "confirmed") => req[h].outcome \in Outcomes
           /\ Deciding(h, "delegating") => req[h].approval \in Approvals /\ req[h].to \in Users
<1>1. req[h] \in Request
  BY DEF TypeOK
<1> QED BY <1>1 DEF Request, Idle, Gone, Deciding

LEMMA BeginStep ==
    ASSUME IInv, NEW h \in Handlers, NEW u \in Users, NEW a \in Approvals,
           \/ \E outcome \in Outcomes : BeginDecide(h, u, a, outcome)
           \/ \E to \in Deputies : BeginDelegate(h, u, a, to)
    PROVE  IInv'
<1>1. /\ approval[a].state # "ABSENT" /\ MayDecide(u, a)
      /\ UNCHANGED <<caseStatus, approval, delegates>>
  BY DEF BeginDecide, BeginDelegate
<1>2. caseStatus # "QUALIFIED" /\ Entitled(u, a)
  BY <1>1, PresentOutside, MayDecideEntitles
<1>3. CASE \E outcome \in Outcomes : BeginDecide(h, u, a, outcome)
  <2>1. PICK outcome \in Outcomes : BeginDecide(h, u, a, outcome)
    BY <1>3
  <2> DEFINE r == [step |-> "deciding", approval |-> a, user |-> u, outcome |-> outcome,
                   from |-> caseStatus]
  <2>2. r \in Request /\ r.step = "deciding" /\ r.user = u /\ r.approval = a
    BY DEF Request, IInv, TypeOK
  <2>3. Go(h, r)
    BY <2>1 DEF BeginDecide
  <2> HIDE DEF r
  <2> QED BY <1>1, <1>2, <2>2, <2>3, GoStep
<1>4. CASE \E to \in Deputies : BeginDelegate(h, u, a, to)
  <2>1. PICK to \in Deputies : BeginDelegate(h, u, a, to)
    BY <1>4
  <2> DEFINE r == [step |-> "delegating", approval |-> a, to |-> to]
  <2>2. r \in Request /\ r.step = "delegating"
    BY ChainAssumption DEF Request
  <2>3. Go(h, r)
    BY <2>1 DEF BeginDelegate
  <2> HIDE DEF r
  <2> QED BY <1>1, <1>2, <2>2, <2>3, GoStep
<1> QED BY <1>3, <1>4

-----------------------------------------------------------------------------
\* A decision is written: the request looked before, so the one who signs is
\* entitled, and a rejection leaves nothing pending.
LEMMA RecordStep ==
    ASSUME IInv, NEW h \in Handlers, Record(h)
    PROVE  IInv'
<1> DEFINE a == req[h].approval
<1>1. /\ Deciding(h, "deciding") /\ UNCHANGED <<caseStatus, delegates>> /\ TypeOK
      /\ Go(h, Recorded(h))
  BY DEF Record, IInv
<1>2. /\ a \in Approvals /\ req[h].user \in Users
      /\ req[h].outcome \in Outcomes /\ req[h].from \in CaseStatus
  BY <1>1, RequestAt
<1>3. approval' = [b \in Approvals |->
                     IF b = a THEN [approval[a] EXCEPT !.state = req[h].outcome,
                                                       !.decidedBy = req[h].user]
                     ELSE IF req[h].outcome = "REJECTED" THEN Cancelled(a, b)
                     ELSE approval[b]]
  BY DEF Record
<1>4. \A b \in Approvals : approval[b] \in ApprovalRow
  BY <1>1 DEF TypeOK
<1>5. approval'[a] \in ApprovalRow /\ approval'[a].state = req[h].outcome
      /\ approval'[a].decidedBy = req[h].user
      /\ approval'[a].delegatedTo = approval[a].delegatedTo
  BY <1>2, <1>3, <1>4 DEF ApprovalRow, Outcomes
<1>6. ASSUME NEW b \in Approvals, b # a
      PROVE  /\ approval'[b] \in ApprovalRow
             /\ approval'[b].decidedBy = approval[b].decidedBy
             /\ approval'[b].delegatedTo = approval[b].delegatedTo
             /\ \/ approval'[b].state = approval[b].state
                \/ (approval[b].state = "PENDING" /\ approval'[b].state = "REJECTED")
             /\ req[h].outcome = "REJECTED" => approval'[b].state # "PENDING"
             /\ req[h].outcome # "REJECTED" => approval'[b] = approval[b]
  <2>1. approval'[b] = IF req[h].outcome = "REJECTED" THEN Cancelled(a, b) ELSE approval[b]
    BY <1>3, <1>6
  <2>2. Cancelled(a, b) = IF approval[b].state = "PENDING"
                          THEN [approval[b] EXCEPT !.state = "REJECTED"] ELSE approval[b]
    BY <1>6 DEF Cancelled
  <2> HIDE DEF a
  <2>3. approval[b] \in ApprovalRow
    BY <1>4
  <2>4. CASE approval'[b] = approval[b] /\ (req[h].outcome = "REJECTED" => approval[b].state # "PENDING")
    BY <2>3, <2>4
  <2>5. CASE /\ req[h].outcome = "REJECTED" /\ approval[b].state = "PENDING"
             /\ approval'[b] = [approval[b] EXCEPT !.state = "REJECTED"]
    BY <2>3, <2>5 DEF ApprovalRow
  <2> QED BY <2>1, <2>2, <2>4, <2>5
<1> HIDE DEF a
<1>7. Recorded(h) \in Request /\ Recorded(h).step = "recorded"
  BY <1>2 DEF Recorded, Request, a
<1>8. req' = [req EXCEPT ![h] = Recorded(h)]
  BY <1>1 DEF Go
<1>9. req'[h].step = "recorded" /\ \A g \in Handlers \ {h} : req'[g] = req[g]
  BY <1>1, <1>7, <1>8 DEF TypeOK
<1>10. TypeOK'
  <2>1. approval' \in [Approvals -> ApprovalRow]
    BY <1>3, <1>5, <1>6
  <2>2. req' \in [Handlers -> Request]
    BY <1>1, <1>7, <1>8 DEF TypeOK
  <2> QED BY <1>1, <2>1, <2>2 DEF TypeOK
<1>11. DecidedWithAuthority'
  <2>1. Entitled(req[h].user, a)
    BY <1>1 DEF IInv, AskedWithAuthority, a
  <2> QED BY <1>1, <1>5, <1>6, <2>1 DEF IInv, DecidedWithAuthority, Entitled
<1>12. RejectionReachesAll'
  BY <1>2, <1>5, <1>6 DEF IInv, RejectionReachesAll, Outcomes
<1>13. approval'[a].decidedBy # Null
  BY <1>2, <1>5, ChainAssumption
<1>14. OutcomeWasDecided' /\ Signed'
  BY <1>2, <1>13 DEF OutcomeWasDecided, Signed
<1>15. AskedWithAuthority'
  BY <1>1, <1>9 DEF IInv, AskedWithAuthority, Deciding, Entitled
<1>16. DelegateNamed'
  BY <1>1, <1>2, <1>5, <1>6 DEF IInv, DelegateNamed
<1>17. Untouched'
  BY <1>1, <1>9, BusyOutside DEF IInv, Untouched, Deciding, Idle
<1> QED BY <1>10, <1>11, <1>12, <1>14, <1>15, <1>16, <1>17 DEF IInv

LEMMA AskStep ==
    ASSUME IInv, NEW h \in Handlers, AskPending(h) \/ Confirm(h) \/ Abandon(h)
    PROVE  IInv'
<1>1. UNCHANGED <<caseStatus, approval, delegates>> /\ TypeOK
  BY DEF AskPending, Confirm, Abandon, IInv
<1>2. req[h] # Idle
  BY DEF AskPending, Confirm, Abandon, Free, Deciding, Idle
<1>3. caseStatus # "QUALIFIED"
  BY <1>2, BusyOutside
<1>4. Idle \in Request /\ Gone \in Request /\ Idle.step = "idle" /\ Gone.step = "gone"
  BY DEF Request, Idle, Gone
<1>5. CASE AskPending(h)
  <2>1. Deciding(h, "recorded") /\ (Go(h, Idle) \/ Go(h, Last(h)))
    BY <1>5 DEF AskPending
  <2>2. Last(h) \in Request /\ Last(h).step = "last"
    BY <1>1, <2>1, RequestAt DEF Last, Request
  <2>3. req[h].step = "recorded"
    BY <2>1 DEF Deciding
  <2> QED BY <1>1, <1>3, <1>4, <2>1, <2>2, <2>3, GoStep
<1>6. CASE Confirm(h)
  <2>1. Deciding(h, "last") /\ (Go(h, Idle) \/ Go(h, Confirmed(h)))
    BY <1>6 DEF Confirm
  <2>2. Confirmed(h) \in Request /\ Confirmed(h).step = "confirmed"
    BY <1>1, <2>1, RequestAt DEF Confirmed, Request
  <2>3. req[h].step = "last"
    BY <2>1 DEF Deciding
  <2> QED BY <1>1, <1>3, <1>4, <2>1, <2>2, <2>3, GoStep
<1>7. CASE Abandon(h)
  BY <1>1, <1>3, <1>4, <1>7, GoStep DEF Abandon
<1> QED BY <1>5, <1>6, <1>7

LEMMA ApplyStep ==
    ASSUME IInv, NEW h \in Handlers, Apply(h)
    PROVE  IInv'
<1>1. /\ Deciding(h, "confirmed") /\ Go(h, Idle) /\ caseStatus' = req[h].outcome
      /\ UNCHANGED <<approval, delegates>> /\ TypeOK
  BY DEF Apply, IInv
<1>2. req[h].outcome \in Outcomes
  BY <1>1, RequestAt
<1>3. /\ \A g \in Handlers : req'[g] = Idle \/ req'[g] = req[g]
      /\ Idle.step = "idle"
  BY <1>1 DEF Go, Idle, TypeOK
<1>4. TypeOK'
  BY <1>1, <1>2 DEF Go, TypeOK, Request, Outcomes, CaseStatus
<1>5. AskedWithAuthority' /\ Signed'
  BY <1>1, <1>3 DEF IInv, AskedWithAuthority, Signed, Deciding, Entitled
<1>6. OutcomeWasDecided'
  BY <1>1 DEF IInv, Signed, OutcomeWasDecided, Deciding
<1>7. Untouched'
  BY <1>1, <1>2 DEF Untouched, Outcomes
<1> QED BY <1>1, <1>4, <1>5, <1>6, <1>7
        DEF IInv, DecidedWithAuthority, RejectionReachesAll, DelegateNamed

LEMMA CommitDelegateStep ==
    ASSUME IInv, NEW h \in Handlers, CommitDelegate(h)
    PROVE  IInv'
<1> DEFINE a == req[h].approval
           to == req[h].to
<1>1. /\ Deciding(h, "delegating") /\ Go(h, Idle) /\ UNCHANGED caseStatus /\ TypeOK
      /\ approval' = [approval EXCEPT ![a].state = "DELEGATED", ![a].delegatedTo = to]
      /\ delegates' = [delegates EXCEPT ![a] = @ \cup {to}]
  BY DEF CommitDelegate, IInv
<1>2. a \in Approvals /\ to \in Users
  BY <1>1, RequestAt
<1> HIDE DEF a, to
<1>3. approval[a] \in ApprovalRow
  BY <1>1, <1>2 DEF TypeOK
<1>4. /\ approval'[a] \in ApprovalRow /\ approval'[a].state = "DELEGATED"
      /\ approval'[a].delegatedTo = to /\ approval'[a].decidedBy = approval[a].decidedBy
      /\ \A b \in Approvals \ {a} : approval'[b] = approval[b]
  BY <1>1, <1>2, <1>3 DEF TypeOK, ApprovalRow
<1>5. /\ delegates'[a] = delegates[a] \cup {to}
      /\ \A b \in Approvals \ {a} : delegates'[b] = delegates[b]
  BY <1>1, <1>2 DEF TypeOK
<1>6. /\ \A g \in Handlers : req'[g] = Idle \/ req'[g] = req[g]
      /\ Idle.step = "idle"
  BY <1>1 DEF Go, Idle, TypeOK
<1>7. TypeOK'
  <2>1. approval' \in [Approvals -> ApprovalRow]
    BY <1>1, <1>4 DEF TypeOK
  <2>2. delegates' \in [Approvals -> SUBSET Users]
    BY <1>1, <1>2, <1>5 DEF TypeOK
  <2>3. req' \in [Handlers -> Request]
    BY <1>1 DEF Go, TypeOK, Request
  <2> QED BY <1>1, <2>1, <2>2, <2>3 DEF TypeOK
<1>8. DecidedWithAuthority'
  BY <1>1, <1>4, <1>5 DEF IInv, DecidedWithAuthority
<1>9. RejectionReachesAll'
  BY <1>1, <1>4 DEF IInv, RejectionReachesAll
<1>10. OutcomeWasDecided'
  BY <1>1, <1>4 DEF IInv, OutcomeWasDecided
<1>11. AskedWithAuthority'
  <2> SUFFICES ASSUME NEW g \in Handlers, Deciding(g, "deciding")'
               PROVE  Entitled(req[g].user, req[g].approval)' 
    BY DEF AskedWithAuthority
  <2>1. req'[g] = req[g] /\ Deciding(g, "deciding")
    BY <1>6 DEF Deciding
  <2>2. Entitled(req[g].user, req[g].approval) /\ req[g].approval \in Approvals
    BY <1>1, <2>1, RequestAt DEF IInv, AskedWithAuthority
  <2> QED BY <1>5, <2>1, <2>2 DEF Entitled
<1>12. DelegateNamed'
  BY <1>1, <1>4, <1>5 DEF IInv, DelegateNamed
<1>13. Signed'
  BY <1>4, <1>6 DEF IInv, Signed
<1>14. Untouched'
  BY <1>1, BusyOutside DEF IInv, Untouched, Deciding, Idle
<1> QED BY <1>7, <1>8, <1>9, <1>10, <1>11, <1>12, <1>13, <1>14 DEF IInv

LEMMA NextIInv == IInv /\ [Next]_vars => IInv'
<1> SUFFICES ASSUME IInv, [Next]_vars PROVE IInv'
  OBVIOUS
<1>1. CASE Assign
  BY <1>1, AssignStep
<1>2. CASE \E to \in Destinations : Move(to)
  BY <1>2, MoveStep
<1>3. ASSUME NEW h \in Handlers, Proceed(h) \/ Abandon(h)
      PROVE  IInv'
  BY <1>3, RecordStep, AskStep, ApplyStep, CommitDelegateStep DEF Proceed
<1>4. ASSUME NEW h \in Handlers, NEW u \in Users, NEW a \in Approvals,
             \/ \E outcome \in Outcomes : BeginDecide(h, u, a, outcome)
             \/ \E to \in Deputies : BeginDelegate(h, u, a, to)
      PROVE  IInv'
  BY <1>4, BeginStep
<1>5. CASE UNCHANGED vars
  BY <1>5 DEF vars, IInv, TypeOK, DecidedWithAuthority, RejectionReachesAll,
              OutcomeWasDecided, AskedWithAuthority, Deciding, Entitled, DelegateNamed,
              Untouched, Signed
<1> QED BY <1>1, <1>2, <1>3, <1>4, <1>5 DEF Next

LEMMA InductiveInvariant == Spec => []IInv
BY InitIInv, NextIInv, PTL DEF Spec
-----------------------------------------------------------------------------
\* The case, its approvals and the requests on them stay what the schema and
\* the code allow.
THEOREM ChainTypeOK == Spec => []TypeOK
<1>1. IInv => TypeOK
  BY DEF IInv
<1> QED BY <1>1, InductiveInvariant, PTL

\* R-06 for any levels and users: whoever signed a decision had the level or
\* was named as the delegate, however delegations and decisions overlap.
THEOREM DecisionsHaveAuthority == Spec => []DecidedWithAuthority
<1>1. IInv => DecidedWithAuthority
  BY DEF IInv
<1> QED BY <1>1, InductiveInvariant, PTL

\* A rejection leaves no level of the case pending, on whichever task it is.
THEOREM RejectionsReachAll == Spec => []RejectionReachesAll
<1>1. IInv => RejectionReachesAll
  BY DEF IInv
<1> QED BY <1>1, InductiveInvariant, PTL

\* No case is approved or rejected by the approvals without a signed decision.
THEOREM OutcomesAreDecided == Spec => []OutcomeWasDecided
<1>1. IInv => OutcomeWasDecided
  BY DEF IInv
<1> QED BY <1>1, InductiveInvariant, PTL

\* No approval becomes pending again: the one a request has recorded its
\* decision on has not, though others may have cancelled or delegated it since.
RecordedStays ==
    \A h \in Handlers :
        Deciding(h, "recorded") => approval[req[h].approval].state # "PENDING"

LEMMA InitRecordedStays == Init => RecordedStays
BY DEF Init, RecordedStays, Deciding, Idle

LEMMA NextRecordedStays == IInv /\ RecordedStays /\ [Next]_vars => RecordedStays'
<1> SUFFICES ASSUME IInv, RecordedStays, [Next]_vars PROVE RecordedStays'
  OBVIOUS
<1>1. TypeOK
  BY DEF IInv
<1>2. CASE Assign
  <2>1. \A h \in Handlers : req'[h] = Idle
    BY <1>2 DEF Assign, IInv, Untouched
  <2> QED BY <2>1 DEF RecordedStays, Deciding, Idle
<1>3. CASE \E to \in Destinations : Move(to)
  BY <1>3 DEF Move, RecordedStays, Deciding
<1>4. ASSUME NEW h \in Handlers, NEW r \in Request, Go(h, r), UNCHANGED approval,
             r.step # "recorded"
      PROVE  RecordedStays'
  <2>1. req'[h] = r /\ \A g \in Handlers \ {h} : req'[g] = req[g]
    BY <1>1, <1>4 DEF Go, TypeOK
  <2> QED BY <2>1, <1>4 DEF RecordedStays, Deciding
<1>5. ASSUME NEW h \in Handlers, NEW r \in Request, Go(h, r),
             r.step = "recorded" => r.approval \in Approvals /\ approval'[r.approval].state # "PENDING",
             \A b \in Approvals : approval'[b].state = "PENDING" => approval[b].state = "PENDING"
      PROVE  RecordedStays'
  <2>1. req'[h] = r /\ \A g \in Handlers \ {h} : req'[g] = req[g]
    BY <1>1, <1>5 DEF Go, TypeOK
  <2>2. \A g \in Handlers : Deciding(g, "recorded") => req[g].approval \in Approvals
    BY <1>1, RequestAt
  <2> QED BY <2>1, <2>2, <1>5 DEF RecordedStays, Deciding
<1>6. ASSUME NEW h \in Handlers, Record(h)
      PROVE  RecordedStays'
  <2>1. /\ req[h].approval \in Approvals /\ req[h].outcome \in Outcomes
        /\ req[h].from \in CaseStatus /\ Go(h, Recorded(h))
    BY <1>1, <1>6, RequestAt DEF Record
  <2>2. Recorded(h) \in Request /\ Recorded(h).approval = req[h].approval
    BY <2>1 DEF Recorded, Request
  <2>3. \A b \in Approvals : approval[b] \in ApprovalRow
    BY <1>1 DEF TypeOK
  <2>4. approval'[req[h].approval].state # "PENDING"
    BY <1>6, <2>1, <2>3 DEF Record, ApprovalRow, Outcomes
  <2>5. ASSUME NEW b \in Approvals, approval'[b].state = "PENDING"
        PROVE  approval[b].state = "PENDING"
    <3>1. b # req[h].approval
      BY <2>4, <2>5
    <3>2. approval'[b] = approval[b] \/ approval'[b] = Cancelled(req[h].approval, b)
      BY <1>6, <3>1 DEF Record
    <3>3. Cancelled(req[h].approval, b) = approval[b] \/ approval[b].state = "PENDING"
      BY <3>1 DEF Cancelled
    <3> QED BY <2>5, <3>2, <3>3
  <2> QED BY <1>5, <2>1, <2>2, <2>4, <2>5
<1>7. ASSUME NEW h \in Handlers, CommitDelegate(h)
      PROVE  RecordedStays'
  <2>1. req[h].approval \in Approvals /\ Go(h, Idle) /\ Idle \in Request /\ Idle.step = "idle"
    BY <1>1, <1>7, RequestAt DEF CommitDelegate, Request, Idle
  <2>2. \A b \in Approvals : approval[b] \in ApprovalRow
    BY <1>1 DEF TypeOK
  <2>3. approval'[req[h].approval].state = "DELEGATED"
    BY <1>1, <1>7, <2>1, <2>2 DEF CommitDelegate, ApprovalRow, TypeOK
  <2>4. \A b \in Approvals \ {req[h].approval} : approval'[b] = approval[b]
    BY <1>1, <1>7, <2>1 DEF CommitDelegate, TypeOK
  <2> QED BY <1>5, <2>1, <2>3, <2>4
<1>8. ASSUME NEW h \in Handlers, Proceed(h) \/ Abandon(h)
      PROVE  RecordedStays'
  <2>1. /\ Idle \in Request /\ Gone \in Request /\ Idle.step # "recorded" /\ Gone.step # "recorded"
    BY DEF Request, Idle, Gone
  <2>2. CASE AskPending(h) \/ Confirm(h)
    <3>1. \/ Go(h, Idle)
          \/ Deciding(h, "recorded") /\ Go(h, Last(h))
          \/ Deciding(h, "last") /\ Go(h, Confirmed(h))
      BY <2>2 DEF AskPending, Confirm
    <3>2. Deciding(h, "recorded") => Last(h) \in Request /\ Last(h).step # "recorded"
      BY <1>1, RequestAt DEF Last, Request
    <3>3. Deciding(h, "last") => Confirmed(h) \in Request /\ Confirmed(h).step # "recorded"
      BY <1>1, RequestAt DEF Confirmed, Request
    <3>4. UNCHANGED approval
      BY <2>2 DEF AskPending, Confirm
    <3> QED BY <1>4, <2>1, <3>1, <3>2, <3>3, <3>4
  <2>3. CASE Apply(h) \/ Abandon(h)
    BY <1>4, <2>1, <2>3 DEF Apply, Abandon
  <2> QED BY <1>6, <1>7, <1>8, <2>2, <2>3 DEF Proceed
<1>9. ASSUME NEW h \in Handlers, NEW u \in Users, NEW a \in Approvals,
             \/ \E outcome \in Outcomes : BeginDecide(h, u, a, outcome)
             \/ \E to \in Deputies : BeginDelegate(h, u, a, to)
      PROVE  RecordedStays'
  <2>1. CASE \E outcome \in Outcomes : BeginDecide(h, u, a, outcome)
    <3>1. PICK outcome \in Outcomes : BeginDecide(h, u, a, outcome)
      BY <2>1
    <3> DEFINE r == [step |-> "deciding", approval |-> a, user |-> u, outcome |-> outcome,
                     from |-> caseStatus]
    <3>2. r \in Request /\ r.step # "recorded"
      BY <1>1 DEF Request, TypeOK
    <3>3. Go(h, r) /\ UNCHANGED approval
      BY <3>1 DEF BeginDecide
    <3> HIDE DEF r
    <3> QED BY <1>4, <3>2, <3>3
  <2>2. CASE \E to \in Deputies : BeginDelegate(h, u, a, to)
    <3>1. PICK to \in Deputies : BeginDelegate(h, u, a, to)
      BY <2>2
    <3> DEFINE r == [step |-> "delegating", approval |-> a, to |-> to]
    <3>2. r \in Request /\ r.step # "recorded"
      BY ChainAssumption DEF Request
    <3>3. Go(h, r) /\ UNCHANGED approval
      BY <3>1 DEF BeginDelegate
    <3> HIDE DEF r
    <3> QED BY <1>4, <3>2, <3>3
  <2> QED BY <1>9, <2>1, <2>2
<1>10. CASE UNCHANGED vars
  BY <1>10 DEF vars, RecordedStays, Deciding
<1> QED BY <1>2, <1>3, <1>8, <1>9, <1>10 DEF Next

\* The step that ends a request that has recorded a decision: it found nothing
\* else pending and the case elsewhere, or it wrote the outcome.
LEMMA EndingsTakeEffect ==
    ASSUME IInv, RecordedStays, [Next]_vars, NEW h \in Handlers,
           \/ Deciding(h, "confirmed")
           \/ req[h].step \in {"recorded", "last"} /\ req[h].from = "IN_REVIEW",
           req'[h] = Idle, UNCHANGED vars => FALSE
    PROVE  caseStatus' # "IN_REVIEW"
<1>1. TypeOK /\ req[h].step \in {"recorded", "last", "confirmed"}
  BY DEF IInv, Deciding
<1>2. req[h] # Idle /\ ~Free(h)
  BY <1>1 DEF Idle, Gone, Free
<1>3. CASE Assign \/ \E to \in Destinations : Move(to)
  BY <1>2, <1>3 DEF Assign, Move
<1>5. ASSUME NEW g \in Handlers, Proceed(g) \/ Abandon(g), g # h
      PROVE  FALSE
  <2>1. req'[h] = req[h]
    BY <1>1, <1>5 DEF Proceed, Abandon, Record, AskPending, Confirm, Apply, CommitDelegate, Go, TypeOK
  <2> QED BY <1>2, <2>1
<1>6. ASSUME NEW g \in Handlers, NEW u \in Users, NEW a \in Approvals,
             \/ \E outcome \in Outcomes : BeginDecide(g, u, a, outcome)
             \/ \E to \in Deputies : BeginDelegate(g, u, a, to)
      PROVE  FALSE
  <2>1. Free(g) /\ \E r : Go(g, r)
    BY <1>6 DEF BeginDecide, BeginDelegate
  <2>2. g # h
    BY <1>2, <2>1
  <2>3. req'[h] = req[h]
    BY <1>1, <2>1, <2>2 DEF Go, TypeOK
  <2> QED BY <1>2, <2>3
<1>7. CASE Proceed(h) \/ Abandon(h)
  <2>1. CASE Record(h) \/ CommitDelegate(h)
    BY <1>1, <2>1 DEF Record, CommitDelegate, Deciding
  <2>2. CASE AskPending(h)
    <3>1. Deciding(h, "recorded") /\ req[h].approval \in Approvals
      BY <1>1, <2>2, RequestAt DEF AskPending
    <3>2. approval[req[h].approval].state # "PENDING"
      BY <3>1 DEF RecordedStays
    <3>3. Go(h, Last(h))
      BY <2>2, <3>2 DEF AskPending, OfSameTask
    <3>4. req'[h].step = "last"
      BY <1>1, <3>3 DEF Go, TypeOK, Last
    <3> QED BY <3>4 DEF Idle
  <2>3. CASE Confirm(h)
    <3>1. Deciding(h, "last") /\ req[h].from = "IN_REVIEW" /\ UNCHANGED caseStatus
      BY <2>3 DEF Confirm, Deciding
    <3>2. CASE caseStatus = req[h].from
      <4>1. Go(h, Confirmed(h))
        BY <2>3, <3>2 DEF Confirm
      <4>2. req'[h].step = "confirmed"
        BY <1>1, <4>1 DEF Go, TypeOK, Confirmed
      <4> QED BY <4>2 DEF Idle
    <3> QED BY <3>1, <3>2
  <2>4. CASE Apply(h)
    <3>1. Deciding(h, "confirmed") /\ caseStatus' = req[h].outcome
      BY <2>4 DEF Apply
    <3> QED BY <1>1, <3>1, RequestAt DEF Outcomes
  <2>5. CASE Abandon(h)
    BY <1>1, <2>5 DEF Abandon, Go, TypeOK, Idle, Gone
  <2> QED BY <1>7, <2>1, <2>2, <2>3, <2>4, <2>5 DEF Proceed
<1> QED BY <1>3, <1>5, <1>6, <1>7 DEF Next

\* A decision recorded on a case in review does not end with the case in review,
\* for any number of requests that overlap.
THEOREM DecisionsTakeEffect == Spec => DecisionTakesEffect
<1>1. Init => IInv /\ RecordedStays
  BY InitIInv, InitRecordedStays
<1>2. IInv /\ RecordedStays /\ [Next]_vars => (IInv /\ RecordedStays)'
  BY NextIInv, NextRecordedStays
<1>3. IInv /\ RecordedStays /\ [Next]_vars =>
        [\A h \in Handlers :
           /\ \/ Deciding(h, "confirmed")
              \/ req[h].step \in {"recorded", "last"} /\ req[h].from = "IN_REVIEW"
           /\ req'[h] = Idle
           => caseStatus' # "IN_REVIEW"]_vars
  BY EndingsTakeEffect
<1> QED BY <1>1, <1>2, <1>3, PTL DEF Spec, DecisionTakesEffect
=============================================================================
