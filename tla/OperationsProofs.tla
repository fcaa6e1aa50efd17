-------------------------- MODULE OperationsProofs --------------------------
(***************************************************************************)
(* Proofs about the parts of MCOperations, for any number of requests,     *)
(* sweeps, documents, tasks and people and any calendar: the document      *)
(* store, the handing over of work, the warnings, the compliance sweep and *)
(* the deadlines, each by itself and then in the model that composes them. *)
(***************************************************************************)
EXTENDS MCOperations, FiniteSetTheorems, FunctionTheorems, WellFoundedInduction, TLAPS

\* Of any numbers one is the least.
LEMMA LeastOf ==
    ASSUME NEW N \in SUBSET Nat, N # {}
    PROVE  \E n \in N : \A k \in N : n <= k
<1>1. PICK n \in N : \A k \in N : ~(<<k, n>> \in OpToRel(<, Nat))
  BY NatLessThanWellFounded, WFMin
<1>2. \A k \in N : ~(k < n)
  BY <1>1 DEF OpToRel
<1> QED BY <1>2

\* Of finitely many numbers one is the greatest: the chain of their tails is
\* well-founded.
LEMMA GreatestOf ==
    ASSUME NEW N \in SUBSET Nat, IsFiniteSet(N), N # {}
    PROVE  \E n \in N : \A k \in N : k <= n
<1> DEFINE Above(n) == {k \in N : k > n}
           tails == {Above(n) : n \in N}
<1>1. IsWellFoundedOn(StrictSubsetOrdering(N), FiniteSubsetsOf(N))
  BY FS_StrictSubsetOrderingWellFounded
<1>2. tails \subseteq FiniteSubsetsOf(N) /\ tails # {}
  <2>1. tails \subseteq SUBSET N /\ tails # {}
    OBVIOUS
  <2>2. FiniteSubsetsOf(N) = SUBSET N
    BY FS_FiniteSubsetsOfFinite
  <2> QED BY <2>1, <2>2
<1> HIDE DEF tails
<1>3. PICK A \in tails : \A B \in tails : ~(<<B, A>> \in StrictSubsetOrdering(N))
  BY <1>1, <1>2, WFMin
<1>4. PICK n \in N : A = Above(n)
  BY <1>3 DEF tails
<1>5. ASSUME NEW k \in N, k > n PROVE FALSE
  <2>1. Above(k) \in tails
    BY DEF tails
  <2>2. k \in Nat /\ n \in Nat /\ \A j \in N : j \in Nat
    OBVIOUS
  <2>3. k \in Above(n) /\ k \notin Above(k)
    BY <1>5, <2>2
  <2>4. Above(k) \subseteq Above(n)
    <3>1. \A j \in N : j > k => j > n
      BY <1>5, <2>2
    <3> QED BY <3>1
  <2>5. <<Above(k), A>> \in StrictSubsetOrdering(N)
    BY <2>3, <2>4, <1>4 DEF StrictSubsetOrdering
  <2> QED BY <2>1, <2>5, <1>3
<1> QED BY <1>5

\* Whatever is counted, with those that are about to count once more, stays
\* within their number: one that is about to comes in while nothing is counted.
LEMMA StaysWithin ==
    ASSUME NEW S, IsFiniteSet(S), NEW A \in SUBSET S, NEW B \in SUBSET S,
           NEW m \in Nat, NEW n \in Nat, m + Cardinality(A) <= Cardinality(S),
           \/ n <= m /\ B \subseteq A
           \/ n = 0
           \/ n = m + 1 /\ \E x \in A : B \subseteq A \ {x}
    PROVE  n + Cardinality(B) <= Cardinality(S)
<1>1. /\ IsFiniteSet(A) /\ IsFiniteSet(B)
      /\ Cardinality(A) \in Nat /\ Cardinality(B) \in Nat /\ Cardinality(S) \in Nat
      /\ Cardinality(B) <= Cardinality(S)
  BY FS_Subset, FS_CardinalityType
<1>2. CASE n <= m /\ B \subseteq A
  <2>1. Cardinality(B) <= Cardinality(A)
    BY <1>1, <1>2, FS_Subset
  <2> QED BY <1>1, <1>2, <2>1
<1>3. CASE n = 0
  BY <1>1, <1>3
<1>4. ASSUME n = m + 1, NEW x \in A, B \subseteq A \ {x} PROVE n + Cardinality(B) <= Cardinality(S)
  <2>1. IsFiniteSet(A \ {x}) /\ Cardinality(A \ {x}) = Cardinality(A) - 1
    BY <1>1, FS_RemoveElement
  <2>2. Cardinality(B) <= Cardinality(A \ {x})
    BY <1>4, <2>1, FS_Subset
  <2> QED BY <1>1, <1>4, <2>1, <2>2
<1> QED BY <1>2, <1>3, <1>4
-----------------------------------------------------------------------------
(***************************************************************************)
(* The document store.  A request that numbers a version is about to, and the *)
(* others know it: its number is ahead of every version there is, unless a *)
(* second request for a version came in between.                           *)
(***************************************************************************)
StoreConstants == MaxDocuments \in Nat \ {0} /\ Null \notin Uploads

Renewing(r) == D!At(r, "versions") \/ D!At(r, "version")

StoreInHand ==
    \A r \in Requests :
        /\ call[r].at \in {"create", "finish"} => call[r].upload \in Uploads
        /\ call[r].at \in {"versions", "version", "grant"} => D!Exists(call[r].of)

UploadsClean == \A u \in Uploads : upload[u].infected => upload[u].made = {}

GrantsSpent ==
    \A t \in Tokens :
        delivered[t] <= 1 /\ (delivered[t] = 1 => ~grant[t].live /\ grant[t].fresh)

RootsBefore == \A d \in D!Docs : D!Exists(d) => doc[d].root <= d

NumbersAhead ==
    ~overlapped =>
        /\ \A q, r \in Requests : Renewing(q) /\ Renewing(r) => q = r
        /\ \A r \in Requests, e \in D!Docs :
              D!At(r, "version") /\ D!Readable(e) /\ doc[e].root = call[r].of
                  => doc[e].version < call[r].next

StoreIInv ==
    D!TypeOK /\ StoreInHand /\ UploadsClean /\ GrantsSpent /\ RootsBefore
    /\ D!VersionsApart /\ NumbersAhead
-----------------------------------------------------------------------------
LEMMA StoreInit == ASSUME StoreConstants, D!Init PROVE StoreIInv
<1>1. D!Idle \in D!Request /\ D!Idle.at = "idle" /\ 1 \in D!Docs
  BY DEF StoreConstants, D!Idle, D!Request, D!Docs
<1>2. D!TypeOK
  <2>1. doc \in [D!Docs -> D!DocRow] /\ upload \in [Uploads -> D!UploadRow]
    BY DEF D!Init, D!DocRow, D!UploadRow
  <2>2. grant \in [Tokens -> D!Grant] /\ delivered \in [Tokens -> Nat]
    BY <1>1 DEF D!Init, D!Grant
  <2>3. call \in [Requests -> D!Request] /\ overlapped \in BOOLEAN
    BY <1>1 DEF D!Init
  <2>4. rows \in 0..MaxDocuments
    BY DEF D!Init, StoreConstants
  <2> QED BY <2>1, <2>2, <2>3, <2>4 DEF D!TypeOK
<1>3. /\ rows = 0 /\ call = [r \in Requests |-> D!Idle]
      /\ upload = [u \in Uploads |-> [status |-> "none", infected |-> FALSE, made |-> {}]]
      /\ delivered = [t \in Tokens |-> 0]
  BY DEF D!Init
<1>4. StoreInHand /\ UploadsClean /\ GrantsSpent
  BY <1>1, <1>3 DEF StoreInHand, UploadsClean, GrantsSpent
<1>5. RootsBefore /\ D!VersionsApart
  BY <1>3 DEF RootsBefore, D!VersionsApart, D!Readable, D!Exists, D!Docs
<1>6. NumbersAhead
  BY <1>1, <1>3 DEF NumbersAhead, Renewing, D!At
<1> QED BY <1>2, <1>4, <1>5, <1>6 DEF StoreIInv

\* A step in which one request moves on and no document is written.
LEMMA StoreRequestStep ==
    ASSUME StoreConstants, StoreIInv, NEW r \in Requests, NEW next \in D!Request,
           D!Step(r, next), UNCHANGED <<doc, rows, overlapped>>,
           upload' \in [Uploads -> D!UploadRow], UploadsClean',
           grant' \in [Tokens -> D!Grant], delivered' \in [Tokens -> Nat], GrantsSpent',
           next.at \in {"create", "finish"} => next.upload \in Uploads,
           next.at \in {"versions", "version", "grant"} => D!Exists(next.of),
           next.at \in {"versions", "version"} => overlapped \/ Renewing(r),
           next.at = "version" =>
              \A e \in D!Docs : D!Readable(e) /\ doc[e].root = next.of
                                   => doc[e].version < next.next
    PROVE  StoreIInv'
<1>1. /\ call' \in [Requests -> D!Request]
      /\ \A q \in Requests : call'[q] = IF q = r THEN next ELSE call[q]
  BY DEF D!Step, StoreIInv, D!TypeOK
<1>2. D!TypeOK'
  BY <1>1 DEF StoreIInv, D!TypeOK
<1>3. StoreInHand'
  BY <1>1 DEF StoreIInv, StoreInHand, D!Exists
<1>4. RootsBefore' /\ D!VersionsApart'
  BY DEF StoreIInv, RootsBefore, D!VersionsApart, D!Readable, D!Exists
<1>5. NumbersAhead'
  <2> SUFFICES ASSUME ~overlapped PROVE NumbersAhead'
    BY DEF NumbersAhead
  <2>1. \A q \in Requests : Renewing(q)' => Renewing(q)
    BY <1>1 DEF Renewing, D!At
  <2>2. ASSUME NEW q \in Requests, NEW e \in D!Docs, D!At(q, "version")',
               D!Readable(e), doc[e].root = call'[q].of
        PROVE  doc[e].version < call'[q].next
    BY <1>1, <2>2 DEF StoreIInv, NumbersAhead, D!At
  <2> QED BY <2>1, <2>2 DEF StoreIInv, NumbersAhead, D!Readable, D!Exists
<1> QED BY <1>2, <1>3, <1>4, <1>5 DEF StoreIInv

LEMMA StoreRequests ==
    ASSUME StoreConstants, StoreIInv, NEW r \in Requests,
           \/ \E u \in Uploads : D!BeginComplete(r, u)
           \/ D!RejectInfected(r) \/ D!FinishSession(r) \/ D!FindLatest(r)
           \/ \E d \in D!Docs : D!BeginGrant(r, d)
           \/ \E t \in Tokens : D!SetGrant(r, t)
           \/ D!Abandon(r)
    PROVE  StoreIInv'
<1>t. /\ upload \in [Uploads -> D!UploadRow] /\ doc \in [D!Docs -> D!DocRow]
      /\ grant \in [Tokens -> D!Grant] /\ delivered \in [Tokens -> Nat]
      /\ call \in [Requests -> D!Request] /\ UploadsClean /\ GrantsSpent
      /\ call[r] \in D!Request
  BY DEF StoreIInv, D!TypeOK
<1>i. D!Idle \in D!Request /\ D!Idle.at = "idle"
  BY DEF StoreConstants, D!Idle, D!Request, D!Docs
<1>1. ASSUME NEW u \in Uploads, D!BeginComplete(r, u) PROVE StoreIInv'
  <2> DEFINE next == [D!Idle EXCEPT !.at = "create", !.upload = u]
  <2>1. next \in D!Request /\ next.at = "create" /\ next.upload = u
    BY <1>i DEF D!Idle, D!Request
  <2>2. D!Step(r, next) /\ UNCHANGED <<upload, doc, rows, grant, delivered, overlapped>>
    BY <1>1 DEF D!BeginComplete
  <2>3. UploadsClean' /\ GrantsSpent'
    BY <1>t, <2>2 DEF UploadsClean, GrantsSpent
  <2> HIDE DEF next
  <2> QED BY <1>t, <2>1, <2>2, <2>3, StoreRequestStep
<1>2. CASE D!RejectInfected(r) \/ D!FinishSession(r)
  <2>1. /\ call[r].upload \in Uploads
        /\ UNCHANGED <<doc, rows, grant, delivered, overlapped>> /\ D!Step(r, D!Idle)
        /\ \E status \in {"FAILED", "DONE"} :
              upload' = [upload EXCEPT ![call[r].upload].status = status]
    BY <1>2 DEF D!RejectInfected, D!FinishSession, D!At, StoreIInv, StoreInHand
  <2>2. upload' \in [Uploads -> D!UploadRow] /\ UploadsClean'
    BY <1>t, <2>1 DEF UploadsClean, D!UploadRow
  <2>3. GrantsSpent'
    BY <1>t, <2>1 DEF GrantsSpent
  <2> QED BY <1>t, <1>i, <2>1, <2>2, <2>3, StoreRequestStep
<1>3. CASE D!FindLatest(r)
  <2> DEFINE of == call[r].of
             numbers == {doc[e].version : e \in D!Chain(of)}
             newest == IF numbers = {} THEN doc[of].version
                       ELSE CHOOSE n \in numbers : \A k \in numbers : k <= n
             next == [call[r] EXCEPT !.at = "version", !.next = newest + 1]
  <2>1. /\ D!At(r, "versions") /\ D!Step(r, next)
        /\ UNCHANGED <<upload, doc, rows, grant, delivered, overlapped>>
    BY <1>3 DEF D!FindLatest
  <2>2. of \in D!Docs /\ D!Exists(of)
    BY <1>t, <2>1 DEF StoreIInv, StoreInHand, D!Request, D!At
  <2>3. D!Chain(of) \subseteq D!Docs /\ IsFiniteSet(D!Docs)
    BY FS_Interval DEF D!Chain, D!Docs, StoreConstants
  <2>4. numbers \in SUBSET Nat /\ IsFiniteSet(numbers)
    <3> DEFINE f == [e \in D!Chain(of) |-> doc[e].version]
    <3>1. numbers \in SUBSET Nat
      BY <1>t, <2>3 DEF D!DocRow
    <3>2. f \in Surjection(D!Chain(of), numbers)
      BY DEF Surjection
    <3>3. IsFiniteSet(D!Chain(of))
      BY <2>3, FS_Subset
    <3> HIDE DEF f, numbers
    <3> QED BY <3>1, <3>2, <3>3, FS_Surjection
  <2>5. newest \in Nat /\ \A n \in numbers : n <= newest
    <3>1. doc[of].version \in Nat
      BY <1>t, <2>2 DEF D!DocRow
    <3>2. numbers # {} => \E n \in numbers : \A k \in numbers : k <= n
      <4> HIDE DEF numbers
      <4> QED BY <2>4, GreatestOf
    <3> HIDE DEF numbers
    <3> QED BY <2>4, <3>1, <3>2
  <2>6. \A e \in D!Docs : D!Readable(e) /\ doc[e].root = of => doc[e].version <= newest
    BY <2>5 DEF D!Chain
  <2> HIDE DEF newest
  <2>7. next \in D!Request /\ next.at = "version" /\ next.of = of /\ next.next = newest + 1
    <3>1. newest + 1 \in Nat
      BY <2>5
    <3> QED BY <1>t, <3>1 DEF D!Request
  <2> HIDE DEF next, of
  <2>8. \A e \in D!Docs : D!Readable(e) /\ doc[e].root = next.of
                             => doc[e].version < next.next
    <3>1. \A e \in D!Docs : doc[e].version \in Nat
      BY <1>t DEF D!DocRow
    <3> QED BY <2>5, <2>6, <2>7, <3>1
  <2>9. UploadsClean' /\ GrantsSpent' /\ Renewing(r)
    BY <1>t, <2>1 DEF UploadsClean, GrantsSpent, Renewing
  <2> QED BY <1>t, <2>1, <2>2, <2>7, <2>8, <2>9, StoreRequestStep
<1>4. ASSUME NEW d \in D!Docs, D!BeginGrant(r, d) PROVE StoreIInv'
  <2> DEFINE next == [D!Idle EXCEPT !.at = "grant", !.of = d]
  <2>1. next \in D!Request /\ next.at = "grant" /\ next.of = d
    BY <1>i DEF D!Idle, D!Request
  <2>2. D!Step(r, next) /\ UNCHANGED <<upload, doc, rows, grant, delivered, overlapped>>
        /\ D!Exists(d)
    BY <1>4 DEF D!BeginGrant, D!Readable
  <2>3. UploadsClean' /\ GrantsSpent'
    BY <1>t, <2>2 DEF UploadsClean, GrantsSpent
  <2> HIDE DEF next
  <2> QED BY <1>t, <2>1, <2>2, <2>3, StoreRequestStep
<1>5. ASSUME NEW t \in Tokens, D!SetGrant(r, t) PROVE StoreIInv'
  <2>1. /\ ~grant[t].live /\ ~grant[t].fresh /\ D!Step(r, D!Idle)
        /\ grant' = [grant EXCEPT ![t] = [live |-> TRUE, fresh |-> TRUE, of |-> call[r].of]]
        /\ UNCHANGED <<upload, doc, rows, delivered, overlapped>>
    BY <1>5 DEF D!SetGrant
  <2>2. [live |-> TRUE, fresh |-> TRUE, of |-> call[r].of] \in D!Grant
    BY <1>t DEF D!Request, D!Grant
  <2>3. grant' \in [Tokens -> D!Grant] /\ GrantsSpent' /\ UploadsClean'
    BY <1>t, <2>1, <2>2 DEF GrantsSpent, UploadsClean
  <2> QED BY <1>t, <1>i, <2>1, <2>3, StoreRequestStep
<1>6. CASE D!Abandon(r)
  <2>1. D!Step(r, D!Idle) /\ UNCHANGED <<upload, doc, rows, grant, delivered, overlapped>>
    BY <1>6 DEF D!Abandon
  <2>2. UploadsClean' /\ GrantsSpent'
    BY <1>t, <2>1 DEF UploadsClean, GrantsSpent
  <2> QED BY <1>t, <1>i, <2>1, <2>2, StoreRequestStep
<1> QED BY <1>1, <1>2, <1>3, <1>4, <1>5, <1>6

LEMMA StoreBeginVersion ==
    ASSUME StoreConstants, StoreIInv, NEW r \in Requests, NEW d \in D!Docs,
           D!BeginVersion(r, d)
    PROVE  StoreIInv'
<1> DEFINE next == [D!Idle EXCEPT !.at = "versions", !.of = d]
<1>1. next \in D!Request /\ next.at = "versions" /\ next.of = d
  BY DEF StoreConstants, D!Idle, D!Request, D!Docs
<1>2. /\ D!Step(r, next) /\ D!Exists(d) /\ UNCHANGED <<upload, doc, rows, grant, delivered>>
      /\ overlapped' = (overlapped \/ \E q \in Requests : Renewing(q))
  BY DEF D!BeginVersion, D!Readable, Renewing
<1> HIDE DEF next
<1>3. /\ call' \in [Requests -> D!Request]
      /\ \A q \in Requests : call'[q] = IF q = r THEN next ELSE call[q]
  BY <1>1, <1>2 DEF D!Step, StoreIInv, D!TypeOK
<1>4. D!TypeOK'
  BY <1>2, <1>3 DEF StoreIInv, D!TypeOK
<1>5. StoreInHand' /\ UploadsClean' /\ GrantsSpent'
  BY <1>1, <1>2, <1>3 DEF StoreIInv, StoreInHand, UploadsClean, GrantsSpent, D!Exists
<1>6. RootsBefore' /\ D!VersionsApart'
  BY <1>2 DEF StoreIInv, RootsBefore, D!VersionsApart, D!Readable, D!Exists
<1>7. NumbersAhead'
  <2> SUFFICES ASSUME ~overlapped' PROVE NumbersAhead'
    BY DEF NumbersAhead
  <2>1. \A q \in Requests : ~Renewing(q)
    BY <1>2
  <2>2. \A q \in Requests : Renewing(q)' => q = r
    BY <1>3, <2>1 DEF Renewing, D!At
  <2>3. \A q \in Requests : ~D!At(q, "version")'
    BY <1>1, <1>3, <2>1 DEF Renewing, D!At
  <2> QED BY <2>2, <2>3 DEF NumbersAhead
<1> QED BY <1>4, <1>5, <1>6, <1>7 DEF StoreIInv
\* A new document: its number is new among those of its root.
LEMMA StoreInsert ==
    ASSUME StoreConstants, StoreIInv, NEW r \in Requests, NEW next \in D!Request,
           NEW root \in D!Docs, NEW version \in Nat,
           D!Insert(root, version), root <= rows + 1,
           D!Step(r, next), next.at \in {"idle", "finish"},
           next.at = "finish" => next.upload \in Uploads,
           upload' \in [Uploads -> D!UploadRow], UploadsClean',
           UNCHANGED <<grant, delivered, overlapped>>,
           ~overlapped => \A e \in D!Docs : D!Readable(e) /\ doc[e].root = root
                                             => doc[e].version < version,
           root = rows + 1 \/ D!At(r, "version")
    PROVE  StoreIInv'
<1> DEFINE new == rows + 1
           row == [root |-> root, version |-> version, deleted |-> FALSE]
<1>0. /\ rows \in Nat /\ MaxDocuments \in Nat /\ rows < MaxDocuments /\ rows' = new
      /\ new \in Nat /\ new = rows + 1
  BY DEF D!Insert, StoreConstants, StoreIInv, D!TypeOK
<1>1. /\ new \in D!Docs /\ rows' = new /\ doc' = [doc EXCEPT ![new] = row]
  <2>1. doc' = [doc EXCEPT ![new] = row]
    BY DEF D!Insert
  <2> QED BY <1>0, <2>1 DEF D!Docs
<1>2. row \in D!DocRow
  BY DEF D!DocRow
<1>3. /\ doc' \in [D!Docs -> D!DocRow] /\ doc'[new] = row
      /\ \A e \in D!Docs : e # new => doc'[e] = doc[e]
  BY <1>1, <1>2 DEF StoreIInv, D!TypeOK
<1>4. /\ call' \in [Requests -> D!Request]
      /\ \A q \in Requests : call'[q] = IF q = r THEN next ELSE call[q]
  BY DEF D!Step, StoreIInv, D!TypeOK
<1>4a. row.root = root /\ row.version = version
  OBVIOUS
<1> HIDE DEF new, row
<1>4b. \A e \in D!Docs : e \in Nat
  BY DEF D!Docs
<1>5. \A e \in D!Docs : /\ e <= rows' <=> e <= rows \/ e = new
                        /\ e <= rows => e < new
  <2> SUFFICES ASSUME NEW e \in D!Docs
               PROVE  /\ e <= rows' <=> e <= rows \/ e = new
                      /\ e <= rows => e < new
    OBVIOUS
  <2>1. e \in Nat
    BY <1>4b
  <2> QED BY <1>0, <2>1
<1>6. D!TypeOK'
  <2>1. rows' \in 0..MaxDocuments
    BY <1>1 DEF D!Docs
  <2> QED BY <1>3, <1>4, <2>1 DEF StoreIInv, D!TypeOK
<1>7. StoreInHand'
  <2> SUFFICES ASSUME NEW q \in Requests
               PROVE  /\ call'[q].at \in {"create", "finish"} => call'[q].upload \in Uploads
                      /\ call'[q].at \in {"versions", "version", "grant"} => call'[q].of <= rows'
    BY DEF StoreInHand, D!Exists
  <2>1. CASE q = r
    BY <1>4, <2>1
  <2>2. CASE q # r
    <3>1. call'[q] = call[q] /\ call[q].of \in D!Docs
      BY <1>4, <2>2 DEF StoreIInv, D!TypeOK, D!Request
    <3>2. /\ call[q].at \in {"create", "finish"} => call[q].upload \in Uploads
          /\ call[q].at \in {"versions", "version", "grant"} => call[q].of <= rows
      BY DEF StoreIInv, StoreInHand, D!Exists
    <3>3. call[q].of \in Nat
      BY <1>4b, <3>1
    <3>4. call[q].of <= rows => call[q].of <= rows'
      BY <1>0, <3>3
    <3> QED BY <3>1, <3>2, <3>4
  <2> QED BY <2>1, <2>2
<1>8. GrantsSpent'
  BY DEF StoreIInv, GrantsSpent
<1>9. RootsBefore'
  <2> SUFFICES ASSUME NEW e \in D!Docs, D!Exists(e)' PROVE doc'[e].root <= e
    BY DEF RootsBefore
  <2>1. CASE e = new
    <3>1. doc'[e].root = root
      BY <1>3, <1>4a, <2>1
    <3>2. root <= new
      BY <1>0
    <3> QED BY ONLY <2>1, <3>1, <3>2
  <2>2. CASE e # new
    <3>1. D!Exists(e) /\ doc'[e] = doc[e]
      BY <1>3, <1>5, <2>2 DEF D!Exists
    <3> QED BY <3>1 DEF StoreIInv, RootsBefore
  <2> QED BY <2>1, <2>2
<1>10. \A e \in D!Docs : /\ D!Readable(e)' => e = new \/ D!Readable(e)
                         /\ D!Readable(e) => e # new
  <2> SUFFICES ASSUME NEW e \in D!Docs
               PROVE  /\ D!Readable(e)' => e = new \/ D!Readable(e)
                      /\ D!Readable(e) => e # new
    BY DEF D!Readable, D!Exists
  <2>1. /\ e <= rows' <=> e <= rows \/ e = new
        /\ e # new => doc'[e] = doc[e]
    BY <1>3, <1>5
  <2>2. e <= rows => e # new
    BY <1>0, <1>5
  <2> QED BY <2>1, <2>2 DEF D!Readable, D!Exists
<1>11. \A e \in D!Docs : doc[e].version \in Nat
  BY DEF StoreIInv, D!TypeOK, D!DocRow
<1>12. D!VersionsApart'
  <2> SUFFICES ASSUME ~overlapped, NEW d \in D!Docs, NEW e \in D!Docs, d # e,
                      D!Readable(d)', D!Readable(e)', doc'[d].root = doc'[e].root
               PROVE  doc'[d].version # doc'[e].version
    BY DEF D!VersionsApart
  <2>1. CASE d = new
    <3>1. doc[e].version < version
      BY <1>3, <1>4a, <1>10, <2>1
    <3> QED BY <1>3, <1>4a, <1>11, <2>1, <3>1
  <2>2. CASE e = new
    <3>1. doc[d].version < version
      BY <1>3, <1>4a, <1>10, <2>2
    <3> QED BY <1>3, <1>4a, <1>11, <2>2, <3>1
  <2>3. CASE d # new /\ e # new
    BY <1>3, <1>10, <2>3 DEF StoreIInv, D!VersionsApart
  <2> QED BY <2>1, <2>2, <2>3
<1>13. NumbersAhead'
  <2> SUFFICES ASSUME ~overlapped PROVE NumbersAhead'
    BY DEF NumbersAhead
  <2>1. \A q \in Requests : Renewing(q)' => Renewing(q) /\ q # r
    BY <1>4 DEF Renewing, D!At
  <2>2. ASSUME NEW q \in Requests, NEW e \in D!Docs, D!At(q, "version")',
               D!Readable(e)', doc'[e].root = call'[q].of
        PROVE  doc'[e].version < call'[q].next
    <3>1. q # r /\ call'[q] = call[q] /\ D!At(q, "version")
      BY <1>4, <2>1, <2>2 DEF Renewing, D!At
    <3>2. CASE e # new
      BY <1>3, <1>10, <2>2, <3>1, <3>2 DEF StoreIInv, NumbersAhead
    <3>3. CASE e = new
      <4>1. call[q].of = root /\ D!Exists(call[q].of) /\ call[q].of \in D!Docs
        BY <1>3, <1>4a, <2>2, <3>1, <3>3 DEF StoreIInv, StoreInHand, D!At, D!TypeOK, D!Request
      <4>2. ~D!At(r, "version")
        BY <3>1 DEF StoreIInv, NumbersAhead, Renewing
      <4>3. root = new
        BY <1>0, <4>2
      <4>4. new < new
        BY <1>5, <4>1, <4>3 DEF D!Exists
      <4> QED BY <1>0, <4>4
    <3> QED BY <3>2, <3>3
  <2> QED BY <2>1, <2>2 DEF StoreIInv, NumbersAhead
<1> QED BY <1>6, <1>7, <1>8, <1>9, <1>12, <1>13 DEF StoreIInv

LEMMA StoreCreates ==
    ASSUME StoreConstants, StoreIInv, NEW r \in Requests,
           D!CreateDocument(r) \/ D!CreateVersion(r)
    PROVE  StoreIInv'
<1>t. /\ upload \in [Uploads -> D!UploadRow] /\ doc \in [D!Docs -> D!DocRow]
      /\ call[r] \in D!Request /\ UploadsClean /\ rows \in Nat
  BY DEF StoreIInv, D!TypeOK, StoreConstants
<1>i. D!Idle \in D!Request /\ D!Idle.at = "idle"
  BY DEF StoreConstants, D!Idle, D!Request, D!Docs
<1>1. CASE D!CreateDocument(r)
  <2> DEFINE u == call[r].upload
             next == [call[r] EXCEPT !.at = "finish"]
  <2>1. /\ u \in Uploads /\ ~upload[u].infected /\ D!Insert(rows + 1, 1)
        /\ upload' = [upload EXCEPT ![u].made = @ \cup {rows + 1}]
        /\ D!Step(r, next) /\ UNCHANGED <<grant, delivered, overlapped>>
    BY <1>1 DEF D!CreateDocument, D!At, StoreIInv, StoreInHand
  <2>2. next \in D!Request /\ next.at = "finish" /\ next.upload = u
    BY <1>t DEF D!Request
  <2>3. rows + 1 \in D!Docs
    BY <1>t, <2>1 DEF D!Insert, D!Docs, StoreConstants
  <2> HIDE DEF u, next
  <2>4. upload' \in [Uploads -> D!UploadRow] /\ UploadsClean'
    BY <1>t, <2>1, <2>3 DEF UploadsClean, D!UploadRow
  <2>5. \A e \in D!Docs : D!Readable(e) => doc[e].root # rows + 1
    <3> SUFFICES ASSUME NEW e \in D!Docs, D!Exists(e) PROVE doc[e].root # rows + 1
      BY DEF D!Readable
    <3>1. doc[e].root <= e /\ e <= rows /\ doc[e].root \in Nat /\ e \in Nat
      BY <1>t DEF StoreIInv, RootsBefore, D!Exists, D!Docs, D!DocRow
    <3> QED BY <1>t, <3>1
  <2>6. 1 \in Nat /\ rows + 1 <= rows + 1
    BY <1>t
  <2> QED BY <2>1, <2>2, <2>3, <2>4, <2>5, <2>6, StoreInsert
<1>2. CASE D!CreateVersion(r)
  <2>1. /\ D!At(r, "version") /\ D!Insert(call[r].of, call[r].next) /\ D!Step(r, D!Idle)
        /\ UNCHANGED <<upload, grant, delivered, overlapped>>
    BY <1>2 DEF D!CreateVersion
  <2>2. /\ call[r].of \in D!Docs /\ call[r].next \in Nat /\ D!Exists(call[r].of)
    BY <1>t, <2>1 DEF D!Request, StoreIInv, StoreInHand, D!At
  <2>3. call[r].of <= rows + 1
    BY <1>t, <2>2 DEF D!Docs, D!Exists
  <2>4. UploadsClean'
    BY <1>t, <2>1 DEF UploadsClean
  <2>5. ~overlapped => \A e \in D!Docs : D!Readable(e) /\ doc[e].root = call[r].of
                                           => doc[e].version < call[r].next
    BY <2>1 DEF StoreIInv, NumbersAhead
  <2> QED BY <1>t, <1>i, <2>1, <2>2, <2>3, <2>4, <2>5, StoreInsert
<1> QED BY <1>1, <1>2

\* The other steps write one row each, or forget all that is in memory.
LEMMA StoreRows ==
    ASSUME StoreConstants, StoreIInv,
           \/ \E u \in Uploads, infected \in BOOLEAN : D!CreateSession(u, infected)
           \/ \E d \in D!Docs : D!DeleteDocument(d)
           \/ \E t \in Tokens : D!GrantExpires(t) \/ \E d \in D!Docs : D!Download(t, d)
           \/ D!Restart
    PROVE  StoreIInv'
<1>t. /\ upload \in [Uploads -> D!UploadRow] /\ doc \in [D!Docs -> D!DocRow]
      /\ grant \in [Tokens -> D!Grant] /\ delivered \in [Tokens -> Nat]
      /\ call \in [Requests -> D!Request] /\ UploadsClean /\ GrantsSpent
  BY DEF StoreIInv, D!TypeOK
<1>s. ASSUME call' = call, UNCHANGED <<doc, rows, overlapped>>,
             upload' \in [Uploads -> D!UploadRow], UploadsClean',
             grant' \in [Tokens -> D!Grant], delivered' \in [Tokens -> Nat], GrantsSpent'
      PROVE  StoreIInv'
  BY <1>s DEF StoreIInv, D!TypeOK, StoreInHand, RootsBefore, D!VersionsApart, NumbersAhead,
              Renewing, D!At, D!Readable, D!Exists
<1>1. ASSUME NEW u \in Uploads, NEW infected \in BOOLEAN, D!CreateSession(u, infected)
      PROVE  StoreIInv'
  <2>1. /\ upload' = [upload EXCEPT ![u] = [status |-> "RUNNING", infected |-> infected, made |-> {}]]
        /\ UNCHANGED <<doc, rows, grant, delivered, call, overlapped>>
    BY <1>1 DEF D!CreateSession
  <2>2. [status |-> "RUNNING", infected |-> infected, made |-> {}] \in D!UploadRow
    BY DEF D!UploadRow
  <2>3. upload' \in [Uploads -> D!UploadRow] /\ UploadsClean' /\ GrantsSpent'
    BY <1>t, <2>1, <2>2 DEF UploadsClean, GrantsSpent
  <2> QED BY <1>s, <1>t, <2>1, <2>3
<1>2. ASSUME NEW d \in D!Docs, D!DeleteDocument(d) PROVE StoreIInv'
  <2>1. /\ doc' = [doc EXCEPT ![d].deleted = TRUE]
        /\ UNCHANGED <<upload, rows, grant, delivered, call, overlapped>>
    BY <1>2 DEF D!DeleteDocument
  <2>2. /\ doc' \in [D!Docs -> D!DocRow]
        /\ \A e \in D!Docs : /\ doc'[e].root = doc[e].root
                             /\ doc'[e].version = doc[e].version
                             /\ ~doc'[e].deleted => ~doc[e].deleted
    <3>1. \A e \in D!Docs : doc'[e] = IF e = d THEN [doc[e] EXCEPT !.deleted = TRUE] ELSE doc[e]
      BY <1>t, <2>1
    <3>2. \A e \in D!Docs : doc'[e] \in D!DocRow
      BY <1>t, <3>1 DEF D!DocRow
    <3>3. doc' \in [D!Docs -> D!DocRow]
      BY <1>t, <2>1, <3>2
    <3>4. \A e \in D!Docs : doc[e] \in D!DocRow
      BY <1>t
    <3> QED BY <3>1, <3>3, <3>4 DEF D!DocRow
  <2>3. D!TypeOK' /\ StoreInHand' /\ UploadsClean' /\ GrantsSpent'
    BY <2>1, <2>2 DEF StoreIInv, D!TypeOK, StoreInHand, UploadsClean, GrantsSpent, D!Exists
  <2>4. \A e \in D!Docs : D!Readable(e)' => D!Readable(e)
    BY <2>1, <2>2 DEF D!Readable, D!Exists
  <2>5. RootsBefore' /\ D!VersionsApart' /\ NumbersAhead'
    BY <2>1, <2>2, <2>4 DEF StoreIInv, RootsBefore, D!VersionsApart, NumbersAhead, Renewing,
                           D!At, D!Exists
  <2> QED BY <2>3, <2>5 DEF StoreIInv
<1>3. ASSUME NEW t \in Tokens, D!GrantExpires(t) PROVE StoreIInv'
  <2>1. /\ grant[t].live /\ grant' = [grant EXCEPT ![t].fresh = FALSE]
        /\ UNCHANGED <<upload, doc, rows, delivered, call, overlapped>>
    BY <1>3 DEF D!GrantExpires
  <2>2. grant' \in [Tokens -> D!Grant] /\ UploadsClean'
    BY <1>t, <2>1 DEF D!Grant, UploadsClean
  <2>3. GrantsSpent'
    BY <1>t, <2>1 DEF GrantsSpent, D!Grant
  <2> QED BY <1>s, <1>t, <2>1, <2>2, <2>3
<1>4. ASSUME NEW t \in Tokens, NEW d \in D!Docs, D!Download(t, d) PROVE StoreIInv'
  <2>1. /\ grant[t].live /\ grant' = [grant EXCEPT ![t].live = FALSE]
        /\ delivered' = [delivered EXCEPT ![t] = IF grant[t].fresh /\ grant[t].of = d
                                                  THEN @ + 1 ELSE @]
        /\ UNCHANGED <<upload, doc, rows, call, overlapped>>
    BY <1>4 DEF D!Download
  <2>a. grant' \in [Tokens -> D!Grant] /\ UploadsClean'
    BY <1>t, <2>1 DEF D!Grant, UploadsClean
  <2>b. delivered' \in [Tokens -> Nat]
    <3>1. delivered[t] \in Nat /\ delivered[t] + 1 \in Nat
      BY <1>t
    <3> QED BY <1>t, <2>1, <3>1
  <2>2. grant' \in [Tokens -> D!Grant] /\ delivered' \in [Tokens -> Nat] /\ UploadsClean'
    BY <2>a, <2>b
  <2>3. delivered[t] = 0
    BY <1>t, <2>1 DEF GrantsSpent
  <2>4. \A k \in Tokens \ {t} : grant'[k] = grant[k] /\ delivered'[k] = delivered[k]
    BY <1>t, <2>1
  <2>5. delivered'[t] = IF grant[t].fresh /\ grant[t].of = d THEN 1 ELSE 0
    BY <1>t, <2>1, <2>3
  <2>6. ~grant'[t].live /\ grant'[t].fresh = grant[t].fresh
    BY <1>t, <2>1 DEF D!Grant
  <2>7. GrantsSpent'
    BY <1>t, <2>4, <2>5, <2>6 DEF GrantsSpent
  <2> QED BY <1>s, <1>t, <2>1, <2>2, <2>7
<1>5. CASE D!Restart
  <2>1. /\ call' = [r \in Requests |-> D!Idle]
        /\ grant' = [t \in Tokens |-> [grant[t] EXCEPT !.live = FALSE]]
        /\ UNCHANGED <<upload, doc, rows, delivered, overlapped>>
    BY <1>5 DEF D!Restart
  <2>2. D!Idle \in D!Request /\ D!Idle.at = "idle"
    BY DEF StoreConstants, D!Idle, D!Request, D!Docs
  <2>3. grant' \in [Tokens -> D!Grant] /\ GrantsSpent' /\ UploadsClean'
    BY <1>t, <2>1 DEF D!Grant, GrantsSpent, UploadsClean
  <2>4. D!TypeOK' /\ StoreInHand'
    BY <2>1, <2>2, <2>3 DEF StoreIInv, D!TypeOK, StoreInHand
  <2>5. RootsBefore' /\ D!VersionsApart' /\ NumbersAhead'
    BY <2>1, <2>2 DEF StoreIInv, RootsBefore, D!VersionsApart, NumbersAhead, Renewing,
                      D!At, D!Exists, D!Readable
  <2> QED BY <2>3, <2>4, <2>5 DEF StoreIInv
<1> QED BY <1>1, <1>2, <1>3, <1>4, <1>5

LEMMA StoreNext == ASSUME StoreConstants, StoreIInv, [D!Next]_D!documentVars PROVE StoreIInv'
<1>1. CASE UNCHANGED D!documentVars
  BY <1>1 DEF D!documentVars, StoreIInv, D!TypeOK, StoreInHand, UploadsClean, GrantsSpent,
              RootsBefore, D!VersionsApart, NumbersAhead, Renewing, D!At, D!Readable, D!Exists
<1>2. CASE D!Next
  BY <1>2, StoreRequests, StoreBeginVersion, StoreCreates, StoreRows DEF D!Next
<1> QED BY <1>1, <1>2

LEMMA StoreSettles ==
    ASSUME StoreConstants, StoreIInv, [D!Next]_D!documentVars, NEW u \in Uploads
    PROVE  /\ upload[u].infected => upload'[u].made = {}
           /\ upload[u].status = "DONE" /\ (\A r \in Requests : call[r].upload # u) =>
                upload'[u] = upload[u] /\ \A r \in Requests : call'[r].upload # u
<1> DEFINE Goal == /\ upload[u].infected => upload'[u].made = {}
                   /\ upload[u].status = "DONE" /\ (\A r \in Requests : call[r].upload # u) =>
                        upload'[u] = upload[u] /\ \A r \in Requests : call'[r].upload # u
<1>t. /\ upload \in [Uploads -> D!UploadRow] /\ call \in [Requests -> D!Request]
      /\ upload[u].infected => upload[u].made = {}
  BY DEF StoreIInv, D!TypeOK, UploadsClean
<1>i. D!Idle.upload # u
  BY DEF D!Idle, StoreConstants
\* A request that moves on without taking up a session that is done.
<1>s. ASSUME NEW r \in Requests, NEW next, D!Step(r, next), upload' = upload,
             next.upload = u => call[r].upload = u \/ upload[u].status # "DONE"
      PROVE  Goal
  <2>1. \A q \in Requests : call'[q] = IF q = r THEN next ELSE call[q]
    BY <1>t, <1>s DEF D!Step
  <2> QED BY <1>t, <1>s, <2>1
\* A request that writes the session it is about.
<1>w. ASSUME NEW r \in Requests, NEW next, D!Step(r, next),
             next.upload \in {call[r].upload, Null},
             upload' = upload \/ \E row : upload' = [upload EXCEPT ![call[r].upload] = row],
             upload[u].infected => upload'[u].made = {}
      PROVE  Goal
  <2>1. \A q \in Requests : call'[q] = IF q = r THEN next ELSE call[q]
    BY <1>t, <1>w DEF D!Step
  <2>2. call[r].upload # u => upload'[u] = upload[u]
    BY <1>t, <1>w
  <2> QED BY <1>w, <2>1, <2>2 DEF StoreConstants
<1>1. ASSUME NEW r \in Requests, NEW k \in Uploads, D!BeginComplete(r, k) PROVE Goal
  <2>1. [D!Idle EXCEPT !.at = "create", !.upload = k].upload = k
    BY DEF D!Idle
  <2>2. k = u => upload[u].status # "DONE"
    BY <1>1 DEF D!BeginComplete
  <2> QED BY <1>1, <1>s, <2>1, <2>2 DEF D!BeginComplete
<1>2. ASSUME NEW r \in Requests, D!RejectInfected(r) \/ D!FinishSession(r) PROVE Goal
  <2>1. /\ D!Step(r, D!Idle)
        /\ \E status : upload' = [upload EXCEPT ![call[r].upload].status = status]
    BY <1>2 DEF D!RejectInfected, D!FinishSession
  <2>2. upload'[u].made = upload[u].made
    BY <1>t, <2>1 DEF D!UploadRow
  <2>3. D!Idle.upload = Null
    BY DEF D!Idle
  <2> QED BY <1>t, <1>w, <2>1, <2>2, <2>3
<1>3. ASSUME NEW r \in Requests, D!CreateDocument(r) PROVE Goal
  <2> DEFINE next == [call[r] EXCEPT !.at = "finish"]
             k == call[r].upload
  <2>1. /\ D!Step(r, next) /\ ~upload[k].infected
        /\ upload' = [upload EXCEPT ![k].made = @ \cup {rows + 1}]
    BY <1>3 DEF D!CreateDocument
  <2>2. next.upload = k
    BY <1>t DEF D!Request
  <2> HIDE DEF next
  <2>3. upload[u].infected => upload'[u] = upload[u]
    BY <1>t, <2>1
  <2> QED BY <1>t, <1>w, <2>1, <2>2, <2>3
<1>4. ASSUME NEW r \in Requests, D!FindLatest(r) PROVE Goal
  <2>1. PICK n : D!Step(r, [call[r] EXCEPT !.at = "version", !.next = n]) /\ upload' = upload
    BY <1>4 DEF D!FindLatest
  <2> DEFINE next == [call[r] EXCEPT !.at = "version", !.next = n]
  <2>2. next.upload = call[r].upload
    BY <1>t DEF D!Request
  <2> HIDE DEF next
  <2>3. D!Step(r, next) /\ upload' = upload
    BY <2>1 DEF next
  <2> QED BY <1>s, <2>2, <2>3
<1>5. ASSUME NEW r \in Requests,
             \/ \E d \in D!Docs : D!BeginVersion(r, d) \/ D!BeginGrant(r, d)
             \/ D!CreateVersion(r) \/ D!Abandon(r) \/ \E k \in Tokens : D!SetGrant(r, k)
      PROVE  Goal
  <2>1. \A d : /\ [D!Idle EXCEPT !.at = "versions", !.of = d].upload # u
               /\ [D!Idle EXCEPT !.at = "grant", !.of = d].upload # u
    BY DEF D!Idle, StoreConstants
  <2>2. upload' = upload /\ \E next : D!Step(r, next) /\ next.upload # u
    BY <1>5, <1>i, <2>1
       DEF D!BeginVersion, D!BeginGrant, D!CreateVersion, D!Abandon, D!SetGrant
  <2> QED BY <1>s, <2>2
<1>6. ASSUME NEW k \in Uploads, NEW infected \in BOOLEAN, D!CreateSession(k, infected) PROVE Goal
  <2>1. /\ upload[k].status = "none" /\ call' = call
        /\ upload' = [upload EXCEPT ![k] = [status |-> "RUNNING", infected |-> infected, made |-> {}]]
    BY <1>6 DEF D!CreateSession
  <2>2. CASE k = u
    BY <1>t, <2>1, <2>2
  <2>3. CASE k # u
    BY <1>t, <2>1, <2>3
  <2> QED BY <2>2, <2>3
<1>7. ASSUME \/ \E d \in D!Docs : D!DeleteDocument(d)
             \/ \E k \in Tokens : D!GrantExpires(k) \/ \E d \in D!Docs : D!Download(k, d)
             \/ UNCHANGED D!documentVars
      PROVE  Goal
  <2>1. upload' = upload /\ call' = call
    BY <1>7 DEF D!DeleteDocument, D!GrantExpires, D!Download, D!documentVars
  <2> QED BY <1>t, <2>1
<1>8. ASSUME D!Restart PROVE Goal
  <2>1. upload' = upload /\ call' = [r \in Requests |-> D!Idle]
    BY <1>8 DEF D!Restart
  <2>2. \A q \in Requests : call'[q] = D!Idle
    BY <2>1
  <2>3. \A q \in Requests : call'[q].upload # u
    BY <1>i, <2>2
  <2>4. upload[u].infected => upload'[u].made = {}
    BY <1>t, <2>1
  <2>5. upload' = upload
    BY <2>1
  <2> QED BY <2>3, <2>4, <2>5
<1> HIDE DEF Goal
<1>9. ASSUME D!Next PROVE Goal
  <2>1. ASSUME NEW r \in Requests,
               \/ \E k \in Uploads : D!BeginComplete(r, k)
               \/ D!RejectInfected(r) \/ D!CreateDocument(r) \/ D!FinishSession(r)
               \/ \E d \in D!Docs : D!BeginVersion(r, d) \/ D!BeginGrant(r, d)
               \/ D!FindLatest(r) \/ D!CreateVersion(r)
               \/ \E k \in Tokens : D!SetGrant(r, k)
               \/ D!Abandon(r)
        PROVE  Goal
    BY <1>1, <1>2, <1>3, <1>4, <1>5, <2>1
  <2>2. CASE \E k \in Uploads, infected \in BOOLEAN : D!CreateSession(k, infected)
    BY <1>6, <2>2
  <2> QED BY <1>7, <1>8, <1>9, <2>1, <2>2 DEF D!Next
<1>10. Goal
  BY <1>7, <1>9
<1> QED BY <1>10 DEF Goal
-----------------------------------------------------------------------------
\* For any number of requests, uploads and tokens: however downloads, expiry and
\* restarts come in, a grant pays for one download, and versions whose requests
\* did not overlap have numbers of their own.
THEOREM StoreIsSafe == ASSUME StoreConstants PROVE D!Spec => []D!StoreSafe
<1>1. D!Init => StoreIInv
  BY StoreInit
<1>2. StoreIInv /\ [D!Next]_D!documentVars => StoreIInv'
  BY StoreNext
<1>3. StoreIInv => D!StoreSafe
  BY DEF StoreIInv, GrantsSpent, D!StoreSafe, D!SingleUse
<1> QED BY <1>1, <1>2, <1>3, PTL DEF D!Spec

\* An infected file never becomes a document, and a session that is done is done,
\* once the requests that raced for it are gone.
THEOREM UploadsAreFinal == ASSUME StoreConstants PROVE D!Spec => D!UploadsSettle
<1> DEFINE Settled == \A u \in Uploads :
          /\ upload[u].infected => upload'[u].made = {}
          /\ upload[u].status = "DONE" /\ (\A r \in Requests : call[r].upload # u) =>
                upload'[u] = upload[u] /\ \A r \in Requests : call'[r].upload # u
<1>1. D!Init => StoreIInv
  BY StoreInit
<1>2. StoreIInv /\ [D!Next]_D!documentVars => StoreIInv'
  BY StoreNext
<1>3. StoreIInv /\ [D!Next]_D!documentVars => [Settled]_D!documentVars
  BY StoreSettles
<1> QED BY <1>1, <1>2, <1>3, PTL DEF D!Spec, D!UploadsSettle

-----------------------------------------------------------------------------
(***************************************************************************)
(* The tasks of a case.  What a leaver holds is listed before the transaction *)
(* that returns it to the queue, so the invariant is about the list: whatever *)
(* is missing from it fell to somebody who was known to be leaving.        *)
(***************************************************************************)
\* The open tasks of somebody who is leaving were listed, or came too late.
TasksListed ==
    \A r \in Requests, t \in Tasks :
        T!At(r, "leave") /\ task[t].status \in T!Open /\ task[t].holder = request[r].user
        => t \in request[r].listed \cup late

\* A request is about a user and a task that exist.
TasksInHand ==
    \A r \in Requests :
        /\ ~T!At(r, "idle") /\ ~T!At(r, "block") => request[r].user \in Users
        /\ request[r].at \in {"claim", "complete", "block"} => request[r].task \in Tasks

TasksIInv == T!TypeOK /\ T!HandedOver /\ TasksListed /\ TasksInHand

\* The tasks of a case are numbered, and nobody is not somebody.
TaskConstants == (\E n \in Nat : Tasks = 1..n) /\ Null \notin Users
-----------------------------------------------------------------------------
LEMMA TasksInit == ASSUME TaskConstants, T!Init PROVE TasksIInv
<1>1. PICK first \in Users, steps \in Tasks : \E mine \in SUBSET (1..steps) :
          task = [t \in Tasks |->
                    IF t > steps THEN [status |-> "ABSENT", holder |-> Null, blocker |-> Null]
                    ELSE [status |-> IF t = 1 THEN "OPEN" ELSE "BLOCKED",
                          holder |-> IF t = 1 \/ t \in mine THEN first ELSE Null,
                          blocker |-> IF t = 1 THEN Null ELSE t - 1]]
  BY DEF T!Init
<1>2. \A t \in Tasks : t \in Nat /\ (t # 1 => t - 1 \in Tasks)
  BY DEF TaskConstants
<1>3. \A t \in Tasks : task[t] \in T!TaskRow
  BY <1>1, <1>2 DEF T!TaskRow, T!Open
<1>4. task \in [Tasks -> T!TaskRow]
  BY <1>1, <1>3
<1>5. gone = {} /\ late = {} /\ request = [r \in Requests |-> T!Idle]
  BY DEF T!Init
<1>6. T!Idle \in T!Request
  BY DEF T!Request, T!Idle
<1>7. T!TypeOK
  BY <1>4, <1>5, <1>6 DEF T!TypeOK
<1>8. T!HandedOver
  BY <1>5 DEF T!HandedOver
<1>9. TasksListed /\ TasksInHand
  BY <1>5 DEF TasksListed, TasksInHand, T!At, T!Idle
<1> QED BY <1>7, <1>8, <1>9 DEF TasksIInv

\* A step that only starts or ends a request; one that starts leaving has listed
\* what there is.
LEMMA TasksRequestStep ==
    ASSUME TaskConstants, TasksIInv, NEW r \in Requests, NEW next \in T!Request,
           request' = [request EXCEPT ![r] = next], UNCHANGED <<task, gone, late>>,
           next.at \notin {"idle", "block"} => next.user \in Users,
           next.at \in {"claim", "complete", "block"} => next.task \in Tasks,
           next.at = "leave" =>
              \A t \in Tasks : task[t].status \in T!Open /\ task[t].holder = next.user
                               => t \in next.listed
    PROVE  TasksIInv'
<1>1. /\ request' \in [Requests -> T!Request]
      /\ \A q \in Requests : request'[q] = IF q = r THEN next ELSE request[q]
  BY DEF TasksIInv, T!TypeOK
<1>2. T!TypeOK' /\ T!HandedOver'
  BY <1>1 DEF TasksIInv, T!TypeOK, T!HandedOver
<1>3. TasksListed'
  BY <1>1 DEF TasksIInv, TasksListed, T!At
<1>4. TasksInHand'
  BY <1>1 DEF TasksIInv, TasksInHand, T!At
<1> QED BY <1>2, <1>3, <1>4 DEF TasksIInv

\* A step that writes tasks, in which a request ends or none does, and which
\* notes every task whose holder, or whose being open, is new: only tasks that
\* are not with a leaver stop being late.
LEMMA TasksWritten ==
    ASSUME TaskConstants, TasksIInv,
           task' \in [Tasks -> T!TaskRow], gone' = gone, late' \subseteq Tasks,
           request' = request \/ \E r \in Requests : T!End(r),
           \A t \in Tasks :
              \/ task'[t] = task[t] /\ (t \in late => t \in late')
              \/ task'[t].status \notin T!Open
              \/ ~T!Leaving(task'[t].holder)
              \/ t \in late'
    PROVE  TasksIInv'
<1>1. /\ request' \in [Requests -> T!Request]
      /\ \A q \in Requests : request'[q] = request[q] \/ request'[q] = T!Idle
  <2>1. request \in [Requests -> T!Request] /\ T!Idle \in T!Request
    BY DEF TasksIInv, T!TypeOK, T!Request, T!Idle
  <2>2. \A r \in Requests : T!End(r) => request' = [request EXCEPT ![r] = T!Idle]
    BY DEF T!End
  <2> HIDE DEF T!Idle, T!Request
  <2> QED BY <2>1, <2>2
<1>2. T!TypeOK'
  BY <1>1 DEF TasksIInv, T!TypeOK
<1>3. T!HandedOver'
  BY DEF TasksIInv, T!HandedOver, T!Leaving
<1>4. TasksListed'
  <2> SUFFICES ASSUME NEW r \in Requests, NEW t \in Tasks, T!At(r, "leave")',
                      task'[t].status \in T!Open, task'[t].holder = request'[r].user
               PROVE  t \in request'[r].listed \cup late'
    BY DEF TasksListed
  <2>1. request'[r] = request[r] /\ T!At(r, "leave")
    BY <1>1 DEF T!At, T!Idle
  <2>2. T!Leaving(task'[t].holder)
    BY <2>1 DEF T!Leaving
  <2> QED BY <2>1, <2>2 DEF TasksIInv, TasksListed
<1>5. TasksInHand'
  BY <1>1 DEF TasksIInv, TasksInHand, T!At, T!Idle
<1> QED BY <1>2, <1>3, <1>4, <1>5 DEF TasksIInv
-----------------------------------------------------------------------------
LEMMA TasksStarting ==
    ASSUME TaskConstants, TasksIInv, NEW r \in Requests,
           \/ \E u \in Users, t \in Tasks : T!BeginClaim(r, u, t) \/ T!BeginComplete(r, u, t)
           \/ \E t \in Tasks : T!BeginBlock(r, t)
           \/ \E u \in Users : T!BeginDeactivate(r, u)
           \/ T!Abandon(r)
    PROVE  TasksIInv'
<1>1. ASSUME NEW u \in Users, NEW t \in Tasks, T!BeginClaim(r, u, t) PROVE TasksIInv'
  <2> DEFINE next == [T!Idle EXCEPT !.at = "claim", !.user = u, !.task = t]
  <2>1. next \in T!Request /\ next.at = "claim" /\ next.user = u /\ next.task = t
    BY DEF T!Request, T!Idle
  <2>2. request' = [request EXCEPT ![r] = next] /\ UNCHANGED <<task, gone, late>>
    BY <1>1 DEF T!BeginClaim, T!Begin
  <2> HIDE DEF next
  <2> QED BY <2>1, <2>2, TasksRequestStep
<1>2. ASSUME NEW u \in Users, NEW t \in Tasks, T!BeginComplete(r, u, t) PROVE TasksIInv'
  <2> DEFINE next == [T!Idle EXCEPT !.at = "complete", !.user = u, !.task = t,
                                  !.holder = task[t].holder]
  <2>1. next \in T!Request /\ next.at = "complete" /\ next.user = u /\ next.task = t
    BY DEF T!Request, T!Idle, TasksIInv, T!TypeOK, T!TaskRow
  <2>2. request' = [request EXCEPT ![r] = next] /\ UNCHANGED <<task, gone, late>>
    BY <1>2 DEF T!BeginComplete, T!Begin
  <2> HIDE DEF next
  <2> QED BY <2>1, <2>2, TasksRequestStep
<1>3. ASSUME NEW t \in Tasks, T!BeginBlock(r, t) PROVE TasksIInv'
  <2> DEFINE next == [T!Idle EXCEPT !.at = "block", !.task = t]
  <2>1. next \in T!Request /\ next.at = "block" /\ next.task = t
    BY DEF T!Request, T!Idle
  <2>2. request' = [request EXCEPT ![r] = next] /\ UNCHANGED <<task, gone, late>>
    BY <1>3 DEF T!BeginBlock, T!Begin
  <2> HIDE DEF next
  <2> QED BY <2>1, <2>2, TasksRequestStep
<1>4. ASSUME NEW u \in Users, T!BeginDeactivate(r, u) PROVE TasksIInv'
  <2> DEFINE mine == {t \in Tasks : task[t].holder = u /\ task[t].status \in T!Open}
             next == [T!Idle EXCEPT !.at = "leave", !.user = u, !.listed = mine]
  <2>1. next \in T!Request /\ next.at = "leave" /\ next.user = u /\ next.listed = mine
    BY DEF T!Request, T!Idle
  <2>2. request' = [request EXCEPT ![r] = next] /\ UNCHANGED <<task, gone, late>>
    BY <1>4 DEF T!BeginDeactivate, T!Begin
  <2> HIDE DEF next
  <2> QED BY <2>1, <2>2, TasksRequestStep
<1>5. CASE T!Abandon(r)
  <2>1. T!Idle \in T!Request /\ T!Idle.at = "idle"
    BY DEF T!Request, T!Idle
  <2> QED BY <1>5, <2>1, TasksRequestStep DEF T!Abandon, T!End
<1> QED BY <1>1, <1>2, <1>3, <1>4, <1>5

LEMMA TasksWriting ==
    ASSUME TaskConstants, TasksIInv,
           \/ \E r \in Requests : T!CommitClaim(r) \/ T!CommitComplete(r) \/ T!CommitBlock(r)
           \/ \E t \in Tasks, u \in Users \cup {Null}, blocker \in Tasks \cup {Null} :
                 T!CreateTask(t, u, blocker)
           \/ \E t \in Tasks, u \in Users : T!ReassignTask(t, u)
    PROVE  TasksIInv'
<1>t. task \in [Tasks -> T!TaskRow] /\ late \subseteq Tasks
  BY DEF TasksIInv, T!TypeOK
<1>1. ASSUME NEW r \in Requests, T!CommitClaim(r) PROVE TasksIInv'
  <2> DEFINE u == request[r].user
             k == request[r].task
  <2>1. u \in Users /\ k \in Tasks
    BY <1>1 DEF T!CommitClaim, T!At, TasksIInv, TasksInHand
  <2>2. /\ task' = [task EXCEPT ![k].holder = u, ![k].status = "IN_PROGRESS"]
        /\ T!Noted(k, u) /\ T!End(r) /\ gone' = gone
    BY <1>1 DEF T!CommitClaim
  <2> HIDE DEF u, k
  <2>3. task' \in [Tasks -> T!TaskRow] /\ task'[k].holder = u
        /\ \A t \in Tasks \ {k} : task'[t] = task[t]
    BY <1>t, <2>1, <2>2 DEF T!TaskRow, T!Open
  <2> QED BY <1>t, <2>1, <2>2, <2>3, TasksWritten DEF T!Noted
<1>2. ASSUME NEW r \in Requests, T!CommitComplete(r) PROVE TasksIInv'
  <2> DEFINE k == request[r].task
             u == IF request[r].holder = Null THEN request[r].user ELSE request[r].holder
             done == [task EXCEPT ![k].status = "DONE", ![k].holder = u]
  <2>1. u \in Users /\ k \in Tasks
    BY <1>2 DEF T!CommitComplete, T!At, TasksIInv, TasksInHand, T!TypeOK, T!Request
  <2>2. /\ done \in [Tasks -> T!TaskRow] /\ done[k].holder = u /\ done[k].status = "DONE"
        /\ \A t \in Tasks \ {k} : done[t] = task[t]
    BY <1>t, <2>1, SMTT(30) DEF T!TaskRow
  <2>3. T!End(r) /\ gone' = gone
    BY <1>2 DEF T!CommitComplete
  <2>4. CASE T!Waiting(k) = {}
    <3>1. task' = done /\ T!Noted(k, u)
      BY <1>2, <2>4 DEF T!CommitComplete
    <3> HIDE DEF done, u, k
    <3> QED BY <1>t, <2>1, <2>2, <2>3, <3>1, TasksWritten DEF T!Noted, T!Open
  <2>5. CASE T!Waiting(k) # {}
    <3>1. PICK n \in T!Waiting(k) :
             /\ task' = [done EXCEPT ![n].status = "OPEN"]
             /\ late' = {j \in Tasks : \/ j \in late /\ j # k
                                       \/ j \in {k, n} /\ T!Leaving(task'[j].holder)}
      BY <1>2, <2>5 DEF T!CommitComplete
    <3>2. n \in Tasks
      BY DEF T!Waiting
    <3> HIDE DEF done, u, k
    <3>3. /\ task' \in [Tasks -> T!TaskRow]
          /\ \A t \in Tasks \ {n} : task'[t] = done[t]
      BY <2>2, <3>1, <3>2 DEF T!TaskRow, T!Open
    <3>4. \A t \in Tasks : \/ task'[t] = task[t] /\ (t \in late => t \in late')
                           \/ ~T!Leaving(task'[t].holder)
                           \/ t \in late'
      BY <2>2, <3>1, <3>3
    <3> QED BY <2>3, <3>1, <3>3, <3>4, TasksWritten, SMTT(30)
  <2> QED BY <2>4, <2>5
<1>3. ASSUME NEW r \in Requests, T!CommitBlock(r) PROVE TasksIInv'
  <2> DEFINE k == request[r].task
  <2>1. k \in Tasks
    BY <1>3 DEF T!CommitBlock, T!At, TasksIInv, TasksInHand
  <2>2. /\ task' = [task EXCEPT ![k].status = "BLOCKED"] /\ T!End(r) /\ gone' = gone
        /\ late' = IF T!Leaving(task[k].holder) THEN late \cup {k} ELSE late
    BY <1>3 DEF T!CommitBlock
  <2> HIDE DEF k
  <2>3. /\ task' \in [Tasks -> T!TaskRow] /\ task'[k].holder = task[k].holder
        /\ \A t \in Tasks \ {k} : task'[t] = task[t]
    BY <1>t, <2>1, <2>2 DEF T!TaskRow, T!Open
  <2> QED BY <1>t, <2>1, <2>2, <2>3, TasksWritten
<1>4. ASSUME NEW k \in Tasks, NEW u \in Users \cup {Null}, NEW blocker \in Tasks \cup {Null},
             T!CreateTask(k, u, blocker)
      PROVE  TasksIInv'
  <2> DEFINE row == [status |-> IF blocker = Null THEN "OPEN" ELSE "BLOCKED",
                     holder |-> u, blocker |-> blocker]
  <2>1. row \in T!TaskRow /\ row.holder = u
    BY DEF T!TaskRow, T!Open
  <2>2. task' = [task EXCEPT ![k] = row] /\ T!Noted(k, u) /\ UNCHANGED <<gone, request>>
    BY <1>4 DEF T!CreateTask
  <2> HIDE DEF row
  <2>3. /\ task' \in [Tasks -> T!TaskRow] /\ task'[k].holder = u
        /\ \A t \in Tasks \ {k} : task'[t] = task[t]
    BY <1>t, <2>1, <2>2
  <2> QED BY <1>t, <2>2, <2>3, TasksWritten DEF T!Noted
<1>5. ASSUME NEW k \in Tasks, NEW u \in Users, T!ReassignTask(k, u) PROVE TasksIInv'
  <2>1. /\ task' = [task EXCEPT ![k].holder = u] /\ T!Noted(k, u)
        /\ UNCHANGED <<gone, request>>
    BY <1>5 DEF T!ReassignTask
  <2>2. /\ task' \in [Tasks -> T!TaskRow] /\ task'[k].holder = u
        /\ \A t \in Tasks \ {k} : task'[t] = task[t]
    BY <1>t, <2>1 DEF T!TaskRow
  <2> QED BY <1>t, <2>1, <2>2, TasksWritten DEF T!Noted
<1> QED BY <1>1, <1>2, <1>3, <1>4, <1>5

\* The listed tasks go back to the queue, where nobody holds them.
LEMMA TasksParting ==
    ASSUME TaskConstants, TasksIInv, NEW r \in Requests, T!CommitDeactivate(r)
    PROVE  TasksIInv'
<1> DEFINE list == request[r].listed
           u == request[r].user
<1>1. /\ gone' = gone \cup {u} /\ late' = late \ list
      /\ request' = [request EXCEPT ![r] = T!Idle] /\ T!At(r, "leave")
      /\ task' = [t \in Tasks |-> IF t \in list THEN [task[t] EXCEPT !.holder = Null]
                                  ELSE task[t]]
  BY DEF T!CommitDeactivate, T!End
<1>2. u \in Users /\ gone \subseteq Users /\ late \subseteq Tasks
      /\ task \in [Tasks -> T!TaskRow] /\ request \in [Requests -> T!Request]
  BY <1>1 DEF T!At, TasksIInv, TasksInHand, T!TypeOK
<1>3. \A t \in Tasks : u = task[t].holder /\ task[t].status \in T!Open => t \in list \cup late
  BY <1>1 DEF TasksIInv, TasksListed
<1> HIDE DEF list, u
<1>4. /\ task' \in [Tasks -> T!TaskRow]
      /\ \A t \in Tasks : task'[t].status = task[t].status
      /\ \A t \in Tasks : IF t \in list THEN task'[t].holder = Null
                                        ELSE task'[t].holder = task[t].holder
  BY <1>1, <1>2 DEF T!TaskRow
<1>5. /\ request' \in [Requests -> T!Request]
      /\ \A q \in Requests : request'[q] = request[q] \/ request'[q] = T!Idle
  BY <1>1, <1>2 DEF T!Request, T!Idle
<1>6. T!TypeOK'
  BY <1>1, <1>2, <1>4, <1>5 DEF T!TypeOK
<1>7. T!HandedOver'
  BY <1>1, <1>2, <1>3, <1>4 DEF TaskConstants, TasksIInv, T!HandedOver
<1>8. TasksInHand'
  BY <1>5 DEF TasksIInv, TasksInHand, T!At, T!Idle
<1>9. TasksListed'
  <2> SUFFICES ASSUME NEW q \in Requests, NEW t \in Tasks, T!At(q, "leave")',
                      task'[t].status \in T!Open, task'[t].holder = request'[q].user
               PROVE  t \in request'[q].listed \cup late'
    BY DEF TasksListed
  <2>1. request'[q] = request[q] /\ T!At(q, "leave") /\ request[q].user \in Users
    BY <1>5 DEF T!At, T!Idle, TasksIInv, TasksInHand
  <2>2. t \notin list /\ task'[t].holder = task[t].holder
    BY <1>4, <2>1 DEF TaskConstants
  <2>3. t \in request[q].listed \cup late
    BY <1>4, <2>1, <2>2 DEF TasksIInv, TasksListed
  <2> QED BY <1>1, <2>1, <2>2, <2>3
<1> QED BY <1>6, <1>7, <1>8, <1>9 DEF TasksIInv

LEMMA TasksNext == ASSUME TaskConstants, TasksIInv, [T!Next]_T!taskVars PROVE TasksIInv'
<1>1. CASE UNCHANGED T!taskVars
  BY <1>1 DEF T!taskVars, TasksIInv, T!TypeOK, T!HandedOver, TasksListed, TasksInHand, T!At
<1>2. CASE T!Next
  BY <1>2, TasksStarting, TasksWriting, TasksParting DEF T!Next
<1> QED BY <1>1, <1>2
-----------------------------------------------------------------------------
\* The tasks and requests keep their types, for any numbered set of tasks.
THEOREM TasksTypeOK == ASSUME TaskConstants PROVE T!Spec => []T!TypeOK
<1>1. T!Init => TasksIInv
  BY TasksInit
<1>2. TasksIInv /\ [T!Next]_T!taskVars => TasksIInv'
  BY TasksNext
<1>3. TasksIInv => T!TypeOK
  BY DEF TasksIInv
<1> QED BY <1>1, <1>2, <1>3, PTL DEF T!Spec

\* However claims, completions, reassignments and departures overlap: whoever was
\* deactivated holds no open task, unless it fell to him while he was leaving.
THEOREM WorkIsHandedOver == ASSUME TaskConstants PROVE T!Spec => []T!HandedOver
<1>1. T!Init => TasksIInv
  BY TasksInit
<1>2. TasksIInv /\ [T!Next]_T!taskVars => TasksIInv'
  BY TasksNext
<1>3. TasksIInv => T!HandedOver
  BY DEF TasksIInv
<1> QED BY <1>1, <1>2, <1>3, PTL DEF T!Spec
-----------------------------------------------------------------------------
(***************************************************************************)
(* The warnings.  A sweep sends without a look at what others do, so what is *)
(* bounded is what was sent together with what is about to be sent.        *)
(***************************************************************************)
\* The rules have a threshold, and nobody is not somebody.
WarnConstants ==
    /\ IsFiniteSet(Sweepers) /\ Thresholds \in Nat \ {0}
    /\ Null \notin People /\ Candidate \in People /\ Managers \subseteq People

\* A sweep that goes on from x sends warning w to p: nothing is asked any more.
WillSend(x, w, p) ==
    /\ x.warning = w
    /\ \/ x.at = "fire"
       \/ x.at = "check" /\ subject = "invoice"
       \/ x.at = "send" /\ p \in x.to
Senders(w, p) == {s \in Sweepers : WillSend(sweep[s], w, p)}

\* What is sent and what will be sent came, or comes, from different sweeps.
WarningsBounded ==
    \A w \in E!Warnings, p \in People :
        ledger[w][p] + Cardinality(Senders(w, p)) <= Cardinality(Sweepers)
RemindersRead ==
    \A s \in Sweepers :
        subject = "task" /\ E!At(s, "check") => sweep[s].seen \in People /\ sweep[s].warning = 1

WarnIInv == E!TypeOK /\ RemindersRead /\ WarningsBounded

\* Whoever looks up a threshold knows that the one before was sent or gone through.
Passed(w) == E!Sent(w) \/ w \in fired
InOrder(x) ==
    x.at \in {"check", "fire", "send"} /\ x.warning \in 2..Thresholds => Passed(x.warning - 1)
OrderIInv == E!WarnedInOrder /\ \A s \in Sweepers : InOrder(sweep[s])
-----------------------------------------------------------------------------
LEMMA WarnInit == ASSUME WarnConstants, E!Init PROVE WarnIInv /\ OrderIInv
<1>1. Thresholds \in Nat /\ Thresholds # 0 /\ E!Inactive \in Nat /\ E!Inactive = Thresholds + 1
  BY DEF WarnConstants, E!Inactive
<1>2. E!NoSweep \in E!Sweep /\ E!NoSweep.at = "idle"
  BY <1>1 DEF E!NoSweep, E!Sweep, E!Escalation
<1>3. /\ subject \in {"case", "idleCase", "task", "invoice"}
      /\ progress = "ACTIVE" /\ owner = Null /\ reached = 0 /\ fired = {}
      /\ ledger = [w \in E!Warnings |-> [p \in People |-> 0]]
      /\ sweep = [s \in Sweepers |-> E!NoSweep]
  BY DEF E!Init
<1>4. 0 \in 0..E!Inactive
  BY <1>1
<1>5. \A s \in Sweepers : sweep[s] = E!NoSweep
  BY <1>3
<1>6. E!TypeOK
  BY <1>2, <1>3, <1>4 DEF E!TypeOK
<1>7. RemindersRead
  BY <1>2, <1>5 DEF RemindersRead, E!At
<1>8. WarningsBounded
  <2> SUFFICES ASSUME NEW w \in E!Warnings, NEW p \in People
               PROVE  ledger[w][p] + Cardinality(Senders(w, p)) <= Cardinality(Sweepers)
    BY DEF WarningsBounded
  <2>1. ledger[w][p] = 0 /\ Senders(w, p) = {}
    BY <1>2, <1>3, <1>5 DEF Senders, WillSend
  <2>2. Cardinality(Sweepers) \in Nat /\ Cardinality({}) = 0
    BY FS_EmptySet, FS_CardinalityType DEF WarnConstants
  <2> QED BY <2>1, <2>2
<1>9. \A s \in Sweepers : InOrder(sweep[s])
  BY <1>2, <1>5 DEF InOrder
<1>10. E!WarnedInOrder
  <2>1. \A w \in 2..Thresholds : w \in E!Warnings
    BY <1>1 DEF E!Warnings
  <2>2. \A w \in E!Warnings, p \in People : ~(ledger[w][p] > 0)
    BY <1>3
  <2> QED BY <2>1, <2>2 DEF E!WarnedInOrder, E!Sent
<1> QED BY <1>6, <1>7, <1>8, <1>9, <1>10 DEF WarnIInv, OrderIInv

\* A step in which one sweep moves on and nothing is sent.
LEMMA WarnMove ==
    ASSUME WarnConstants, WarnIInv, NEW s \in Sweepers, NEW next \in E!Sweep,
           sweep' = [sweep EXCEPT ![s] = next],
           progress' \in {"ACTIVE", "STOPPED", "ESCALATED"},
           owner' \in People \cup {Null}, UNCHANGED <<subject, reached, ledger>>,
           fired' \subseteq 0..Thresholds,
           subject = "task" /\ next.at = "check" => next.seen \in People /\ next.warning = 1,
           \A w \in E!Warnings, p \in People :
              WillSend(next, w, p) => WillSend(sweep[s], w, p) \/ ledger[w][p] = 0
    PROVE  WarnIInv'
<1>1. /\ sweep' \in [Sweepers -> E!Sweep]
      /\ \A q \in Sweepers : sweep'[q] = IF q = s THEN next ELSE sweep[q]
  BY DEF WarnIInv, E!TypeOK
<1>2. E!TypeOK'
  BY <1>1 DEF WarnIInv, E!TypeOK
<1>3. RemindersRead'
  BY <1>1 DEF WarnIInv, RemindersRead, E!At
<1>4. WarningsBounded'
  <2> SUFFICES ASSUME NEW w \in E!Warnings, NEW p \in People
               PROVE  ledger[w][p] + Cardinality(Senders(w, p)') <= Cardinality(Sweepers)
    BY DEF WarningsBounded
  <2>1. /\ ledger[w][p] \in Nat /\ IsFiniteSet(Sweepers)
        /\ ledger[w][p] + Cardinality(Senders(w, p)) <= Cardinality(Sweepers)
    BY DEF WarnIInv, WarningsBounded, E!TypeOK, WarnConstants
  <2>2. Senders(w, p)' \subseteq Senders(w, p) \/ ledger[w][p] = 0
    BY <1>1 DEF Senders, WillSend
  <2>3. Senders(w, p) \subseteq Sweepers /\ Senders(w, p)' \subseteq Sweepers
    BY DEF Senders
  <2> HIDE DEF Senders
  <2> QED BY <2>1, <2>2, <2>3, StaysWithin
<1> QED BY <1>2, <1>3, <1>4 DEF WarnIInv

LEMMA WarnSweeps ==
    ASSUME WarnConstants, WarnIInv, NEW s \in Sweepers,
           \/ E!Begin(s) \/ E!Breach(s) \/ E!Check(s) \/ E!Fire(s) \/ E!NextThreshold(s)
           \/ E!Finish(s) \/ E!Die(s)
           \/ \E idle \in BOOLEAN : E!CheckInactive(s, idle)
           \/ E!BeginReminder(s) \/ E!CheckReminder(s) \/ E!BeginDunning(s) \/ E!FindContact(s)
    PROVE  WarnIInv'
<1>n. /\ Thresholds \in Nat \ {0} /\ E!Inactive = Thresholds + 1 /\ E!Limit \in 1..Thresholds
      /\ 0 \in 0..E!Inactive /\ 1 \in 0..E!Escalation /\ E!Inactive \in 0..E!Escalation
      /\ 0 \in 0..E!Escalation /\ E!Escalation \in 0..E!Escalation
      /\ E!Escalation = E!Inactive + 1
  BY DEF WarnConstants, E!Inactive, E!Escalation, E!Limit
<1>t. /\ sweep[s] \in E!Sweep /\ subject \in {"case", "idleCase", "task", "invoice"}
      /\ progress \in {"ACTIVE", "STOPPED", "ESCALATED"} /\ owner \in People \cup {Null}
      /\ ledger \in [E!Warnings -> [People -> Nat]] /\ sweep \in [Sweepers -> E!Sweep]
      /\ reached \in 0..E!Inactive /\ fired \subseteq 0..Thresholds
  BY DEF WarnIInv, E!TypeOK
<1>i. E!NoSweep \in E!Sweep /\ E!NoSweep.at = "idle"
  BY <1>n DEF E!NoSweep, E!Sweep
<1>0. \A w \in E!Warnings : ~E!Sent(w) => \A p \in People : ledger[w][p] = 0
  BY <1>t DEF E!Sent
<1>1. CASE E!Begin(s)
  <2> DEFINE next == [E!NoSweep EXCEPT !.at = IF reached > E!Limit THEN "breach" ELSE "check",
                                       !.seen = owner, !.hit = reached, !.warning = 1]
  <2>1. /\ E!Case /\ sweep' = [sweep EXCEPT ![s] = next]
        /\ UNCHANGED <<subject, progress, owner, reached, ledger, fired>>
    BY <1>1 DEF E!Begin, E!Step
  <2>2. next \in E!Sweep /\ next.at \in {"breach", "check"}
    BY <1>n, <1>t DEF E!NoSweep, E!Sweep
  <2> HIDE DEF next
  <2> QED BY <1>t, <2>1, <2>2, WarnMove DEF WillSend, E!Case
<1>2. CASE E!Breach(s)
  <2> DEFINE next == [sweep[s] EXCEPT !.at = "send", !.warning = E!Escalation,
                                      !.to = E!Named(sweep[s].seen)]
  <2>1. /\ progress' = "ESCALATED"
        /\ sweep' = [sweep EXCEPT ![s].at = "send", ![s].warning = E!Escalation,
                                  ![s].to = E!Named(sweep[s].seen)]
        /\ UNCHANGED <<subject, owner, reached, ledger, fired>>
    BY <1>2 DEF E!Breach
  <2>2. E!Named(sweep[s].seen) \in SUBSET People
    BY <1>t DEF E!Named, E!Sweep
  <2> HIDE DEF E!Named
  <2>3. next \in E!Sweep /\ next.at = "send" /\ next.warning = E!Escalation
    BY <1>n, <1>t, <2>2 DEF E!Sweep
  <2>4. sweep' = [sweep EXCEPT ![s] = next]
    BY <1>t, <2>1
  <2> HIDE DEF next
  <2>5. E!Escalation \notin E!Warnings
    BY <1>n DEF E!Warnings
  <2>6. \A v \in E!Warnings, p \in People : ~WillSend(next, v, p)
    BY <2>3, <2>5 DEF WillSend
  <2> QED BY <1>t, <2>1, <2>3, <2>4, <2>6, WarnMove
<1>3. CASE E!Check(s)
  <2> DEFINE w == sweep[s].warning
             skip == [sweep[s] EXCEPT !.warning = E!Inactive]
             up == [sweep[s] EXCEPT !.warning = w + 1]
             fire == [sweep[s] EXCEPT !.at = "fire"]
  <2>0. w \in Nat /\ sweep[s].hit \in Nat
    BY <1>n, <1>t DEF E!Sweep
  <2>1. /\ E!Case /\ w <= E!Limit /\ E!At(s, "check")
        /\ UNCHANGED <<subject, progress, owner, reached, ledger, fired>>
        /\ \/ sweep' = [sweep EXCEPT ![s] = skip]
           \/ sweep' = [sweep EXCEPT ![s] = up]
           \/ ~(w > sweep[s].hit) /\ ~(w <= sweep[s].hit /\ E!Sent(w))
              /\ sweep' = [sweep EXCEPT ![s] = fire]
    <3>1. CASE w > sweep[s].hit
      <4>1. ~(w <= sweep[s].hit)
        BY <2>0, <3>1
      <4> QED BY <1>3, <3>1, <4>1 DEF E!Check, E!Step
    <3>2. CASE ~(w > sweep[s].hit) /\ w <= sweep[s].hit /\ E!Sent(w)
      BY <1>3, <3>2 DEF E!Check, E!Step
    <3>3. CASE ~(w > sweep[s].hit) /\ ~(w <= sweep[s].hit /\ E!Sent(w))
      BY <1>3, <3>3 DEF E!Check, E!Step
    <3> QED BY <3>1, <3>2, <3>3
  <2>2. w \in Nat /\ sweep[s].hit \in Nat /\ w + 1 \in 0..E!Escalation
    BY <1>n, <1>t, <2>1 DEF E!Sweep
  <2>3. /\ skip \in E!Sweep /\ skip.at = sweep[s].at
        /\ up \in E!Sweep /\ up.at = sweep[s].at
        /\ fire \in E!Sweep /\ fire.at = "fire" /\ fire.warning = w
    BY <1>n, <1>t, <2>2 DEF E!Sweep
  <2>4. subject # "task" /\ subject # "invoice" /\ sweep[s].at = "check"
    BY <2>1 DEF E!Case, E!At
  <2>5. ~(w > sweep[s].hit) /\ ~(w <= sweep[s].hit /\ E!Sent(w)) => ~E!Sent(w)
    BY <2>2
  <2> HIDE DEF skip, up, fire, w
  <2>6. CASE sweep' = [sweep EXCEPT ![s] = skip] \/ sweep' = [sweep EXCEPT ![s] = up]
    BY <1>t, <2>1, <2>3, <2>4, <2>6, WarnMove DEF WillSend
  <2>7. CASE ~E!Sent(w) /\ sweep' = [sweep EXCEPT ![s] = fire]
    <3>1. \A v \in E!Warnings, p \in People :
             WillSend(fire, v, p) => WillSend(sweep[s], v, p) \/ ledger[v][p] = 0
      BY <1>0, <2>3, <2>7 DEF WillSend
    <3>2. fire.at # "check"
      BY <2>3
    <3> QED BY <1>t, <2>1, <2>3, <2>7, <3>1, <3>2, WarnMove
  <2> QED BY <2>1, <2>5, <2>6, <2>7
<1>4. CASE E!Fire(s)
  <2> DEFINE next == [sweep[s] EXCEPT !.at = "send", !.to = E!Recipients(s)]
  <2>1. /\ E!At(s, "fire") /\ owner' \in People \cup {Null}
        /\ sweep' = [sweep EXCEPT ![s].at = "send", ![s].to = E!Recipients(s)]
        /\ UNCHANGED <<subject, progress, reached, ledger, fired>>
    BY <1>4, <1>t DEF E!Fire, WarnConstants
  <2>2. E!Recipients(s) \in SUBSET People
    BY <1>t DEF E!Recipients, E!Named, WarnConstants, E!Sweep
  <2> HIDE DEF E!Recipients
  <2>3. next \in E!Sweep /\ next.at = "send" /\ next.warning = sweep[s].warning
    BY <1>t, <2>2 DEF E!Sweep
  <2>4. sweep' = [sweep EXCEPT ![s] = next]
    BY <1>t, <2>1
  <2> HIDE DEF next
  <2>5. \A v \in E!Warnings, p \in People : WillSend(next, v, p) => WillSend(sweep[s], v, p)
    BY <2>1, <2>3 DEF WillSend, E!At
  <2>6. next.at # "check"
    BY <2>3
  <2> QED BY <1>t, <2>1, <2>3, <2>4, <2>5, <2>6, WarnMove
<1>5. CASE E!NextThreshold(s)
  <2> DEFINE next == [sweep[s] EXCEPT !.at = "check", !.warning = @ + 1]
  <2>1. /\ UNCHANGED <<subject, progress, owner, reached, ledger>>
        /\ E!Case /\ sweep[s].warning < E!Inactive
        /\ sweep' = [sweep EXCEPT ![s].at = "check", ![s].warning = @ + 1]
        /\ fired' = fired \cup {sweep[s].warning}
    BY <1>5 DEF E!NextThreshold
  <2>2. sweep[s].warning + 1 \in 0..E!Escalation /\ sweep[s].warning \in 0..Thresholds
    BY <1>n, <1>t, <2>1 DEF E!Sweep
  <2>3. next \in E!Sweep /\ next.at = "check"
    BY <1>t, <2>2 DEF E!Sweep
  <2>4. sweep' = [sweep EXCEPT ![s] = next]
    BY <1>t, <2>1
  <2>5. fired' \subseteq 0..Thresholds
    BY <1>t, <2>1, <2>2
  <2> HIDE DEF next
  <2> QED BY <1>t, <1>i, <2>1, <2>3, <2>4, <2>5, WarnMove DEF WillSend, E!Case
<1>6. CASE E!Finish(s) \/ E!Die(s)
  BY <1>6, <1>t, <1>i, WarnMove DEF E!Finish, E!Die, E!Step, WillSend
<1>7. ASSUME NEW idle \in BOOLEAN, E!CheckInactive(s, idle) PROVE WarnIInv'
  <2> DEFINE fire == [sweep[s] EXCEPT !.at = "fire", !.warning = E!Inactive]
  <2>1. /\ UNCHANGED <<subject, progress, owner, reached, ledger, fired>>
        /\ \/ ~E!Sent(E!Inactive) /\ sweep' = [sweep EXCEPT ![s] = fire]
           \/ sweep' = [sweep EXCEPT ![s] = E!NoSweep]
    BY <1>7 DEF E!CheckInactive, E!Step
  <2>2. fire \in E!Sweep /\ fire.at = "fire" /\ fire.warning = E!Inactive
    BY <1>n, <1>t DEF E!Sweep
  <2>3. E!Inactive \in E!Warnings
    BY <1>n DEF E!Warnings
  <2> HIDE DEF fire
  <2>4. ~E!Sent(E!Inactive) =>
           \A v \in E!Warnings, p \in People : WillSend(fire, v, p) => ledger[v][p] = 0
    BY <1>0, <2>2 DEF WillSend
  <2> QED BY <1>t, <1>i, <2>1, <2>2, <2>4, WarnMove DEF WillSend
<1>8. CASE E!BeginReminder(s)
  <2> DEFINE next == [E!NoSweep EXCEPT !.at = "check", !.seen = owner, !.warning = 1]
  <2>1. /\ subject = "task" /\ owner # Null /\ sweep' = [sweep EXCEPT ![s] = next]
        /\ UNCHANGED <<subject, progress, owner, reached, ledger, fired>>
    BY <1>8 DEF E!BeginReminder, E!Step
  <2>2. next \in E!Sweep /\ next.at = "check" /\ next.seen = owner /\ next.warning = 1
    BY <1>n, <1>t DEF E!NoSweep, E!Sweep
  <2> HIDE DEF next
  <2> QED BY <1>t, <2>1, <2>2, WarnMove DEF WillSend
<1>9. CASE E!CheckReminder(s)
  <2> DEFINE next == [sweep[s] EXCEPT !.at = "send", !.to = {sweep[s].seen}]
  <2>1. /\ subject = "task" /\ E!At(s, "check")
        /\ UNCHANGED <<subject, progress, owner, reached, ledger, fired>>
        /\ \/ ledger[1][sweep[s].seen] = 0 /\ sweep' = [sweep EXCEPT ![s] = next]
           \/ sweep' = [sweep EXCEPT ![s] = E!NoSweep]
    BY <1>9 DEF E!CheckReminder, E!Step
  <2>2. sweep[s].seen \in People /\ sweep[s].warning = 1
    BY <2>1 DEF WarnIInv, RemindersRead
  <2>3. next \in E!Sweep /\ next.at = "send" /\ next.to = {sweep[s].seen} /\ next.warning = 1
    BY <1>t, <2>2 DEF E!Sweep
  <2> HIDE DEF next
  <2> QED BY <1>t, <1>i, <2>1, <2>3, WarnMove DEF WillSend
<1>10. CASE E!BeginDunning(s)
  <2> DEFINE next == [E!NoSweep EXCEPT !.at = "check", !.warning = 1]
  <2>1. /\ subject = "invoice" /\ ~E!Sent(1) /\ sweep' = [sweep EXCEPT ![s] = next]
        /\ UNCHANGED <<subject, progress, owner, reached, ledger, fired>>
    BY <1>10 DEF E!BeginDunning, E!Step
  <2>2. next \in E!Sweep /\ next.at = "check" /\ next.warning = 1
    BY <1>n DEF E!NoSweep, E!Sweep
  <2> HIDE DEF next
  <2>3. 1 \in E!Warnings
    BY <1>n DEF E!Warnings
  <2>4. \A v \in E!Warnings, p \in People :
           WillSend(next, v, p) => WillSend(sweep[s], v, p) \/ ledger[v][p] = 0
    BY <1>0, <2>1, <2>2, <2>3 DEF WillSend
  <2> QED BY <1>t, <2>1, <2>2, <2>4, WarnMove
<1>11. CASE E!FindContact(s)
  <2> DEFINE next == [sweep[s] EXCEPT !.at = "send", !.to = E!Named(owner)]
  <2>1. /\ subject = "invoice" /\ E!At(s, "check") /\ sweep' = [sweep EXCEPT ![s] = next]
        /\ UNCHANGED <<subject, progress, owner, reached, ledger, fired>>
    BY <1>11 DEF E!FindContact, E!Step
  <2>2. next \in E!Sweep /\ next.at = "send" /\ next.warning = sweep[s].warning
    BY <1>t DEF E!Sweep, E!Named
  <2> HIDE DEF next
  <2> QED BY <1>t, <2>1, <2>2, WarnMove, ZenonT(40) DEF WillSend, E!At
<1> QED BY <1>1, <1>2, <1>3, <1>4, <1>5, <1>6, <1>7, <1>8, <1>9, <1>10, <1>11

LEMMA WarnSends ==
    ASSUME WarnConstants, WarnIInv, NEW s \in Sweepers, NEW p \in People, E!Send(s, p)
    PROVE  WarnIInv'
<1> DEFINE w == sweep[s].warning
           next == [sweep[s] EXCEPT !.to = @ \ {p}]
<1>t. /\ sweep[s] \in E!Sweep /\ sweep \in [Sweepers -> E!Sweep]
      /\ ledger \in [E!Warnings -> [People -> Nat]] /\ IsFiniteSet(Sweepers)
  BY DEF WarnIInv, E!TypeOK, WarnConstants
<1>1. /\ E!At(s, "send") /\ p \in sweep[s].to
      /\ sweep' = [sweep EXCEPT ![s].to = @ \ {p}]
      /\ UNCHANGED <<subject, progress, owner, reached, fired>>
      /\ \/ w \in E!Warnings /\ ledger' = [ledger EXCEPT ![w][p] = @ + 1]
         \/ UNCHANGED ledger
  BY DEF E!Send
<1>2. /\ next \in E!Sweep /\ next.at = "send" /\ next.warning = w
      /\ next.to = sweep[s].to \ {p} /\ sweep[s].at = "send"
  BY <1>t, <1>1 DEF E!Sweep, E!At
<1>3. sweep' = [sweep EXCEPT ![s] = next]
  BY <1>t, <1>1
<1> HIDE DEF next, w
<1>4. /\ sweep' \in [Sweepers -> E!Sweep]
      /\ \A q \in Sweepers : sweep'[q] = IF q = s THEN next ELSE sweep[q]
  BY <1>t, <1>2, <1>3
<1>0. CASE UNCHANGED ledger
  <2>1. \A v \in E!Warnings, k \in People : WillSend(next, v, k) => WillSend(sweep[s], v, k)
    BY <1>1, <1>2 DEF WillSend, w
  <2>2. /\ progress \in {"ACTIVE", "STOPPED", "ESCALATED"} /\ owner \in People \cup {Null}
        /\ fired \subseteq 0..Thresholds /\ next.at # "check"
    BY <1>2 DEF WarnIInv, E!TypeOK
  <2> QED BY <1>0, <1>1, <1>2, <1>3, <2>1, <2>2, WarnMove
<1> SUFFICES ASSUME w \in E!Warnings, ledger' = [ledger EXCEPT ![w][p] = @ + 1] PROVE WarnIInv'
  BY <1>0, <1>1
<1>5. /\ ledger' \in [E!Warnings -> [People -> Nat]]
      /\ \A v \in E!Warnings, k \in People :
            ledger'[v][k] = IF v = w /\ k = p THEN ledger[v][k] + 1 ELSE ledger[v][k]
  <2>1. \A v \in E!Warnings : ledger'[v] = IF v = w THEN [ledger[v] EXCEPT ![p] = @ + 1] ELSE ledger[v]
    BY <1>t, <1>1
  <2>2. \A v \in E!Warnings, k \in People : ledger[v][k] \in Nat /\ ledger[v][k] + 1 \in Nat
    BY <1>t
  <2>3. ASSUME NEW v \in E!Warnings PROVE ledger'[v] \in [People -> Nat]
    <3>1. ledger[v] \in [People -> Nat] /\ ledger[v][p] + 1 \in Nat
      BY <1>t, <2>2
    <3>2. [ledger[v] EXCEPT ![p] = @ + 1] \in [People -> Nat]
      BY <3>1
    <3> QED BY <2>1, <3>1, <3>2
  <2>4. ledger' \in [E!Warnings -> [People -> Nat]]
    BY <1>t, <1>1, <2>3
  <2>5. \A v \in E!Warnings, k \in People :
            ledger'[v][k] = IF v = w /\ k = p THEN ledger[v][k] + 1 ELSE ledger[v][k]
    BY <1>t, <2>1, ZenonT(40)
  <2> QED BY <2>4, <2>5
<1>6. E!TypeOK'
  BY <1>1, <1>4, <1>5 DEF WarnIInv, E!TypeOK
<1>7. RemindersRead'
  BY <1>1, <1>2, <1>4 DEF WarnIInv, RemindersRead, E!At
<1>8. WarningsBounded'
  <2> SUFFICES ASSUME NEW v \in E!Warnings, NEW k \in People
               PROVE  ledger'[v][k] + Cardinality(Senders(v, k)') <= Cardinality(Sweepers)
    BY DEF WarningsBounded
  <2>1. /\ ledger[v][k] \in Nat /\ ledger'[v][k] \in Nat
        /\ ledger[v][k] + Cardinality(Senders(v, k)) <= Cardinality(Sweepers)
    BY <1>t, <1>5 DEF WarnIInv, WarningsBounded
  <2>2. Senders(v, k)' \subseteq Senders(v, k)
    BY <1>1, <1>2, <1>4 DEF Senders, WillSend
  <2>3. CASE v = w /\ k = p
    <3>1. s \in Senders(v, k) /\ s \notin Senders(v, k)'
      BY <1>1, <1>2, <1>4, <2>3 DEF Senders, WillSend, w
    <3>2. ledger'[v][k] = ledger[v][k] + 1
      BY <1>5, <2>3
    <3>3. Senders(v, k) \subseteq Sweepers /\ Senders(v, k)' \subseteq Sweepers
      BY DEF Senders
    <3>4. Senders(v, k)' \subseteq Senders(v, k) \ {s}
      BY <2>2, <3>1
    <3> HIDE DEF Senders
    <3> QED BY <1>t, <2>1, <3>1, <3>2, <3>3, <3>4, StaysWithin
  <2>4. CASE ~(v = w /\ k = p)
    <3>1. ledger'[v][k] <= ledger[v][k]
      BY <1>5, <2>1, <2>4
    <3>2. Senders(v, k) \subseteq Sweepers /\ Senders(v, k)' \subseteq Sweepers
      BY DEF Senders
    <3> HIDE DEF Senders
    <3> QED BY <1>t, <2>1, <2>2, <3>1, <3>2, StaysWithin
  <2> QED BY <2>3, <2>4
<1> QED BY <1>6, <1>7, <1>8 DEF WarnIInv

LEMMA WarnNext == ASSUME WarnConstants, WarnIInv, [E!Next]_E!sweepVars PROVE WarnIInv'
<1>s. ASSUME sweep' = sweep, ledger' = ledger, subject' = subject, fired' = fired,
             progress' \in {"ACTIVE", "STOPPED", "ESCALATED"},
             owner' \in People \cup {Null}, reached' \in 0..E!Inactive
      PROVE  WarnIInv'
  BY <1>s DEF WarnIInv, E!TypeOK, RemindersRead, WarningsBounded, Senders, WillSend, E!At
<1>t. /\ subject \in {"case", "idleCase", "task", "invoice"}
      /\ progress \in {"ACTIVE", "STOPPED", "ESCALATED"} /\ owner \in People \cup {Null}
      /\ reached \in 0..E!Inactive
  BY DEF WarnIInv, E!TypeOK
<1>1. CASE UNCHANGED E!sweepVars
  BY <1>1, <1>s, <1>t DEF E!sweepVars
<1>2. ASSUME NEW s \in Sweepers,
             \/ E!Begin(s) \/ E!Breach(s) \/ E!Check(s) \/ E!Fire(s) \/ E!NextThreshold(s)
             \/ E!Finish(s) \/ E!Die(s)
             \/ \E idle \in BOOLEAN : E!CheckInactive(s, idle)
             \/ \E p \in People : E!Send(s, p)
             \/ E!BeginReminder(s) \/ E!CheckReminder(s) \/ E!BeginDunning(s) \/ E!FindContact(s)
      PROVE  WarnIInv'
  BY <1>2, WarnSweeps, WarnSends
<1>3. ASSUME NEW p \in People, E!Assign(p) PROVE WarnIInv'
  BY <1>3, <1>s, <1>t DEF E!Assign
<1>4. CASE E!TimePasses
  <2>1. reached + 1 \in 0..E!Inactive
    <3>1. reached <= E!Limit /\ reached \in Nat /\ E!Limit \in 1..Thresholds
      BY <1>4, <1>t DEF E!TimePasses, WarnConstants, E!Inactive, E!Limit
    <3>2. Thresholds \in Nat /\ E!Inactive = Thresholds + 1
      BY DEF WarnConstants, E!Inactive
    <3> QED BY <3>1, <3>2
  <2> QED BY <1>4, <1>s, <1>t, <2>1 DEF E!TimePasses
<1>5. ASSUME NEW from, NEW to \in {"ACTIVE", "STOPPED"}, E!Move(from, to) PROVE WarnIInv'
  BY <1>5, <1>s, <1>t DEF E!Move
<1>6. CASE E!Next
  BY <1>2, <1>3, <1>4, <1>5, <1>6 DEF E!Next
<1> QED BY <1>1, <1>6
-----------------------------------------------------------------------------
LEMMA WarnOnce == ASSUME WarnConstants, WarnIInv PROVE E!WarnedOnce
<1>0. E!Cardinality(Sweepers) = Cardinality(Sweepers)
  BY DEF E!Cardinality, Cardinality
<1> SUFFICES ASSUME NEW w \in E!Warnings, NEW p \in People
             PROVE  ledger[w][p] <= Cardinality(Sweepers)
  BY <1>0 DEF E!WarnedOnce
<1>1. /\ ledger[w][p] \in Nat
      /\ ledger[w][p] + Cardinality(Senders(w, p)) <= Cardinality(Sweepers)
  BY DEF WarnIInv, E!TypeOK, WarningsBounded
<1>2. Cardinality(Senders(w, p)) \in Nat /\ Cardinality(Sweepers) \in Nat
  <2>1. Senders(w, p) \subseteq Sweepers /\ IsFiniteSet(Sweepers)
    BY DEF Senders, WarnConstants
  <2> QED BY <2>1, FS_Subset, FS_CardinalityType
<1> QED BY <1>1, <1>2

\* What was sent stays sent.
LEMMA SentStays ==
    ASSUME WarnConstants, WarnIInv, [E!Next]_E!sweepVars
    PROVE  \A w \in E!Warnings : E!Sent(w) => E!Sent(w)'
<1>t. ledger \in [E!Warnings -> [People -> Nat]]
  BY Zenon DEF WarnIInv, E!TypeOK
<1>1. ledger' = ledger \/ \E s \in Sweepers, p \in People :
                            ledger' = [ledger EXCEPT ![sweep[s].warning][p] = @ + 1]
  BY DEF E!Next, E!sweepVars, E!Begin, E!Breach, E!Check, E!Fire, E!NextThreshold, E!Finish, E!Die,
         E!CheckInactive, E!Send, E!BeginReminder, E!CheckReminder, E!BeginDunning,
         E!FindContact, E!Assign, E!TimePasses, E!Move, E!Step
<1>2. \A w \in E!Warnings, p \in People : ledger[w][p] > 0 => ledger'[w][p] > 0
  <2> SUFFICES ASSUME NEW w \in E!Warnings, NEW p \in People, ledger[w][p] > 0
               PROVE  ledger'[w][p] > 0
    OBVIOUS
  <2>1. ASSUME NEW s \in Sweepers, NEW k \in People,
               ledger' = [ledger EXCEPT ![sweep[s].warning][k] = @ + 1]
        PROVE  ledger'[w][p] = ledger[w][p] \/ ledger'[w][p] = ledger[w][p] + 1
    BY <1>t, <2>1
  <2>2. ledger[w][p] \in Nat
    BY <1>t
  <2>3. ledger'[w][p] = ledger[w][p] \/ ledger'[w][p] = ledger[w][p] + 1
    BY <1>1, <2>1
  <2> QED BY <2>2, <2>3
<1> QED BY <1>2 DEF E!Sent

\* A sweep that goes on in order, when what was sent stays sent and no more is.
LEMMA OrderMove ==
    ASSUME WarnConstants, WarnIInv, OrderIInv, [E!Next]_E!sweepVars,
           NEW s \in Sweepers, NEW next, sweep' = [sweep EXCEPT ![s] = next],
           UNCHANGED <<subject, ledger>>, fired \subseteq fired',
           InOrder(next) \/ next.warning - 1 \in fired'
    PROVE  OrderIInv'
<1>1. \A q \in Sweepers : sweep'[q] = IF q = s THEN next ELSE sweep[q]
  BY DEF WarnIInv, E!TypeOK
<1>2. \A w : E!Sent(w)' <=> E!Sent(w)
  BY DEF E!Sent
<1>4. ASSUME NEW q \in Sweepers PROVE InOrder(sweep[q])'
  <2>1. InOrder(sweep[q])
    BY DEF OrderIInv
  <2>2. CASE q = s
    BY <1>1, <1>2, <2>2 DEF InOrder, Passed
  <2>3. CASE q # s
    BY <1>1, <1>2, <2>1, <2>3 DEF InOrder, Passed
  <2> QED BY <2>2, <2>3
<1>5. E!WarnedInOrder'
  BY <1>2 DEF OrderIInv, E!WarnedInOrder
<1> QED BY <1>4, <1>5 DEF OrderIInv

LEMMA OrderSweeps ==
    ASSUME WarnConstants, WarnIInv, OrderIInv, [E!Next]_E!sweepVars,
           NEW s \in Sweepers,
           \/ E!Begin(s) \/ E!Breach(s) \/ E!Check(s) \/ E!Fire(s) \/ E!NextThreshold(s)
           \/ E!Finish(s) \/ E!Die(s)
           \/ \E idle \in BOOLEAN : E!CheckInactive(s, idle)
           \/ E!BeginReminder(s) \/ E!CheckReminder(s) \/ E!BeginDunning(s) \/ E!FindContact(s)
    PROVE  OrderIInv'
<1>n. Thresholds \in Nat \ {0} /\ E!Inactive = Thresholds + 1
  BY DEF WarnConstants, E!Inactive
<1>t. sweep[s] \in E!Sweep /\ sweep \in [Sweepers -> E!Sweep] /\ InOrder(sweep[s])
  BY DEF WarnIInv, E!TypeOK, OrderIInv
<1>i. E!NoSweep.at = "idle"
  BY DEF E!NoSweep
<1>w. sweep[s].warning \in Nat /\ sweep[s].hit \in Nat
  BY <1>n, <1>t DEF E!Sweep
<1>o. 1 \notin 2..Thresholds /\ E!Inactive \notin 2..Thresholds /\ E!Escalation \notin 2..Thresholds
  BY <1>n DEF E!Escalation
<1>1. CASE E!Begin(s)
  <2>1. PICK next : /\ sweep' = [sweep EXCEPT ![s] = next] /\ next.warning = 1
                    /\ next.at \in {"breach", "check"} /\ UNCHANGED <<subject, ledger, fired>>
    <3> DEFINE next == [E!NoSweep EXCEPT !.at = IF reached > E!Limit THEN "breach" ELSE "check",
                                         !.seen = owner, !.hit = reached, !.warning = 1]
    <3>1. sweep' = [sweep EXCEPT ![s] = next] /\ UNCHANGED <<subject, ledger, fired>>
      BY <1>1 DEF E!Begin, E!Step
    <3>2. next.warning = 1 /\ next.at \in {"breach", "check"}
      BY DEF E!NoSweep
    <3> HIDE DEF next
    <3> QED BY <3>1, <3>2
  <2>2. InOrder(next)
    BY <1>o, <2>1 DEF InOrder
  <2> QED BY <2>1, <2>2, OrderMove
<1>0. CASE E!Breach(s)
  <2> DEFINE next == [sweep[s] EXCEPT !.at = "send", !.warning = E!Escalation,
                                      !.to = E!Named(sweep[s].seen)]
  <2>1. /\ sweep' = [sweep EXCEPT ![s].at = "send", ![s].warning = E!Escalation,
                                  ![s].to = E!Named(sweep[s].seen)]
        /\ UNCHANGED <<subject, ledger, fired>>
    BY <1>0 DEF E!Breach
  <2>2. next.warning = E!Escalation
    BY <1>t DEF E!Sweep
  <2>3. sweep' = [sweep EXCEPT ![s] = next]
    BY <1>t, <2>1
  <2> HIDE DEF next
  <2>4. InOrder(next)
    BY <1>o, <2>2 DEF InOrder
  <2> QED BY <2>1, <2>3, <2>4, OrderMove
<1>2. CASE E!Finish(s) \/ E!Die(s)
  <2>1. sweep' = [sweep EXCEPT ![s] = E!NoSweep] /\ UNCHANGED <<subject, ledger, fired>>
    BY <1>2 DEF E!Finish, E!Die, E!Step
  <2>2. InOrder(E!NoSweep)
    BY <1>i DEF InOrder
  <2> QED BY <2>1, <2>2, OrderMove
<1>3. CASE E!Check(s)
  <2> DEFINE w == sweep[s].warning
             skip == [sweep[s] EXCEPT !.warning = E!Inactive]
             up == [sweep[s] EXCEPT !.warning = w + 1]
             fire == [sweep[s] EXCEPT !.at = "fire"]
  <2>1. /\ sweep[s].at = "check" /\ UNCHANGED <<subject, ledger, fired>>
        /\ \/ sweep' = [sweep EXCEPT ![s] = skip]
           \/ E!Sent(w) /\ sweep' = [sweep EXCEPT ![s] = up]
           \/ sweep' = [sweep EXCEPT ![s] = fire]
    <3>1. CASE w > sweep[s].hit
      <4>1. ~(w <= sweep[s].hit)
        BY <1>w, <3>1
      <4> QED BY <1>3, <3>1, <4>1 DEF E!Check, E!Step, E!At
    <3>2. CASE ~(w > sweep[s].hit) /\ w <= sweep[s].hit /\ E!Sent(w)
      BY <1>3, <3>2 DEF E!Check, E!Step, E!At
    <3>3. CASE ~(w > sweep[s].hit) /\ ~(w <= sweep[s].hit /\ E!Sent(w))
      BY <1>3, <3>3 DEF E!Check, E!Step, E!At
    <3> QED BY <3>1, <3>2, <3>3
  <2>2. /\ skip.at = sweep[s].at /\ skip.warning = E!Inactive
        /\ up.at = sweep[s].at /\ up.warning = w + 1
        /\ fire.at = "fire" /\ fire.warning = w
    BY <1>t DEF E!Sweep
  <2>3. w \in 2..Thresholds => Passed(w - 1)
    BY <1>t, <2>1 DEF InOrder
  <2> HIDE DEF skip, up, fire, w
  <2>4. InOrder(skip) /\ InOrder(fire)
    BY <1>o, <2>1, <2>2, <2>3 DEF InOrder
  <2>5. E!Sent(w) => InOrder(up)
    <3>1. (w + 1) - 1 = w
      BY <1>w DEF w
    <3> QED BY <2>1, <2>2, <3>1 DEF InOrder, Passed
  <2> QED BY <2>1, <2>4, <2>5, OrderMove
<1>4. CASE E!Fire(s)
  <2> DEFINE next == [sweep[s] EXCEPT !.at = "send", !.to = E!Recipients(s)]
  <2>1. /\ sweep[s].at = "fire" /\ UNCHANGED <<subject, ledger, fired>>
        /\ sweep' = [sweep EXCEPT ![s].at = "send", ![s].to = E!Recipients(s)]
    BY <1>4 DEF E!Fire, E!At
  <2> HIDE DEF E!Recipients
  <2>3. next.at = "send" /\ next.warning = sweep[s].warning
    BY <1>t DEF E!Sweep
  <2>4. sweep' = [sweep EXCEPT ![s] = next]
    BY <1>t, <2>1
  <2> HIDE DEF next
  <2>5. InOrder(next)
    BY <1>t, <2>1, <2>3 DEF InOrder
  <2> QED BY <2>1, <2>4, <2>5, OrderMove
<1>5. CASE E!NextThreshold(s)
  <2> DEFINE next == [sweep[s] EXCEPT !.at = "check", !.warning = @ + 1]
  <2>1. /\ UNCHANGED <<subject, ledger>> /\ fired' = fired \cup {sweep[s].warning}
        /\ sweep' = [sweep EXCEPT ![s].at = "check", ![s].warning = @ + 1]
    BY <1>5 DEF E!NextThreshold
  <2>2. next.warning = sweep[s].warning + 1
    BY <1>t DEF E!Sweep
  <2>3. sweep' = [sweep EXCEPT ![s] = next]
    BY <1>t, <2>1
  <2> HIDE DEF next
  <2>4. next.warning - 1 \in fired' /\ fired \subseteq fired'
    BY <1>w, <2>1, <2>2
  <2> QED BY <2>1, <2>3, <2>4, OrderMove
<1>6. ASSUME NEW idle \in BOOLEAN, E!CheckInactive(s, idle) PROVE OrderIInv'
  <2> DEFINE fire == [sweep[s] EXCEPT !.at = "fire", !.warning = E!Inactive]
  <2>1. /\ UNCHANGED <<subject, ledger, fired>>
        /\ \/ sweep' = [sweep EXCEPT ![s] = fire]
           \/ sweep' = [sweep EXCEPT ![s] = E!NoSweep]
    BY <1>6 DEF E!CheckInactive, E!Step
  <2>2. fire.at = "fire" /\ fire.warning = E!Inactive
    BY <1>t DEF E!Sweep
  <2> HIDE DEF fire
  <2>3. InOrder(fire) /\ InOrder(E!NoSweep)
    BY <1>i, <1>o, <2>2 DEF InOrder
  <2> QED BY <2>1, <2>3, OrderMove
<1>7. CASE E!BeginReminder(s) \/ E!BeginDunning(s)
  <2> DEFINE read == [E!NoSweep EXCEPT !.at = "check", !.seen = owner, !.warning = 1]
             asked == [E!NoSweep EXCEPT !.at = "check", !.warning = 1]
  <2>1. /\ UNCHANGED <<subject, ledger, fired>>
        /\ sweep' = [sweep EXCEPT ![s] = read] \/ sweep' = [sweep EXCEPT ![s] = asked]
    BY <1>7 DEF E!BeginReminder, E!BeginDunning, E!Step
  <2>2. /\ read.at = "check" /\ read.warning = 1
        /\ asked.at = "check" /\ asked.warning = 1
    BY DEF E!NoSweep
  <2> HIDE DEF read, asked
  <2>3. InOrder(read) /\ InOrder(asked)
    BY <1>o, <2>2 DEF InOrder
  <2> QED BY <2>1, <2>3, OrderMove
<1>8. CASE E!CheckReminder(s)
  <2> DEFINE next == [sweep[s] EXCEPT !.at = "send", !.to = {sweep[s].seen}]
  <2>1. /\ sweep[s].at = "check" /\ UNCHANGED <<subject, ledger, fired>>
        /\ \/ sweep' = [sweep EXCEPT ![s] = next]
           \/ sweep' = [sweep EXCEPT ![s] = E!NoSweep]
    BY <1>8 DEF E!CheckReminder, E!Step, E!At
  <2>2. next.at = "send" /\ next.warning = sweep[s].warning
    BY <1>t DEF E!Sweep
  <2> HIDE DEF next
  <2>3. InOrder(next) /\ InOrder(E!NoSweep)
    BY <1>i, <1>t, <2>1, <2>2 DEF InOrder
  <2> QED BY <2>1, <2>3, OrderMove
<1>9. CASE E!FindContact(s)
  <2> DEFINE next == [sweep[s] EXCEPT !.at = "send", !.to = E!Named(owner)]
  <2>1. /\ subject = "invoice" /\ sweep[s].at = "check" /\ sweep' = [sweep EXCEPT ![s] = next]
        /\ UNCHANGED <<subject, ledger, fired>>
    BY <1>9 DEF E!FindContact, E!Step, E!At
  <2>2. next.at = "send" /\ next.warning = sweep[s].warning
    BY <1>t DEF E!Sweep
  <2> HIDE DEF next
  <2>3. InOrder(next)
    BY <1>t, <2>1, <2>2 DEF InOrder
  <2> QED BY <2>1, <2>3, OrderMove
<1> QED BY <1>0, <1>1, <1>2, <1>3, <1>4, <1>5, <1>6, <1>7, <1>8, <1>9

LEMMA OrderSends ==
    ASSUME WarnConstants, WarnIInv, OrderIInv, [E!Next]_E!sweepVars,
           NEW s \in Sweepers, NEW p \in People, E!Send(s, p)
    PROVE  OrderIInv'
<1>w. PICK w : w = sweep[s].warning
  OBVIOUS
<1>t. /\ sweep \in [Sweepers -> E!Sweep] /\ ledger \in [E!Warnings -> [People -> Nat]]
      /\ w \in Nat /\ Thresholds \in Nat
  BY <1>w DEF WarnIInv, E!TypeOK, E!Sweep, WarnConstants, E!Inactive
<1>1. /\ sweep[s].at = "send" /\ subject' = subject /\ fired' = fired
      /\ ledger' = [ledger EXCEPT ![w][p] = @ + 1] \/ UNCHANGED ledger
      /\ sweep' = [sweep EXCEPT ![s].to = @ \ {p}]
  BY <1>w DEF E!Send, E!At
<1>2. \A v \in 1..Thresholds : v \in E!Warnings
  BY <1>t DEF E!Warnings, E!Inactive
<1>3. \A v \in 1..Thresholds : E!Sent(v) => E!Sent(v)'
  BY <1>2, SentStays
<1>4. \A v \in 2..Thresholds : v - 1 \in 1..Thresholds /\ v \in 1..Thresholds
  BY <1>t
<1>5. \A v \in 1..Thresholds : E!Sent(v)' => E!Sent(v) \/ v = w
  <2>1. \A v \in E!Warnings : v # w => ledger'[v] = ledger[v]
    BY <1>t, <1>1
  <2> QED BY <1>2, <2>1 DEF E!Sent
<1>7. w \in 2..Thresholds => Passed(w - 1)
  BY <1>1, <1>w DEF OrderIInv, InOrder
<1>8. E!WarnedInOrder'
  BY <1>1, <1>3, <1>4, <1>5, <1>7 DEF OrderIInv, E!WarnedInOrder, Passed
<1>9. ASSUME NEW q \in Sweepers PROVE InOrder(sweep[q])'
  <2>1. InOrder(sweep[q]) /\ sweep'[q].at = sweep[q].at /\ sweep'[q].warning = sweep[q].warning
    BY <1>t, <1>1 DEF OrderIInv, E!Sweep
  <2> QED BY <1>1, <1>3, <1>4, <2>1 DEF InOrder, Passed
<1> QED BY <1>8, <1>9 DEF OrderIInv

LEMMA OrderNext ==
    ASSUME WarnConstants, WarnIInv, OrderIInv, [E!Next]_E!sweepVars
    PROVE  OrderIInv'
<1>1. ASSUME sweep' = sweep, ledger' = ledger, fired' = fired PROVE OrderIInv'
  BY <1>1 DEF OrderIInv, InOrder, Passed, E!WarnedInOrder, E!Sent
<1>2. ASSUME NEW s \in Sweepers,
             \/ E!Begin(s) \/ E!Breach(s) \/ E!Check(s) \/ E!Fire(s) \/ E!NextThreshold(s)
             \/ E!Finish(s) \/ E!Die(s)
             \/ \E idle \in BOOLEAN : E!CheckInactive(s, idle)
             \/ \E p \in People : E!Send(s, p)
             \/ E!BeginReminder(s) \/ E!CheckReminder(s) \/ E!BeginDunning(s) \/ E!FindContact(s)
      PROVE  OrderIInv'
  BY <1>2, OrderSweeps, OrderSends
<1>3. CASE \/ \E p \in People : E!Assign(p)
           \/ E!TimePasses
           \/ E!Move("ACTIVE", "STOPPED") \/ E!Move("STOPPED", "ACTIVE")
           \/ E!Move("ESCALATED", "ACTIVE")
           \/ UNCHANGED E!sweepVars
  BY <1>1, <1>3 DEF E!Assign, E!TimePasses, E!Move, E!sweepVars
<1> QED BY <1>2, <1>3 DEF E!Next
-----------------------------------------------------------------------------
\* For any number of sweeps, people and thresholds: through crashes and repetitions
\* nobody gets a warning that is stored under its key more often than there are
\* sweeps that overlap.
THEOREM EveryWarningOnce == ASSUME WarnConstants PROVE E!Spec => []E!WarnedOnce
<1>1. E!Init => WarnIInv
  BY WarnInit
<1>2. WarnIInv /\ [E!Next]_E!sweepVars => WarnIInv'
  BY WarnNext
<1>3. WarnIInv => E!WarnedOnce
  BY WarnOnce
<1> QED BY <1>1, <1>2, <1>3, PTL DEF E!Spec

\* The warnings of a case come in order: nobody is warned of a threshold before a
\* sweep found the one before to be sent or went through with it.
THEOREM WarningsInOrder == ASSUME WarnConstants PROVE E!Spec => []E!WarnedInOrder
<1>1. E!Init => WarnIInv /\ OrderIInv
  BY WarnInit
<1>2. WarnIInv /\ OrderIInv /\ [E!Next]_E!sweepVars => WarnIInv' /\ OrderIInv'
  BY WarnNext, OrderNext
<1>3. OrderIInv => E!WarnedInOrder
  BY DEF OrderIInv
<1> QED BY <1>1, <1>2, <1>3, PTL DEF E!Spec
-----------------------------------------------------------------------------
(***************************************************************************)
(* The compliance sweep.  The same of its tasks and notices; and an        *)
(* undisturbed sweep knows at every stage what there is to know.           *)
(***************************************************************************)
\* The sweeps that have asked and are about to write for a document.
AboutTo(all, stage, d) == {s \in Checkers : all[s].at = stage /\ d \in all[s].now}

FiledBounded ==
    \A d \in Documents :
        /\ tasks[d] + Cardinality(AboutTo(sweeping, "assign", d)) <= Cardinality(Checkers)
        /\ noticed[d] + Cardinality(AboutTo(sweeping, "notify", d)) <= Cardinality(Checkers)

\* A sweep that nothing disturbed is alone, knows the documents as they are and,
\* until it judges, the status as it is; after that the status tells the truth.
CalmKnows ==
    \A s \in calm :
        /\ \A other \in Checkers : sweeping[other].at # "idle" <=> other = s
        /\ sweeping[s].at # "orgs" => sweeping[s].seen = document
        /\ sweeping[s].at # "close" => (sweeping[s].risk <=> compliance = "AT_RISK")
        /\ sweeping[s].at = "close" => (C!Lapsed(document) <=> compliance = "AT_RISK")

ConcernIInv == C!TypeOK /\ FiledBounded /\ CalmKnows
-----------------------------------------------------------------------------
LEMMA ConcernInit == ASSUME IsFiniteSet(Checkers), C!Init PROVE ConcernIInv
<1>1. /\ document = [d \in Documents |-> "absent"] /\ compliance = "COMPLIANT"
      /\ managed \in BOOLEAN /\ calm = {} /\ alarmed = FALSE
      /\ tasks = [d \in Documents |-> 0] /\ noticed = [d \in Documents |-> 0]
      /\ finished = {} /\ reopened = {}
      /\ sweeping = [s \in Checkers |-> C!Nothing]
  BY DEF C!Init
<1>2. C!Nothing \in C!Sweeping /\ C!Nothing.at = "idle"
  BY DEF C!Nothing, C!Sweeping, C!Expiry
<1>3. C!TypeOK
  BY <1>1, <1>2 DEF C!TypeOK, C!Expiry
<1>4. FiledBounded
  <2> SUFFICES ASSUME NEW d \in Documents
               PROVE  /\ tasks[d] + Cardinality(AboutTo(sweeping, "assign", d)) <= Cardinality(Checkers)
                      /\ noticed[d] + Cardinality(AboutTo(sweeping, "notify", d)) <= Cardinality(Checkers)
    BY DEF FiledBounded
  <2>1. AboutTo(sweeping, "assign", d) = {} /\ AboutTo(sweeping, "notify", d) = {}
    BY <1>1, <1>2 DEF AboutTo
  <2>2. Cardinality({}) = 0 /\ Cardinality(Checkers) \in Nat
    BY FS_EmptySet, FS_CardinalityType
  <2>3. tasks[d] = 0 /\ noticed[d] = 0
    BY <1>1
  <2> QED BY <2>1, <2>2, <2>3
<1>5. CalmKnows
  BY <1>1 DEF CalmKnows
<1> QED BY <1>3, <1>4, <1>5 DEF ConcernIInv

\* A step of one sweep, which writes only what it has asked about.
LEMMA ConcernMove ==
    ASSUME IsFiniteSet(Checkers), ConcernIInv, NEW s \in Checkers, NEW next \in C!Sweeping,
           C!Step(s, next), UNCHANGED <<document, managed>>,
           compliance' \in {"COMPLIANT", "AT_RISK"}, alarmed' \in BOOLEAN,
           tasks' \in [Documents -> Nat], noticed' \in [Documents -> Nat],
           finished' \subseteq Documents, reopened' \subseteq Documents,
           \A d \in Documents :
              /\ next.at = "assign" /\ d \in next.now => tasks'[d] = 0
              /\ \/ tasks'[d] <= tasks[d]
                 \/ /\ tasks'[d] = tasks[d] + 1 /\ next.at # "assign"
                    /\ sweeping[s].at = "assign" /\ d \in sweeping[s].now
              /\ next.at = "notify" /\ d \in next.now => noticed'[d] = 0
              /\ \/ noticed'[d] <= noticed[d]
                 \/ /\ noticed'[d] = noticed[d] + 1 /\ next.at # "notify"
                    /\ sweeping[s].at = "notify" /\ d \in sweeping[s].now,
           calm' \subseteq {s} \/ (calm' \subseteq calm /\ sweeping[s].at # "idle"),
           s \in calm' =>
              /\ next.at # "idle" /\ \A other \in Checkers \ {s} : sweeping[other].at = "idle"
              /\ next.at # "orgs" => next.seen = document
              /\ next.at # "close" => (next.risk <=> compliance' = "AT_RISK")
              /\ next.at = "close" => (C!Lapsed(document) <=> compliance' = "AT_RISK")
    PROVE  ConcernIInv'
<1>1. /\ sweeping' \in [Checkers -> C!Sweeping]
      /\ \A q \in Checkers : sweeping'[q] = IF q = s THEN next ELSE sweeping[q]
  BY DEF C!Step, ConcernIInv, C!TypeOK
<1>2. calm' \subseteq {s}
  <2> SUFFICES ASSUME calm' \subseteq calm, sweeping[s].at # "idle", NEW q \in calm' PROVE q = s
    OBVIOUS
  <2> QED BY DEF ConcernIInv, CalmKnows
<1>3. C!TypeOK'
  BY <1>1, <1>2 DEF ConcernIInv, C!TypeOK
<1>4. FiledBounded'
  <2> SUFFICES ASSUME NEW d \in Documents
               PROVE  /\ tasks'[d] + Cardinality(AboutTo(sweeping', "assign", d)) <= Cardinality(Checkers)
                      /\ noticed'[d] + Cardinality(AboutTo(sweeping', "notify", d)) <= Cardinality(Checkers)
    BY DEF FiledBounded
  <2>1. /\ tasks[d] \in Nat /\ tasks'[d] \in Nat /\ noticed[d] \in Nat /\ noticed'[d] \in Nat
        /\ tasks[d] + Cardinality(AboutTo(sweeping, "assign", d)) <= Cardinality(Checkers)
        /\ noticed[d] + Cardinality(AboutTo(sweeping, "notify", d)) <= Cardinality(Checkers)
    BY DEF ConcernIInv, C!TypeOK, FiledBounded
  <2>2. \A stage : /\ AboutTo(sweeping, stage, d) \subseteq Checkers
                   /\ AboutTo(sweeping', stage, d) \subseteq Checkers
    BY DEF AboutTo
  <2>3. \A stage : ~(next.at = stage /\ d \in next.now) =>
           AboutTo(sweeping', stage, d) \subseteq AboutTo(sweeping, stage, d) \ {s}
    BY <1>1 DEF AboutTo
  <2>4. \A stage : sweeping[s].at = stage /\ d \in sweeping[s].now => s \in AboutTo(sweeping, stage, d)
    BY DEF AboutTo
  <2> HIDE DEF AboutTo
  <2>5. \/ tasks'[d] <= tasks[d] /\
             AboutTo(sweeping', "assign", d) \subseteq AboutTo(sweeping, "assign", d)
        \/ tasks'[d] = 0
        \/ tasks'[d] = tasks[d] + 1 /\ \E x \in AboutTo(sweeping, "assign", d) :
             AboutTo(sweeping', "assign", d) \subseteq AboutTo(sweeping, "assign", d) \ {x}
    <3>1. CASE next.at = "assign" /\ d \in next.now
      BY <3>1
    <3>2. CASE ~(next.at = "assign" /\ d \in next.now)
      BY <2>3, <2>4, <3>2
    <3> QED BY <3>1, <3>2
  <2>6. \/ noticed'[d] <= noticed[d] /\
             AboutTo(sweeping', "notify", d) \subseteq AboutTo(sweeping, "notify", d)
        \/ noticed'[d] = 0
        \/ noticed'[d] = noticed[d] + 1 /\ \E x \in AboutTo(sweeping, "notify", d) :
             AboutTo(sweeping', "notify", d) \subseteq AboutTo(sweeping, "notify", d) \ {x}
    <3>1. CASE next.at = "notify" /\ d \in next.now
      BY <3>1
    <3>2. CASE ~(next.at = "notify" /\ d \in next.now)
      BY <2>3, <2>4, <3>2
    <3> QED BY <3>1, <3>2
  <2>7. tasks'[d] + Cardinality(AboutTo(sweeping', "assign", d)) <= Cardinality(Checkers)
    BY ONLY <2>1, <2>2, <2>5, StaysWithin, IsFiniteSet(Checkers)
  <2>8. noticed'[d] + Cardinality(AboutTo(sweeping', "notify", d)) <= Cardinality(Checkers)
    BY ONLY <2>1, <2>2, <2>6, StaysWithin, IsFiniteSet(Checkers)
  <2> QED BY <2>7, <2>8
<1>5. CalmKnows'
  <2>1. C!Lapsed(document)' <=> C!Lapsed(document)
    BY DEF C!Lapsed, C!HasValid
  <2> SUFFICES ASSUME s \in calm'
               PROVE  /\ \A other \in Checkers : sweeping'[other].at # "idle" <=> other = s
                      /\ sweeping'[s].at # "orgs" => sweeping'[s].seen = document'
                      /\ sweeping'[s].at # "close" => (sweeping'[s].risk <=> compliance' = "AT_RISK")
                      /\ sweeping'[s].at = "close" => (C!Lapsed(document)' <=> compliance' = "AT_RISK")
    BY <1>2 DEF CalmKnows
  <2> QED BY <1>1, <2>1
<1> QED BY <1>3, <1>4, <1>5 DEF ConcernIInv

LEMMA ConcernSweeps ==
    ASSUME IsFiniteSet(Checkers), ConcernIInv, NEW s \in Checkers,
           \/ C!BeginSweep(s) \/ C!ReadDocuments(s) \/ C!Assign(s) \/ C!Ask(s) \/ C!Notify(s)
           \/ C!Judge(s) \/ C!Close(s) \/ C!Die(s)
           \/ \E d \in Documents : C!Warn(s, d)
    PROVE  ConcernIInv'
<1>t. /\ document \in [Documents -> C!Expiry] /\ compliance \in {"COMPLIANT", "AT_RISK"}
      /\ alarmed \in BOOLEAN /\ tasks \in [Documents -> Nat] /\ noticed \in [Documents -> Nat]
      /\ sweeping[s] \in C!Sweeping /\ finished \subseteq Documents /\ reopened \subseteq Documents
  BY DEF ConcernIInv, C!TypeOK
<1>n. \A d \in Documents : /\ tasks[d] \in Nat /\ tasks[d] <= tasks[d]
                           /\ noticed[d] \in Nat /\ noticed[d] <= noticed[d]
  BY <1>t
<1>i. C!Nothing \in C!Sweeping /\ C!Nothing.at = "idle"
  BY DEF C!Nothing, C!Sweeping, C!Expiry
<1>k. s \in calm =>
         /\ \A other \in Checkers \ {s} : sweeping[other].at = "idle"
         /\ sweeping[s].at # "orgs" => sweeping[s].seen = document
         /\ sweeping[s].at # "close" => (sweeping[s].risk <=> compliance = "AT_RISK")
         /\ sweeping[s].at = "close" => (C!Lapsed(document) <=> compliance = "AT_RISK")
  BY DEF ConcernIInv, CalmKnows
<1>1. CASE C!BeginSweep(s)
  <2> DEFINE next == [C!Nothing EXCEPT !.at = "orgs", !.risk = (compliance = "AT_RISK")]
  <2>1. /\ C!Step(s, next) /\ UNCHANGED <<document, compliance, managed, tasks, finished, reopened, noticed, alarmed>>
        /\ calm' \subseteq {s}
        /\ s \in calm' => \A other \in Checkers : sweeping[other].at = "idle"
    BY <1>1 DEF C!BeginSweep, C!At, C!assignments
  <2>2. next \in C!Sweeping /\ next.at = "orgs" /\ (next.risk <=> compliance = "AT_RISK")
    BY DEF C!Nothing, C!Sweeping, C!Expiry
  <2> HIDE DEF next
  <2> QED BY <1>t, <1>n, <2>1, <2>2, ConcernMove
<1>2. CASE C!ReadDocuments(s)
  <2> DEFINE soon == {d \in Documents : document[d] = "soon"}
             next == [sweeping[s] EXCEPT !.at = "warn", !.seen = document, !.todo = soon]
  <2>1. /\ C!Step(s, next) /\ sweeping[s].at = "orgs"
        /\ UNCHANGED <<document, compliance, managed, tasks, finished, reopened, noticed, alarmed, calm>>
    BY <1>2 DEF C!ReadDocuments, C!At, C!assignments
  <2>2. /\ next \in C!Sweeping /\ next.at = "warn" /\ next.seen = document
        /\ next.risk = sweeping[s].risk
    BY <1>t DEF C!Sweeping
  <2> HIDE DEF next
  <2> QED BY <1>t, <1>n, <1>k, <2>1, <2>2, ConcernMove
<1>3. ASSUME NEW d \in Documents, C!Warn(s, d) PROVE ConcernIInv'
  <2> DEFINE stage == IF managed /\ tasks[d] = 0 /\ d \notin reopened THEN "assign" ELSE "ask"
             next == [sweeping[s] EXCEPT !.todo = @ \ {d}, !.now = {d}, !.at = stage]
  <2>1. /\ C!Step(s, next) /\ sweeping[s].at = "warn"
        /\ UNCHANGED <<document, compliance, managed, tasks, finished, reopened, noticed, alarmed, calm>>
    BY <1>3 DEF C!Warn, C!At, C!assignments
  <2>2. /\ stage \in {"assign", "ask"}
        /\ stage = "assign" => tasks[d] = 0
    OBVIOUS
  <2> HIDE DEF stage
  <2>3. /\ next \in C!Sweeping /\ next.at = stage /\ next.seen = sweeping[s].seen
        /\ next.risk = sweeping[s].risk /\ next.now = {d}
    BY <1>t, <2>2 DEF C!Sweeping
  <2> HIDE DEF next
  <2>4. \A e \in Documents : next.at = "assign" /\ e \in next.now => tasks[e] = 0
    BY <2>2, <2>3
  <2>5. next.at # "notify" /\ next.at # "idle" /\ next.at # "orgs" /\ next.at # "close"
    BY <2>2, <2>3
  <2>6. s \in calm => next.seen = document /\ (next.risk <=> compliance = "AT_RISK")
    BY <1>k, <2>1, <2>3
  <2> QED BY <1>t, <1>n, <1>k, <2>1, <2>3, <2>4, <2>5, <2>6, ConcernMove
<1>4. CASE C!Assign(s)
  <2> DEFINE next == [sweeping[s] EXCEPT !.at = "ask"]
  <2>1. /\ C!Step(s, next) /\ sweeping[s].at = "assign"
        /\ tasks' = [d \in Documents |-> IF d \in sweeping[s].now THEN tasks[d] + 1 ELSE tasks[d]]
        /\ UNCHANGED <<document, compliance, managed, finished, reopened, noticed, alarmed, calm>>
    BY <1>4 DEF C!Assign, C!At
  <2>2. /\ next \in C!Sweeping /\ next.at = "ask" /\ next.seen = sweeping[s].seen
        /\ next.risk = sweeping[s].risk
    BY <1>t DEF C!Sweeping
  <2> HIDE DEF next
  <2>3. /\ tasks' \in [Documents -> Nat]
        /\ \A d \in Documents : tasks'[d] <= tasks[d] \/ (tasks'[d] = tasks[d] + 1 /\ d \in sweeping[s].now)
    BY <1>n, <2>1
  <2>4. s \in calm => next.seen = document /\ (next.risk <=> compliance = "AT_RISK")
    BY <1>k, <2>1, <2>2
  <2>5. calm' = calm /\ compliance' = compliance /\ alarmed' = alarmed /\ noticed' = noticed
        /\ UNCHANGED <<finished, reopened>>
        /\ UNCHANGED <<document, managed>>
    BY <2>1
  <2>6. sweeping[s].at = "assign"
    BY <2>1
  <2> QED BY <1>t, <1>n, <1>k, <2>1, <2>2, <2>3, <2>4, <2>5, <2>6, ConcernMove
<1>5. CASE C!Ask(s)
  <2> DEFINE stage == IF managed /\ \A d \in sweeping[s].now : noticed[d] = 0 THEN "notify" ELSE "warn"
             next == [sweeping[s] EXCEPT !.at = stage]
  <2>1. /\ C!Step(s, next) /\ sweeping[s].at = "ask"
        /\ UNCHANGED <<document, compliance, managed, tasks, finished, reopened, noticed, alarmed, calm>>
    BY <1>5 DEF C!Ask, C!At, C!assignments
  <2>2. /\ stage \in {"notify", "warn"}
        /\ stage = "notify" => \A d \in sweeping[s].now : noticed[d] = 0
    OBVIOUS
  <2> HIDE DEF stage
  <2>3. /\ next \in C!Sweeping /\ next.at = stage /\ next.seen = sweeping[s].seen
        /\ next.risk = sweeping[s].risk /\ next.now = sweeping[s].now
    BY <1>t, <2>2 DEF C!Sweeping
  <2> HIDE DEF next
  <2>4. \A e \in Documents : next.at = "notify" /\ e \in next.now => noticed[e] = 0
    BY <2>2, <2>3
  <2>5. next.at # "assign" /\ next.at # "idle" /\ next.at # "orgs" /\ next.at # "close"
    BY <2>2, <2>3
  <2>6. s \in calm => next.seen = document /\ (next.risk <=> compliance = "AT_RISK")
    BY <1>k, <2>1, <2>3
  <2> QED BY <1>t, <1>n, <1>k, <2>1, <2>3, <2>4, <2>5, <2>6, ConcernMove
<1>6. CASE C!Notify(s)
  <2> DEFINE next == [sweeping[s] EXCEPT !.at = "warn"]
  <2>1. /\ C!Step(s, next) /\ sweeping[s].at = "notify"
        /\ \/ noticed' = [d \in Documents |->
                             IF d \in sweeping[s].now THEN noticed[d] + 1 ELSE noticed[d]]
           \/ UNCHANGED noticed
        /\ UNCHANGED <<document, compliance, managed, tasks, finished, reopened, alarmed, calm>>
    BY <1>6 DEF C!Notify, C!At, C!assignments
  <2>2. /\ next \in C!Sweeping /\ next.at = "warn" /\ next.seen = sweeping[s].seen
        /\ next.risk = sweeping[s].risk
    BY <1>t DEF C!Sweeping
  <2> HIDE DEF next
  <2>3. /\ noticed' \in [Documents -> Nat]
        /\ \A d \in Documents :
              noticed'[d] <= noticed[d] \/ (noticed'[d] = noticed[d] + 1 /\ d \in sweeping[s].now)
    <3>1. CASE UNCHANGED noticed
      BY <1>t, <1>n, <3>1
    <3>2. CASE noticed' = [d \in Documents |->
                             IF d \in sweeping[s].now THEN noticed[d] + 1 ELSE noticed[d]]
      BY <1>n, <3>2
    <3> QED BY <2>1, <3>1, <3>2
  <2>4. s \in calm => next.seen = document /\ (next.risk <=> compliance = "AT_RISK")
    BY <1>k, <2>1, <2>2
  <2> QED BY <1>t, <1>n, <1>k, <2>1, <2>2, <2>3, <2>4, ConcernMove
<1>7. CASE C!Judge(s)
  <2> DEFINE next == [sweeping[s] EXCEPT !.at = "close"]
             lapsed == C!Lapsed(sweeping[s].seen)
  <2>1. /\ C!Step(s, next) /\ sweeping[s].at = "warn"
        /\ compliance' = CASE lapsed /\ ~sweeping[s].risk -> "AT_RISK"
                           [] ~lapsed /\ sweeping[s].risk -> "COMPLIANT"
                           [] OTHER -> compliance
        /\ alarmed' \in {alarmed, alarmed \/ (managed /\ lapsed)}
        /\ UNCHANGED <<document, managed, tasks, finished, reopened, noticed, calm>>
    BY <1>7 DEF C!Judge, C!At, C!assignments
  <2>2. next \in C!Sweeping /\ next.at = "close" /\ next.seen = sweeping[s].seen
    BY <1>t DEF C!Sweeping
  <2>3. sweeping[s].risk \in BOOLEAN /\ lapsed \in BOOLEAN
    BY <1>t DEF C!Sweeping, C!Lapsed
  <2> HIDE DEF next, lapsed
  <2>4. compliance' \in {"COMPLIANT", "AT_RISK"} /\ alarmed' \in BOOLEAN
    BY <1>t, <2>1, <2>3
  <2>5. s \in calm => /\ next.seen = document /\ (lapsed <=> C!Lapsed(document))
                      /\ (lapsed <=> compliance' = "AT_RISK")
    <3>1. s \in calm => (sweeping[s].risk <=> compliance = "AT_RISK") /\ sweeping[s].seen = document
      BY <1>k, <2>1
    <3> QED BY <1>t, <2>1, <2>2, <2>3, <3>1 DEF lapsed
  <2> QED BY <1>t, <1>n, <1>k, <2>1, <2>2, <2>4, <2>5, ConcernMove
<1>8. CASE C!Close(s) \/ C!Die(s)
  <2>1. /\ C!Step(s, C!Nothing) /\ calm' = calm \ {s} /\ sweeping[s].at # "idle"
        /\ UNCHANGED <<document, compliance, managed, noticed, alarmed>>
        /\ tasks' = tasks \/ \E over : tasks' = [d \in Documents |-> IF d \in over THEN 0 ELSE tasks[d]]
    BY <1>8 DEF C!Close, C!Die, C!At, C!assignments
  <2>3. finished' \subseteq Documents /\ reopened' \subseteq Documents
    BY <1>8, <1>t DEF C!Close, C!Die, C!Kept, C!assignments
  <2>2. tasks' \in [Documents -> Nat] /\ \A d \in Documents : tasks'[d] <= tasks[d]
    BY <1>t, <1>n, <2>1
  <2> QED BY <1>t, <1>n, <1>i, <2>1, <2>2, <2>3, ConcernMove
<1> QED BY <1>1, <1>2, <1>3, <1>4, <1>5, <1>6, <1>7, <1>8

LEMMA ConcernNext ==
    ASSUME IsFiniteSet(Checkers), ConcernIInv, [C!Next]_C!complianceVars PROVE ConcernIInv'
<1>t. /\ document \in [Documents -> C!Expiry] /\ tasks \in [Documents -> Nat] /\ managed \in BOOLEAN
      /\ finished \subseteq Documents /\ reopened \subseteq Documents
  BY DEF ConcernIInv, C!TypeOK
<1>1. ASSUME NEW d \in Documents, NEW to \in C!Expiry, C!ChangeDocument(d, to) PROVE ConcernIInv'
  <2>1. /\ document' = [document EXCEPT ![d] = to] /\ calm' = {}
        /\ UNCHANGED <<compliance, managed, tasks, finished, reopened, noticed, alarmed, sweeping>>
    BY <1>1 DEF C!ChangeDocument, C!assignments
  <2>2. C!TypeOK'
    BY <1>t, <2>1 DEF ConcernIInv, C!TypeOK
  <2>3. FiledBounded' /\ CalmKnows'
    BY <2>1 DEF ConcernIInv, FiledBounded, AboutTo, CalmKnows
  <2> QED BY <2>2, <2>3 DEF ConcernIInv
<1>2. ASSUME NEW d \in Documents, C!CompleteTask(d) PROVE ConcernIInv'
  <2>1. /\ tasks' = tasks \/ (tasks[d] > 0 /\ tasks' = [tasks EXCEPT ![d] = @ - 1])
        /\ finished' \subseteq Documents /\ reopened' \subseteq Documents
        /\ UNCHANGED <<document, compliance, managed, noticed, alarmed, sweeping, calm>>
    BY <1>2, <1>t DEF C!CompleteTask
  <2>2. tasks[d] \in Nat /\ (tasks[d] > 0 => tasks[d] - 1 \in Nat /\ tasks[d] - 1 <= tasks[d])
    BY <1>t, <2>1
  <2>3. tasks' \in [Documents -> Nat] /\ \A e \in Documents : tasks'[e] \in Nat /\ tasks'[e] <= tasks[e]
    BY <1>t, <2>1, <2>2
  <2>4. C!TypeOK'
    BY <2>1, <2>3 DEF ConcernIInv, C!TypeOK
  <2>5. FiledBounded'
    <3> SUFFICES ASSUME NEW e \in Documents
                 PROVE  /\ tasks'[e] + Cardinality(AboutTo(sweeping, "assign", e)) <= Cardinality(Checkers)
                        /\ noticed[e] + Cardinality(AboutTo(sweeping, "notify", e)) <= Cardinality(Checkers)
      BY <2>1 DEF FiledBounded
    <3>1. /\ tasks[e] + Cardinality(AboutTo(sweeping, "assign", e)) <= Cardinality(Checkers)
          /\ noticed[e] + Cardinality(AboutTo(sweeping, "notify", e)) <= Cardinality(Checkers)
      BY DEF ConcernIInv, FiledBounded
    <3>2. AboutTo(sweeping, "assign", e) \subseteq Checkers
      BY DEF AboutTo
    <3>3. /\ Cardinality(AboutTo(sweeping, "assign", e)) \in Nat /\ Cardinality(Checkers) \in Nat
          /\ tasks[e] \in Nat /\ tasks'[e] \in Nat /\ tasks'[e] <= tasks[e]
      BY <1>t, <2>3, <3>2, FS_Subset, FS_CardinalityType
    <3> QED BY <3>1, <3>3
  <2>6. CalmKnows'
    BY <2>1 DEF ConcernIInv, CalmKnows, C!Lapsed, C!HasValid
  <2> QED BY <2>4, <2>5, <2>6 DEF ConcernIInv
<1>5. ASSUME NEW d \in Documents, C!BlockTask(d) PROVE ConcernIInv'
  <2>1. /\ calm' = {} /\ reopened' \subseteq Documents
        /\ UNCHANGED <<document, compliance, managed, tasks, finished, noticed, alarmed, sweeping>>
    BY <1>5, <1>t DEF C!BlockTask
  <2>2. C!TypeOK'
    BY <2>1 DEF ConcernIInv, C!TypeOK
  <2>3. FiledBounded' /\ CalmKnows'
    BY <2>1 DEF ConcernIInv, FiledBounded, AboutTo, CalmKnows
  <2> QED BY <2>2, <2>3 DEF ConcernIInv
<1>3. CASE C!ChangeManagers \/ UNCHANGED C!complianceVars
  <2>1. /\ managed' \in BOOLEAN
        /\ UNCHANGED <<document, compliance, tasks, finished, reopened, noticed, alarmed, sweeping, calm>>
    BY <1>t, <1>3 DEF C!ChangeManagers, C!complianceVars, C!assignments
  <2>2. C!TypeOK'
    BY <2>1 DEF ConcernIInv, C!TypeOK
  <2>3. FiledBounded'
    BY <2>1 DEF ConcernIInv, FiledBounded, AboutTo
  <2>4. CalmKnows'
    BY <2>1 DEF ConcernIInv, CalmKnows, C!Lapsed, C!HasValid
  <2> QED BY <2>2, <2>3, <2>4 DEF ConcernIInv
<1>4. CASE C!Next
  BY <1>1, <1>2, <1>3, <1>4, <1>5, ConcernSweeps DEF C!Next
<1> QED BY <1>3, <1>4

LEMMA ConcernFiled == ASSUME IsFiniteSet(Checkers), ConcernIInv PROVE C!FiledOnce
<1>0. C!Cardinality(Checkers) = Cardinality(Checkers)
  BY DEF C!Cardinality, Cardinality
<1> SUFFICES ASSUME NEW d \in Documents
             PROVE  tasks[d] <= Cardinality(Checkers) /\ noticed[d] <= Cardinality(Checkers)
  BY <1>0 DEF C!FiledOnce
<1>1. /\ tasks[d] \in Nat /\ noticed[d] \in Nat
      /\ tasks[d] + Cardinality(AboutTo(sweeping, "assign", d)) <= Cardinality(Checkers)
      /\ noticed[d] + Cardinality(AboutTo(sweeping, "notify", d)) <= Cardinality(Checkers)
  BY DEF ConcernIInv, C!TypeOK, FiledBounded
<1>2. \A stage : Cardinality(AboutTo(sweeping, stage, d)) \in Nat
  <2> SUFFICES ASSUME NEW stage PROVE Cardinality(AboutTo(sweeping, stage, d)) \in Nat
    OBVIOUS
  <2>1. AboutTo(sweeping, stage, d) \subseteq Checkers
    BY DEF AboutTo
  <2> QED BY <2>1, FS_Subset, FS_CardinalityType
<1>3. Cardinality(Checkers) \in Nat
  BY FS_CardinalityType
<1> QED BY <1>1, <1>2, <1>3

\* What the property says of the end of an undisturbed sweep.
LEMMA ConcernSettles ==
    ASSUME ConcernIInv, NEW s \in Checkers, s \in calm, C!Close(s)
    PROVE  /\ (compliance = "AT_RISK") = C!Lapsed(document)
           /\ \A d \in Documents : document[d] = "valid" => tasks'[d] = 0 /\ d \notin reopened'
<1>1. /\ sweeping[s].seen = document
      /\ C!Lapsed(document) <=> compliance = "AT_RISK"
  BY DEF C!Close, C!At, ConcernIInv, CalmKnows
<1>2. (compliance = "AT_RISK") = C!Lapsed(document)
  BY <1>1 DEF C!Lapsed
<1> DEFINE over == {d \in C!Kept(document) :
                       document[d] = "valid" \/ (document[d] = "expired" /\ C!HasValid(document))}
<1>3. /\ tasks' = [d \in Documents |-> IF d \in over THEN 0 ELSE tasks[d]]
      /\ reopened' = reopened \ over
  BY <1>1 DEF C!Close
<1>4. \A d \in Documents : document[d] = "valid" => d \in over
  BY DEF C!Kept
<1> HIDE DEF over
<1>5. \A d \in Documents : document[d] = "valid" => tasks'[d] = 0 /\ d \notin reopened'
  BY <1>3, <1>4
<1> QED BY <1>2, <1>5
-----------------------------------------------------------------------------
\* For any number of sweeps and documents: a document has no more open tasks
\* that were never done, and no more notices that can be found, than there are
\* sweeps that may overlap.
THEOREM ConcernsFiledOnce == ASSUME IsFiniteSet(Checkers) PROVE C!Spec => []C!FiledOnce
<1>1. C!Init => ConcernIInv
  BY ConcernInit
<1>2. ConcernIInv /\ [C!Next]_C!complianceVars => ConcernIInv'
  BY ConcernNext
<1>3. ConcernIInv => C!FiledOnce
  BY ConcernFiled
<1> QED BY <1>1, <1>2, <1>3, PTL DEF C!Spec

\* A sweep that nothing disturbed leaves the status and the tasks as they should be.
THEOREM SweepsAreFinal == ASSUME IsFiniteSet(Checkers) PROVE C!Spec => C!SweepSettles
<1> DEFINE Settled == \A s \in Checkers :
          s \in calm /\ C!Close(s) =>
             /\ (compliance = "AT_RISK") = C!Lapsed(document)
             /\ \A d \in Documents : document[d] = "valid" => tasks'[d] = 0 /\ d \notin reopened'
<1>1. C!Init => ConcernIInv
  BY ConcernInit
<1>2. ConcernIInv /\ [C!Next]_C!complianceVars => ConcernIInv'
  BY ConcernNext
<1>3. ConcernIInv /\ [C!Next]_C!complianceVars => [Settled]_C!complianceVars
  BY ConcernSettles
<1> QED BY <1>1, <1>2, <1>3, PTL DEF C!Spec, C!SweepSettles
-----------------------------------------------------------------------------
(***************************************************************************)
(* The calendar.  Both loops are shown to count the units at work one by   *)
(* one, by which the deadline and the working time agree.  What is needed  *)
(* of induction is that a set of numbers has a least and, if it is finite, *)
(* a greatest: the first number at which a claim would be wrong.           *)
(***************************************************************************)
\* There is a week, and too few holidays to take the same weekday for 400 days;
\* the units of an SLA and the days a case is followed for stay within the turns
\* of the loops, of which each takes a unit or more.
ClockConstants ==
    /\ DayLength \in Nat \ {0} /\ Week \in Nat \ {0}
    /\ IsFiniteSet(Holidays) /\ Week * (Cardinality(Holidays) + 1) <= 400
    /\ Latest \in Nat /\ Horizon \in Nat /\ Latest <= Horizon
    /\ MaxHours \in Nat /\ MaxHours <= L!Turns
    /\ Horizon < L!Turns * DayLength
-----------------------------------------------------------------------------
\* A function may be defined from its last value down.
Down(f, m, n, V, last, step) ==
    /\ f \in [m..n -> V] /\ f[n] = last
    /\ \A i \in m..n : i # n => f[i] = step[<<i, f[i + 1]>>]
LEMMA DefinedDown ==
    ASSUME NEW n \in Nat, NEW V, NEW last \in V, NEW step \in [(0..n) \X V -> V]
    PROVE  \E f : Down(f, 0, n, V, last, step)
<1> DEFINE fails == {m \in 0..n : ~ \E f : Down(f, m, n, V, last, step)}
<1>1. SUFFICES ASSUME fails # {} PROVE FALSE
  OBVIOUS
<1>2. IsFiniteSet(fails) /\ fails \in SUBSET Nat
  <2>1. fails \in SUBSET (0..n) /\ fails \in SUBSET Nat
    OBVIOUS
  <2>2. IsFiniteSet(0..n)
    BY FS_Interval
  <2> HIDE DEF fails
  <2>3. IsFiniteSet(fails)
    BY <2>1, <2>2, FS_Subset
  <2> QED BY <2>1, <2>3
<1>3. PICK m \in fails : \A k \in fails : k <= m
  <2> HIDE DEF fails
  <2> QED BY <1>1, <1>2, GreatestOf
<1>4. CASE m = n
  <2> DEFINE f == [i \in m..n |-> last]
  <2>1. f \in [m..n -> V] /\ f[n] = last
    BY <1>4
  <2>2. \A i \in m..n : i = n
    BY <1>4
  <2> HIDE DEF f
  <2>3. Down(f, m, n, V, last, step)
    BY <2>1, <2>2 DEF Down
  <2> QED BY <2>3
<1>5. CASE m # n
  <2>1. m + 1 \in 0..n /\ m + 1 \notin fails
    BY <1>3, <1>5
  <2>2. PICK f : Down(f, m + 1, n, V, last, step)
    BY <2>1
  <2> DEFINE g == [i \in m..n |-> IF i = m THEN step[<<m, f[m + 1]>>] ELSE f[i]]
  <2>3. m + 1 \in (m + 1)..n /\ m \in 0..n /\ n \in (m + 1)..n
    BY <2>1, <1>5
  <2>4. step[<<m, f[m + 1]>>] \in V
    BY <2>2, <2>3 DEF Down
  <2>5. g \in [m..n -> V]
    BY <2>2, <2>4, <1>5 DEF Down
  <2>6. g[n] = last
    BY <2>2, <2>3, <1>5 DEF Down
  <2>7. \A i \in m..n : i # n => g[i] = step[<<i, g[i + 1]>>]
    <3> SUFFICES ASSUME NEW i \in m..n, i # n PROVE g[i] = step[<<i, g[i + 1]>>]
      OBVIOUS
    <3>1. i + 1 \in (m + 1)..n /\ i + 1 # m /\ g[i + 1] = f[i + 1]
      BY <2>3
    <3>2. CASE i = m
      BY <3>1, <3>2
    <3>3. CASE i # m
      <4>1. i \in (m + 1)..n /\ g[i] = f[i]
        BY <3>3, <2>3
      <4> QED BY <4>1, <3>1, <2>2 DEF Down
    <3> QED BY <3>2, <3>3
  <2> HIDE DEF g
  <2>8. Down(g, m, n, V, last, step)
    BY <2>5, <2>6, <2>7 DEF Down
  <2> QED BY <2>8
<1> QED BY <1>4, <1>5
-----------------------------------------------------------------------------
\* An instant is a day and an hour.
LEMMA DayAndHour ==
    ASSUME ClockConstants, NEW t \in Nat
    PROVE  /\ L!Day(t) \in Nat /\ L!Hour(t) \in 0..(DayLength - 1)
           /\ t = L!Instant(L!Day(t), L!Hour(t))
  BY DEF ClockConstants, L!Day, L!Hour, L!Instant

LEMMA InstantOrder ==
    ASSUME ClockConstants, NEW c \in Nat, NEW d \in Nat,
           NEW g \in 0..(DayLength - 1), NEW h \in 0..DayLength
    PROVE  /\ L!Instant(c, g) \in Nat /\ L!Instant(d, h) \in Nat
           /\ c < d => L!Instant(c, g) < L!Instant(d, h)
           /\ c > d => L!Instant(c, g) >= L!Instant(d, h)
           /\ c = d => (L!Instant(c, g) < L!Instant(d, h) <=> g < h)
<1>1. /\ DayLength \in Nat \ {0} /\ c * DayLength \in Nat /\ d * DayLength \in Nat
  BY DEF ClockConstants
<1>2. c < d => c * DayLength + DayLength <= d * DayLength
  <2>1. \A e \in Nat, k \in Nat \ {0} : e < d => e * k + k <= d * k
    OBVIOUS
  <2> QED BY <2>1, <1>1
<1>3. c > d => d * DayLength + DayLength <= c * DayLength
  <2>1. \A e \in Nat, k \in Nat \ {0} : e < c => e * k + k <= c * k
    OBVIOUS
  <2> QED BY <2>1, <1>1
<1> QED BY <1>1, <1>2, <1>3 DEF L!Instant

LEMMA InstantOf ==
    ASSUME ClockConstants, NEW d \in Nat, NEW h \in 0..(DayLength - 1)
    PROVE  /\ L!Instant(d, h) \in Nat
           /\ L!Day(L!Instant(d, h)) = d /\ L!Hour(L!Instant(d, h)) = h
<1> DEFINE t == L!Instant(d, h)
<1>1. t \in Nat
  BY InstantOrder DEF ClockConstants
<1> HIDE DEF t
<1>2. /\ L!Day(t) \in Nat /\ L!Hour(t) \in 0..(DayLength - 1)
      /\ t = L!Instant(L!Day(t), L!Hour(t))
  BY <1>1, DayAndHour
<1>3. \A g \in 0..(DayLength - 1) : g \in 0..DayLength
  BY DEF ClockConstants
<1>4. ~(L!Day(t) < d) /\ ~(L!Day(t) > d)
  <2>1. L!Day(t) < d => t < L!Instant(d, h)
    BY <1>2, <1>3, InstantOrder
  <2>2. d < L!Day(t) => L!Instant(d, h) < t
    BY <1>2, <1>3, InstantOrder
  <2> QED BY <2>1, <2>2, <1>1 DEF t
<1>5. L!Day(t) = d
  BY <1>2, <1>4
<1>6. ~(L!Hour(t) < h) /\ ~(L!Hour(t) > h)
  <2>1. L!Hour(t) < h => t < L!Instant(d, h)
    BY <1>2, <1>3, <1>5, InstantOrder
  <2>2. h < L!Hour(t) => L!Instant(d, h) < t
    BY <1>2, <1>3, <1>5, InstantOrder
  <2> QED BY <2>1, <2>2, <1>1 DEF t
<1>7. L!Hour(t) = h
  BY <1>2, <1>6
<1> QED BY <1>1, <1>5, <1>7 DEF t

\* Instants are ordered by their days and, of one day, by their hours.
LEMMA EarlierOf ==
    ASSUME ClockConstants, NEW t \in Nat, NEW u \in Nat
    PROVE  /\ L!Day(t) < L!Day(u) => t < u
           /\ L!Day(t) = L!Day(u) => (t < u <=> L!Hour(t) < L!Hour(u))
           /\ t <= u => L!Day(t) <= L!Day(u)
<1>1. /\ L!Day(t) \in Nat /\ L!Hour(t) \in 0..(DayLength - 1) /\ L!Hour(t) \in 0..DayLength
      /\ L!Day(u) \in Nat /\ L!Hour(u) \in 0..(DayLength - 1) /\ L!Hour(u) \in 0..DayLength
  BY DayAndHour DEF ClockConstants
<1>2. t = L!Instant(L!Day(t), L!Hour(t)) /\ u = L!Instant(L!Day(u), L!Hour(u))
  BY DayAndHour
<1>3. /\ L!Day(t) < L!Day(u) => t < u
      /\ L!Day(t) = L!Day(u) => (t < u <=> L!Hour(t) < L!Hour(u))
  BY <1>1, <1>2, InstantOrder
<1>4. L!Day(u) < L!Day(t) => u < t
  BY <1>1, <1>2, InstantOrder
<1> QED BY <1>1, <1>3, <1>4
-----------------------------------------------------------------------------
LEMMA CalendarHours ==
    ASSUME ClockConstants, calendar \in L!Calendars
    PROVE  /\ calendar.start \in Nat /\ calendar.start \in 0..(DayLength - 1)
           /\ calendar.end \in Nat /\ calendar.end \in 1..DayLength
           /\ calendar.start < calendar.end /\ calendar.holidays \subseteq Holidays
           /\ \E w \in 0..(Week - 1) : w \in calendar.workDays
<1>1. /\ calendar \in [workDays: (SUBSET (0..(Week - 1))) \ {{}}, holidays: SUBSET Holidays,
                      start: 0..(DayLength - 1), end: 1..DayLength]
      /\ calendar.start < calendar.end
  BY DEF L!Calendars
<1>2. calendar.workDays \in (SUBSET (0..(Week - 1))) \ {{}}
  BY <1>1
<1>3. /\ calendar.start \in 0..(DayLength - 1) /\ calendar.end \in 1..DayLength
      /\ calendar.holidays \subseteq Holidays
  BY <1>1
<1>4. calendar.start \in Nat /\ calendar.end \in Nat
  BY <1>3 DEF ClockConstants
<1> QED BY <1>1, <1>2, <1>3, <1>4

\* Within 400 days there is a working day: the holidays are too few to take
\* that many times the same day of the week.
LEMMA WorkingDaySoon ==
    ASSUME ClockConstants, calendar \in L!Calendars, NEW d \in Nat
    PROVE  \E j \in 1..400 : L!IsWorkingDay(d + j)
<1>1. PICK w \in 0..(Week - 1) : w \in calendar.workDays
  BY CalendarHours
<1> DEFINE n == Cardinality(Holidays)
<1>2. n \in Nat /\ Week \in Nat \ {0} /\ Week * (n + 1) <= 400 /\ IsFiniteSet(Holidays)
  BY FS_CardinalityType DEF ClockConstants
<1> HIDE DEF n
<1>3. \E f \in (d + 1)..(d + Week) : f % Week = w
  <2>1. PICK q \in Nat, r \in 0..(Week - 1) : d + 1 = q * Week + r
    <3>1. /\ (d + 1) \div Week \in Nat /\ (d + 1) % Week \in 0..(Week - 1)
          /\ d + 1 = ((d + 1) \div Week) * Week + ((d + 1) % Week)
      BY <1>2
    <3> QED BY <3>1
  <2>2. \A p \in Nat : (p * Week + w) % Week = w
    BY <1>2
  <2>3. (q + 1) * Week = q * Week + Week /\ q * Week \in Nat
    BY <1>2
  <2>4. CASE r <= w
    <3>1. q * Week + w \in (d + 1)..(d + Week)
      BY <2>1, <2>3, <2>4, <1>2
    <3> QED BY <3>1, <2>2
  <2>5. CASE r > w
    <3>1. (q + 1) * Week + w \in (d + 1)..(d + Week)
      BY <2>1, <2>3, <2>5, <1>2
    <3> QED BY <3>1, <2>2
  <2> QED BY <2>4, <2>5
<1>4. PICK f \in (d + 1)..(d + Week) : f % Week = w
  BY <1>3
<1>5. \A k \in 0..n : /\ k * Week \in Nat /\ f + k * Week \in (d + 1)..(d + 400)
                      /\ (f + k * Week) % Week = w
  <2> SUFFICES ASSUME NEW k \in 0..n
               PROVE  /\ k * Week \in Nat /\ f + k * Week \in (d + 1)..(d + 400)
                      /\ (f + k * Week) % Week = w
    OBVIOUS
  <2>1. k * Week \in Nat /\ n * Week \in Nat /\ Week * (n + 1) = n * Week + Week
    BY <1>2
  <2>3. k * Week <= n * Week
    <3>1. \A i \in 0..n, m \in Nat : i * m <= n * m
      BY <1>2
    <3> QED BY <3>1, <1>2
  <2>2. (f + k * Week) % Week = w
    <3>1. f \div Week \in Nat /\ f = (f \div Week) * Week + w
      BY <1>2, <1>4
    <3>2. \A p \in Nat : (p * Week + w) % Week = w
      BY <1>2
    <3>3. f + k * Week = ((f \div Week) + k) * Week + w
      BY <1>2, <3>1
    <3> QED BY <3>1, <3>2, <3>3
  <2>4. f + k * Week <= d + 400
    BY <2>1, <2>3, <1>2, <1>4
  <2> QED BY <2>1, <2>2, <2>4, <1>4
<1>6. PICK k \in 0..n : f + k * Week \notin calendar.holidays
  <2>1. SUFFICES ASSUME \A k \in 0..n : f + k * Week \in Holidays PROVE FALSE
    BY CalendarHours
  <2> DEFINE g == [k \in 0..n |-> f + k * Week]
  <2>2. g \in [0..n -> Holidays]
    BY <2>1
  <2>3. \A i, k \in 0..n : g[i] = g[k] => i = k
    <3>1. \A i, k \in 0..n : i < k => i * Week + Week <= k * Week
      BY <1>2
    <3>2. \A i, k \in 0..n : i < k => g[i] # g[k]
      BY <3>1, <1>2, <1>5
    <3> QED BY <3>2
  <2>4. g \in Injection(0..n, Holidays)
    BY <2>2, <2>3 DEF Injection, IsInjective
  <2> HIDE DEF g
  <2>5. Cardinality(0..n) <= n
    BY <2>4, <1>2, FS_Injection DEF n
  <2> QED BY <2>5, <1>2, FS_Interval
<1>7. L!IsWorkingDay(f + k * Week)
  <2>1. (f + k * Week) % Week = w
    BY <1>5
  <2> QED BY <2>1, <1>1, <1>6 DEF L!IsWorkingDay
<1>8. PICK j \in 1..400 : f + k * Week = d + j
  <2>1. f + k * Week \in (d + 1)..(d + 400)
    BY <1>5
  <2>2. \A e \in (d + 1)..(d + 400) : e - d \in 1..400 /\ e = d + (e - d)
    OBVIOUS
  <2> QED BY <2>1, <2>2
<1> QED BY <1>7, <1>8
-----------------------------------------------------------------------------
\* The moments the search looks at, whether it stops there, and what it takes.
Looked(t, i) == IF i = 0 THEN t ELSE L!Instant(L!Day(t) + i, calendar.start)
Stops(c) == L!IsWorkingDay(L!Day(c)) /\ L!Hour(c) < calendar.end
Taken(c) == IF L!Hour(c) < calendar.start THEN L!Instant(L!Day(c), calendar.start) ELSE c

\* The recursion of nextWorkingMoment.
Searches(search, t) == search =
    [i \in 0..400 |->
        LET cur == IF i = 0 THEN t ELSE L!Instant(L!Day(t) + i, calendar.start) IN
        IF i = 400 THEN cur
        ELSE IF ~L!IsWorkingDay(L!Day(cur)) \/ L!Hour(cur) >= calendar.end THEN search[i + 1]
        ELSE IF L!Hour(cur) < calendar.start THEN L!Instant(L!Day(cur), calendar.start)
        ELSE cur]

LEMMA LookedAt ==
    ASSUME ClockConstants, calendar \in L!Calendars, NEW t \in Nat, NEW i \in 0..400
    PROVE  /\ Looked(t, i) \in Nat /\ L!Day(Looked(t, i)) = L!Day(t) + i
           /\ L!Hour(Looked(t, i)) \in Nat
           /\ L!Hour(Looked(t, i)) = IF i = 0 THEN L!Hour(t) ELSE calendar.start
           /\ Taken(Looked(t, i)) \in Nat
           /\ L!Day(Taken(Looked(t, i))) = L!Day(t) + i
           /\ L!Hour(Taken(Looked(t, i))) =
                 IF L!Hour(Looked(t, i)) < calendar.start THEN calendar.start
                 ELSE L!Hour(Looked(t, i))
<1>1. L!Day(t) \in Nat /\ L!Hour(t) \in Nat /\ L!Day(t) + i \in Nat /\ L!Day(t) + 0 = L!Day(t)
  BY DayAndHour
<1>2. calendar.start \in 0..(DayLength - 1)
  BY CalendarHours
<1>3. \A d \in Nat : LET n == L!Instant(d, calendar.start) IN
         n \in Nat /\ L!Day(n) = d /\ L!Hour(n) = calendar.start
  BY <1>2, InstantOf
<1>4. /\ Looked(t, i) \in Nat /\ L!Day(Looked(t, i)) = L!Day(t) + i
      /\ L!Hour(Looked(t, i)) = IF i = 0 THEN L!Hour(t) ELSE calendar.start
  BY <1>1, <1>3 DEF Looked
<1>5. L!Hour(Looked(t, i)) \in Nat
  BY <1>4, DayAndHour
<1> QED BY <1>1, <1>3, <1>4, <1>5 DEF Taken

\* The search takes the first moment at which it stops.
LEMMA SearchFinds ==
    ASSUME ClockConstants, calendar \in L!Calendars, NEW t \in Nat,
           NEW k \in 0..400, Stops(Looked(t, k)),
           \A i \in 0..400 : i < k => ~Stops(Looked(t, i))
    PROVE  L!NextWorkingMoment(t) = Taken(Looked(t, k))
<1>1. PICK search : Searches(search, t) /\ L!NextWorkingMoment(t) = search[0]
  <2> DEFINE step == [p \in (0..400) \X Nat |->
                IF ~L!IsWorkingDay(L!Day(Looked(t, p[1]))) \/ L!Hour(Looked(t, p[1])) >= calendar.end
                THEN p[2] ELSE Taken(Looked(t, p[1]))]
  <2>1. 400 \in 0..400 /\ 400 \in Nat
    OBVIOUS
  <2>6. Looked(t, 400) \in Nat
    BY <2>1, LookedAt
  <2>5. step \in [(0..400) \X Nat -> Nat]
    <3>1. \A i \in 0..400 : Taken(Looked(t, i)) \in Nat
      BY LookedAt
    <3> QED BY <3>1
  <2>2. PICK f : Down(f, 0, 400, Nat, Looked(t, 400), step)
    <3> HIDE DEF step
    <3> QED BY <2>1, <2>5, <2>6, DefinedDown, ZenonT(40)
  <2>3. ASSUME NEW i \in 0..400, i # 400
        PROVE  f[i] = IF ~L!IsWorkingDay(L!Day(Looked(t, i))) \/ L!Hour(Looked(t, i)) >= calendar.end
                      THEN f[i + 1] ELSE Taken(Looked(t, i))
    <3>1. i + 1 \in 0..400
      BY <2>3
    <3>2. f[i] = step[<<i, f[i + 1]>>] /\ f[i + 1] \in Nat
      <4> HIDE DEF step
      <4>1. f \in [0..400 -> Nat]
        BY <2>2 DEF Down
      <4>2. \A j \in 0..400 : j # 400 => f[j] = step[<<j, f[j + 1]>>]
        BY <2>2, Zenon DEF Down
      <4> QED BY <3>1, <2>3, <4>1, <4>2, ZenonT(40)
    <3> QED BY <3>2
  <2>4. Searches(f, t)
    <3> HIDE DEF step
    <3>1. f = [i \in 0..400 |-> f[i]] /\ f[400] = Looked(t, 400)
      <4>1. f \in [0..400 -> Nat] /\ f[400] = Looked(t, 400)
        BY <2>2, Zenon DEF Down
      <4> QED BY <4>1, Zenon
    <3>2. f = [i \in 0..400 |->
             IF i = 400 THEN Looked(t, i)
             ELSE IF ~L!IsWorkingDay(L!Day(Looked(t, i))) \/ L!Hour(Looked(t, i)) >= calendar.end
                  THEN f[i + 1]
             ELSE Taken(Looked(t, i))]
      BY <3>1, <2>3
    <3> QED BY <3>2, Zenon DEF Searches, Looked, Taken
  <2> HIDE DEF step
  <2>7. L!NextWorkingMoment(t) = (CHOOSE search : Searches(search, t))[0]
    BY Zenon DEF L!NextWorkingMoment, Searches
  <2> QED BY <2>4, <2>7, Zenon
<1>2. ASSUME NEW i \in 0..400
      PROVE  search[i] = IF i = 400 THEN Looked(t, 400)
                         ELSE IF ~Stops(Looked(t, i)) THEN search[i + 1]
                         ELSE Taken(Looked(t, i))
  <2>1. L!Hour(Looked(t, i)) \in Nat /\ calendar.end \in Nat
    BY LookedAt, CalendarHours
  <2>2. (~L!IsWorkingDay(L!Day(Looked(t, i))) \/ L!Hour(Looked(t, i)) >= calendar.end)
          <=> ~Stops(Looked(t, i))
    BY <2>1 DEF Stops
  <2>3. search[i] =
             LET cur == IF i = 0 THEN t ELSE L!Instant(L!Day(t) + i, calendar.start) IN
             IF i = 400 THEN cur
             ELSE IF ~L!IsWorkingDay(L!Day(cur)) \/ L!Hour(cur) >= calendar.end THEN search[i + 1]
             ELSE IF L!Hour(cur) < calendar.start THEN L!Instant(L!Day(cur), calendar.start)
             ELSE cur
    BY <1>1, ZenonT(40) DEF Searches
  <2>4. search[i] =
             IF i = 400 THEN Looked(t, i)
             ELSE IF ~L!IsWorkingDay(L!Day(Looked(t, i))) \/ L!Hour(Looked(t, i)) >= calendar.end
                  THEN search[i + 1]
             ELSE Taken(Looked(t, i))
    BY <2>3, Zenon DEF Looked, Taken
  <2> QED BY <2>2, <2>4
<1> DEFINE wrong == {i \in 0..k : search[i] # Taken(Looked(t, k))}
<1>3. wrong = {}
  <2>1. SUFFICES ASSUME wrong # {} PROVE FALSE
    OBVIOUS
  <2>2. wrong \in SUBSET (0..k) /\ wrong \in SUBSET Nat
    OBVIOUS
  <2>3. IsFiniteSet(0..k)
    BY FS_Interval
  <2>4. PICK i \in wrong : \A j \in wrong : j <= i
    <3> HIDE DEF wrong
    <3>1. IsFiniteSet(wrong)
      BY <2>2, <2>3, FS_Subset
    <3> QED BY <2>1, <2>2, <3>1, GreatestOf
  <2>5. CASE i = k
    <3>1. k = 400 => Taken(Looked(t, k)) = Looked(t, k)
      <4>1. k # 0 => L!Hour(Looked(t, k)) = calendar.start
        BY LookedAt
      <4>2. calendar.start \in Nat
        BY CalendarHours
      <4> QED BY <4>1, <4>2 DEF Taken
    <3>2. search[k] = Taken(Looked(t, k))
      BY <3>1, <1>2
    <3> QED BY <2>4, <2>5, <3>2
  <2>6. CASE i # k
    <3>1. i + 1 \in 0..k /\ i < k /\ i # 400
      BY <2>6
    <3>2. i + 1 \notin wrong
      <4> HIDE DEF wrong
      <4> QED BY <2>2, <2>4
    <3>3. search[i] = search[i + 1]
      <4>1. i \in 0..400 /\ ~Stops(Looked(t, i))
        BY <2>4, <3>1
      <4> QED BY <4>1, <1>2, <3>1
    <3> QED BY <3>1, <3>2, <3>3
  <2> QED BY <2>5, <2>6
<1>4. search[0] = Taken(Looked(t, k))
  BY <1>3
<1> QED BY <1>1, <1>4

\* The next working moment is the first unit at work from the moment on.
LEMMA NextMoment ==
    ASSUME ClockConstants, calendar \in L!Calendars, NEW t \in Nat
    PROVE  LET n == L!NextWorkingMoment(t) IN
           /\ n \in Nat /\ t <= n /\ L!AtWork(n)
           /\ \A u \in Nat : t <= u /\ u < n => ~L!AtWork(u)
<1>1. /\ calendar.start \in Nat /\ calendar.end \in Nat /\ calendar.start < calendar.end
  BY CalendarHours
<1>2. L!Day(t) \in Nat /\ L!Hour(t) \in Nat
  BY DayAndHour
<1> DEFINE stopping == {i \in 0..400 : Stops(Looked(t, i))}
<1>3. stopping # {}
  <2>1. PICK j \in 1..400 : L!IsWorkingDay(L!Day(t) + j)
    BY <1>2, WorkingDaySoon
  <2>2. j # 0 /\ j \in 0..400
    OBVIOUS
  <2>3. L!Day(Looked(t, j)) = L!Day(t) + j /\ L!Hour(Looked(t, j)) = calendar.start
    BY <2>2, LookedAt
  <2>4. Stops(Looked(t, j))
    BY <2>1, <2>3, <1>1 DEF Stops
  <2> QED BY <2>2, <2>4
<1>4. PICK k \in stopping : \A i \in stopping : k <= i
  <2>1. stopping \in SUBSET Nat
    OBVIOUS
  <2> HIDE DEF stopping
  <2> QED BY <2>1, <1>3, LeastOf
<1>5. k \in 0..400 /\ Stops(Looked(t, k)) /\ \A i \in 0..400 : i < k => ~Stops(Looked(t, i))
  <2>1. k \in 0..400 /\ Stops(Looked(t, k))
    BY Zenon
  <2>2. ASSUME NEW i \in 0..400, Stops(Looked(t, i)) PROVE k <= i
    <3>1. i \in stopping
      BY <2>2, Zenon
    <3> HIDE DEF stopping
    <3> QED BY <1>4, <3>1, Zenon
  <2>3. \A i \in 0..400 : i < k => ~(k <= i)
    BY <2>1
  <2> QED BY <2>1, <2>2, <2>3, Zenon
<1> DEFINE n == Taken(Looked(t, k))
<1>6. L!NextWorkingMoment(t) = n
  BY <1>5, SearchFinds
<1>7. /\ n \in Nat /\ L!Day(n) = L!Day(t) + k /\ L!Hour(n) \in Nat
      /\ L!Hour(n) = IF L!Hour(Looked(t, k)) < calendar.start THEN calendar.start
                     ELSE L!Hour(Looked(t, k))
      /\ L!Hour(Looked(t, k)) = IF k = 0 THEN L!Hour(t) ELSE calendar.start
  <2>1. k \in 0..400
    BY <1>5
  <2>2. L!Hour(n) = IF L!Hour(Looked(t, k)) < calendar.start THEN calendar.start
                    ELSE L!Hour(Looked(t, k))
    BY <2>1, LookedAt
  <2>3. /\ n \in Nat /\ L!Day(n) = L!Day(t) + k /\ L!Hour(Looked(t, k)) \in Nat
        /\ L!Hour(Looked(t, k)) = IF k = 0 THEN L!Hour(t) ELSE calendar.start
    BY <2>1, LookedAt
  <2> QED BY <1>1, <2>2, <2>3
<1>8. L!AtWork(n)
  <2>1. L!Day(Looked(t, k)) = L!Day(t) + k
    BY <1>5, LookedAt
  <2>2. L!IsWorkingDay(L!Day(n)) /\ L!Hour(Looked(t, k)) < calendar.end
    BY <1>5, <1>7, <2>1 DEF Stops
  <2>3. calendar.start <= L!Hour(n) /\ L!Hour(n) < calendar.end
    BY <1>1, <1>2, <1>7, <2>2
  <2> QED BY <2>2, <2>3 DEF L!AtWork, L!IsWorkingDay
<1> HIDE DEF n
<1>9. t <= n
  <2>1. k # 0 => t < n
    BY <1>2, <1>5, <1>7, EarlierOf
  <2>2. k = 0 => ~(n < t)
    BY <1>1, <1>2, <1>7, EarlierOf
  <2> QED BY <2>1, <2>2, <1>7
<1>10. ASSUME NEW u \in Nat, t <= u, u < n, L!AtWork(u) PROVE FALSE
  <2>1. L!Day(u) \in Nat /\ L!Hour(u) \in Nat
    BY DayAndHour
  <2>2. L!Day(t) <= L!Day(u) /\ L!Day(u) <= L!Day(n)
    BY <1>7, <1>10, EarlierOf
  <2>3. PICK i \in 0..k : L!Day(u) = L!Day(t) + i
    <3>1. L!Day(u) - L!Day(t) \in 0..k
      BY <1>2, <1>5, <1>7, <2>1, <2>2
    <3> QED BY <3>1, <1>2, <2>1
  <2>4. /\ L!IsWorkingDay(L!Day(u))
        /\ calendar.start <= L!Hour(u) /\ L!Hour(u) < calendar.end
    BY <1>10 DEF L!AtWork, L!IsWorkingDay
  <2>5. L!Day(u) = L!Day(t) => L!Hour(t) <= L!Hour(u)
    BY <1>2, <1>10, <2>1, EarlierOf
  <2>6. CASE i < k
    <3>1. i \in 0..400 /\ ~Stops(Looked(t, i))
      BY <2>6, <1>5
    <3>2. /\ L!Day(Looked(t, i)) = L!Day(u)
          /\ L!Hour(Looked(t, i)) = IF i = 0 THEN L!Hour(t) ELSE calendar.start
      BY <2>3, <3>1, LookedAt
    <3>3. L!Hour(Looked(t, i)) < calendar.end
      BY <3>2, <2>1, <2>3, <2>4, <2>5, <1>1, <1>2
    <3> QED BY <3>1, <3>2, <3>3, <2>4 DEF Stops
  <2>7. CASE i = k
    <3>1. L!Day(u) = L!Day(n) /\ L!Hour(u) < L!Hour(n)
      BY <2>3, <2>7, <1>7, <1>10, EarlierOf
    <3>2. k = 0 => L!Hour(t) <= L!Hour(u)
      BY <2>3, <2>5, <2>7, <1>2
    <3> QED BY <3>1, <3>2, <2>1, <2>4, <1>1, <1>2, <1>7
  <2> QED BY <2>6, <2>7, <2>3, <1>5
<1> QED BY <1>6, <1>7, <1>8, <1>9, <1>10
-----------------------------------------------------------------------------
\* The units at work from one instant up to another.
Span(a, b) == {t \in a..b : t < b /\ L!AtWork(t)}
Units(a, b) == Cardinality(Span(a, b))

LEMMA UnitsType ==
    ASSUME NEW a \in Nat, NEW b \in Nat PROVE IsFiniteSet(Span(a, b)) /\ Units(a, b) \in Nat
<1>1. Span(a, b) \in SUBSET (a..b) /\ IsFiniteSet(a..b)
  BY FS_Interval DEF Span
<1> QED BY <1>1, FS_Subset, FS_CardinalityType DEF Units

LEMMA UnitsAdd ==
    ASSUME NEW a \in Nat, NEW b \in Nat, NEW c \in Nat, a <= b, b <= c
    PROVE  Units(a, c) = Units(a, b) + Units(b, c)
<1>1. Span(a, c) = Span(a, b) \cup Span(b, c) /\ Span(a, b) \cap Span(b, c) = {}
  BY DEF Span
<1>2. IsFiniteSet(Span(a, b)) /\ IsFiniteSet(Span(b, c)) /\ Cardinality({}) = 0
      /\ Units(a, b) \in Nat /\ Units(b, c) \in Nat
  BY UnitsType, FS_EmptySet
<1>3. Cardinality(Span(a, c)) = Cardinality(Span(a, b)) + Cardinality(Span(b, c)) - 0
  BY <1>1, <1>2, FS_Union
<1> QED BY <1>2, <1>3 DEF Units

LEMMA UnitsNone ==
    ASSUME NEW a \in Nat, NEW b \in Nat, \A t \in Nat : a <= t /\ t < b => ~L!AtWork(t)
    PROVE  Units(a, b) = 0
<1>1. Span(a, b) = {}
  BY DEF Span
<1> QED BY <1>1, FS_EmptySet DEF Units

LEMMA UnitsAll ==
    ASSUME NEW a \in Nat, NEW b \in Nat, a <= b, \A t \in Nat : a <= t /\ t < b => L!AtWork(t)
    PROVE  Units(a, b) = b - a
<1>1. Span(a, b) = a..(b - 1)
  BY DEF Span
<1>2. Cardinality(a..(b - 1)) = b - a
  <2>1. a \in Int /\ b - 1 \in Int
    OBVIOUS
  <2>2. Cardinality(a..(b - 1)) = IF a > b - 1 THEN 0 ELSE (b - 1) - a + 1
    BY <2>1, FS_Interval
  <2> QED BY <2>2
<1> QED BY <1>1, <1>2 DEF Units

\* From a unit at work the day goes on to its end, and then nobody works up to
\* the next working moment, on a later day.
LEMMA DayAtWork ==
    ASSUME ClockConstants, calendar \in L!Calendars, NEW x \in Nat
    PROVE  LET e == L!DayEnd(x)
               m == L!NextWorkingMoment(L!NextDay(x)) IN
           /\ e \in Nat /\ m \in Nat /\ L!AtWork(m) /\ L!Day(x) < L!Day(m)
           /\ L!AtWork(x) =>
                 /\ x < e /\ e <= m
                 /\ \A u \in Nat : x <= u /\ u < e => L!AtWork(u)
                 /\ \A u \in Nat : e <= u /\ u < m => ~L!AtWork(u)
<1> DEFINE e == L!DayEnd(x)
           d == L!NextDay(x)
           m == L!NextWorkingMoment(d)
<1>1. /\ calendar.start \in Nat /\ calendar.end \in Nat /\ calendar.start < calendar.end
      /\ calendar.start \in 0..(DayLength - 1) /\ calendar.end \in 0..DayLength
  BY CalendarHours
<1>2. L!Day(x) \in Nat /\ L!Day(x) + 1 \in Nat /\ L!Hour(x) \in Nat
  BY DayAndHour
<1>3. d \in Nat /\ L!Day(d) = L!Day(x) + 1 /\ L!Hour(d) = calendar.start
  BY <1>1, <1>2, InstantOf DEF L!NextDay
<1>4. e \in Nat /\ e <= d
  <2>1. /\ L!Instant(L!Day(x) + 1, calendar.start) \in Nat /\ L!Instant(L!Day(x), calendar.end) \in Nat
        /\ L!Day(x) + 1 > L!Day(x) =>
             L!Instant(L!Day(x) + 1, calendar.start) >= L!Instant(L!Day(x), calendar.end)
    BY <1>1, <1>2, InstantOrder
  <2> QED BY <1>2, <2>1 DEF L!DayEnd, L!NextDay
<1>5. ASSUME NEW u \in Nat
      PROVE  /\ L!Day(u) \in Nat /\ L!Hour(u) \in Nat
             /\ L!Day(u) < L!Day(x) => u < e
             /\ L!Day(u) > L!Day(x) => u >= e
             /\ L!Day(u) = L!Day(x) => (u < e <=> L!Hour(u) < calendar.end)
  <2>1. /\ L!Day(u) \in Nat /\ L!Hour(u) \in 0..(DayLength - 1) /\ L!Hour(u) \in Nat
        /\ u = L!Instant(L!Day(u), L!Hour(u))
    BY DayAndHour
  <2> DEFINE v == L!Instant(L!Day(u), L!Hour(u))
             w == L!Instant(L!Day(x), calendar.end)
  <2>2. /\ v \in Nat /\ w \in Nat
        /\ L!Day(u) < L!Day(x) => v < w
        /\ L!Day(u) > L!Day(x) => v >= w
        /\ L!Day(u) = L!Day(x) => (v < w <=> L!Hour(u) < calendar.end)
    BY <2>1, <1>1, <1>2, InstantOrder
  <2>3. u = v /\ e = w
    BY <2>1 DEF L!DayEnd
  <2> HIDE DEF v, w, e
  <2> QED BY <2>1, <2>2, <2>3
<1> HIDE DEF e, d
<1>6. /\ m \in Nat /\ d <= m /\ L!AtWork(m)
      /\ \A u \in Nat : d <= u /\ u < m => ~L!AtWork(u)
  BY <1>3, NextMoment
<1>7. L!Day(x) < L!Day(m)
  <2>1. L!Day(d) <= L!Day(m) /\ L!Day(m) \in Nat
    BY <1>3, <1>6, EarlierOf, DayAndHour
  <2> QED BY <2>1, <1>2, <1>3
<1> HIDE DEF m
<1>8. ASSUME L!AtWork(x)
      PROVE  /\ x < e /\ e <= m
             /\ \A u \in Nat : x <= u /\ u < e => L!AtWork(u)
             /\ \A u \in Nat : e <= u /\ u < m => ~L!AtWork(u)
  <2>1. /\ L!Day(x) \notin calendar.holidays /\ L!Day(x) % Week \in calendar.workDays
        /\ calendar.start <= L!Hour(x) /\ L!Hour(x) < calendar.end
    BY <1>8 DEF L!AtWork
  <2>2. x < e /\ e <= m
    BY <2>1, <1>3, <1>4, <1>5, <1>6
  <2>3. ASSUME NEW u \in Nat, x <= u, u < e PROVE L!AtWork(u)
    <3>1. L!Day(u) = L!Day(x)
      <4>1. L!Day(x) <= L!Day(u)
        BY <2>3, EarlierOf
      <4>2. ~(L!Day(u) > L!Day(x))
        BY <2>3, <1>4, <1>5
      <4> QED BY <4>1, <4>2, <1>2, <1>5
    <3>2. L!Hour(u) < calendar.end
      BY <3>1, <2>3, <1>5
    <3>3. L!Hour(x) <= L!Hour(u)
      BY <3>1, <2>3, <1>2, <1>5, EarlierOf
    <3> QED BY <3>1, <3>2, <3>3, <2>1, <1>1, <1>2, <1>5 DEF L!AtWork
  <2>4. ASSUME NEW u \in Nat, e <= u, u < m, L!AtWork(u) PROVE FALSE
    <3>1. calendar.start <= L!Hour(u) /\ L!Hour(u) < calendar.end
      BY <2>4 DEF L!AtWork
    <3>2. u < d
      BY <2>4, <1>3, <1>6
    <3>3. L!Day(u) <= L!Day(d) /\ (L!Day(u) = L!Day(d) => L!Hour(u) < L!Hour(d))
      BY <3>2, <1>3, EarlierOf
    <3>4. L!Day(u) <= L!Day(x)
      BY <3>1, <3>3, <1>1, <1>2, <1>3, <1>5
    <3>5. u < e
      BY <3>1, <3>4, <1>2, <1>5
    <3> QED BY <3>5, <2>4, <1>4
  <2> QED BY <2>2, <2>3, <2>4
<1> QED BY <1>4, <1>6, <1>7, <1>8 DEF e, m, d

\* One turn of either loop.
LEMMA UnitsTurn ==
    ASSUME ClockConstants, calendar \in L!Calendars, NEW x \in Nat, L!AtWork(x), NEW u \in Nat
    PROVE  Units(x, u) =
              L!Available(x, IF L!DayEnd(x) < u THEN L!DayEnd(x) ELSE u)
              + Units(L!NextWorkingMoment(L!NextDay(x)), u)
<1> DEFINE e == L!DayEnd(x)
           m == L!NextWorkingMoment(L!NextDay(x))
<1>1. /\ e \in Nat /\ m \in Nat /\ x < e /\ e <= m
      /\ \A t \in Nat : x <= t /\ t < e => L!AtWork(t)
      /\ \A t \in Nat : e <= t /\ t < m => ~L!AtWork(t)
  BY DayAtWork
<1> HIDE DEF e, m
<1>2. SUFFICES Units(x, u) = L!Available(x, IF e < u THEN e ELSE u) + Units(m, u)
  BY DEF e, m
<1>3. u <= m => Units(m, u) = 0
  BY <1>1, UnitsNone
<1>4. CASE u <= x
  <2>1. Units(x, u) = 0
    BY <1>4, UnitsNone
  <2> QED BY <2>1, <1>1, <1>3, <1>4 DEF L!Available
<1>5. CASE x < u /\ u <= e
  <2>1. Units(x, u) = u - x
    BY <1>1, <1>5, UnitsAll
  <2> QED BY <2>1, <1>1, <1>3, <1>5 DEF L!Available
<1>6. CASE e < u
  <2>1. Units(x, e) = e - x
    BY <1>1, UnitsAll
  <2>2. Units(x, u) = Units(x, e) + Units(e, u)
    BY <1>1, <1>6, UnitsAdd
  <2>3. CASE u <= m
    <3>1. Units(e, u) = 0
      BY <1>1, <2>3, UnitsNone
    <3> QED BY <3>1, <2>1, <2>2, <2>3, <1>1, <1>3, <1>6 DEF L!Available
  <2>4. CASE m < u
    <3>1. Units(e, m) = 0
      BY <1>1, UnitsNone
    <3>2. Units(e, u) = Units(e, m) + Units(m, u)
      BY <1>1, <2>4, UnitsAdd
    <3>3. Units(m, u) \in Nat
      BY <1>1, UnitsType
    <3> QED BY <3>1, <3>2, <3>3, <2>1, <2>2, <1>1, <1>6 DEF L!Available
  <2> QED BY <2>3, <2>4, <1>1
<1> QED BY <1>1, <1>4, <1>5, <1>6

\* Nobody works before the next working moment.
LEMMA UnitsFrom ==
    ASSUME ClockConstants, calendar \in L!Calendars, NEW t \in Nat, NEW u \in Nat
    PROVE  Units(t, u) = Units(L!NextWorkingMoment(t), u)
<1> DEFINE n == L!NextWorkingMoment(t)
<1>1. n \in Nat /\ t <= n /\ \A k \in Nat : t <= k /\ k < n => ~L!AtWork(k)
  BY NextMoment
<1> HIDE DEF n
<1>2. CASE u <= n
  <2>1. Units(t, u) = 0 /\ Units(n, u) = 0
    BY <1>1, <1>2, UnitsNone
  <2> QED BY <2>1 DEF n
<1>3. CASE n < u
  <2>1. Units(t, n) = 0 /\ Units(t, u) = Units(t, n) + Units(n, u) /\ Units(n, u) \in Nat
    BY <1>1, <1>3, UnitsNone, UnitsAdd, UnitsType
  <2> QED BY <2>1 DEF n
<1> QED BY <1>1, <1>2, <1>3
-----------------------------------------------------------------------------
LEMMA AvailableType ==
    ASSUME NEW a \in Nat, NEW b \in Nat
    PROVE  L!Available(a, b) \in Nat /\ (a < b => L!Available(a, b) = b - a)
  BY DEF L!Available

\* The recursion of workingMsBetween.
Segment(c, to) == L!Available(c, IF L!DayEnd(c) < to THEN L!DayEnd(c) ELSE to)
Following(c) == L!NextWorkingMoment(L!NextDay(c))
Totals(total, to) == total =
    [turn \in 0..L!Turns |-> [cursor \in Nat |->
        IF turn = L!Turns \/ cursor >= to THEN 0
        ELSE Segment(cursor, to) + total[turn + 1][Following(cursor)]]]

LEMMA FollowingType ==
    ASSUME ClockConstants, calendar \in L!Calendars, NEW c \in Nat
    PROVE  /\ Following(c) \in Nat /\ L!AtWork(Following(c)) /\ L!Day(c) < L!Day(Following(c))
           /\ L!DayEnd(c) \in Nat /\ \A to \in Nat : Segment(c, to) \in Nat
<1>1. /\ Following(c) \in Nat /\ L!AtWork(Following(c)) /\ L!Day(c) < L!Day(Following(c))
      /\ L!DayEnd(c) \in Nat
  BY DayAtWork DEF Following
<1>2. ASSUME NEW to \in Nat PROVE Segment(c, to) \in Nat
  <2>1. (IF L!DayEnd(c) < to THEN L!DayEnd(c) ELSE to) \in Nat
    BY <1>1
  <2> QED BY <2>1, AvailableType DEF Segment
<1> QED BY <1>1, <1>2

LEMMA TotalsExist ==
    ASSUME ClockConstants, calendar \in L!Calendars, NEW to \in Nat
    PROVE  \E f : Totals(f, to)
<1> DEFINE V == [Nat -> Nat]
           n == L!Turns
           last == [c \in Nat |-> 0]
           step == [p \in (0..n) \X V |-> [c \in Nat |->
                      IF c >= to THEN 0 ELSE Segment(c, to) + p[2][Following(c)]]]
<1>1. n \in Nat /\ last \in V
  BY DEF L!Turns
<1>2. step \in [(0..n) \X V -> V]
  <2> HIDE DEF n
  <2>1. ASSUME NEW p \in (0..n) \X V, NEW c \in Nat
        PROVE  (IF c >= to THEN 0 ELSE Segment(c, to) + p[2][Following(c)]) \in Nat
    <3>1. p[2] \in [Nat -> Nat] /\ Following(c) \in Nat /\ Segment(c, to) \in Nat
      BY <2>1, FollowingType
    <3>2. p[2][Following(c)] \in Nat
      BY <3>1
    <3> QED BY <3>1, <3>2
  <2> QED BY <2>1
<1>3. PICK f : Down(f, 0, n, V, last, step)
  <2> HIDE DEF n, V, last, step
  <2> QED BY <1>1, <1>2, DefinedDown
<1>4. f \in [0..n -> V] /\ f[n] = last
  BY <1>3, Zenon DEF Down
<1>5. ASSUME NEW i \in 0..n, i # n PROVE f[i] = step[<<i, f[i + 1]>>] /\ f[i + 1] \in V
  <2> HIDE DEF step, last
  <2>1. i + 1 \in 0..n
    BY <1>1, <1>5
  <2>2. f[i] = step[<<i, f[i + 1]>>]
    BY <1>3, <1>5, Zenon DEF Down
  <2> HIDE DEF V, n
  <2> QED BY <2>1, <2>2, <1>4
<1>6. ASSUME NEW i \in 0..n
      PROVE  f[i] = [c \in Nat |-> IF i = n \/ c >= to THEN 0
                                   ELSE Segment(c, to) + f[i + 1][Following(c)]]
  <2> HIDE DEF n
  <2>1. CASE i = n
    BY <2>1, <1>4
  <2>2. CASE i # n
    <3> HIDE DEF V
    <3>1. f[i] = step[<<i, f[i + 1]>>] /\ <<i, f[i + 1]>> \in (0..n) \X V
      BY <2>2, <1>5
    <3>2. f[i] = [c \in Nat |-> IF c >= to THEN 0
                                ELSE Segment(c, to) + <<i, f[i + 1]>>[2][Following(c)]]
      BY <3>1
    <3> HIDE DEF step
    <3> QED BY <3>2, <2>2
  <2> QED BY <2>1, <2>2
<1>7. Totals(f, to)
  <2> HIDE DEF step, last
  <2>1. f = [i \in 0..n |-> f[i]]
    BY <1>4
  <2> QED BY <2>1, <1>6 DEF Totals
<1> QED BY <1>7

\* The total of the turns that are left.
CountsFrom(total, to, turn) ==
    \A x \in Nat : L!AtWork(x) /\ L!Day(to) + turn < L!Turns + L!Day(x)
                     => total[turn][x] = Units(x, to)

LEMMA TotalsCount ==
    ASSUME ClockConstants, calendar \in L!Calendars, NEW to \in Nat,
           NEW total, Totals(total, to)
    PROVE  \A turn \in 0..L!Turns : CountsFrom(total, to, turn)
<1> DEFINE wrong == {turn \in 0..L!Turns : ~CountsFrom(total, to, turn)}
<1>1. L!Turns \in Nat
  BY DEF L!Turns
<1>2. SUFFICES ASSUME wrong # {} PROVE FALSE
  OBVIOUS
<1>3. wrong \in SUBSET (0..L!Turns) /\ wrong \in SUBSET Nat
  BY <1>1
<1>4. IsFiniteSet(0..L!Turns)
  BY <1>1, FS_Interval
<1>5. PICK turn \in wrong : \A k \in wrong : k <= turn
  <2> HIDE DEF wrong
  <2>1. IsFiniteSet(wrong)
    BY <1>3, <1>4, FS_Subset
  <2> QED BY <1>2, <1>3, <2>1, GreatestOf
<1>6. turn \in 0..L!Turns /\ ~CountsFrom(total, to, turn)
  BY <1>5
<1>7. PICK x \in Nat : /\ L!AtWork(x) /\ L!Day(to) + turn < L!Turns + L!Day(x)
                       /\ total[turn][x] # Units(x, to)
  BY <1>6 DEF CountsFrom
<1>8. total[turn][x] = IF turn = L!Turns \/ x >= to THEN 0
                       ELSE Segment(x, to) + total[turn + 1][Following(x)]
  <2>1. total[turn] = [cursor \in Nat |->
           IF turn = L!Turns \/ cursor >= to THEN 0
           ELSE Segment(cursor, to) + total[turn + 1][Following(cursor)]]
    <3> HIDE DEF wrong
    <3> QED BY <1>6, Zenon DEF Totals
  <2> QED BY <2>1, <1>7
<1>9. L!Day(to) \in Nat /\ L!Day(x) \in Nat
  BY DayAndHour
<1>10. CASE turn = L!Turns \/ x >= to
  <2>1. x >= to
    <3>1. turn = L!Turns => L!Day(to) < L!Day(x)
      BY <1>1, <1>7, <1>9
    <3> QED BY <3>1, <1>10, EarlierOf
  <2>2. Units(x, to) = 0
    BY <2>1, UnitsNone
  <2> QED BY <2>2, <1>7, <1>8, <1>10
<1>11. CASE turn # L!Turns /\ x < to
  <2>1. /\ Following(x) \in Nat /\ L!AtWork(Following(x))
        /\ L!Day(x) < L!Day(Following(x)) /\ L!Day(Following(x)) \in Nat
    BY FollowingType, DayAndHour
  <2>2. turn + 1 \in 0..L!Turns /\ turn + 1 \notin wrong
    <3>1. turn + 1 \in 0..L!Turns
      BY <1>1, <1>6, <1>11
    <3>2. turn + 1 \notin wrong
      <4> HIDE DEF wrong
      <4> QED BY <1>1, <1>5, <1>6
    <3> QED BY <3>1, <3>2
  <2>3. CountsFrom(total, to, turn + 1)
    BY <2>2
  <2>4. L!Day(to) + (turn + 1) < L!Turns + L!Day(Following(x))
    BY <2>1, <1>1, <1>6, <1>7, <1>9
  <2>5. total[turn + 1][Following(x)] = Units(Following(x), to)
    BY <2>1, <2>3, <2>4 DEF CountsFrom
  <2>6. Units(x, to) = Segment(x, to) + Units(Following(x), to)
    BY <1>7, UnitsTurn DEF Segment, Following
  <2>7. total[turn][x] = Segment(x, to) + total[turn + 1][Following(x)]
    BY <1>8, <1>11
  <2> QED BY <2>5, <2>6, <2>7, <1>7
<1> QED BY <1>7, <1>10, <1>11
-----------------------------------------------------------------------------
\* The recursion of computeSlaDueAt.
Room(c) == L!Available(c, L!DayEnd(c))
Spends(spend) == spend =
    [turn \in 0..L!Turns |-> [at \in Nat \X Nat |->
        LET cursor == at[1]
            remaining == at[2]
            available == L!Available(cursor, L!DayEnd(cursor))
        IN  IF turn = L!Turns THEN cursor
            ELSE IF remaining <= available THEN cursor + remaining
            ELSE spend[turn + 1][<<L!NextWorkingMoment(L!NextDay(cursor)),
                                   remaining - available>>]]]

LEMMA SpendsExist ==
    ASSUME ClockConstants, calendar \in L!Calendars
    PROVE  \E f : Spends(f)
<1> DEFINE V == [Nat \X Nat -> Nat]
           n == L!Turns
           last == [at \in Nat \X Nat |-> at[1]]
           step == [p \in (0..n) \X V |-> [at \in Nat \X Nat |->
                      IF at[2] <= Room(at[1]) THEN at[1] + at[2]
                      ELSE p[2][<<Following(at[1]), at[2] - Room(at[1])>>]]]
<1>1. n \in Nat /\ last \in V
  BY DEF L!Turns
<1>2. step \in [(0..n) \X V -> V]
  <2> HIDE DEF n
  <2>1. ASSUME NEW p \in (0..n) \X V, NEW at \in Nat \X Nat
        PROVE  (IF at[2] <= Room(at[1]) THEN at[1] + at[2]
                ELSE p[2][<<Following(at[1]), at[2] - Room(at[1])>>]) \in Nat
    <3>1. /\ p[2] \in [Nat \X Nat -> Nat] /\ at[1] \in Nat /\ at[2] \in Nat
      BY <2>1
    <3>2. Following(at[1]) \in Nat /\ Room(at[1]) \in Nat
      <4>1. L!DayEnd(at[1]) \in Nat /\ Following(at[1]) \in Nat
        BY <3>1, FollowingType
      <4> QED BY <4>1, <3>1, AvailableType DEF Room
    <3>3. ~(at[2] <= Room(at[1])) => at[2] - Room(at[1]) \in Nat
      BY <3>1, <3>2
    <3>4. at[1] + at[2] \in Nat
      BY <3>1
    <3>5. ~(at[2] <= Room(at[1])) => p[2][<<Following(at[1]), at[2] - Room(at[1])>>] \in Nat
      BY <3>1, <3>2, <3>3
    <3> QED BY <3>4, <3>5
  <2> QED BY <2>1
<1>3. PICK f : Down(f, 0, n, V, last, step)
  <2> HIDE DEF n, V, last, step
  <2> QED BY <1>1, <1>2, DefinedDown
<1>4. f \in [0..n -> V] /\ f[n] = last
  BY <1>3, Zenon DEF Down
<1>5. ASSUME NEW i \in 0..n, i # n PROVE f[i] = step[<<i, f[i + 1]>>] /\ f[i + 1] \in V
  <2> HIDE DEF step, last
  <2>1. i + 1 \in 0..n
    BY <1>1, <1>5
  <2>2. f[i] = step[<<i, f[i + 1]>>]
    BY <1>3, <1>5, Zenon DEF Down
  <2> HIDE DEF V, n
  <2> QED BY <2>1, <2>2, <1>4
<1>6. ASSUME NEW i \in 0..n
      PROVE  f[i] = [at \in Nat \X Nat |->
                IF i = n THEN at[1] ELSE IF at[2] <= Room(at[1]) THEN at[1] + at[2]
                ELSE f[i + 1][<<Following(at[1]), at[2] - Room(at[1])>>]]
  <2> HIDE DEF n
  <2>1. CASE i = n
    BY <2>1, <1>4
  <2>2. CASE i # n
    <3> HIDE DEF V
    <3>1. f[i] = step[<<i, f[i + 1]>>] /\ <<i, f[i + 1]>> \in (0..n) \X V
      BY <2>2, <1>5
    <3>2. f[i] = [at \in Nat \X Nat |->
                IF at[2] <= Room(at[1]) THEN at[1] + at[2]
                ELSE <<i, f[i + 1]>>[2][<<Following(at[1]), at[2] - Room(at[1])>>]]
      BY <3>1
    <3> HIDE DEF step
    <3> QED BY <3>2, <2>2
  <2> QED BY <2>1, <2>2
<1>7. Spends(f)
  <2> HIDE DEF step, last
  <2>1. f = [i \in 0..n |-> f[i]]
    BY <1>4
  <2>2. f = [i \in 0..n |-> [at \in Nat \X Nat |->
                IF i = n THEN at[1] ELSE IF at[2] <= Room(at[1]) THEN at[1] + at[2]
                ELSE f[i + 1][<<Following(at[1]), at[2] - Room(at[1])>>]]]
    BY <2>1, <1>6, Zenon
  <2> QED BY <2>2, Zenon DEF Spends, Room, Following
<1> QED BY <1>7

\* The instant by which so many units at work have passed.
Meets(x, r, d) == d \in Nat /\ \A u \in Nat : d <= u <=> r <= Units(x, u)

LEMMA MeetsToday ==
    ASSUME ClockConstants, calendar \in L!Calendars, NEW x \in Nat, L!AtWork(x),
           NEW r \in Nat \ {0}, r <= Room(x)
    PROVE  Meets(x, r, x + r)
<1>1. /\ L!DayEnd(x) \in Nat /\ x < L!DayEnd(x) /\ Room(x) = L!DayEnd(x) - x
      /\ \A t \in Nat : x <= t /\ t < L!DayEnd(x) => L!AtWork(t)
  BY DayAtWork, AvailableType DEF Room
<1>2. x + r \in Nat /\ x + r <= L!DayEnd(x)
  BY <1>1
<1>3. ASSUME NEW u \in Nat, x + r <= u PROVE r <= Units(x, u)
  <2>1. Units(x, x + r) = r
    <3>1. \A t \in Nat : x <= t /\ t < x + r => L!AtWork(t)
      BY <1>1, <1>2
    <3>2. Units(x, x + r) = (x + r) - x
      BY <3>1, <1>2, UnitsAll
    <3>3. (x + r) - x = r
      OBVIOUS
    <3> QED BY <3>2, <3>3
  <2>2. Units(x, u) = Units(x, x + r) + Units(x + r, u)
    <3>1. x <= x + r
      OBVIOUS
    <3> QED BY <3>1, <1>2, <1>3, UnitsAdd
  <2>3. Units(x + r, u) \in Nat
    BY <1>2, UnitsType
  <2> QED BY <2>1, <2>2, <2>3
<1>4. ASSUME NEW u \in Nat, u < x + r PROVE Units(x, u) < r
  <2>1. CASE u <= x
    <3>1. Units(x, u) = 0
      BY <2>1, UnitsNone
    <3> QED BY <3>1
  <2>2. CASE x < u
    <3>1. \A t \in Nat : x <= t /\ t < u => L!AtWork(t)
      BY <1>1, <1>2, <1>4
    <3>2. Units(x, u) = u - x
      BY <3>1, <2>2, UnitsAll
    <3> QED BY <3>2, <1>4
  <2> QED BY <2>1, <2>2
<1>5. ASSUME NEW u \in Nat PROVE x + r <= u <=> r <= Units(x, u)
  <2>1. Units(x, u) \in Nat
    BY UnitsType
  <2> QED BY <2>1, <1>2, <1>3, <1>4
<1> QED BY <1>2, <1>5 DEF Meets

LEMMA MeetsLater ==
    ASSUME ClockConstants, calendar \in L!Calendars, NEW x \in Nat, L!AtWork(x),
           NEW r \in Nat, Room(x) < r, NEW d, Meets(Following(x), r - Room(x), d)
    PROVE  Meets(x, r, d)
<1>1. /\ L!DayEnd(x) \in Nat /\ x < L!DayEnd(x) /\ Room(x) = L!DayEnd(x) - x
      /\ Room(x) \in Nat /\ Following(x) \in Nat /\ L!DayEnd(x) <= Following(x)
  BY DayAtWork, AvailableType DEF Room, Following
<1>2. ASSUME NEW u \in Nat PROVE r <= Units(x, u) <=> r - Room(x) <= Units(Following(x), u)
  <2>1. Units(x, u) = Segment(x, u) + Units(Following(x), u)
    BY UnitsTurn DEF Segment, Following
  <2>2. Units(Following(x), u) \in Nat /\ Segment(x, u) \in Nat
    BY <1>1, UnitsType, FollowingType
  <2>3. CASE L!DayEnd(x) < u
    <3>1. Segment(x, u) = Room(x)
      BY <2>3 DEF Segment, Room
    <3> QED BY <3>1, <2>1, <2>2, <1>1
  <2>4. CASE u <= L!DayEnd(x)
    <3>1. Units(Following(x), u) = 0
      BY <2>4, <1>1, UnitsNone
    <3>2. Segment(x, u) <= Room(x)
      BY <2>4, <1>1 DEF Segment, L!Available
    <3> QED BY <3>1, <3>2, <2>1, <2>2, <1>1
  <2> QED BY <2>3, <2>4, <1>1
<1> QED BY <1>2 DEF Meets

\* What is spent in the turns that are left.
MeetsFrom(spend, turn) ==
    \A x \in Nat, r \in Nat \ {0} : L!AtWork(x) /\ r + turn <= L!Turns
        => Meets(x, r, spend[turn][<<x, r>>])

LEMMA SpendsMeet ==
    ASSUME ClockConstants, calendar \in L!Calendars, NEW spend, Spends(spend)
    PROVE  \A turn \in 0..L!Turns : MeetsFrom(spend, turn)
<1> DEFINE wrong == {turn \in 0..L!Turns : ~MeetsFrom(spend, turn)}
<1>1. L!Turns \in Nat
  BY DEF L!Turns
<1>2. SUFFICES ASSUME wrong # {} PROVE FALSE
  OBVIOUS
<1>3. wrong \in SUBSET (0..L!Turns) /\ wrong \in SUBSET Nat
  BY <1>1
<1>4. IsFiniteSet(0..L!Turns)
  BY <1>1, FS_Interval
<1>5. PICK turn \in wrong : \A k \in wrong : k <= turn
  <2> HIDE DEF wrong
  <2>1. IsFiniteSet(wrong)
    BY <1>3, <1>4, FS_Subset
  <2> QED BY <1>2, <1>3, <2>1, GreatestOf
<1>6. turn \in 0..L!Turns /\ ~MeetsFrom(spend, turn)
  BY <1>5
<1>7. PICK x \in Nat, r \in Nat \ {0} : /\ L!AtWork(x) /\ r + turn <= L!Turns
                                        /\ ~Meets(x, r, spend[turn][<<x, r>>])
  BY <1>6 DEF MeetsFrom
<1>8. turn # L!Turns
  BY <1>1, <1>6, <1>7
<1>9. spend[turn][<<x, r>>] = IF r <= Room(x) THEN x + r
                              ELSE spend[turn + 1][<<Following(x), r - Room(x)>>]
  <2> HIDE DEF wrong
  <2>1. spend[turn] = [at \in Nat \X Nat |->
          IF turn = L!Turns THEN at[1]
          ELSE IF at[2] <= Room(at[1]) THEN at[1] + at[2]
          ELSE spend[turn + 1][<<Following(at[1]), at[2] - Room(at[1])>>]]
    BY <1>6, Zenon DEF Spends, Room, Following
  <2> QED BY <2>1, <1>7, <1>8
<1>10. CASE r <= Room(x)
  BY <1>7, <1>9, <1>10, MeetsToday
<1>11. CASE ~(r <= Room(x))
  <2>1. /\ Following(x) \in Nat /\ L!AtWork(Following(x))
        /\ Room(x) \in Nat /\ Room(x) > 0 /\ r - Room(x) \in Nat \ {0} /\ Room(x) < r
    <3>1. Following(x) \in Nat /\ L!AtWork(Following(x))
      BY FollowingType
    <3>2. L!DayEnd(x) \in Nat /\ x < L!DayEnd(x) /\ Room(x) = L!DayEnd(x) - x
      BY <1>7, DayAtWork, AvailableType DEF Room
    <3> QED BY <3>1, <3>2, <1>11
  <2>2. turn + 1 \in 0..L!Turns /\ turn + 1 \notin wrong
    <3>1. turn + 1 \in 0..L!Turns
      BY <1>1, <1>6, <1>8
    <3>2. turn + 1 \notin wrong
      <4> HIDE DEF wrong
      <4> QED BY <1>1, <1>5, <1>6
    <3> QED BY <3>1, <3>2
  <2>3. MeetsFrom(spend, turn + 1)
    BY <2>2
  <2>4. (r - Room(x)) + (turn + 1) <= L!Turns
    BY <2>1, <1>1, <1>6, <1>7
  <2>5. Meets(Following(x), r - Room(x), spend[turn + 1][<<Following(x), r - Room(x)>>])
    BY <2>1, <2>3, <2>4 DEF MeetsFrom
  <2>6. Meets(x, r, spend[turn][<<x, r>>])
    BY <2>1, <2>5, <1>7, <1>9, <1>11, MeetsLater
  <2> QED BY <2>6, <1>7
<1> QED BY <1>10, <1>11
-----------------------------------------------------------------------------
\* workingMsBetween counts the units at work, as long as its turns last.
LEMMA WorkingTime ==
    ASSUME ClockConstants, calendar \in L!Calendars,
           NEW from \in Nat, NEW to \in Nat, L!Day(to) < L!Turns
    PROVE  L!WorkingBetween(from, to) = Units(from, to)
<1>1. CASE to <= from
  <2>1. Units(from, to) = 0
    BY <1>1, UnitsNone
  <2> QED BY <2>1, <1>1 DEF L!WorkingBetween
<1>2. CASE ~(to <= from)
  <2>1. PICK total : Totals(total, to) /\ L!WorkingBetween(from, to) = total[0][L!NextWorkingMoment(from)]
    <3>1. \E total : Totals(total, to)
      BY TotalsExist
    <3>2. L!WorkingBetween(from, to) = (CHOOSE total : Totals(total, to))[0][L!NextWorkingMoment(from)]
      BY <1>2, Zenon DEF L!WorkingBetween, Totals, Segment, Following
    <3> QED BY <3>1, <3>2, Zenon
  <2>2. L!NextWorkingMoment(from) \in Nat /\ L!AtWork(L!NextWorkingMoment(from))
    BY NextMoment
  <2>3. /\ L!Day(L!NextWorkingMoment(from)) \in Nat /\ L!Day(to) \in Nat
        /\ L!Turns \in Nat /\ 0 \in 0..L!Turns
    BY <2>2, DayAndHour DEF L!Turns
  <2>4. CountsFrom(total, to, 0)
    BY <2>1, <2>3, TotalsCount
  <2>5. L!Day(to) + 0 < L!Turns + L!Day(L!NextWorkingMoment(from))
    BY <2>3
  <2>6. total[0][L!NextWorkingMoment(from)] = Units(L!NextWorkingMoment(from), to)
    BY <2>2, <2>4, <2>5 DEF CountsFrom
  <2> QED BY <2>1, <2>6, UnitsFrom
<1> QED BY <1>1, <1>2

\* computeSlaDueAt gives the instant by which the hours are over.
LEMMA DeadlineMeets ==
    ASSUME ClockConstants, calendar \in L!Calendars,
           NEW from \in Nat, NEW h \in Nat \ {0}, h <= L!Turns
    PROVE  Meets(from, h, L!ComputeSlaDueAt(from, h))
<1>1. PICK spend : Spends(spend) /\ L!ComputeSlaDueAt(from, h) = spend[0][<<L!NextWorkingMoment(from), h>>]
  <2>1. \E spend : Spends(spend)
    BY SpendsExist
  <2>2. L!ComputeSlaDueAt(from, h) = (CHOOSE spend : Spends(spend))[0][<<L!NextWorkingMoment(from), h>>]
    BY Zenon DEF L!ComputeSlaDueAt, Spends
  <2> QED BY <2>1, <2>2, Zenon
<1>2. L!NextWorkingMoment(from) \in Nat /\ L!AtWork(L!NextWorkingMoment(from))
  BY NextMoment
<1>3. L!Turns \in Nat /\ 0 \in 0..L!Turns /\ h + 0 <= L!Turns
  BY DEF L!Turns
<1>4. MeetsFrom(spend, 0)
  BY <1>1, <1>3, SpendsMeet
<1>5. Meets(L!NextWorkingMoment(from), h, L!ComputeSlaDueAt(from, h))
  BY <1>1, <1>2, <1>3, <1>4 DEF MeetsFrom
<1> QED BY <1>5, UnitsFrom DEF Meets

LEMMA ClockAgrees ==
    ASSUME ClockConstants, L!TypeOK
    PROVE  L!CalendarAgrees
<1>1. /\ calendar \in L!Calendars /\ raised \in Nat /\ hours \in Nat /\ hours <= L!Turns
      /\ now \in Nat /\ raised <= now /\ now <= Horizon
  BY DEF L!TypeOK, ClockConstants, L!Turns
<1>2. L!Day(now) < L!Turns
  <2>1. /\ L!Day(now) \in Nat /\ L!Hour(now) \in 0..(DayLength - 1)
        /\ now = L!Instant(L!Day(now), L!Hour(now))
    BY <1>1, DayAndHour
  <2>2. L!Turns \in Nat /\ DayLength \in Nat \ {0} /\ now < L!Turns * DayLength
    BY <1>1 DEF ClockConstants, L!Turns
  <2>3. \A d, n \in Nat, k \in Nat \ {0} : d >= n => d * k >= n * k
    OBVIOUS
  <2> QED BY <2>1, <2>2, <2>3 DEF L!Instant
<1>3. L!Worked = Units(raised, now)
  BY Zenon DEF L!Worked, L!Cardinality, Cardinality, Units, Span
<1>4. L!WorkingBetween(raised, now) = L!Worked
  BY <1>1, <1>2, <1>3, WorkingTime
<1>5. ASSUME hours > 0
      PROVE  (now >= L!ComputeSlaDueAt(raised, hours)) = (L!Worked >= hours)
  <2>1. Meets(raised, hours, L!ComputeSlaDueAt(raised, hours))
    BY <1>1, <1>5, DeadlineMeets
  <2>2. Units(raised, now) \in Nat
    BY <1>1, UnitsType
  <2> QED BY <2>1, <2>2, <1>1, <1>3 DEF Meets
<1> QED BY <1>4, <1>5 DEF L!CalendarAgrees

LEMMA ClockTypes ==
    ASSUME ClockConstants, MCInit, part = "clock" PROVE L!TypeOK
  BY DEF MCInit, L!Init, L!TypeOK, ClockConstants

LEMMA ClockStep ==
    ASSUME ClockConstants, part = "clock" => L!TypeOK, [MCNext]_operationVars
    PROVE  (part = "clock" => L!TypeOK)'
<1>1. CASE part = "clock" /\ L!Next /\ UNCHANGED <<part, vars, warnings, concerns, files, work>>
  BY <1>1 DEF L!Next, L!Tick, L!TypeOK, L!Calendars, ClockConstants
<1>2. CASE UNCHANGED <<part, clock>>
  BY <1>2 DEF clock, L!TypeOK, L!Calendars
<1> QED BY <1>1, <1>2 DEF MCNext, operationVars
-----------------------------------------------------------------------------
(***************************************************************************)
(* The model that composes them: in every step each part takes a step of its *)
(* own, or none.                                                           *)
(***************************************************************************)
\* Every behaviour of the model uses a grant once and tells versions apart.
THEOREM StoreStaysSafe == ASSUME StoreConstants PROVE MCSpec => []StoreSafe
<1>1. MCInit => StoreIInv
  BY StoreInit DEF MCInit
<1>2. StoreIInv /\ [MCNext]_operationVars => StoreIInv'
  <2>1. [MCNext]_operationVars => [D!Next]_D!documentVars
    BY DEF MCNext, operationVars, files, D!documentVars
  <2> QED BY <2>1, StoreNext
<1>3. StoreIInv => StoreSafe
  BY DEF StoreIInv, GrantsSpent, StoreSafe, D!StoreSafe, D!SingleUse
<1> QED BY <1>1, <1>2, <1>3, PTL DEF MCSpec

\* Every behaviour of the model hands over the work of those who leave.
THEOREM WorkStaysHandedOver == ASSUME TaskConstants PROVE MCSpec => []HandedOver
<1> DEFINE Inv == part = "work" => TasksIInv
<1>1. MCInit => Inv
  BY TasksInit DEF MCInit
<1>2. Inv /\ [MCNext]_operationVars => Inv'
  <2> SUFFICES ASSUME Inv, [MCNext]_operationVars, part' = "work" PROVE TasksIInv'
    OBVIOUS
  <2>1. part = "work" /\ [T!Next]_T!taskVars
    BY DEF MCNext, operationVars, work, T!taskVars
  <2> QED BY <2>1, TasksNext
<1>3. Inv => HandedOver
  BY DEF HandedOver, TasksIInv
<1> QED BY <1>1, <1>2, <1>3, PTL DEF MCSpec

\* Every behaviour of the model warns in order and, as far as the rows can be found,
\* warns and files no more often than there are sweeps that overlap.
THEOREM WarningsStayRight ==
    ASSUME WarnConstants, IsFiniteSet(Checkers) PROVE MCSpec => []WarnedRight
<1> DEFINE Inv == WarnIInv /\ OrderIInv /\ ConcernIInv
<1>1. MCInit => Inv
  BY WarnInit, ConcernInit DEF MCInit
<1>2. Inv /\ [MCNext]_operationVars => Inv'
  <2>1. [MCNext]_operationVars => [E!Next]_E!sweepVars /\ [C!Next]_C!complianceVars
    BY DEF MCNext, operationVars, warnings, concerns, E!sweepVars, C!complianceVars,
           C!assignments
  <2> QED BY <2>1, WarnNext, OrderNext, ConcernNext
<1>3. Inv => WarnedRight
  BY WarnOnce, ConcernFiled DEF WarnedRight, WarnIInv, OrderIInv, ConcernIInv
<1> QED BY <1>1, <1>2, <1>3, PTL DEF MCSpec

\* In every behaviour of the model, what a sweep or an upload leaves behind is final.
THEOREM WorkStaysSettled ==
    ASSUME StoreConstants, IsFiniteSet(Checkers)
    PROVE  MCSpec => WorkSettles
<1> DEFINE Inv == StoreIInv /\ ConcernIInv
           Swept == \A s \in Checkers :
              s \in calm /\ C!Close(s) =>
                 /\ (compliance = "AT_RISK") = C!Lapsed(document)
                 /\ \A d \in Documents : document[d] = "valid" => tasks'[d] = 0 /\ d \notin reopened'
           Uploaded == \A u \in Uploads :
              /\ upload[u].infected => upload'[u].made = {}
              /\ upload[u].status = "DONE" /\ (\A r \in Requests : call[r].upload # u) =>
                    upload'[u] = upload[u] /\ \A r \in Requests : call'[r].upload # u
<1>1. MCInit => Inv
  BY StoreInit, ConcernInit DEF MCInit
<1>2. [MCNext]_operationVars => [D!Next]_D!documentVars /\ [C!Next]_C!complianceVars
  BY DEF MCNext, operationVars, files, concerns, D!documentVars, C!complianceVars,
         C!assignments
<1>3. Inv /\ [MCNext]_operationVars => Inv'
  BY <1>2, StoreNext, ConcernNext
<1>4. Inv /\ [MCNext]_operationVars => [Swept]_C!complianceVars /\ [Uploaded]_D!documentVars
  BY <1>2, StoreSettles, ConcernSettles
<1> QED BY <1>1, <1>3, <1>4, PTL DEF MCSpec, WorkSettles, C!SweepSettles, D!UploadsSettle

\* For every calendar, SLA and moment at which a case is raised, the working time
\* that workingMsBetween adds up is the time people were at work, and the deadline
\* of computeSlaDueAt has come exactly when that time has reached the SLA.
THEOREM CalendarStaysRight == ASSUME ClockConstants PROVE MCSpec => []CalendarAgrees
<1>1. MCInit => (part = "clock" => L!TypeOK)
  BY ClockTypes
<1>2. (part = "clock" => L!TypeOK) /\ [MCNext]_operationVars => (part = "clock" => L!TypeOK)'
  BY ClockStep
<1>3. (part = "clock" => L!TypeOK) => CalendarAgrees
  BY ClockAgrees DEF CalendarAgrees
<1> QED BY <1>1, <1>2, <1>3, PTL DEF MCSpec
=============================================================================
