----------------------- MODULE GaplessSequenceProofs -----------------------
(***************************************************************************)
(* The promise of a gapless sequence, for any number of holders.           *)
(***************************************************************************)
EXTENDS GaplessSequence, FiniteSetTheorems, TLAPS

\* Every set of holders is finite, so that it can be counted.
LEMMA HoldersFinite ==
    ASSUME SequenceAssumption, NEW s
    PROVE  IsFiniteSet(HoldersIn(s)) /\ Cardinality(HoldersIn(s)) \in Nat
<1>1. HoldersIn(s) \subseteq Holders
  BY DEF HoldersIn
<1> QED
  BY <1>1, FS_Subset, FS_CardinalityType DEF SequenceAssumption

\* A step adds the holder to the sequence it takes from and to no other.
LEMMA TakeJoins ==
    ASSUME SequenceAssumption, GivenType, NEW c \in Holders, NEW s \in Sequences, Take(c, s)
    PROVE  /\ GivenType'
           /\ given'[c] = <<s, Cardinality(HoldersIn(s)) + 1>>
           /\ \A d \in Holders \ {c} : given'[d] = given[d]
           /\ c \notin HoldersIn(s)
           /\ HoldersIn(s)' = HoldersIn(s) \cup {c}
           /\ \A t \in Sequences \ {s} :
                 c \notin HoldersIn(t) /\ HoldersIn(t)' = HoldersIn(t)
<1> DEFINE n == Cardinality(HoldersIn(s)) + 1
<1>1. n \in Nat
  BY HoldersFinite
<1>2. <<s, n>> \in Sequences \X Nat /\ <<s, n>> # Null
  BY <1>1 DEF SequenceAssumption
<1>3. given' = [given EXCEPT ![c] = <<s, n>>] /\ given[c] = Null
  BY DEF Take
<1> HIDE DEF n
<1>4. given'[c] = <<s, n>> /\ \A d \in Holders \ {c} : given'[d] = given[d]
  BY <1>3 DEF GivenType
<1>5. GivenType'
  BY <1>2, <1>3 DEF GivenType
<1>6. given'[c] # Null /\ given'[c][1] = s
  BY <1>2, <1>4
<1>7. \A t : c \notin HoldersIn(t)
  BY <1>3 DEF HoldersIn
<1>8. HoldersIn(s)' = HoldersIn(s) \cup {c}
  BY <1>4, <1>6 DEF HoldersIn
<1>9. \A t \in Sequences \ {s} : HoldersIn(t)' = HoldersIn(t)
  BY <1>3, <1>4, <1>6 DEF HoldersIn
<1> QED
  BY <1>4, <1>5, <1>7, <1>8, <1>9 DEF n

\* Handing out one more than the number of holders keeps the numbers gapless
\* and distinct.
LEMMA TakeKeeps ==
    ASSUME SequenceAssumption, GivenType, NoGapNoRepeat,
           NEW c \in Holders, NEW s \in Sequences, Take(c, s)
    PROVE  NoGapNoRepeat'
<1> DEFINE N(t) == Cardinality(HoldersIn(t))
           Numbers(t) == {given[d][2] : d \in HoldersIn(t)}
<1> USE TakeJoins
<1>1. Numbers(s) = 1..N(s) /\ \A d, e \in HoldersIn(s) : given[d][2] = given[e][2] => d = e
  BY DEF NoGapNoRepeat
<1>2. N(s) \in Nat /\ N(s)' = N(s) + 1
  BY HoldersFinite, FS_AddElement
<1>3. given'[c][2] = N(s) + 1
  OBVIOUS
<1>4. \A d \in HoldersIn(s) : d # c /\ given'[d] = given[d] /\ given[d][2] \in 1..N(s)
  <2>1. HoldersIn(s) \subseteq Holders
    BY DEF HoldersIn
  <2> QED
    BY <1>1, <2>1
<1> HIDE DEF N
<1>5. Numbers(s)' = 1..N(s)'
  <2>1. Numbers(s)' = Numbers(s) \cup {N(s) + 1}
    BY <1>3, <1>4
  <2>2. \A n \in Nat : (1..n) \cup {n + 1} = 1..(n + 1)
    OBVIOUS
  <2>3. Numbers(s) = 1..N(s)
    BY <1>1
  <2> HIDE DEF Numbers
  <2> QED
    BY <1>2, <2>1, <2>2, <2>3
<1>6. \A d, e \in HoldersIn(s)' : given'[d][2] = given'[e][2] => d = e
  BY <1>1, <1>2, <1>3, <1>4
<1>7. ASSUME NEW t \in Sequences \ {s}
      PROVE  /\ Numbers(t)' = 1..N(t)'
             /\ \A d, e \in HoldersIn(t)' : given'[d][2] = given'[e][2] => d = e
  <2>1. HoldersIn(t)' = HoldersIn(t) /\ c \notin HoldersIn(t)
    OBVIOUS
  <2>2. \A d \in HoldersIn(t) : given'[d] = given[d]
    BY <2>1 DEF HoldersIn
  <2>3. Numbers(t)' = Numbers(t) /\ N(t)' = N(t)
    BY <2>1, <2>2 DEF N
  <2>4. Numbers(t) = 1..N(t) /\ \A d, e \in HoldersIn(t) : given[d][2] = given[e][2] => d = e
    BY DEF NoGapNoRepeat, N
  <2> QED
    BY <2>1, <2>2, <2>3, <2>4
<1> QED
  BY <1>5, <1>6, <1>7 DEF NoGapNoRepeat, N

\* In every sequence the numbers in use are 1 up to the number of holders.
THEOREM SequenceIsGapless ==
    ASSUME SequenceAssumption
    PROVE  Spec => [](GivenType /\ NoGapNoRepeat)
<1>1. Init => GivenType /\ NoGapNoRepeat
  <2> SUFFICES ASSUME Init PROVE GivenType /\ NoGapNoRepeat
    OBVIOUS
  <2>1. GivenType
    BY DEF Init, GivenType
  <2>2. \A s \in Sequences : HoldersIn(s) = {}
    BY DEF Init, HoldersIn
  <2>3. Cardinality({}) = 0
    BY FS_EmptySet
  <2> QED
    BY <2>1, <2>2, <2>3 DEF NoGapNoRepeat
<1>2. GivenType /\ NoGapNoRepeat /\ [Next]_given => (GivenType /\ NoGapNoRepeat)'
  <2> SUFFICES ASSUME SequenceAssumption, GivenType, NoGapNoRepeat, [Next]_given
               PROVE  GivenType' /\ NoGapNoRepeat'
    OBVIOUS
  <2>1. CASE Next
    BY <2>1, TakeJoins, TakeKeeps DEF Next
  <2>2. CASE UNCHANGED given
    BY <2>2 DEF GivenType, NoGapNoRepeat, HoldersIn
  <2> QED
    BY <2>1, <2>2
<1> QED
  BY <1>1, <1>2, PTL DEF Spec
=============================================================================
