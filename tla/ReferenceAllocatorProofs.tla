---------------------- MODULE ReferenceAllocatorProofs ----------------------
(***************************************************************************)
(* For any number of documents, owners and years: the counter rows count,  *)
(* no sequence collides with its own history, and the transactions         *)
(* implement the gapless sequences.                                        *)
(***************************************************************************)
EXTENDS ReferenceAllocator, FiniteSetTheorems, TLAPS

\* A transaction that was given a number is alone on its counter row and was
\* given the next number; no document is numbered beyond its counter; an open
\* transaction belongs to a document without a reference.
OneHolder ==
    \A d, e \in Documents :
        Holds(d, Owner[e], tx[d].year) /\ Holds(e, Owner[e], tx[d].year) => d = e
NextNumber ==
    \A d \in Documents : tx[d].step = "allocated" =>
        tx[d].number = lastValue[Owner[d]][tx[d].year] + 1
WithinCounter ==
    \A d \in Documents : reference[d] # NoReference =>
        reference[d][2] <= lastValue[Owner[d]][reference[d][1]]
OpenIsUnnumbered == \A d \in Documents : tx[d] # NoTransaction => reference[d] = NoReference

IInv == /\ AllocatorTypes /\ CounterIsCount
        /\ OneHolder /\ NextNumber /\ WithinCounter /\ OpenIsUnnumbered

LEMMA NumberedFinite ==
    ASSUME NEW o, NEW y
    PROVE  IsFiniteSet(NumberedIn(o, y)) /\ Cardinality(NumberedIn(o, y)) \in Nat
<1>1. NumberedIn(o, y) \subseteq Documents
  BY DEF NumberedIn, Served
<1> QED
  BY <1>1, AllocatorAssumption, FS_Subset, FS_CardinalityType

\* What is known of a transaction that has a number.
LEMMA AllocatedType ==
    ASSUME AllocatorTypes, NEW d \in Documents, tx[d].step = "allocated"
    PROVE  /\ tx[d] # NoTransaction
           /\ tx[d].year \in Years /\ tx[d].number \in Nat \ {0}
           /\ Allocated(d) \in Years \X (Nat \ {0})
           /\ Allocated(d) # NoReference
           /\ Allocated(d)[1] = tx[d].year /\ Allocated(d)[2] = tx[d].number
  BY AllocatorAssumption DEF AllocatorTypes, Transaction, NoTransaction, Allocated

\* A commit writes the reference of its document and no other.
LEMMA CommitWrites ==
    ASSUME IInv, NEW d \in Documents, Commit(d)
    PROVE  /\ reference[d] = NoReference
           /\ reference'[d] = Allocated(d) /\ reference'[d] # NoReference
           /\ reference'[d][1] = tx[d].year
           /\ \A e \in Documents \ {d} : reference'[e] = reference[e]
<1>1. tx[d].step = "allocated" /\ reference' = [reference EXCEPT ![d] = Allocated(d)]
  BY DEF Commit
<1> QED
  BY <1>1, AllocatedType DEF IInv, AllocatorTypes, OpenIsUnnumbered

\* The other owners and years keep their documents.
LEMMA CommitElsewhere ==
    ASSUME IInv, NEW d \in Documents, Commit(d),
           NEW o, NEW y, o # Owner[d] \/ y # tx[d].year
    PROVE  NumberedIn(o, y)' = NumberedIn(o, y)
  BY CommitWrites DEF NumberedIn, Served

\* Its own owner and year gain the document, and are counted one more.
LEMMA CommitCounts ==
    ASSUME IInv, NEW d \in Documents, Commit(d), NEW y, y = tx[d].year
    PROVE  /\ NumberedIn(Owner[d], y)' = NumberedIn(Owner[d], y) \cup {d}
           /\ Cardinality(NumberedIn(Owner[d], y) \cup {d}) = tx[d].number
           /\ Cardinality(NumberedIn(Owner[d], y)) + 1 = tx[d].number
<1>1. NumberedIn(Owner[d], y)' = NumberedIn(Owner[d], y) \cup {d}
  BY CommitWrites DEF NumberedIn, Served
<1>2. d \notin NumberedIn(Owner[d], y)
  BY CommitWrites DEF NumberedIn
<1>3. Cardinality(NumberedIn(Owner[d], y) \cup {d}) = Cardinality(NumberedIn(Owner[d], y)) + 1
  BY <1>2, NumberedFinite, FS_AddElement
<1>4. tx[d].step = "allocated" /\ y \in Years /\ Owner[d] \in Owners
  BY AllocatedType, AllocatorAssumption DEF IInv, Commit
<1> QED
  BY <1>1, <1>3, <1>4 DEF IInv, NextNumber, CounterIsCount
-----------------------------------------------------------------------------
LEMMA InitIInv == AllocatorInit => IInv
<1> SUFFICES ASSUME AllocatorInit PROVE IInv
  OBVIOUS
<1>1. \A d \in Documents : tx[d] = NoTransaction /\ tx[d].step = "idle" /\ reference[d] = NoReference
  BY DEF AllocatorInit, NoTransaction
<1>2. AllocatorTypes
  BY AllocatorAssumption DEF AllocatorInit, AllocatorTypes, Transaction, Years
<1>3. CounterIsCount
  <2>1. \A o, y : NumberedIn(o, y) = {}
    BY <1>1 DEF NumberedIn, Served
  <2> QED
    BY <2>1, FS_EmptySet DEF CounterIsCount, AllocatorInit
<1>4. OneHolder /\ NextNumber /\ WithinCounter /\ OpenIsUnnumbered
  BY <1>1 DEF OneHolder, Holds, NextNumber, WithinCounter, OpenIsUnnumbered
<1> QED
  BY <1>2, <1>3, <1>4 DEF IInv

\* A transaction begins, or ends without a trace.
LEMMA OpenOrEndStep ==
    ASSUME IInv, NEW d \in Documents, Begin(d) \/ Rollback(d)
    PROVE  IInv'
<1>1. UNCHANGED <<year, lastValue, reference>>
  BY DEF Begin, Rollback
<1>2. AllocatorTypes'
  BY DEF IInv, AllocatorTypes, Begin, Rollback, Transaction, NoTransaction
<1>3. \A e \in Documents \ {d} : tx'[e] = tx[e]
  BY DEF IInv, AllocatorTypes, Begin, Rollback
<1>4. tx'[d].step # "allocated"
  BY DEF IInv, AllocatorTypes, Begin, Rollback, NoTransaction
<1>5. tx'[d] # NoTransaction => reference[d] = NoReference
  BY DEF IInv, AllocatorTypes, Begin, Rollback
<1>6. CounterIsCount'
  BY <1>1 DEF IInv, CounterIsCount, NumberedIn, Served
<1>7. OneHolder'
  BY <1>3, <1>4 DEF IInv, OneHolder, Holds
<1>8. NextNumber'
  BY <1>1, <1>3, <1>4 DEF IInv, NextNumber
<1>9. WithinCounter'
  BY <1>1 DEF IInv, WithinCounter
<1>10. OpenIsUnnumbered'
  BY <1>1, <1>3, <1>5 DEF IInv, OpenIsUnnumbered
<1> QED
  BY <1>2, <1>6, <1>7, <1>8, <1>9, <1>10 DEF IInv

\* A transaction is given its number once nobody else holds the row.
LEMMA AllocateStep ==
    ASSUME IInv, NEW d \in Documents, Allocate(d)
    PROVE  IInv'
<1> DEFINE n == lastValue[Owner[d]][tx[d].year] + 1
<1>1. tx[d].step = "begun" /\ tx[d] # NoTransaction /\ tx[d].year \in Years
  BY DEF IInv, AllocatorTypes, Allocate, Transaction, NoTransaction
<1>2. n \in Nat \ {0}
  BY <1>1, AllocatorAssumption DEF IInv, AllocatorTypes
<1>3. UNCHANGED <<year, lastValue, reference>>
  BY DEF Allocate
<1>4. /\ tx'[d] = [step |-> "allocated", year |-> tx[d].year, number |-> n]
      /\ \A e \in Documents \ {d} : tx'[e] = tx[e]
  BY DEF IInv, AllocatorTypes, Allocate
<1>5. AllocatorTypes'
  BY <1>1, <1>2 DEF IInv, AllocatorTypes, Allocate, Transaction
<1>6. CounterIsCount'
  BY <1>3 DEF IInv, CounterIsCount, NumberedIn, Served
<1>7. OneHolder'
  <2>1. \A e \in Documents \ {d} : ~Holds(e, Owner[d], tx[d].year)
    BY DEF Allocate
  <2> QED
    BY <1>4, <2>1 DEF IInv, OneHolder, Holds
<1>8. NextNumber'
  BY <1>3, <1>4 DEF IInv, NextNumber
<1>9. WithinCounter'
  BY <1>3 DEF IInv, WithinCounter
<1>10. OpenIsUnnumbered'
  BY <1>1, <1>3, <1>4 DEF IInv, OpenIsUnnumbered
<1> QED
  BY <1>5, <1>6, <1>7, <1>8, <1>9, <1>10 DEF IInv

\* A commit moves the counter and writes the reference together.
LEMMA CommitStep ==
    ASSUME IInv, NEW d \in Documents, Commit(d)
    PROVE  IInv'
<1> DEFINE o0 == Owner[d]
<1>1. PICK y0 : y0 = tx[d].year
  OBVIOUS
<1>2. /\ tx[d].step = "allocated" /\ tx[d] # NoTransaction
      /\ y0 \in Years /\ tx[d].number \in Nat \ {0}
      /\ Allocated(d) \in Years \X (Nat \ {0})
      /\ Allocated(d)[1] = y0 /\ Allocated(d)[2] = tx[d].number
  BY <1>1, AllocatedType DEF IInv, Commit
<1>3. o0 \in Owners
  BY AllocatorAssumption
<1>4. /\ lastValue' = [lastValue EXCEPT ![o0][y0] = tx[d].number]
      /\ reference' = [reference EXCEPT ![d] = Allocated(d)]
      /\ tx' = [tx EXCEPT ![d] = NoTransaction]
      /\ year' = year
  BY <1>1 DEF Commit
<1>5. /\ tx'[d] = NoTransaction /\ reference'[d] = Allocated(d)
      /\ \A e \in Documents \ {d} : tx'[e] = tx[e] /\ reference'[e] = reference[e]
  BY <1>4 DEF IInv, AllocatorTypes
<1>6. /\ lastValue'[o0][y0] = tx[d].number
      /\ \A o \in Owners, y \in Years :
            o # o0 \/ y # y0 => lastValue'[o][y] = lastValue[o][y]
  BY <1>2, <1>3, <1>4 DEF IInv, AllocatorTypes
<1>7. tx[d].number = lastValue[o0][y0] + 1
  BY <1>1, <1>2 DEF IInv, NextNumber
<1>8. AllocatorTypes'
  <2>1. lastValue' \in [Owners -> [Years -> Nat]]
    BY <1>2, <1>3, <1>4 DEF IInv, AllocatorTypes
  <2>2. reference' \in [Documents -> (Years \X (Nat \ {0})) \cup {NoReference}]
    BY <1>2, <1>4 DEF IInv, AllocatorTypes
  <2>3. tx' \in [Documents -> Transaction]
    BY <1>4 DEF IInv, AllocatorTypes, Transaction
  <2> QED
    BY <1>4, <2>1, <2>2, <2>3 DEF IInv, AllocatorTypes
<1>9. CounterIsCount'
  <2> SUFFICES ASSUME NEW o \in Owners, NEW y \in Years
               PROVE  lastValue'[o][y] = Cardinality(NumberedIn(o, y))'
    BY DEF CounterIsCount
  <2>1. CASE o = o0 /\ y = y0
    <3>1. NumberedIn(o0, y0)' = NumberedIn(o0, y0) \cup {d}
      BY <1>1, CommitCounts
    <3>2. tx[d].number = Cardinality(NumberedIn(o0, y0) \cup {d})
      BY <1>1, CommitCounts
    <3> QED
      BY <1>6, <2>1, <3>1, <3>2
  <2>2. CASE o # o0 \/ y # y0
    <3>1. NumberedIn(o, y)' = NumberedIn(o, y)
      BY <1>1, <2>2, CommitElsewhere
    <3>2. lastValue'[o][y] = lastValue[o][y]
      BY <1>6, <2>2
    <3>3. lastValue[o][y] = Cardinality(NumberedIn(o, y))
      BY DEF IInv, CounterIsCount
    <3> QED
      BY <3>1, <3>2, <3>3
  <2> QED
    BY <2>1, <2>2
<1>10. OneHolder'
  <2>1. \A o, y : ~Holds(d, o, y)'
    BY <1>5 DEF Holds, NoTransaction
  <2> QED
    BY <1>5, <2>1 DEF IInv, OneHolder, Holds
<1>11. NextNumber'
  <2> SUFFICES ASSUME NEW e \in Documents, tx'[e].step = "allocated"
               PROVE  tx'[e].number = lastValue'[Owner[e]][tx'[e].year] + 1
    BY DEF NextNumber
  <2>1. e # d /\ tx'[e] = tx[e]
    BY <1>5 DEF NoTransaction
  <2>2. Owner[e] # o0 \/ tx[e].year # y0
    BY <1>1, <1>2, <2>1 DEF IInv, OneHolder, Holds
  <2>3. Owner[e] \in Owners /\ tx[e].year \in Years
    BY <2>1, AllocatedType, AllocatorAssumption DEF IInv
  <2> QED
    BY <1>6, <2>1, <2>2, <2>3 DEF IInv, NextNumber
<1>12. WithinCounter'
  <2> SUFFICES ASSUME NEW e \in Documents, reference'[e] # NoReference
               PROVE  reference'[e][2] <= lastValue'[Owner[e]][reference'[e][1]]
    BY DEF WithinCounter
  <2>1. CASE e = d
    BY <1>2, <1>5, <1>6, <2>1
  <2>2. CASE e # d
    <3>1. reference'[e] = reference[e] /\ Owner[e] \in Owners
      BY <1>5, <2>2, AllocatorAssumption
    <3>2. reference[e][1] \in Years /\ reference[e][2] \in Nat
      BY <3>1 DEF IInv, AllocatorTypes
    <3>3. /\ reference[e][2] <= lastValue[Owner[e]][reference[e][1]]
          /\ lastValue[Owner[e]][reference[e][1]] \in Nat
      BY <3>1, <3>2 DEF IInv, AllocatorTypes, WithinCounter
    <3> QED
      BY <1>6, <1>7, <3>1, <3>2, <3>3
  <2> QED
    BY <2>1, <2>2
<1>13. OpenIsUnnumbered'
  BY <1>5 DEF IInv, OpenIsUnnumbered
<1> QED
  BY <1>8, <1>9, <1>10, <1>11, <1>12, <1>13 DEF IInv

\* Every step keeps the invariant.
LEMMA NextIInv == IInv /\ [AllocatorNext]_allocatorVars => IInv'
<1> SUFFICES ASSUME IInv, [AllocatorNext]_allocatorVars PROVE IInv'
  OBVIOUS
<1>1. CASE NewYear
  <2>1. year' \in Years
    BY <1>1, AllocatorAssumption DEF IInv, AllocatorTypes, NewYear, Years
  <2> QED
    BY <1>1, <2>1 DEF NewYear, IInv, AllocatorTypes, CounterIsCount, NumberedIn, Served, OneHolder,
       Holds, NextNumber, WithinCounter, OpenIsUnnumbered
<1>2. CASE \E d \in Documents : Begin(d) \/ Rollback(d) \/ Refused(d)
  BY <1>2, OpenOrEndStep DEF Refused
<1>3. CASE \E d \in Documents : Allocate(d)
  BY <1>3, AllocateStep
<1>4. CASE \E d \in Documents : Commit(d)
  BY <1>4, CommitStep
<1>5. CASE UNCHANGED allocatorVars
  BY <1>5 DEF allocatorVars, IInv, AllocatorTypes, CounterIsCount, NumberedIn, Served, OneHolder, Holds,
     NextNumber, WithinCounter, OpenIsUnnumbered
<1> QED
  BY <1>1, <1>2, <1>3, <1>4, <1>5 DEF AllocatorNext

\* The counter rows count the documents that carry their numbers.
THEOREM AllocatorInvariant == AllocatorSpec => []IInv
  BY InitIInv, NextIInv, PTL DEF AllocatorSpec

THEOREM AllocatorTypeOK == AllocatorSpec => [](AllocatorTypes /\ CounterIsCount)
<1>1. IInv => AllocatorTypes /\ CounterIsCount
  BY DEF IInv
<1> QED
  BY <1>1, AllocatorInvariant, PTL

\* No open transaction is given a number that its own sequence already used.
THEOREM NoCollisionWithinOwner == AllocatorSpec => []OwnHistoryFree
<1>1. IInv => OwnHistoryFree
  <2> SUFFICES ASSUME IInv, NEW d \in Documents, NEW e \in Documents,
                      tx[d].step = "allocated", Owner[e] = Owner[d],
                      reference[e] = Allocated(d)
               PROVE  FALSE
    BY DEF OwnHistoryFree
  <2>1. /\ reference[e] # NoReference
        /\ reference[e][1] = tx[d].year /\ reference[e][2] = tx[d].number
        /\ tx[d].year \in Years
    BY AllocatedType DEF IInv
  <2>2. lastValue[Owner[d]][tx[d].year] \in Nat
    BY <2>1, AllocatorAssumption DEF IInv, AllocatorTypes
  <2> QED
    BY <2>1, <2>2 DEF IInv, NextNumber, WithinCounter
<1> QED
  BY <1>1, AllocatorInvariant, PTL

\* The two together, at every moment.
THEOREM AllocatorIsSafe == AllocatorSpec => []AllocatorSafe
  BY AllocatorTypeOK, NoCollisionWithinOwner, PTL DEF AllocatorSafe

\* Where every document has the same owner, as all cases have, the unique
\* index never refuses a reference.
THEOREM OneOwnerNeverCollides ==
    ASSUME \A d, e \in Documents : Owner[d] = Owner[e]
    PROVE  AllocatorSpec => []NeverCollides
<1>1. OwnHistoryFree => NeverCollides
  BY DEF OwnHistoryFree, NeverCollides, Free
<1> QED
  BY <1>1, NoCollisionWithinOwner, PTL
-----------------------------------------------------------------------------
\* Only a commit is visible to the readers, and it takes the next number.
LEMMA CommitTakes ==
    ASSUME IInv, NEW d \in Documents, Commit(d)
    PROVE  Promise!Take(d, <<Owner[d], tx[d].year>>)
<1>1. PICK y : y = tx[d].year
  OBVIOUS
<1> DEFINE s == <<Owner[d], y>>
<1>2. y \in Years /\ Owner[d] \in Owners
  BY <1>1, AllocatedType, AllocatorAssumption DEF IInv, Commit
<1>3. Promise!HoldersIn(s) = NumberedIn(Owner[d], y)
  <2>1. \A e \in Documents : Given[e] # NoReference <=> reference[e] # NoReference
    <3> SUFFICES ASSUME NEW e \in Documents, reference[e] # NoReference PROVE Given[e] # NoReference
      BY DEF Given
    <3>1. reference[e][1] \in Years /\ reference[e][2] \in Nat /\ Owner[e] \in Owners
      BY AllocatorAssumption DEF IInv, AllocatorTypes
    <3> QED
      BY <3>1, AllocatorAssumption DEF Given
  <2>2. \A e \in Documents : reference[e] # NoReference => Given[e][1] = <<Owner[e], reference[e][1]>>
    BY DEF Given
  <2>3. \A e \in Documents :
          /\ Given[e] # NoReference /\ Given[e][1] = s
          <=> Owner[e] = Owner[d] /\ reference[e] # NoReference /\ reference[e][1] = y
    BY <2>1, <2>2
  <2> QED
    BY <2>3 DEF Promise!HoldersIn, NumberedIn, Served
<1>4. Given[d] = NoReference
  BY CommitWrites DEF Given
<1>5. Given' = [Given EXCEPT ![d] = <<s, tx[d].number>>]
  <2>1. Given'[d] = <<s, tx[d].number>>
    <3>1. reference'[d] # NoReference /\ reference'[d][1] = y /\ reference'[d][2] = tx[d].number
      BY <1>1, CommitWrites, AllocatedType DEF IInv, Commit
    <3> QED
      BY <3>1 DEF Given
  <2>2. \A e \in Documents \ {d} : Given'[e] = Given[e]
    BY CommitWrites DEF Given
  <2> QED
    BY <2>1, <2>2 DEF Given
<1>6. tx[d].number = Cardinality(Promise!HoldersIn(s)) + 1
  BY <1>1, <1>3, CommitCounts
<1>7. Given' = [Given EXCEPT ![d] = <<s, Cardinality(Promise!HoldersIn(s)) + 1>>]
  BY <1>5, <1>6
<1>8. s = <<Owner[d], tx[d].year>>
  BY <1>1
<1> HIDE DEF s
<1>9. Promise!Take(d, s)
  BY <1>4, <1>7 DEF Promise!Take, Promise!Cardinality, Cardinality
<1> QED
  BY <1>8, <1>9

LEMMA StepImplements == IInv /\ [AllocatorNext]_allocatorVars => [Promise!Next]_Given
<1> SUFFICES ASSUME IInv, [AllocatorNext]_allocatorVars PROVE Promise!Next \/ Given' = Given
  OBVIOUS
<1>1. CASE UNCHANGED reference
  BY <1>1 DEF Given
<1>2. CASE \E d \in Documents : Commit(d)
  <2>1. PICK d \in Documents : Commit(d)
    BY <1>2
  <2>2. <<Owner[d], tx[d].year>> \in Owners \X Years
    BY <2>1, AllocatedType, AllocatorAssumption DEF IInv, Commit
  <2> QED
    BY <2>1, <2>2, CommitTakes DEF Promise!Next
<1> QED
  BY <1>1, <1>2 DEF AllocatorNext, allocatorVars, NewYear, Begin, Allocate, Refused, Rollback

\* The transactions, with their locks, failures and turns of the year,
\* implement the gapless sequences.
THEOREM AllocatorImplementsGapless == AllocatorSpec => ImplementsGapless
<1>1. AllocatorInit => Promise!Init
  BY DEF AllocatorInit, Promise!Init, Given
<1> QED
  BY <1>1, StepImplements, AllocatorInvariant, PTL DEF AllocatorSpec, ImplementsGapless, Promise!Spec
=============================================================================
