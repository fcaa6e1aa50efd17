------------------------- MODULE ReferenceAllocator -------------------------
(***************************************************************************)
(* How a row gets its human-readable reference: createCase and             *)
(* generateReference (cases.service.ts), issueInvoice (finance.service.ts) *)
(* and the gapless_sequence table, one row per owner and year, at the      *)
(* level of the database transaction.  A transaction reads the year from   *)
(* the clock of the process, increments the counter row and keeps it       *)
(* locked, writes the reference under a unique index, and commits; it may  *)
(* be rolled back at any point.  All cases share one owner; every          *)
(* organisation owns the sequence of its invoices.                         *)
(***************************************************************************)
EXTENDS Naturals, FiniteSets

CONSTANTS
    Documents,   \* the rows to be numbered, each by the request that names it
    Owners,      \* the owners of counter rows
    Owner,       \* the owner whose row numbers a document
    LastYear,    \* bound on the clock
    NoReference  \* SQL NULL

Years == 1..LastYear

ASSUME AllocatorAssumption ==
    /\ IsFiniteSet(Documents)
    /\ Owner \in [Documents -> Owners]
    /\ LastYear \in Nat \ {0}
    /\ NoReference \notin Years \X Nat /\ NoReference \notin (Owners \X Years) \X Nat

VARIABLES
    year,        \* the year on the clock
    lastValue,   \* gapless_sequence.lastValue by owner and year, 0 without a row
    reference,   \* the reference of each document, a year and a number, or NULL
    tx           \* the open transaction of each document

allocatorVars == <<year, lastValue, reference, tx>>
-----------------------------------------------------------------------------
NoTransaction == [step |-> "idle"]
Transaction ==
    {NoTransaction} \cup [step: {"begun"}, year: Years]
           \cup [step: {"allocated"}, year: Years, number: Nat \ {0}]

AllocatorInit ==
    /\ year = 1
    /\ lastValue = [o \in Owners |-> [y \in Years |-> 0]]
    /\ reference = [d \in Documents |-> NoReference]
    /\ tx = [d \in Documents |-> NoTransaction]

NewYear ==
    /\ year < LastYear
    /\ year' = year + 1
    /\ UNCHANGED <<lastValue, reference, tx>>

\* The request opens its transaction and reads the year, before the counter.
Begin(d) ==
    /\ reference[d] = NoReference /\ tx[d] = NoTransaction
    /\ tx' = [tx EXCEPT ![d] = [step |-> "begun", year |-> year]]
    /\ UNCHANGED <<year, lastValue, reference>>

\* Wrong variants: the row is never locked; it is locked from the beginning.
NeverHolds(d, o, y) == FALSE
HoldsFromBegin(d, o, y) == tx[d] # NoTransaction /\ tx[d].year = y /\ Owner[d] = o

\* A transaction that has incremented a counter row holds its lock.
Holds(d, o, y) == tx[d].step = "allocated" /\ tx[d].year = y /\ Owner[d] = o

\* Wrong variant: the increment outlives the transaction.
AllocateApart(d) ==
    /\ tx[d].step = "begun"
    /\ LET o == Owner[d]
           y == tx[d].year IN
       /\ lastValue' = [lastValue EXCEPT ![o][y] = @ + 1]
       /\ tx' = [tx EXCEPT ![d] = [step |-> "allocated", year |-> y,
                                   number |-> lastValue[o][y] + 1]]
    /\ UNCHANGED <<year, reference>>
\* INSERT ... ON CONFLICT DO UPDATE waits for the lock, then increments the
\* committed value; nobody else sees the increment before the commit.  A row
\* that is not there yet counts as 0: issueInvoice then adopts the largest
\* number of its own organisation, which has none without a row.
Allocate(d) ==
    /\ tx[d].step = "begun"
    /\ LET o == Owner[d]
           y == tx[d].year IN
       /\ \A e \in Documents \ {d} : ~Holds(e, o, y)
       /\ tx' = [tx EXCEPT ![d] = [step |-> "allocated", year |-> y,
                                   number |-> lastValue[o][y] + 1]]
    /\ UNCHANGED <<year, lastValue, reference>>

Allocated(d) == <<tx[d].year, tx[d].number>>

\* The unique index on case.reference and invoice.number: it knows no owner.
Free(r) == \A e \in Documents : reference[e] # r

\* Wrong variant: the counter is stamped under the year on the clock.
CommitThisYear(d) ==
    /\ tx[d].step = "allocated"
    /\ Free(Allocated(d))
    /\ lastValue' = [lastValue EXCEPT ![Owner[d]][year] = tx[d].number]
    /\ reference' = [reference EXCEPT ![d] = Allocated(d)]
    /\ tx' = [tx EXCEPT ![d] = NoTransaction]
    /\ UNCHANGED year

\* The document is written with its reference and the transaction commits.
Commit(d) ==
    /\ tx[d].step = "allocated"
    /\ Free(Allocated(d))
    /\ lastValue' = [lastValue EXCEPT ![Owner[d]][tx[d].year] = tx[d].number]
    /\ reference' = [reference EXCEPT ![d] = Allocated(d)]
    /\ tx' = [tx EXCEPT ![d] = NoTransaction]
    /\ UNCHANGED year

\* The transaction ends without a trace: the database or the process gives up.
Rollback(d) ==
    /\ tx[d] # NoTransaction
    /\ tx' = [tx EXCEPT ![d] = NoTransaction]
    /\ UNCHANGED <<year, lastValue, reference>>

\* The unique index refuses the reference and the request fails.
Refused(d) == tx[d].step = "allocated" /\ ~Free(Allocated(d)) /\ Rollback(d)

AllocatorNext ==
    \/ NewYear
    \/ \E d \in Documents :
          Begin(d) \/ Allocate(d) \/ Commit(d) \/ Refused(d) \/ Rollback(d)

\* The database serves the waiters of a row lock in turn (strong fairness) and
\* the process goes on with what it has begun; clients, failures and the clock
\* owe nothing.
AllocatorFairness ==
    \A d \in Documents :
        /\ SF_allocatorVars(Allocate(d))
        /\ WF_allocatorVars(Commit(d)) /\ WF_allocatorVars(Refused(d))

AllocatorSpec == AllocatorInit /\ [][AllocatorNext]_allocatorVars /\ AllocatorFairness
-----------------------------------------------------------------------------
AllocatorTypes ==
    /\ year \in Years
    /\ lastValue \in [Owners -> [Years -> Nat]]
    /\ reference \in [Documents -> (Years \X (Nat \ {0})) \cup {NoReference}]
    /\ tx \in [Documents -> Transaction]

Served(o) == {d \in Documents : Owner[d] = o}
NumberedIn(o, y) == {d \in Served(o) : reference[d] # NoReference /\ reference[d][1] = y}

\* A counter row agrees with the documents that carry its numbers, although
\* the two are written by different statements and requests fail in between.
CounterIsCount ==
    \A o \in Owners, y \in Years : lastValue[o][y] = Cardinality(NumberedIn(o, y))

\* The number that an open transaction has been given is not yet used by its
\* own sequence, whatever was committed while it waited for the counter.
OwnHistoryFree ==
    \A d, e \in Documents :
        tx[d].step = "allocated" /\ Owner[e] = Owner[d] => reference[e] # Allocated(d)

\* Both: the counter is right and the number on its way is free.
AllocatorSafe == CounterIsCount /\ OwnHistoryFree

\* The unique index has nothing to refuse: "so the sequence can never collide
\* with history" (finance.service.ts:165).
NeverCollides ==
    \A d \in Documents : tx[d].step = "allocated" => Free(Allocated(d))

\* Whatever is begun ends, one way or the other: no request waits for the lock
\* of a counter row for ever.
EveryRequestEnds == \A d \in Documents : tx[d] # NoTransaction ~> tx[d] = NoTransaction

\* The references as a reader of the documents sees them.
Given == [d \in Documents |->
            IF reference[d] = NoReference THEN NoReference
            ELSE <<<<Owner[d], reference[d][1]>>, reference[d][2]>>]
Promise == INSTANCE GaplessSequence
           WITH Holders <- Documents, Sequences <- Owners \X Years, given <- Given,
                Null <- NoReference

\* The transactions implement the gapless sequences: whatever fails, in
\* whatever order they start, wait and commit, and across the turn of a year.
ImplementsGapless == Promise!Spec
=============================================================================
