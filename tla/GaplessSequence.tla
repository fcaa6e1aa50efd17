-------------------------- MODULE GaplessSequence --------------------------
(***************************************************************************)
(* What the readers of references are promised: in every sequence numbers  *)
(* are handed out one at a time, each is one more than the number of its   *)
(* holders so far, and a number is never changed or taken back.            *)
(***************************************************************************)
EXTENDS Naturals, FiniteSets

CONSTANTS
    Holders,     \* what may hold a number
    Sequences,   \* the independent sequences
    Null         \* no number yet

\* What the constants have to be: the hypothesis of every theorem.
SequenceAssumption == IsFiniteSet(Holders) /\ Null \notin Sequences \X Nat

VARIABLE given   \* the sequence and the number given to each holder

HoldersIn(s) == {c \in Holders : given[c] # Null /\ given[c][1] = s}

Init == given = [c \in Holders |-> Null]

Take(c, s) ==
    /\ given[c] = Null
    /\ given' = [given EXCEPT ![c] = <<s, Cardinality(HoldersIn(s)) + 1>>]

Next == \E c \in Holders, s \in Sequences : Take(c, s)

Spec == Init /\ [][Next]_given
-----------------------------------------------------------------------------
GivenType == given \in [Holders -> (Sequences \X Nat) \cup {Null}]

\* The numbers of a sequence are 1, 2, ... up to the number of its holders,
\* without a gap and without a repetition: what gapless_sequence is for.
NoGapNoRepeat ==
    \A s \in Sequences :
        /\ {given[c][2] : c \in HoldersIn(s)} = 1..Cardinality(HoldersIn(s))
        /\ \A c, d \in HoldersIn(s) : given[c][2] = given[d][2] => c = d
=============================================================================
