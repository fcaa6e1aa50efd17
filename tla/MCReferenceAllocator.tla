------------------------ MODULE MCReferenceAllocator ------------------------
(***************************************************************************)
(* ReferenceAllocator for TLC: two owners share the table and its index,   *)
(* as the invoices of two organisations do.  The documents of one owner    *)
(* alone, as cases are, are the runs in which the other owner never acts.  *)
(***************************************************************************)
EXTENDS ReferenceAllocator

CONSTANTS d1, d2, d3, d4, o1, o2

MCDocuments == {d1, d2, d3, d4}
MCOwners == {o1, o2}
MCOwner == [d \in MCDocuments |-> IF d = d4 THEN o2 ELSE o1]
=============================================================================
