------------------------ MODULE MCNotificationOutbox ------------------------
(***************************************************************************)
(* How messages reach people and how documents get their numbers, in one   *)
(* model: the first state chooses the part that this behaviour follows,    *)
(* the other stands still.  One message whose recipient reads the feed or  *)
(* the mail; two owners that share the table of counters.                  *)
(***************************************************************************)
EXTENDS NotificationOutbox, ReferenceAllocator

CONSTANTS d1, d2, d3, o1, o2

VARIABLE part

MCPreferences == {{"IN_APP"}, {"EMAIL"}}
MCDocuments == {d1, d2, d3}
MCOwners == {o1, o2}
MCOwner == [d \in MCDocuments |-> IF d = d3 THEN o2 ELSE o1]

allVars == <<part, vars, allocatorVars>>

MCInit ==
    /\ part \in {"outbox", "numbers"}
    /\ Init /\ AllocatorInit

MCNext ==
    \/ part = "outbox" /\ Next /\ UNCHANGED <<part, allocatorVars>>
    \/ part = "numbers" /\ AllocatorNext /\ UNCHANGED <<part, vars>>

\* A part that stands still has nothing in progress that it would owe an end.
MCSpec == MCInit /\ [][MCNext]_allVars /\ Fairness /\ AllocatorFairness
=============================================================================
