-------------------------- MODULE MCInvoiceLedger --------------------------
(***************************************************************************)
(* InvoiceLedger for TLC: totals of one or two units, or of credit lines   *)
(* that outweigh the rest, so that a payment can be partial, exact, too    *)
(* large, or take back what was paid.                                      *)
(***************************************************************************)
EXTENDS InvoiceLedger, TLC

MCOneTotal == {2}
MCTotals == {-1, 1, 2}
MCAmounts == {1, 2}
MCSignedAmounts == {-2, 1, 2}
MCSignedUnits == {-1, 1}

\* The endpoints in use: all, without editing and voiding, and the few that a
\* repeated webhook needs.
MCAllOps == AllOps
MCRacing == AllOps \ {"update", "void"}
MCOnline == {"issue", "intent", "webhook"}

\* What of the requests and payments is still used: the amount of a request only
\* until what it will write is computed, unless it is written to the payment.
MCRequests ==
    [h \in Handlers |->
        IF req[h].op \in {"refund", "matching"} THEN [req[h] EXCEPT !.amount = 0] ELSE req[h]]
MCPayments ==
    [p \in Payments |->
        LET row == payments[p] IN
        IF row = NoPayment THEN row
        ELSE [row EXCEPT !.amount = IF row.status = "REFUNDED" THEN 0 ELSE @,
                         !.keyed = @ /\ row.status = "INITIATED"]]
MCLedger == <<invoices, lastNumber, MCRequests, MCPayments>>

\* A race for one payment looks at no history of moves and at no key: a second
\* intent of that payment can only be given up.
MCKeyless(r) == IF r.op = "keyed" THEN [r EXCEPT !.op = "intent"] ELSE r
MCUnmoved(row) ==
    IF row = NoPayment THEN row ELSE [row EXCEPT !.moved = FALSE, !.keyed = FALSE]
MCRace == <<invoices, lastNumber, [h \in Handlers |-> MCKeyless(MCRequests[h])],
            [p \in Payments |-> MCUnmoved(MCPayments[p])]>>

\* Moving a negative payment back and forth in overlapping matches credits its
\* source without end: the race follows a ledger no farther than to its total.
MCNear == \A i \in Invoices : invoices[i].paid \in -2..2

\* The ledgers that the books are asked of: all amounts positive, or nothing
\* refunded or moved.
MCBooked == AllPositive \/ Intact

MCSymmetry == Permutations(Invoices) \cup Permutations(Payments) \cup Permutations(Handlers)
=============================================================================
