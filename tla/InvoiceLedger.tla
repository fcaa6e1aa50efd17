--------------------------- MODULE InvoiceLedger ---------------------------
(***************************************************************************)
(* Invoices, their numbers and their payments                              *)
(* (apps/api/src/modules/finance/finance.service.ts), for one organisation *)
(* and one year of its numbering.  A handler reads rows, awaits, and later *)
(* writes columns computed from what it read, in a transaction that        *)
(* selects by id alone: a request in flight carries the columns it is      *)
(* going to write.  No endpoint looks at the sign of an amount or of the   *)
(* lines of an invoice, so both may be negative.  Whether a due date has   *)
(* passed is left open, and so is who the caller is.                       *)
(***************************************************************************)
EXTENDS Integers, FiniteSets

CONSTANTS
    Invoices,   \* identities of invoice rows
    Payments,   \* identities of payment rows, and their provider references
    Handlers,   \* request handlers that may be in flight at once
    Totals,     \* totals that lines may add up to
    Amounts,    \* amounts that may be paid or reported
    Ops,        \* the endpoints in use
    Null        \* SQL NULL

AllOps == {"update", "issue", "record", "refund", "void", "intent", "webhook",
           "match", "sweep"}

ASSUME ConstantsAssumption ==
    /\ Totals \subseteq Int /\ Amounts \subseteq Int
    /\ Ops \subseteq AllOps
    /\ IsFiniteSet(Payments) /\ Null \notin Payments
    /\ Null \notin {"invoices"} \X Nat

VARIABLES
    invoices,     \* the invoice table
    payments,     \* the payment table
    lastNumber,   \* gapless_sequence.lastValue of the organisation and year
    req           \* what each handler is in the middle of

vars == <<invoices, payments, lastNumber, req>>
-----------------------------------------------------------------------------
InvoiceStatus == {"DRAFT", "ISSUED", "PARTIALLY_PAID", "PAID", "OVERDUE", "VOID"}
PaymentStatus == {"INITIATED", "SUCCEEDED", "REFUNDED"}

\* Number 0 is NULL, and a status of "ABSENT" a row that is not there yet.
InvoiceRow ==
    [status: InvoiceStatus \cup {"ABSENT"}, number: Nat, total: Int, paid: Int]
NoPayment == [status |-> "ABSENT"]
\* Two history bits: `moved`, matchPayment has re-homed the payment, and
\* `positive`, no amount that it ever had was zero or less.
PaymentRow ==
    {NoPayment} \cup [status: PaymentStatus, invoice: Invoices, amount: Int,
                      keyed: BOOLEAN, moved: BOOLEAN, positive: BOOLEAN]

\* The two columns that settling writes.
Balance == [status: InvoiceStatus, paid: Int]
ASSUME BalanceAssumption == Null \notin Balance

Idle == [op |-> "idle"]
Writes == [Invoices -> Balance \cup {Null}]
NoWrites == [i \in Invoices |-> Null]

Request ==
    {Idle} \cup [op: AllOps \cup {"keyed", "direct", "settle", "settling", "matching"},
                 invoice: Invoices, payment: Payments \cup {Null},
                 amount: Int, writes: Writes]

Init ==
    /\ invoices = [i \in Invoices |->
                     [status |-> "ABSENT", number |-> 0, total |-> 0, paid |-> 0]]
    /\ payments = [p \in Payments |-> NoPayment]
    /\ lastNumber = 0
    /\ req = [h \in Handlers |-> Idle]

Exists(i) == invoices[i].status # "ABSENT"
Succeeded(i) ==
    {p \in Payments : payments[p].status = "SUCCEEDED" /\ payments[p].invoice = i}

\* The sum of the amounts of a set of payments: the number of their units, less
\* that of the units that negative amounts take away.
Sum(S) == Cardinality(UNION {{p} \X (1..payments[p].amount) : p \in S})
            - Cardinality(UNION {{p} \X (1..(-payments[p].amount)) : p \in S})
Lesser(a, b) == IF a <= b THEN a ELSE b
LessUnclamped(a, b) == a - b   \* Wrong variant: the floor at zero is dropped
Less(a, b) == IF a <= b THEN 0 ELSE a - b

Begin(h, op, i, p, amount, writes) ==
    /\ req[h] = Idle
    /\ req' = [req EXCEPT ![h] = [op |-> op, invoice |-> i, payment |-> p,
                                  amount |-> amount, writes |-> writes]]
    /\ UNCHANGED <<invoices, payments, lastNumber>>

Finish(h, op) == req[h].op = op /\ req' = [req EXCEPT ![h] = Idle]

Write(i, balance) == [NoWrites EXCEPT ![i] = balance]

\* The invoice table after the balances of a request are written over it.
Written(writes) ==
    [i \in Invoices |->
        IF writes[i] = Null THEN invoices[i]
        ELSE [invoices[i] EXCEPT !.status = writes[i].status, !.paid = writes[i].paid]]
-----------------------------------------------------------------------------
\* createInvoice: a numberless draft whose total is computed from its lines.
CreateInvoice(i, total) ==
    /\ ~Exists(i)
    /\ invoices' = [invoices EXCEPT ![i] =
                      [status |-> "DRAFT", number |-> 0, total |-> total, paid |-> 0]]
    /\ UNCHANGED <<payments, lastNumber, req>>

\* updateInvoice and issueInvoice look at the status before their transaction.
IsThere(i) == Exists(i)        \* Wrong variant: no look at the status
IsUnpaid(i) == invoices[i].status \in {"DRAFT", "ISSUED"}   \* Wrong variant: until it is paid
IsDraft(i) == invoices[i].status = "DRAFT"

BeginUpdate(h, i, total) ==
    /\ "update" \in Ops /\ IsDraft(i)
    /\ Begin(h, "update", i, Null, total, NoWrites)

CommitUpdate(h) ==
    /\ Finish(h, "update")
    /\ invoices' = [invoices EXCEPT ![req[h].invoice].total = req[h].amount]
    /\ UNCHANGED <<payments, lastNumber>>

BeginIssue(h, i) ==
    /\ "issue" \in Ops /\ IsDraft(i)
    /\ Begin(h, "issue", i, Null, 0, NoWrites)

\* Wrong variant: a number counted from the numbered invoices instead of taken
\* from the counter.
CommitIssueCounted(h) ==
    /\ Finish(h, "issue")
    /\ lastNumber' = lastNumber + 1
    /\ LET numbered == {j \in Invoices : invoices[j].number # 0} IN
       invoices' = [invoices EXCEPT ![req[h].invoice].number = Cardinality(numbered) + 1,
                                    ![req[h].invoice].status = "ISSUED"]
    /\ UNCHANGED payments

\* The number is taken and the invoice frozen in one transaction; the counter
\* row stays locked from its increment to the commit.
CommitIssue(h) ==
    /\ Finish(h, "issue")
    /\ lastNumber' = lastNumber + 1
    /\ invoices' = [invoices EXCEPT ![req[h].invoice].number = lastNumber + 1,
                                    ![req[h].invoice].status = "ISSUED"]
    /\ UNCHANGED payments
-----------------------------------------------------------------------------
\* applyPaymentToInvoice on the row that was read: an amount over the balance
\* is capped, an overdue invoice stays overdue until it is paid, and an amount
\* that leaves nothing paid leaves the status as it was, whatever it was.
AppliedUncapped(row, amount) ==   \* Wrong variant: the surplus is credited too
    [status |-> IF row.paid + amount >= row.total THEN "PAID" ELSE "PARTIALLY_PAID",
     paid |-> row.paid + amount]

Applied(row, amount) ==
    IF row.paid + amount >= row.total
    THEN [status |-> "PAID", paid |-> row.total]
    ELSE [status |-> IF row.status = "OVERDUE" THEN "OVERDUE"
                     ELSE IF row.paid + amount > 0 THEN "PARTIALLY_PAID" ELSE row.status,
          paid |-> row.paid + amount]

\* What a refund leaves of the row that was read.
RefundedPartly(row, amount) ==   \* Wrong variant: nothing left is still partly paid
    [status |-> IF row.status = "OVERDUE" THEN "OVERDUE" ELSE "PARTIALLY_PAID",
     paid |-> Less(row.paid, amount)]

Refunded(row, amount) ==
    LET left == Less(row.paid, amount) IN
    [status |-> CASE left = 0 -> "ISSUED"
                  [] left > 0 /\ row.status = "OVERDUE" -> "OVERDUE"
                  [] OTHER -> "PARTIALLY_PAID",
     paid |-> left]

\* recordPayment: a manual payment of at most the balance that was read.
BeginRecord(h, i, p, amount) ==
    LET row == invoices[i] IN
    /\ "record" \in Ops
    /\ Exists(i) /\ row.status \notin {"VOID", "DRAFT"} /\ row.number # 0
    /\ row.paid + amount <= row.total
    /\ Begin(h, "record", i, p, amount, Write(i, Applied(row, amount)))

NewPayment(p, i, amount, status, keyed) ==
    /\ payments[p] = NoPayment
    /\ payments' = [payments EXCEPT ![p] =
          [status |-> status, invoice |-> i, amount |-> amount, keyed |-> keyed,
           moved |-> FALSE, positive |-> amount > 0]]

\* A manual payment, or one a webhook reports without an intent: the payment
\* is inserted, which its unique provider reference allows once.
CommitPayment(h) ==
    /\ \E op \in {"record", "direct"} : Finish(h, op)
    /\ NewPayment(req[h].payment, req[h].invoice, req[h].amount, "SUCCEEDED", FALSE)
    /\ invoices' = Written(req[h].writes)
    /\ UNCHANGED lastNumber

BeginRefund(h, p) ==
    LET row == payments[p] IN
    /\ "refund" \in Ops /\ row.status = "SUCCEEDED"
    /\ Begin(h, "refund", row.invoice, p, row.amount,
             Write(row.invoice, Refunded(invoices[row.invoice], row.amount)))

CommitRefund(h) ==
    /\ Finish(h, "refund")
    /\ payments' = [payments EXCEPT ![req[h].payment].status = "REFUNDED"]
    /\ invoices' = Written(req[h].writes)
    /\ UNCHANGED lastNumber

\* voidInvoice: refused while a payment stands.
BeginVoidUnpaid(h, i) ==   \* Wrong variant: the column is trusted, not the payments
    /\ "void" \in Ops
    /\ Exists(i) /\ invoices[i].status # "VOID" /\ invoices[i].paid = 0
    /\ Begin(h, "void", i, Null, 0, NoWrites)

BeginVoid(h, i) ==
    /\ "void" \in Ops
    /\ Exists(i) /\ invoices[i].status # "VOID" /\ Succeeded(i) = {}
    /\ Begin(h, "void", i, Null, 0, NoWrites)

CommitVoidFreed(h) ==   \* Wrong variant: the number is given back
    /\ Finish(h, "void")
    /\ invoices' = [invoices EXCEPT ![req[h].invoice].status = "VOID",
                                    ![req[h].invoice].number = 0]
    /\ UNCHANGED <<payments, lastNumber>>

CommitVoid(h) ==
    /\ Finish(h, "void")
    /\ invoices' = [invoices EXCEPT ![req[h].invoice].status = "VOID"]
    /\ UNCHANGED <<payments, lastNumber>>
-----------------------------------------------------------------------------
\* createPaymentIntent: the amount is the balance that was read, and a key
\* that has an open intent is answered with that intent.
OpenIntents(i) ==
    {p \in Payments : payments[p].status = "INITIATED" /\ payments[p].keyed
                        /\ payments[p].invoice = i}

BeginIntentAnyway(h, i, p, keyed) ==   \* Wrong variant: the key is not looked up
    LET row == invoices[i] IN
    /\ "intent" \in Ops
    /\ row.status \in {"ISSUED", "PARTIALLY_PAID", "OVERDUE"} /\ row.paid < row.total
    /\ Begin(h, IF keyed THEN "keyed" ELSE "intent", i, p, row.total - row.paid, NoWrites)

BeginIntent(h, i, p, keyed) ==
    LET row == invoices[i] IN
    /\ "intent" \in Ops
    /\ row.status \in {"ISSUED", "PARTIALLY_PAID", "OVERDUE"} /\ row.paid < row.total
    /\ keyed => OpenIntents(i) = {}
    /\ Begin(h, IF keyed THEN "keyed" ELSE "intent", i, p, row.total - row.paid, NoWrites)

CommitIntent(h) ==
    /\ \E op \in {"intent", "keyed"} :
          /\ Finish(h, op)
          /\ NewPayment(req[h].payment, req[h].invoice, req[h].amount, "INITIATED",
                        op = "keyed")
    /\ UNCHANGED <<invoices, lastNumber>>
-----------------------------------------------------------------------------
\* paymentWebhook looks the payment up by its reference.  A success known
\* already is acknowledged; an open intent is settled; anything else is taken
\* as a payment of the invoice named, if that is numbered.
BeginWebhookAgain(h, p, i, amount) ==   \* Wrong variant: a known success is settled again
    /\ "webhook" \in Ops
    /\ IF payments[p] # NoPayment
       THEN Begin(h, "settle", payments[p].invoice, p, amount, NoWrites)
       ELSE /\ Exists(i) /\ invoices[i].number # 0
            /\ Begin(h, "direct", i, p, amount, Write(i, Applied(invoices[i], amount)))

BeginWebhook(h, p, i, amount) ==
    /\ "webhook" \in Ops
    /\ CASE payments[p].status = "SUCCEEDED" -> FALSE
         [] payments[p].status = "INITIATED" ->
              Begin(h, "settle", payments[p].invoice, p, amount, NoWrites)
         [] OTHER ->
              /\ Exists(i) /\ invoices[i].number # 0
              /\ Begin(h, "direct", i, p, amount, Write(i, Applied(invoices[i], amount)))

\* Settling reads the invoice inside its transaction, and writes it back.
ReadSettled(h) ==
    /\ req[h].op = "settle"
    /\ LET i == req[h].invoice IN
       req' = [req EXCEPT ![h].op = "settling",
                          ![h].writes = Write(i, Applied(invoices[i], req[h].amount))]
    /\ UNCHANGED <<invoices, payments, lastNumber>>

CommitSettledAsAsked(h) ==   \* Wrong variant: the amount asked for is kept
    /\ Finish(h, "settling")
    /\ payments' = [payments EXCEPT ![req[h].payment].status = "SUCCEEDED"]
    /\ invoices' = Written(req[h].writes)
    /\ UNCHANGED lastNumber

CommitSettled(h) ==
    /\ Finish(h, "settling")
    /\ payments' = [payments EXCEPT ![req[h].payment].status = "SUCCEEDED",
                                    ![req[h].payment].amount = req[h].amount,
                                    ![req[h].payment].positive = @ /\ req[h].amount > 0]
    /\ invoices' = Written(req[h].writes)
    /\ UNCHANGED lastNumber
-----------------------------------------------------------------------------
\* matchPayment moves a payment to a target invoice of any status.  `settled`
\* is what the payment, as it was read, had contributed.
BeginMatch(h, p, target) ==
    LET row == payments[p] IN
    /\ "match" \in Ops
    /\ row # NoPayment /\ Exists(target)
    /\ Begin(h, "match", target, p, IF row.status = "SUCCEEDED" THEN row.amount ELSE 0,
             IF row.invoice = target THEN NoWrites
             ELSE Write(row.invoice, [status |-> "ISSUED", paid |-> 0]))

\* What the invoice that loses the payment is left with.
Unmatched(row, settled) ==
    LET left == Less(row.paid, settled) IN
    [status |-> CASE left = 0 -> "ISSUED"
                  [] left > 0 /\ left < row.total -> "PARTIALLY_PAID"
                  [] OTHER -> "PAID",
     paid |-> left]

\* The target is credited with the sum of its payments.
Matched(row, sum) ==
    LET paid == Lesser(sum, row.total) IN
    [status |-> CASE paid >= row.total -> "PAID"
                  [] paid < row.total /\ row.status = "OVERDUE" -> "OVERDUE"
                  [] OTHER -> "PARTIALLY_PAID",
     paid |-> paid]

ReadMatched(h) ==
    /\ req[h].op = "match"
    /\ LET r == req[h]
           received == Succeeded(r.invoice)
                         \cup ({r.payment} \cap {p \in Payments : payments[p].status = "SUCCEEDED"})
       IN req' = [req EXCEPT ![h].op = "matching",
                    ![h].writes = [i \in Invoices |->
                       IF i = r.invoice THEN Matched(invoices[i], Sum(received))
                       ELSE IF r.writes[i] = Null THEN Null
                       ELSE Unmatched(invoices[i], r.amount)]]
    /\ UNCHANGED <<invoices, payments, lastNumber>>

CommitMatched(h) ==
    /\ Finish(h, "matching")
    /\ payments' = [payments EXCEPT ![req[h].payment].invoice = req[h].invoice,
                                    ![req[h].payment].moved = TRUE]
    /\ invoices' = Written(req[h].writes)
    /\ UNCHANGED lastNumber
-----------------------------------------------------------------------------
\* sweepOverdue reads the open invoices past their due date and marks each.
BeginSweep(h, i) ==
    /\ "sweep" \in Ops
    /\ invoices[i].status \in {"ISSUED", "PARTIALLY_PAID"}
    /\ invoices[i].paid < invoices[i].total
    /\ Begin(h, "sweep", i, Null, 0, NoWrites)

CommitSweep(h) ==
    /\ Finish(h, "sweep")
    /\ invoices' = [invoices EXCEPT ![req[h].invoice].status = "OVERDUE"]
    /\ UNCHANGED <<payments, lastNumber>>

\* A transaction that rolls back, or a process that dies.
Abandon(h) ==
    /\ req[h] # Idle
    /\ req' = [req EXCEPT ![h] = Idle]
    /\ UNCHANGED <<invoices, payments, lastNumber>>

\* The steps that only read, and hold what they read in a request.
Reads(h) ==
    \/ \E i \in Invoices :
          \/ \E total \in Totals : BeginUpdate(h, i, total)
          \/ BeginIssue(h, i) \/ BeginVoid(h, i) \/ BeginSweep(h, i)
          \/ \E p \in Payments :
                \/ \E amount \in Amounts :
                      BeginRecord(h, i, p, amount) \/ BeginWebhook(h, p, i, amount)
                \/ \E keyed \in BOOLEAN : BeginIntent(h, i, p, keyed)
                \/ BeginMatch(h, p, i)
    \/ \E p \in Payments : BeginRefund(h, p)
    \/ ReadSettled(h) \/ ReadMatched(h)

Next ==
    \/ \E i \in Invoices, total \in Totals : CreateInvoice(i, total)
    \/ \E h \in Handlers :
          \/ Reads(h)
          \/ CommitUpdate(h) \/ CommitIssue(h) \/ CommitVoid(h) \/ CommitSweep(h)
          \/ CommitPayment(h) \/ CommitRefund(h) \/ CommitSettled(h)
          \/ CommitMatched(h) \/ CommitIntent(h) \/ Abandon(h)

Spec == Init /\ [][Next]_vars

\* Requests that issue a draft while no other request edits or issues it, or
\* settles an intent that was moved onto it, however they overlap otherwise.
DraftsApart ==
    \A h, k \in Handlers :
        h # k /\ req[h].op = "issue" /\ req[k].op \in {"issue", "update", "settling"}
            => req[h].invoice # req[k].invoice
NumberingSpec == Init /\ [][Next /\ DraftsApart']_vars

\* Requests that do not overlap on an invoice, however they overlap otherwise.
\* A match is about the invoice it takes the payment from, too.
About(r) ==
    {r.invoice} \cup (IF r.op \in {"match", "matching"} THEN {payments[r.payment].invoice} ELSE {})
Apart ==
    \A h, k \in Handlers :
        h # k /\ req[h] # Idle /\ req[k] # Idle => About(req[h]) \cap About(req[k]) = {}
SerialSpec == Init /\ [][Next /\ Apart']_vars
-----------------------------------------------------------------------------
TypeOK ==
    /\ invoices \in [Invoices -> InvoiceRow]
    /\ payments \in [Payments -> PaymentRow]
    /\ lastNumber \in Nat
    /\ req \in [Handlers -> Request]

(***************************************************************************)
(* What holds however the handlers interleave.                             *)
(***************************************************************************)

\* No two invoices carry one number, and no number is ahead of the counter,
\* however many issues overlap (US-6.1, "distinct").
NumbersUnique ==
    \A i, j \in Invoices :
        invoices[i].number # 0 =>
            /\ invoices[i].number <= lastNumber
            /\ i # j => invoices[i].number # invoices[j].number

\* No payment was ever of nothing, or of less.
AllPositive == \A p \in Payments : payments[p] # NoPayment => payments[p].positive

\* Status and amount are written together: whatever snapshot a settlement was
\* computed from, an invoice is paid in full, unless amounts below zero have taken
\* back everything that was paid.  Where all amounts were positive, a paid invoice
\* is paid exactly, a partly paid one is not, and nothing is paid beyond the total.
\* A late edit of the total breaks this, so it is asked of ledgers without
\* updateInvoice.
PaidInFull ==
    \A i \in Invoices :
        LET row == invoices[i] IN
        /\ row.status = "PAID" => row.paid >= row.total \/ row.paid <= 0
        /\ AllPositive =>
              /\ row.paid <= row.total \/ row.paid <= 0
              /\ row.status = "PAID" => row.paid = row.total
              /\ row.status = "PARTIALLY_PAID" => row.paid < row.total

(***************************************************************************)
(* What holds while a draft that is issued is left alone.                  *)
(***************************************************************************)

\* Nothing takes a numbered invoice back to a draft, so it cannot be edited
\* or numbered by a request that starts after it was issued.
NumberedLeavesDraft ==
    \A i \in Invoices : invoices[i].number # 0 => ~IsDraft(i)

\* The numbers in use are 1, 2, ..., lastNumber (US-6.1, FR-6.2).
Gapless == {invoices[i].number : i \in Invoices} \ {0} = 1..lastNumber

\* An issued invoice keeps its number and its total (FR-6.3).
IssuedFrozen ==
    [][\A i \in Invoices :
          invoices[i].number # 0 =>
              /\ invoices'[i].number = invoices[i].number
              /\ invoices'[i].total = invoices[i].total]_vars

\* What US-6.1 promises of the numbers: an invoice takes the next one of a
\* sequence without gaps, and nothing it goes through later, not even being
\* voided, changes the number or gives it back.
Given ==
    [i \in Invoices |-> IF invoices[i].number = 0 THEN Null ELSE <<"invoices", invoices[i].number>>]
Promise ==
    INSTANCE GaplessSequence WITH Holders <- Invoices, Sequences <- {"invoices"}, given <- Given
ImplementsSequence == Promise!Spec

(***************************************************************************)
(* What holds when requests do not overlap on an invoice.                  *)
(***************************************************************************)

Moved(p) == payments[p] # NoPayment /\ payments[p].moved

\* Nothing was refunded or moved to another invoice yet.
Intact == \A p \in Payments : payments[p].status # "REFUNDED" /\ ~Moved(p)

\* An invoice is never credited with more than was received for it: not by a
\* repeated webhook and, where no amount was negative, not by a refund or a
\* payment moved elsewhere.
Covered ==
    AllPositive \/ Intact => \A i \in Invoices : invoices[i].paid <= Sum(Succeeded(i))

\* A void invoice holds no money (section 10.2: only when nothing is paid).
VoidHoldsNoMoney ==
    AllPositive => \A i \in Invoices : invoices[i].status = "VOID" => Succeeded(i) = {}

\* Until something is refunded or moved, the amount paid is the sum of the
\* successful payments, up to the total (section 10.2).
SettledSum ==
    AllPositive /\ Intact =>
        \A i \in Invoices :
            invoices[i].total >= 0 =>
                invoices[i].paid = Lesser(Sum(Succeeded(i)), invoices[i].total)

\* Until a payment is moved, the status of an invoice tells its balance,
\* through every order of payments, refunds, sweeps and settlements.
StatusTellsBalance ==
    AllPositive /\ (\A p \in Payments : ~Moved(p)) =>
        \A i \in Invoices :
            LET row == invoices[i] IN
            /\ row.status \in {"DRAFT", "ISSUED", "VOID"} => row.paid = 0
            /\ row.status = "PARTIALLY_PAID" => 0 < row.paid /\ row.paid < row.total
            /\ row.status = "PAID" => row.paid = row.total
            /\ row.status = "OVERDUE" => row.paid < row.total

\* A key starts one payment at a time (createPaymentIntent: "Idempotent on
\* the caller's intent key"), not counting intents moved from elsewhere.
OneOpenIntent ==
    \A i \in Invoices : Cardinality({p \in OpenIntents(i) : ~Moved(p)}) <= 1

\* What the ledger says of money, all of it at once: paid amounts are covered by
\* payments and told by the status, one intent is open per key, void is empty.
\* Nothing in finance.service.ts keeps amounts positive, so most of it is said of
\* the ledgers in which they were.
MoneyAccounted ==
    Covered /\ SettledSum /\ StatusTellsBalance /\ VoidHoldsNoMoney /\ OneOpenIntent
=============================================================================
