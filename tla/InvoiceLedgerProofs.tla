------------------------ MODULE InvoiceLedgerProofs ------------------------
(***************************************************************************)
(* What InvoiceLedger guarantees for any number of invoices, payments and  *)
(* overlapping handlers, and what it guarantees of numbers and money when  *)
(* it serves one request at a time.                                        *)
(***************************************************************************)
EXTENDS InvoiceLedger, FiniteSetTheorems, TLAPS

\* A paid balance of this total is paid in full, or has been taken back.
Earned(b, total) == b.status = "PAID" => b.paid >= total \/ b.paid <= 0

\* A balance that a row with this total may show where amounts are positive.
Fits(b, total) ==
    /\ b.paid <= total \/ b.paid <= 0
    /\ b.status = "PAID" => b.paid = total
    /\ b.status = "PARTIALLY_PAID" => b.paid < total

\* What holds of every request, payment and invoice of a ledger in which
\* drafts are not edited: pending balances fit the rows they will overwrite,
\* unless they come with an amount that is not positive.
PayOps == {"record", "direct", "settling"}
WritesFit(op, n, writes) ==
    /\ AllPositive /\ op = "match" => n >= 0
    /\ \A i \in Invoices :
          writes[i] # Null =>
              /\ Exists(i) /\ Earned(writes[i], invoices[i].total)
              /\ AllPositive /\ (op \in PayOps => n > 0) => Fits(writes[i], invoices[i].total)
RequestFits(r) ==
    r # Idle =>
        /\ r.op # "update" /\ (r.op \in PayOps => r.payment \in Payments)
        /\ WritesFit(r.op, r.amount, r.writes)
PaymentFits(row) == row # NoPayment /\ row.positive => row.amount > 0

Fitting ==
    /\ \A i \in Invoices : /\ Earned(invoices[i], invoices[i].total)
                           /\ AllPositive => Fits(invoices[i], invoices[i].total)
    /\ \A p \in Payments : PaymentFits(payments[p])
    /\ \A h \in Handlers : RequestFits(req[h])

\* A request is about an invoice that is there, and one about an existing payment
\* finds that, and a payment is of an invoice that is there.
PaymentOps == {"refund", "settle", "settling", "match", "matching"}
KnownBy(r) ==
    /\ r.op # "idle" => Exists(r.invoice)
    /\ r.op \in PaymentOps => r.payment \in Payments /\ payments[r.payment] # NoPayment
Known ==
    /\ \A h \in Handlers : KnownBy(req[h])
    /\ \A p \in Payments : payments[p] # NoPayment => Exists(payments[p].invoice)

NumberInv == TypeOK /\ Known /\ NumbersUnique
PaidInv == TypeOK /\ Known /\ Fitting

\* A request other than the idle one.
Active ==
    [op: AllOps \cup {"keyed", "direct", "settle", "settling", "matching"},
     invoice: Invoices, payment: Payments \cup {Null}, amount: Int, writes: Writes]

\* A payment that is there.
Paid ==
    [status: PaymentStatus, invoice: Invoices, amount: Int, keyed: BOOLEAN,
     moved: BOOLEAN, positive: BOOLEAN]
-----------------------------------------------------------------------------
\* A handler in the middle of an operation holds a request.
LEMMA ActiveRequest ==
    ASSUME TypeOK, NEW h \in Handlers, req[h].op # "idle"
    PROVE  req[h] \in Active
BY DEF TypeOK, Request, Idle, Active

\* A set of payments has a number of units, of a positive or a negative kind.
LEMMA UnitsFinite ==
    ASSUME NEW S, IsFiniteSet(S), NEW a, \A p \in S : a[p] \in Int
    PROVE  IsFiniteSet(UNION {{p} \X (1..a[p]) : p \in S})
<1> DEFINE units(p) == {p} \X (1..a[p])
           T == {units(p) : p \in S}
           f == [p \in S |-> units(p)]
<1>1. \A p \in S : IsFiniteSet(units(p))
  <2> TAKE p \in S
  <2>1. IsFiniteSet(1..a[p])
    BY FS_Interval
  <2>2. IsFiniteSet({p})
    BY FS_Singleton
  <2> QED BY <2>1, <2>2, FS_Product
<1>2. IsFiniteSet(T)
  <2>1. f \in Surjection(S, T)
    BY DEF Surjection
  <2> QED BY <2>1, FS_Surjection
<1> QED BY <1>1, <1>2, FS_UNION

\* The amounts of a set of payments have a sum.
LEMMA SumType ==
    ASSUME TypeOK, NEW S \in SUBSET {p \in Payments : payments[p] # NoPayment}
    PROVE  Sum(S) \in Int
<1> DEFINE A == [p \in S |-> payments[p].amount]
           B == [p \in S |-> -payments[p].amount]
           U == UNION {{p} \X (1..A[p]) : p \in S}
           V == UNION {{p} \X (1..B[p]) : p \in S}
<1>1. IsFiniteSet(S)
  BY FS_Subset, ConstantsAssumption
<1>2. \A p \in S : payments[p].amount \in Int
  BY DEF TypeOK, PaymentRow
<1>3. \A p \in S : A[p] \in Int /\ B[p] \in Int
  BY <1>2
<1>4. /\ U = UNION {{p} \X (1..payments[p].amount) : p \in S}
      /\ V = UNION {{p} \X (1..(-payments[p].amount)) : p \in S}
  OBVIOUS
<1>5. Sum(S) = Cardinality(U) - Cardinality(V)
  BY <1>4 DEF Sum
<1> HIDE DEF A, B
<1>6. IsFiniteSet(U) /\ IsFiniteSet(V)
  BY <1>1, <1>3, UnitsFinite
<1> HIDE DEF U, V
<1>7. Cardinality(U) \in Nat /\ Cardinality(V) \in Nat
  BY <1>6, FS_CardinalityType
<1> QED BY <1>5, <1>7

\* The balances that the operations compute are balances.
LEMMA BalanceTypes ==
    ASSUME NEW row \in InvoiceRow, NEW n \in Int
    PROVE  /\ row.status # "ABSENT" => Applied(row, n) \in Balance
           /\ Refunded(row, n) \in Balance
           /\ Unmatched(row, n) \in Balance
           /\ Matched(row, n) \in Balance
<1>1. Less(row.paid, n) \in Int /\ Lesser(n, row.total) \in Int /\ row.paid + n \in Int
  BY DEF Less, Lesser, InvoiceRow
<1>2. row.status # "ABSENT" => Applied(row, n) \in Balance
  BY <1>1 DEF Applied, Balance, InvoiceRow, InvoiceStatus
<1>3. Refunded(row, n) \in Balance
  BY <1>1 DEF Refunded, Balance, InvoiceStatus
<1>4. Unmatched(row, n) \in Balance
  BY <1>1 DEF Unmatched, Balance, InvoiceStatus
<1>5. Matched(row, n) \in Balance
  BY <1>1 DEF Matched, Balance, InvoiceStatus
<1> QED BY <1>2, <1>3, <1>4, <1>5

\* And they fit the row they were computed from.
LEMMA BalancesFit ==
    ASSUME NEW row \in InvoiceRow, NEW n \in Int
    PROVE  /\ Earned(Applied(row, n), row.total) /\ Earned(Refunded(row, n), row.total)
           /\ Earned(Unmatched(row, n), row.total) /\ Earned(Matched(row, n), row.total)
           /\ Fits(row, row.total) /\ n > 0 => /\ Fits(Applied(row, n), row.total)
                                              /\ Fits(Refunded(row, n), row.total)
           /\ Fits(row, row.total) /\ n >= 0 => Fits(Unmatched(row, n), row.total)
           /\ Fits(Matched(row, n), row.total)
<1>1. Earned(Applied(row, n), row.total)
  BY DEF Earned, Applied, InvoiceRow
<1>2. Earned(Refunded(row, n), row.total)
  BY DEF Earned, Refunded, Less, InvoiceRow
<1>3. Earned(Unmatched(row, n), row.total)
  BY DEF Earned, Unmatched, Less, InvoiceRow
<1>4. Earned(Matched(row, n), row.total)
  BY DEF Earned, Matched, Lesser, InvoiceRow
<1>5. Fits(row, row.total) /\ n > 0 => Fits(Applied(row, n), row.total)
  BY DEF Fits, Applied, InvoiceRow
<1>6. Fits(row, row.total) /\ n > 0 => Fits(Refunded(row, n), row.total)
  BY DEF Fits, Refunded, Less, InvoiceRow
<1>7. Fits(row, row.total) /\ n >= 0 => Fits(Unmatched(row, n), row.total)
  BY DEF Fits, Unmatched, Less, InvoiceRow
<1>8. Fits(Matched(row, n), row.total)
  BY DEF Fits, Matched, Lesser, InvoiceRow
<1> QED BY <1>1, <1>2, <1>3, <1>4, <1>5, <1>6, <1>7, <1>8

\* One balance to be written, or none.
LEMMA WriteTypes ==
    /\ NoWrites \in Writes
    /\ \A i \in Invoices, b \in Balance : Write(i, b) \in Writes
BY DEF NoWrites, Writes, Write

LEMMA WritesOne ==
    ASSUME NEW i \in Invoices, NEW b, NEW j \in Invoices
    PROVE  /\ NoWrites[j] = Null
           /\ j # i => Write(i, b)[j] = Null
           /\ Write(i, b)[i] = b
BY DEF NoWrites, Write

\* Writing balances yields a table, and leaves numbers and totals alone.
LEMMA WrittenTable ==
    ASSUME TypeOK, NEW w \in Writes
    PROVE  /\ Written(w) \in [Invoices -> InvoiceRow]
           /\ \A i \in Invoices :
                 /\ Written(w)[i].number = invoices[i].number
                 /\ Written(w)[i].total = invoices[i].total
                 /\ w[i] = Null => Written(w)[i] = invoices[i]
                 /\ w[i] # Null => /\ Written(w)[i].status = w[i].status
                                   /\ Written(w)[i].paid = w[i].paid
                                   /\ w[i].status # "ABSENT"
<1> SUFFICES ASSUME NEW i \in Invoices
             PROVE  /\ Written(w)[i] \in InvoiceRow
                    /\ Written(w)[i].number = invoices[i].number
                    /\ Written(w)[i].total = invoices[i].total
                    /\ w[i] = Null => Written(w)[i] = invoices[i]
                    /\ w[i] # Null => /\ Written(w)[i].status = w[i].status
                                      /\ Written(w)[i].paid = w[i].paid
                                      /\ w[i].status # "ABSENT"
  BY DEF Written
<1>1. invoices[i] \in InvoiceRow /\ w[i] \in Balance \cup {Null}
  BY DEF TypeOK, Writes
<1>2. CASE w[i] = Null
  BY <1>1, <1>2 DEF Written
<1>3. CASE w[i] # Null
  BY <1>1, <1>3 DEF Written, Balance, InvoiceRow, InvoiceStatus
<1> QED BY <1>2, <1>3
-----------------------------------------------------------------------------
LEMMA BeginType ==
    ASSUME TypeOK, NEW h \in Handlers,
           NEW op \in AllOps \cup {"keyed", "direct", "settle", "settling", "matching"},
           NEW i \in Invoices, NEW p \in Payments \cup {Null}, NEW n \in Int,
           NEW w \in Writes, Begin(h, op, i, p, n, w)
    PROVE  TypeOK'
<1> DEFINE r == [op |-> op, invoice |-> i, payment |-> p, amount |-> n, writes |-> w]
<1>1. r \in Request
  BY DEF Request
<1>2. req' = [req EXCEPT ![h] = r] /\ UNCHANGED <<invoices, payments, lastNumber>>
  BY DEF Begin
<1> HIDE DEF r
<1> QED BY <1>1, <1>2 DEF TypeOK

LEMMA FinishType ==
    ASSUME TypeOK, NEW h \in Handlers, req' = [req EXCEPT ![h] = Idle]
    PROVE  req' \in [Handlers -> Request]
BY DEF TypeOK, Request

\* A payment that is inserted is of its type.
LEMMA NewPaymentType ==
    ASSUME TypeOK, NEW p \in Payments, NEW i \in Invoices, NEW n \in Int,
           NEW status \in PaymentStatus, NEW keyed \in BOOLEAN,
           NewPayment(p, i, n, status, keyed)
    PROVE  payments' \in [Payments -> PaymentRow]
BY DEF TypeOK, NewPayment, PaymentRow

\* The requests that the reading steps begin.
LEMMA TypeBegin ==
    ASSUME TypeOK, NEW h \in Handlers, NEW i \in Invoices,
           \/ \E total \in Totals : BeginUpdate(h, i, total)
           \/ BeginIssue(h, i) \/ BeginVoid(h, i) \/ BeginSweep(h, i)
           \/ \E p \in Payments :
                 \/ \E amount \in Amounts :
                       BeginRecord(h, i, p, amount) \/ BeginWebhook(h, p, i, amount)
                 \/ \E keyed \in BOOLEAN : BeginIntent(h, i, p, keyed)
                 \/ BeginMatch(h, p, i)
    PROVE  TypeOK'
<1> USE ConstantsAssumption, WriteTypes
<1>0. invoices[i] \in InvoiceRow
  BY DEF TypeOK
<1>1. CASE \E total \in Totals : BeginUpdate(h, i, total)
  BY <1>1, BeginType DEF BeginUpdate, AllOps
<1>2. CASE BeginIssue(h, i) \/ BeginVoid(h, i) \/ BeginSweep(h, i)
  BY <1>2, BeginType DEF BeginIssue, BeginVoid, BeginSweep, AllOps
<1>3. ASSUME NEW p \in Payments, NEW amount \in Amounts, BeginRecord(h, i, p, amount)
      PROVE  TypeOK'
  <2>1. Applied(invoices[i], amount) \in Balance /\ amount \in Int
    BY <1>0, <1>3, BalanceTypes DEF BeginRecord, Exists
  <2>2. Begin(h, "record", i, p, amount, Write(i, Applied(invoices[i], amount)))
    BY <1>3 DEF BeginRecord
  <2> QED BY <2>1, <2>2, BeginType DEF AllOps
<1>4. ASSUME NEW p \in Payments, NEW amount \in Amounts, BeginWebhook(h, p, i, amount)
      PROVE  TypeOK'
  <2>1. amount \in Int /\ (Exists(i) => Applied(invoices[i], amount) \in Balance)
    BY <1>0, BalanceTypes DEF Exists
  <2>2. payments[p] \in PaymentRow
    BY DEF TypeOK
  <2>3. CASE payments[p].status = "INITIATED"
    <3>1. payments[p].invoice \in Invoices
      BY <2>2, <2>3 DEF PaymentRow, NoPayment
    <3>2. Begin(h, "settle", payments[p].invoice, p, amount, NoWrites)
      BY <1>4, <2>3 DEF BeginWebhook
    <3> QED BY <2>1, <3>1, <3>2, BeginType
  <2>4. CASE payments[p].status # "INITIATED"
    <3>1. Exists(i) /\ Begin(h, "direct", i, p, amount, Write(i, Applied(invoices[i], amount)))
      BY <1>4, <2>4 DEF BeginWebhook
    <3> QED BY <2>1, <3>1, BeginType
  <2> QED BY <2>3, <2>4
<1>5. ASSUME NEW p \in Payments, NEW keyed \in BOOLEAN, BeginIntent(h, i, p, keyed)
      PROVE  TypeOK'
  <2>1. invoices[i].total - invoices[i].paid \in Int
    BY <1>0 DEF InvoiceRow
  <2> DEFINE op == IF keyed THEN "keyed" ELSE "intent"
             n == invoices[i].total - invoices[i].paid
  <2>2. Begin(h, op, i, p, n, NoWrites)
    BY <1>5 DEF BeginIntent
  <2>3. op \in {"keyed", "intent"}
    OBVIOUS
  <2> HIDE DEF op, n
  <2>4. n \in Int
    BY <2>1 DEF n
  <2> QED BY <2>2, <2>3, <2>4, BeginType DEF AllOps
<1>6. ASSUME NEW p \in Payments, BeginMatch(h, p, i)
      PROVE  TypeOK'
  <2> DEFINE row == payments[p]
             n == IF row.status = "SUCCEEDED" THEN row.amount ELSE 0
             w == IF row.invoice = i THEN NoWrites
                  ELSE Write(row.invoice, [status |-> "ISSUED", paid |-> 0])
  <2>1. row.invoice \in Invoices /\ row.amount \in Int
    BY <1>6 DEF TypeOK, PaymentRow, BeginMatch
  <2>2. [status |-> "ISSUED", paid |-> 0] \in Balance
    BY DEF Balance, InvoiceStatus
  <2>3. n \in Int /\ w \in Writes
    BY <2>1, <2>2
  <2>4. Begin(h, "match", i, p, n, w)
    BY <1>6 DEF BeginMatch
  <2> HIDE DEF n, w
  <2> QED BY <2>3, <2>4, BeginType DEF AllOps
<1> QED BY <1>1, <1>2, <1>3, <1>4, <1>5, <1>6

LEMMA TypeBeginRefund ==
    ASSUME TypeOK, NEW h \in Handlers, NEW p \in Payments, BeginRefund(h, p)
    PROVE  TypeOK'
<1> DEFINE row == payments[p]
           b == Refunded(invoices[row.invoice], row.amount)
<1>1. row.invoice \in Invoices /\ row.amount \in Int
  BY DEF TypeOK, PaymentRow, BeginRefund, NoPayment
<1>2. b \in Balance
  BY <1>1, BalanceTypes DEF TypeOK
<1>3. Begin(h, "refund", row.invoice, p, row.amount, Write(row.invoice, b))
  BY DEF BeginRefund
<1> QED BY <1>1, <1>2, <1>3, BeginType, WriteTypes DEF AllOps

\* The two steps that read inside a transaction.
LEMMA TypeRead ==
    ASSUME TypeOK, Known, NEW h \in Handlers, ReadSettled(h) \/ ReadMatched(h)
    PROVE  TypeOK'
<1> DEFINE r == req[h]
<1>1. r \in Active
  BY ActiveRequest DEF ReadSettled, ReadMatched
<1>2. ASSUME NEW op \in {"settling", "matching"}, NEW w \in Writes,
             req' = [req EXCEPT ![h].op = op, ![h].writes = w],
             UNCHANGED <<invoices, payments, lastNumber>>
      PROVE  TypeOK'
  <2>1. [r EXCEPT !.op = op, !.writes = w] \in Request
    BY <1>1 DEF Active, Request
  <2> QED BY <1>2, <2>1 DEF TypeOK
<1>3. CASE ReadSettled(h)
  <2>1. Exists(r.invoice)
    BY <1>3 DEF ReadSettled, Known, KnownBy
  <2>2. Write(r.invoice, Applied(invoices[r.invoice], r.amount)) \in Writes
    BY <1>1, <2>1, BalanceTypes, WriteTypes DEF Active, TypeOK, Exists
  <2> QED BY <1>2, <1>3, <2>2 DEF ReadSettled
<1>4. CASE ReadMatched(h)
  <2> DEFINE received ==
               Succeeded(r.invoice)
                 \cup ({r.payment} \cap {p \in Payments : payments[p].status = "SUCCEEDED"})
             w == [i \in Invoices |->
                     IF i = r.invoice THEN Matched(invoices[i], Sum(received))
                     ELSE IF r.writes[i] = Null THEN Null
                     ELSE Unmatched(invoices[i], r.amount)]
  <2>1. received \in SUBSET {p \in Payments : payments[p] # NoPayment}
    BY DEF Succeeded, NoPayment
  <2>2. Sum(received) \in Int
    BY <2>1, SumType
  <2>3. \A i \in Invoices : /\ Matched(invoices[i], Sum(received)) \in Balance
                            /\ Unmatched(invoices[i], r.amount) \in Balance
    BY <1>1, <2>2, BalanceTypes DEF TypeOK, Active
  <2>4. w \in Writes
    BY <2>3 DEF Writes
  <2>5. /\ req' = [req EXCEPT ![h].op = "matching", ![h].writes = w]
        /\ UNCHANGED <<invoices, payments, lastNumber>>
    BY <1>4 DEF ReadMatched
  <2> HIDE DEF w
  <2> QED BY <1>2, <2>4, <2>5
<1> QED BY <1>3, <1>4

\* The writing steps.
LEMMA TypeCommit ==
    ASSUME TypeOK, Known, NEW h \in Handlers,
           \/ CommitUpdate(h) \/ CommitIssue(h) \/ CommitPayment(h)
           \/ CommitRefund(h) \/ CommitVoid(h) \/ CommitIntent(h)
           \/ CommitSettled(h) \/ CommitMatched(h) \/ CommitSweep(h) \/ Abandon(h)
    PROVE  TypeOK'
<1> DEFINE r == req[h]
<1>0. req' \in [Handlers -> Request]
  BY FinishType DEF CommitUpdate, CommitIssue, CommitPayment, CommitRefund, CommitVoid,
     CommitIntent, CommitSettled, CommitMatched, CommitSweep, Abandon, Finish
<1>1. CASE Abandon(h)
  BY <1>0, <1>1 DEF TypeOK, Abandon
<1> SUFFICES ASSUME ~Abandon(h) PROVE TypeOK'
  BY <1>1
<1>2. r \in Active
  BY ActiveRequest DEF CommitUpdate, CommitIssue, CommitPayment, CommitRefund, CommitVoid,
     CommitIntent, CommitSettled, CommitMatched, CommitSweep, Finish
<1>3. Written(r.writes) \in [Invoices -> InvoiceRow]
  BY <1>2, WrittenTable DEF Active
<1>4. CASE CommitUpdate(h)
  BY <1>0, <1>2, <1>4 DEF CommitUpdate, TypeOK, Active, InvoiceRow
<1>5. CASE CommitIssue(h)
  BY <1>0, <1>2, <1>5 DEF CommitIssue, TypeOK, Active, InvoiceRow, InvoiceStatus
<1>6. CASE CommitVoid(h) \/ CommitSweep(h)
  BY <1>0, <1>2, <1>6 DEF CommitVoid, CommitSweep, TypeOK, Active, InvoiceRow, InvoiceStatus
<1>7. CASE CommitPayment(h)
  <2>1. r.payment \in Payments \/ payments' = payments
    BY <1>2, <1>7 DEF CommitPayment, NewPayment, Active, TypeOK
  <2>2. payments' \in [Payments -> PaymentRow]
    BY <1>2, <1>7, <2>1, NewPaymentType DEF CommitPayment, Active, PaymentStatus, TypeOK
  <2> QED BY <1>0, <1>3, <1>7, <2>2 DEF CommitPayment, TypeOK
<1>8. CASE CommitIntent(h)
  <2>1. r.payment \in Payments \/ payments' = payments
    BY <1>2, <1>8 DEF CommitIntent, NewPayment, Active, TypeOK
  <2>2. payments' \in [Payments -> PaymentRow]
    BY <1>2, <1>8, <2>1, NewPaymentType DEF CommitIntent, Active, PaymentStatus, TypeOK
  <2> QED BY <1>0, <1>8, <2>2 DEF CommitIntent, TypeOK
<1>9. CASE CommitRefund(h) \/ CommitSettled(h) \/ CommitMatched(h)
  <2>1. r.payment \in Payments /\ payments[r.payment] \in PaymentRow \ {NoPayment}
    BY <1>9 DEF Known, KnownBy, PaymentOps, CommitRefund, CommitSettled, CommitMatched, Finish,
                TypeOK
  <2>2. payments' \in [Payments -> PaymentRow]
    <3>1. CASE CommitRefund(h)
      BY <2>1, <3>1 DEF CommitRefund, TypeOK, PaymentRow, PaymentStatus
    <3>2. CASE CommitSettled(h)
      <4>1. r.amount \in Int
        BY <1>2 DEF Active
      <4> QED BY <2>1, <3>2, <4>1 DEF CommitSettled, TypeOK, PaymentRow, PaymentStatus
    <3>3. CASE CommitMatched(h)
      <4>1. r.invoice \in Invoices
        BY <1>2 DEF Active
      <4> QED BY <2>1, <3>3, <4>1 DEF CommitMatched, TypeOK, PaymentRow, PaymentStatus
    <3> QED BY <1>9, <3>1, <3>2, <3>3
  <2> QED BY <1>0, <1>3, <1>9, <2>2 DEF CommitRefund, CommitSettled, CommitMatched, TypeOK
<1> QED BY <1>4, <1>5, <1>6, <1>7, <1>8, <1>9
-----------------------------------------------------------------------------
\* A reading step changes only its handler's request.
LEMMA ReadsFrame ==
    ASSUME NEW h \in Handlers, Reads(h)
    PROVE  UNCHANGED <<invoices, payments, lastNumber>>
<1>1. ASSUME NEW op, NEW i, NEW p, NEW n, NEW w, Begin(h, op, i, p, n, w)
      PROVE  UNCHANGED <<invoices, payments, lastNumber>>
  BY <1>1 DEF Begin
<1>2. ASSUME NEW p \in Payments, NEW i \in Invoices, NEW n \in Amounts,
             BeginWebhook(h, p, i, n)
      PROVE  UNCHANGED <<invoices, payments, lastNumber>>
  BY <1>1, <1>2 DEF BeginWebhook
<1> QED
  BY <1>1, <1>2 DEF Reads, BeginUpdate, BeginIssue, BeginVoid, BeginSweep, BeginRecord,
     BeginIntent, BeginMatch, BeginRefund, ReadSettled, ReadMatched

\* A handler that reads holds what it has read, and no other handler does.
LEMMA ReadsOne ==
    ASSUME TypeOK, NEW h \in Handlers, Reads(h)
    PROVE  \A k \in Handlers \ {h} : req'[k] = req[k]
<1>1. ASSUME NEW op, NEW i, NEW p, NEW n, NEW w, Begin(h, op, i, p, n, w)
      PROVE  \A k \in Handlers \ {h} : req'[k] = req[k]
  BY <1>1 DEF Begin, TypeOK
<1>2. ASSUME NEW p \in Payments, NEW i \in Invoices, NEW n \in Amounts,
             BeginWebhook(h, p, i, n)
      PROVE  \A k \in Handlers \ {h} : req'[k] = req[k]
  BY <1>1, <1>2 DEF BeginWebhook
<1>3. ASSUME ReadSettled(h) \/ ReadMatched(h)
      PROVE  \A k \in Handlers \ {h} : req'[k] = req[k]
  BY <1>3 DEF ReadSettled, ReadMatched, TypeOK
<1> QED
  BY <1>1, <1>2, <1>3 DEF Reads, BeginUpdate, BeginIssue, BeginVoid, BeginSweep, BeginRecord,
     BeginIntent, BeginMatch, BeginRefund

LEMMA TypeStep ==
    ASSUME TypeOK, Known, [Next]_vars
    PROVE  TypeOK'
<1>1. ASSUME NEW i \in Invoices, NEW total \in Totals, CreateInvoice(i, total)
      PROVE  TypeOK'
  BY <1>1, ConstantsAssumption DEF CreateInvoice, TypeOK, InvoiceRow, InvoiceStatus
<1>2. CASE UNCHANGED vars
  BY <1>2 DEF vars, TypeOK
<1> QED BY <1>1, <1>2, TypeBegin, TypeBeginRefund, TypeRead, TypeCommit DEF Next, Reads
-----------------------------------------------------------------------------
\* The commits that write balances write a whole table of them.
LEMMA BalancesWritten ==
    ASSUME TypeOK, NEW h \in Handlers,
           CommitPayment(h) \/ CommitRefund(h) \/ CommitSettled(h) \/ CommitMatched(h)
    PROVE  /\ req[h].writes \in Writes /\ invoices' = Written(req[h].writes)
           /\ lastNumber' = lastNumber
<1>1. req[h].writes \in Writes
  BY ActiveRequest DEF CommitPayment, CommitRefund, CommitSettled, CommitMatched, Finish, Active
<1> QED BY <1>1 DEF CommitPayment, CommitRefund, CommitSettled, CommitMatched

\* The other commits change one row.
LEMMA RowWritten ==
    ASSUME TypeOK, NEW h \in Handlers,
           CommitUpdate(h) \/ CommitIssue(h) \/ CommitVoid(h) \/ CommitSweep(h)
    PROVE  /\ req[h].invoice \in Invoices /\ payments' = payments
           /\ \A i \in Invoices \ {req[h].invoice} : invoices'[i] = invoices[i]
           /\ invoices'[req[h].invoice].paid = invoices[req[h].invoice].paid
           /\ invoices'[req[h].invoice].status \in
                 {invoices[req[h].invoice].status, "ISSUED", "VOID", "OVERDUE"}
<1>1. req[h].invoice \in Invoices
  BY ActiveRequest DEF CommitUpdate, CommitIssue, CommitVoid, CommitSweep, Finish, Active
<1> QED BY <1>1 DEF CommitUpdate, CommitIssue, CommitVoid, CommitSweep, TypeOK, InvoiceRow

\* Every finishing step finishes.
LEMMA CommitsFinish ==
    ASSUME NEW h \in Handlers,
           \/ CommitUpdate(h) \/ CommitIssue(h) \/ CommitVoid(h) \/ CommitSweep(h)
           \/ CommitPayment(h) \/ CommitRefund(h) \/ CommitSettled(h)
           \/ CommitMatched(h) \/ CommitIntent(h) \/ Abandon(h)
    PROVE  req' = [req EXCEPT ![h] = Idle]
BY DEF CommitUpdate, CommitIssue, CommitPayment, CommitRefund, CommitVoid,
       CommitIntent, CommitSettled, CommitMatched, CommitSweep, Abandon, Finish

\* Invoices are never deleted.
LEMMA InvoicesStay ==
    ASSUME TypeOK, [Next]_vars, NEW i \in Invoices, Exists(i)
    PROVE  Exists(i)'
<1>1. CASE invoices' = invoices
  BY <1>1 DEF Exists
<1>2. ASSUME NEW j \in Invoices, NEW total \in Totals, CreateInvoice(j, total)
      PROVE  Exists(i)'
  BY <1>2 DEF CreateInvoice, Exists, TypeOK
<1>3. ASSUME NEW h \in Handlers,
             CommitUpdate(h) \/ CommitIssue(h) \/ CommitVoid(h) \/ CommitSweep(h)
      PROVE  Exists(i)'
  BY <1>3, RowWritten DEF Exists
<1>4. ASSUME NEW h \in Handlers,
             CommitPayment(h) \/ CommitRefund(h) \/ CommitSettled(h) \/ CommitMatched(h)
      PROVE  Exists(i)'
  BY <1>4, BalancesWritten, WrittenTable DEF Exists
<1>5. CASE UNCHANGED vars
  BY <1>1, <1>5 DEF vars
<1> QED BY <1>1, <1>2, <1>3, <1>4, <1>5, ReadsFrame DEF Next, CommitIntent, Abandon

\* Payments are never deleted, and move only to invoices that are there.  Where all
\* are positive, all were.
LEMMA PaymentsStay ==
    ASSUME TypeOK, Known, [Next]_vars, NEW p \in Payments
    PROVE  /\ payments[p] # NoPayment => payments'[p] # NoPayment
           /\ payments[p] # NoPayment /\ payments'[p].positive => payments[p].positive
           /\ payments'[p] # NoPayment => Exists(payments'[p].invoice)
<1>0. payments[p] # NoPayment => payments[p] \in Paid /\ Exists(payments[p].invoice)
  BY DEF TypeOK, PaymentRow, Known, Paid
<1> DEFINE Stays ==
             /\ payments[p] # NoPayment => payments'[p] # NoPayment
             /\ payments[p] # NoPayment /\ payments'[p].positive => payments[p].positive
             /\ payments'[p] # NoPayment => Exists(payments'[p].invoice)
<1>1. CASE payments'[p] = payments[p]
  BY <1>0, <1>1
<1>2. ASSUME NEW h \in Handlers, CommitPayment(h) \/ CommitIntent(h) PROVE Stays
  <2>1. Exists(req[h].invoice)
    BY <1>2 DEF CommitPayment, CommitIntent, Finish, Known, KnownBy
  <2>2. payments'[p] = payments[p]
        \/ /\ payments[p] = NoPayment
           /\ payments'[p] # NoPayment /\ payments'[p].invoice = req[h].invoice
    BY <1>2 DEF CommitPayment, CommitIntent, NewPayment, TypeOK, NoPayment
  <2> QED BY <1>1, <2>1, <2>2
<1>3. ASSUME NEW h \in Handlers, CommitRefund(h) \/ CommitSettled(h) \/ CommitMatched(h)
      PROVE  Stays
  <2>1. /\ req[h].payment \in Payments /\ payments[req[h].payment] # NoPayment
        /\ Exists(req[h].invoice)
    BY <1>3 DEF CommitRefund, CommitSettled, CommitMatched, Finish, Known, KnownBy, PaymentOps
  <2>2. CASE p # req[h].payment
    BY <1>1, <1>3, <2>2 DEF CommitRefund, CommitSettled, CommitMatched, TypeOK
  <2>3. CASE p = req[h].payment
    <3>1. payments[p] \in Paid /\ payments \in [Payments -> PaymentRow]
      BY <1>0, <2>1, <2>3 DEF TypeOK
    <3>2. /\ payments'[p] # NoPayment
          /\ payments'[p].invoice \in {payments[p].invoice, req[h].invoice}
          /\ payments'[p].positive => payments[p].positive
      BY <1>3, <2>3, <3>1 DEF CommitRefund, CommitSettled, CommitMatched, Paid, NoPayment
    <3> QED BY <1>0, <2>1, <2>3, <3>2
  <2> QED BY <2>2, <2>3
<1>4. CASE UNCHANGED vars
  BY <1>1, <1>4 DEF vars
<1>5. (\E h \in Handlers : CommitPayment(h) \/ CommitIntent(h) \/ CommitRefund(h)
                             \/ CommitSettled(h) \/ CommitMatched(h))
      \/ UNCHANGED payments
  BY ReadsFrame DEF Next, vars, CreateInvoice, CommitUpdate, CommitIssue, CommitVoid,
                    CommitSweep, Abandon
<1> QED BY <1>1, <1>2, <1>3, <1>4, <1>5

LEMMA PositiveBefore ==
    ASSUME TypeOK, Known, [Next]_vars, AllPositive'
    PROVE  AllPositive
<1> SUFFICES ASSUME NEW p \in Payments, payments[p] # NoPayment
             PROVE  payments[p].positive
  BY DEF AllPositive
<1>1. payments'[p] # NoPayment => payments'[p].positive
  BY DEF AllPositive
<1> QED BY <1>1, PaymentsStay

\* What a request knows stays known.
LEMMA KnownKept ==
    ASSUME TypeOK, Known, [Next]_vars, NEW k \in Handlers, req'[k] = req[k]
    PROVE  KnownBy(req[k])'
<1>1. KnownBy(req[k])
  BY DEF Known
<1>2. req[k].op # "idle" => req[k].invoice \in Invoices
  BY ActiveRequest DEF Active
<1>3. req[k].op # "idle" => Exists(req[k].invoice)'
  BY <1>1, <1>2, InvoicesStay DEF KnownBy, Exists
<1> QED BY <1>1, <1>3, PaymentsStay DEF KnownBy

LEMMA BeginKnown ==
    ASSUME TypeOK, Known, [Next]_vars, NEW h \in Handlers, NEW op, NEW i \in Invoices,
           NEW p, NEW n, NEW w, Begin(h, op, i, p, n, w), Exists(i),
           op \in PaymentOps => p \in Payments /\ payments[p] # NoPayment
    PROVE  \A k \in Handlers : KnownBy(req[k])'
<1> SUFFICES ASSUME NEW k \in Handlers PROVE KnownBy(req[k])'
  OBVIOUS
<1>1. CASE k = h
  <2>1. /\ req'[k].op = op /\ req'[k].invoice = i /\ req'[k].payment = p
        /\ UNCHANGED <<invoices, payments>>
    BY <1>1 DEF Begin, TypeOK
  <2> QED BY <2>1 DEF KnownBy, Exists
<1>2. CASE k # h
  <2>1. req'[k] = req[k]
    BY <1>2 DEF Begin, TypeOK
  <2> QED BY <2>1, KnownKept
<1> QED BY <1>1, <1>2

LEMMA ReadsKnown ==
    ASSUME TypeOK, Known, NEW h \in Handlers, Reads(h)
    PROVE  \A k \in Handlers : KnownBy(req[k])'
<1>0. [Next]_vars
  BY DEF Next
<1>1. ASSUME NEW i \in Invoices,
             \/ \E total \in Totals : BeginUpdate(h, i, total)
             \/ BeginIssue(h, i) \/ BeginVoid(h, i) \/ BeginSweep(h, i)
             \/ \E p \in Payments : \E n \in Amounts : BeginRecord(h, i, p, n)
      PROVE  \A k \in Handlers : KnownBy(req[k])'
  <2>1. \E op \in AllOps \ PaymentOps : \E p, n, w : Begin(h, op, i, p, n, w)
    BY <1>1 DEF BeginUpdate, BeginIssue, BeginVoid, BeginSweep, BeginRecord, AllOps, PaymentOps
  <2>2. Exists(i)
    BY <1>1 DEF BeginUpdate, BeginIssue, BeginVoid, BeginSweep, BeginRecord, Exists, IsDraft
  <2> QED BY <1>0, <2>1, <2>2, BeginKnown
<1>2. ASSUME NEW i \in Invoices, NEW p \in Payments, NEW keyed \in BOOLEAN,
             BeginIntent(h, i, p, keyed)
      PROVE  \A k \in Handlers : KnownBy(req[k])'
  <2>1. \E op \in {"intent", "keyed"} : \E n, w : Begin(h, op, i, p, n, w)
    BY <1>2 DEF BeginIntent
  <2>2. Exists(i)
    BY <1>2 DEF BeginIntent, Exists
  <2> QED BY <1>0, <2>1, <2>2, BeginKnown DEF PaymentOps
<1>3. ASSUME NEW i \in Invoices, NEW p \in Payments, BeginMatch(h, p, i)
      PROVE  \A k \in Handlers : KnownBy(req[k])'
  <2>1. \E n, w : Begin(h, "match", i, p, n, w)
    BY <1>3 DEF BeginMatch
  <2>2. Exists(i) /\ payments[p] # NoPayment
    BY <1>3 DEF BeginMatch
  <2> QED BY <1>0, <2>1, <2>2, BeginKnown
<1>4. ASSUME NEW i \in Invoices, NEW p \in Payments, NEW n \in Amounts, BeginWebhook(h, p, i, n)
      PROVE  \A k \in Handlers : KnownBy(req[k])'
  <2>1. CASE payments[p].status = "INITIATED"
    <3>1. Begin(h, "settle", payments[p].invoice, p, n, NoWrites)
      BY <1>4, <2>1 DEF BeginWebhook
    <3>2. payments[p] # NoPayment
      BY <2>1 DEF NoPayment
    <3>3. payments[p].invoice \in Invoices /\ Exists(payments[p].invoice)
      BY <3>2 DEF TypeOK, PaymentRow, Known
    <3> QED BY <1>0, <3>1, <3>2, <3>3, BeginKnown
  <2>2. CASE payments[p].status # "INITIATED"
    <3>1. Exists(i) /\ \E w : Begin(h, "direct", i, p, n, w)
      BY <1>4, <2>2 DEF BeginWebhook
    <3> QED BY <1>0, <3>1, BeginKnown DEF PaymentOps
  <2> QED BY <2>1, <2>2
<1>5. ASSUME NEW p \in Payments, BeginRefund(h, p)
      PROVE  \A k \in Handlers : KnownBy(req[k])'
  <2>1. \E n, w : Begin(h, "refund", payments[p].invoice, p, n, w)
    BY <1>5 DEF BeginRefund
  <2>2. payments[p] # NoPayment
    BY <1>5 DEF BeginRefund, NoPayment
  <2>3. payments[p].invoice \in Invoices /\ Exists(payments[p].invoice)
    BY <2>2 DEF TypeOK, PaymentRow, Known
  <2> QED BY <1>0, <2>1, <2>2, <2>3, BeginKnown
<1>6. ASSUME ReadSettled(h) \/ ReadMatched(h), NEW k \in Handlers
      PROVE  KnownBy(req[k])'
  <2>1. req[h] \in Active /\ req[h].op \in PaymentOps /\ KnownBy(req[h])
    BY <1>6, ActiveRequest DEF ReadSettled, ReadMatched, PaymentOps, Known
  <2>2. /\ req'[h].payment = req[h].payment /\ req'[h].invoice = req[h].invoice
        /\ UNCHANGED <<invoices, payments>>
    BY <1>6, <2>1 DEF ReadSettled, ReadMatched, TypeOK, Active
  <2>3. k # h => req'[k] = req[k]
    BY <1>6 DEF ReadSettled, ReadMatched, TypeOK
  <2>4. CASE k = h
    BY <2>1, <2>2, <2>4 DEF KnownBy, PaymentOps, Exists
  <2> QED BY <1>0, <2>3, <2>4, KnownKept
<1> QED BY <1>1, <1>2, <1>3, <1>4, <1>5, <1>6 DEF Reads

LEMMA KnownStep ==
    ASSUME TypeOK, TypeOK', Known, [Next]_vars
    PROVE  Known'
<1>1. ASSUME NEW p \in Payments, payments'[p] # NoPayment
      PROVE  Exists(payments[p].invoice)'
  <2>1. payments'[p].invoice \in Invoices
    BY <1>1 DEF TypeOK, PaymentRow
  <2> QED BY <1>1, <2>1, PaymentsStay, InvoicesStay DEF Exists
<1>2. ASSUME NEW k \in Handlers
      PROVE  KnownBy(req[k])'
  <2>1. ASSUME NEW h \in Handlers, req' = [req EXCEPT ![h] = Idle]
        PROVE  KnownBy(req[k])'
    <3>1. CASE k = h
      BY <2>1, <3>1 DEF TypeOK, Idle, KnownBy, PaymentOps
    <3>2. CASE k # h
      BY <2>1, <3>2, KnownKept DEF TypeOK
    <3> QED BY <3>1, <3>2
  <2>2. CASE req' = req
    BY <2>2, KnownKept
  <2> QED BY <2>1, <2>2, CommitsFinish, ReadsKnown DEF Next, CreateInvoice, vars
<1> QED BY <1>1, <1>2 DEF Known

-----------------------------------------------------------------------------
\* The commits that neither number an invoice nor take one away.
LEMMA NumbersUntouched ==
    ASSUME TypeOK, NEW h \in Handlers,
           \/ CommitUpdate(h) \/ CommitVoid(h) \/ CommitSweep(h) \/ CommitPayment(h)
           \/ CommitRefund(h) \/ CommitSettled(h) \/ CommitMatched(h)
    PROVE  /\ lastNumber' = lastNumber
           /\ \A i \in Invoices : /\ invoices'[i].number = invoices[i].number
                                  /\ Exists(i) => Exists(i)'
                                  /\ ~CommitUpdate(h) => invoices'[i].total = invoices[i].total
<1>1. CASE CommitUpdate(h) \/ CommitVoid(h) \/ CommitSweep(h)
  <2>1. req[h].invoice \in Invoices
    BY <1>1, ActiveRequest DEF CommitUpdate, CommitVoid, CommitSweep, Finish, Active
  <2> QED BY <1>1, <2>1
          DEF CommitUpdate, CommitVoid, CommitSweep, TypeOK, InvoiceRow, Exists
<1>2. CASE CommitPayment(h) \/ CommitRefund(h) \/ CommitSettled(h) \/ CommitMatched(h)
  BY <1>2, BalancesWritten, WrittenTable DEF Exists
<1> QED BY <1>1, <1>2

\* A step that touches no number keeps the numbering.
LEMMA NumbersKept ==
    ASSUME NumbersUnique, lastNumber' = lastNumber,
           \A i \in Invoices : invoices'[i].number = invoices[i].number
    PROVE  NumbersUnique'
BY DEF NumbersUnique

LEMMA NumberStep ==
    ASSUME NumberInv, [Next]_vars
    PROVE  NumbersUnique'
<1> USE DEF NumberInv
<1>1. ASSUME NEW i \in Invoices, NEW total \in Totals, CreateInvoice(i, total)
      PROVE  NumbersUnique'
  BY <1>1 DEF CreateInvoice, TypeOK, NumbersUnique
<1>2. CASE invoices' = invoices /\ lastNumber' = lastNumber
  BY <1>2, NumbersKept
<1>3. ASSUME NEW h \in Handlers, CommitIssue(h)
      PROVE  NumbersUnique'
  <2> DEFINE i == req[h].invoice
  <2>1. i \in Invoices
    BY <1>3, ActiveRequest DEF CommitIssue, Finish, Active
  <2>2. /\ invoices'[i].number = lastNumber + 1
        /\ \A j \in Invoices \ {i} : invoices'[j] = invoices[j]
        /\ lastNumber' = lastNumber + 1
    BY <1>3, <2>1 DEF CommitIssue, TypeOK, InvoiceRow
  <2>3. \A j \in Invoices : invoices[j].number \in Nat
    BY DEF TypeOK, InvoiceRow
  <2>4. lastNumber \in Nat
    BY DEF TypeOK
  <2> QED BY <2>2, <2>3, <2>4 DEF NumbersUnique
<1>4. CASE UNCHANGED vars
  BY <1>2, <1>4 DEF vars
<1> QED BY <1>1, <1>2, <1>3, <1>4, NumbersUntouched, NumbersKept, ReadsFrame
        DEF Next, CommitIntent, Abandon

LEMMA InitNumbers == Init => NumberInv
BY DEF Init, NumberInv, TypeOK, Known, KnownBy, NumbersUnique, InvoiceRow, PaymentRow,
   Request, Idle, PaymentOps

LEMMA NumbersInductive == Spec => []NumberInv
<1>1. NumberInv /\ [Next]_vars => NumberInv'
  BY TypeStep, KnownStep, NumberStep DEF NumberInv
<1> QED BY <1>1, InitNumbers, PTL DEF Spec

\* Every variable keeps its type.
THEOREM TypeCorrect == Spec => []TypeOK
<1>1. NumberInv => TypeOK
  BY DEF NumberInv
<1> QED BY <1>1, NumbersInductive, PTL

\* Numbers are distinct and never ahead of the counter, however issues overlap.
THEOREM NumbersAreUnique == Spec => []NumbersUnique
<1>1. NumberInv => NumbersUnique
  BY DEF NumberInv
<1> QED BY <1>1, NumbersInductive, PTL

-----------------------------------------------------------------------------
\* Without edits, invoices keep their totals.
LEMMA TotalsKept ==
    ASSUME PaidInv, [Next]_vars, NEW i \in Invoices, Exists(i)
    PROVE  Exists(i)' /\ invoices'[i].total = invoices[i].total
<1> USE DEF PaidInv
<1>0. invoices[i] \in InvoiceRow
  BY DEF TypeOK
<1>1. CASE invoices' = invoices
  BY <1>1 DEF Exists
<1>2. ASSUME NEW j \in Invoices, NEW total \in Totals, CreateInvoice(j, total)
      PROVE  Exists(i)' /\ invoices'[i].total = invoices[i].total
  BY <1>2 DEF CreateInvoice, Exists, TypeOK
<1>3. ASSUME NEW h \in Handlers, CommitIssue(h) \/ CommitVoid(h) \/ CommitSweep(h)
      PROVE  Exists(i)' /\ invoices'[i].total = invoices[i].total
  BY <1>0, <1>3 DEF CommitIssue, CommitVoid, CommitSweep, Exists, TypeOK, InvoiceRow
<1>4. ASSUME NEW h \in Handlers, CommitUpdate(h)
      PROVE  FALSE
  BY <1>4 DEF CommitUpdate, Finish, Fitting, RequestFits, Idle
<1>5. ASSUME NEW h \in Handlers,
             CommitPayment(h) \/ CommitRefund(h) \/ CommitSettled(h) \/ CommitMatched(h)
      PROVE  Exists(i)' /\ invoices'[i].total = invoices[i].total
  BY <1>5, BalancesWritten, WrittenTable DEF Exists
<1>6. CASE UNCHANGED vars
  BY <1>1, <1>6 DEF vars
<1> QED BY <1>1, <1>2, <1>3, <1>4, <1>5, <1>6, ReadsFrame DEF Next, CommitIntent, Abandon

\* A request that is not replaced still fits.
LEMMA RequestKept ==
    ASSUME PaidInv, [Next]_vars, NEW h \in Handlers, req'[h] = req[h]
    PROVE  RequestFits(req[h])'
<1>1. RequestFits(req[h])
  BY DEF PaidInv, Fitting
<1>2. AllPositive' => AllPositive
  BY PositiveBefore DEF PaidInv
<1> QED BY <1>1, <1>2, TotalsKept DEF RequestFits, WritesFit

\* A request is begun with balances that fit.
LEMMA BeginFits ==
    ASSUME PaidInv, [Next]_vars, NEW h \in Handlers, NEW op, NEW i \in Invoices,
           NEW p, NEW n, NEW w, Begin(h, op, i, p, n, w),
           op # "update", op \in PayOps => p \in Payments, WritesFit(op, n, w)
    PROVE  \A k \in Handlers : RequestFits(req[k])'
<1> SUFFICES ASSUME NEW k \in Handlers PROVE RequestFits(req[k])'
  OBVIOUS
<1>1. CASE k = h
  <2>1. req'[k] = [op |-> op, invoice |-> i, payment |-> p, amount |-> n, writes |-> w]
    BY <1>1 DEF Begin, PaidInv, TypeOK
  <2>2. invoices' = invoices /\ payments' = payments
    BY DEF Begin
  <2> QED BY <2>1, <2>2 DEF RequestFits, WritesFit, Exists, AllPositive
<1>2. CASE k # h
  <2>1. req'[k] = req[k]
    BY <1>2 DEF Begin, PaidInv, TypeOK
  <2> QED BY <2>1, RequestKept
<1> QED BY <1>1, <1>2

LEMMA BeginFitsOne ==
    ASSUME PaidInv, [Next]_vars, NEW h \in Handlers, NEW op, NEW i \in Invoices,
           NEW p \in Payments, NEW n, NEW b, Begin(h, op, i, p, n, Write(i, b)),
           op # "update", op # "match", Exists(i), Earned(b, invoices[i].total),
           AllPositive /\ (op \in PayOps => n > 0) => Fits(b, invoices[i].total)
    PROVE  \A k \in Handlers : RequestFits(req[k])'
<1> DEFINE w == Write(i, b)
<1>1. WritesFit(op, n, w)
  BY WritesOne DEF WritesFit
<1>2. Begin(h, op, i, p, n, w)
  OBVIOUS
<1> HIDE DEF w
<1> QED BY <1>1, <1>2, BeginFits

LEMMA BeginFitsNone ==
    ASSUME PaidInv, [Next]_vars, NEW h \in Handlers, NEW op, NEW i \in Invoices,
           NEW p, NEW n, Begin(h, op, i, p, n, NoWrites),
           op # "update", op # "match", op \notin PayOps
    PROVE  \A k \in Handlers : RequestFits(req[k])'
<1>1. WritesFit(op, n, NoWrites)
  BY DEF WritesFit, NoWrites
<1> QED BY <1>1, BeginFits

\* Every reading step begins or completes a request that fits.
LEMMA ReadsFit ==
    ASSUME "update" \notin Ops, PaidInv, NEW h \in Handlers, Reads(h)
    PROVE  \A k \in Handlers : RequestFits(req[k])'
<1>0. [Next]_vars /\ TypeOK /\ Fitting
  BY DEF Next, PaidInv
<1>1. \A i \in Invoices : /\ invoices[i] \in InvoiceRow
                          /\ AllPositive => Fits(invoices[i], invoices[i].total)
  BY <1>0 DEF TypeOK, Fitting
<1>2. ASSUME NEW i \in Invoices,
             \/ BeginIssue(h, i) \/ BeginVoid(h, i) \/ BeginSweep(h, i)
             \/ \E p \in Payments, keyed \in BOOLEAN : BeginIntent(h, i, p, keyed)
      PROVE  \A k \in Handlers : RequestFits(req[k])'
  <2>1. \E op \in {"issue", "void", "sweep", "intent", "keyed"} :
           \E p, n : Begin(h, op, i, p, n, NoWrites)
    BY <1>2 DEF BeginIssue, BeginVoid, BeginSweep, BeginIntent
  <2> QED BY <1>0, <2>1, BeginFitsNone DEF PayOps
<1>3. ASSUME NEW i \in Invoices, NEW p \in Payments, NEW n \in Amounts,
             NEW op \in {"record", "direct"},
             Begin(h, op, i, p, n, Write(i, Applied(invoices[i], n))), Exists(i)
      PROVE  \A k \in Handlers : RequestFits(req[k])'
  <2> DEFINE b == Applied(invoices[i], n)
  <2>1. n \in Int
    BY ConstantsAssumption
  <2>2. Earned(b, invoices[i].total)
    BY <1>1, <2>1, BalancesFit
  <2>3. AllPositive /\ n > 0 => Fits(b, invoices[i].total)
    BY <1>1, <2>1, BalancesFit
  <2>4. op \in PayOps /\ op # "update" /\ op # "match"
    BY DEF PayOps
  <2>5. Begin(h, op, i, p, n, Write(i, b)) /\ Exists(i)
    BY <1>3
  <2> HIDE DEF b
  <2> QED BY <1>0, <2>2, <2>3, <2>4, <2>5, BeginFitsOne
<1>4. ASSUME NEW i \in Invoices, NEW p \in Payments, NEW n \in Amounts,
             BeginRecord(h, i, p, n) \/ BeginWebhook(h, p, i, n)
      PROVE  \A k \in Handlers : RequestFits(req[k])'
  <2>1. CASE BeginRecord(h, i, p, n)
    BY <1>3, <2>1 DEF BeginRecord
  <2>2. CASE BeginWebhook(h, p, i, n) /\ payments[p].status = "INITIATED"
    <3>1. payments[p].invoice \in Invoices
      BY <1>0, <2>2 DEF TypeOK, PaymentRow, NoPayment
    <3>2. Begin(h, "settle", payments[p].invoice, p, n, NoWrites)
      BY <2>2 DEF BeginWebhook
    <3> QED BY <1>0, <3>1, <3>2, BeginFitsNone DEF PayOps
  <2>3. CASE BeginWebhook(h, p, i, n) /\ payments[p].status # "INITIATED"
    BY <1>3, <2>3 DEF BeginWebhook
  <2> QED BY <1>4, <2>1, <2>2, <2>3
<1>6. ASSUME NEW i \in Invoices, NEW p \in Payments, BeginMatch(h, p, i)
      PROVE  \A k \in Handlers : RequestFits(req[k])'
  <2> DEFINE row == payments[p]
             b == [status |-> "ISSUED", paid |-> 0]
             n == IF row.status = "SUCCEEDED" THEN row.amount ELSE 0
             w == IF row.invoice = i THEN NoWrites ELSE Write(row.invoice, b)
  <2>1. row # NoPayment /\ row.invoice \in Invoices /\ Exists(row.invoice)
    BY <1>0, <1>6 DEF TypeOK, PaymentRow, BeginMatch, PaidInv, Known
  <2>2. Fits(b, invoices[row.invoice].total) /\ Earned(b, invoices[row.invoice].total)
    BY <1>1, <2>1 DEF Fits, Earned, InvoiceRow
  <2>3. Begin(h, "match", i, p, n, w)
    BY <1>6 DEF BeginMatch
  <2>4. AllPositive => n >= 0
    <3>1. row.amount \in Int /\ PaymentFits(row)
      BY <1>0, <2>1 DEF TypeOK, PaymentRow, Fitting
    <3> QED BY <2>1, <3>1 DEF AllPositive, PaymentFits
  <2>5. WritesFit("match", n, w)
    <3> HIDE DEF b, n
    <3> QED BY <2>1, <2>2, <2>4, WritesOne DEF WritesFit
  <2> HIDE DEF n, w
  <2> QED BY <1>0, <2>3, <2>5, BeginFits DEF PayOps
<1>7. ASSUME NEW p \in Payments, BeginRefund(h, p)
      PROVE  \A k \in Handlers : RequestFits(req[k])'
  <2> DEFINE i == payments[p].invoice
             n == payments[p].amount
             b == Refunded(invoices[i], n)
  <2>1. payments[p] # NoPayment
    BY <1>7 DEF BeginRefund, NoPayment
  <2>2. i \in Invoices /\ Exists(i) /\ n \in Int
    BY <1>0, <2>1 DEF TypeOK, PaymentRow, PaidInv, Known
  <2>3. AllPositive => n > 0
    BY <1>0, <2>1 DEF AllPositive, Fitting, PaymentFits
  <2>4. Earned(b, invoices[i].total) /\ (AllPositive => Fits(b, invoices[i].total))
    BY <1>1, <2>2, <2>3, BalancesFit
  <2>5. Begin(h, "refund", i, p, n, Write(i, b))
    BY <1>7 DEF BeginRefund
  <2> HIDE DEF b
  <2> QED BY <1>0, <2>2, <2>4, <2>5, BeginFitsOne
<1>8. ASSUME ReadSettled(h) \/ ReadMatched(h)
      PROVE  \A k \in Handlers : RequestFits(req[k])'
  <2> DEFINE r == req[h]
  <2>1. r \in Active /\ RequestFits(r) /\ r # Idle /\ Exists(r.invoice)
        /\ r.payment \in Payments
    BY <1>0, <1>8, ActiveRequest
       DEF ReadSettled, ReadMatched, Fitting, Idle, PaidInv, Known, KnownBy, PaymentOps
  <2>2. ASSUME NEW op \in {"settling", "matching"}, NEW w,
               req' = [req EXCEPT ![h].op = op, ![h].writes = w], WritesFit(op, r.amount, w)
        PROVE  \A k \in Handlers : RequestFits(req[k])'
    <3>1. \A k \in Handlers \ {h} : req'[k] = req[k]
      BY <1>0, <2>2 DEF TypeOK
    <3>2. /\ req'[h].op = op /\ req'[h].amount = r.amount /\ req'[h].writes = w
          /\ req'[h].payment \in Payments
      BY <1>0, <2>1, <2>2 DEF TypeOK, Active
    <3>3. invoices' = invoices /\ payments' = payments
      BY <1>0, ReadsFrame
    <3>4. RequestFits(req[h])'
      BY <2>2, <3>2, <3>3 DEF RequestFits, WritesFit, Exists, AllPositive
    <3> QED BY <1>0, <3>1, <3>4, RequestKept
  <2>3. CASE ReadSettled(h)
    <3> DEFINE b == Applied(invoices[r.invoice], r.amount)
    <3>1. r.invoice \in Invoices /\ r.amount \in Int
      BY <2>1 DEF Active
    <3>2. /\ Earned(b, invoices[r.invoice].total)
          /\ AllPositive /\ r.amount > 0 => Fits(b, invoices[r.invoice].total)
      BY <1>1, <3>1, BalancesFit
    <3>3. req' = [req EXCEPT ![h].op = "settling", ![h].writes = Write(r.invoice, b)]
      BY <2>3 DEF ReadSettled
    <3> HIDE DEF b
    <3>4. WritesFit("settling", r.amount, Write(r.invoice, b))
      BY <2>1, <3>1, <3>2, WritesOne DEF WritesFit, PayOps
    <3> QED BY <2>2, <3>3, <3>4
  <2>4. CASE ReadMatched(h)
    <3> DEFINE received ==
                 Succeeded(r.invoice)
                   \cup ({r.payment} \cap {p \in Payments : payments[p].status = "SUCCEEDED"})
               w == [i \in Invoices |->
                       IF i = r.invoice THEN Matched(invoices[i], Sum(received))
                       ELSE IF r.writes[i] = Null THEN Null
                       ELSE Unmatched(invoices[i], r.amount)]
    <3>1. Sum(received) \in Int /\ r.amount \in Int
      <4>1. received \in SUBSET {p \in Payments : payments[p] # NoPayment}
        BY DEF Succeeded, NoPayment
      <4> QED BY <1>0, <2>1, <4>1, SumType DEF Active
    <3>2. AllPositive => r.amount >= 0
      BY <2>1, <2>4 DEF ReadMatched, RequestFits, WritesFit
    <3>3. \A i \in Invoices :
             /\ Earned(Matched(invoices[i], Sum(received)), invoices[i].total)
             /\ Earned(Unmatched(invoices[i], r.amount), invoices[i].total)
             /\ AllPositive => /\ Fits(Matched(invoices[i], Sum(received)), invoices[i].total)
                               /\ Fits(Unmatched(invoices[i], r.amount), invoices[i].total)
      BY <1>1, <3>1, <3>2, BalancesFit
    <3>4. \A i \in Invoices : r.writes[i] # Null => Exists(i)
      BY <2>1 DEF RequestFits, WritesFit
    <3>5. WritesFit("matching", r.amount, w)
      <4> HIDE DEF received
      <4> QED BY <2>1, <3>3, <3>4 DEF WritesFit
    <3>6. req' = [req EXCEPT ![h].op = "matching", ![h].writes = w]
      BY <2>4 DEF ReadMatched
    <3> HIDE DEF w
    <3> QED BY <2>2, <3>5, <3>6
  <2> QED BY <1>8, <2>3, <2>4
<1>9. ~\E i \in Invoices, total \in Totals : BeginUpdate(h, i, total)
  BY DEF BeginUpdate
<1> QED BY <1>2, <1>4, <1>6, <1>7, <1>8, <1>9 DEF Reads

\* Where every amount is still positive after a commit, the commit's was.
LEMMA PaysPositive ==
    ASSUME PaidInv, NEW h \in Handlers, AllPositive',
           CommitPayment(h) \/ CommitRefund(h) \/ CommitSettled(h) \/ CommitMatched(h)
    PROVE  req[h].op \in PayOps => req[h].amount > 0
<1> USE DEF PaidInv
<1> DEFINE p == req[h].payment
<1>1. CASE CommitPayment(h)
  <2>0. p \in Payments
    BY <1>1 DEF CommitPayment, Finish, Fitting, RequestFits, PayOps, Idle
  <2>1. payments' = [payments EXCEPT ![p] =
           [status |-> "SUCCEEDED", invoice |-> req[h].invoice, amount |-> req[h].amount,
            keyed |-> FALSE, moved |-> FALSE, positive |-> req[h].amount > 0]]
    BY <1>1 DEF CommitPayment, NewPayment
  <2>2. payments'[p].status = "SUCCEEDED" /\ payments'[p].positive = (req[h].amount > 0)
    BY <2>0, <2>1 DEF TypeOK
  <2>3. payments'[p] # NoPayment
    BY <2>2 DEF NoPayment
  <2> QED BY <2>0, <2>2, <2>3 DEF AllPositive
<1>3. CASE CommitSettled(h)
  <2>1. p \in Payments /\ payments[p] \in Paid
    BY <1>3 DEF CommitSettled, Finish, Known, KnownBy, PaymentOps, TypeOK, PaymentRow, Paid
  <2>2. payments'[p].status = "SUCCEEDED"
        /\ payments'[p].positive = (payments[p].positive /\ req[h].amount > 0)
    BY <1>3, <2>1 DEF CommitSettled, TypeOK, Paid
  <2>3. payments'[p] # NoPayment
    BY <2>2 DEF NoPayment
  <2> QED BY <2>1, <2>2, <2>3 DEF AllPositive
<1>4. CASE CommitRefund(h) \/ CommitMatched(h)
  BY <1>4 DEF CommitRefund, CommitMatched, Finish, PayOps
<1> QED BY <1>1, <1>3, <1>4

\* A row is fair: earned if paid, and fitting where amounts are positive.
Fair(row) == Earned(row, row.total) /\ (AllPositive => Fits(row, row.total))

\* The rows of the two tables keep fitting.
LEMMA InvoicesFit ==
    ASSUME PaidInv, [Next]_vars, NEW i \in Invoices
    PROVE  Fair(invoices[i])'
<1> USE DEF PaidInv
<1>0. Fair(invoices[i]) /\ invoices[i] \in InvoiceRow /\ (AllPositive' => AllPositive)
  BY PositiveBefore DEF TypeOK, Fitting, Fair
<1>1. CASE invoices'[i] = invoices[i]
  BY <1>0, <1>1 DEF Fair
<1>2. ASSUME NEW j \in Invoices, NEW total \in Totals, CreateInvoice(j, total)
      PROVE  Fair(invoices[i])'
  <2>1. CASE i = j
    BY <1>2, <2>1, ConstantsAssumption DEF CreateInvoice, Fair, Earned, Fits, TypeOK
  <2>2. CASE i # j
    BY <1>1, <1>2, <2>2 DEF CreateInvoice, TypeOK
  <2> QED BY <2>1, <2>2
<1>3. ASSUME NEW h \in Handlers, CommitIssue(h) \/ CommitVoid(h) \/ CommitSweep(h)
      PROVE  Fair(invoices[i])'
  BY <1>0, <1>3 DEF CommitIssue, CommitVoid, CommitSweep, Fair, Earned, Fits, TypeOK, InvoiceRow
<1>4. ASSUME NEW h \in Handlers, CommitUpdate(h)
      PROVE  FALSE
  BY <1>4 DEF CommitUpdate, Finish, Fitting, RequestFits, Idle
<1>5. ASSUME NEW h \in Handlers,
             CommitPayment(h) \/ CommitRefund(h) \/ CommitSettled(h) \/ CommitMatched(h)
      PROVE  Fair(invoices[i])'
  <2> DEFINE r == req[h]
  <2>1. r.writes \in Writes /\ invoices' = Written(r.writes)
    BY <1>5, BalancesWritten
  <2>2. CASE r.writes[i] = Null
    BY <1>1, <2>1, <2>2, WrittenTable
  <2>3. CASE r.writes[i] # Null
    <3>0. r.op # "idle"
      BY <1>5 DEF CommitPayment, CommitRefund, CommitSettled, CommitMatched, Finish
    <3>1. r # Idle /\ RequestFits(r)
      BY <3>0 DEF Idle, Fitting
    <3>2. /\ Earned(r.writes[i], invoices[i].total)
          /\ AllPositive' => Fits(r.writes[i], invoices[i].total)
      BY <1>0, <1>5, <2>3, <3>1, PaysPositive DEF RequestFits, WritesFit
    <3>3. /\ invoices'[i].status = r.writes[i].status /\ invoices'[i].paid = r.writes[i].paid
          /\ invoices'[i].total = invoices[i].total
      BY <2>1, <2>3, WrittenTable
    <3> QED BY <3>2, <3>3 DEF Fair, Earned, Fits
  <2> QED BY <2>2, <2>3
<1>6. CASE UNCHANGED vars
  BY <1>1, <1>6 DEF vars
<1> QED BY <1>1, <1>2, <1>3, <1>4, <1>5, <1>6, ReadsFrame DEF Next, CommitIntent, Abandon

LEMMA PaymentsFit ==
    ASSUME PaidInv, [Next]_vars, NEW p \in Payments
    PROVE  PaymentFits(payments[p])'
<1> USE DEF PaidInv
<1>0. PaymentFits(payments[p])
  BY DEF Fitting
<1>1. CASE payments'[p] = payments[p]
  BY <1>0, <1>1 DEF PaymentFits
<1>2. ASSUME NEW h \in Handlers, CommitPayment(h) \/ CommitIntent(h)
      PROVE  PaymentFits(payments[p])'
  <2>1. payments'[p] = payments[p]
        \/ /\ payments'[p].amount = req[h].amount
           /\ payments'[p].positive = (req[h].amount > 0)
    BY <1>2 DEF CommitPayment, CommitIntent, NewPayment, TypeOK
  <2> QED BY <1>1, <2>1 DEF PaymentFits
<1>3. ASSUME NEW h \in Handlers, CommitRefund(h) \/ CommitSettled(h) \/ CommitMatched(h)
      PROVE  PaymentFits(payments[p])'
  <2>1. CASE p # req[h].payment
    BY <1>1, <1>3, <2>1 DEF CommitRefund, CommitSettled, CommitMatched, TypeOK
  <2>2. CASE p = req[h].payment
    <3>1. payments[p] # NoPayment
      BY <1>3, <2>2 DEF CommitRefund, CommitSettled, CommitMatched, Finish, Known, KnownBy,
                        PaymentOps
    <3>2. payments[p] \in Paid /\ payments \in [Payments -> PaymentRow]
      BY <3>1 DEF TypeOK, PaymentRow, Paid
    <3>3. CASE CommitSettled(h)
      BY <2>2, <3>2, <3>3 DEF CommitSettled, PaymentFits, Paid
    <3>4. CASE CommitRefund(h) \/ CommitMatched(h)
      BY <1>0, <2>2, <3>1, <3>2, <3>4 DEF CommitRefund, CommitMatched, PaymentFits, Paid
    <3> QED BY <1>3, <3>3, <3>4
  <2> QED BY <2>1, <2>2
<1>4. CASE UNCHANGED vars
  BY <1>1, <1>4 DEF vars
<1> QED BY <1>1, <1>2, <1>3, <1>4, ReadsFrame
        DEF Next, CreateInvoice, CommitUpdate, CommitIssue, CommitVoid, CommitSweep, Abandon

LEMMA FitStep ==
    ASSUME "update" \notin Ops, PaidInv, [Next]_vars
    PROVE  Fitting'
<1>1. ASSUME NEW k \in Handlers
      PROVE  RequestFits(req[k])'
  <2>1. ASSUME NEW h \in Handlers, req' = [req EXCEPT ![h] = Idle]
        PROVE  RequestFits(req[k])'
    <3>1. k = h => req'[k] = Idle
      BY <2>1 DEF PaidInv, TypeOK
    <3>2. k # h => req'[k] = req[k]
      BY <2>1 DEF PaidInv, TypeOK
    <3> QED BY <3>1, <3>2, RequestKept DEF RequestFits
  <2>2. CASE req' = req
    BY <2>2, RequestKept
  <2> QED BY <2>1, <2>2, CommitsFinish, ReadsFit DEF Next, CreateInvoice, vars
<1> QED BY <1>1, InvoicesFit, PaymentsFit DEF Fitting, Fair

\* A paid invoice is paid in full or amounts below zero took it all back, for every
\* interleaving of settlements, refunds, matches and sweeps, as long as drafts are
\* not edited; where amounts were positive, it is paid exactly, a partly paid one
\* is not, and no invoice is paid beyond its total.
THEOREM PaidIsInFull ==
    ASSUME "update" \notin Ops
    PROVE  Spec => []PaidInFull
<1>1. Init => PaidInv
  <2>1. Init => Fitting
    BY DEF Init, Fitting, Earned, Fits, RequestFits, PaymentFits, Idle, NoPayment
  <2> QED BY <2>1, InitNumbers DEF PaidInv, NumberInv
<1>2. PaidInv /\ [Next]_vars => PaidInv'
  BY TypeStep, KnownStep, FitStep DEF PaidInv
<1>3. PaidInv => PaidInFull
  BY DEF PaidInv, Fitting, Earned, Fits, PaidInFull
<1> QED BY <1>1, <1>2, <1>3, PTL DEF Spec
-----------------------------------------------------------------------------
(***************************************************************************)
(* A ledger in which a draft that is being issued is left alone meanwhile, *)
(* however else requests overlap.  Two overlapping issues of one draft     *)
(* burn a number, and a late edit lands on an issued invoice; what rules   *)
(* that out is that a request finds the draft it has seen.                 *)
(***************************************************************************)

\* A pending issue or edit is of an invoice without a number, and so is a row
\* that is not there yet.
DraftSeen ==
    \A h \in Handlers :
        req[h].op \in {"issue", "update"} => invoices[req[h].invoice].number = 0
UnbornUnnumbered == \A i \in Invoices : ~Exists(i) => invoices[i].number = 0

\* What leaves a draft a draft is the settling of an intent that was moved onto it, for
\* nothing or less, and such an invoice has no number yet.
LeavesDraft(r) ==
    r.op # "idle" =>
        \A i \in Invoices :
            r.writes[i] # Null /\ r.writes[i].status = "DRAFT" =>
                r.op = "settling" /\ r.invoice = i /\ invoices[i].number = 0
DraftsWritten == \A h \in Handlers : LeavesDraft(req[h])

NumberingInv ==
    /\ NumberInv /\ NumberedLeavesDraft /\ Gapless
    /\ DraftsApart /\ DraftSeen /\ DraftsWritten /\ UnbornUnnumbered

\* What an issue does to the table.
LEMMA Issued ==
    ASSUME TypeOK, NEW h \in Handlers, CommitIssue(h)
    PROVE  /\ req[h].invoice \in Invoices
           /\ lastNumber' = lastNumber + 1
           /\ invoices'[req[h].invoice].number = lastNumber + 1
           /\ invoices'[req[h].invoice].status = "ISSUED"
           /\ invoices'[req[h].invoice].total = invoices[req[h].invoice].total
           /\ \A j \in Invoices \ {req[h].invoice} : invoices'[j] = invoices[j]
<1>1. req[h].invoice \in Invoices
  BY ActiveRequest DEF CommitIssue, Finish, Active
<1> DEFINE i == req[h].invoice
<1>2. invoices' = [invoices EXCEPT ![i] = [@ EXCEPT !.number = lastNumber + 1,
                                                    !.status = "ISSUED"]]
      /\ lastNumber' = lastNumber + 1
  BY DEF CommitIssue
<1>3. invoices[i] \in InvoiceRow
  BY <1>1 DEF TypeOK
<1>4. invoices'[i] = [invoices[i] EXCEPT !.number = lastNumber + 1, !.status = "ISSUED"]
      /\ \A j \in Invoices \ {i} : invoices'[j] = invoices[j]
  BY <1>1, <1>2 DEF TypeOK
<1>5. /\ invoices'[i].number = lastNumber + 1
      /\ invoices'[i].status = "ISSUED"
      /\ invoices'[i].total = invoices[i].total
  BY <1>3, <1>4 DEF InvoiceRow
<1> HIDE DEF i
<1> QED BY <1>1, <1>2, <1>4, <1>5 DEF i

\* The statuses that are written.
LEMMA StatusesWritten ==
    ASSUME NEW row \in InvoiceRow, NEW n \in Int
    PROVE  /\ Applied(row, n).status = "DRAFT" => row.status = "DRAFT"
           /\ Refunded(row, n).status # "DRAFT"
           /\ Unmatched(row, n).status # "DRAFT" /\ Matched(row, n).status # "DRAFT"
BY DEF Applied, Refunded, Unmatched, Matched, Less, Lesser, InvoiceRow

LEMMA BeginLeaves ==
    ASSUME TypeOK, NEW h \in Handlers, NEW op, NEW i \in Invoices, NEW p, NEW n, NEW w,
           Begin(h, op, i, p, n, w),
           \A j \in Invoices : w[j] # Null => w[j].status # "DRAFT"
    PROVE  LeavesDraft(req[h])'
<1>1. req'[h].writes = w
  BY DEF Begin, TypeOK
<1> QED BY <1>1 DEF LeavesDraft

LEMMA ReadsLeave ==
    ASSUME NumberingInv, NEW h \in Handlers, Reads(h)
    PROVE  LeavesDraft(req[h])'
<1> USE DEF NumberingInv, NumberInv
<1>0. /\ \A i \in Invoices : invoices[i] \in InvoiceRow
      /\ \A i \in Invoices : invoices[i].number # 0 => invoices[i].status # "DRAFT"
      /\ \A p \in Payments : payments[p] # NoPayment =>
                               payments[p].invoice \in Invoices /\ payments[p].amount \in Int
  BY DEF TypeOK, PaymentRow, NumberedLeavesDraft, IsDraft
<1>1. ASSUME NEW op, NEW i \in Invoices, NEW p, NEW n, Begin(h, op, i, p, n, NoWrites)
      PROVE  LeavesDraft(req[h])'
  <2>1. \A j \in Invoices : NoWrites[j] = Null
    BY DEF NoWrites
  <2> QED BY <1>1, <2>1, BeginLeaves
<1>2. ASSUME NEW op, NEW i \in Invoices, NEW p, NEW n, NEW b,
             Begin(h, op, i, p, n, Write(i, b)), b.status # "DRAFT"
      PROVE  LeavesDraft(req[h])'
  <2> DEFINE w == Write(i, b)
  <2>1. \A j \in Invoices : w[j] # Null => w[j].status # "DRAFT"
    BY <1>2, WritesOne
  <2>2. Begin(h, op, i, p, n, w)
    BY <1>2
  <2> HIDE DEF w
  <2> QED BY <2>1, <2>2, BeginLeaves
<1>3. ASSUME NEW i \in Invoices,
             \/ \E total \in Totals : BeginUpdate(h, i, total)
             \/ BeginIssue(h, i) \/ BeginVoid(h, i) \/ BeginSweep(h, i)
             \/ \E p \in Payments : \E keyed \in BOOLEAN : BeginIntent(h, i, p, keyed)
      PROVE  LeavesDraft(req[h])'
  <2>1. \E op, p, n : Begin(h, op, i, p, n, NoWrites)
    BY <1>3 DEF BeginUpdate, BeginIssue, BeginVoid, BeginSweep, BeginIntent
  <2> QED BY <1>1, <2>1
<1>4. ASSUME NEW i \in Invoices, NEW p \in Payments, NEW n \in Amounts,
             BeginRecord(h, i, p, n) \/ BeginWebhook(h, p, i, n)
      PROVE  LeavesDraft(req[h])'
  <2>1. CASE BeginWebhook(h, p, i, n) /\ payments[p].status = "INITIATED"
    <3>1. Begin(h, "settle", payments[p].invoice, p, n, NoWrites)
      BY <2>1 DEF BeginWebhook
    <3>2. payments[p].invoice \in Invoices
      BY <1>0, <2>1 DEF NoPayment
    <3> QED BY <1>1, <3>1, <3>2
  <2>2. CASE BeginRecord(h, i, p, n) \/ payments[p].status # "INITIATED"
    <3>1. /\ \E op : Begin(h, op, i, p, n, Write(i, Applied(invoices[i], n)))
          /\ invoices[i].number # 0
      BY <1>4, <2>2 DEF BeginRecord, BeginWebhook
    <3>2. Applied(invoices[i], n).status # "DRAFT"
      BY <1>0, <3>1, StatusesWritten, ConstantsAssumption
    <3> QED BY <1>2, <3>1, <3>2
  <2> QED BY <1>4, <2>1, <2>2
<1>5. ASSUME NEW i \in Invoices, NEW p \in Payments, BeginMatch(h, p, i)
      PROVE  LeavesDraft(req[h])'
  <2> DEFINE b == [status |-> "ISSUED", paid |-> 0]
             w == IF payments[p].invoice = i THEN NoWrites ELSE Write(payments[p].invoice, b)
  <2>1. \E n : Begin(h, "match", i, p, n, w)
    BY <1>5 DEF BeginMatch
  <2>2. payments[p].invoice \in Invoices
    BY <1>0, <1>5 DEF BeginMatch
  <2>3. b.status # "DRAFT"
    OBVIOUS
  <2> HIDE DEF b
  <2>4. \A j \in Invoices : w[j] # Null => w[j].status # "DRAFT"
    BY <2>2, <2>3, WritesOne
  <2> HIDE DEF w
  <2> QED BY <2>1, <2>4, BeginLeaves
<1>6. ASSUME NEW p \in Payments, BeginRefund(h, p)
      PROVE  LeavesDraft(req[h])'
  <2> DEFINE i == payments[p].invoice
  <2>1. i \in Invoices /\ payments[p].amount \in Int
    BY <1>0, <1>6 DEF BeginRefund, NoPayment
  <2>2. Begin(h, "refund", i, p, payments[p].amount,
              Write(i, Refunded(invoices[i], payments[p].amount)))
    BY <1>6 DEF BeginRefund
  <2>3. Refunded(invoices[i], payments[p].amount).status # "DRAFT"
    BY <1>0, <2>1, StatusesWritten
  <2> HIDE DEF i
  <2> QED BY <1>2, <2>1, <2>2, <2>3
<1>7. CASE ReadSettled(h)
  <2> DEFINE r == req[h]
             b == Applied(invoices[r.invoice], r.amount)
  <2>1. r \in Active /\ r.invoice \in Invoices /\ r.amount \in Int
    BY <1>7, ActiveRequest DEF ReadSettled, Active
  <2>2. req'[h] = [r EXCEPT !.op = "settling", !.writes = Write(r.invoice, b)]
        /\ invoices' = invoices
    BY <1>7 DEF ReadSettled, TypeOK
  <2>3. b.status = "DRAFT" => invoices[r.invoice].number = 0
    BY <1>0, <2>1, StatusesWritten
  <2> HIDE DEF b
  <2>4. /\ req'[h].op = "settling" /\ req'[h].invoice = r.invoice
        /\ req'[h].writes = Write(r.invoice, b)
    BY <2>1, <2>2 DEF Active
  <2>5. \A j \in Invoices : Write(r.invoice, b)[j] # Null =>
           j = r.invoice /\ Write(r.invoice, b)[j] = b
    BY <2>1, WritesOne
  <2> HIDE DEF r
  <2> QED BY <2>2, <2>3, <2>4, <2>5 DEF LeavesDraft
<1>8. CASE ReadMatched(h)
  <2> DEFINE r == req[h]
             received == Succeeded(r.invoice)
                           \cup ({r.payment} \cap {p \in Payments : payments[p].status = "SUCCEEDED"})
             w == [i \in Invoices |->
                     IF i = r.invoice THEN Matched(invoices[i], Sum(received))
                     ELSE IF r.writes[i] = Null THEN Null
                     ELSE Unmatched(invoices[i], r.amount)]
  <2>1. r \in Active /\ r.amount \in Int
    BY <1>8, ActiveRequest DEF ReadMatched, Active
  <2>2. Sum(received) \in Int
    <3>1. received \in SUBSET {p \in Payments : payments[p] # NoPayment}
      BY DEF Succeeded, NoPayment
    <3> QED BY <3>1, SumType
  <2>3. req'[h] = [r EXCEPT !.op = "matching", !.writes = w]
    BY <1>8 DEF ReadMatched, TypeOK
  <2>4. \A i \in Invoices : /\ Matched(invoices[i], Sum(received)).status # "DRAFT"
                            /\ Unmatched(invoices[i], r.amount).status # "DRAFT"
    BY <1>0, <2>1, <2>2, StatusesWritten
  <2>5. \A i \in Invoices : w[i] # Null => w[i].status # "DRAFT"
    <3> HIDE DEF received, r
    <3> QED BY <2>4
  <2> HIDE DEF w
  <2>6. req'[h].writes = w
    BY <2>1, <2>3 DEF Active
  <2> QED BY <2>5, <2>6 DEF LeavesDraft
<1> QED BY <1>3, <1>4, <1>5, <1>6, <1>7, <1>8 DEF Reads

\* No numbered invoice becomes a draft again.
LEMMA DraftsStep ==
    ASSUME NumberingInv, [Next]_vars
    PROVE  DraftsWritten' /\ NumberedLeavesDraft'
<1> USE DEF NumberingInv, NumberInv
<1>1. ASSUME NEW k \in Handlers, req'[k] = req[k],
             req[k].op = "settling" =>
                invoices'[req[k].invoice].number = invoices[req[k].invoice].number
      PROVE  LeavesDraft(req[k])'
  BY <1>1 DEF DraftsWritten, LeavesDraft
<1>2. ASSUME invoices' = invoices
      PROVE  NumberedLeavesDraft'
  BY <1>2 DEF NumberedLeavesDraft, IsDraft
<1>3. ASSUME NEW i \in Invoices, NEW total \in Totals, CreateInvoice(i, total)
      PROVE  DraftsWritten' /\ NumberedLeavesDraft'
  <2>1. /\ \A j \in Invoices : /\ invoices'[j].number = invoices[j].number
                               /\ j # i => invoices'[j] = invoices[j]
        /\ invoices[i].number = 0 /\ req' = req
    BY <1>3 DEF CreateInvoice, UnbornUnnumbered, TypeOK, Exists
  <2>2. \A k \in Handlers : req[k].op = "settling" => req[k].invoice \in Invoices
    BY ActiveRequest DEF Active
  <2> QED BY <1>1, <2>1, <2>2 DEF DraftsWritten, NumberedLeavesDraft, IsDraft
<1>4. ASSUME NEW h \in Handlers, Reads(h)
      PROVE  DraftsWritten' /\ NumberedLeavesDraft'
  <2>1. invoices' = invoices
    BY <1>4, ReadsFrame
  <2> QED BY <1>1, <1>2, <1>4, <2>1, ReadsLeave, ReadsOne DEF DraftsWritten
<1>5. ASSUME NEW h \in Handlers,
             \/ CommitUpdate(h) \/ CommitIssue(h) \/ CommitVoid(h) \/ CommitSweep(h)
             \/ CommitPayment(h) \/ CommitRefund(h) \/ CommitSettled(h)
             \/ CommitMatched(h) \/ CommitIntent(h) \/ Abandon(h)
      PROVE  DraftsWritten'
  <2>1. req' = [req EXCEPT ![h] = Idle]
    BY <1>5, CommitsFinish
  <2> SUFFICES ASSUME NEW k \in Handlers PROVE LeavesDraft(req[k])'
    BY DEF DraftsWritten
  <2>2. CASE k = h
    BY <2>1, <2>2 DEF TypeOK, LeavesDraft, Idle
  <2>3. CASE k # h /\ req[k].op # "settling"
    BY <1>1, <2>1, <2>3 DEF TypeOK
  <2>4. CASE k # h /\ req[k].op = "settling"
    <3>1. req[k].invoice \in Invoices /\ req'[k] = req[k]
      BY <2>1, <2>4, ActiveRequest DEF Active, TypeOK
    <3>2. CASE CommitIssue(h)
      <4>1. req[h].invoice # req[k].invoice
        BY <2>4, <3>2 DEF CommitIssue, Finish, DraftsApart
      <4> QED BY <1>1, <3>1, <3>2, <4>1, Issued
    <3>3. CASE CommitIntent(h) \/ Abandon(h)
      BY <1>1, <3>1, <3>3 DEF CommitIntent, Abandon
    <3> QED BY <1>1, <1>5, <3>1, <3>2, <3>3, NumbersUntouched
  <2> QED BY <2>2, <2>3, <2>4
<1>6. ASSUME NEW h \in Handlers,
             CommitUpdate(h) \/ CommitIssue(h) \/ CommitVoid(h) \/ CommitSweep(h)
      PROVE  NumberedLeavesDraft'
  <2>1. CASE CommitIssue(h)
    BY <2>1, Issued DEF NumberedLeavesDraft, IsDraft
  <2>2. CASE CommitUpdate(h) \/ CommitVoid(h) \/ CommitSweep(h)
    BY <2>2, NumbersUntouched, RowWritten DEF NumberedLeavesDraft, IsDraft
  <2> QED BY <1>6, <2>1, <2>2
<1>7. ASSUME NEW h \in Handlers,
             CommitPayment(h) \/ CommitRefund(h) \/ CommitSettled(h) \/ CommitMatched(h)
      PROVE  NumberedLeavesDraft'
  <2> SUFFICES ASSUME NEW i \in Invoices, invoices'[i].number # 0, IsDraft(i)'
               PROVE  FALSE
    BY DEF NumberedLeavesDraft
  <2>1. req[h].writes \in Writes /\ invoices' = Written(req[h].writes)
    BY <1>7, BalancesWritten
  <2>2. req[h].op # "idle" /\ LeavesDraft(req[h])
    BY <1>7 DEF CommitPayment, CommitRefund, CommitSettled, CommitMatched, Finish, DraftsWritten
  <2>3. req[h].writes[i] # Null => req[h].writes[i].status # "DRAFT"
    BY <2>1, <2>2, WrittenTable DEF LeavesDraft
  <2> QED BY <2>1, <2>3, WrittenTable DEF NumberedLeavesDraft, IsDraft
<1>8. CASE UNCHANGED vars
  BY <1>1, <1>2, <1>8 DEF vars, DraftsWritten
<1> QED BY <1>2, <1>3, <1>4, <1>5, <1>6, <1>7, <1>8 DEF Next, CommitIntent, Abandon

LEMMA NumberingStep ==
    ASSUME NumberingInv, [Next]_vars
    PROVE  /\ DraftSeen' /\ UnbornUnnumbered' /\ Gapless'
           /\ \A i \in Invoices :
                 invoices[i].number # 0 =>
                     /\ invoices'[i].number = invoices[i].number
                     /\ invoices'[i].total = invoices[i].total
<1> DEFINE Frozen == \A i \in Invoices :
                        invoices[i].number # 0 =>
                            /\ invoices'[i].number = invoices[i].number
                            /\ invoices'[i].total = invoices[i].total
<1> USE DEF NumberingInv, NumberInv
<1>0. ASSUME NEW h \in Handlers, req' = [req EXCEPT ![h] = Idle],
             \A k \in Handlers \ {h} :
                req[k].op \in {"issue", "update"}
                    => invoices'[req[k].invoice].number = invoices[req[k].invoice].number
      PROVE  DraftSeen'
  BY <1>0 DEF DraftSeen, Idle, TypeOK
<1>1. ASSUME NEW i \in Invoices, NEW total \in Totals, CreateInvoice(i, total)
      PROVE  DraftSeen' /\ UnbornUnnumbered' /\ Gapless' /\ Frozen
  <2>1. /\ \A j \in Invoices : /\ invoices'[j].number = invoices[j].number
                               /\ Exists(j) => Exists(j)'
                               /\ j # i => invoices'[j] = invoices[j]
        /\ invoices[i].number = 0 /\ lastNumber' = lastNumber /\ req' = req
    BY <1>1 DEF CreateInvoice, UnbornUnnumbered, TypeOK, Exists
  <2>2. DraftSeen'
    BY <2>1 DEF DraftSeen, TypeOK, Request, Idle
  <2> QED BY <2>1, <2>2 DEF UnbornUnnumbered, Gapless
<1>2. ASSUME invoices' = invoices, lastNumber' = lastNumber
      PROVE  UnbornUnnumbered' /\ Gapless' /\ Frozen
  BY <1>2 DEF UnbornUnnumbered, Gapless, Exists
<1>3. ASSUME NEW h \in Handlers, Reads(h)
      PROVE  DraftSeen'
  <2>1. invoices' = invoices
    BY <1>3, ReadsFrame
  <2>0. \A k \in Handlers \ {h} : req'[k] = req[k]
    BY <1>3, ReadsOne
  <2> SUFFICES ASSUME req'[h].op \in {"issue", "update"}
               PROVE  invoices[req'[h].invoice].number = 0
    BY <2>0, <2>1 DEF DraftSeen
  <2>2. PICK i \in Invoices : BeginIssue(h, i) \/ \E total \in Totals : BeginUpdate(h, i, total)
    BY <1>3 DEF Reads, BeginVoid, BeginSweep, BeginRecord, BeginWebhook, BeginIntent,
                BeginMatch, BeginRefund, ReadSettled, ReadMatched, Begin, TypeOK, Request, Idle
  <2>3. req'[h].invoice = i /\ IsDraft(i)
    BY <2>2 DEF BeginIssue, BeginUpdate, Begin, TypeOK
  <2> QED BY <2>3 DEF NumberedLeavesDraft
<1>4. ASSUME NEW h \in Handlers, CommitIssue(h)
      PROVE  UnbornUnnumbered' /\ Gapless' /\ Frozen
  <2> DEFINE i == req[h].invoice
  <2>1. i \in Invoices /\ invoices[i].number = 0
    BY <1>4, Issued DEF CommitIssue, Finish, DraftSeen
  <2>2. {invoices'[j].number : j \in Invoices} \ {0} = 1..lastNumber'
    <3>1. {invoices'[j].number : j \in Invoices}
            = {invoices[j].number : j \in Invoices \ {i}} \cup {lastNumber + 1}
      BY <1>4, <2>1, Issued
    <3>2. {invoices[j].number : j \in Invoices \ {i}} \ {0} = 1..lastNumber
      BY <2>1 DEF Gapless
    <3>3. lastNumber \in Nat /\ lastNumber' = lastNumber + 1
      BY <1>4, Issued DEF TypeOK
    <3>4. 1..lastNumber' = (1..lastNumber) \cup {lastNumber + 1} /\ lastNumber + 1 # 0
      BY <3>3
    <3> DEFINE next == lastNumber + 1
               others == {invoices[j].number : j \in Invoices \ {i}}
               before == 1..lastNumber
    <3>5. /\ {invoices'[j].number : j \in Invoices} = others \cup {next}
          /\ others \ {0} = before
          /\ 1..lastNumber' = before \cup {next} /\ next # 0
      BY <3>1, <3>2, <3>4
    <3> HIDE DEF next, others, before
    <3> QED BY <3>5
  <2> HIDE DEF i
  <2>3. /\ invoices'[i].status = "ISSUED"
        /\ \A j \in Invoices \ {i} : invoices'[j] = invoices[j]
    BY <1>4, Issued DEF i
  <2>4. UnbornUnnumbered'
    BY <2>1, <2>3 DEF UnbornUnnumbered, Exists
  <2>5. Gapless'
    BY <2>2 DEF Gapless
  <2>6. Frozen
    BY <2>1, <2>3
  <2> QED BY <2>4, <2>5, <2>6
<1>5. ASSUME NEW h \in Handlers,
             \/ CommitUpdate(h) \/ CommitVoid(h) \/ CommitSweep(h) \/ CommitPayment(h)
             \/ CommitRefund(h) \/ CommitSettled(h) \/ CommitMatched(h)
      PROVE  UnbornUnnumbered' /\ Gapless' /\ Frozen
  <2>1. UnbornUnnumbered' /\ Gapless'
    BY <1>5, NumbersUntouched DEF UnbornUnnumbered, Gapless
  <2>2. CASE CommitUpdate(h)
    <3>1. invoices[req[h].invoice].number = 0 /\ req[h].invoice \in Invoices
      BY <2>2, ActiveRequest DEF CommitUpdate, Finish, DraftSeen, Active
    <3> QED BY <2>1, <2>2, <3>1 DEF CommitUpdate, TypeOK, InvoiceRow
  <2> QED BY <1>5, <2>1, <2>2, NumbersUntouched
<1>6. ASSUME NEW h \in Handlers,
             \/ CommitUpdate(h) \/ CommitIssue(h) \/ CommitVoid(h) \/ CommitSweep(h)
             \/ CommitPayment(h) \/ CommitRefund(h) \/ CommitSettled(h)
             \/ CommitMatched(h) \/ CommitIntent(h) \/ Abandon(h)
      PROVE  DraftSeen'
  <2>1. req' = [req EXCEPT ![h] = Idle]
    BY <1>6 DEF CommitUpdate, CommitIssue, CommitPayment, CommitRefund, CommitVoid,
       CommitIntent, CommitSettled, CommitMatched, CommitSweep, Abandon, Finish
  <2> SUFFICES ASSUME NEW k \in Handlers \ {h}, req[k].op \in {"issue", "update"}
               PROVE  invoices'[req[k].invoice].number = invoices[req[k].invoice].number
    BY <1>0, <2>1
  <2>2. req[k].invoice \in Invoices
    BY ActiveRequest DEF Active
  <2>3. CASE CommitIssue(h)
    <3>1. req[h].op = "issue"
      BY <2>3 DEF CommitIssue, Finish
    <3>2. req[h].invoice # req[k].invoice
      BY <3>1 DEF DraftsApart
    <3> QED BY <2>2, <2>3, <3>2, Issued
  <2>4. CASE CommitIntent(h) \/ Abandon(h)
    BY <2>4 DEF CommitIntent, Abandon
  <2> QED BY <1>6, <2>2, <2>3, <2>4, NumbersUntouched
<1>7. CASE UNCHANGED vars
  BY <1>2, <1>7 DEF vars, DraftSeen
<1> QED BY <1>1, <1>2, <1>3, <1>4, <1>5, <1>6, <1>7, ReadsFrame DEF Next, CommitIntent, Abandon

LEMMA InitNumbering == Init => NumberingInv
<1>1. Init => DraftsApart /\ DraftSeen /\ DraftsWritten /\ UnbornUnnumbered
  BY DEF Init, DraftsApart, DraftSeen, DraftsWritten, LeavesDraft, UnbornUnnumbered, Idle
<1>2. Init => Gapless
  BY DEF Init, Gapless
<1>3. Init => NumberedLeavesDraft
  BY DEF Init, NumberedLeavesDraft
<1> QED BY <1>1, <1>2, <1>3, InitNumbers DEF NumberingInv

LEMMA NumberingKept == NumberingInv /\ [Next /\ DraftsApart']_vars => NumberingInv'
<1> SUFFICES ASSUME NumberingInv, [Next /\ DraftsApart']_vars PROVE NumberingInv'
  OBVIOUS
<1>1. NumberInv'
  BY TypeStep, KnownStep, NumberStep DEF NumberingInv, NumberInv
<1>2. DraftsApart'
  BY DEF NumberingInv, DraftsApart, vars
<1> QED BY <1>1, <1>2, NumberingStep, DraftsStep DEF NumberingInv

LEMMA NumberingInductive == NumberingSpec => []NumberingInv
BY InitNumbering, NumberingKept, PTL DEF NumberingSpec

\* US-6.1: as long as a draft that is being issued is left alone, the numbers have no
\* gap, with any number of invoices and requests, however else these overlap and
\* wherever they are given up.
THEOREM NumbersHaveNoGap == NumberingSpec => []Gapless
<1>1. NumberingInv => Gapless
  BY DEF NumberingInv
<1> QED BY <1>1, NumberingInductive, PTL

\* There, a numbered invoice is never a draft again, whatever amounts are reported
\* for the intents that are moved onto drafts.
THEOREM NumberedInvoicesLeaveDraft == NumberingSpec => []NumberedLeavesDraft
<1>1. NumberingInv => NumberedLeavesDraft
  BY DEF NumberingInv
<1> QED BY <1>1, NumberingInductive, PTL

\* FR-6.3: there, an invoice that has its number keeps it, and its total.
THEOREM IssuesFreeze == NumberingSpec => IssuedFrozen
<1>1. NumberingInv /\ [Next /\ DraftsApart']_vars =>
        [\A i \in Invoices :
            invoices[i].number # 0 =>
                /\ invoices'[i].number = invoices[i].number
                /\ invoices'[i].total = invoices[i].total]_vars
  BY NumberingStep
<1> QED BY <1>1, NumberingInductive, PTL DEF NumberingSpec, IssuedFrozen

\* As many invoices are numbered as the counter says.
LEMMA NumberedCount ==
    ASSUME NumberingInv
    PROVE  Cardinality({i \in Invoices : invoices[i].number # 0}) = lastNumber
<1> DEFINE H == {i \in Invoices : invoices[i].number # 0}
           n == lastNumber
           f == [k \in 1..n |-> CHOOSE i \in H : invoices[i].number = k]
<1>1. n \in Nat /\ \A i \in H : i \in Invoices /\ invoices[i].number \in 1..n
  BY DEF NumberingInv, NumberInv, TypeOK, InvoiceRow, NumbersUnique
<1>2. \A k \in 1..n : \E i \in H : invoices[i].number = k
  <2> SUFFICES ASSUME NEW k \in 1..n PROVE \E i \in H : invoices[i].number = k
    OBVIOUS
  <2>1. k \in {invoices[i].number : i \in Invoices} \ {0}
    BY DEF NumberingInv, Gapless
  <2> QED BY <2>1
<1>3. \A i, j \in H : invoices[i].number = invoices[j].number => i = j
  BY DEF NumberingInv, NumberInv, NumbersUnique
<1> HIDE DEF H, n
<1>4. \A k \in 1..n : f[k] \in H /\ invoices[f[k]].number = k
  BY <1>2
<1> HIDE DEF f
<1>5. f \in [1..n -> H]
  BY <1>4 DEF f
<1>6. \A k, l \in 1..n : f[k] = f[l] => k = l
  BY <1>4
<1>7. \A i \in H : \E k \in 1..n : f[k] = i
  <2> SUFFICES ASSUME NEW i \in H PROVE \E k \in 1..n : f[k] = i
    OBVIOUS
  <2>1. PICK k \in 1..n : k = invoices[i].number
    BY <1>1
  <2>2. f[k] \in H /\ invoices[f[k]].number = invoices[i].number
    BY <1>4, <2>1
  <2>3. f[k] = i
    BY <1>3, <2>2, Zenon
  <2> QED BY <2>3
<1>8. f \in Bijection(1..n, H)
  <2>1. f \in Injection(1..n, H)
    BY <1>5, <1>6 DEF Injection, IsInjective
  <2>2. f \in Surjection(1..n, H)
    BY <1>5, <1>7 DEF Surjection
  <2> QED BY <2>1, <2>2 DEF Bijection
<1>9. ExistsBijection(1..n, H)
  BY <1>8 DEF ExistsBijection
<1>10. IsFiniteSet(1..n) /\ Cardinality(1..n) = n
  BY <1>1, FS_Interval
<1>11. Cardinality(H) = n
  BY <1>9, <1>10, FS_Bijection
<1> QED BY <1>11 DEF H, n

\* The numbers that have been given, as a reader sees them.
LEMMA GivenNumbers ==
    ASSUME TypeOK, NEW i \in Invoices
    PROVE  /\ Given[i] = Null <=> invoices[i].number = 0
           /\ Given[i] # Null => Given[i][1] = "invoices"
BY ConstantsAssumption DEF Given, TypeOK, InvoiceRow

\* Only an issue is visible in the sequence, and it takes the next number.
LEMMA IssueTakes ==
    ASSUME NumberingInv, NEW h \in Handlers, CommitIssue(h)
    PROVE  \E i \in Invoices : Promise!Take(i, "invoices")
<1> DEFINE i == req[h].invoice
<1>1. TypeOK
  BY DEF NumberingInv, NumberInv
<1>2. /\ i \in Invoices /\ lastNumber' = lastNumber + 1
      /\ invoices'[i].number = lastNumber + 1
      /\ \A j \in Invoices \ {i} : invoices'[j] = invoices[j]
  BY <1>1, Issued
<1>3. invoices[i].number = 0
  BY DEF CommitIssue, Finish, NumberingInv, DraftSeen
<1> HIDE DEF i
<1>4. Promise!HoldersIn("invoices") = {j \in Invoices : invoices[j].number # 0}
  BY <1>1, GivenNumbers DEF Promise!HoldersIn
<1>5. Promise!Cardinality(Promise!HoldersIn("invoices")) = lastNumber
  BY <1>4, NumberedCount DEF Promise!Cardinality, Cardinality
<1>6. Given' = [Given EXCEPT ![i] = <<"invoices", lastNumber + 1>>]
  <2>1. lastNumber + 1 # 0
    BY <1>1 DEF TypeOK
  <2>2. Given'[i] = <<"invoices", lastNumber + 1>>
    BY <1>2, <2>1 DEF Given
  <2>3. \A j \in Invoices \ {i} : Given'[j] = Given[j]
    BY <1>2 DEF Given
  <2> QED BY <2>2, <2>3 DEF Given
<1>7. Given[i] = Null
  BY <1>1, <1>2, <1>3, GivenNumbers
<1>8. Promise!Take(i, "invoices")
  BY <1>5, <1>6, <1>7 DEF Promise!Take
<1> QED BY <1>2, <1>8

LEMMA LedgerStepImplements ==
    NumberingInv /\ [Next /\ DraftsApart']_vars => [Promise!Next]_Given
<1> SUFFICES ASSUME NumberingInv, [Next]_vars PROVE Promise!Next \/ Given' = Given
  OBVIOUS
<1>1. CASE \E h \in Handlers : CommitIssue(h)
  BY <1>1, IssueTakes DEF Promise!Next
<1>2. ASSUME \A i \in Invoices : invoices'[i].number = invoices[i].number
      PROVE  Given' = Given
  BY <1>2 DEF Given
<1>3. ASSUME NEW i \in Invoices, NEW total \in Totals, CreateInvoice(i, total)
      PROVE  \A j \in Invoices : invoices'[j].number = invoices[j].number
  BY <1>3 DEF CreateInvoice, NumberingInv, NumberInv, UnbornUnnumbered, TypeOK, Exists
<1>4. ASSUME NEW h \in Handlers, Reads(h) \/ CommitIntent(h) \/ Abandon(h)
      PROVE  invoices' = invoices
  BY <1>4, ReadsFrame DEF CommitIntent, Abandon
<1>5. ASSUME NEW h \in Handlers,
             \/ CommitUpdate(h) \/ CommitVoid(h) \/ CommitSweep(h) \/ CommitPayment(h)
             \/ CommitRefund(h) \/ CommitSettled(h) \/ CommitMatched(h)
      PROVE  \A j \in Invoices : invoices'[j].number = invoices[j].number
  BY <1>5, NumbersUntouched DEF NumberingInv, NumberInv
<1>6. CASE UNCHANGED vars
  BY <1>2, <1>6 DEF vars
<1> QED BY <1>1, <1>2, <1>3, <1>4, <1>5, <1>6 DEF Next

\* US-6.1: there, the invoices take the numbers of one gapless sequence, whose promise
\* is thereby theirs: the next number each, never changed and never given back.
THEOREM LedgerImplementsSequence == NumberingSpec => ImplementsSequence
<1>1. Init => Promise!Init
  BY DEF Init, Promise!Init, Given
<1> QED BY <1>1, LedgerStepImplements, NumberingInductive, PTL
        DEF NumberingSpec, ImplementsSequence, Promise!Spec
-----------------------------------------------------------------------------
(***************************************************************************)
(* What a ledger says of money while requests do not overlap on an         *)
(* invoice, however they overlap on others.  A request finds the rows it   *)
(* has read as they were, so that what it is about to write accounts for   *)
(* what it is about to receive, give back or move.                         *)
(***************************************************************************)
Received(i) == Sum(Succeeded(i))

\* A payment is of an invoice there is that has left draft, and what a positive
\* payment says of itself is so.
PlacedRow(p) ==
    payments[p] # NoPayment =>
        /\ Exists(payments[p].invoice) /\ ~IsDraft(payments[p].invoice)
        /\ payments[p].positive => payments[p].amount > 0
Placed == \A p \in Payments : PlacedRow(p)

\* Intents of one key, by identity instead of number.
OpenIntent(p) ==
    payments[p].status = "INITIATED" /\ payments[p].keyed /\ ~payments[p].moved
IntentsDistinct ==
    \A p, q \in Payments :
        OpenIntent(p) /\ OpenIntent(q) /\ payments[p].invoice = payments[q].invoice => p = q

\* The payments of the target once the match is done.
MatchedPayments(r) ==
    Succeeded(r.invoice)
      \cup ({r.payment} \cap {p \in Payments : payments[p].status = "SUCCEEDED"})

\* What a request knows of the rows it is about.
Credits(r) == r.writes = Write(r.invoice, Applied(invoices[r.invoice], r.amount))
Knows(r) ==
    /\ r.op \in {"update", "issue"} => IsDraft(r.invoice)
    /\ r.op \in {"record", "direct"} =>
          /\ Exists(r.invoice) /\ ~IsDraft(r.invoice)
          /\ r.payment \in Payments /\ Credits(r)
    /\ r.op = "refund" =>
          /\ payments[r.payment].status = "SUCCEEDED"
          /\ r.invoice = payments[r.payment].invoice /\ r.amount = payments[r.payment].amount
          /\ r.writes = Write(r.invoice, Refunded(invoices[r.invoice], r.amount))
    /\ r.op = "void" => Exists(r.invoice) /\ Succeeded(r.invoice) = {}
    /\ r.op \in {"intent", "keyed"} => Exists(r.invoice) /\ ~IsDraft(r.invoice)
    /\ r.op = "keyed" => OpenIntents(r.invoice) = {}
    /\ r.op \in {"settle", "settling"} =>
          payments[r.payment].status = "INITIATED" /\ r.invoice = payments[r.payment].invoice
    /\ r.op = "settling" => Credits(r)
    /\ r.op \in {"match", "matching"} =>
          LET row == payments[r.payment] IN
          /\ Exists(r.invoice)
          /\ r.amount = IF row.status = "SUCCEEDED" THEN row.amount ELSE 0
          /\ \A i \in Invoices \ {r.invoice} : (r.writes[i] # Null) <=> (i = row.invoice)
    /\ r.op = "matching" =>
          LET source == payments[r.payment].invoice IN
          /\ r.writes[r.invoice] = Matched(invoices[r.invoice], Sum(MatchedPayments(r)))
          /\ source # r.invoice => r.writes[source] = Unmatched(invoices[source], r.amount)
    /\ r.op = "sweep" =>
          /\ invoices[r.invoice].status \in {"ISSUED", "PARTIALLY_PAID"}
          /\ invoices[r.invoice].paid < invoices[r.invoice].total
RequestsKnow == \A h \in Handlers : Knows(req[h])

\* The books of one invoice.  Where amounts are positive, less than nothing is paid
\* only of a total below zero, and not without a payment that stands.
Unmoved == \A p \in Payments : ~Moved(p)
Tells(row) ==
    /\ row.status \in {"DRAFT", "ISSUED", "VOID"} => row.paid = 0
    /\ row.status = "PARTIALLY_PAID" => 0 < row.paid /\ row.paid < row.total
    /\ row.status = "PAID" => row.paid = row.total
    /\ row.status = "OVERDUE" => row.paid < row.total
Grounded(row) == row.paid >= 0 \/ row.paid >= row.total
Booked(i) ==
    LET row == invoices[i] IN
    /\ IsDraft(i) => row.paid = 0
    /\ AllPositive \/ Intact => row.paid <= Received(i)
    /\ AllPositive =>
          /\ Grounded(row)
          /\ Intact /\ row.total >= 0 => row.paid = Lesser(Received(i), row.total)
          /\ Unmoved => Tells(row) /\ (Succeeded(i) = {} => row.paid >= 0)
          /\ row.status = "VOID" => Succeeded(i) = {}
Books == \A i \in Invoices : Booked(i)

MoneyInv == NumberingInv /\ Apart /\ Placed /\ IntentsDistinct /\ RequestsKnow /\ Books
-----------------------------------------------------------------------------
\* The units of the amounts above zero, as a function of the amounts and of the
\* payments counted.
Total(a, S) == Cardinality(UNION {{p} \X (1..a[p]) : p \in S})

\* The sum of the amounts.
Net(a, S) == Total(a, S) - Total([p \in DOMAIN a |-> -a[p]], S)

LEMMA TotalType ==
    ASSUME NEW S, IsFiniteSet(S), NEW a, \A p \in S : a[p] \in Int
    PROVE  IsFiniteSet(UNION {{p} \X (1..a[p]) : p \in S}) /\ Total(a, S) \in Nat
<1>1. IsFiniteSet(UNION {{p} \X (1..a[p]) : p \in S})
  BY UnitsFinite
<1> QED BY <1>1, FS_CardinalityType DEF Total

LEMMA TotalAdds ==
    ASSUME NEW S, IsFiniteSet(S), NEW x, x \notin S,
           NEW a, \A p \in S \cup {x} : a[p] \in Int
    PROVE  Total(a, S \cup {x}) = Total(a, S) + (IF a[x] > 0 THEN a[x] ELSE 0)
<1> DEFINE U == UNION {{p} \X (1..a[p]) : p \in S}
           V == {x} \X (1..a[x])
           n == IF a[x] > 0 THEN a[x] ELSE 0
<1>1. IsFiniteSet(U) /\ Total(a, S) = Cardinality(U) /\ Total(a, S) \in Nat
  BY TotalType DEF Total
<1>2. IsFiniteSet(V) /\ Cardinality(V) = n
  <2>1. a[x] \in Int
    OBVIOUS
  <2>2. IsFiniteSet({x}) /\ Cardinality({x}) = 1
    BY FS_Singleton
  <2>3. IsFiniteSet(1..a[x]) /\ Cardinality(1..a[x]) = n
    BY <2>1, FS_Interval
  <2>4. IsFiniteSet(V) /\ Cardinality(V) = Cardinality({x}) * Cardinality(1..a[x])
    BY <2>2, <2>3, FS_Product
  <2> QED BY <2>1, <2>2, <2>3, <2>4
<1>3. U \cap V = {}
  OBVIOUS
<1>4. UNION {{p} \X (1..a[p]) : p \in S \cup {x}} = U \cup V
  OBVIOUS
<1>5. Total(a, S \cup {x}) = Cardinality(U \cup V)
  BY <1>4 DEF Total
<1>6. n \in Nat
  OBVIOUS
<1> HIDE DEF U, V, n
<1>7. Cardinality(U \cup V) = Cardinality(U) + Cardinality(V) - Cardinality(U \cap V)
  BY <1>1, <1>2, FS_Union
<1>8. Cardinality(U \cap V) = 0
  BY <1>3, FS_EmptySet
<1>9. Total(a, S \cup {x}) = Total(a, S) + n
  BY <1>1, <1>2, <1>5, <1>6, <1>7, <1>8
<1> QED BY <1>9 DEF n

LEMMA TotalSame ==
    ASSUME NEW S, NEW a, NEW b, \A p \in S : a[p] = b[p]
    PROVE  Total(a, S) = Total(b, S)
<1>1. {{p} \X (1..a[p]) : p \in S} = {{p} \X (1..b[p]) : p \in S}
  OBVIOUS
<1> QED BY <1>1 DEF Total

LEMMA NetType ==
    ASSUME NEW a, NEW S \in SUBSET DOMAIN a, IsFiniteSet(S), \A p \in S : a[p] \in Int
    PROVE  Net(a, S) \in Int /\ ((\A p \in S : a[p] >= 0) => Net(a, S) >= 0)
<1> DEFINE b == [p \in DOMAIN a |-> -a[p]]
<1>1. Total(a, S) \in Nat
  BY TotalType
<1>2. \A p \in S : b[p] \in Int
  OBVIOUS
<1>3. ASSUME \A p \in S : a[p] >= 0 PROVE Total(b, S) = 0
  <2>1. \A p \in S : 1..b[p] = {}
    BY <1>3
  <2>2. UNION {{p} \X (1..b[p]) : p \in S} = {}
    <3> HIDE DEF b
    <3> QED BY <2>1
  <2> QED BY <2>2, FS_EmptySet DEF Total
<1>4. Net(a, S) = Total(a, S) - Total(b, S)
  BY DEF Net
<1> HIDE DEF b
<1>5. Total(b, S) \in Nat
  BY <1>2, TotalType
<1> QED BY <1>1, <1>3, <1>4, <1>5

LEMMA NetAdds ==
    ASSUME NEW a, NEW S, IsFiniteSet(S), NEW x, x \notin S, S \cup {x} \subseteq DOMAIN a,
           \A p \in S \cup {x} : a[p] \in Int
    PROVE  Net(a, S \cup {x}) = Net(a, S) + a[x]
<1> DEFINE b == [p \in DOMAIN a |-> -a[p]]
<1>1. Total(a, S \cup {x}) = Total(a, S) + (IF a[x] > 0 THEN a[x] ELSE 0)
  BY TotalAdds
<1>2. \A p \in S \cup {x} : b[p] \in Int /\ b[p] = -a[p]
  OBVIOUS
<1>3. /\ Net(a, S) = Total(a, S) - Total(b, S)
      /\ Net(a, S \cup {x}) = Total(a, S \cup {x}) - Total(b, S \cup {x})
  BY DEF Net
<1> HIDE DEF b
<1>4. Total(b, S \cup {x}) = Total(b, S) + (IF b[x] > 0 THEN b[x] ELSE 0)
  BY <1>2, TotalAdds
<1>5. Total(a, S) \in Nat /\ Total(b, S) \in Nat
  BY <1>2, TotalType
<1>6. a[x] \in Int /\ b[x] = -a[x]
  BY <1>2
<1> QED BY <1>1, <1>3, <1>4, <1>5, <1>6

LEMMA NetSame ==
    ASSUME NEW a, NEW b, NEW S, S \subseteq DOMAIN a, S \subseteq DOMAIN b,
           \A p \in S : a[p] = b[p]
    PROVE  Net(a, S) = Net(b, S)
<1> DEFINE c == [p \in DOMAIN a |-> -a[p]]
           d == [p \in DOMAIN b |-> -b[p]]
<1>1. Total(a, S) = Total(b, S)
  BY TotalSame
<1>2. \A p \in S : c[p] = d[p]
  OBVIOUS
<1>3. Net(a, S) = Total(a, S) - Total(c, S) /\ Net(b, S) = Total(b, S) - Total(d, S)
  BY DEF Net
<1> HIDE DEF c, d
<1>4. Total(c, S) = Total(d, S)
  BY <1>2, TotalSame
<1> QED BY <1>1, <1>3, <1>4

\* The sum of payments is that of their amounts.
LEMMA SumIsNet ==
    ASSUME NEW S \in SUBSET Payments
    PROVE  Sum(S) = Net([q \in Payments |-> payments[q].amount], S)
<1> DEFINE A == [q \in Payments |-> payments[q].amount]
           B == [q \in DOMAIN A |-> -A[q]]
<1>1. {{q} \X (1..payments[q].amount) : q \in S} = {{q} \X (1..A[q]) : q \in S}
  OBVIOUS
<1>2. {{q} \X (1..(-payments[q].amount)) : q \in S} = {{q} \X (1..B[q]) : q \in S}
  OBVIOUS
<1> QED BY <1>1, <1>2 DEF Sum, Net, Total

\* What an invoice has received changes with one payment by what that payment
\* has ceased or come to contribute.
LEMMA ReceivedMoves ==
    ASSUME TypeOK, TypeOK', NEW p \in Payments,
           \A q \in Payments \ {p} : payments'[q] = payments[q],
           NEW i \in Invoices
    PROVE  \E rest \in Int :
              /\ Received(i) = IF p \in Succeeded(i) THEN rest + payments[p].amount ELSE rest
              /\ Received(i)' = IF p \in Succeeded(i)' THEN rest + payments'[p].amount
                                ELSE rest
              /\ AllPositive /\ Placed => rest >= 0
<1> DEFINE A == [q \in Payments |-> payments[q].amount]
           B == [q \in Payments |-> payments'[q].amount]
           R == Succeeded(i) \ {p}
<1>1. R \subseteq Payments /\ IsFiniteSet(R) /\ p \notin R
  BY FS_Subset, ConstantsAssumption DEF Succeeded
<1>2. \A q \in Succeeded(i) : A[q] \in Int
  BY DEF TypeOK, PaymentRow, Succeeded, NoPayment
<1>3. \A q \in Succeeded(i)' : B[q] \in Int
  BY DEF TypeOK, PaymentRow, Succeeded, NoPayment
<1>4. Succeeded(i)' \ {p} = R
  BY DEF Succeeded
<1>5. \A q \in R : A[q] = B[q]
  BY <1>1
<1>6. Received(i) = Net(A, Succeeded(i))
  BY SumIsNet DEF Received, Succeeded
<1>7. Received(i)' = Net(B, Succeeded(i)')
  <2>1. Sum(Succeeded(i))' = Net([q \in Payments |-> payments[q].amount], Succeeded(i))'
    <3>1. (Succeeded(i) \in SUBSET Payments)'
      BY DEF Succeeded
    <3> DEFINE X == Succeeded(i)'
               C == [q \in DOMAIN B |-> -B[q]]
    <3>2. {{q} \X (1..payments'[q].amount) : q \in X} = {{q} \X (1..B[q]) : q \in X}
      BY <3>1
    <3>3. {{q} \X (1..(-payments'[q].amount)) : q \in X} = {{q} \X (1..C[q]) : q \in X}
      BY <3>1
    <3> QED BY <3>2, <3>3 DEF Sum, Net, Total
  <2> QED BY <2>1 DEF Received
<1>a. R \subseteq DOMAIN A /\ R \subseteq DOMAIN B /\ \A q \in R : A[q] \in Int
  BY <1>1, <1>2
<1>b. AllPositive /\ Placed => \A q \in R : A[q] >= 0
  <2> SUFFICES ASSUME AllPositive, Placed, NEW q \in R PROVE A[q] >= 0
    OBVIOUS
  <2>1. q \in Payments /\ payments[q] # NoPayment /\ A[q] = payments[q].amount
    BY <1>1 DEF Succeeded, NoPayment
  <2>2. payments[q].amount > 0
    BY <2>1 DEF Placed, PlacedRow, AllPositive
  <2>3. A[q] \in Int
    BY <1>a
  <2> QED BY <2>1, <2>2, <2>3
<1>8. /\ Net(A, R) \in Int /\ Net(A, R) = Net(B, R)
      /\ AllPositive /\ Placed => Net(A, R) >= 0
  <2> HIDE DEF A, B, R
  <2> QED BY <1>1, <1>a, <1>b, <1>5, NetType, NetSame
<1>9. Received(i) = IF p \in Succeeded(i) THEN Net(A, R) + payments[p].amount ELSE Net(A, R)
  <2>1. CASE p \in Succeeded(i)
    <3>1. Succeeded(i) = R \cup {p} /\ A[p] = payments[p].amount
      BY <2>1
    <3>2. R \cup {p} \subseteq DOMAIN A
      BY <1>1
    <3>3. Net(A, R \cup {p}) = Net(A, R) + A[p]
      <4> HIDE DEF A, R
      <4> QED BY <1>1, <1>2, <3>1, <3>2, NetAdds
    <3> QED BY <1>6, <2>1, <3>1, <3>3
  <2>2. CASE p \notin Succeeded(i)
    <3>1. Succeeded(i) = R
      BY <2>2
    <3> QED BY <1>6, <2>2, <3>1
  <2> QED BY <2>1, <2>2
<1>10. Received(i)' = IF p \in Succeeded(i)' THEN Net(A, R) + payments'[p].amount
                      ELSE Net(A, R)
  <2>1. CASE p \in Succeeded(i)'
    <3>1. Succeeded(i)' = R \cup {p} /\ B[p] = payments'[p].amount
      BY <1>4, <2>1
    <3>2. R \cup {p} \subseteq DOMAIN B
      BY <1>1
    <3>3. Net(B, R \cup {p}) = Net(B, R) + B[p]
      <4> HIDE DEF B, R
      <4> QED BY <1>1, <1>3, <3>1, <3>2, NetAdds
    <3> QED BY <1>7, <1>8, <2>1, <3>1, <3>3
  <2>2. CASE p \notin Succeeded(i)'
    <3>1. Succeeded(i)' = R
      BY <1>4, <2>2
    <3> QED BY <1>7, <1>8, <2>2, <3>1
  <2> QED BY <2>1, <2>2
<1> HIDE DEF A, B, R
<1> QED BY <1>8, <1>9, <1>10

LEMMA ReceivedType ==
    ASSUME TypeOK, NEW i \in Invoices
    PROVE  /\ Received(i) \in Int
           /\ Succeeded(i) = {} => Received(i) = 0
           /\ AllPositive /\ Placed => Received(i) >= 0
<1>1. Received(i) \in Int
  BY SumType DEF Received, Succeeded, NoPayment
<1>2. ASSUME Succeeded(i) = {} PROVE Received(i) = 0
  <2>1. /\ UNION {{p} \X (1..payments[p].amount) : p \in Succeeded(i)} = {}
        /\ UNION {{p} \X (1..(-payments[p].amount)) : p \in Succeeded(i)} = {}
    BY <1>2
  <2>2. Received(i) = Cardinality({}) - Cardinality({})
    BY <2>1 DEF Received, Sum
  <2>3. Cardinality({}) = 0
    BY FS_EmptySet
  <2> QED BY <2>2, <2>3
<1>3. ASSUME AllPositive, Placed PROVE Received(i) >= 0
  <2> DEFINE A == [q \in Payments |-> payments[q].amount]
             S == Succeeded(i)
  <2>1. S \subseteq Payments /\ IsFiniteSet(S)
    BY FS_Subset, ConstantsAssumption DEF Succeeded
  <2>2. \A q \in S : A[q] \in Int /\ A[q] >= 0
    <3> TAKE q \in S
    <3>1. q \in Payments /\ payments[q] # NoPayment
      BY DEF Succeeded, NoPayment
    <3>2. payments[q].amount \in Int /\ payments[q].amount > 0
      BY <1>3, <3>1 DEF TypeOK, PaymentRow, Placed, PlacedRow, AllPositive
    <3> QED BY <3>1, <3>2
  <2>3. Received(i) = Net(A, S)
    BY <2>1, SumIsNet DEF Received
  <2>4. S \in SUBSET DOMAIN A
    BY <2>1
  <2> HIDE DEF A, S
  <2> QED BY <2>1, <2>2, <2>3, <2>4, NetType
<1> QED BY <1>1, <1>2, <1>3
-----------------------------------------------------------------------------
\* What the balances that are written say of the rows they were computed from.
LEMMA AppliedBooks ==
    ASSUME NEW row \in InvoiceRow, row.status # "ABSENT", NEW n \in Int, NEW s \in Int,
           NEW new \in InvoiceRow, new.total = row.total,
           new.status = Applied(row, n).status, new.paid = Applied(row, n).paid
    PROVE  /\ row.paid <= s => new.paid <= s + n
           /\ row.status # "DRAFT" => new.status # "DRAFT"
           /\ n > 0 /\ Grounded(row) => Grounded(new) /\ new.status # "VOID"
           /\ n > 0 /\ Tells(row) => Tells(new)
           /\ n > 0 /\ s >= 0 /\ row.total >= 0 /\ row.paid = Lesser(s, row.total)
                 => new.paid = Lesser(s + n, row.total)
<1>1. row.paid <= s => new.paid <= s + n
  BY DEF InvoiceRow, Applied
<1>2. row.status # "DRAFT" => new.status # "DRAFT"
  BY DEF Applied
<1>3. n > 0 /\ Grounded(row) => Grounded(new) /\ new.status # "VOID"
  BY DEF InvoiceRow, Applied, Grounded
<1>4. ASSUME n > 0, Tells(row) PROVE Tells(new)
  <2>1. row.status \in InvoiceStatus
    BY DEF InvoiceRow
  <2> QED BY <1>4, <2>1 DEF InvoiceRow, InvoiceStatus, Applied, Tells
<1>5. n > 0 /\ s >= 0 /\ row.total >= 0 /\ row.paid = Lesser(s, row.total)
         => new.paid = Lesser(s + n, row.total)
  BY DEF InvoiceRow, Applied, Lesser
<1> QED BY <1>1, <1>2, <1>3, <1>4, <1>5

LEMMA RefundedBooks ==
    ASSUME NEW row \in InvoiceRow, row.status # "ABSENT", NEW n \in Int, NEW s \in Int,
           NEW new \in InvoiceRow, new.total = row.total,
           new.status = Refunded(row, n).status, new.paid = Refunded(row, n).paid
    PROVE  /\ new.status \notin {"DRAFT", "VOID"} /\ new.paid >= 0
           /\ row.paid <= s + n /\ s >= 0 => new.paid <= s
           /\ n > 0 /\ Tells(row) => Tells(new)
<1>1. new.paid = Less(row.paid, n) /\ new.paid >= 0
  BY DEF Refunded, Less, InvoiceRow
<1>2. new.status \in {"ISSUED", "OVERDUE", "PARTIALLY_PAID"}
  BY DEF Refunded, Less, InvoiceRow
<1>3. row.paid <= s + n /\ s >= 0 => new.paid <= s
  BY <1>1 DEF Less, InvoiceRow
<1>4. ASSUME n > 0, Tells(row) PROVE Tells(new)
  <2>1. row.status \in InvoiceStatus
    BY DEF InvoiceRow
  <2>2. CASE new.paid = 0
    <3>1. new.status = "ISSUED"
      BY <1>1, <2>2 DEF Refunded
    <3> QED BY <2>2, <3>1 DEF Tells
  <2>3. CASE new.paid # 0
    <3>1. new.paid > 0 /\ row.paid > n /\ new.paid = row.paid - n
      BY <1>1, <2>3 DEF Less, InvoiceRow
    <3>2. row.paid <= row.total /\ (row.status = "OVERDUE" => row.paid < row.total)
      BY <1>4, <2>1, <3>1 DEF Tells, InvoiceRow, InvoiceStatus
    <3>3. new.paid < new.total
      BY <1>4, <3>1, <3>2 DEF InvoiceRow
    <3>4. new.status \in {"OVERDUE", "PARTIALLY_PAID"}
      BY <1>1, <3>1 DEF Refunded
    <3> QED BY <3>1, <3>3, <3>4 DEF Tells
  <2> QED BY <2>2, <2>3
<1> QED BY <1>1, <1>2, <1>3, <1>4

LEMMA NullIsNoBalance ==
    ASSUME NEW b \in Balance
    PROVE  b # Null
BY BalanceAssumption

\* An invoice that a step leaves alone, with its payments, stays booked.
LEMMA BookKept ==
    ASSUME NEW i \in Invoices, Booked(i), invoices'[i] = invoices[i],
           Received(i)' = Received(i), Succeeded(i)' = Succeeded(i),
           AllPositive' => AllPositive, Intact' => Intact, Unmoved' => Unmoved
    PROVE  Booked(i)'
BY DEF Booked, IsDraft, Grounded, Tells

\* One payment comes to contribute to an invoice, and is credited to it.
LEMMA CreditBooks ==
    ASSUME TypeOK, TypeOK', Placed, Books, NEW i \in Invoices, NEW p \in Payments,
           NEW n \in Int, Exists(i), ~IsDraft(i),
           payments[p].status # "SUCCEEDED",
           \A q \in Payments \ {p} : payments'[q] = payments[q],
           payments'[p].status = "SUCCEEDED", payments'[p].invoice = i,
           payments'[p].amount = n,
           AllPositive' => AllPositive /\ n > 0, Intact' => Intact, Unmoved' => Unmoved,
           invoices' = Written(Write(i, Applied(invoices[i], n)))
    PROVE  Books'
<1> SUFFICES ASSUME NEW j \in Invoices PROVE Booked(j)'
  BY DEF Books
<1>1. invoices[j] \in InvoiceRow /\ invoices'[j] \in InvoiceRow /\ Booked(j) /\ Received(j) \in Int
  BY ReceivedType DEF TypeOK, Books
<1>2. PICK rest \in Int :
         /\ Received(j) = IF p \in Succeeded(j) THEN rest + payments[p].amount ELSE rest
         /\ Received(j)' = IF p \in Succeeded(j)' THEN rest + payments'[p].amount ELSE rest
         /\ AllPositive => rest >= 0
  BY ReceivedMoves
<1>3. p \notin Succeeded(j) /\ (p \in Succeeded(j)' <=> j = i)
  BY DEF Succeeded
<1>4. Applied(invoices[i], n) \in Balance /\ Write(i, Applied(invoices[i], n)) \in Writes
  BY BalanceTypes, WriteTypes DEF TypeOK, Exists
<1> DEFINE w == Write(i, Applied(invoices[i], n))
<1>5. w \in Writes /\ w[i] = Applied(invoices[i], n) /\ (j # i => w[j] = Null)
  BY <1>4, WritesOne
<1>6. Applied(invoices[i], n) # Null
  BY <1>4, NullIsNoBalance
<1>7. invoices' = Written(w)
  OBVIOUS
<1> HIDE DEF w
<1>8. CASE j # i
  <2>1. invoices'[j] = invoices[j]
    BY <1>5, <1>7, <1>8, WrittenTable
  <2>2. Received(j)' = Received(j)
    BY <1>2, <1>3, <1>8
  <2>3. Succeeded(j)' = Succeeded(j)
    BY <1>8 DEF Succeeded
  <2> QED BY <1>1, <2>1, <2>2, <2>3, BookKept
<1>9. CASE j = i
  <2> DEFINE row == invoices[i]
             new == invoices'[i]
  <2>1. Received(i)' = Received(i) + n /\ (AllPositive => Received(i) >= 0)
    BY <1>2, <1>3, <1>9
  <2>2. new.total = row.total /\ new.status = Applied(row, n).status
        /\ new.paid = Applied(row, n).paid
    BY <1>5, <1>6, <1>7, WrittenTable
  <2>3. /\ row.paid <= Received(i) => new.paid <= Received(i) + n
        /\ new.status # "DRAFT"
        /\ n > 0 /\ Grounded(row) => Grounded(new) /\ new.status # "VOID"
        /\ n > 0 /\ Tells(row) => Tells(new)
        /\ n > 0 /\ Received(i) >= 0 /\ row.total >= 0 /\ row.paid = Lesser(Received(i), row.total)
              => new.paid = Lesser(Received(i) + n, row.total)
    BY <1>1, <1>9, <2>2, AppliedBooks DEF Exists, IsDraft
  <2>4. /\ AllPositive' \/ Intact' => row.paid <= Received(i)
        /\ AllPositive' => /\ Grounded(row) /\ n > 0 /\ Received(i) >= 0
                           /\ Intact' /\ row.total >= 0
                                 => row.paid = Lesser(Received(i), row.total)
                           /\ Unmoved' => Tells(row)
    BY <1>1, <1>9, <2>1 DEF Booked
  <2>5. Succeeded(i)' # {}
    BY <1>3, <1>9
  <2>6. /\ AllPositive' \/ Intact' => new.paid <= Received(i)'
        /\ AllPositive' => /\ Grounded(new) /\ new.status # "VOID"
                           /\ Intact' /\ new.total >= 0
                                 => new.paid = Lesser(Received(i)', new.total)
                           /\ Unmoved' => Tells(new)
    <3> HIDE DEF row, new
    <3> QED BY <2>1, <2>2, <2>3, <2>4
  <2> QED BY <1>9, <2>3, <2>5, <2>6 DEF Booked, IsDraft, Grounded, Tells
<1> QED BY <1>8, <1>9

\* One payment is given back.
LEMMA RefundBooks ==
    ASSUME TypeOK, TypeOK', Placed, Books, NEW i \in Invoices, NEW p \in Payments,
           payments[p].status = "SUCCEEDED", payments[p].invoice = i,
           \A q \in Payments \ {p} : payments'[q] = payments[q],
           payments'[p].status = "REFUNDED",
           AllPositive' => AllPositive, Unmoved' => Unmoved,
           invoices' = Written(Write(i, Refunded(invoices[i], payments[p].amount)))
    PROVE  Books'
<1> SUFFICES ASSUME NEW j \in Invoices PROVE Booked(j)'
  BY DEF Books
<1> DEFINE n == payments[p].amount
           b == Refunded(invoices[i], n)
           w == Write(i, b)
<1>1. invoices[j] \in InvoiceRow /\ invoices'[j] \in InvoiceRow /\ Booked(j) /\ Received(j) \in Int
  BY ReceivedType DEF TypeOK, Books
<1>2. PICK rest \in Int :
         /\ Received(j) = IF p \in Succeeded(j) THEN rest + payments[p].amount ELSE rest
         /\ Received(j)' = IF p \in Succeeded(j)' THEN rest + payments'[p].amount ELSE rest
         /\ AllPositive => rest >= 0
  BY ReceivedMoves
<1>3. (p \in Succeeded(j) <=> j = i) /\ p \notin Succeeded(j)'
  BY DEF Succeeded
<1>4. payments[p] # NoPayment /\ n \in Int /\ (AllPositive => n > 0) /\ Exists(i)
  BY DEF TypeOK, PaymentRow, NoPayment, Placed, PlacedRow, AllPositive
<1>5. b \in Balance /\ b # Null /\ w \in Writes /\ w[i] = b /\ (j # i => w[j] = Null)
  BY <1>4, BalanceTypes, WriteTypes, WritesOne, NullIsNoBalance DEF TypeOK
<1>6. invoices' = Written(w)
  OBVIOUS
<1>7. ~Intact'
  BY DEF Intact
<1> HIDE DEF w
<1>8. CASE j # i
  <2>1. invoices'[j] = invoices[j]
    BY <1>5, <1>6, <1>8, WrittenTable
  <2>2. Received(j)' = Received(j)
    BY <1>2, <1>3, <1>8
  <2>3. Succeeded(j)' = Succeeded(j)
    BY <1>8 DEF Succeeded
  <2> QED BY <1>1, <1>7, <2>1, <2>2, <2>3, BookKept
<1>9. CASE j = i
  <2> DEFINE row == invoices[i]
             new == invoices'[i]
  <2>1. Received(i)' = rest /\ Received(i) = rest + n
    BY <1>2, <1>3, <1>9
  <2>2. new.total = row.total /\ new.status = b.status /\ new.paid = b.paid
    BY <1>5, <1>6, WrittenTable
  <2>3. AllPositive' => row.paid <= rest + n /\ rest >= 0 /\ n > 0 /\ (Unmoved' => Tells(row))
    BY <1>1, <1>2, <1>4, <1>9, <2>1 DEF Booked
  <2>4. /\ new.status \notin {"DRAFT", "VOID"} /\ new.paid >= 0
        /\ row.paid <= rest + n /\ rest >= 0 => new.paid <= rest
        /\ n > 0 /\ Tells(row) => Tells(new)
    BY <1>1, <1>4, <1>9, <2>2, RefundedBooks DEF Exists
  <2>5. Grounded(new)
    BY <2>4 DEF Grounded
  <2> QED BY <1>7, <1>9, <2>1, <2>3, <2>4, <2>5 DEF Booked, IsDraft, Grounded, Tells
<1> QED BY <1>8, <1>9

\* One payment, whatever its status, is moved from one invoice to another, or
\* matched to its own.
LEMMA MatchBooks ==
    ASSUME TypeOK, TypeOK', Placed, Books, NEW h \in Handlers, NEW r, r = req[h],
           r \in Active, r.op = "matching", Knows(r), r.payment \in Payments,
           payments[r.payment] # NoPayment,
           \A q \in Payments \ {r.payment} : payments'[q] = payments[q],
           payments'[r.payment].invoice = r.invoice, Moved(r.payment)',
           payments'[r.payment].status = payments[r.payment].status,
           payments'[r.payment].amount = payments[r.payment].amount,
           AllPositive' => AllPositive, invoices' = Written(r.writes)
    PROVE  Books'
<1> SUFFICES ASSUME NEW j \in Invoices PROVE Booked(j)'
  BY DEF Books
<1> DEFINE p == r.payment
           source == payments[p].invoice
<1>1. invoices[j] \in InvoiceRow /\ invoices'[j] \in InvoiceRow /\ Booked(j) /\ Received(j) \in Int
  BY ReceivedType DEF TypeOK, Books
<1>2. PICK rest \in Int :
         /\ Received(j) = IF p \in Succeeded(j) THEN rest + payments[p].amount ELSE rest
         /\ Received(j)' = IF p \in Succeeded(j)' THEN rest + payments'[p].amount ELSE rest
         /\ AllPositive => rest >= 0
  BY ReceivedMoves
<1>3. ~Intact' /\ ~Unmoved'
  BY DEF Intact, Unmoved
<1>4. /\ r.invoice \in Invoices /\ r.writes \in Writes /\ r.amount \in Int
      /\ r.amount = IF payments[p].status = "SUCCEEDED" THEN payments[p].amount ELSE 0
      /\ \A i \in Invoices \ {r.invoice} : (r.writes[i] # Null) <=> (i = source)
      /\ r.writes[r.invoice] = Matched(invoices[r.invoice], Sum(MatchedPayments(r)))
      /\ source # r.invoice => r.writes[source] = Unmatched(invoices[source], r.amount)
  BY DEF Knows, Active
<1>5. payments[p] \in Paid /\ (AllPositive => payments[p].amount > 0)
  BY DEF TypeOK, PaymentRow, Paid, Placed, PlacedRow, AllPositive
<1>6. CASE j = r.invoice
  <2>1. PICK X : X = MatchedPayments(r)
    OBVIOUS
  <2>2. Succeeded(j)' = X
    BY <1>6, <2>1 DEF Succeeded, MatchedPayments
  <2>3. Sum(X) = Received(j)'
    <3>1. \A q \in X : payments'[q].amount = payments[q].amount
      BY <2>1 DEF MatchedPayments, Succeeded
    <3>2. {{q} \X (1..payments[q].amount) : q \in X}
            = {{q} \X (1..payments'[q].amount) : q \in Succeeded(j)'}
      BY <2>2, <3>1
    <3>3. {{q} \X (1..(-payments[q].amount)) : q \in X}
            = {{q} \X (1..(-payments'[q].amount)) : q \in Succeeded(j)'}
      BY <2>2, <3>1
    <3> QED BY <3>2, <3>3 DEF Sum, Received
  <2>4. Received(j)' \in Int /\ (AllPositive => Received(j)' >= 0)
    BY <1>2, <1>5 DEF Paid
  <2>5. PICK b : b = Matched(invoices[j], Sum(X))
    OBVIOUS
  <2>6. b \in Balance /\ b # Null /\ r.writes[j] = b
    BY <1>1, <1>4, <1>6, <2>1, <2>3, <2>4, <2>5, BalanceTypes, NullIsNoBalance
  <2>7. invoices'[j].status = b.status /\ invoices'[j].paid = b.paid
        /\ invoices'[j].total = invoices[j].total
    BY <1>4, <2>6, WrittenTable
  <2>8. /\ b.paid <= Sum(X) /\ b.status \notin {"DRAFT", "VOID"}
        /\ Sum(X) >= 0 => b.paid >= 0 \/ b.paid >= invoices[j].total
    BY <1>1, <2>3, <2>4, <2>5 DEF Matched, Lesser, InvoiceRow
  <2> QED BY <1>3, <2>3, <2>4, <2>7, <2>8 DEF Booked, IsDraft, Grounded
<1>7. CASE j # r.invoice /\ j = source
  <2>1. p \notin Succeeded(j)' /\ (p \in Succeeded(j) <=> payments[p].status = "SUCCEEDED")
    BY <1>7 DEF Succeeded
  <2>2. Received(j) = rest + r.amount /\ Received(j)' = rest
    BY <1>2, <1>4, <2>1
  <2>3. PICK b : b = Unmatched(invoices[j], r.amount)
    OBVIOUS
  <2>4. b \in Balance /\ b # Null /\ r.writes[j] = b
    BY <1>1, <1>4, <1>7, <2>3, BalanceTypes, NullIsNoBalance
  <2>5. invoices'[j].status = b.status /\ invoices'[j].paid = b.paid
    BY <1>4, <2>4, WrittenTable
  <2>6. AllPositive => invoices[j].paid <= rest + r.amount /\ rest >= 0
    BY <1>1, <1>2, <2>2 DEF Booked
  <2>7. b.paid >= 0 /\ (AllPositive => b.paid <= rest)
    BY <1>1, <1>4, <2>3, <2>6 DEF Unmatched, Less, InvoiceRow
  <2>8. b.status \notin {"DRAFT", "VOID"}
    BY <2>3 DEF Unmatched
  <2> QED BY <1>3, <2>2, <2>5, <2>7, <2>8 DEF Booked, IsDraft, Grounded
<1>8. CASE j # r.invoice /\ j # source
  <2>1. invoices'[j] = invoices[j]
    BY <1>4, <1>8, WrittenTable
  <2>2. p \notin Succeeded(j) /\ p \notin Succeeded(j)'
    BY <1>8 DEF Succeeded
  <2>3. Received(j)' = Received(j)
    BY <1>2, <2>2
  <2>4. Succeeded(j)' = Succeeded(j)
    BY <2>2 DEF Succeeded
  <2> QED BY <1>1, <1>3, <2>1, <2>3, <2>4, BookKept
<1> QED BY <1>6, <1>7, <1>8

\* A step that touches no payment changes the row of at most one invoice, as
\* its draft is created, edited, issued, or it is voided or falls due.
LEMMA RowBooks ==
    ASSUME TypeOK, TypeOK', Known, Placed, Books, payments' = payments, NEW i \in Invoices,
           \A j \in Invoices \ {i} : invoices'[j] = invoices[j],
           \/ /\ ~Exists(i) \/ IsDraft(i)
              /\ invoices'[i].status \in {"DRAFT", "ISSUED"} /\ invoices'[i].paid = 0
           \/ /\ Exists(i) /\ Succeeded(i) = {} /\ invoices'[i].status = "VOID"
              /\ invoices'[i].paid = invoices[i].paid /\ invoices'[i].total = invoices[i].total
           \/ /\ invoices'[i].status = "OVERDUE" /\ invoices[i].paid < invoices[i].total
              /\ invoices'[i].paid = invoices[i].paid /\ invoices'[i].total = invoices[i].total
    PROVE  Books'
<1> SUFFICES ASSUME NEW j \in Invoices PROVE Booked(j)'
  BY DEF Books
<1>1. invoices[j] \in InvoiceRow /\ invoices'[j] \in InvoiceRow /\ Booked(j) /\ Received(j) \in Int
  BY ReceivedType DEF TypeOK, Books
<1>2. /\ Succeeded(j)' = Succeeded(j) /\ Received(j)' = Received(j)
      /\ Intact' = Intact /\ Unmoved' = Unmoved /\ AllPositive' = AllPositive
  BY DEF Succeeded, Received, Sum, Intact, Unmoved, Moved, AllPositive
<1>3. CASE j # i
  BY <1>1, <1>2, <1>3, BookKept
<1>4. CASE j = i
  <2>1. Succeeded(j) = {} => Received(j) = 0
    BY ReceivedType
  <2>2. CASE /\ ~Exists(i) \/ IsDraft(i)
             /\ invoices'[i].status \in {"DRAFT", "ISSUED"} /\ invoices'[i].paid = 0
    <3>1. Succeeded(j) = {}
      BY <1>4, <2>2 DEF Succeeded, NoPayment, Placed, PlacedRow
    <3>2. invoices'[j].total >= 0 => 0 = Lesser(Received(j), invoices'[j].total)
      BY <1>1, <2>1, <3>1 DEF Lesser, InvoiceRow
    <3>3. Tells(invoices[j])' /\ Grounded(invoices[j])'
      BY <1>4, <2>2 DEF Tells, Grounded
    <3> QED BY <1>2, <1>4, <2>1, <2>2, <3>1, <3>2, <3>3 DEF Booked
  <2>3. CASE /\ Exists(i) /\ Succeeded(i) = {} /\ invoices'[i].status = "VOID"
             /\ invoices'[i].paid = invoices[i].paid /\ invoices'[i].total = invoices[i].total
    <3>1. AllPositive /\ Unmoved => invoices[j].paid = 0
      BY <1>1, <1>4, <2>1, <2>3 DEF Booked, InvoiceRow
    <3>2. AllPositive /\ Unmoved => Tells(invoices[j])'
      BY <1>4, <2>3, <3>1 DEF Tells
    <3>3. AllPositive => Grounded(invoices[j])'
      BY <1>1, <1>4, <2>3 DEF Booked, Grounded
    <3> QED BY <1>1, <1>2, <1>4, <2>3, <3>2, <3>3 DEF Booked, IsDraft
  <2>4. CASE /\ invoices'[i].status = "OVERDUE" /\ invoices[i].paid < invoices[i].total
             /\ invoices'[i].paid = invoices[i].paid /\ invoices'[i].total = invoices[i].total
    <3>1. Tells(invoices[j])'
      BY <1>4, <2>4 DEF Tells
    <3>2. AllPositive => Grounded(invoices[j])'
      BY <1>1, <1>4, <2>4 DEF Booked, Grounded
    <3> QED BY <1>1, <1>2, <1>4, <2>4, <3>1, <3>2 DEF Booked, IsDraft
  <2> QED BY <2>2, <2>3, <2>4
<1> QED BY <1>3, <1>4
-----------------------------------------------------------------------------
\* No step takes an invoice out of the table or back to a draft.
LEMMA InvoicesProgress ==
    ASSUME MoneyInv, NEW h \in Handlers,
           \/ CommitUpdate(h) \/ CommitIssue(h) \/ CommitVoid(h) \/ CommitSweep(h)
           \/ CommitPayment(h) \/ CommitRefund(h) \/ CommitSettled(h) \/ CommitMatched(h)
    PROVE  \A i \in Invoices : /\ Exists(i) => Exists(i)'
                               /\ IsDraft(i)' => IsDraft(i)
<1> USE DEF MoneyInv, NumberingInv, NumberInv
<1>1. CASE CommitUpdate(h) \/ CommitIssue(h) \/ CommitVoid(h) \/ CommitSweep(h)
  <2>1. req[h].invoice \in Invoices
    BY <1>1, ActiveRequest DEF CommitUpdate, CommitIssue, CommitVoid, CommitSweep, Finish, Active
  <2> QED BY <1>1, <2>1 DEF CommitUpdate, CommitIssue, CommitVoid, CommitSweep, TypeOK,
                            InvoiceRow, Exists, IsDraft
<1>2. CASE CommitPayment(h) \/ CommitRefund(h) \/ CommitSettled(h) \/ CommitMatched(h)
  <2> SUFFICES ASSUME NEW i \in Invoices
               PROVE  (Exists(i) => Exists(i)') /\ (IsDraft(i)' => IsDraft(i))
    OBVIOUS
  <2>1. PICK r : r = req[h]
    OBVIOUS
  <2>2. r.writes \in Writes /\ invoices' = Written(r.writes)
    BY <1>2, <2>1, BalancesWritten
  <2>3. Knows(r) /\ r.invoice \in Invoices
    BY <1>2, <2>1, ActiveRequest
       DEF CommitPayment, CommitRefund, CommitSettled, CommitMatched, Finish, Active, RequestsKnow
  <2>4. r.writes[i] # Null /\ r.writes[i].status = "DRAFT" => IsDraft(i)
    <3>1. CASE CommitPayment(h) \/ CommitSettled(h)
      <4>1. Credits(r)
        BY <2>1, <2>3, <3>1 DEF CommitPayment, CommitSettled, Finish, Knows
      <4> QED BY <2>3, <4>1, WritesOne DEF Credits, Applied, IsDraft
    <3>2. CASE CommitRefund(h)
      <4>1. r.writes = Write(r.invoice, Refunded(invoices[r.invoice], r.amount))
        BY <2>1, <2>3, <3>2 DEF CommitRefund, Finish, Knows
      <4> QED BY <2>3, <4>1, WritesOne DEF Refunded
    <3>3. CASE CommitMatched(h)
      <4>1. /\ r.writes[r.invoice] = Matched(invoices[r.invoice], Sum(MatchedPayments(r)))
            /\ i # r.invoice /\ r.writes[i] # Null
                  => r.writes[i] = Unmatched(invoices[i], r.amount)
        BY <2>1, <2>3, <3>3 DEF CommitMatched, Finish, Knows
      <4>2. Unmatched(invoices[i], r.amount).status # "DRAFT"
        BY DEF Unmatched
      <4>3. Matched(invoices[r.invoice], Sum(MatchedPayments(r))).status # "DRAFT"
        BY DEF Matched
      <4> QED BY <4>1, <4>2, <4>3
    <3> QED BY <1>2, <3>1, <3>2, <3>3
  <2> QED BY <2>2, <2>4, WrittenTable DEF Exists, IsDraft
<1> QED BY <1>1, <1>2

\* A step that changes one payment, and makes no open intent of it.
LEMMA OnePayment ==
    ASSUME TypeOK, TypeOK', Placed, IntentsDistinct, NEW p \in Payments,
           \A q \in Payments \ {p} : payments'[q] = payments[q],
           \A i \in Invoices : (Exists(i) => Exists(i)') /\ (IsDraft(i)' => IsDraft(i)),
           PlacedRow(p)', ~OpenIntent(p)'
    PROVE  Placed' /\ IntentsDistinct'
<1>1. Placed'
  <2> SUFFICES ASSUME NEW q \in Payments PROVE PlacedRow(q)'
    BY DEF Placed
  <2>1. CASE q = p
    BY <2>1
  <2>2. CASE q # p
    <3>1. payments'[q] = payments[q] /\ PlacedRow(q)
      BY <2>2 DEF Placed
    <3>2. payments[q] # NoPayment => payments[q].invoice \in Invoices
      BY DEF TypeOK, PaymentRow
    <3> QED BY <3>1, <3>2 DEF PlacedRow, Exists, IsDraft
  <2> QED BY <2>1, <2>2
<1>2. IntentsDistinct'
  BY DEF IntentsDistinct, OpenIntent
<1> QED BY <1>1, <1>2

\* A step that changes no payment.
LEMMA NoPaymentChanges ==
    ASSUME TypeOK, Placed, IntentsDistinct, payments' = payments,
           \A i \in Invoices : (Exists(i) => Exists(i)') /\ (Exists(i) /\ IsDraft(i)' => IsDraft(i))
    PROVE  Placed' /\ IntentsDistinct'
<1>1. \A q \in Payments : payments[q] # NoPayment => payments[q].invoice \in Invoices
  BY DEF TypeOK, PaymentRow
<1>2. Placed'
  BY <1>1 DEF Placed, PlacedRow, Exists, IsDraft
<1> QED BY <1>2 DEF IntentsDistinct, OpenIntent
-----------------------------------------------------------------------------
\* A request that begins knows the rows that it has just read.
LEMMA SameTables ==
    ASSUME UNCHANGED <<invoices, payments>>, NEW h \in Handlers, NEW r, r = req'[h], Knows(r)
    PROVE  Knows(req[h])'
<1>1. Knows(req[h])' <=> Knows(r)'
  BY DEF Knows, IsDraft, Exists, Credits, Succeeded, OpenIntents, MatchedPayments
<1>2. Knows(r)'
  BY DEF Knows, IsDraft, Exists, Credits, Succeeded, OpenIntents, MatchedPayments, Sum
<1> QED BY <1>1, <1>2

LEMMA BeginKnows ==
    ASSUME TypeOK, NEW h \in Handlers, NEW op, NEW i, NEW p, NEW n, NEW w,
           Begin(h, op, i, p, n, w),
           Knows([op |-> op, invoice |-> i, payment |-> p, amount |-> n, writes |-> w])
    PROVE  Knows(req[h])'
<1>1. req'[h] = [op |-> op, invoice |-> i, payment |-> p, amount |-> n, writes |-> w]
  BY DEF Begin, TypeOK
<1>2. UNCHANGED <<invoices, payments>>
  BY DEF Begin
<1> QED BY <1>1, <1>2, SameTables

LEMMA ReadsKnow ==
    ASSUME NumberingInv, Placed, RequestsKnow, NEW h \in Handlers, Reads(h)
    PROVE  Knows(req[h])'
<1> USE DEF NumberingInv, NumberInv
<1>0. /\ \A i \in Invoices : invoices[i] \in InvoiceRow
      /\ \A p \in Payments : payments[p] # NoPayment => payments[p].invoice \in Invoices
      /\ \A i \in Invoices : invoices[i].number # 0 => Exists(i) /\ ~IsDraft(i)
  BY DEF TypeOK, PaymentRow, UnbornUnnumbered, NumberedLeavesDraft
<1>1. ASSUME NEW i \in Invoices,
             \/ \E total \in Totals : BeginUpdate(h, i, total)
             \/ BeginIssue(h, i) \/ BeginVoid(h, i) \/ BeginSweep(h, i)
      PROVE  Knows(req[h])'
  <2>1. CASE \E total \in Totals : BeginUpdate(h, i, total)
    BY <2>1, BeginKnows DEF BeginUpdate, Knows
  <2>2. CASE BeginIssue(h, i)
    BY <2>2, BeginKnows DEF BeginIssue, Knows
  <2>3. CASE BeginVoid(h, i)
    BY <2>3, BeginKnows DEF BeginVoid, Knows
  <2>4. CASE BeginSweep(h, i)
    BY <2>4, BeginKnows DEF BeginSweep, Knows
  <2> QED BY <1>1, <2>1, <2>2, <2>3, <2>4
<1>2. ASSUME NEW i \in Invoices, NEW p \in Payments, NEW n \in Amounts, BeginRecord(h, i, p, n)
      PROVE  Knows(req[h])'
  <2>1. Exists(i) /\ ~IsDraft(i)
    BY <1>2 DEF BeginRecord, IsDraft
  <2>2. Begin(h, "record", i, p, n, Write(i, Applied(invoices[i], n)))
    BY <1>2 DEF BeginRecord
  <2> QED BY <2>1, <2>2, BeginKnows DEF Knows, Credits
<1>3. ASSUME NEW i \in Invoices, NEW p \in Payments, NEW n \in Amounts, BeginWebhook(h, p, i, n)
      PROVE  Knows(req[h])'
  <2>2. CASE payments[p].status = "INITIATED"
    <3>1. Begin(h, "settle", payments[p].invoice, p, n, NoWrites)
      BY <1>3, <2>2 DEF BeginWebhook
    <3> QED BY <2>2, <3>1, BeginKnows DEF Knows
  <2>3. CASE payments[p].status # "INITIATED"
    <3>1. Begin(h, "direct", i, p, n, Write(i, Applied(invoices[i], n)))
          /\ Exists(i) /\ ~IsDraft(i)
      BY <1>0, <1>3, <2>3 DEF BeginWebhook
    <3> QED BY <3>1, BeginKnows DEF Knows, Credits
  <2> QED BY <2>2, <2>3
<1>4. ASSUME NEW i \in Invoices, NEW p \in Payments, NEW keyed \in BOOLEAN,
             BeginIntent(h, i, p, keyed)
      PROVE  Knows(req[h])'
  <2> DEFINE op == IF keyed THEN "keyed" ELSE "intent"
             n == invoices[i].total - invoices[i].paid
  <2>1. Exists(i) /\ ~IsDraft(i)
    BY <1>4 DEF BeginIntent, Exists, IsDraft
  <2>2. Begin(h, op, i, p, n, NoWrites)
    BY <1>4 DEF BeginIntent
  <2>3. op \in {"keyed", "intent"} /\ (op = "keyed" => OpenIntents(i) = {})
    BY <1>4 DEF BeginIntent
  <2> HIDE DEF op, n
  <2> QED BY <2>1, <2>2, <2>3, BeginKnows DEF Knows
<1>5. ASSUME NEW i \in Invoices, NEW p \in Payments, BeginMatch(h, p, i)
      PROVE  Knows(req[h])'
  <2> DEFINE row == payments[p]
             b == [status |-> "ISSUED", paid |-> 0]
             n == IF row.status = "SUCCEEDED" THEN row.amount ELSE 0
             w == IF row.invoice = i THEN NoWrites ELSE Write(row.invoice, b)
  <2>1. row.invoice \in Invoices /\ Exists(i) /\ Begin(h, "match", i, p, n, w)
    BY <1>0, <1>5 DEF BeginMatch
  <2>2. b # Null
    BY NullIsNoBalance DEF Balance, InvoiceStatus
  <2>3. \A j \in Invoices \ {i} : (w[j] # Null) <=> (j = row.invoice)
    <3> HIDE DEF b
    <3> QED BY <2>1, <2>2, WritesOne
  <2>4. n = IF row.status = "SUCCEEDED" THEN row.amount ELSE 0
    OBVIOUS
  <2> HIDE DEF n, w
  <2> QED BY <2>1, <2>3, <2>4, BeginKnows DEF Knows
<1>6. ASSUME NEW p \in Payments, BeginRefund(h, p)
      PROVE  Knows(req[h])'
  BY <1>6, BeginKnows DEF BeginRefund, Knows
<1>7. CASE ReadSettled(h)
  <2> DEFINE r == req[h]
             w == Write(r.invoice, Applied(invoices[r.invoice], r.amount))
             s == [r EXCEPT !.op = "settling", !.writes = w]
  <2>1. r \in Active /\ r.op = "settle" /\ Knows(r)
    BY <1>7, ActiveRequest DEF ReadSettled, RequestsKnow
  <2>2. req'[h] = s /\ UNCHANGED <<invoices, payments>>
    BY <1>7 DEF ReadSettled, TypeOK
  <2>3. /\ s.op = "settling" /\ s.invoice = r.invoice /\ s.payment = r.payment
        /\ s.amount = r.amount /\ s.writes = w
    BY <2>1 DEF Active
  <2> HIDE DEF s
  <2>4. Knows(s)
    BY <2>1, <2>3 DEF Knows, Credits
  <2> QED BY <2>2, <2>4, SameTables
<1>8. CASE ReadMatched(h)
  <2> DEFINE r == req[h]
             w == [i \in Invoices |->
                     IF i = r.invoice THEN Matched(invoices[i], Sum(MatchedPayments(r)))
                     ELSE IF r.writes[i] = Null THEN Null
                     ELSE Unmatched(invoices[i], r.amount)]
             s == [r EXCEPT !.op = "matching", !.writes = w]
  <2>1. r \in Active /\ r.op = "match" /\ Knows(r)
    BY <1>8, ActiveRequest DEF ReadMatched, RequestsKnow
  <2>2. req'[h] = s /\ UNCHANGED <<invoices, payments>>
    BY <1>8 DEF ReadMatched, TypeOK, MatchedPayments
  <2>3. /\ s.op = "matching" /\ s.invoice = r.invoice /\ s.payment = r.payment
        /\ s.amount = r.amount /\ s.writes = w
    BY <2>1 DEF Active
  <2>4. /\ r.invoice \in Invoices /\ r.amount \in Int /\ Exists(r.invoice)
        /\ r.amount = IF payments[r.payment].status = "SUCCEEDED"
                      THEN payments[r.payment].amount ELSE 0
        /\ \A i \in Invoices \ {r.invoice} :
              (r.writes[i] # Null) <=> (i = payments[r.payment].invoice)
    BY <2>1 DEF Active, Knows
  <2>5. \A i \in Invoices : Unmatched(invoices[i], r.amount) # Null
    BY <1>0, <2>4, BalanceTypes, NullIsNoBalance
  <2>6. MatchedPayments(s) = MatchedPayments(r)
    BY <2>3 DEF MatchedPayments
  <2>7. /\ w[r.invoice] = Matched(invoices[r.invoice], Sum(MatchedPayments(r)))
        /\ \A i \in Invoices \ {r.invoice} :
              /\ (w[i] # Null) <=> (i = payments[r.payment].invoice)
              /\ w[i] # Null => w[i] = Unmatched(invoices[i], r.amount)
    BY <2>4, <2>5
  <2>8. payments[r.payment].invoice \in Invoices
    <3>1. r.payment \in Payments /\ payments[r.payment] # NoPayment
      BY <2>1 DEF Known, KnownBy, PaymentOps
    <3> QED BY <1>0, <3>1
  <2> HIDE DEF s, w
  <2>9. Knows(s)
    BY <2>3, <2>4, <2>6, <2>7, <2>8 DEF Knows
  <2> QED BY <2>2, <2>9, SameTables
<1> QED BY <1>1, <1>2, <1>3, <1>4, <1>5, <1>6, <1>7, <1>8 DEF Reads

\* A draft that is created meanwhile is none of the rows that were read.
LEMMA CreateKeepsKnowing ==
    ASSUME TypeOK, Known, Placed, NEW h \in Handlers, Knows(req[h]),
           NEW i \in Invoices, NEW total \in Totals, CreateInvoice(i, total)
    PROVE  Knows(req[h])'
<1> DEFINE r == req[h]
<1>1. CASE r = Idle
  BY <1>1 DEF CreateInvoice, Knows, Idle
<1>2. CASE r # Idle
  <2>1. /\ UNCHANGED <<payments, req>>
        /\ \A j \in Invoices : Exists(j) => invoices'[j] = invoices[j]
    BY DEF CreateInvoice, TypeOK, Exists
  <2>2. r \in Active /\ r.invoice \in Invoices
    BY <1>2 DEF TypeOK, Request, Active
  <2>3. r.op \in PaymentOps => payments[r.payment].invoice \in Invoices
                               /\ Exists(payments[r.payment].invoice)
    BY DEF Known, KnownBy, TypeOK, PaymentRow, Placed, PlacedRow
  <2>4. \A j \in Invoices : IsDraft(j) => Exists(j)
    BY DEF IsDraft, Exists
  <2>5. r.op \in {"update", "issue", "record", "direct", "refund", "void", "intent", "keyed",
                  "settle", "settling", "match", "matching", "sweep"} => Exists(r.invoice)
    <3>1. CASE r.op \in {"update", "issue"}
      BY <2>2, <2>4, <3>1 DEF Knows
    <3>2. CASE r.op \in {"refund", "settle", "settling", "match", "matching"}
      BY <2>3, <3>2 DEF Knows, PaymentOps
    <3>3. CASE r.op \in {"record", "direct", "void", "intent", "keyed"}
      BY <3>3 DEF Knows
    <3>4. CASE r.op = "sweep"
      BY <3>4 DEF Knows, Exists
    <3> QED BY <3>1, <3>2, <3>3, <3>4
  <2>6. CASE r.op = "matching"
    <3>1. Exists(r.invoice) /\ Exists(payments[r.payment].invoice)
          /\ payments[r.payment].invoice \in Invoices
      BY <2>3, <2>5, <2>6 DEF PaymentOps
    <3>2. /\ invoices'[r.invoice] = invoices[r.invoice]
          /\ invoices'[payments[r.payment].invoice] = invoices[payments[r.payment].invoice]
      BY <2>1, <2>2, <3>1
    <3>3. Sum(MatchedPayments(req[h]))' = Sum(MatchedPayments(r))
      BY <2>1 DEF MatchedPayments, Succeeded, Sum
    <3> QED BY <2>1, <2>6, <3>1, <3>2, <3>3 DEF Knows, Exists
  <2>7. CASE r.op \in {"update", "issue", "record", "direct", "refund", "void", "intent", "keyed",
                       "settle", "settling", "match", "sweep"}
    <3>1. Exists(r.invoice) /\ invoices'[r.invoice] = invoices[r.invoice]
      BY <2>1, <2>2, <2>5, <2>7
    <3>2. CASE r.op \in {"update", "issue", "refund", "void", "intent", "keyed", "settle",
                         "match", "sweep"}
      BY <2>1, <3>1, <3>2 DEF Knows, Exists, IsDraft, Succeeded, OpenIntents
    <3>3. CASE r.op \in {"record", "direct", "settling"}
      <4>1. Credits(r)
        BY <3>3 DEF Knows
      <4>2. Credits(req[h])'
        BY <2>1, <3>1, <4>1 DEF Credits
      <4> QED BY <2>1, <3>1, <3>3, <4>2 DEF Knows, Exists, IsDraft
    <3> QED BY <2>7, <3>2, <3>3
  <2>8. CASE r.op = "webhook"
    BY <2>1, <2>8 DEF Knows
  <2> QED BY <2>2, <2>6, <2>7, <2>8 DEF Active, AllOps
<1> QED BY <1>1, <1>2

LEMMA CreateKeepsMoney ==
    ASSUME MoneyInv, TypeOK', NEW i \in Invoices, NEW total \in Totals, CreateInvoice(i, total)
    PROVE  Placed' /\ IntentsDistinct' /\ RequestsKnow' /\ Books'
<1> USE DEF MoneyInv, NumberingInv, NumberInv
<1>1. /\ ~Exists(i) /\ payments' = payments
      /\ invoices'[i].status = "DRAFT" /\ invoices'[i].paid = 0
      /\ \A j \in Invoices \ {i} : invoices'[j] = invoices[j]
  BY DEF CreateInvoice, TypeOK
<1>2. \A j \in Invoices : (Exists(j) => Exists(j)') /\ (Exists(j) /\ IsDraft(j)' => IsDraft(j))
  BY <1>1 DEF Exists, IsDraft
<1>3. Placed' /\ IntentsDistinct'
  BY <1>1, <1>2, NoPaymentChanges
<1>4. Books'
  BY <1>1, RowBooks
<1>5. RequestsKnow'
  BY CreateKeepsKnowing DEF RequestsKnow
<1> QED BY <1>3, <1>4, <1>5

\* The steps that change a row of an invoice and no payment.
LEMMA RowsKeepMoney ==
    ASSUME MoneyInv, TypeOK', NEW h \in Handlers,
           CommitUpdate(h) \/ CommitIssue(h) \/ CommitVoid(h) \/ CommitSweep(h)
    PROVE  Placed' /\ IntentsDistinct' /\ Books'
<1> USE DEF MoneyInv, NumberingInv, NumberInv
<1> DEFINE r == req[h]
           i == r.invoice
<1>1. i \in Invoices /\ Knows(r) /\ payments' = payments
  BY ActiveRequest DEF CommitUpdate, CommitIssue, CommitVoid, CommitSweep, Finish, Active,
                       RequestsKnow
<1>2. Placed' /\ IntentsDistinct'
  BY <1>1, InvoicesProgress, NoPaymentChanges
<1>a. IsDraft(i) => invoices[i].paid = 0
  BY <1>1 DEF Books, Booked
<1>3. invoices[i] \in InvoiceRow
  BY <1>1 DEF TypeOK
<1>4. CASE CommitUpdate(h)
  <2>1. invoices' = [invoices EXCEPT ![i] = [invoices[i] EXCEPT !.total = r.amount]]
    BY <1>4 DEF CommitUpdate
  <2>2. /\ IsDraft(i) /\ invoices'[i].paid = 0 /\ invoices'[i].status = "DRAFT"
        /\ \A j \in Invoices \ {i} : invoices'[j] = invoices[j]
    BY <1>1, <1>a, <1>3, <1>4, <2>1 DEF CommitUpdate, Finish, Knows, TypeOK, IsDraft, InvoiceRow
  <2> HIDE DEF i, r
  <2> QED BY <1>1, <1>2, <2>2, RowBooks
<1>5. CASE CommitIssue(h)
  <2>1. invoices' = [invoices EXCEPT ![i] = [invoices[i] EXCEPT !.number = lastNumber + 1,
                                                                !.status = "ISSUED"]]
    BY <1>5 DEF CommitIssue
  <2>2. /\ IsDraft(i) /\ invoices'[i].paid = 0 /\ invoices'[i].status = "ISSUED"
        /\ \A j \in Invoices \ {i} : invoices'[j] = invoices[j]
    BY <1>1, <1>a, <1>3, <1>5, <2>1 DEF CommitIssue, Finish, Knows, TypeOK, InvoiceRow
  <2> HIDE DEF i, r
  <2> QED BY <1>1, <1>2, <2>2, RowBooks
<1>6. CASE CommitVoid(h)
  <2>1. invoices' = [invoices EXCEPT ![i] = [invoices[i] EXCEPT !.status = "VOID"]]
    BY <1>6 DEF CommitVoid
  <2>2. /\ Exists(i) /\ Succeeded(i) = {} /\ invoices'[i].status = "VOID"
        /\ invoices'[i].paid = invoices[i].paid /\ invoices'[i].total = invoices[i].total
        /\ \A j \in Invoices \ {i} : invoices'[j] = invoices[j]
    BY <1>1, <1>3, <1>6, <2>1 DEF CommitVoid, Finish, Knows, TypeOK, InvoiceRow
  <2> HIDE DEF i, r
  <2> QED BY <1>1, <1>2, <2>2, RowBooks
<1>7. CASE CommitSweep(h)
  <2>1. invoices' = [invoices EXCEPT ![i] = [invoices[i] EXCEPT !.status = "OVERDUE"]]
    BY <1>7 DEF CommitSweep
  <2>2. /\ invoices[i].paid < invoices[i].total /\ invoices'[i].status = "OVERDUE"
        /\ invoices'[i].paid = invoices[i].paid /\ invoices'[i].total = invoices[i].total
        /\ \A j \in Invoices \ {i} : invoices'[j] = invoices[j]
    BY <1>1, <1>3, <1>7, <2>1 DEF CommitSweep, Finish, Knows, TypeOK, InvoiceRow
  <2> HIDE DEF i, r
  <2> QED BY <1>1, <1>2, <2>2, RowBooks
<1> QED BY <1>4, <1>5, <1>6, <1>7

\* An intent is opened: nothing is received yet.
LEMMA IntentKeepsMoney ==
    ASSUME MoneyInv, TypeOK', NEW h \in Handlers, CommitIntent(h)
    PROVE  Placed' /\ IntentsDistinct' /\ Books'
<1> USE DEF MoneyInv, NumberingInv, NumberInv
<1> DEFINE r == req[h]
           p == r.payment
<1>1. r \in Active /\ Knows(r) /\ r.op \in {"intent", "keyed"} /\ invoices' = invoices
  BY ActiveRequest DEF CommitIntent, Finish, RequestsKnow
<1>2. /\ payments[p] = NoPayment
      /\ payments' = [payments EXCEPT ![p] =
            [status |-> "INITIATED", invoice |-> r.invoice, amount |-> r.amount,
             keyed |-> (r.op = "keyed"), moved |-> FALSE, positive |-> r.amount > 0]]
  BY DEF CommitIntent, NewPayment, Finish
<1>0. AllPositive' => AllPositive
  BY PositiveBefore DEF Next
<1>3. r.invoice \in Invoices /\ Exists(r.invoice) /\ ~IsDraft(r.invoice)
      /\ (r.op = "keyed" => OpenIntents(r.invoice) = {})
  BY <1>1 DEF Active, Knows
<1>4. CASE p \notin Payments
  <2>1. payments' = payments
    BY <1>2, <1>4 DEF TypeOK
  <2>2. Placed' /\ IntentsDistinct'
    BY <1>1, <2>1, NoPaymentChanges DEF Exists, IsDraft
  <2>3. Books'
    <3> SUFFICES ASSUME NEW j \in Invoices PROVE Booked(j)'
      BY DEF Books
    <3>1. Succeeded(j)' = Succeeded(j) /\ Received(j)' = Received(j)
      BY <2>1 DEF Received, Succeeded, Sum
    <3>2. (Intact' => Intact) /\ (Unmoved' => Unmoved)
      BY <2>1 DEF Intact, Unmoved, Moved
    <3> QED BY <1>0, <1>1, <3>1, <3>2, BookKept DEF Books
  <2> QED BY <2>2, <2>3
<1>5. CASE p \in Payments
  <2>1. /\ \A q \in Payments \ {p} : payments'[q] = payments[q]
        /\ payments'[p].status = "INITIATED" /\ payments'[p].invoice = r.invoice
        /\ payments'[p].amount = r.amount /\ payments'[p].keyed = (r.op = "keyed")
        /\ payments'[p].moved = FALSE /\ payments'[p].positive = (r.amount > 0)
    BY <1>2, <1>5 DEF TypeOK
  <2>2. payments[p].status = "ABSENT"
    BY <1>2 DEF NoPayment
  <2> HIDE DEF p, r
  <2>3. Placed'
    <3> SUFFICES ASSUME NEW q \in Payments PROVE PlacedRow(q)'
      BY DEF Placed
    <3>1. CASE q = p
      BY <1>1, <1>3, <2>1, <3>1 DEF PlacedRow, Exists, IsDraft
    <3>2. CASE q # p
      BY <1>1, <2>1, <3>2 DEF Placed, PlacedRow, Exists, IsDraft
    <3> QED BY <3>1, <3>2
  <2>4. IntentsDistinct'
    <3> SUFFICES ASSUME NEW q \in Payments, NEW x \in Payments, q # x,
                        OpenIntent(q)', OpenIntent(x)',
                        payments'[q].invoice = payments'[x].invoice
                 PROVE  FALSE
      BY DEF IntentsDistinct
    <3>1. CASE q # p /\ x # p
      BY <2>1, <3>1 DEF IntentsDistinct, OpenIntent
    <3>2. ASSUME NEW y \in Payments, NEW z \in Payments, z = p, y # z,
                 OpenIntent(y)', OpenIntent(z)',
                 payments'[y].invoice = payments'[z].invoice
          PROVE  FALSE
      <4>1. OpenIntents(r.invoice) = {}
        BY <1>3, <2>1, <3>2 DEF OpenIntent
      <4>2. payments[y].status = "INITIATED" /\ payments[y].keyed
            /\ payments[y].invoice = r.invoice
        BY <2>1, <3>2 DEF OpenIntent
      <4> QED BY <4>1, <4>2 DEF OpenIntents
    <3> QED BY <3>1, <3>2
  <2>5. Books'
    <3> SUFFICES ASSUME NEW j \in Invoices PROVE Booked(j)'
      BY DEF Books
    <3>1. p \notin Succeeded(j) /\ p \notin Succeeded(j)'
      BY <2>1, <2>2 DEF Succeeded
    <3>2. Succeeded(j)' = Succeeded(j)
      BY <2>1, <3>1 DEF Succeeded
    <3>3. Received(j)' = Received(j)
      BY <1>5, <2>1, <3>1, ReceivedMoves
    <3>4. (Intact' => Intact) /\ (Unmoved' => Unmoved)
      BY <1>2, <2>1, <2>2 DEF Intact, Unmoved, Moved, p, r
    <3> QED BY <1>0, <1>1, <3>2, <3>3, <3>4, BookKept DEF Books
  <2> QED BY <2>3, <2>4, <2>5
<1> QED BY <1>4, <1>5

\* The steps that settle, give back or move a payment.
LEMMA PaymentsKeepMoney ==
    ASSUME MoneyInv, TypeOK', NEW h \in Handlers,
           CommitPayment(h) \/ CommitRefund(h) \/ CommitSettled(h) \/ CommitMatched(h)
    PROVE  Placed' /\ IntentsDistinct' /\ Books'
<1> USE DEF MoneyInv, NumberingInv, NumberInv
<1>1. PICK r : r = req[h]
  OBVIOUS
<1>2. PICK p : p = r.payment
  OBVIOUS
<1>3. PICK i : i = r.invoice
  OBVIOUS
<1>4. r \in Active /\ Knows(r) /\ i \in Invoices /\ r.amount \in Int
  BY <1>1, <1>3, ActiveRequest
     DEF CommitPayment, CommitRefund, CommitSettled, CommitMatched, Finish, RequestsKnow, Active
<1>5. \A j \in Invoices : (Exists(j) => Exists(j)') /\ (IsDraft(j)' => IsDraft(j))
  BY InvoicesProgress
<1>0. AllPositive' => AllPositive
  BY PositiveBefore DEF Next
<1>6. invoices' = Written(r.writes)
  BY <1>1 DEF CommitPayment, CommitRefund, CommitSettled, CommitMatched
<1>7. CASE CommitPayment(h)
  <2>1. /\ r.op \in {"record", "direct"} /\ payments[p] = NoPayment
        /\ payments' = [payments EXCEPT ![p] =
              [status |-> "SUCCEEDED", invoice |-> i, amount |-> r.amount,
               keyed |-> FALSE, moved |-> FALSE, positive |-> r.amount > 0]]
    BY <1>1, <1>2, <1>3, <1>7 DEF CommitPayment, NewPayment, Finish
  <2>2. /\ Exists(i) /\ ~IsDraft(i)
        /\ r.writes = Write(i, Applied(invoices[i], r.amount))
    BY <1>3, <1>4, <2>1 DEF Knows, Credits
  <2>3. CASE p \in Payments
    <3>1. /\ \A q \in Payments \ {p} : payments'[q] = payments[q]
          /\ payments'[p].status = "SUCCEEDED" /\ payments'[p].invoice = i
          /\ payments'[p].amount = r.amount /\ payments'[p].moved = FALSE
          /\ payments'[p].positive = (r.amount > 0)
      BY <2>1, <2>3 DEF TypeOK
    <3>2. payments[p].status = "ABSENT"
      BY <2>1 DEF NoPayment
    <3>3. (Intact' => Intact) /\ (Unmoved' => Unmoved)
      BY <2>1, <3>1, <3>2 DEF Intact, Unmoved, Moved
    <3>b. payments'[p] # NoPayment
      BY <3>1 DEF NoPayment
    <3>a. AllPositive' => r.amount > 0
      BY <2>3, <3>1, <3>b DEF AllPositive
    <3>4. Books'
      BY <1>0, <1>4, <1>6, <2>2, <2>3, <3>1, <3>2, <3>3, <3>a, CreditBooks
    <3>5. PlacedRow(p)' /\ ~OpenIntent(p)'
      BY <1>4, <1>5, <2>2, <3>1 DEF PlacedRow, OpenIntent
    <3> QED BY <1>5, <2>3, <3>1, <3>4, <3>5, OnePayment
  <2>4. p \in Payments
    BY <1>2, <1>4, <2>1 DEF Knows
  <2> QED BY <2>3, <2>4
<1>8. CASE CommitSettled(h)
  <2>1. /\ r.op = "settling" /\ p \in Payments /\ payments[p] # NoPayment
        /\ payments' = [payments EXCEPT ![p] = [payments[p] EXCEPT !.status = "SUCCEEDED",
                                       !.amount = r.amount, !.positive = @ /\ r.amount > 0]]
    BY <1>1, <1>2, <1>8 DEF CommitSettled, Finish, Known, KnownBy, PaymentOps
  <2>2. /\ payments[p].status = "INITIATED" /\ i = payments[p].invoice
        /\ r.writes = Write(i, Applied(invoices[i], r.amount))
    BY <1>2, <1>3, <1>4, <2>1 DEF Knows, Credits
  <2>3. payments[p] \in Paid
    BY <2>1 DEF TypeOK, PaymentRow, Paid
  <2>4. /\ \A q \in Payments \ {p} : payments'[q] = payments[q]
        /\ payments'[p].status = "SUCCEEDED" /\ payments'[p].invoice = i
        /\ payments'[p].amount = r.amount /\ payments'[p].moved = payments[p].moved
        /\ payments'[p].positive = (payments[p].positive /\ r.amount > 0)
        /\ payments'[p] # NoPayment
    BY <2>1, <2>2, <2>3 DEF TypeOK, NoPayment, Paid
  <2>5. (Intact' => Intact) /\ (Unmoved' => Unmoved)
    BY <2>1, <2>2, <2>4 DEF Intact, Unmoved, Moved
  <2>7. PlacedRow(p)
    BY <2>1 DEF Placed
  <2>a. Exists(i) /\ ~IsDraft(i) /\ (AllPositive' => r.amount > 0)
    BY <2>1, <2>2, <2>3, <2>4, <2>7 DEF PlacedRow, AllPositive, Paid
  <2>6. Books'
    BY <1>0, <1>4, <1>6, <2>1, <2>2, <2>4, <2>5, <2>a, CreditBooks
  <2>8. PlacedRow(p)' /\ ~OpenIntent(p)'
    BY <1>4, <1>5, <2>1, <2>2, <2>4, <2>7 DEF PlacedRow, OpenIntent
  <2> QED BY <1>5, <2>1, <2>4, <2>6, <2>8, OnePayment
<1>9. CASE CommitRefund(h)
  <2>1. /\ r.op = "refund" /\ p \in Payments /\ payments[p] # NoPayment
        /\ payments' = [payments EXCEPT ![p] = [payments[p] EXCEPT !.status = "REFUNDED"]]
    BY <1>1, <1>2, <1>9 DEF CommitRefund, Finish, Known, KnownBy, PaymentOps
  <2>2. /\ payments[p].status = "SUCCEEDED" /\ i = payments[p].invoice
        /\ r.writes = Write(i, Refunded(invoices[i], payments[p].amount))
    BY <1>2, <1>3, <1>4, <2>1 DEF Knows
  <2>3. payments[p] \in Paid
    BY <2>1 DEF TypeOK, PaymentRow, Paid
  <2>4. /\ \A q \in Payments \ {p} : payments'[q] = payments[q]
        /\ payments'[p].status = "REFUNDED" /\ payments'[p].invoice = i
        /\ payments'[p].amount = payments[p].amount /\ payments'[p].moved = payments[p].moved
        /\ payments'[p].positive = payments[p].positive /\ payments'[p] # NoPayment
    BY <2>1, <2>2, <2>3 DEF TypeOK, NoPayment, Paid
  <2>5. Unmoved' => Unmoved
    BY <2>1, <2>4 DEF Unmoved, Moved
  <2>6. Books'
    BY <1>0, <1>4, <1>6, <2>1, <2>2, <2>4, <2>5, RefundBooks
  <2>7. PlacedRow(p)
    BY <2>1 DEF Placed
  <2>8. PlacedRow(p)' /\ ~OpenIntent(p)'
    BY <1>4, <1>5, <2>1, <2>2, <2>4, <2>7 DEF PlacedRow, OpenIntent
  <2> QED BY <1>5, <2>1, <2>4, <2>6, <2>8, OnePayment
<1>10. CASE CommitMatched(h)
  <2>1. /\ r.op = "matching" /\ p \in Payments /\ payments[p] # NoPayment
        /\ payments' = [payments EXCEPT ![p] = [payments[p] EXCEPT !.invoice = i,
                                                                   !.moved = TRUE]]
    BY <1>1, <1>2, <1>3, <1>10 DEF CommitMatched, Finish, Known, KnownBy, PaymentOps
  <2>2. Exists(i)
    BY <1>3, <1>4, <2>1 DEF Knows
  <2>3. payments[p] \in Paid
    BY <2>1 DEF TypeOK, PaymentRow, Paid
  <2>4. /\ \A q \in Payments \ {p} : payments'[q] = payments[q]
        /\ payments'[p].status = payments[p].status /\ payments'[p].invoice = i
        /\ payments'[p].amount = payments[p].amount /\ payments'[p].moved = TRUE
        /\ payments'[p].positive = payments[p].positive /\ payments'[p] # NoPayment
    BY <2>1, <2>3 DEF TypeOK, NoPayment, Paid
  <2>5. Moved(p)'
    BY <2>4 DEF Moved
  <2>6. Books'
    BY <1>0, <1>1, <1>2, <1>3, <1>4, <1>6, <2>1, <2>4, <2>5, MatchBooks
  <2>7. PlacedRow(p)
    BY <2>1 DEF Placed
  <2>a. ~IsDraft(i)'
    <3> DEFINE sum == Sum(MatchedPayments(r))
    <3>1. r.writes[i] = Matched(invoices[i], sum) /\ r.writes \in Writes
      BY <1>3, <1>4, <2>1 DEF Knows, Active
    <3>2. MatchedPayments(r) \in SUBSET {q \in Payments : payments[q] # NoPayment}
      BY DEF MatchedPayments, Succeeded, NoPayment
    <3>3. sum \in Int
      BY <3>2, SumType
    <3>4. Matched(invoices[i], sum) \in Balance
      BY <1>4, <3>3, BalanceTypes DEF TypeOK
    <3>5. Matched(invoices[i], sum).status # "DRAFT"
      BY DEF Matched
    <3> HIDE DEF sum
    <3> QED BY <1>4, <1>6, <3>1, <3>4, <3>5, NullIsNoBalance, WrittenTable DEF IsDraft
  <2>8. PlacedRow(p)' /\ ~OpenIntent(p)'
    BY <1>4, <1>5, <2>1, <2>2, <2>4, <2>7, <2>a DEF PlacedRow, OpenIntent
  <2> QED BY <1>5, <2>1, <2>4, <2>6, <2>8, OnePayment
<1> QED BY <1>7, <1>8, <1>9, <1>10
-----------------------------------------------------------------------------
\* A step that changes nothing but invoices of a set and their payments.
Within(A) ==
    /\ \A i \in Invoices \ A : invoices'[i] = invoices[i]
    /\ \A p \in Payments :
          payments'[p] # payments[p] =>
              /\ payments[p] # NoPayment => payments[p].invoice \in A
              /\ payments'[p].invoice \in A

\* A request is about some invoices, and knows what it knows of them alone.
LEMMA KnowsApart ==
    ASSUME TypeOK, TypeOK', NEW A, Within(A), NEW r \in Active, KnownBy(r), Knows(r),
           About(r) \cap A = {}
    PROVE  Knows(r)'
<1>1. r.invoice \in Invoices /\ r.invoice \notin A
  BY DEF About, Active
<1>2. \A p \in Payments :
         payments[p] # NoPayment /\ payments[p].invoice \notin A => payments'[p] = payments[p]
  BY DEF Within
<1>3. \A p \in Payments :
         payments'[p] # payments[p] => payments'[p].invoice # r.invoice
  BY <1>1 DEF Within
<1>4. ASSUME NEW status, status # "ABSENT"
      PROVE  \A p \in Payments :
                (payments[p].status = status /\ payments[p].invoice = r.invoice)
                  <=> (payments'[p].status = status /\ payments'[p].invoice = r.invoice)
  BY <1>1, <1>2, <1>3, <1>4 DEF NoPayment
<1>5. /\ Succeeded(r.invoice)' = Succeeded(r.invoice)
      /\ \A p \in Succeeded(r.invoice) : payments'[p] = payments[p]
  <2>1. \A p \in Succeeded(r.invoice) : payments[p] # NoPayment
    BY DEF Succeeded, NoPayment
  <2> QED BY <1>1, <1>2, <1>4, <2>1 DEF Succeeded
<1>6. OpenIntents(r.invoice)' = OpenIntents(r.invoice)
  <2>1. \A p \in OpenIntents(r.invoice) : payments[p] # NoPayment
    BY DEF OpenIntents, NoPayment
  <2> QED BY <1>1, <1>2, <1>3, <2>1 DEF OpenIntents
<1>7. invoices'[r.invoice] = invoices[r.invoice]
  BY <1>1 DEF Within
<1>8. ASSUME r.op \in {"refund", "settle", "settling"}
      PROVE  payments'[r.payment] = payments[r.payment]
  BY <1>1, <1>2, <1>8 DEF Knows, KnownBy, PaymentOps
<1>9. ASSUME r.op \in {"match", "matching"}
      PROVE  /\ payments'[r.payment] = payments[r.payment]
             /\ payments[r.payment].invoice \in Invoices
             /\ invoices'[payments[r.payment].invoice] = invoices[payments[r.payment].invoice]
             /\ Sum(MatchedPayments(r))' = Sum(MatchedPayments(r))
  <2>1. /\ r.payment \in Payments /\ payments[r.payment] # NoPayment
        /\ payments[r.payment].invoice \notin A
    BY <1>9 DEF KnownBy, PaymentOps, About
  <2>2. payments'[r.payment] = payments[r.payment]
    BY <1>2, <2>1
  <2>3. payments[r.payment].invoice \in Invoices
    BY <2>1 DEF TypeOK, PaymentRow
  <2>4. MatchedPayments(r)' = MatchedPayments(r)
    BY <1>5, <2>2 DEF MatchedPayments
  <2>5. \A p \in MatchedPayments(r) : payments'[p] = payments[p]
    BY <1>5, <2>2 DEF MatchedPayments
  <2>6. Sum(MatchedPayments(r))' = Sum(MatchedPayments(r))
    BY <2>4, <2>5 DEF Sum
  <2> QED BY <2>1, <2>2, <2>3, <2>6 DEF Within
<1>10. /\ Exists(r.invoice)' = Exists(r.invoice) /\ IsDraft(r.invoice)' = IsDraft(r.invoice)
       /\ Credits(r)' = Credits(r)
  BY <1>7 DEF Exists, IsDraft, Credits
<1>11. CASE r.op \in {"refund", "settle", "settling"}
  BY <1>7, <1>8, <1>10, <1>11 DEF Knows
<1>12. CASE r.op \in {"match", "matching"}
  BY <1>7, <1>9, <1>10, <1>12 DEF Knows
<1>13. CASE r.op \notin {"refund", "settle", "settling", "match", "matching"}
  BY <1>5, <1>6, <1>7, <1>10, <1>13 DEF Knows
<1> QED BY <1>11, <1>12, <1>13

\* Every commit keeps within the invoices its request is about.
LEMMA CommitsWithin ==
    ASSUME MoneyInv, NEW h \in Handlers,
           \/ CommitUpdate(h) \/ CommitIssue(h) \/ CommitVoid(h) \/ CommitSweep(h)
           \/ CommitPayment(h) \/ CommitRefund(h) \/ CommitSettled(h)
           \/ CommitMatched(h) \/ CommitIntent(h) \/ Abandon(h)
    PROVE  Within(About(req[h])) /\ req[h] # Idle /\ req' = [req EXCEPT ![h] = Idle]
<1> USE DEF MoneyInv, NumberingInv, NumberInv
<1>1. PICK r : r = req[h]
  OBVIOUS
<1>2. r # Idle /\ req' = [req EXCEPT ![h] = Idle]
  <2>1. req' = [req EXCEPT ![h] = Idle]
    BY DEF CommitUpdate, CommitIssue, CommitPayment, CommitRefund, CommitVoid, CommitIntent,
       CommitSettled, CommitMatched, CommitSweep, Abandon, Finish
  <2>2. Abandon(h) \/ req[h].op # "idle"
    BY DEF CommitUpdate, CommitIssue, CommitPayment, CommitRefund, CommitVoid, CommitIntent,
       CommitSettled, CommitMatched, CommitSweep, Finish
  <2> QED BY <1>1, <2>1, <2>2 DEF Abandon, Idle
<1>3. r \in Active /\ r.invoice \in Invoices /\ r.writes \in Writes
  BY <1>1, <1>2 DEF TypeOK, Request, Active
<1>4. Knows(r) /\ KnownBy(r)
  BY <1>1 DEF RequestsKnow, Known
<1>5. r.invoice \in About(r)
  BY DEF About
<1>6. CASE CommitUpdate(h) \/ CommitIssue(h) \/ CommitVoid(h) \/ CommitSweep(h)
  <2>1. payments' = payments /\ \A i \in Invoices \ {r.invoice} : invoices'[i] = invoices[i]
    BY <1>1, <1>3, <1>6 DEF CommitUpdate, CommitIssue, CommitVoid, CommitSweep, TypeOK
  <2> QED BY <1>1, <1>2, <1>5, <2>1 DEF Within
<1>7. CASE CommitPayment(h)
  <2>1. /\ r.op \in {"record", "direct"} /\ invoices' = Written(r.writes)
        /\ payments[r.payment] = NoPayment
        /\ \A p \in Payments \ {r.payment} : payments'[p] = payments[p]
        /\ r.payment \in Payments => payments'[r.payment].invoice = r.invoice
    BY <1>1, <1>7 DEF CommitPayment, NewPayment, Finish, TypeOK
  <2>2. \A i \in Invoices \ {r.invoice} : r.writes[i] = Null
    BY <1>3, <1>4, <2>1, WritesOne DEF Knows, Credits
  <2>3. \A i \in Invoices \ {r.invoice} : invoices'[i] = invoices[i]
    BY <1>3, <2>1, <2>2, WrittenTable
  <2> QED BY <1>1, <1>2, <1>5, <2>1, <2>3 DEF Within
<1>8. CASE CommitRefund(h) \/ CommitSettled(h)
  <2>1. /\ r.op \in {"refund", "settling"} /\ invoices' = Written(r.writes)
        /\ \A p \in Payments \ {r.payment} : payments'[p] = payments[p]
    BY <1>1, <1>8 DEF CommitRefund, CommitSettled, Finish, TypeOK
  <2>2. r.payment \in Payments /\ payments[r.payment] # NoPayment
    BY <1>4, <2>1 DEF KnownBy, PaymentOps
  <2>3. payments[r.payment].invoice = r.invoice
    BY <1>4, <2>1 DEF Knows
  <2>4. payments'[r.payment].invoice = payments[r.payment].invoice
    <3>1. payments[r.payment] \in Paid
      BY <2>2 DEF TypeOK, PaymentRow, Paid
    <3>2. payments \in [Payments -> PaymentRow]
      BY DEF TypeOK
    <3>3. CASE CommitRefund(h)
      <4>1. payments'[r.payment] = [payments[r.payment] EXCEPT !.status = "REFUNDED"]
        BY <1>1, <2>2, <3>2, <3>3 DEF CommitRefund
      <4> QED BY <3>1, <4>1 DEF Paid
    <3>4. CASE CommitSettled(h)
      <4>1. payments'[r.payment] = [payments[r.payment] EXCEPT !.status = "SUCCEEDED",
                                   !.amount = r.amount, !.positive = @ /\ r.amount > 0]
        BY <1>1, <2>2, <3>2, <3>4 DEF CommitSettled
      <4> QED BY <3>1, <4>1 DEF Paid
    <3> QED BY <1>8, <3>3, <3>4
  <2>5. \A i \in Invoices \ {r.invoice} : r.writes[i] = Null
    BY <1>3, <1>4, <2>1, WritesOne DEF Knows, Credits
  <2>6. \A i \in Invoices \ {r.invoice} : invoices'[i] = invoices[i]
    BY <1>3, <2>1, <2>5, WrittenTable
  <2> QED BY <1>1, <1>2, <1>5, <2>1, <2>3, <2>4, <2>6 DEF Within
<1>9. CASE CommitMatched(h)
  <2>1. /\ r.op = "matching" /\ invoices' = Written(r.writes)
        /\ \A p \in Payments \ {r.payment} : payments'[p] = payments[p]
    BY <1>1, <1>9 DEF CommitMatched, Finish, TypeOK
  <2>2. r.payment \in Payments /\ payments[r.payment] # NoPayment
    BY <1>4, <2>1 DEF KnownBy, PaymentOps
  <2>3. payments'[r.payment].invoice = r.invoice
    <3>1. payments[r.payment] \in Paid
      BY <2>2 DEF TypeOK, PaymentRow, Paid
    <3>2. payments' = [payments EXCEPT ![r.payment] =
                            [payments[r.payment] EXCEPT !.invoice = r.invoice, !.moved = TRUE]]
      BY <1>1, <1>9 DEF CommitMatched
    <3> QED BY <2>2, <3>1, <3>2 DEF TypeOK, Paid
  <2>4. About(r) = {r.invoice, payments[r.payment].invoice}
    BY <2>1 DEF About
  <2>5. \A i \in Invoices \ About(r) : r.writes[i] = Null
    BY <1>4, <2>1, <2>4 DEF Knows
  <2>6. \A i \in Invoices \ About(r) : invoices'[i] = invoices[i]
    BY <1>3, <2>1, <2>5, WrittenTable
  <2> QED BY <1>1, <1>2, <2>1, <2>3, <2>4, <2>6 DEF Within
<1>10. CASE CommitIntent(h)
  <2>1. /\ invoices' = invoices /\ payments[r.payment] = NoPayment
        /\ \A p \in Payments \ {r.payment} : payments'[p] = payments[p]
        /\ r.payment \in Payments => payments'[r.payment].invoice = r.invoice
    BY <1>1, <1>10 DEF CommitIntent, NewPayment, Finish, TypeOK
  <2> QED BY <1>1, <1>2, <1>5, <2>1 DEF Within
<1>11. CASE Abandon(h)
  BY <1>1, <1>2, <1>11 DEF Abandon, Within
<1> QED BY <1>6, <1>7, <1>8, <1>9, <1>10, <1>11

\* Requests on one invoice do not overlap, drafts in particular.
LEMMA ApartDrafts == Apart' => DraftsApart'
<1> SUFFICES ASSUME Apart', NEW h \in Handlers, NEW k \in Handlers, h # k,
                    req'[h].op = "issue", req'[k].op \in {"issue", "update", "settling"},
                    req'[h].invoice = req'[k].invoice
             PROVE  FALSE
  BY DEF DraftsApart
<1>1. req'[h] # Idle /\ req'[k] # Idle
  BY DEF Idle
<1> QED BY <1>1 DEF Apart, About

LEMMA MoneyStep ==
    ASSUME MoneyInv, [Next /\ Apart']_vars
    PROVE  MoneyInv'
<1>1. NumberingInv' /\ TypeOK' /\ Apart'
  <2>1. Apart'
    BY DEF MoneyInv, Apart, About, vars
  <2>2. [Next /\ DraftsApart']_vars
    BY ApartDrafts
  <2> QED BY <2>1, <2>2, NumberingKept DEF MoneyInv, NumberingInv, NumberInv
<1>2. NumberingInv /\ TypeOK /\ Known
  BY DEF MoneyInv, NumberingInv, NumberInv
<1>3. ASSUME NEW k \in Handlers, NEW r, r = req'[k], Knows(r)'
      PROVE  Knows(req[k])'
  BY <1>3 DEF Knows, IsDraft, Exists, Credits, Succeeded, OpenIntents, MatchedPayments
<1>4. ASSUME UNCHANGED <<invoices, payments>>
      PROVE  Placed' /\ IntentsDistinct' /\ Books'
  BY <1>4 DEF MoneyInv, Placed, PlacedRow, Exists, IsDraft, IntentsDistinct, OpenIntent,
              Books, Booked, Received, Succeeded, Sum, Intact, Unmoved, Moved, Tells, Grounded,
              AllPositive
<1>5. ASSUME NEW i \in Invoices, NEW total \in Totals, CreateInvoice(i, total)
      PROVE  MoneyInv'
  BY <1>1, <1>5, CreateKeepsMoney DEF MoneyInv
<1>6. ASSUME NEW h \in Handlers, Reads(h)
      PROVE  MoneyInv'
  <2>1. RequestsKnow'
    <3> SUFFICES ASSUME NEW k \in Handlers PROVE Knows(req[k])'
      BY DEF RequestsKnow
    <3>1. CASE k = h
      BY <1>6, <3>1, ReadsKnow DEF MoneyInv
    <3>2. CASE k # h
      <4>1. req'[k] = req[k] /\ UNCHANGED <<invoices, payments>> /\ Knows(req[k])
        BY <1>2, <1>6, <3>2, ReadsOne, ReadsFrame DEF MoneyInv, RequestsKnow
      <4> QED BY <4>1, SameTables
    <3> QED BY <3>1, <3>2
  <2> QED BY <1>1, <1>4, <1>6, <2>1, ReadsFrame DEF MoneyInv
<1>7. ASSUME NEW h \in Handlers,
             \/ CommitUpdate(h) \/ CommitIssue(h) \/ CommitVoid(h) \/ CommitSweep(h)
             \/ CommitPayment(h) \/ CommitRefund(h) \/ CommitSettled(h)
             \/ CommitMatched(h) \/ CommitIntent(h) \/ Abandon(h)
      PROVE  MoneyInv'
  <2>1. Within(About(req[h])) /\ req[h] # Idle /\ req' = [req EXCEPT ![h] = Idle]
    BY <1>7, CommitsWithin
  <2>2. RequestsKnow'
    <3> SUFFICES ASSUME NEW k \in Handlers PROVE Knows(req[k])'
      BY DEF RequestsKnow
    <3>1. CASE req'[k] = Idle
      BY <3>1 DEF Knows, Idle
    <3>2. CASE req'[k] # Idle
      <4>1. k # h /\ req'[k] = req[k]
        BY <1>2, <2>1, <3>2 DEF TypeOK
      <4>2. PICK r : r = req[k]
        OBVIOUS
      <4>3. r \in Active /\ KnownBy(r) /\ Knows(r)
        BY <1>2, <3>2, <4>1, <4>2 DEF TypeOK, Request, Active, Known, MoneyInv, RequestsKnow
      <4>4. PICK A : A = About(req[h])
        OBVIOUS
      <4>5. About(r) \cap A = {}
        BY <2>1, <3>2, <4>1, <4>2, <4>4 DEF MoneyInv, Apart
      <4>6. Within(A)
        BY <2>1, <4>4
      <4>7. Knows(r)'
        BY <1>1, <1>2, <4>3, <4>5, <4>6, KnowsApart
      <4> QED BY <1>3, <4>1, <4>2, <4>7
    <3> QED BY <3>1, <3>2
  <2>3. Placed' /\ IntentsDistinct' /\ Books'
    <3>1. CASE Abandon(h)
      BY <1>4, <3>1 DEF Abandon
    <3> QED BY <1>1, <1>7, <3>1, RowsKeepMoney, PaymentsKeepMoney, IntentKeepsMoney
  <2> QED BY <1>1, <2>2, <2>3 DEF MoneyInv
<1>8. CASE UNCHANGED vars
  <2>1. RequestsKnow'
    <3> SUFFICES ASSUME NEW k \in Handlers PROVE Knows(req[k])'
      BY DEF RequestsKnow
    <3>1. UNCHANGED <<invoices, payments, req>> /\ Knows(req[k])
      BY <1>8 DEF vars, MoneyInv, RequestsKnow
    <3> QED BY <3>1, SameTables
  <2> QED BY <1>1, <1>4, <1>8, <2>1 DEF vars, MoneyInv
<1> QED BY <1>5, <1>6, <1>7, <1>8 DEF Next

LEMMA InitMoney == Init => MoneyInv
<1> SUFFICES ASSUME Init PROVE MoneyInv
  OBVIOUS
<1>1. NumberingInv /\ TypeOK
  BY InitNumbering DEF NumberingInv, NumberInv
<1>2. \A p \in Payments : payments[p] = NoPayment /\ payments[p].status = "ABSENT"
  BY DEF Init, NoPayment
<1>3. Placed /\ IntentsDistinct /\ Apart
  BY <1>2 DEF Placed, PlacedRow, IntentsDistinct, OpenIntent, Init, Apart
<1>4. RequestsKnow
  BY DEF Init, RequestsKnow, Knows, Idle
<1>5. Books
  <2> SUFFICES ASSUME NEW i \in Invoices PROVE Booked(i)
    BY DEF Books
  <2>1. invoices[i].status = "ABSENT" /\ invoices[i].paid = 0 /\ invoices[i].total = 0
    BY DEF Init
  <2>2. Succeeded(i) = {}
    BY <1>2 DEF Succeeded
  <2>3. Received(i) = 0
    BY <1>1, <2>2, ReceivedType
  <2> QED BY <2>1, <2>2, <2>3 DEF Booked, Tells, Lesser, Grounded, IsDraft
<1> QED BY <1>1, <1>3, <1>4, <1>5 DEF MoneyInv

\* The books are what the property says of every invoice.
LEMMA BooksAccount ==
    ASSUME TypeOK, Books, IntentsDistinct
    PROVE  MoneyAccounted
<1>1. Covered /\ VoidHoldsNoMoney
  BY DEF Books, Booked, Covered, VoidHoldsNoMoney, Received
<1>2. SettledSum
  BY DEF Books, Booked, SettledSum, Intact, Received
<1>3. StatusTellsBalance
  BY DEF Books, Booked, StatusTellsBalance, Unmoved, Tells
<1>4. OneOpenIntent
  <2> SUFFICES ASSUME NEW i \in Invoices
               PROVE  Cardinality({p \in OpenIntents(i) : ~Moved(p)}) <= 1
    BY DEF OneOpenIntent
  <2> DEFINE S == {p \in OpenIntents(i) : ~Moved(p)}
  <2>1. \A p, q \in S : p = q
    BY DEF OpenIntents, Moved, IntentsDistinct, OpenIntent, NoPayment
  <2>2. CASE S = {}
    <3>1. Cardinality(S) = 0
      BY <2>2, FS_EmptySet
    <3> QED BY <3>1
  <2>3. CASE S # {}
    <3> HIDE DEF S
    <3>1. PICK p : p \in S
      BY <2>3
    <3>2. S = {p}
      BY <2>1, <3>1
    <3>3. Cardinality(S) = 1
      BY <3>2, FS_Singleton
    <3> QED BY <3>3 DEF S
  <2> QED BY <2>2, <2>3
<1> QED BY <1>1, <1>2, <1>3, <1>4 DEF MoneyAccounted

\* Section 10.2: while requests do not overlap on an invoice, no invoice is credited
\* with more than it received, until something is refunded or moved, and beyond that
\* where every amount was positive; where they were, each is settled for what was
\* paid, the status tells the balance and only what holds no money is voided.  One
\* intent is open per key.  For any number of invoices, payments and requests, through
\* repeated webhooks, refunds, matches and requests given up.
THEOREM SerialMoneyIsAccounted == SerialSpec => []MoneyAccounted
<1>1. MoneyInv /\ [Next /\ Apart']_vars => MoneyInv'
  BY MoneyStep
<1>2. MoneyInv => MoneyAccounted
  BY BooksAccount DEF MoneyInv, NumberingInv, NumberInv
<1> QED BY <1>1, <1>2, InitMoney, PTL DEF SerialSpec
=============================================================================
