\* Requests that do not overlap on an invoice (SerialSpec), every endpoint.
SPECIFICATION Spec
CONSTANTS
    Invoices = {i1, i2}
    Payments = {p1, p2}
    Handlers = {h1, h2}
    Totals <- MCTotals
    Amounts <- MCSignedUnits
    Ops <- MCAllOps
    Null = Null
SYMMETRY MCSymmetry
VIEW MCLedger
CONSTRAINTS
    Apart
    MCBooked
INVARIANTS
    MoneyAccounted
PROPERTIES
    IssuedFrozen
    ImplementsSequence
\* When every payment row is used, some states accept nothing more.
CHECK_DEADLOCK FALSE
