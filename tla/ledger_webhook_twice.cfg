\* One webhook delivered twice at once.
SPECIFICATION Spec
CONSTANTS
    Invoices = {i1}
    Payments = {p1}
    Handlers = {h1, h2}
    Totals <- MCOneTotal
    Amounts <- MCAmounts
    Ops <- MCOnline
    Null = Null
INVARIANT Covered
CHECK_DEADLOCK FALSE
