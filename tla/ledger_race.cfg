\* Two overlapping requests, every endpoint but the editing of drafts and voiding.
SPECIFICATION Spec
CONSTANTS
    Invoices = {i1, i2}
    Payments = {p1}
    Handlers = {h1, h2}
    Totals <- MCOneTotal
    Amounts <- MCSignedAmounts
    Ops <- MCRacing
    Null = Null
SYMMETRY MCSymmetry
VIEW MCRace
CONSTRAINT MCNear
INVARIANTS
    NumbersUnique
    PaidInFull
\* When every payment row is used, some states accept nothing more.
CHECK_DEADLOCK FALSE
