\* The same, asking whether the unique index ever has something to refuse.
SPECIFICATION AllocatorSpec
CONSTANTS
    d1 = d1
    d2 = d2
    d3 = d3
    d4 = d4
    o1 = o1
    o2 = o2
    Documents <- MCDocuments
    Owners <- MCOwners
    Owner <- MCOwner
    LastYear = 2
    NoReference = NoReference
INVARIANTS
    NeverCollides
\* Once every document has its reference only the clock moves.
CHECK_DEADLOCK FALSE
