\* One message on either channel, two overlapping calls, restarts at any point;
\* two documents of one owner and one of another, over the turn of a year.
SPECIFICATION MCSpec
CONSTANTS
    Messages = {m1}
    Preferences <- MCPreferences
    Workers = {w1, w2}
    MaxAttempts = 5
    Threshold = 5
    d1 = d1
    d2 = d2
    d3 = d3
    o1 = o1
    o2 = o2
    Documents <- MCDocuments
    Owners <- MCOwners
    Owner <- MCOwner
    LastYear = 2
    NoReference = NoReference
    Null = Null
INVARIANTS
    SentMeansAccepted
    ScheduledOrExhausted
    GivesUp
    QuietRowsWait
    AllocatorSafe
PROPERTIES
    FailedResolves
    ImplementsGapless
    EveryRequestEnds
\* Once every document has its reference only the clock moves.
CHECK_DEADLOCK FALSE
