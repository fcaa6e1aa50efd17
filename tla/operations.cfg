\* One thing to warn about, one client's documents, one document store, one
\* case's tasks and one calendar, each followed through every overlap.
SPECIFICATION MCSpec
CONSTANTS
    Sweepers = {s1, s2}
    People = {p1, p2}
    Managers = {p1}
    Candidate = p2
    Thresholds = 2
    ReassignAt = {2}
    Checkers = {s1, s2}
    SecondChecker = s2
    Documents = {d1, d2}
    SecondDocument = d2
    Requests = {r1, r2}
    Uploads = {w1}
    Tokens = {t1}
    MaxDocuments = 3
    a1 = a1
    a2 = a2
    clerk = clerk
    manager = manager
    h1 = h1
    h2 = h2
    Approvals <- MCApprovals
    Level <- MCLevel
    Users <- MCUsers
    Authority <- MCAuthority
    Deputies = {clerk}
    Handlers = {h1, h2}
    Destinations <- MCDestinations
    Tasks = {1, 2}
    DayLength = 3
    Week = 2
    Holidays = {1, 2}
    Latest = 5
    MaxHours = 4
    Horizon = 18
    Null = Null
INVARIANTS
    WarnedRight
    StoreSafe
    HandedOver
    CalendarAgrees
    DecidedWithAuthority
    RejectionReachesAll
    OutcomeWasDecided
PROPERTIES
    WorkSettles
    DecisionTakesEffect
\* The calendar is followed up to its horizon.
CHECK_DEADLOCK FALSE
