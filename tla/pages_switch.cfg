\* The lists of two organisations in one browser.
SPECIFICATION MCSpec
CONSTANTS
    Requests = {r1, r2}
    Links = {l1}
    Invitations = {i1}
    Roles = {staff, manager}
    Mandatory = {manager}
    Challenges = {c1}
    Codes = {x1}
    LockAt = 2
    MaxGuesses = 2
    MaxFailures = 1
    MaxSessions = 2
    Windows = {w1, w2}
    Calls = {k1, k2, k3}
    TabOf <- MCTabOf
    OtherTab = w2
    OtherCall = k3
    Refreshes = {f1, f2}
    Tabs = {t1}
    Editors = {e1}
    Visitors = {v1, v2}
    CacheTicks = 1
    ReadTicks = 1
    Ticks = {u1, u2}
    FeedLimit = 1
    MaxRows = 2
    Orgs = {A, B}
    Home = A
    MaxChanges = 3
    Null = Null
INVARIANTS
    SwitchDiscards
