\* One request at a time on the two approvals of one case.
SPECIFICATION Spec
CONSTANTS
    a1 = a1
    a2 = a2
    clerk = clerk
    manager = manager
    h1 = h1
    h2 = h2
    Approvals <- MCApprovals
    Level <- MCLevel
    Users <- MCUsers
    Authority <- MCAuthority
    Deputies = {clerk}
    Handlers = {h1}
    Destinations <- MCDestinations
    Null = Null
INVARIANTS
    ApprovedByAll
