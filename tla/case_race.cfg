\* Two overlapping requests on one case, approvals included.
SPECIFICATION Spec
CONSTANTS
    Cases = {c1}
    Handlers = {h1, h2}
    c2 = c2
    t1 = t1
    t2 = t2
    CaseTypes <- MCOneType
    SlaHours <- MCOneHours
    SlaDueAt <- MCSlaDueAt
    Granted <- MCGranted
    ReopenHours = 1
    ReopenWindow = 1
    ApprovalSteps = TRUE
    MaxTime = 1
    Null = Null
SYMMETRY MCSymmetry
VIEW MCView
INVARIANTS
    PausedStopsClock
    TriageSubmitted
\* The clock is bounded, and a case closed for too long accepts nothing.
CHECK_DEADLOCK FALSE
