\* Requests that do not overlap on a case (SerialSpec), templates without approval
\* steps: one case with every request, a second that is created and submitted meanwhile.
SPECIFICATION Spec
CONSTANTS
    Cases = {c1, c2}
    Handlers = {h1, h2}
    c2 = c2
    t1 = t1
    t2 = t2
    CaseTypes <- MCTwoTypes
    SlaHours <- MCTwoHours
    SlaDueAt <- MCSlaDueAt
    Granted <- MCGranted
    ReopenHours = 1
    ReopenWindow = 1
    ApprovalSteps = FALSE
    MaxTime = 2
    Null = Null
SYMMETRY MCSymmetry
CONSTRAINTS
    Apart
    MCSecondStarts
INVARIANTS
    HistoryTells
    ClockTells
    EndsInOrder
PROPERTIES
    LegalMoves
    ClosedFrozen
    PauseExtendsDeadline
\* The clock is bounded, and a case closed for too long accepts nothing.
CHECK_DEADLOCK FALSE
