SPECIFICATION FairSpec
CONSTANTS
    c1 = c1
    c2 = c2
    a1 = a1
    a2 = a2
    a3 = a3
    Clients = {c1, c2}
    Adapters = {a1, a2}
    None = None
    Idle = Idle
    Free = Free
    kMaxDescriptors = 3
    Boards <- TwoBoards
    Plugged <- TwoPlugged
    Ops <- AllButUse
    MaxPending = 1
    MaxEntries = 3
    KilledMidCall = FALSE
    Refusals = TRUE
    Faults = {}
    MaxFaults = 0
INVARIANTS
    HeldIsOwned
PROPERTIES
    RequestAnswered
    LeaversAreReaped
    ImplementsService
CHECK_DEADLOCK FALSE
