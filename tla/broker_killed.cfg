SPECIFICATION Spec
CONSTANTS
    c1 = c1
    c2 = c2
    a1 = a1
    a2 = a2
    a3 = a3
    Clients = {c1, c2}
    Adapters = {a1, a2}
    None = None
    Idle = Idle
    Free = Free
    kMaxDescriptors = 3
    Boards <- OneBoard
    Plugged <- OnePlugged
    Ops <- OpenCloseWait
    MaxPending = 1
    MaxEntries = 2
    KilledMidCall = TRUE
    Refusals = FALSE
    Faults = {}
    MaxFaults = 0
INVARIANTS
    NoStranded
CHECK_DEADLOCK FALSE
