SPECIFICATION FairSpec
CONSTANTS
    Lengths = {1, 4}
    MaxPayload = 3
    MaxPending = 1
    MaxStale = 1
    MaxCommand = 2
    Block = 2
    Failures = {"open", "out", "in", "abort", "status", "error"}
INVARIANTS
    TypeOK
    OkIsWhole
    CountsAreTrue
    IdsChecked
    SyncKept
    AbortStopsAdapter
PROPERTY
    CallEnds
CHECK_DEADLOCK FALSE
