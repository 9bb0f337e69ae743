SPECIFICATION FairSpec
CONSTANTS
    None = None
    MaxLen = 3
    MaxCmd = 2
    Chunks = {0, 2}
    Failures = {"begin", "bulk", "status", "engine", "abort", "clear"}
INVARIANTS
    TypeOK
    WireIsPrefix
    OkIsWhole
    CountsAreTrue
    LeavesClear

    
