SPECIFICATION Spec
CONSTANTS
    t1 = t1
    t2 = t2
    Threads = {t1, t2}
    MayCall <- MCMayCall
    Lists = {2}
    MaxInline = 1
    Buffer = 2
    Lengths = {0, 1, 3}
    MaxPolls = 2
INVARIANTS TypeOK OwnOutcome 
