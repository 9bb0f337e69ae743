SPECIFICATION FairSpec
CONSTANTS
    t1 = t1
    t2 = t2
    Threads = {t1}
    Free = Free
    NoHandle = NoHandle
    BoardUd = BoardUd
    kMaxDescriptors = 3
    BoardCloses = FALSE
    MaxHeld = 1
    MaxReplugs = 1
    MaxStrangers = 1
INVARIANTS
    ReplugRecovers
