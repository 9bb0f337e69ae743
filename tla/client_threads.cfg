SPECIFICATION FairSpec
CONSTANTS
    t1 = t1
    t2 = t2
    Threads = {t1, t2}
    Free = Free
    NoHandle = NoHandle
    BoardUd = BoardUd
    kMaxDescriptors = 4
    BoardCloses = FALSE
    MaxHeld = 1
    MaxReplugs = 1
    MaxStrangers = 1
INVARIANTS
    TypeOK
    UdsReachOwn
    FewBoardDescriptors
    NoneLost
PROPERTIES
    CallReturns
