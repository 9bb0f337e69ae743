SPECIFICATION FairSpec
CONSTANTS
    Kinds = {"kusb", "ni", "agilent"}
    Chunk = 2
    FpgaLength = 4
    ExtLength = 2
    MainLength = 3
    Nobody = Nobody
    Loader = Loader
    Leaked = Leaked
    MaxPlugs = 2
    Services = {s1, s2}
    UserClients = {u1}
    Asked <- MCAsked
    Inline = 1
    Sizes = {1, 3}
    Failures = {"open", "attach", "board"}
INVARIANTS TypeOK SessionsOwned NoDangling FirmwareWhole AsAsked
PROPERTY GoneIsFreed
CHECK_DEADLOCK FALSE
