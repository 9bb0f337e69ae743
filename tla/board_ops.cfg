SPECIFICATION Spec
CONSTANTS
    i1 = i1
    i2 = i2
    Instruments = {i1, i2}
    Self = Self
    NoTalker = NoTalker
    Idle = Idle
    Free = Free
    Raw <- RawStrings
    kMaxDescriptors = 2
INVARIANTS
    TypeOK
    DataFlowsWhereAddressed
    OnlyTargetDisturbed
    RenKept
PROPERTIES
    LatchHidden
    OperationEnds
