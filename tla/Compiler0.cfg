SPECIFICATION Spec
CONSTANTS
    Bits = 4
    Half = 8
    CellBytes = 1
    ByteBits = 4
    MaxCells = 0
    MaxInput = 0
    MaxStack = 4
    MaxDepth = 2
    MaxLocals = 2
    MaxArrs = 1
    MaxArrLen = 2
    StepLimit = 14
    Junk = Junk
    NoName = "none"
    MaxFns = 4
    MaxIns = 11
    MaxStrBytes = 8
    MaxRegions = 0
    MaxC0Cells = 0
    Sources <- MCSources
    Safe <- MCSafe
    CommandLines <- MCCommandLines
    NameLen <- MCNameLen
INVARIANTS CompiledIsDeclared ExactlyRunnable CompiledRunsClean CompiledMeansSource ImageRunsAsSource NativeAgrees
