SPECIFICATION Spec
CONSTANTS
    Bits = 4
    Half = 8
    CellBytes = 2
    ByteBits = 2
    MaxCells = 2
    MaxInput = 3
    MaxStack = 2
    MaxDepth = 2
    MaxLocals = 2
    MaxArrs = 1
    MaxArrLen = 2
    StepLimit = 12
    Junk = Junk
    MaxFns = 2
    MaxIns = 9
    MaxStrBytes = 4
    MaxRegions = 1
    MaxC0Cells = 3
    NoImage = NoImage
    Texts <- MCTexts
    Args <- MCArgs
    Images <- FullStackCall
INVARIANT AcceptedStaysInBounds
