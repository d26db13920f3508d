SPECIFICATION Spec
CONSTANTS
    Bits = 6
    Half = 32
    CellBytes = 2
    ByteBits = 3
    MaxCells = 2
    MaxInput = 3
    MaxStack = 3
    MaxDepth = 2
    MaxLocals = 2
    MaxArrs = 1
    MaxArrLen = 2
    StepLimit = 9
    Junk = Junk
    Hosts <- MCHosts
    Args <- NoArgsOrOne
    MaxRegionCount = 2
    Bindings <- MCBindings
    Inputs <- MCInputs
INVARIANTS VmTypeOK FramesBounded UndefinedNeedsNullary StepsExact ArithmeticDefined
PROPERTIES Finishes ReadsTheInput
