SPECIFICATION Spec
CONSTANTS
    Bits = 4
    Half = 8
    CellBytes = 1
    ByteBits = 4
    MaxCells = 0
    MaxInput = 0
    MaxStack = 4
    MaxDepth = 1
    MaxLocals = 2
    MaxArrs = 1
    MaxArrLen = 1
    StepLimit = 8
    Junk = Junk
    Digit <- MCDigit
    Letters = {"x", "y", "r", "e", "t", "u", "n"}
    ArenaCap = 7
    ParserMaxDepth = 1
    MaxArgs = 2
    LowerCap = 8
    MaxExpr = 6
    Sources <- MCSources
    Envs <- MCEnvs
INVARIANTS ChildrenComeFirst RecursionBounded ParsesTheGrammar VmAgreesWithEval LowerNeverFull PassingReceiptIsTrue
