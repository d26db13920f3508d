SPECIFICATION HostSpec
CONSTANTS
    Procs = {p1}
    Keys <- MCKeys
    Vals <- MCVals
    Absent = Absent
    Torn = Torn
    NoProc = NoProc
    NoChk = NoChk
    MaxWal = 9
    MaxStaged = 3
    Faults = {"crash", "power", "short"}
    Client = {"dirtyCheckpoint", "retrySync"}
    Swaps <- MCSwaps
    Images <- MCImages
    VmError = VmError
    NoReceipt = NoReceipt
INVARIANTS ReceiptIsWholeBatch AttestedIsDurable RecordComesLast
