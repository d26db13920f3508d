SPECIFICATION FairSpec
CONSTANTS
    Procs = {p1, p2}
    Keys = {k1}
    Vals = {v1}
    Absent = Absent
    Torn = Torn
    NoProc = NoProc
    NoChk = NoChk
    MaxWal = 2
    MaxStaged = 2
    Faults = {"crash", "power", "short", "sync", "drop", "flip", "read", "name"}
    Client = {}
INVARIANTS
    LockExclusion
    MemtableIsLog
PROPERTIES
    CallsReturn
