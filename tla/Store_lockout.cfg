SPECIFICATION Spec
CONSTANTS
    Procs = {p1}
    Keys = {k1}
    Vals = {v1}
    Absent = Absent
    Torn = Torn
    NoProc = NoProc
    NoChk = NoChk
    MaxWal = 2
    MaxStaged = 2
    Faults = {}
    Client = {"dirtyCheckpoint"}
INVARIANTS
    OpenNeverRejects
