SPECIFICATION Spec
CONSTANTS
    Procs = {p1}
    Keys = {k1, k2}
    Vals = {v1}
    Absent = Absent
    Torn = Torn
    NoProc = NoProc
    NoChk = NoChk
    MaxWal = 3
    MaxStaged = 2
    Faults = {"crash", "power", "short", "sync"}
    Client = {}
SYMMETRY Symmetry
INVARIANTS
    TypeOK
    MemtableIsLog
    CursorsAgree
    AckedDurable
    CheckpointAgrees
    Inductive
PROPERTIES
    AckedOnlyGrows
    ImplementsDurableLog
