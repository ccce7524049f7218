SPECIFICATION LiveSpec
CONSTANTS
    c1 = c1
    c2 = c2
    c3 = c3
    r1 = r1
    r2 = r2
    Configs <- MCConfigs
    Requests <- MCRequests
    Slots <- MCSlots
    Inputs <- MCInputs
    Seeded <- MCSeeded
    AutoStart <- MCAutoStart
    MaxConnection = 1
    MaxRestart = 1
    MaxOp = 3
CHECK_DEADLOCK FALSE
INVARIANTS
    ConsoleTellsTruth
PROPERTIES
    RequestEnds
