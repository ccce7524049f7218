SPECIFICATION MCSpec
CONSTANTS
    r1 = r1
    r2 = r2
    Macros = {m1}
    Requests <- MCRequests
    Acts = {Confirm}
    Runs = {1, 3, 9}
    Checkpoints = {NotesPresented, Taken}
    Unsupported = {Taken}
    MaxAction = 3
    MaxEvent = 1
    MaxSession = 2
    MaxEdit = 1
    s1 = s1
    s2 = s2
    Slots <- MCSlots
    MaxVisit = 2
    MaxBacklog = 2
    MaxClick = 2
    MaxLoss = 1
SYMMETRY Symmetry
CHECK_DEADLOCK FALSE
INVARIANTS
    ReplayCovers
    ScreenCatchesUp
    KeypadFollows
    MenuBelongs
PROPERTIES
    EndsOnlySaved
