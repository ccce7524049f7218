SPECIFICATION LiveSpec
CONSTANTS
    SuiteIds = {"s1", "s2"}
    MacroIds <- MCMacroIds
    Steps <- MCSteps
    Crons = {"daily", "weekly", "99 99 * * *"}
    Invalid = {"99 99 * * *"}
    Consoles = {r1, r2}
    MaxRequest = 2
    MaxRestart = 1
CHECK_DEADLOCK FALSE
INVARIANTS
    VerdictIsRight
    CleanSlate
    SchedulesMatch
PROPERTIES
    EveryJobEnds
