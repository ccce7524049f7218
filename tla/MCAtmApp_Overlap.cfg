SPECIFICATION Spec
CONSTANTS
    Accounts = {"A"}
    Cards = {"card1"}
    AccountOf <- MCAccountOf
    Refused = {}
    Txns = {"WITHDRAWAL", "BALANCE"}
    Amounts = {1}
    Stans <- MCStans
    MaxDay = 1
    InitialBalance <- MCInitialBalance
    DailyLimit <- MCDailyLimit
    Tasks = {t1, t2}
    MaxPinAttempts = 3
    MaxSessions = 2
    MaxAuthorizations = 1
    FaultyOps = {"createRow", "readTrack", "authenticate", "getPin", "verifyPin", "retainDev",
        "retainHost", "getBalance", "authorize", "dispense", "reverse", "print",
        "eject", "endRow"}
    MaxFaults = 1
    SlowOps = {"createRow", "readTrack", "authenticate", "getPin", "verifyPin", "retainDev",
        "retainHost", "getBalance", "authorize", "dispense", "reverse", "print",
        "eject", "endRow"}
    NoCard = NoCard
    NoTask = NoTask
    NoAccount = NoAccount
    NoSession = NoSession
SYMMETRY MCSymmetry
CHECK_DEADLOCK FALSE
INVARIANTS
    TimerOwner
    NeverPaidAndReversed
