SPECIFICATION LiveSpec
CONSTANTS
    Accounts = {"A", "B"}
    Cards = {"card1", "card2", "card3"}
    AccountOf <- MCAccountOf
    Refused = {"card3"}
    Txns = {"WITHDRAWAL", "BALANCE", "DEPOSIT"}
    Amounts = {1, 2}
    Stans <- MCStans
    MaxDay = 1
    InitialBalance <- MCInitialBalance
    DailyLimit <- MCDailyLimit
    Tasks = {t1, t2}
    MaxPinAttempts = 3
    MaxSessions = 2
    MaxAuthorizations = 2
    FaultyOps = {"readTrack", "dispense", "authorize", "print", "verifyPin", "retainHost"}
    MaxFaults = 2
    SlowOps = {}
    NoCard = NoCard
    NoTask = NoTask
    NoAccount = NoAccount
    NoSession = NoSession
CHECK_DEADLOCK FALSE
INVARIANTS
    DebitMatchesCash
    PinBeforeMenu
    RowsClosed
    RetainedAfterTries
PROPERTIES
    ErrorIsSink
    SessionEnds
    CardComesOut
