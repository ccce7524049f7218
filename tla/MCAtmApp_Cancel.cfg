SPECIFICATION Spec
CONSTANTS
    Accounts = {"A", "B"}
    Cards = {"card1", "card2"}
    AccountOf <- MCAccountOf
    Refused = {}
    Txns = {"WITHDRAWAL"}
    Amounts = {1}
    Stans <- MCStans
    MaxDay = 1
    InitialBalance <- MCInitialBalance
    DailyLimit <- MCDailyLimit
    Tasks = {t1, t2, t3}
    MaxPinAttempts = 3
    MaxSessions = 2
    MaxAuthorizations = 2
    FaultyOps = {"dispense"}
    MaxFaults = 1
    SlowOps = {"authorize", "dispense"}
    NoCard = NoCard
    NoTask = NoTask
    NoAccount = NoAccount
    NoSession = NoSession
SYMMETRY MCSymmetry
CHECK_DEADLOCK FALSE
INVARIANT DebitMatchesCash
