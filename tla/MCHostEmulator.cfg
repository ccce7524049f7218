SPECIFICATION LiveSpec
CONSTANTS
    Accounts = {"A"}
    Cards = {"cardA", "cardX"}
    AccountOf <- MCAccountOf
    NoAccount = NoAccount
    NoRequest = NoRequest
    Requests = {r1, r2}
    Amounts <- MCAmounts
    PrefixOf <- MCPrefixOf
    Listeners = {"PRIMA"}
    StanModulus = 4
    Stans <- MCStans
    MaxDay = 2
    InitialBalance <- MCInitialBalance
    DailyLimit <- MCDailyLimit
    MaxAuthorizations = 2
    MaxRestarts = 1
CHECK_DEADLOCK FALSE
INVARIANTS
    BalanceNeverNegative
    DailyLimitHolds
    MoneyConserved
PROPERTIES
    LedgerUntilRestart
    EveryCallAnswered
