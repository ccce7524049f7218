SPECIFICATION LiveSpec
CONSTANTS
    Calls = {c1, c2, c3}
    Cards = {k1}
    MinLen = 1
    MaxLen = 2
    BlockMin = 2
    Capacity = 2
    History = 2
    Sensors = {"OPERATOR_SWITCH"}
    NoCall = NoCall
    NoCard = NoCard
CHECK_DEADLOCK FALSE
INVARIANTS
    DigitsStayApart
    ListenerIsRight
PROPERTIES
    EveryCallAnswered
