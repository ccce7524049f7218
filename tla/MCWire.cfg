SPECIFICATION Spec
CONSTANTS
    Bodies <- MCBodies
    AskHost = {2}
    Radix = 2
    MaxFrame = 3
    MaxPost = 2
    Payments = {"p1", "p2"}
    Sums8 <- MCSums8
    Apdus <- MCApdus
    MaxApdu = 4
CHECK_DEADLOCK FALSE
INVARIANTS
    FramesSurvive
    PaymentsToldTruly
    CodecsRoundTrip
    ChipAnswers
PROPERTIES
    EveryRequestAnswered
