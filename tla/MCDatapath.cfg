SPECIFICATION Spec
CHECK_DEADLOCK FALSE
INVARIANTS
    InPlaceExact
    RestartExact
    FaultOnlyFirst
    FixedPointCorrect
    ArithmeticCorrect
    ConversionsCorrect
    OrderCorrect
    EstimatesAccurate
