SPECIFICATION Spec
CONSTANTS
    Keys = 2
    Attempts = 3
    Depth = 2
    MaxEpochs = 3
INVARIANTS TypeOK NothingIsPassedOver OneFaultLosesNothing OwnSessionOnly LeavesNoSession
PROPERTY EndReturns
CHECK_DEADLOCK FALSE
