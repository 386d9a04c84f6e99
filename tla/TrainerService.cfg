SPECIFICATION LiveSpec
CONSTANTS
    c1 = c1
    c2 = c2
    Caller = {c1, c2}
INVARIANT NoLostWakeUp
PROPERTIES PauseHolds StopEnds
