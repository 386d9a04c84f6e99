SPECIFICATION LiveSpec
CONSTANTS
    q1 = q1
    q2 = q2
    q3 = q3
    q4 = q4
    Request = {q1, q2, q3, q4}
    MaxBatch = 2
    TokenLimit = 3
    MaxQueue = 3
INVARIANTS TypeOK LineIsWhoWaits FirstComeFirstServed DrainsABatch
PROPERTIES RequestsSettle ShutdownEnds
CHECK_DEADLOCK FALSE
