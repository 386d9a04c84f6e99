------------------------- MODULE MCBatchedInference -------------------------
EXTENDS BatchedInference

CONSTANTS q1, q2, q3, q4
=============================================================================
