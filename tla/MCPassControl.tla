--------------------------- MODULE MCPassControl ---------------------------
EXTENDS PassControl, TLC

CONSTANTS a1, a2

AskerSymmetry == Permutations({a1, a2})
=============================================================================
