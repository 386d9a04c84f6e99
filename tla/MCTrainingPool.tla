--------------------------- MODULE MCTrainingPool ---------------------------
EXTENDS TrainingPool, TLC

CONSTANTS p1, s1, r1, r2, m1, m2

\* One file, queued whole and as a row range.
WholeAndRange == {[path |-> p1, seg |-> s1], WholeOf(p1)}

\* Two runs of different models, and runs without a model.
OneModelEach == r1 :> m1 @@ r2 :> m2
AllUnassigned == [r \in Run |-> NoModel]
=============================================================================
