---------------------------- MODULE MCModelNames ----------------------------
EXTENDS ModelNames, TLC

CONSTANTS a, b, t1, t2

\* Two trainers of one model; the other model is imported.
BothTrainA == [t \in Trainer |-> a]

\* What a trainer's reports tell matters while it trains.
WhatMatters == <<mem, disk, todo, serving, faults, ghosts,
    [t \in Trainer |-> IF trainer[t].pc = "training" THEN trainer[t]
                       ELSE [trainer[t] EXCEPT !.tells = FALSE]]>>

Symmetric == Permutations(Trainer) \cup Permutations(Role)
=============================================================================
