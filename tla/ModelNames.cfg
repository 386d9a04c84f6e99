SPECIFICATION Spec
CONSTANTS
    a = a
    b = b
    t1 = t1
    t2 = t2
    Name = {a, b}
    NoName = NoName
    Role = {r1}
    NoRole = NoRole
    Trainer = {t1, t2}
    ModelOf <- BothTrainA
    NoTrainer = NoTrainer
    Attempts = 2
    MaxRuns = 2
    MaxHistory = 1
    MaxFaults = 2
SYMMETRY Symmetric
VIEW WhatMatters
INVARIANTS TypeOK AnswerOutlivesCrash NoRunForgotten ProductionIsServed
PROPERTY SupersededStaysOut
