SPECIFICATION LocalSpec
CONSTANTS
    p1 = p1
    p2 = p2
    s1 = s1
    r1 = r1
    r2 = r2
    m1 = m1
    Path = {p1}
    Seg = {s1}
    Whole = Whole
    Unit <- WholeAndRange
    Run = {r1, r2}
    NoRun = NoRun
    Model = {m1}
    NoModel = NoModel
    Manager = {man}
    ModelOf <- AllUnassigned
    NoProc = NoProc
    ForceRequests = {FALSE, TRUE}
VIEW WhatMatters
SYMMETRY RunSymmetry
INVARIANT RunKeepsItsClaims
