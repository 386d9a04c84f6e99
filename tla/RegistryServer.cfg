SPECIFICATION Spec
CONSTANTS
    p1 = p1
    p2 = p2
    s1 = s1
    r1 = r1
    r2 = r2
    Path = {p1, p2}
    Seg = {s1}
    Whole = Whole
    Unit <- UnitsOfTwoFiles
    Managed = {p1, p2}
    Slices = {p2}
    Deliverable = {p1, p2}
    Run = {r1, r2}
    NoRun = NoRun
    Model = {m1}
    NoModel = NoModel
    FtpActive = TRUE
    Lease = 1
    UnlinkRequests = {FALSE, TRUE}
    ForceRequests = {FALSE, TRUE}
    MaxWrites = 2
SYMMETRY RunSymmetry
VIEW WhatMatters
INVARIANTS TypeOK NoWorkLost ClaimedBytesKept
