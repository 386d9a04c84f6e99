SPECIFICATION PoolSpec
CONSTANTS
    p1 = p1
    m1 = m1
    m2 = m2
    s1 = s1
    r1 = r1
    r2 = r2
    Path = {p1}
    Seg = {s1}
    Whole = Whole
    Unit <- WholeAndRange
    Managed = {p1}
    Slices = {}
    Deliverable = {p1}
    Run = {r1, r2}
    NoRun = NoRun
    Model = {m1, m2}
    NoModel = NoModel
    FtpActive = TRUE
    Lease = 3
    UnlinkRequests = {FALSE}
    ForceRequests = {FALSE, TRUE}
    MaxWrites = 2
    ModelOf <- AllUnassigned
    MaxFiles = 0
    RenewEvery = 1
    PromptReports = FALSE
    MaxFaults = 2
INVARIANTS HoldsItsBatch NoSharedWork
PROPERTY ImplementsWorkQueue
