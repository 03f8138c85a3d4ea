SPECIFICATION QuietSpec
CONSTANTS
    Jobs = {j1, j2}
    Threads = {t1, t2}
    Pids = {p1, p2}
    NoPid = NoPid
    NoDoc = NoDoc
    MaxFaults = 1
    QuietCreate = TRUE
SYMMETRY Symmetry
INVARIANTS QuietInv CancelledMeansStopped RunningIsReachable CancelSparesOthers
PROPERTY ImplementsLifecycle
