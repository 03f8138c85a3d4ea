SPECIFICATION Spec
CONSTANTS
    Jobs = {j1}
    Threads = {t1}
    Pids = {p1}
    NoPid = NoPid
    NoDoc = NoDoc
    MaxFaults = 0
    QuietCreate = FALSE
INVARIANT CancelledMeansStopped
