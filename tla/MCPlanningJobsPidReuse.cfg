SPECIFICATION Spec
CONSTANTS
    Jobs = {j1, j2}
    Threads = {t1}
    Pids = {p1}
    NoPid = NoPid
    NoDoc = NoDoc
    MaxFaults = 0
    QuietCreate = TRUE
INVARIANT CancelHitsOwnWorker
