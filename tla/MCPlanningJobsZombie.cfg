SPECIFICATION FairSpec
CONSTANTS
    Jobs = {j1}
    Threads = {t1}
    Pids = {p1}
    NoPid = NoPid
    NoDoc = NoDoc
    MaxFaults = 1
    QuietCreate = TRUE
PROPERTY DeadIsReported
