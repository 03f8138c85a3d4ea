SPECIFICATION Spec
CONSTANTS
    Jobs = {j1}
    Threads = {t1, t2}
    Pids = {p1}
    NoPid = NoPid
    NoDoc = NoDoc
    MaxFaults = 0
    QuietCreate = TRUE
PROPERTY DeletedStaysDeleted
