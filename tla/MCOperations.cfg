SPECIFICATION OperationsSpec
CONSTANTS
    Jobs = {j1, j2}
    Threads = {t1}
    Pids = {p1}
    NoPid = NoPid
    NoDoc = NoDoc
    MaxFaults = 1
    QuietCreate = FALSE
    Drivers = {d1, d2}
    Demo = {d1}
    Prefixes = {x1}
    Requests = {r1, r2}
    Edits = {"off_duty"}
    Reports = {"in_progress"}
    None = None
    Alone = TRUE
SYMMETRY OperationsSymmetry
INVARIANTS TypeOK OpenInv GoneMeansReaped CompletedIsReal
    FleetInv PlannedRoutesHaveDrivers RunDelivers
PROPERTY PlanningRespectsDuty
