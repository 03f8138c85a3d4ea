SPECIFICATION FleetSpec
CONSTANTS
    Drivers = {d1, d2}
    Demo = {d1}
    Prefixes = {p1}
    Requests = {r1, r2}
    Edits = {"available", "off_duty"}
    Reports = {"in_progress"}
    None = None
    Alone = FALSE
SYMMETRY Symmetry
PROPERTY DeletionMarksRoutes
