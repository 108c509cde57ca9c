SPECIFICATION Spec
CONSTANTS
    Domain = {d1, d2}
    Foreign = {f1, f2, f3}
    Quoting = {f1}
    MaxRuns = 3
    MaxEdits = 3
    MaxTorn = 1
INVARIANTS
    TypeOK
    EnabledExact
    DisabledClean
    OthersKept
CHECK_DEADLOCK FALSE
