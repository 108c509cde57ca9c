SPECIFICATION Spec
CONSTANTS
    Proc = {p1, p2}
    Domain = {d1, d2, bad}
    Malformed = {bad}
    IP = {ip}
    Faults = {"read", "temp", "rename"}
    MaxEdits = 2
    MaxCrashes = 1
SYMMETRY Symmetry
INVARIANTS
    TypeOK
    ValidFile
PROPERTIES
    EditsKept
CHECK_DEADLOCK FALSE
