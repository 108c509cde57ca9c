SPECIFICATION FairSpec
CONSTANTS
    Width = 4
    MaxEntries = 2
INVARIANTS
    TypeOK
    Exact
    Minimal
PROPERTIES
    Terminates
CHECK_DEADLOCK FALSE
