SPECIFICATION FairSpec
CONSTANTS
    Service = service
    User = user
    Domain = {d1, d2}
    Link = {wifi, lan}
    NoRoute = NoRoute
    MaxCommands = 3
    MaxChanges = 3
    MaxFaults = 2
INVARIANTS
    TypeOK
    SuccessIsCurrent
PROPERTIES
    RoutesSpec
    InstallServes
    KeepsRouted
CHECK_DEADLOCK FALSE
