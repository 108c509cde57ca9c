SPECIFICATION Spec
CONSTANTS
    Target = {t1, t2, t3, t4}
    Link = {wifi, lan, tun}
    Virtual = {tun}
    NoRoute = NoRoute
    DomainTargets = {t1, t2}
    IPTargets = {t2, t3}
    Faults = {"dns", "del", "add", "state"}
    MaxChanges = 3
    MaxCrashes = 1
INVARIANTS
    TypeOK
    SuccessIsExact
    SuccessRoutes
PROPERTIES RoutesSpec
CHECK_DEADLOCK FALSE
