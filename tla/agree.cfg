SPECIFICATION FairSpec
CONSTANTS
    Proc = {p1, p2}
    NoProc = NoProc
    Domain = {d1, d2}
    IPv4 = {d1}
    IPv6 = {d2}
    ManageHosts = TRUE
    Debounced = FALSE
    Faults = {}
    UserCommands = {"enforce", "apply"}
    MaxVpnChanges = 3
    MaxUserCommands = 2
    MaxCrashes = 0
    MaxDisturbances = 5
INVARIANTS
    QuiescentAgrees
PROPERTIES
    LiftsWhenUp
