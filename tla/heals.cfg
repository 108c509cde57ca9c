SPECIFICATION FairSpec
CONSTANTS
    Proc = {p1, p2}
    NoProc = NoProc
    Domain = {d1, d2}
    IPv4 = {d1, d2}
    IPv6 = {d1, d2}
    ManageHosts = TRUE
    Debounced = TRUE
    Faults = {"dns", "lockTimeout"}
    UserCommands = {"disable", "tray"}
    MaxVpnChanges = 2
    MaxUserCommands = 2
    MaxCrashes = 1
    MaxDisturbances = 2
PROPERTIES HealsWhenDown
