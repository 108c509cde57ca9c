SPECIFICATION Spec
CONSTANTS
    Proc = {p1, p2}
    NoProc = NoProc
    Domain = {d1, d2}
    IPv4 = {d1, d2}
    IPv6 = {d1}
    ManageHosts = TRUE
    Debounced = FALSE
    Faults = {"config", "lockOpen", "lockTimeout", "bypass", "nmcli", "dns", "script", "nftDelete", "nftLoad", "hosts"}
    UserCommands = {"enable", "disable", "apply", "edit", "tray"}
    MaxVpnChanges = 1
    MaxUserCommands = 1
    MaxCrashes = 1
    MaxDisturbances = 3
SYMMETRY Symmetry
INVARIANTS TypeOK MutualExclusion SuccessLocks
PROPERTIES SerialSpec
