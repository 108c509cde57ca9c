SPECIFICATION Spec
CONSTANTS
    Proc = {p1, p2, p3}
    NoProc = NoProc
    Domain = {d1, d2}
    IPv4 = {d1, d2}
    IPv6 = {d1}
    ManageHosts = TRUE
    Debounced = FALSE
    Faults = {"config", "lockOpen", "lockTimeout", "bypass", "nmcli", "dns", "script"}
    UserCommands = {"enforce", "apply", "enable"}
    MaxVpnChanges = 2
    MaxUserCommands = 2
    MaxCrashes = 0
    MaxDisturbances = 4
SYMMETRY Symmetry
INVARIANTS
    QuiescentFailsClosed
    SuccessLifts
PROPERTIES
    OnlyALiftOpens
