SPECIFICATION Spec
CONSTANTS
    Service = service
    Refresh = refresh
    Lifter = lifter
    Hook = {h1, h2}
    Prefix = {}
    Options = {{"no-copy", "no-enable"}, {"no-start"}, {"no-enable", "no-start"}, {}}
    Faults = {"write", "systemctl", "lockTimeout"}
    MaxChanges = 2
    MaxJobs = 3
    MaxKills = 1
SYMMETRY Symmetry
INVARIANTS
    TypeOK
    
PROPERTIES OnlyHooksRelock
CHECK_DEADLOCK FALSE
