SPECIFICATION Spec
CONSTANTS
    Service = service
    Refresh = refresh
    Lifter = lifter
    Hook = {h1}
    Prefix = {n1}
    Options = {{}}
    Faults = {}
    MaxChanges = 0
    MaxJobs = 2
    MaxKills = 0
PROPERTIES UninstallRemovesRoutes
CHECK_DEADLOCK FALSE
