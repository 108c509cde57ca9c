SPECIFICATION FairSpec
CONSTANTS
    Task = {t1, t2}
    NoThread = NoThread
    Tools = {"core", "pkexec", "yad"}
    ActionItem = {item}
    MaxClicks = 2
    MaxChanges = 1
INVARIANTS
    TypeOK
    OneAction
    MenuSettles
    ShowsActions
PROPERTIES
    ShownInOrder
    MenuReturns
    ChangesShown
CHECK_DEADLOCK FALSE
