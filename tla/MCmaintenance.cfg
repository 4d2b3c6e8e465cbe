CONSTANTS
    MaxCommit = 2
    Operations = {1}
    Plain = 0
    Target <- MCTarget
    Owners = {"service"}
    Launchd = launchd
    Spawns = {spawned}
    Studios = {"image"}
    MaxWork = 1
    MaxAsked = 2
    MaxTrouble = 2
SPECIFICATION FairSpec
PROPERTIES VerdictsTrue RecoveryArmed OperationEnds StudiosRejoin
CHECK_DEADLOCK FALSE
