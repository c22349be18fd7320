SPECIFICATION Spec
CONSTANTS
    HTTP = FALSE
    Min = 1
    Max = 2
    InitDesired = 1
    MinReady = 0
    RestartLimit = 1
    Requests = {}
    MaxGen = 3
    MaxBoots = 3
    MaxScale = 2
INVARIANT StopLeavesNothing
