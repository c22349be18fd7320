SPECIFICATION Spec
CONSTANTS
    HTTP = TRUE
    Min = 2
    Max = 2
    InitDesired = 2
    MinReady = 1
    RestartLimit = 1
    Requests = {r1}
    MaxGen = 2
    MaxBoots = 3
    MaxScale = 0
INVARIANTS TypeOK OneProcessPerSlot ServingUndisturbed FailedSlotStaysDown StopLeavesNothing
PROPERTIES StopFreezes Supervises
CONSTRAINTS FirstSlotAgain NeighbourHolds
