SPECIFICATION FairSpec
CONSTANTS
    HTTP = TRUE
    Min = 0
    Max = 1
    InitDesired = 0
    MinReady = 0
    RestartLimit = 1
    Requests = {r1}
    MaxGen = 2
    MaxBoots = 2
    MaxScale = 3
CONSTRAINT ThirdAlone
PROPERTIES RequestEnds StopEnds DrainEnds
