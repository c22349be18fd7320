SPECIFICATION FairSpec
CONSTANTS
    Specs <- MCSpecs
    Runtimes <- MCRuntimes
    UpCooldown = 2
    DownIdle = 3
    Horizon = 4
    MaxBacklog = 7
    MaxGap = 2
INVARIANTS WithinEnvelope BeliefIsPool
PROPERTIES NoFlapping Converges
