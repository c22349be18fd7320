SPECIFICATION Spec
CONSTANTS
    Unset = Unset
    NoFile = NoFile
    Inputs <- MCInputs
INVARIANTS TypeOK QueueFollowsWorkers Precedence EndpointsApart PoolsInEnvelope ReadinessReachable  AdviceFits
CHECK_DEADLOCK FALSE
