SPECIFICATION FairSpec
CONSTANTS
    h1 = h1
    c = c
    web = web
    jobs = jobs
    NoWorker = NoWorker
    NoPool = NoPool
    Worker = {h1, c}
    Http = {h1}
    Pools = {web, jobs}
    HttpPool = web
    PoolOf <- PoolsOf
    MinReady <- NeedOne
    Startup = 1
    Handshake = 1
    Grace = 1
    HttpTimeout = 1
    Slack = 1
    RestartLimit = 1
    Requests = {r1}
CONSTRAINT OneTrouble
INVARIANTS TypeOK OwnSocket NoStrayProcess CleanEnd
PROPERTIES ServingSpared GraceGiven SignalEnds ReadyAgain Supervises
