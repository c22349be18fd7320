SPECIFICATION FairSpec
CONSTANTS
    Worker = {w1, w2}
    Requests = {r1, r2, r3}
    NoWorker = NoWorker
    Sloppy = {w2}
    Capacity = 1
    MaxSeq = 3
    MaxReplies = 2
INVARIANTS TypeOK CountersExact NoWorkerKept NoInheritedAnswer
PROPERTIES RequestAnswered
