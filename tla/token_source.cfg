SPECIFICATION FairSpec
CONSTANTS
    Procs = {p1}
    Workers = {w1, w2}
    Hosts = {h1, h2}
    NoHost = NoHost
    NoWorker = NoWorker
    MaxGrants = 3
    Overlapping = FALSE
    Faults <- AllFaults
INVARIANTS TypeOK LiveRefresh SessionKept RetryNewer LoginKept
PROPERTY RequestEnds
