SPECIFICATION FairSpec
CONSTANTS
    Procs = {p1}
    MaxPasst = 2
    Concurrent = FALSE
    EnvInjected = FALSE
    Legacy = FALSE
    Faults <- DailyFaults
INVARIANTS TruthfulState DefinedHasDisk NetworkServed
PROPERTIES KeepsPromise CommandEnds
