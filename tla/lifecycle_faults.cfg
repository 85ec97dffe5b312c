SPECIFICATION Spec
CONSTANTS
    Procs = {p1}
    MaxPasst = 1
    Concurrent = FALSE
    EnvInjected = FALSE
    Legacy = TRUE
    Faults <- AllFaults
INVARIANT TypeOK
PROPERTY DataSafe
