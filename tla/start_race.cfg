SPECIFICATION Spec
CONSTANTS
    Procs = {p1, p2}
    MaxPasst = 1
    Concurrent = TRUE
    EnvInjected = FALSE
    Legacy = FALSE
    Faults = {}
PROPERTY DataSafe
