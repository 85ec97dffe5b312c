SPECIFICATION Spec
CONSTANTS
    Projects <- MCProjects
    ImageEnv <- MCImageEnv
    Names <- MCNames
    Sizes = {2, 4}
    DefaultSize = 4
    IsolatedSize = 4
    NoGlobal = NoGlobal
    Faults = {"host", "disk", "crash", "hang", "poweroff"}
INVARIANTS TypeOK AsConfigured EnvCurrent
