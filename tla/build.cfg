SPECIFICATION Spec
CONSTANTS
    Procs = {p1, p2}
    Arches = {"amd64", "arm64"}
    HostArch = "amd64"
    Typed = {"own"}
    Faults = {"network", "disk", "crash", "hang", "torn", "host", "libvirt", "guest"}
    Cagefiles <- MCCagefiles
    Builds <- MCBuilds
    Context <- MCContext
    Paths <- MCPaths
    Parent <- MCParent
    CagePaths <- MCCagePaths
    Users <- MCUsers
    MaxCommands = 3
INVARIANTS
    TypeOK BaseWhole MetaTruthful ImageArch
    ImageIsCagefile CagefileWhole ArgsResolved BuildLeavesNothing KeptForDebugging
CHECK_DEADLOCK FALSE
PROPERTY BuildEnds
