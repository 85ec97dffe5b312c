SPECIFICATION Spec
CONSTANTS
    Procs = {p1, p2}
    Arches = {"amd64", "arm64"}
    HostArch = "amd64"
    Typed = {"own"}
    Faults = {"hang"}
    Cagefiles <- MCCagefiles
    Builds <- MCCopy
    Context <- MCContext
    Paths <- MCPaths
    Parent <- MCParent
    CagePaths <- MCCagePaths
    Users <- MCUsers
    MaxCommands = 3
PROPERTY SavesStopped
CHECK_DEADLOCK FALSE
