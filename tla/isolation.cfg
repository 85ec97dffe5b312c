SPECIFICATION Spec
CONSTANTS
    build1 = build1
    build2 = build2
    web = web
    cv_build = cv_build
    cv_web = cv_web
    Cages = {build1, build2, web}
    Names = {cv_build, cv_web}
    VethOf <- MCVethOf
    p2222 = p2222
    Ports = {p2222}
    PortOf <- MCPortOf
    NoPort = NoPort
    Faults = {"host", "passt", "libvirt", "poweroff", "unsaved", "force", "crash"}
    MaxStarts = 4
    Nobody = Nobody
INVARIANTS TypeOK RulesAccounted NetworkStands NothingLeft
CHECK_DEADLOCK FALSE
