SPECIFICATION Spec
CONSTANTS
    p1 = p1
    p2 = p2
    small = small
    large = large
    Pushes = {p1, p2}
    Layers = {small, large}
    Image <- MCImage
    Size <- MCSize
    PartSize = 1
    ServerParts <- MCServerParts
    Limit = 2
    Refreshing = {p1}
    Faults <- MCFaults
    Nobody = Nobody
INVARIANTS TypeOK TagComplete SurvivesExpiry
PROPERTY PushEnds
CHECK_DEADLOCK FALSE
