SPECIFICATION Spec
CONSTANTS
    Clients = {c1, c2}
    Layers = {l1}
    Manifests = {m1}
    l1 = l1
    l2 = l2
    m1 = m1
    m2 = m2
    LayersOf <- OneLayer
    Refs = {r1}
    NoManifest = NoManifest
    NoRef = NoRef
    Size = 2
    MaxLen = 4
    Concurrency = 2
    SharedPulls = TRUE
    Faults = {"network"}
INVARIANT LayerIntact
