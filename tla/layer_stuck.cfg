SPECIFICATION FairSpec
CONSTANTS
    Clients = {c1}
    Layers = {l1, l2}
    Manifests = {m1, m2}
    l1 = l1
    l2 = l2
    m1 = m1
    m2 = m2
    LayersOf <- MCLayersOf
    Refs = {r1}
    NoManifest = NoManifest
    NoRef = NoRef
    Size = 2
    MaxLen = 3
    Concurrency = 2
    SharedPulls = FALSE
    Faults = {"network"}
PROPERTY ResumesNaturally
