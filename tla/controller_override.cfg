\* Expected to fail: override_mapping before initialize.
SPECIFICATION Spec
CONSTANTS
    Controllers = {c1, c2}
    MaxObjects = 1
    Inputs <- MCInputs
    Kinds <- MCKinds
    Maps <- MCMaps
    DefaultMap <- MCDefaultMap
    Handled <- MCHandled
    UinputKinds = {"InputMouse"}
SYMMETRY Symmetry
INVARIANTS
    BucketInvariant
