SPECIFICATION Spec
CONSTANTS
    Controllers = {c1, c2}
    MaxObjects = 3
    Inputs <- MCInputs
    Kinds <- MCKinds
    Maps <- MCMaps
    DefaultMap <- MCDefaultMap
    Handled <- MCHandled
    UinputKinds = {"InputMouse"}
SYMMETRY Symmetry
INVARIANTS
    TypeOK
    FireExact
    OneOwner
PROPERTIES
    DeadIdsStayDead
