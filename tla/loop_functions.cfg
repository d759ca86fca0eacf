SPECIFICATION FairSpec
CONSTANTS
    f1 = f1
    f2 = f2
    f3 = f3
    None = None
    RestartFunction = restart_device
    Functions = {f1, f2, f3}
INVARIANTS
    VectorSound
PROPERTIES
    WalkIsARound
