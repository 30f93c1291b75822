SPECIFICATION FairSpec
CONSTANTS
    f1 = f1 f2 = f2
    None = None
    Fetches = {f1, f2}
    Cacheable = {f1}
    MaxBytes = 3
    Views = {0, 1}
CHECK_DEADLOCK FALSE
INVARIANTS Inv BodiesAreWhole
PROPERTY BodyEnds
