SPECIFICATION FairSpec
CONSTANTS
    r1 = r1 r2 = r2 r3 = r3
    Requests = {r1, r2}
    Owners = {"ResourceLoader", "Autocomplete"}
    MaxData = 2
    Faults = {"error", "death", "replace"}
CHECK_DEADLOCK FALSE
INVARIANT Inv
PROPERTIES ImplementsCallbacks SentLoadEnds
