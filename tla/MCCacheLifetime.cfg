SPECIFICATION Spec
CONSTANTS
    Responses <- MCResponses
    Updates <- MCUpdates
    Ages = {0, 1}
    Start = 30
    MaxTime = 34
INVARIANTS Inv FreshIsYoung
PROPERTY StatusOnlyDecays
CHECK_DEADLOCK FALSE
