SPECIFICATION Spec
CONSTANTS
    Responses <- MCResponses
    Updates <- MCUpdates
    Ages = {0, 1}
    Start = 30
    MaxTime = 34
INVARIANT RevalidationHasAttributes
CHECK_DEADLOCK FALSE
