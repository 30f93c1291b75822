\* Clients come and go, decoders crash, the process is replaced.
CONSTANTS
    browser = browser
    content = content
    None = None
    Clients <- MCClients
    First = browser
    Images <- MCImages
    Owner <- MCOwner
    Invalid <- MCInvalid
    Faults <- MCFaults
SPECIFICATION FairSpec
INVARIANTS Inv SleepsOnlyWhenIdle OwnOutcome
PROPERTIES DecodeIsAnswered ProcessEnds
CHECK_DEADLOCK FALSE
