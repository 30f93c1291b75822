SPECIFICATION FairSpec
CONSTANTS
    c1 = c1 c2 = c2 c3 = c3 n1 = n1 n2 = n2 address = address i1 = i1 i2 = i2
    None = None
    Names = {n1, n2, address}
    Literals = {address}
    Ids = {i1, i2}
    Callers = {c1, c2, c3}
    Hosts <- CallersHosts
    Faults = {"loss", "duplicate", "close", "create", "system", "write"}
CHECK_DEADLOCK FALSE
INVARIANTS Inv CalledOnce AnswersAreAboutTheName AnswersAreCurrent
PROPERTY CallerHears
