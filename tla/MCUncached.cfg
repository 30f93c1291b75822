SPECIFICATION FairSpec
CONSTANTS
    f1 = f1 f2 = f2 b1 = b1 b2 = b2 n1 = n1 c1 = c1 c2 = c2 k1 = k1
    Fetches = {f1}
    Connects = {n1}
    Background <- UncachedBackground
    Requests <- UncachedRequests
    Clients = {c1}
    Client <- UncachedClient
    Keys = {k1}
    Key <- UncachedKey
    Host <- UncachedKey
    Cacheable = {}
    Faults = {"dns", "curl", "pipe", "network"}
CHECK_DEADLOCK FALSE
PROPERTIES EveryFetchEnds
