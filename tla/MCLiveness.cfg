SPECIFICATION FairSpec
CONSTANTS
    f1 = f1 f2 = f2 b1 = b1 b2 = b2 n1 = n1 c1 = c1 c2 = c2 k1 = k1
    Fetches <- CachedFetches
    Connects = {}
    Background <- CachedBackground
    Requests <- CachedRequests
    Clients = {c1, c2}
    Client <- CachedClient
    Keys = {k1}
    Key <- CachedKey
    Host <- CachedKey
    Cacheable <- CachedRequests
    Faults = {"disk", "network", "clear"}
CHECK_DEADLOCK FALSE
PROPERTIES EveryFetchEnds EveryRequestIsDestroyed EveryEntryIsClosed
