-------------------------- MODULE MCRequestServer --------------------------
(* Instances of RequestServer for TLC: two clients whose fetches contend   *)
(* for one cache key, and one client that uses no cache and preconnects.   *)
EXTENDS RequestServer, TLC, FiniteSets

CONSTANTS f1, f2, b1, b2, n1, c1, c2, k1

CachedFetches == {f1, f2}
CachedBackground == (f1 :> b1) @@ (f2 :> b2)
CachedRequests == {f1, f2, b1, b2}
CachedKey == [r \in CachedRequests |-> k1]
CachedClient == [r \in CachedRequests |-> IF r \in {f1, b1} THEN c1 ELSE c2]

UncachedBackground == f1 :> b1
UncachedRequests == {f1, b1, n1}
UncachedKey == [r \in UncachedRequests |-> k1]
UncachedClient == [r \in UncachedRequests |-> c1]
=============================================================================
