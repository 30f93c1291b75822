----------------------------- MODULE CacheLock -----------------------------
(***************************************************************************)
(* What the disk cache promises its requests about a cache key: a          *)
(* readers-writer lock.  Requests that only read a stored response share   *)
(* the key; one that writes it, or that asks the origin server whether it  *)
(* is still good, has the key for itself.                                  *)
(***************************************************************************)
CONSTANTS Requests, Key

VARIABLE mode   \* how each request holds its key

Modes == { "none", "shared", "exclusive" }

Holders(r) == {o \in Requests : Key[o] = Key[r] /\ mode[o] # "none"}

Init == mode = [r \in Requests |-> "none"]

AcquireShared(r) ==
    /\ \A o \in Holders(r) : mode[o] = "shared"
    /\ mode' = [mode EXCEPT ![r] = "shared"]

AcquireExclusive(r) ==
    /\ Holders(r) = {}
    /\ mode' = [mode EXCEPT ![r] = "exclusive"]

(* A request that dies while it revalidates leaves a reader behind that    *)
(* nobody may write over, but that others may read beside.                 *)
Downgrade(r) ==
    /\ mode[r] = "exclusive"
    /\ mode' = [mode EXCEPT ![r] = "shared"]

Release(r) == mode' = [mode EXCEPT ![r] = "none"]

(* The process dies.                                                       *)
ReleaseAll == mode' = [r \in Requests |-> "none"]

Next ==
    \/ \E r \in Requests : \/ AcquireShared(r) \/ AcquireExclusive(r)
                           \/ Downgrade(r) \/ Release(r)
    \/ ReleaseAll

Spec == Init /\ [][Next]_mode

(* Whoever holds a key exclusively is its only holder.                     *)
Exclusion ==
    \A r \in Requests : mode[r] = "exclusive" => Holders(r) = {r}

=============================================================================
