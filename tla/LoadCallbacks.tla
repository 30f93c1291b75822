--------------------------- MODULE LoadCallbacks ---------------------------
(***************************************************************************)
(* What ResourceLoader promises those who load a resource over the         *)
(* network: the headers once, data at any time, before the headers too,    *)
(* and then the end, once, after which nothing is called any more.  A load *)
(* that ends well has had its headers.  FetchedDataReceiver relies on it.  *)
(* That the headers come once is RequestServer's doing (ClientProtocol in  *)
(* RequestServer.tla): Request passes on what it is sent, and the comment  *)
(* in Fetching.cpp expects them a second time, for trailers.               *)
(***************************************************************************)
EXTENDS Naturals

CONSTANT Loads

VARIABLES
    progress,  \* how far each load has come
    data       \* the bytes that each load was given

LoadState == {"none", "started", "headers", "complete", "failed", "stopped"}

Init ==
    /\ progress = [l \in Loads |-> "none"]
    /\ data = [l \in Loads |-> 0]

Underway(l) == progress[l] \in {"started", "headers"}

Start(l) == progress[l] = "none" /\ progress'[l] = "started" /\ data'[l] = data[l]

Headers(l) == progress[l] = "started" /\ progress'[l] = "headers" /\ data'[l] = data[l]

Data(l) == Underway(l) /\ progress'[l] = progress[l] /\ data'[l] > data[l]

(* The last data and the end may come in one turn of the event loop.       *)
Complete(l) == progress[l] = "headers" /\ progress'[l] = "complete" /\ data'[l] >= data[l]

Fail(l) == Underway(l) /\ progress'[l] = "failed" /\ data'[l] >= data[l]

(* Who stops a load is not called any more.                                *)
Stop(l) == Underway(l) /\ progress'[l] = "stopped" /\ data'[l] = data[l]

Stays(l) == progress'[l] = progress[l] /\ data'[l] = data[l]

(* One turn of the event loop may end several loads: RequestServer died.   *)
Next ==
    \A l \in Loads :
        Stays(l) \/ Start(l) \/ Headers(l) \/ Data(l) \/ Complete(l) \/ Fail(l) \/ Stop(l)

Spec == Init /\ [][Next]_<<progress, data>>
=============================================================================
