------------------------ MODULE FetchedDataReceiver ------------------------
(***************************************************************************)
(* The bodies of fetched responses in WebContent: for each fetch, the      *)
(* callbacks that ResourceLoader makes for the network (headers, data,     *)
(* completion), the FetchedDataReceiver that buffers the bytes, the        *)
(* ReadableStream that a consumer reads them from, and the memory cache    *)
(* that keeps the body when the stream has been closed.  Everything runs   *)
(* on one thread, but the network, the consumer, the queued fetch tasks    *)
(* and whoever stops the fetch take their turns in any order.              *)
(***************************************************************************)
EXTENDS MemoryCache

CONSTANTS
    MaxBytes,   \* bound: the bytes of a body
    Views       \* what readers bring: 0 is a default reader, n a BYOB view of n bytes

ASSUME FetchedDataReceiverAssumption ==
    /\ MaxBytes \in Nat
    /\ Views \subseteq Nat

VARIABLES
    network,    \* what ResourceLoader has reported of each fetch
    response,   \* the PendingResponse, and the callback it defers
    receiver,   \* FetchedDataReceiver's members
    stream,     \* the ReadableStream, and the pull that is under way
    wrote,      \* the bytes that the network has brought
    read        \* the bytes that the consumer was given

vars == <<m_pending_entries, m_complete_entries,
          network, response, receiver, stream, wrote, read>>

LifecycleState == {"Receiving", "CompletePending", "ReadyToClose", "Closed"}

(* task: the bytes of the fetch task in the queue, 0 when there is none.   *)
(* broken: a VERIFY has failed.                                            *)
Receiver ==
    [m_buffer : 0 .. MaxBytes, m_pulled_bytes : 0 .. MaxBytes, m_pending_promise : BOOLEAN,
     m_has_unfulfilled_promise : BOOLEAN, m_lifecycle_state : LifecycleState,
     task : 0 .. MaxBytes, broken : BOOLEAN]

NewReceiver ==
    [m_buffer |-> 0, m_pulled_bytes |-> 0, m_pending_promise |-> FALSE,
     m_has_unfulfilled_promise |-> FALSE, m_lifecycle_state |-> "Receiving",
     task |-> 0, broken |-> FALSE]

(* trimmed: history, the bytes that were cut off for want of a larger view. *)
Stream ==
    [state : {"readable", "closed", "errored", "cancelled"}, pulling : BOOLEAN,
     view : Views \cup {0}, trimmed : 0 .. MaxBytes]

NewStream == [state |-> "readable", pulling |-> FALSE, view |-> 0, trimmed |-> 0]

Init ==
    /\ MemoryCacheInit
    /\ network = [f \in Fetches |-> "none"]
    /\ response = [f \in Fetches |-> "none"]
    /\ receiver = [f \in Fetches |-> NewReceiver]
    /\ stream = [f \in Fetches |-> NewStream]
    /\ wrote = [f \in Fetches |-> 0]
    /\ read = [f \in Fetches |-> 0]

(***************************************************************************)
(* The receiver, as functions of its members.  VERIFY(b, r) is r when b    *)
(* holds; nothing is done by a process whose VERIFY has failed.            *)
(***************************************************************************)

VERIFY(b, r) == [r EXCEPT !.broken = @ \/ ~b]

buffer_is_eof(r) == r.m_pulled_bytes = r.m_buffer

copy_unpulled_bytes(r) == r.m_buffer - r.m_pulled_bytes

(* Queues a fetch task with all that has not been pulled.                  *)
pull_bytes_into_stream(r) ==
    VERIFY(/\ r.m_lifecycle_state \in {"Receiving", "CompletePending"}
           /\ copy_unpulled_bytes(r) > 0
           /\ ~r.m_has_unfulfilled_promise,
           [r EXCEPT !.task = copy_unpulled_bytes(r),
                     !.m_pulled_bytes = @ + copy_unpulled_bytes(r),
                     !.m_has_unfulfilled_promise = TRUE,
                     !.m_pending_promise = FALSE])

close_stream(r) ==
    VERIFY(~r.m_has_unfulfilled_promise /\ buffer_is_eof(r),
           [r EXCEPT !.m_pending_promise = FALSE, !.m_lifecycle_state = "Closed"])

\* mutant: the task in the queue is forgotten
ready_to_close_Early(r) ==
    r.m_lifecycle_state = "CompletePending" /\ buffer_is_eof(r)

(* The completion of the network is not yet the end of the stream: the     *)
(* bytes in the buffer and in the queued task come first.                  *)
ready_to_close(r) ==
    /\ r.m_lifecycle_state = "CompletePending"
    /\ buffer_is_eof(r)
    /\ ~r.m_has_unfulfilled_promise

WhenReady(r) == IF ready_to_close(r) THEN [r EXCEPT !.m_lifecycle_state = "ReadyToClose"] ELSE r

set_pending_promise(r) ==
    LET asked == VERIFY(~r.m_pending_promise /\ ~r.m_has_unfulfilled_promise,
                        [r EXCEPT !.m_pending_promise = TRUE])
    IN  CASE ~buffer_is_eof(r) -> pull_bytes_into_stream(asked)
          [] buffer_is_eof(r) /\ r.m_lifecycle_state = "ReadyToClose" -> close_stream(asked)
          [] OTHER -> asked

\* mutant: bytes that nobody waits for are not kept
handle_network_bytes_Drop(r, n, readable) ==
    CASE n > 0 /\ ~r.m_pending_promise -> r
      [] n > 0 /\ r.m_pending_promise -> pull_bytes_into_stream([r EXCEPT !.m_buffer = @ + n])
      [] n = 0 /\ r.m_pending_promise /\ readable ->
             close_stream([r EXCEPT !.m_lifecycle_state = "CompletePending"])
      [] OTHER -> WhenReady([r EXCEPT !.m_lifecycle_state = "CompletePending"])

(* n bytes from the network, or its end when n is 0.                       *)
handle_network_bytes(r, n, readable) ==
    LET got == VERIFY(r.m_lifecycle_state = "Receiving",
                      IF n > 0 THEN [r EXCEPT !.m_buffer = @ + n]
                      ELSE [r EXCEPT !.m_lifecycle_state = "CompletePending"])
    IN  CASE ~r.m_pending_promise -> WhenReady(got)
          [] r.m_pending_promise /\ n > 0 -> pull_bytes_into_stream(got)
          [] r.m_pending_promise /\ n = 0 /\ readable -> close_stream(got)
          [] OTHER -> got

\* mutant: the task does not notice that the network is done
FinishTask_Forgets(r) == [r EXCEPT !.m_has_unfulfilled_promise = FALSE, !.task = 0]

(* What the queued task does once it has given its bytes to the stream.    *)
FinishTask(r) ==
    WhenReady(VERIFY(r.m_lifecycle_state \in {"Receiving", "CompletePending"},
                     [r EXCEPT !.m_has_unfulfilled_promise = FALSE, !.task = 0]))

(* The receiver of f is r now.  If that has closed the stream, the memory  *)
(* cache gets the body; otherwise the stream is s.                         *)
Becomes(f, r, s) ==
    /\ receiver' = [receiver EXCEPT ![f] = r]
    /\ IF r.m_lifecycle_state = "Closed"
       THEN /\ stream' = [stream EXCEPT ![f] = [s EXCEPT !.state = "closed", !.pulling = FALSE]]
            /\ finalize_entry(f, r.m_buffer)
       ELSE /\ stream' = [stream EXCEPT ![f] = s]
            /\ UNCHANGED <<m_pending_entries, m_complete_entries>>

(***************************************************************************)
(* The fetch: from the cache, or over the network.                         *)
(***************************************************************************)

FetchFromNetwork(f) ==
    /\ network[f] = "none"
    /\ network' = [network EXCEPT ![f] = "started"]
    /\ UNCHANGED <<m_pending_entries, m_complete_entries, response, receiver, stream, wrote, read>>

(* A stored response that is fresh, or need not be, is the response; one   *)
(* that is stale may still be it when the network has answered 304.        *)
select_response_from_cache(f) ==
    /\ network[f] = "none"
    /\ open_entry # {}
    /\ network' = [network EXCEPT ![f] = "cached"]
    /\ UNCHANGED <<m_pending_entries, m_complete_entries, response, receiver, stream, wrote, read>>

Underway(f) == network[f] \in {"started", "headers"}

on_headers_received(f) ==
    /\ network[f] = "started"
    /\ network' = [network EXCEPT ![f] = "headers"]
    /\ response' = [response EXCEPT ![f] = "resolved"]
    /\ UNCHANGED <<m_pending_entries, m_complete_entries, receiver, stream, wrote, read>>

(* The data come through a pipe, and may overtake the headers.             *)
on_data_received(f) ==
    /\ Underway(f)
    /\ \E n \in 1 .. MaxBytes - wrote[f] :
           /\ wrote' = [wrote EXCEPT ![f] = @ + n]
           /\ Becomes(f, handle_network_bytes(receiver[f], n, stream[f].state = "readable"), stream[f])
    /\ UNCHANGED <<network, response, read>>

on_complete_success(f) ==
    /\ network[f] = "headers"
    /\ network' = [network EXCEPT ![f] = "complete"]
    /\ Becomes(f, handle_network_bytes(receiver[f], 0, stream[f].state = "readable"), stream[f])
    /\ UNCHANGED <<response, wrote, read>>

on_complete_failure(f) ==
    /\ Underway(f)
    /\ network' = [network EXCEPT ![f] = "failed"]
    /\ stream' = [stream EXCEPT ![f].state = IF @ = "readable" THEN "errored" ELSE @]
    /\ response' = [response EXCEPT ![f] = IF @ = "none" THEN "network error" ELSE @]
    /\ UNCHANGED <<m_pending_entries, m_complete_entries, receiver, wrote, read>>

(* The deferred callback of the pending response: the headers are stored,  *)
(* and the consumer gets the response.  The status of a network error is   *)
(* not cacheable.                                                          *)
store_response_in_cache(f) ==
    /\ response[f] = "resolved"
    /\ response' = [response EXCEPT ![f] = "loaded"]
    /\ create_entry(f)
    /\ UNCHANGED <<network, receiver, stream, wrote, read>>

(* The response to a revalidation says that the stored one is still valid: *)
(* the consumer gets that one, and nobody reads the body of this one.      *)
Validated(f) ==
    /\ response[f] = "resolved"
    /\ open_entry # {}
    /\ response' = [response EXCEPT ![f] = "validated"]
    /\ UNCHANGED <<m_pending_entries, m_complete_entries, network, receiver, stream, wrote, read>>

(***************************************************************************)
(* The consumer.  The stream's high water mark is 0: it pulls when it is   *)
(* read from, and one pull at a time.                                      *)
(***************************************************************************)

pull_algorithm(f) ==
    /\ response[f] = "loaded"
    /\ stream[f].state = "readable"
    /\ ~stream[f].pulling
    /\ \E v \in Views :
           Becomes(f, set_pending_promise(receiver[f]),
                   [stream[f] EXCEPT !.pulling = TRUE, !.view = v])
    /\ UNCHANGED <<network, response, wrote, read>>

(* What a reader gets of n bytes: a BYOB view takes what fits into it, and  *)
(* nobody keeps the rest, which the receiver counts as pulled.             *)
pull_from_bytes(v, n) == IF v > 0 /\ v < n THEN v ELSE n

(* The task of pull_bytes_into_stream.  The promise that it resolves ends  *)
(* the pull.  A stream that is no longer readable ignores the bytes.       *)
FetchTask(f) ==
    LET n == receiver[f].task
        given == IF stream[f].state = "readable" THEN pull_from_bytes(stream[f].view, n) ELSE 0
        lost == IF stream[f].state = "readable" THEN n - given ELSE 0
    IN  /\ n > 0
        /\ receiver' = [receiver EXCEPT ![f] = FinishTask(@)]
        /\ stream' = [stream EXCEPT ![f].pulling = FALSE, ![f].trimmed = @ + lost]
        /\ read' = [read EXCEPT ![f] = @ + given]
        /\ UNCHANGED <<m_pending_entries, m_complete_entries, network, response, wrote>>

(* The consumer cancels the stream.                                        *)
cancel_algorithm(f) ==
    /\ response[f] = "loaded"
    /\ stream[f].state = "readable"
    /\ stream' = [stream EXCEPT ![f].state = "cancelled"]
    /\ UNCHANGED <<m_pending_entries, m_complete_entries,
                   network, response, receiver, wrote, read>>

(* FetchController::stop_fetch removes the queued task: its bytes are      *)
(* gone, and its promise is never resolved.                                *)
stop_fetch(f) ==
    /\ receiver[f].task > 0
    /\ receiver' = [receiver EXCEPT ![f].task = 0]
    /\ UNCHANGED <<m_pending_entries, m_complete_entries, network, response, stream, wrote, read>>

Intact == \A f \in Fetches : ~receiver[f].broken

Next ==
    /\ Intact
    /\ \E f \in Fetches :
           \/ FetchFromNetwork(f)
           \/ select_response_from_cache(f)
           \/ on_headers_received(f)
           \/ on_data_received(f)
           \/ on_complete_success(f)
           \/ on_complete_failure(f)
           \/ store_response_in_cache(f)
           \/ Validated(f)
           \/ pull_algorithm(f)
           \/ FetchTask(f)
           \/ cancel_algorithm(f)
           \/ stop_fetch(f)

Spec == Init /\ [][Next]_vars

(* The event loop runs deferred calls and queued tasks, and a consumer     *)
(* that reads goes on reading.                                             *)
Fairness ==
    \A f \in Fetches :
        /\ WF_vars(Intact /\ store_response_in_cache(f))
        /\ WF_vars(Intact /\ FetchTask(f))
        /\ WF_vars(Intact /\ pull_algorithm(f))

FairSpec == Spec /\ Fairness

-----------------------------------------------------------------------------

(* The shape of the state, the bounds included.                            *)
TypeOK ==
    /\ m_pending_entries \in Fetches \cup {None}
    /\ m_complete_entries \subseteq Entry
    /\ network \in [Fetches -> {"none", "cached", "started", "headers", "complete", "failed"}]
    /\ response \in [Fetches -> {"none", "resolved", "loaded", "validated", "network error"}]
    /\ receiver \in [Fetches -> Receiver]
    /\ stream \in [Fetches -> Stream]
    /\ wrote \in [Fetches -> 0 .. MaxBytes]
    /\ read \in [Fetches -> 0 .. MaxBytes]

(* No VERIFY of the receiver fails, whatever the order of network,         *)
(* consumer and tasks: a pull never finds another one under way, a task    *)
(* never runs after the receiver was ready to close, a stream is never     *)
(* closed over bytes that are still to be read.                            *)
AssertionsHold == Intact

(* The variables have their types, and no VERIFY fails.                    *)
Inv == TypeOK /\ AssertionsHold

(* A stream that the receiver has closed has given its consumer every byte *)
(* that the network brought, and the network was done.  This is what stops *)
(* a truncated body from looking complete.  The bytes that a BYOB view of  *)
(* the consumer's own was too small for are the one exception: step 7 of   *)
(* pull_from_bytes, which would leave them with the receiver, is skipped,  *)
(* and copy_unpulled_bytes has counted them as pulled.                     *)
ClosedIsWhole ==
    \A f \in Fetches :
        stream[f].state = "closed" =>
            network[f] = "complete" /\ read[f] + stream[f].trimmed = wrote[f]

(* A body in the memory cache is the whole body of a fetch that ended      *)
(* well.                                                                   *)
CachedBodyIsWhole ==
    \A e \in m_complete_entries :
        network[e.body] = "complete" /\ e.size = wrote[e.body]

(* A body that is closed or kept is the whole body.                        *)
BodiesAreWhole == ClosedIsWhole /\ CachedBodyIsWhole

(* stop_fetch has taken the task of a pull that is under way.              *)
Stopped(f) == receiver[f].m_has_unfulfilled_promise /\ receiver[f].task = 0

(* Once the network is done, a consumer that has the response and goes on  *)
(* reading comes to the end of the stream, unless it cancels it or the     *)
(* fetch is stopped.                                                       *)
BodyEnds ==
    \A f \in Fetches :
        network[f] = "complete" /\ response[f] = "loaded"
            ~> stream[f].state # "readable" \/ Stopped(f)
=============================================================================
