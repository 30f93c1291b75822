--------------------------- MODULE RequestClient ---------------------------
(***************************************************************************)
(* LibRequests in a client process of RequestServer: RequestClient, its    *)
(* Request objects, and the one owner of requests that the process has,    *)
(* WebContent's ResourceLoader or the browser's Autocomplete.  What is     *)
(* known of a request arrives on two ways that are not ordered with each   *)
(* other: messages (it started, headers, finished) and a pipe (data, end). *)
(* The client is single-threaded; messages, pipes, deferred calls, the     *)
(* owner and the death of the server take their turns in any order.        *)
(***************************************************************************)
EXTENDS Naturals, Sequences, FiniteSets

CONSTANTS
    Requests,   \* requests, by id
    Owners,     \* which kinds of process there are
    MaxData,    \* bound: the writes of the server into one pipe
    Faults      \* what can go wrong, a subset of FaultKinds

FaultKinds == {"error", "death", "replace"}

ASSUME RequestClientAssumption ==
    /\ Owners \subseteq {"ResourceLoader", "Autocomplete"}
    /\ MaxData \in Nat
    /\ Faults \subseteq FaultKinds

VARIABLES
    owner,      \* the owner of the requests in this process
    client,     \* RequestClient: its transport is open, it died, or it is destroyed
    server,     \* RequestServer is alive or died
    channel,    \* messages that the server sent and the client has not handled
    work,       \* how far the server has come with each request
    pipe,       \* written into each pipe and not yet read
    wrote,      \* written into each pipe in all
    m_requests, \* RequestClient's requests
    held,       \* m_active_requests of ResourceLoader, m_request of Autocomplete
    deferred,   \* requests whose end has deferred a call of the owner
    request,    \* the members of each Request
    got,        \* the data that each request's owner was given
    called,     \* the owner's callbacks so far: none, headers, complete or failed
    crashed     \* a VERIFY or a null pointer has ended the process

vars == <<owner, client, server, channel, work, pipe, wrote, m_requests, held,
          deferred, request, got, called, crashed>>
serverVars == <<server, channel, work, wrote>>

(* A Request object: data is whether m_internal_stream_data is there.      *)
Request ==
    [issued : BOOLEAN, data : BOOLEAN, read_stream : {"none", "open", "eof"},
     request_done : BOOLEAN, network_error : BOOLEAN, user_finish_called : BOOLEAN]

NotIssued ==
    [issued |-> FALSE, data |-> FALSE, read_stream |-> "none",
     request_done |-> FALSE, network_error |-> FALSE, user_finish_called |-> FALSE]

NewRequest == [NotIssued EXCEPT !.issued = TRUE, !.data = TRUE]

Work == {"none", "asked", "started", "headers", "finished", "gone"}
Message == [type : {"started", "headers", "finished", "failed"}, id : Requests]

Init ==
    /\ owner \in Owners
    /\ client = "open"
    /\ server = "alive"
    /\ channel = << >>
    /\ work = [r \in Requests |-> "none"]
    /\ pipe = [r \in Requests |-> 0]
    /\ wrote = [r \in Requests |-> 0]
    /\ m_requests = {}
    /\ held = {}
    /\ deferred = {}
    /\ request = [r \in Requests |-> NotIssued]
    /\ got = [r \in Requests |-> 0]
    /\ called = [r \in Requests |-> "none"]
    /\ crashed = FALSE

-----------------------------------------------------------------------------
(***************************************************************************)
(* The server, as RequestServer.tla has it: a request starts, gives its    *)
(* headers, writes data, finishes, and is destroyed, which closes the      *)
(* pipe; or it fails at any point.                                         *)
(***************************************************************************)

Send(r, type) == channel' = Append(channel, [type |-> type, id |-> r])

ServerUnchanged ==
    UNCHANGED <<owner, client, server, m_requests, held, deferred, request, got, called, crashed>>

inform_client_request_started(r) ==
    /\ work[r] = "asked"
    /\ work' = [work EXCEPT ![r] = "started"]
    /\ Send(r, "started")
    /\ UNCHANGED <<pipe, wrote>> /\ ServerUnchanged

transfer_headers_to_client_if_needed(r) ==
    /\ work[r] = "started"
    /\ work' = [work EXCEPT ![r] = "headers"]
    /\ Send(r, "headers")
    /\ UNCHANGED <<pipe, wrote>> /\ ServerUnchanged

write_queued_bytes_without_blocking(r) ==
    /\ work[r] = "headers"
    /\ wrote[r] < MaxData
    /\ wrote' = [wrote EXCEPT ![r] = @ + 1]
    /\ pipe' = [pipe EXCEPT ![r] = @ + 1]
    /\ UNCHANGED <<channel, work>> /\ ServerUnchanged

handle_complete_state(r) ==
    /\ work[r] = "headers"
    /\ work' = [work EXCEPT ![r] = "finished"]
    /\ Send(r, "finished")
    /\ UNCHANGED <<pipe, wrote>> /\ ServerUnchanged

handle_error_state(r) ==
    /\ "error" \in Faults
    /\ work[r] \in {"asked", "started", "headers"}
    /\ work' = [work EXCEPT ![r] = "finished"]
    /\ Send(r, "failed")
    /\ UNCHANGED <<pipe, wrote>> /\ ServerUnchanged

request_complete(r) ==
    /\ work[r] = "finished"
    /\ work' = [work EXCEPT ![r] = "gone"]
    /\ UNCHANGED <<channel, pipe, wrote>> /\ ServerUnchanged

(* The end of the process: the pipes are closed, and what its I/O thread   *)
(* had not yet sent is lost.                                               *)
ServerDies ==
    /\ "death" \in Faults
    /\ server = "alive"
    /\ server' = "died"
    /\ \E n \in 0 .. Len(channel) : channel' = SubSeq(channel, 1, n)
    /\ work' = [r \in Requests |-> IF work[r] = "none" THEN "none" ELSE "gone"]
    /\ UNCHANGED <<owner, client, pipe, wrote, m_requests, held, deferred,
                   request, got, called, crashed>>

-----------------------------------------------------------------------------
(***************************************************************************)
(* Request                                                                 *)
(***************************************************************************)

(* A Request object is there as long as somebody has a reference to it.    *)
Alive(r) == r \in m_requests \cup held

WriterClosed(r) == work[r] = "gone"

\* mutant: the message is taken for the end, whatever is left in the pipe
FinishesNow_Early(q) == q.data /\ ~q.user_finish_called

\* mutant: the callbacks of a request that was stopped are not dropped
FinishesNow_Stopped(q) == ~q.user_finish_called /\ q.read_stream \in {"none", "eof"}

(* m_internal_stream_data->on_finish, of a request with members q: the     *)
(* owner hears of the end when the pipe, if there is one, has ended too.   *)
FinishesNow(q) == q.data /\ ~q.user_finish_called /\ q.read_stream \in {"none", "eof"}

(* did_finish, for all requests in S at once: afterwards their members are *)
(* as in q, and the owners of those that finish are called, which defers a *)
(* call of the owner.                                                      *)
Finish(S, q) ==
    LET now == {r \in S : FinishesNow(q[r])}
    IN  /\ request' = [r \in Requests |->
                          IF r \in now THEN [q[r] EXCEPT !.user_finish_called = TRUE] ELSE q[r]]
        /\ called' = [r \in Requests |->
                          IF r \in now THEN IF q[r].network_error THEN "failed" ELSE "complete"
                          ELSE called[r]]
        /\ deferred' = deferred \cup now

did_finish(S, error) ==
    Finish(S, [r \in Requests |->
                   IF r \in S /\ request[r].data
                   THEN [request[r] EXCEPT !.request_done = TRUE, !.network_error = error]
                   ELSE request[r]])

(* The end of the pipe, or data in it.  The whole pipe is read, to its end *)
(* if the writer has closed it, and the end of the request is considered   *)
(* again if its message has been handled.                                  *)
on_activation(r) ==
    /\ Alive(r)
    /\ request[r].data
    /\ request[r].read_stream = "open"
    /\ pipe[r] > 0 \/ WriterClosed(r)
    /\ pipe' = [pipe EXCEPT ![r] = 0]
    /\ got' = [got EXCEPT ![r] = @ + pipe[r]]
    /\ LET q == [request EXCEPT ![r].read_stream = IF WriterClosed(r) THEN "eof" ELSE "open"]
       IN  Finish({s \in {r} : q[s].request_done}, q)
    /\ UNCHANGED <<owner, client, m_requests, held, crashed>> /\ UNCHANGED serverVars

-----------------------------------------------------------------------------
(***************************************************************************)
(* RequestClient                                                           *)
(***************************************************************************)

(* Registers the request.  A client that died sends nothing.               *)
start_request(r) ==
    /\ m_requests' = m_requests \cup {r}
    /\ work' = IF client = "open" /\ server = "alive" THEN [work EXCEPT ![r] = "asked"] ELSE work

(* The file descriptor of a request that was stopped is not looked at.     *)
request_started(r) ==
    LET wanted == r \in m_requests /\ request[r].data
    IN  /\ request' = [request EXCEPT ![r].read_stream = IF wanted THEN "open" ELSE @]
        /\ crashed' = (wanted /\ request[r].read_stream # "none")
        /\ UNCHANGED <<m_requests, deferred, called>>

headers_became_available(r) ==
    /\ called' = [called EXCEPT ![r] = IF r \in m_requests /\ request[r].data THEN "headers" ELSE @]
    /\ UNCHANGED <<m_requests, deferred, request, crashed>>

request_finished(r, error) ==
    /\ did_finish({r} \cap m_requests, error)
    /\ m_requests' = m_requests \ {r}
    /\ UNCHANGED crashed

handle_message ==
    /\ client = "open"
    /\ channel # << >>
    /\ channel' = Tail(channel)
    /\ LET m == Head(channel)
       IN  \/ m.type = "started" /\ request_started(m.id)
           \/ m.type = "headers" /\ headers_became_available(m.id)
           \/ m.type \in {"finished", "failed"} /\ request_finished(m.id, m.type = "failed")
    /\ UNCHANGED <<owner, client, server, work, pipe, wrote, held, got>>

\* mutant: the requests are forgotten, and nobody is told
die_Forget ==
    /\ client = "open"
    /\ server = "died"
    /\ client' = "died"
    /\ channel' = << >>
    /\ m_requests' = {}
    /\ UNCHANGED <<owner, server, work, pipe, wrote, held, deferred, request, got, called, crashed>>

(* The transport has seen its end.  Messages that were read with it and    *)
(* not handed over are lost.                                               *)
die ==
    /\ client = "open"
    /\ server = "died"
    /\ client' = "died"
    /\ channel' = << >>
    /\ did_finish(m_requests, TRUE)
    /\ m_requests' = {}
    /\ UNCHANGED <<owner, server, work, pipe, wrote, held, got, crashed>>

(* The browser has started another RequestServer.  The owner takes the new *)
(* client, and the old one is destroyed, die() called or not.              *)
set_client ==
    /\ "replace" \in Faults
    /\ server = "died"
    /\ client # "destroyed"
    /\ client' = "destroyed"
    /\ channel' = << >>
    /\ m_requests' = {}
    /\ UNCHANGED <<owner, server, work, pipe, wrote, held, deferred, request, got, called, crashed>>

-----------------------------------------------------------------------------
(***************************************************************************)
(* The owners                                                              *)
(***************************************************************************)

(* ResourceLoader::load.  Nobody tells ResourceLoader that its client died *)
(* (on_request_server_died is called in the browser process only), so it   *)
(* goes on using it.  What the new client does is another instance.        *)
load(r) ==
    /\ owner = "ResourceLoader"
    /\ ~request[r].issued
    /\ client # "destroyed"
    /\ start_request(r)
    /\ request' = [request EXCEPT ![r] = NewRequest]
    /\ held' = held \cup {r}
    /\ UNCHANGED <<owner, client, server, channel, pipe, wrote, deferred, got, called, crashed>>

(* The deferred call of ResourceLoader::finish_network_request.            *)
RemoveActive(r) ==
    /\ owner = "ResourceLoader"
    /\ r \in deferred
    /\ deferred' = deferred \ {r}
    /\ held' = held \ {r}
    /\ crashed' = (r \notin held)
    /\ UNCHANGED <<owner, client, pipe, m_requests, request, got, called>> /\ UNCHANGED serverVars

(* The synchronous call of Request::stop cannot be made: the client is     *)
(* destroyed, or there is no answer from its server.                       *)
StopCrashes(r) ==
    \/ client = "destroyed"
    \/ r \in m_requests /\ ~(client = "open" /\ server = "alive")

(* Autocomplete::query_autocomplete_engine stops the request it has, and   *)
(* makes another if there is something to ask.  The server destroys a      *)
(* request that is stopped, and says no more of it.                        *)
query_autocomplete_engine(r, asks) ==
    /\ owner = "Autocomplete"
    /\ ~request[r].issued
    /\ asks \/ held # {}
    /\ crashed' = (\E s \in held : StopCrashes(s))
    /\ client # "destroyed" \/ crashed'
    /\ held' = IF asks THEN {r} ELSE {}
    /\ request' = [s \in Requests |->
                      IF s \in held THEN [request[s] EXCEPT !.data = FALSE, !.read_stream = "none"]
                      ELSE IF s = r /\ asks THEN NewRequest ELSE request[s]]
    /\ m_requests' = IF asks THEN m_requests \cup {r} ELSE m_requests
    /\ work' = [s \in Requests |->
                   IF s \in held \cap m_requests THEN "gone"
                   ELSE IF s = r /\ asks /\ client = "open" /\ server = "alive" THEN "asked"
                   ELSE work[s]]
    /\ UNCHANGED <<owner, client, server, channel, pipe, wrote, deferred, got, called>>

(* The deferred call of Autocomplete's callback drops the request that     *)
(* m_request has by then, be it another one.                               *)
ClearRequest(r) ==
    /\ owner = "Autocomplete"
    /\ r \in deferred
    /\ deferred' = deferred \ {r}
    /\ held' = {}
    /\ UNCHANGED <<owner, client, pipe, m_requests, request, got, called, crashed>>
    /\ UNCHANGED serverVars

-----------------------------------------------------------------------------
Serve(r) ==
    \/ inform_client_request_started(r)
    \/ transfer_headers_to_client_if_needed(r)
    \/ write_queued_bytes_without_blocking(r)
    \/ handle_complete_state(r)
    \/ handle_error_state(r)
    \/ request_complete(r)

Next ==
    /\ ~crashed
    /\ \/ \E r \in Requests :
              \/ Serve(r)
              \/ on_activation(r)
              \/ load(r)
              \/ RemoveActive(r)
              \/ \E asks \in BOOLEAN : query_autocomplete_engine(r, asks)
              \/ ClearRequest(r)
       \/ handle_message
       \/ die
       \/ set_client
       \/ ServerDies

Spec == Init /\ [][Next]_vars

(* RequestServer ends every request it works on (EveryFetchEnds there) and *)
(* the client's event loop handles messages, activations, deferred calls   *)
(* and the end of the transport.                                           *)
Fairness ==
    /\ \A r \in Requests : WF_vars(~crashed /\ Serve(r))
    /\ \A r \in Requests : WF_vars(~crashed /\ on_activation(r))
    /\ \A r \in Requests : WF_vars(~crashed /\ (RemoveActive(r) \/ ClearRequest(r)))
    /\ WF_vars(~crashed /\ handle_message)
    /\ WF_vars(~crashed /\ die)

FairSpec == Spec /\ Fairness

-----------------------------------------------------------------------------

(* The shape of the state.                                                 *)
TypeOK ==
    /\ owner \in Owners
    /\ client \in {"open", "died", "destroyed"}
    /\ server \in {"alive", "died"}
    /\ channel \in Seq(Message)
    /\ work \in [Requests -> Work]
    /\ pipe \in [Requests -> 0 .. MaxData]
    /\ wrote \in [Requests -> 0 .. MaxData]
    /\ m_requests \subseteq Requests
    /\ held \subseteq Requests
    /\ deferred \subseteq Requests
    /\ request \in [Requests -> Request]
    /\ got \in [Requests -> 0 .. MaxData]
    /\ called \in [Requests -> {"none", "headers", "complete", "failed"}]
    /\ crashed \in BOOLEAN
    /\ owner = "Autocomplete" => Cardinality(held) <= 1

Ended(r) == called[r] \in {"complete", "failed"}

(* The owner is told of a success after it was given everything that the   *)
(* server wrote into the pipe, though the message and the end of the pipe  *)
(* come in either order.                                                   *)
AllDataBeforeEnd ==
    \A r \in Requests : called[r] = "complete" => got[r] = wrote[r]

(* The VERIFYs of set_request_fd and finish_network_request hold.  A stop  *)
(* brings the process down only if the server has died before.             *)
AssertionsHold == crashed => owner = "Autocomplete" /\ server = "died"

(* The variables have their types, no VERIFY fails, and an owner that is   *)
(* told of the end has all the data.                                       *)
Inv == TypeOK /\ AssertionsHold /\ AllDataBeforeEnd

(* What owners are called with is what LoadCallbacks promises.             *)
Callbacks == INSTANCE LoadCallbacks WITH
    Loads <- Requests,
    progress <- [r \in Requests |-> CASE ~request[r].issued -> "none"
                                  [] request[r].issued /\ Ended(r) -> called[r]
                                  [] request[r].issued /\ ~Ended(r) /\ ~request[r].data -> "stopped"
                                  [] request[r].issued /\ called[r] = "headers" /\ request[r].data -> "headers"
                                  [] OTHER -> "started"],
    data <- got

ImplementsCallbacks == Callbacks!Spec

(* A load whose request was sent ends, even if RequestServer dies in the   *)
(* middle of it, unless the client is replaced before it has noticed.      *)
SentLoadEnds ==
    \A r \in Requests :
        owner = "ResourceLoader" /\ r \in m_requests /\ client = "open"
            ~> Ended(r) \/ client = "destroyed"

=============================================================================
