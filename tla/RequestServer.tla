--------------------------- MODULE RequestServer ---------------------------
(***************************************************************************)
(* RequestServer's requests and connections (Services/RequestServer/       *)
(* Request.cpp, ConnectionFromClient.cpp), on top of the disk cache they   *)
(* share.                                                                  *)
(*                                                                         *)
(* A request is driven by events of the loop: a message of its client, a   *)
(* settled DNS lookup, a callback of curl, a writable pipe, a deferred     *)
(* invocation.  transition_to_state runs the handler of the new state at   *)
(* once, as part of the turn: Enter(r, s) is m_state = s and a call of     *)
(* process().  Bodies, headers, status codes and timing are abstracted to  *)
(* what control flow depends on: whether a body byte is buffered, whether  *)
(* one was sent, how curl's transfer ended.                                *)
(***************************************************************************)
EXTENDS DiskCache

CONSTANTS
    Fetches,        \* Type::Fetch: start_request
    Connects,       \* Type::Connect: ensure_connection
    Background,     \* the Type::BackgroundRevalidation request of each fetch
    Client,         \* the connection of each request
    Host            \* the host in the URL of each request

Revalidations == {Background[f] : f \in Fetches}

ASSUME RequestAssumption ==
    /\ Requests = Fetches \cup Connects \cup Revalidations
    /\ Fetches \cap Connects = {}
    /\ (Fetches \cup Connects) \cap Revalidations = {}
    /\ Connects \cap Cacheable = {}
    /\ Background \in [Fetches -> Requests]
    /\ \A f, g \in Fetches : Background[f] = Background[g] => f = g
    /\ Client \in [Requests -> Clients]
    /\ DOMAIN Host = Requests
    /\ \A r, s \in Requests : Key[r] = Key[s] => Host[r] = Host[s]
    /\ \A f \in Fetches : /\ Key[Background[f]] = Key[f]
                          /\ Client[Background[f]] = Client[f]
                          /\ f \in Cacheable => Background[f] \in Cacheable
    /\ Requests \cap Clients = {}

States == { "Unborn",       \* not constructed yet
            "Init", "ReadCache", "WaitForCache", "DNSLookup", "Connect",
            "Fetch", "Complete", "Error",
            "Destroyed" }

VARIABLES
    state,          \* m_state
    connected,      \* s_connections
    readerRef,      \* requests whose m_cache_entry_reader has a value
    writerRef,      \* requests whose m_cache_entry_writer has a value
    resolving,      \* requests whose DNS callbacks the resolver holds
    curl,           \* the transfer of each request in its multi handle
    result,         \* m_curl_result_code
    buffered,       \* requests with bytes in m_response_buffer
    sent,           \* requests with m_bytes_transferred_to_client # 0
    headersSent,    \* m_sent_response_headers_to_client
    notifying,      \* requests whose m_client_writer_notifier is enabled
    piping,         \* requests whose reader's m_pipe_write_notifier is enabled
    log             \* the messages sent to the client about each request

requestVars == <<state, connected, readerRef, writerRef, resolving, curl, result,
                 buffered, sent, headersSent, notifying, piping, log>>

vars == <<loopVars, cacheVars, requestVars>>

Messages == { "started", "headers", "finished", "failed" }

RequestTypeOK ==
    /\ state \in [Requests -> States]
    /\ connected \in SUBSET Clients
    /\ readerRef \in SUBSET Requests
    /\ writerRef \in SUBSET Requests
    /\ resolving \in SUBSET Requests
    /\ curl \in [Requests -> {"none", "running", "aborted", "done"}]
    /\ result \in [Requests -> {"none", "ok", "recv_error", "error"}]
    /\ buffered \in SUBSET Requests
    /\ sent \in SUBSET Requests
    /\ headersSent \in SUBSET Requests
    /\ notifying \in SUBSET Requests
    /\ piping \in SUBSET Requests
    /\ log \in [Requests -> Seq(Messages)]

(* Every variable keeps its type.                                          *)
TypeOK == LoopTypeOK /\ CacheTypeOK /\ RequestTypeOK

Init ==
    /\ LoopInit
    /\ CacheInit
    /\ state = [r \in Requests |-> "Unborn"]
    /\ connected = Clients
    /\ readerRef = {}
    /\ writerRef = {}
    /\ resolving = {}
    /\ curl = [r \in Requests |-> "none"]
    /\ result = [r \in Requests |-> "none"]
    /\ buffered = {}
    /\ sent = {}
    /\ headersSent = {}
    /\ notifying = {}
    /\ piping = {}
    /\ log = [r \in Requests |-> << >>]

Alive(r) == state[r] \notin {"Unborn", "Destroyed"}

\* mutant: only a fetch can revalidate
is_revalidation_request_FetchOnly(r) == r \in readerRef /\ entry[r] = "must_revalidate"

is_revalidation_request(r) ==
    /\ r \in readerRef
    /\ r \in Fetches => entry[r] = "must_revalidate"

(* The requests other readers of their key must wait for.                  *)
Locking == {r \in Requests : Alive(r) /\ is_revalidation_request(r)}

Processing(r, s) == Calling("process", r) /\ state[r] = s

(* transition_to_state, as the last thing the running call does.           *)
Enter(r, s) ==
    /\ state' = [state EXCEPT ![r] = s]
    /\ Then(<<Call("process", r)>>)

(* deferred_invoke of the given turns.                                     *)
Defer(turns) == queued_events' = queued_events \o turns

(* request_complete: the connection drops the request in a later turn.     *)
request_complete(r) == <<<<Call("remove", r)>>>>

(* Messages to the client.  A background request has no client to tell.    *)
Tell(r, m) == log' = [log EXCEPT ![r] = Append(@, m)]

(* The process ends, wherever it is, and a new one starts on what is on    *)
(* disk.  The rows are there; of a file that was being written, what the   *)
(* writer's buffer had already passed on.                                  *)
AfterCrash(k, f) ==
    IF file[k] # "unsealed" THEN f = file[k]
    ELSE \/ f = "headless"
         \/ f = "short" /\ \E r \in headed : Key[r] = k

Terminate ==
    /\ calls' = << >>
    /\ queued_events' = << >>
    /\ file' \in {f \in [Keys -> Files] : \A k \in Keys : AfterCrash(k, f[k])}
    /\ entry' = [r \in Requests |-> "none"]
    /\ marked' = {}
    /\ headed' = {}
    /\ waiting' = [k \in Keys |-> << >>]
    /\ state' = [r \in Requests |-> IF Alive(r) THEN "Destroyed" ELSE state[r]]
    /\ readerRef' = {}
    /\ writerRef' = {}
    /\ resolving' = {}
    /\ curl' = [r \in Requests |-> "none"]
    /\ result' = [r \in Requests |-> "none"]
    /\ buffered' = {}
    /\ sent' = {}
    /\ headersSent' = {}
    /\ notifying' = {}
    /\ piping' = {}
    /\ UNCHANGED <<index, connected, log>>

crash == "crash" \in Faults /\ (\E r \in Requests : Alive(r)) /\ Terminate

-----------------------------------------------------------------------------
(* Messages of the clients.                                                *)

start_request(r) ==
    /\ Idle
    /\ r \in Fetches
    /\ state[r] = "Unborn"
    /\ Client[r] \in connected
    /\ state' = [state EXCEPT ![r] = "Init"]
    /\ calls' = <<Call("process", r)>>
    /\ UNCHANGED <<queued_events, cacheVars, connected, readerRef, writerRef, resolving,
                   curl, result, buffered, sent, headersSent, notifying, piping, log>>

ensure_connection(r) ==
    /\ Idle
    /\ r \in Connects
    /\ state[r] = "Unborn"
    /\ Client[r] \in connected
    /\ \E s \in {"DNSLookup", "Connect"} : state' = [state EXCEPT ![r] = s]
    /\ calls' = <<Call("process", r)>>
    /\ UNCHANGED <<queued_events, cacheVars, connected, readerRef, writerRef, resolving,
                   curl, result, buffered, sent, headersSent, notifying, piping, log>>

(* stop_request takes the request out of m_active_requests and lets it go. *)
stop_request(r) ==
    /\ "stop" \in Faults
    /\ Idle
    /\ Alive(r)
    /\ r \notin Revalidations
    /\ calls' = <<Call("destroy", r)>>
    /\ UNCHANGED <<queued_events, cacheVars, requestVars>>

remove_cache_entries_accessed_since ==
    /\ "clear" \in Faults
    /\ Idle
    /\ \E ks \in SUBSET Keys : ks # {} /\ remove_entries_accessed_since(ks)
    /\ UNCHANGED <<loopVars, requestVars>>

(* ConnectionFromClient::die: the connection is destroyed, with the        *)
(* requests it owns, first the client's and then the background ones.      *)
disconnect(c) ==
    /\ "disconnect" \in Faults
    /\ Idle
    /\ c \in connected
    /\ connected' = connected \ {c}
    /\ calls' = <<Call("die", c)>>
    /\ UNCHANGED <<queued_events, cacheVars, state, readerRef, writerRef, resolving,
                   curl, result, buffered, sent, headersSent, notifying, piping, log>>

die(c) ==
    /\ Calling("die", c)
    /\ LET mine == {r \in Requests : Alive(r) /\ Client[r] = c}
       IN  \/ /\ mine = {}
              /\ Return
           \/ \E r \in mine :
                /\ r \in Revalidations => mine \subseteq Revalidations
                /\ calls' = <<Call("destroy", r)>> \o calls
    /\ UNCHANGED <<queued_events, cacheVars, requestVars>>

-----------------------------------------------------------------------------
(* The handlers of the request's states.                                   *)

(* handle_initial_state: open the cache entry of the key, or create one.   *)
InitBlocked(r) ==
    /\ Wait(r)
    /\ Enter(r, "WaitForCache")
    /\ UNCHANGED <<queued_events, entry, marked, headed, writerRef>>

InitReader(r, kind) ==
    LET next == IF kind \in {"must_revalidate", "background"}
                THEN "DNSLookup" ELSE "ReadCache"
    IN  /\ entry' = [entry EXCEPT ![r] = kind]
        /\ readerRef' = readerRef \cup {r}
        /\ IF kind = "stale_while_revalidate"
           THEN \* start_revalidation_request runs before our own transition
                /\ state' = [state EXCEPT ![r] = next, ![Background[r]] = "Init"]
                /\ Then(<<Call("process", Background[r]), Call("process", r)>>)
           ELSE Enter(r, next)
        /\ UNCHANGED <<queued_events, marked, headed, waiting, writerRef>>

InitUncached(r, s) ==
    /\ Enter(r, s)
    /\ readerRef' = readerRef \ {r}
    /\ UNCHANGED <<queued_events, entry, marked, headed, waiting, writerRef>>

InitWriter(r) ==
    /\ entry' = [entry EXCEPT ![r] = "writer"]
    /\ writerRef' = writerRef \cup {r}
    /\ readerRef' = readerRef \ {r}
    /\ Enter(r, "DNSLookup")
    /\ UNCHANGED <<queued_events, marked, headed, waiting>>

handle_initial_state(r) ==
    /\ Processing(r, "Init")
    /\ \E o \in open_entry(r, r \in Revalidations, Locking) :
         /\ index' = [index EXCEPT ![Key[r]] = o.row]
         /\ \/ /\ o.answer = "blocked"
               /\ InitBlocked(r)
               /\ UNCHANGED <<file, readerRef>>
            \/ /\ o.answer \in Readers
               /\ InitReader(r, o.answer)
               /\ UNCHANGED file
            \/ /\ o.answer = "none"
               /\ r \in Revalidations
               /\ InitUncached(r, "Complete")
               /\ file' = [file EXCEPT ![Key[r]] = o.file]
            \/ /\ o.answer = "none"
               /\ r \notin Revalidations
               /\ \E w \in create_entry(r, Locking) :
                    \/ /\ w = "blocked"
                       /\ InitBlocked(r)
                       /\ readerRef' = readerRef \ {r}
                       /\ file' = [file EXCEPT ![Key[r]] = o.file]
                    \/ /\ w = "none"
                       /\ InitUncached(r, "DNSLookup")
                       /\ file' = [file EXCEPT ![Key[r]] = o.file]
                    \/ /\ w = "writer"
                       /\ InitWriter(r)
                       /\ file' = [file EXCEPT ![Key[r]] = "unsealed"]
    /\ UNCHANGED <<connected, resolving, curl, result, buffered, sent, headersSent,
                   notifying, piping, log>>

(* WaitForCache: nothing to do until the cache resumes the request.        *)
handle_wait_for_cache_state(r) ==
    /\ Processing(r, "WaitForCache")
    /\ Return
    /\ UNCHANGED <<queued_events, cacheVars, requestVars>>

(* notify_request_unblocked, through the weak pointer the cache kept.      *)
notify_request_unblocked(r) ==
    /\ Calling("unblock", r)
    /\ \/ Alive(r) /\ Enter(r, "Init")
       \/ ~Alive(r) /\ Return /\ UNCHANGED state
    /\ UNCHANGED <<queued_events, cacheVars, connected, readerRef, writerRef, resolving,
                   curl, result, buffered, sent, headersSent, notifying, piping, log>>

(* inform_client_request_started: its outcome decides how the caller goes  *)
(* on.                                                                     *)
CannotInform(r) == "pipe" \in Faults /\ r \notin Revalidations

inform_client_request_started(r) ==
    IF r \in Revalidations THEN UNCHANGED log ELSE Tell(r, "started")

(* handle_read_cache_state: without a pipe the request fails, and the      *)
(* reader stays open.                                                      *)
handle_read_cache_state(r) ==
    /\ Processing(r, "ReadCache")
    /\ \/ /\ inform_client_request_started(r)
          /\ Then(<<Call("transfer_headers", r), Call("pipe", r)>>)
          /\ UNCHANGED state
       \/ /\ CannotInform(r)
          /\ Enter(r, "Error")
          /\ UNCHANGED log
    /\ UNCHANGED <<queued_events, cacheVars, connected, readerRef, writerRef, resolving,
                   curl, result, buffered, sent, headersSent, notifying, piping>>

(* The states the callbacks of the DNS lookup may enter.                   *)
AfterLookup(r) ==
    {IF r \in Connects THEN "Complete" ELSE "Fetch"}
        \cup (IF "dns" \in Faults THEN {"Error"} ELSE {})

(* The callbacks the resolver holds once r has asked.  A host that is      *)
(* being looked up already is not asked for again, unless DNSSEC is to be  *)
(* validated: r is given the promise of the pending lookup, and a promise  *)
(* has room for the callbacks of one.                                      *)
Asking(r) ==
    {resolving \cup {r}}
        \cup (IF "shared_lookup" \in Faults
              THEN {{o \in resolving : Host[o] # Host[r]} \cup {r}} ELSE {})

(* handle_dns_lookup_state: the lookup may settle before it returns (an    *)
(* address, a cached name, the system's resolver) or later.                *)
handle_dns_lookup_state(r) ==
    /\ Processing(r, "DNSLookup")
    /\ \/ (\E s \in AfterLookup(r) : Enter(r, s)) /\ UNCHANGED resolving
       \/ /\ Return
          /\ resolving' \in Asking(r)
          /\ UNCHANGED state
    /\ UNCHANGED <<queued_events, cacheVars, connected, readerRef, writerRef, curl, result,
                   buffered, sent, headersSent, notifying, piping, log>>

(* The lookup settles in a turn of its own.  The callbacks hold a plain    *)
(* pointer to the request: if that is gone, what they do is undefined; the *)
(* process survives it or not.                                             *)
DNSLookupSettled(r) ==
    /\ Idle
    /\ r \in resolving
    /\ \/ /\ Alive(r)
          /\ \E s \in AfterLookup(r) : state' = [state EXCEPT ![r] = s]
          /\ calls' = <<Call("process", r)>>
          /\ resolving' = resolving \ {r}
          /\ UNCHANGED <<queued_events, cacheVars, connected, readerRef, writerRef, curl,
                         result, buffered, sent, headersSent, notifying, piping, log>>
       \/ /\ ~Alive(r)
          /\ resolving' = resolving \ {r}
          /\ UNCHANGED <<loopVars, cacheVars, state, connected, readerRef, writerRef, curl,
                         result, buffered, sent, headersSent, notifying, piping, log>>
       \/ /\ ~Alive(r)
          /\ Terminate

handle_connect_state(r) ==
    /\ Processing(r, "Connect")
    /\ Return
    /\ \/ curl' = [curl EXCEPT ![r] = "running"]
       \/ "curl" \in Faults /\ UNCHANGED curl
    /\ UNCHANGED <<queued_events, cacheVars, state, connected, readerRef, writerRef,
                   resolving, result, buffered, sent, headersSent, notifying, piping, log>>

(* The client of a revalidation hears of it once the outcome is known.     *)
\* mutant: every fetch is announced when it starts
InformUnlessRevalidating_Always(r) == inform_client_request_started(r)

InformUnlessRevalidating(r) ==
    IF is_revalidation_request(r) THEN UNCHANGED log ELSE inform_client_request_started(r)

handle_fetch_state(r) ==
    /\ Processing(r, "Fetch")
    /\ \/ /\ InformUnlessRevalidating(r)
          /\ curl' = [curl EXCEPT ![r] = "running"]
          /\ Return
          /\ UNCHANGED state
       \/ /\ \/ "curl" \in Faults
             \/ CannotInform(r) /\ ~is_revalidation_request(r)
          /\ Enter(r, "Error")
          /\ UNCHANGED <<curl, log>>
    /\ UNCHANGED <<queued_events, cacheVars, connected, readerRef, writerRef, resolving,
                   result, buffered, sent, headersSent, notifying, piping>>

(* handle_complete_state and, for a fetch, what follows the headers.       *)
\* mutant: only fetches are dropped from the connection's tables
handle_complete_state_KeepOthers(r) ==
    /\ Processing(r, "Complete")
    /\ IF r \in Fetches
       THEN Then(<<Call("transfer_headers", r), Call("finish", r)>>)
       ELSE Return
    /\ UNCHANGED <<queued_events, cacheVars, requestVars>>

handle_complete_state(r) ==
    /\ Processing(r, "Complete")
    /\ \/ /\ r \in Fetches
          /\ Then(<<Call("transfer_headers", r), Call("finish", r)>>)
          /\ UNCHANGED queued_events
       \/ /\ r \notin Fetches
          /\ Return
          /\ Defer(request_complete(r))
    /\ UNCHANGED <<cacheVars, requestVars>>

(* curl reports an unannounced end of connection as CURLE_RECV_ERROR; it   *)
(* is forgiven if some data came and no Content-Length was promised.       *)
finish(r) ==
    /\ Calling("finish", r)
    /\ Return
    /\ \/ /\ \/ result[r] = "ok"
             \/ result[r] = "recv_error" /\ r \in sent
          /\ result' = [result EXCEPT ![r] = "ok"]
          /\ Tell(r, "finished")
          /\ Defer(request_complete(r))
          /\ UNCHANGED <<cacheVars, writerRef>>
       \/ /\ result[r] \in {"recv_error", "error"}
          /\ IF r \in writerRef
             THEN \* on_network_error
                  /\ remove(Key[r])
                  /\ CloseEntry(r, "none")
                  /\ Defer(Resumption(r) \o request_complete(r))
             ELSE /\ Defer(request_complete(r))
                  /\ UNCHANGED cacheVars
          /\ writerRef' = writerRef \ {r}
          /\ Tell(r, "failed")
          /\ UNCHANGED result
    /\ UNCHANGED <<state, connected, readerRef, resolving, curl, buffered, sent,
                   headersSent, notifying, piping>>

\* mutant: the client is not told
handle_error_state_Silent(r) ==
    /\ Processing(r, "Error")
    /\ Return
    /\ Defer(request_complete(r))
    /\ UNCHANGED <<cacheVars, requestVars>>

handle_error_state(r) ==
    /\ Processing(r, "Error")
    /\ Return
    /\ Defer(request_complete(r))
    /\ IF r \in Fetches THEN Tell(r, "failed") ELSE UNCHANGED log
    /\ UNCHANGED <<cacheVars, state, connected, readerRef, writerRef, resolving, curl,
                   result, buffered, sent, headersSent, notifying, piping>>

-----------------------------------------------------------------------------
(* The response: headers, body, and the cache's copy of them.              *)

(* The writer of r fails: its file and row go, its entry is closed.  A     *)
(* writer that was marked for deletion only closes.                        *)
\* mutant: m_cache_entry_writer.clear() is missing
LoseWriter_KeepReference(r) ==
    /\ remove(Key[r])
    /\ CloseEntry(r, "none")
    /\ Defer(Resumption(r))
    /\ UNCHANGED writerRef

LoseWriter(r) ==
    /\ IF r \in marked THEN UNCHANGED <<index, file>> ELSE remove(Key[r])
    /\ CloseEntry(r, "none")
    /\ Defer(Resumption(r))
    /\ writerRef' = writerRef \ {r}

(* transfer_headers_to_client_if_needed: once per request.  The writer     *)
(* refuses headers that forbid storing the response, and may fail to write *)
(* them.                                                                   *)
transfer_headers_to_client_if_needed(r) ==
    /\ Calling("transfer_headers", r)
    /\ Return
    /\ headersSent' = headersSent \cup {r}
    /\ IF r \in Fetches \ headersSent THEN Tell(r, "headers") ELSE UNCHANGED log
    /\ \/ /\ r \in writerRef \ headersSent
          /\ r \notin marked
          /\ headed' = headed \cup {r}
          /\ UNCHANGED <<queued_events, index, file, entry, marked, waiting, writerRef>>
       \/ /\ r \in writerRef \ headersSent
          /\ LoseWriter(r)
       \/ /\ r \notin writerRef \ headersSent
          /\ UNCHANGED <<queued_events, cacheVars, writerRef>>
    /\ UNCHANGED <<state, connected, readerRef, resolving, curl, result, buffered, sent,
                   notifying, piping>>

(* CacheEntryWriter::write_data, if there is a writer.                     *)
WriteToCache(r) ==
    \/ /\ r \in writerRef => r \notin marked
       /\ UNCHANGED <<queued_events, cacheVars, writerRef>>
    \/ /\ r \in writerRef
       /\ r \in marked \/ "disk" \in Faults
       /\ LoseWriter(r)

(* The end of write_queued_bytes_without_blocking: complete the request if *)
(* nothing is left to send and curl is done.                               *)
\* mutant: nobody looks whether curl is done already
CompleteIfDrained_Never(r) == Return /\ UNCHANGED state

CompleteIfDrained(r) ==
    IF result[r] # "none" THEN Enter(r, "Complete")
    ELSE Return /\ UNCHANGED state

(* write_queued_bytes_without_blocking when it can send all that is        *)
(* buffered (a background request sends nothing, it only feeds the cache). *)
WriteAll(r) ==
    /\ WriteToCache(r)
    /\ buffered' = buffered \ {r}
    /\ sent' = IF r \in buffered /\ r \in Fetches THEN sent \cup {r} ELSE sent
    /\ notifying' = notifying \ {r}
    /\ CompleteIfDrained(r)
    /\ UNCHANGED curl

(* ... when the pipe takes only a part of it,                              *)
WriteSome(r) ==
    /\ r \in buffered /\ r \in Fetches
    /\ WriteToCache(r)
    /\ sent' = sent \cup {r}
    /\ notifying' = notifying \cup {r}
    /\ Return
    /\ UNCHANGED <<state, curl, buffered>>

(* ... when the pipe is full,                                              *)
WriteNothing(r) ==
    /\ r \in buffered /\ r \in Fetches
    /\ notifying' = notifying \cup {r}
    /\ Return
    /\ UNCHANGED <<queued_events, cacheVars, state, writerRef, curl, buffered, sent>>

(* ... and when the client has closed its end: within a callback of curl   *)
(* the transfer is aborted, otherwise the error is only logged.            *)
WriteFails(r, inCurlCallback) ==
    /\ "hangup" \in Faults
    /\ r \in buffered /\ r \in Fetches
    /\ curl' = IF inCurlCallback THEN [curl EXCEPT ![r] = "aborted"] ELSE curl
    /\ Return
    /\ UNCHANGED <<queued_events, cacheVars, state, writerRef, buffered, sent, notifying>>

write_queued_bytes_without_blocking(r) ==
    /\ Calling("write_queued", r)
    /\ WriteAll(r) \/ WriteSome(r) \/ WriteNothing(r) \/ WriteFails(r, TRUE)
    /\ UNCHANGED <<connected, readerRef, resolving, result, headersSent, piping, log>>

(* The pipe to the client is writable: poll() posts an activation of the   *)
(* notifier.                                                               *)
Posted(turn) == \E i \in 1..Len(queued_events) : queued_events[i] = turn

ClientPipeWritable(r) ==
    /\ Idle
    /\ r \in notifying
    /\ ~Posted(<<Call("activate", r)>>)
    /\ Defer(<<<<Call("activate", r)>>>>)
    /\ UNCHANGED <<calls, cacheVars, requestVars>>

(* The activation is dispatched even if the notifier was disabled after it *)
(* was posted; it is dropped only if the notifier is gone.                 *)
on_client_pipe_writable(r) ==
    /\ Calling("activate", r)
    /\ \/ /\ Alive(r)
          /\ WriteAll(r) \/ WriteSome(r) \/ WriteNothing(r) \/ WriteFails(r, FALSE)
       \/ /\ ~Alive(r)
          /\ Return
          /\ UNCHANGED <<queued_events, cacheVars, state, writerRef, curl, buffered, sent,
                         notifying>>
    /\ UNCHANGED <<connected, readerRef, resolving, result, headersSent, piping, log>>

-----------------------------------------------------------------------------
(* CacheEntryReader: the stored body is piped to the client.               *)

(* The file lacks its footer, or some of the data too.  Only a process     *)
(* that died leaves such a file; one that is unlinked by now may be one.   *)
MayBeShort(k) ==
    \/ file[k] = "short"
    \/ file[k] = "absent" /\ Faults \cap {"crash", "stop", "disconnect"} # {}

(* pipe_without_blocking and, through the callbacks of pipe_to, the        *)
(* transition of the request.  The entry is closed after the callback.     *)
\* mutant: the callback sets no result code
PipeComplete_NoResult(r) ==
    /\ r \notin marked
    /\ file[Key[r]] # "short"
    /\ sent' = sent \cup {r}
    /\ state' = [state EXCEPT ![r] = "Complete"]
    /\ Then(<<Call("process", r), Call("close", r)>>)
    /\ UNCHANGED <<index, file, piping, result>>

PipeComplete(r) ==
    /\ r \notin marked
    /\ file[Key[r]] # "short"
    /\ result' = [result EXCEPT ![r] = "ok"]
    /\ sent' = sent \cup {r}
    /\ state' = [state EXCEPT ![r] = "Complete"]
    /\ Then(<<Call("process", r), Call("close", r)>>)
    /\ UNCHANGED <<index, file, piping>>

PipeBlocked(r) ==
    /\ r \notin marked
    /\ piping' = piping \cup {r}
    /\ Return
    /\ UNCHANGED <<index, file, state, result, sent>>

PipeError(r) ==
    /\ \/ r \in marked
       \/ MayBeShort(Key[r])
       \/ "hangup" \in Faults
    /\ remove(Key[r])
    /\ state' = [state EXCEPT ![r] = "Error"]
    /\ Then(<<Call("process", r), Call("close", r)>>)
    /\ UNCHANGED <<result, sent, piping>>

(* The file ends before the m_data_size bytes of the row: splice moves     *)
(* nothing, and pipe_without_blocking calls itself until the stack is gone. *)
PipeOverruns(r) ==
    /\ r \notin marked
    /\ MayBeShort(Key[r])
    /\ Terminate

pipe_without_blocking(r) ==
    /\ Calling("pipe", r)
    /\ \/ /\ PipeComplete(r) \/ PipeBlocked(r) \/ PipeError(r)
          /\ UNCHANGED <<queued_events, entry, marked, headed, waiting, connected, readerRef,
                         writerRef, resolving, curl, buffered, headersSent, notifying, log>>
       \/ PipeOverruns(r)

(* poll() reports nothing for a descriptor that was closed.                *)
ReaderPipeWritable(r) ==
    /\ Idle
    /\ Alive(r)
    /\ r \in piping
    /\ ~Posted(<<Call("pipe_activate", r)>>)
    /\ Defer(<<<<Call("pipe_activate", r)>>>>)
    /\ UNCHANGED <<calls, cacheVars, requestVars>>

(* on_activation of m_pipe_write_notifier, which lives as long as the      *)
(* reader does.  If the request is gone its pipe is closed: the transfer   *)
(* fails and the error callback runs on a request that is not there, which *)
(* the process survives (as if it were still there) or not.                *)
on_reader_pipe_writable(r) ==
    /\ Calling("pipe_activate", r)
    /\ \/ /\ Alive(r)
          /\ piping' = piping \ {r}
          /\ Then(<<Call("pipe", r)>>)
          /\ UNCHANGED <<queued_events, cacheVars, state, connected, readerRef, writerRef,
                         resolving, curl, result, buffered, sent, headersSent, notifying, log>>
       \/ /\ ~Alive(r) /\ entry[r] = "none"
          /\ Return
          /\ UNCHANGED <<queued_events, cacheVars, requestVars>>
       \/ /\ ~Alive(r) /\ entry[r] # "none"
          /\ piping' = piping \ {r}
          /\ remove(Key[r])
          /\ Tell(r, "failed")
          /\ Then(<<Call("close", r)>>)
          /\ UNCHANGED <<queued_events, entry, marked, headed, waiting, state, connected,
                         readerRef, writerRef, resolving, curl, result, buffered, sent,
                         headersSent, notifying>>
       \/ /\ ~Alive(r) /\ entry[r] # "none"
          /\ Terminate

(* close_and_destroy_cache_entry.  The buffer of a writer reaches the disk *)
(* when the writer is destroyed.                                           *)
close(r) ==
    /\ Calling("close", r)
    /\ Return
    /\ CloseEntry(r, "none")
    /\ file' = IF entry[r] = "writer" /\ file[Key[r]] = "unsealed"
               THEN [file EXCEPT ![Key[r]] = IF r \in headed THEN "sealed" ELSE "headless"]
               ELSE file
    /\ Defer(Resumption(r))
    /\ UNCHANGED <<index, requestVars>>

-----------------------------------------------------------------------------
(* The callbacks of curl.                                                  *)

(* revalidation_failed: the stored response goes, and the client hears of  *)
(* the request now, as for any fetch.  `successor' is the entry r has when *)
(* the stored one is closed.                                               *)
RevalidationFailed(r, successor) ==
    /\ index' = [index EXCEPT ![Key[r]] = "absent"]
    /\ file' = [file EXCEPT ![Key[r]] = IF successor = "writer" THEN "unsealed" ELSE "absent"]
    /\ CloseEntry(r, successor)
    /\ readerRef' = readerRef \ {r}
    /\ Defer(Resumption(r))

(* A revalidation gets a body: the response is new.  It is stored in place *)
(* of the old one, which VERIFY_NOT_REACHED takes to be possible.          *)
ReplaceStoredResponse(r) ==
    \/ /\ inform_client_request_started(r)
       /\ IsLastOpenEntry(r)
       /\ \E w \in {"writer"} \cup (IF "disk" \in Faults THEN {"none"} ELSE {}) :
            /\ RevalidationFailed(r, w)
            /\ writerRef' = IF w = "writer" THEN writerRef \cup {r} ELSE writerRef \ {r}
       /\ buffered' = buffered \cup {r}
       /\ calls' = <<Call("transfer_headers", r), Call("write_queued", r)>>
       /\ UNCHANGED <<state, curl>>
    \/ /\ CannotInform(r)
       /\ RevalidationFailed(r, "none")
       /\ curl' = [curl EXCEPT ![r] = "aborted"]
       /\ state' = [state EXCEPT ![r] = "Error"]
       /\ calls' = <<Call("process", r)>>
       /\ UNCHANGED <<log, writerRef, buffered>>

on_data_received(r) ==
    /\ Idle
    /\ r \notin Connects
    /\ curl[r] = "running"
    /\ \/ is_revalidation_request(r) /\ ReplaceStoredResponse(r)
       \/ /\ ~is_revalidation_request(r)
          /\ buffered' = buffered \cup {r}
          /\ calls' = <<Call("transfer_headers", r), Call("write_queued", r)>>
          /\ UNCHANGED <<queued_events, cacheVars, state, readerRef, writerRef, curl, log>>
    /\ UNCHANGED <<connected, resolving, result, sent, headersSent, notifying, piping>>

(* notify_fetch_complete, for a transfer that has ended.  304: the stored  *)
(* response is good, and is read; a background request keeps nothing open. *)
\* mutant: the reader of a background request is kept open for a later read
NotModified_KeepOpen(r) ==
    /\ UNCHANGED <<queued_events, cacheVars>>
    /\ state' = [state EXCEPT ![r] = IF r \in Revalidations THEN "Complete" ELSE "ReadCache"]
    /\ calls' = <<Call("process", r)>>
    /\ UNCHANGED <<readerRef, log>>

NotModified(r) ==
    /\ IF r \in Revalidations
       THEN /\ CloseEntry(r, "none")
            /\ Defer(Resumption(r))
            /\ UNCHANGED <<index, file>>
       ELSE UNCHANGED <<queued_events, cacheVars>>
    /\ state' = [state EXCEPT ![r] = IF r \in Revalidations THEN "Complete" ELSE "ReadCache"]
    /\ calls' = <<Call("process", r)>>
    /\ UNCHANGED <<readerRef, log>>

Modified(r) ==
    /\ RevalidationFailed(r, "none")
    /\ \/ /\ inform_client_request_started(r)
          /\ calls' = <<Call("transfer_headers", r), Call("settle", r)>>
          /\ UNCHANGED state
       \/ /\ CannotInform(r)
          /\ state' = [state EXCEPT ![r] = "Error"]
          /\ calls' = <<Call("process", r)>>
          /\ UNCHANGED log

notify_fetch_complete(r) ==
    /\ Idle
    /\ curl[r] \in {"running", "aborted"}
    /\ \/ /\ is_revalidation_request(r)
          /\ NotModified(r) \/ Modified(r)
          /\ curl' = [curl EXCEPT ![r] = "done"]
          /\ UNCHANGED result
       \/ /\ ~is_revalidation_request(r)
          /\ calls' = <<Call("settle", r)>>
          /\ UNCHANGED <<queued_events, cacheVars, state, readerRef, curl, result, log>>
    /\ UNCHANGED <<connected, writerRef, resolving, buffered, sent, headersSent, notifying,
                   piping>>

(* The end of notify_fetch_complete: m_curl_result_code is set, and the    *)
(* request completed unless bytes are still to be sent.                    *)
ResultCodes(r) ==
    IF curl[r] = "aborted" THEN {"error"}
    ELSE {"ok"} \cup (IF "network" \in Faults THEN {"recv_error", "error"} ELSE {})

settle(r) ==
    /\ Calling("settle", r)
    /\ \E code \in ResultCodes(r) : result' = [result EXCEPT ![r] = code]
    /\ curl' = [curl EXCEPT ![r] = "done"]
    /\ IF r \in buffered THEN Return /\ UNCHANGED state ELSE Enter(r, "Complete")
    /\ UNCHANGED <<queued_events, cacheVars, connected, readerRef, writerRef, resolving,
                   buffered, sent, headersSent, notifying, piping, log>>

-----------------------------------------------------------------------------
(* The end of a request.                                                   *)

remove_request(r) ==
    /\ Calling("remove", r)
    /\ IF Alive(r) THEN Then(<<Call("destroy", r)>>) ELSE Return
    /\ UNCHANGED <<queued_events, cacheVars, requestVars>>

(* CacheEntryWriter::flush writes the footer and creates the row, then     *)
(* closes the entry.  The row is for whatever was written by then.         *)
flush(r) ==
    /\ IF r \in marked
       THEN UNCHANGED <<index, file>>
       ELSE \/ /\ index' = [index EXCEPT ![Key[r]] =
                   IF state[r] = "Complete" /\ result[r] = "ok" THEN "whole" ELSE "truncated"]
              /\ UNCHANGED file
            \/ "disk" \in Faults /\ remove(Key[r])
    /\ Then(<<Call("close", r)>>)

(* ~Request.  An open writer is flushed; an open reader is left alone.     *)
destroy(r) ==
    /\ Calling("destroy", r)
    /\ IF r \in writerRef THEN flush(r) ELSE Return /\ UNCHANGED <<index, file>>
    /\ state' = [state EXCEPT ![r] = "Destroyed"]
    /\ curl' = [curl EXCEPT ![r] = "none"]
    /\ result' = [result EXCEPT ![r] = "none"]
    /\ readerRef' = readerRef \ {r}
    /\ writerRef' = writerRef \ {r}
    /\ buffered' = buffered \ {r}
    /\ sent' = sent \ {r}
    /\ headersSent' = headersSent \ {r}
    /\ notifying' = notifying \ {r}
    /\ UNCHANGED <<queued_events, entry, marked, headed, waiting, connected, resolving,
                   piping, log>>

-----------------------------------------------------------------------------
dispatch == DispatchQueuedEvent /\ UNCHANGED <<cacheVars, requestVars>>

(* The calls of the running turn.                                          *)
RequestCall(r) ==
    \/ handle_initial_state(r)
    \/ handle_read_cache_state(r)
    \/ handle_wait_for_cache_state(r)
    \/ handle_dns_lookup_state(r)
    \/ handle_connect_state(r)
    \/ handle_fetch_state(r)
    \/ handle_complete_state(r)
    \/ handle_error_state(r)
    \/ notify_request_unblocked(r)
    \/ transfer_headers_to_client_if_needed(r)
    \/ write_queued_bytes_without_blocking(r)
    \/ on_client_pipe_writable(r)
    \/ pipe_without_blocking(r)
    \/ on_reader_pipe_writable(r)
    \/ settle(r)
    \/ finish(r)
    \/ close(r)
    \/ remove_request(r)
    \/ destroy(r)

Turn == (\E r \in Requests : RequestCall(r)) \/ (\E c \in Clients : die(c))

(* The events that start a turn, or post one.                              *)
RequestEvent(r) ==
    \/ start_request(r)
    \/ ensure_connection(r)
    \/ stop_request(r)
    \/ DNSLookupSettled(r)
    \/ on_data_received(r)
    \/ notify_fetch_complete(r)
    \/ ClientPipeWritable(r)
    \/ ReaderPipeWritable(r)

Next ==
    \/ Turn
    \/ dispatch
    \/ \E r \in Requests : RequestEvent(r)
    \/ \E c \in Clients : disconnect(c)
    \/ remove_cache_entries_accessed_since
    \/ crash

Spec == Init /\ [][Next]_vars

-----------------------------------------------------------------------------
(* Safety.                                                                 *)

(* DiskCache::create_entry and open_entry never let anybody else have an   *)
(* entry open while one is being written: the file a writer truncates and  *)
(* fills is nobody's but its own, requests that have died included.        *)
WriterIsExclusive ==
    \A w, o \in Requests :
        entry[w] = "writer" /\ entry[o] # "none" /\ Key[o] = Key[w] => o = w

(* A request that revalidates holds the only open entry of its key, so     *)
(* that on_data_received can replace the stored response: its              *)
(* VERIFY_NOT_REACHED is not reached.                                      *)
RevalidationIsExclusive ==
    \A r \in Requests :
        Alive(r) /\ entry[r] \in {"must_revalidate", "background"} => IsLastOpenEntry(r)

(* The index never has a row for a file that is being written: the row a   *)
(* live writer will create is the first since its file was truncated.      *)
NoRowWhileWriting ==
    \A w \in Requests : entry[w] = "writer" /\ Alive(w) => index[Key[w]] = "absent"

(* So a revalidation can turn its reader into a writer in one go: nobody   *)
(* else has the key, and no row outlives the file it was about.            *)
RevalidationOwnsTheKey == RevalidationIsExclusive /\ NoRowWhileWriting

(* The turn that will resume r is running or queued.                       *)
IsIn(call, turn) == \E i \in 1..Len(turn) : turn[i] = call

WillBeUnblocked(r) ==
    \/ IsIn(Call("unblock", r), calls)
    \/ \E i \in 1..Len(queued_events) : IsIn(Call("unblock", r), queued_events[i])

(* No wakeup is lost: a request in WaitForCache is on the waiting list of  *)
(* a key that still has an open entry, whose closing will take it off, or  *)
(* its resumption is under way (cache_entry_closed).                       *)
NoLostWakeup ==
    \A r \in Requests : state[r] = "WaitForCache" =>
        \/ r \in {waiting[Key[r]][i] : i \in 1..Len(waiting[Key[r]])} /\ OpenEntries(Key[r]) # {}
        \/ WillBeUnblocked(r)

(* Only a request that waits is resumed: notify_request_unblocked restarts *)
(* a request without asking what it is doing, so a second wakeup would run *)
(* it through the cache again with an entry or a transfer of its own.      *)
UnblockedOnlyWhileWaiting ==
    \A r \in Requests :
        (IsIn(r, waiting[Key[r]]) \/ WillBeUnblocked(r)) /\ Alive(r) =>
            /\ state[r] = "WaitForCache"
            /\ entry[r] = "none"
            /\ curl[r] = "none"

(* Every request that waits is resumed, and no other.                      *)
WakeupsAreExact == NoLostWakeup /\ UnblockedOnlyWhileWaiting

(* What a request dereferences is there: the writer until it is cleared,   *)
(* the reader for as long as curl may call back, and the entry a running   *)
(* pipe or a pending close works on.                                       *)
ReferencesAreLive ==
    \A r \in Requests :
        /\ r \in writerRef => entry[r] = "writer"
        /\ r \in readerRef /\ curl[r] \in {"running", "aborted"} => entry[r] \in Readers
        /\ Calling("pipe", r) => r \in readerRef /\ entry[r] \in Readers
        /\ IsIn(Call("close", r), calls) => entry[r] # "none"

(* The calls of a turn run to its end: no VERIFY of the handlers fails, in *)
(* particular not the one for a completed request without a result code.   *)
TurnReturns == calls # << >> => ENABLED Turn

(* What a client is told of a request until it is told of its end, which   *)
(* is when it forgets the request: that it started, first and once; its    *)
(* headers, once (m_sent_response_headers_to_client); success only after   *)
(* both.  RequestClient VERIFYs the first of these.  The comment at        *)
(* on_headers_received in Fetching.cpp has the headers come twice, the     *)
(* second time for trailers, which no path of this process does.           *)
ClientProtocol ==
    \A r \in Requests : \A i \in 1..Len(log[r]) :
        LET before == {log[r][j] : j \in 1..(i - 1)}
        IN  before \cap {"finished", "failed"} = {} =>
                /\ log[r][i] = "started" => before = {}
                /\ log[r][i] = "headers" => before = {"started"}
                /\ log[r][i] = "finished" => before = {"started", "headers"}

(* A file that readers have open is never rewritten under them; at most it *)
(* is unlinked, which they do not notice.                                  *)
ReadersKeepTheirFile ==
    [][\A k \in Keys : \A r \in Requests :
          Key[r] = k /\ entry[r] \in Readers /\ entry'[r] = entry[r]
              => file'[k] \in {file[k], "absent"}]_vars

-----------------------------------------------------------------------------
(* The cache is a readers-writer lock on its keys (CacheLock.tla).         *)
LockMode == [r \in Requests |->
    IF entry[r] = "none" THEN "none"
    ELSE IF entry[r] = "writer" \/ r \in Locking THEN "exclusive" ELSE "shared"]

Lock == INSTANCE CacheLock WITH mode <- LockMode

(* open_entry, create_entry and cache_entry_closed implement that lock,    *)
(* through every way a request can take, die or crash.                     *)
ImplementsLock == Lock!Spec

-----------------------------------------------------------------------------
(* Liveness.  The event loop runs: a turn goes on until it returns, a      *)
(* queued event is dispatched, a descriptor that stays ready is reported.  *)
(* Of the environment, lookups settle, transfers end, and clients read     *)
(* their pipes until they are empty.  Each of these can happen only while  *)
(* no turn is running, hence strong fairness.  It is stated for all        *)
(* requests together, which is weaker than for each of them.               *)
TransferOrLookupEnds == \E r \in Requests : DNSLookupSettled(r) \/ notify_fetch_complete(r)

PipeWritable == \E r \in Requests : ClientPipeWritable(r) \/ ReaderPipeWritable(r)

PipeDrained == \E r \in Requests : \/ on_client_pipe_writable(r) /\ r \notin buffered'
                                   \/ pipe_without_blocking(r) /\ r \notin piping'

Fairness ==
    /\ WF_vars(Turn)
    /\ SF_vars(dispatch)
    /\ SF_vars(TransferOrLookupEnds)
    /\ SF_vars(PipeWritable)
    /\ SF_vars(PipeDrained)

FairSpec == Spec /\ Fairness

HasEnded(r) == \E i \in 1..Len(log[r]) : log[r][i] \in {"finished", "failed"}

(* Every fetch of a client is answered: request_finished is sent.          *)
EveryFetchEnds == \A r \in Fetches : state[r] = "Init" ~> HasEnded(r)

(* Every request is destroyed in the end, background ones included: none   *)
(* stays in the connection's tables.                                       *)
EveryRequestIsDestroyed == \A r \in Requests : Alive(r) ~> state[r] = "Destroyed"

(* Every entry is closed in the end: no key is locked for ever.            *)
EveryEntryIsClosed == \A r \in Requests : entry[r] # "none" ~> entry[r] = "none"

(* The index has rows only for entire responses.                           *)
IndexedEntryIsWhole == \A k \in Keys : index[k] # "truncated"

=============================================================================
