---------------------------- MODULE ImageDecoder ----------------------------
(***************************************************************************)
(* The ImageDecoder process and its clients: the main thread that serves   *)
(* the connections (src/Services/ImageDecoder/ConnectionFromClient.cpp),   *)
(* the background thread that decodes (BackgroundThread, BackgroundAction),*)
(* and in every client process LibImageDecoderClient's Client, held by the *)
(* ImageCodecPlugin.  A client asks with a synchronous call that returns   *)
(* an id and hears the outcome in a later message; its promise is only     *)
(* registered when the call has returned.                                  *)
(*                                                                         *)
(* An image stands for one decode_image call and for the id it is given:   *)
(* ids count up, so a client makes its calls in their order.  A connection *)
(* is named by its client.                                                 *)
(* A process that dies loses what it sent last: a client that sees the end *)
(* of the connection may die() before it has handled every message.        *)
(*                                                                         *)
(* cancel_decoding is left out: no client of this repository sends it.     *)
(***************************************************************************)
EXTENDS BackgroundThread, FiniteSets, SequencesExt

CONSTANTS
    Clients,    \* client processes
    First,      \* the client that started the process: the browser
    Images,     \* decode_image calls, by id
    Owner,      \* the client that makes each of them
    Invalid,    \* those whose buffer does not arrive as a valid one
    Faults,     \* what can go wrong, a subset of {"crash", "replace"}
    None

ASSUME ImageDecoderAssumption ==
    /\ First \in Clients
    /\ Images \subseteq Nat
    /\ Owner \in [Images -> Clients]
    /\ Invalid \subseteq Images
    /\ Faults \subseteq {"crash", "replace"}
    /\ None \notin Clients \cup Images

VARIABLES
    server,         \* the process: "running", "exited" or "crashed"
    s_connections,  \* the connections of the process
    m_pending_jobs, \* the pending jobs of all the connections
    m_canceled,     \* the jobs that are cancelled
    deferred,       \* callbacks deferred to the main loop, <<image, decoded>>
    dying,          \* the connection whose die() the main thread is in
    requests,       \* sent to the process and not handled, per client
    replies,        \* sent to each client and not handled
    client,         \* each client's Client object
    waiting,        \* the image of each client's synchronous call
    m_pending_decoded_images,   \* the images whose promise is registered
    promise,        \* each image's promise
    decoded         \* what the decoder made of each image

serverVars == <<server, s_connections, m_pending_jobs, m_canceled, deferred, dying, decoded>>
clientVars == <<client, waiting, m_pending_decoded_images, promise>>
wires == <<requests, replies>>
vars == <<backgroundVars, serverVars, clientVars, wires>>

Init ==
    /\ BackgroundInit
    /\ server = "running"
    /\ s_connections = {First}
    /\ m_pending_jobs = {}
    /\ m_canceled = {}
    /\ deferred = <<>>
    /\ dying = None
    /\ requests = [c \in Clients |-> <<>>]
    /\ replies = [c \in Clients |-> <<>>]
    /\ client = [c \in Clients |-> IF c = First THEN "open" ELSE "none"]
    /\ waiting = [c \in Clients |-> None]
    /\ m_pending_decoded_images = {}
    /\ promise = [i \in Images |-> "none"]
    /\ decoded = [i \in Images |-> "no"]

Of(c) == {i \in Images : Owner[i] = c}

-----------------------------------------------------------------------------
(* The main thread of the process. *)

\* The main thread is in its event loop.
InLoop == server = "running" /\ dying = None /\ quitting = "no"

\* ConnectionBase::is_open(): shutdown() closes the transport, then calls die().
is_open(c) == c \in s_connections /\ dying # c

\* A message to the client of image i; to a closed connection it is dropped.
Reply(i, kinds) ==
    replies' = [replies EXCEPT ![Owner[i]] =
        IF is_open(Owner[i]) THEN @ \o [k \in DOMAIN kinds |-> <<kinds[k], i>>]
                             ELSE @]

\* connect_new_clients(), asked for by the browser.
connect_new_client(c) ==
    /\ InLoop
    /\ First \in s_connections
    /\ client[First] = "open" /\ client[c] = "none"
    /\ s_connections' = s_connections \cup {c}
    /\ client' = [client EXCEPT ![c] = "open"]
    /\ UNCHANGED <<backgroundVars, server, m_pending_jobs, m_canceled, deferred, dying,
                   decoded, waiting, m_pending_decoded_images, promise, wires>>

\* decode_image(): the response follows whatever the handler has sent.
server_decode_image(c) ==
    /\ InLoop
    /\ c \in s_connections
    /\ requests[c] # <<>>
    /\ requests' = [requests EXCEPT ![c] = Tail(@)]
    /\ LET i == Head(requests[c])
       IN  IF i \in Invalid
             THEN /\ Reply(i, <<"did_fail", "response">>)
                  /\ UNCHANGED <<backgroundVars, m_pending_jobs>>
             ELSE /\ enqueue_work(i)
                  /\ m_pending_jobs' = m_pending_jobs \cup {i}
                  /\ Reply(i, <<"response">>)
    /\ UNCHANGED <<server, s_connections, m_canceled, deferred, dying, decoded, clientVars>>

\* mutant: the callback forgets its job.
on_complete_or_error_Keeps ==
    /\ InLoop
    /\ deferred # <<>>
    /\ Reply(Head(deferred)[1], <<IF Head(deferred)[2] THEN "did_decode" ELSE "did_fail">>)
    /\ deferred' = Tail(deferred)
    /\ UNCHANGED <<backgroundVars, server, s_connections, m_pending_jobs, m_canceled, dying,
                   decoded, requests, clientVars>>

\* The callbacks of a job, run by the main loop.
on_complete_or_error ==
    /\ InLoop
    /\ deferred # <<>>
    /\ LET i == Head(deferred)[1]
       IN  /\ Reply(i, <<IF Head(deferred)[2] THEN "did_decode" ELSE "did_fail">>)
           /\ m_pending_jobs' = m_pending_jobs \ {i}
    /\ deferred' = Tail(deferred)
    /\ UNCHANGED <<backgroundVars, server, s_connections, m_canceled, dying, decoded,
                   requests, clientVars>>

\* The connection's peer is gone: shutdown(), then die() up to the end of the
\* loop that cancels the jobs.
die(c) ==
    /\ InLoop
    /\ c \in s_connections
    /\ client[c] = "gone"
    /\ m_canceled' = m_canceled \cup (m_pending_jobs \cap Of(c))
    /\ dying' = c
    /\ UNCHANGED <<backgroundVars, server, s_connections, m_pending_jobs, deferred, decoded,
                   wires, clientVars>>

\* The process ends, with all it has in memory.
Gone(how) ==
    /\ server' = how
    /\ s_connections' = {}
    /\ m_pending_jobs' = {}
    /\ m_canceled' = {}
    /\ deferred' = <<>>
    /\ dying' = None
    /\ requests' = [c \in Clients |-> <<>>]
    /\ s_background_thread' = "none"
    /\ should_run' = TRUE
    /\ s_all_actions' = <<>>
    /\ actions' = <<>>
    /\ woken' = FALSE
    /\ quitting' = "no"
    /\ UNCHANGED <<decoded, replies, clientVars>>

\* The rest of die(): without connections the process stops its thread, if it
\* has one, and leaves the event loop.
die_clears ==
    /\ server = "running"
    /\ dying # None
    /\ IF s_connections = {dying} /\ s_background_thread = "none"
         THEN Gone("exited")
         ELSE /\ m_pending_jobs' = m_pending_jobs \ Of(dying)
              /\ s_connections' = s_connections \ {dying}
              /\ dying' = None
              /\ requests' = [requests EXCEPT ![dying] = <<>>]
              /\ IF s_connections = {dying} THEN StoreShouldRun ELSE UNCHANGED backgroundVars
              /\ UNCHANGED <<server, m_canceled, deferred, decoded, replies, clientVars>>

quit_broadcasts ==
    /\ server = "running"
    /\ BroadcastQuit
    /\ UNCHANGED <<serverVars, clientVars, wires>>

\* quit_background_thread() returns and the event loop is left.
quit_joins ==
    /\ server = "running"
    /\ joined
    /\ Gone("exited")

-----------------------------------------------------------------------------
(* The background thread of the process. *)

Running == Head(actions)

ThreadSteps ==
    /\ server = "running"
    /\ ThreadNext
    /\ UNCHANGED <<serverVars, clientVars, wires>>

\* The work of BackgroundAction: decode, then look whether the job has been
\* cancelled.  If not, the outcome is deferred to the main loop; if so, the
\* error callback runs here, on this thread.
decode(ok) ==
    /\ server = "running"
    /\ s_background_thread = "action"
    /\ decoded' = [decoded EXCEPT ![Running] = IF ok THEN "image" ELSE "error"]
    /\ IF Running \in m_canceled
         THEN /\ s_background_thread' = "on_error"
              /\ UNCHANGED <<should_run, s_all_actions, actions, woken, quitting, deferred>>
         ELSE /\ deferred' = Append(deferred, <<Running, ok>>)
              /\ ActionReturns
    /\ UNCHANGED <<server, s_connections, m_pending_jobs, m_canceled, dying, clientVars, wires>>

\* m_on_error on the background thread.
on_error_here ==
    /\ server = "running"
    /\ s_background_thread = "on_error"
    /\ Reply(Running, <<"did_fail">>)
    /\ m_pending_jobs' = m_pending_jobs \ {Running}
    /\ ActionReturns
    /\ UNCHANGED <<server, s_connections, m_canceled, deferred, dying, decoded, requests,
                   clientVars>>

\* Both threads are at the table of one connection's jobs: undefined behaviour.
\* Either it goes well, which the other actions show, or the process crashes.
DataRace ==
    /\ server = "running"
    /\ s_background_thread = "on_error"
    /\ \/ dying = Owner[Running]
       \/ InLoop /\ deferred # <<>> /\ Owner[Head(deferred)[1]] = Owner[Running]
    /\ Gone("crashed")

\* A decoder crashes on an image.
Crash ==
    /\ "crash" \in Faults
    /\ server = "running"
    /\ s_background_thread = "action"
    /\ Gone("crashed")

-----------------------------------------------------------------------------
(* The clients. *)

\* Promise::reject() or resolve() for each image of a set.
Settle(images, how) ==
    promise' = [i \in Images |-> IF i \in images THEN how ELSE promise[i]]

\* ImageCodecPlugin::decode_image() and Client::decode_image(): rejected at
\* once without a client or with a closed one, else the call is sent.
decode_image(i) ==
    LET c == Owner[i]
    IN  /\ promise[i] = "none"
        /\ \A j \in Of(c) : j < i => promise[j] # "none"
        /\ \/ /\ client[c] = "open"
              /\ requests' = [requests EXCEPT ![c] = Append(@, i)]
              /\ waiting' = [waiting EXCEPT ![c] = i]
              /\ client' = [client EXCEPT ![c] = "blocked"]
              /\ Settle({i}, "pending")
           \/ /\ client[c] \in {"closed", "dead"}
              /\ Settle({i}, "rejected")
              /\ UNCHANGED <<requests, waiting, client>>
        /\ UNCHANGED <<backgroundVars, serverVars, m_pending_decoded_images, replies>>

\* The call returns: its response is taken from between the messages that
\* wait, and the promise is registered.
decode_image_returns(c) ==
    /\ client[c] = "blocked"
    /\ \E k \in DOMAIN replies[c] :
         /\ replies[c][k] = <<"response", waiting[c]>>
         /\ replies' = [replies EXCEPT ![c] = RemoveAt(@, k)]
    /\ m_pending_decoded_images' = m_pending_decoded_images \cup {waiting[c]}
    /\ waiting' = [waiting EXCEPT ![c] = None]
    /\ client' = [client EXCEPT ![c] = "open"]
    /\ UNCHANGED <<backgroundVars, serverVars, promise, requests>>

\* What the outcomes in a sequence of messages do to the registered promises.
Outcome(messages, kind) ==
    {i \in m_pending_decoded_images : \E k \in DOMAIN messages : messages[k] = <<kind, i>>}

\* The process is gone while a call waits for its response: the messages that
\* have come are handled in the call, then its own promise is rejected, a
\* response that came with the end of the connection included.
decode_image_fails(c) ==
    /\ client[c] = "blocked"
    /\ server # "running"
    /\ \E n \in 0 .. Len(replies[c]) :
         LET handled == SubSeq(replies[c], 1, n)
             resolved == Outcome(handled, "did_decode")
             rejected == Outcome(handled, "did_fail")
         IN  /\ promise' = [i \in Images |->
                              IF i \in resolved THEN "resolved"
                              ELSE IF i \in rejected \cup {waiting[c]} THEN "rejected"
                              ELSE promise[i]]
             /\ m_pending_decoded_images' = m_pending_decoded_images \ (resolved \cup rejected)
    /\ replies' = [replies EXCEPT ![c] = <<>>]
    /\ waiting' = [waiting EXCEPT ![c] = None]
    /\ client' = [client EXCEPT ![c] = "closed"]
    /\ UNCHANGED <<backgroundVars, serverVars, requests>>

\* mutant: an outcome settles the image that was asked for last.
did_decode_or_fail_Any(c) ==
    /\ client[c] = "open"
    /\ replies[c] # <<>>
    /\ replies' = [replies EXCEPT ![c] = Tail(@)]
    /\ \E i \in m_pending_decoded_images \cap Of(c) :
         /\ Settle({i}, IF Head(replies[c])[1] = "did_decode" THEN "resolved" ELSE "rejected")
         /\ m_pending_decoded_images' = m_pending_decoded_images \ {i}
    /\ UNCHANGED <<backgroundVars, serverVars, client, waiting, requests>>

\* did_decode_image() and did_fail_to_decode_image(): without a registered
\* promise nothing happens.  Of a decoded image a frame may have no bitmap.
did_decode_or_fail(c) ==
    /\ client[c] = "open"
    /\ replies[c] # <<>>
    /\ replies' = [replies EXCEPT ![c] = Tail(@)]
    /\ LET i == Head(replies[c])[2]
       IN  /\ \E how \in IF Head(replies[c])[1] = "did_decode" THEN {"resolved", "rejected"}
                                                               ELSE {"rejected"} :
                Settle({i} \cap m_pending_decoded_images, how)
           /\ m_pending_decoded_images' = m_pending_decoded_images \ {i}
    /\ UNCHANGED <<backgroundVars, serverVars, client, waiting, requests>>

\* mutant: the promises are dropped without being rejected.
client_die_Drops(c) ==
    /\ \/ client[c] = "open" /\ server # "running"
       \/ client[c] = "closed"
    /\ m_pending_decoded_images' = m_pending_decoded_images \ Of(c)
    /\ client' = [client EXCEPT ![c] = "dead"]
    /\ replies' = [replies EXCEPT ![c] = <<>>]
    /\ UNCHANGED <<backgroundVars, serverVars, promise, waiting, requests>>

\* Client::die(): the process is gone.
client_die(c) ==
    /\ \/ client[c] = "open" /\ server # "running"
       \/ client[c] = "closed"
    /\ Settle(m_pending_decoded_images \cap Of(c), "rejected")
    /\ m_pending_decoded_images' = m_pending_decoded_images \ Of(c)
    /\ client' = [client EXCEPT ![c] = "dead"]
    /\ replies' = [replies EXCEPT ![c] = <<>>]
    /\ UNCHANGED <<backgroundVars, serverVars, waiting, requests>>

\* ImageCodecPlugin::set_client(), when the browser has started a new process
\* and its message overtakes the end of the old connection: the old Client is
\* destroyed with its promises, and die() is never called.
set_client(c) ==
    /\ "replace" \in Faults
    /\ server = "crashed"
    /\ c # First
    /\ client[c] \in {"open", "closed"}
    /\ client' = [client EXCEPT ![c] = "replaced"]
    /\ m_pending_decoded_images' = m_pending_decoded_images \ Of(c)
    /\ replies' = [replies EXCEPT ![c] = <<>>]
    /\ UNCHANGED <<backgroundVars, serverVars, waiting, promise, requests>>

\* The client's process ends, in a call or not.  (When the decoder's process
\* has ended before it, nobody hears of it.)
client_exits(c) ==
    /\ server = "running"
    /\ client[c] \in {"open", "blocked"}
    /\ client' = [client EXCEPT ![c] = "gone"]
    /\ waiting' = [waiting EXCEPT ![c] = None]
    /\ m_pending_decoded_images' = m_pending_decoded_images \ Of(c)
    /\ replies' = [replies EXCEPT ![c] = <<>>]
    /\ UNCHANGED <<backgroundVars, serverVars, promise, requests>>

-----------------------------------------------------------------------------
MainThread ==
    \/ \E c \in Clients : server_decode_image(c) \/ die(c)
    \/ on_complete_or_error
    \/ die_clears
    \/ quit_broadcasts
    \/ quit_joins

Background ==
    \/ ThreadSteps
    \/ \E ok \in BOOLEAN : decode(ok)
    \/ on_error_here

ClientLoop(c) ==
    \/ decode_image_returns(c)
    \/ decode_image_fails(c)
    \/ did_decode_or_fail(c)
    \/ client_die(c)

Environment ==
    \/ \E c \in Clients : connect_new_client(c) \/ set_client(c) \/ client_exits(c)
    \/ \E i \in Images : decode_image(i)
    \/ DataRace
    \/ Crash

Next ==
    \/ MainThread
    \/ Background
    \/ \E c \in Clients : ClientLoop(c)
    \/ Environment

Spec == Init /\ [][Next]_vars

\* Both threads run and a decoder returns.  The response to a call reaches it
\* while the process lives, and the event loop of a client comes around and
\* hears that a connection has ended.  A call that waits when the process dies
\* need not be woken: the transport's thread ends with a broadcast outside the
\* mutex of wait_until_readable().  Nobody has to ask, to exit or to crash.
Fairness ==
    /\ WF_vars(MainThread)
    /\ WF_vars(Background)
    /\ \A c \in Clients :
         /\ WF_vars(server = "running" /\ decode_image_returns(c))
         /\ WF_vars(did_decode_or_fail(c) \/ client_die(c))

FairSpec == Spec /\ Fairness

-----------------------------------------------------------------------------
(* Properties. *)

Messages == {"response", "did_decode", "did_fail"} \X Images

\* Every variable has its type, and no queue holds anything twice: a job is
\* enqueued, run and answered once.
TypeOK ==
    /\ s_background_thread \in ThreadStates
    /\ should_run \in BOOLEAN /\ woken \in BOOLEAN
    /\ quitting \in {"no", "stored", "broadcast"}
    /\ s_all_actions \in Seq(Images) /\ actions \in Seq(Images)
    /\ IsInjective(s_all_actions \o actions)
    /\ server \in {"running", "exited", "crashed"}
    /\ s_connections \subseteq Clients
    /\ m_pending_jobs \subseteq Images /\ m_canceled \subseteq Images
    /\ deferred \in Seq(Images \X BOOLEAN) /\ IsInjective(deferred)
    /\ dying \in Clients \cup {None}
    /\ requests \in [Clients -> Seq(Images)]
    /\ replies \in [Clients -> Seq(Messages)]
    /\ \A c \in Clients : IsInjective(replies[c])
    /\ client \in [Clients -> {"none", "open", "blocked", "closed", "dead", "replaced", "gone"}]
    /\ waiting \in [Clients -> Images \cup {None}]
    /\ m_pending_decoded_images \subseteq Images
    /\ promise \in [Images -> {"none", "pending", "resolved", "rejected"}]
    /\ decoded \in [Images -> {"no", "image", "error"}]

\* No wake-up is lost: the thread sleeps through neither work nor the request
\* to quit, although the flag is stored outside the mutex that guards the
\* condition (background_thread_func(), enqueue_work(),
\* quit_background_thread()).
SleepsOnlyWhenIdle ==
    s_background_thread = "waiting" /\ ~ woken =>
        /\ s_all_actions = <<>>
        /\ should_run \/ quitting = "stored"

\* The jobs that connections keep are exactly those that are on their way: in
\* the queue, taken or running, or deferred to the main loop.  None is kept
\* after its callback, and none that a client still waits for is dropped
\* (m_pending_jobs, die() and the callbacks of BackgroundAction).
JobsAreUnderWay ==
    server = "running" =>
        LET underWay == Range(s_all_actions) \cup Range(actions)
                            \cup {deferred[k][1] : k \in DOMAIN deferred}
        IN  /\ m_pending_jobs \subseteq underWay
            /\ \A i \in underWay \ m_pending_jobs : ~ is_open(Owner[i])
            /\ \A i \in m_pending_jobs : Owner[i] \in s_connections

\* The variables have their types, and jobs are under way.
Inv == TypeOK /\ JobsAreUnderWay

\* A promise is settled by its own image's outcome: it is resolved only with
\* what the decoder made of it, and while the process runs it is rejected only
\* if its own image failed (or came with a frame that has no bitmap), whatever
\* the other images and clients do.
OwnOutcome ==
    \A i \in Images :
        /\ promise[i] = "resolved" => decoded[i] = "image"
        /\ promise[i] = "rejected" /\ server = "running" =>
               decoded[i] # "no" \/ i \in Invalid

\* A synchronous call in which the process has died: it may wait for ever for
\* a wake-up that came before it slept, and its client's loop with it.
Stuck(c) == client[c] = "blocked" /\ server # "running"

\* Every decode_image() is answered: its promise is resolved or rejected, if
\* its process lives and its Client is not replaced before it has noticed that
\* the connection is gone.  A crash of the decoder, and the messages lost with
\* it, do not change that for a client in its event loop; one that is in a
\* call at that moment is the exception, with all its earlier images.
DecodeIsAnswered ==
    <>[](\A i \in Images :
           promise[i] = "pending" =>
               client[Owner[i]] \in {"gone", "replaced"} \/ Stuck(Owner[i]))

\* The process of clients that are all gone ends: die() does not wait for ever
\* for a thread that nobody woke.
ProcessEnds ==
    []<>(server = "running" => \E c \in Clients : client[c] \notin {"none", "gone"})
=============================================================================
