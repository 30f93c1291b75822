-------------------------- MODULE TransportSocket --------------------------
(***************************************************************************)
(* LibIPC's transport: two ends of a Unix socket, each with a main thread  *)
(* and an I/O thread (Libraries/LibIPC/TransportSocket.cpp), and what a    *)
(* connection does with it (Connection.cpp).                               *)
(*                                                                         *)
(* The I/O thread is the loop of io_thread_loop, one action per access to  *)
(* something the main thread or the other end can change: `io' is where it *)
(* is.  The main thread posts messages, waits for one, drains what has     *)
(* come, and closes the transport in one of two ways: `main' is where it   *)
(* is.                                                                     *)
(*                                                                         *)
(* The byte stream is a sequence of units: the header of a message, its    *)
(* payload, an acknowledgement.  A write takes any number of them, which   *)
(* stands for peek's limit and for short writes.  The I/O thread reads     *)
(* until the socket is empty, so what it reads is what is there at its     *)
(* last call: one step.                                                    *)
(***************************************************************************)
EXTENDS Naturals, SequencesExt

CONSTANTS
    Ends,               \* the two ends
    Peer,               \* the other end
    Messages,
    Outbox,             \* what each end will post, in this order
    FdCount,            \* how many descriptors a message carries
    MAX_TRANSFER_FDS,   \* how many descriptors one write carries
    Capacity,           \* how many units the socket holds in each direction
    Closes              \* how each end may close: a subset of {"now", "sent"}

ASSUME TransportAssumption ==
    /\ Peer \in [Ends -> Ends]
    /\ \A e \in Ends : Peer[e] # e /\ Peer[Peer[e]] = e
    /\ Outbox \in [Ends -> Seq(Messages)]
    /\ FdCount \in [Messages -> Nat]
    /\ MAX_TRANSFER_FDS \in Nat \ {0}
    /\ Capacity \in Nat \ {0}
    /\ Closes \in [Ends -> SUBSET {"now", "sent"}]

VARIABLES
    io_thread_state,    \* m_io_thread_state
    io,                 \* where the I/O thread is
    want_to_write,      \* its locals: what it knows of the send queue,
    revents,            \* what poll reported,
    batch,              \* and the messages it is about to hand over
    main,               \* where the main thread is
    shutting_down,      \* ends whose connection has seen the end of its peer
    posted,             \* how many messages of the outbox were posted
    received,           \* the messages the main thread got
    stream,             \* SendQueue::m_stream
    fds,                \* SendQueue::m_fds
    retained,           \* m_fds_retained_until_received_by_peer
    unprocessed_bytes,
    unprocessed_fds,
    incoming,           \* m_incoming_messages
    peer_eof,           \* ends whose m_peer_eof is set
    wire,               \* the socket: units under way from each end,
    wire_fds,           \* and the descriptors that travel with them
    open,               \* ends whose socket is open
    wakeup,             \* ends whose wakeup pipe has something to read
    notified            \* ends whose notify hook pipe has something to read

threadVars == <<io_thread_state, io, want_to_write, revents, batch>>
mainVars == <<main, shutting_down, posted, received>>
queueVars == <<stream, fds, retained>>
readVars == <<unprocessed_bytes, unprocessed_fds, incoming, peer_eof>>
socketVars == <<wire, wire_fds, open>>
pipeVars == <<wakeup, notified>>

vars == <<threadVars, mainVars, queueVars, readVars, socketVars, pipeVars>>

(* Units of the stream.                                                    *)
Encoded(m) == << <<"header", m>>, <<"payload", m>> >>

Acknowledgement(n) == << <<"ack", n>> >>
Units == ({"header", "payload"} \X Messages) \cup ({"ack"} \X Nat)

(* The descriptors of a message, each an identity of its own.              *)
Descriptors(m) == [i \in 1..FdCount[m] |-> <<m, i>>]
Fds == Messages \X Nat

Delivered == [msg : Messages, fds : Seq(Fds)]

(* Every variable keeps its type.                                          *)
TypeOK ==
    /\ io_thread_state \in [Ends -> {"Running", "SendPendingMessagesAndStop", "Stopped"}]
    /\ io \in [Ends -> {"top", "load", "poll", "read", "deliver", "eof", "hup", "write",
                        "finish", "done", "crashed"}]
    /\ want_to_write \in [Ends -> BOOLEAN]
    /\ revents \in [Ends -> SUBSET {"IN", "HUP", "OUT", "WAKEUP"}]
    /\ batch \in [Ends -> Seq(Delivered)]
    /\ main \in [Ends -> {"idle", "posting", "check", "locked", "waiting", "drain", "eof", "call",
                          "joining", "flushing", "closed", "dead"}]
    /\ shutting_down \in SUBSET Ends
    /\ posted \in [Ends -> Nat]
    /\ received \in [Ends -> Seq(Delivered)]
    /\ stream \in [Ends -> Seq(Units)]
    /\ fds \in [Ends -> Seq(Fds)]
    /\ retained \in [Ends -> Seq(Fds)]
    /\ unprocessed_bytes \in [Ends -> Seq(Units)]
    /\ unprocessed_fds \in [Ends -> Seq(Fds)]
    /\ incoming \in [Ends -> Seq(Delivered)]
    /\ peer_eof \in SUBSET Ends
    /\ wire \in [Ends -> Seq(Units)]
    /\ wire_fds \in [Ends -> Seq(Fds)]
    /\ open \in SUBSET Ends
    /\ wakeup \in SUBSET Ends
    /\ notified \in SUBSET Ends

Init ==
    /\ io_thread_state = [e \in Ends |-> "Running"]
    /\ io = [e \in Ends |-> "top"]
    /\ want_to_write = [e \in Ends |-> FALSE]
    /\ revents = [e \in Ends |-> {}]
    /\ batch = [e \in Ends |-> << >>]
    /\ main = [e \in Ends |-> "idle"]
    /\ shutting_down = {}
    /\ posted = [e \in Ends |-> 0]
    /\ received = [e \in Ends |-> << >>]
    /\ stream = [e \in Ends |-> << >>]
    /\ fds = [e \in Ends |-> << >>]
    /\ retained = [e \in Ends |-> << >>]
    /\ unprocessed_bytes = [e \in Ends |-> << >>]
    /\ unprocessed_fds = [e \in Ends |-> << >>]
    /\ incoming = [e \in Ends |-> << >>]
    /\ peer_eof = {}
    /\ wire = [e \in Ends |-> << >>]
    /\ wire_fds = [e \in Ends |-> << >>]
    /\ open = Ends
    /\ wakeup = {}
    /\ notified = {}

(* The I/O thread goes on; a new round of its loop has new locals.          *)
Goto(e, place) ==
    /\ io' = [io EXCEPT ![e] = place]
    /\ revents' = IF place \in {"top", "finish"} THEN [revents EXCEPT ![e] = {}] ELSE revents
SetState(e, s) == io_thread_state' = [io_thread_state EXCEPT ![e] = s]

(* pthread_cond_broadcast: whoever waits, and only who waits, wakes up.    *)
Woken(e) == IF main[e] = "waiting" THEN "check" ELSE main[e]
Broadcast(e) == main' = [main EXCEPT ![e] = Woken(e)]

-----------------------------------------------------------------------------
(* The I/O thread.  The send queue is looked at before the state is.       *)
PeekSendQueue(e) ==
    /\ io[e] = "top"
    /\ want_to_write' = [want_to_write EXCEPT ![e] = stream[e] # << >> \/ fds[e] # << >>]
    /\ Goto(e, "load")
    /\ UNCHANGED <<io_thread_state, batch, mainVars, queueVars, readVars, socketVars,
                   pipeVars>>

LoadState(e) ==
    /\ io[e] = "load"
    /\ LET s == io_thread_state[e]
       IN  \/ s = "Stopped" /\ Goto(e, "finish") /\ UNCHANGED io_thread_state
           \/ /\ s = "SendPendingMessagesAndStop" /\ ~want_to_write[e]
              /\ SetState(e, "Stopped")
              /\ Goto(e, "finish")
           \/ /\ s = "Running" \/ (s = "SendPendingMessagesAndStop" /\ want_to_write[e])
              /\ Goto(e, "poll")
              /\ UNCHANGED io_thread_state
    /\ UNCHANGED <<want_to_write, batch, mainVars, queueVars, readVars, socketVars,
                   pipeVars>>

PeerIsOpen(e) == Peer[e] \in open
HasRoom(e) == Len(wire[e]) < Capacity

(* What poll finds; it blocks until it finds something.                    *)
Ready(e) ==
    {x \in {"IN", "HUP", "OUT", "WAKEUP"} :
        \/ x = "IN" /\ (wire[Peer[e]] # << >> \/ ~PeerIsOpen(e))
        \/ x = "HUP" /\ ~PeerIsOpen(e)
        \/ x = "OUT" /\ want_to_write[e] /\ (HasRoom(e) \/ ~PeerIsOpen(e))
        \/ x = "WAKEUP" /\ e \in wakeup}

Poll(e) ==
    /\ io[e] = "poll"
    /\ Ready(e) # {}
    /\ revents' = [revents EXCEPT ![e] = Ready(e)]
    /\ want_to_write' = [want_to_write EXCEPT ![e] = FALSE]
    /\ io' = [io EXCEPT ![e] = "read"]
    /\ UNCHANGED <<io_thread_state, batch, mainVars, queueVars, readVars,
                   socketVars, pipeVars>>

(* What the messages of a stream are, how many descriptors messages need,  *)
(* and how many descriptors a stream acknowledges.                         *)
MessagesIn[units \in Seq(Units)] ==
    IF units = << >> THEN << >>
    ELSE (IF Head(units)[1] = "payload" THEN << Head(units)[2] >> ELSE << >>)
             \o MessagesIn[Tail(units)]

FdsNeeded[messages \in Seq(Messages)] ==
    IF messages = << >> THEN 0 ELSE FdCount[Head(messages)] + FdsNeeded[Tail(messages)]

AcknowledgedIn[units \in Seq(Units)] ==
    IF units = << >> THEN 0
    ELSE (IF Head(units)[1] = "ack" THEN Head(units)[2] ELSE 0) + AcknowledgedIn[Tail(units)]

(* As much of the stream as consists of whole messages whose descriptors   *)
(* have come.                                                              *)
Processable(units, received_fds) ==
    LET Whole(n) == /\ n > 0 => units[n][1] # "header"
                    /\ FdsNeeded[MessagesIn[SubSeq(units, 1, n)]] <= Len(received_fds)
    IN  SubSeq(units, 1, Max({n \in 0..Len(units) : Whole(n)}))

(* Each message takes the next of the descriptors.                         *)
\* mutant: the descriptors of a message are not taken off the queue
WithDescriptors_NoDequeue(messages, received_fds) ==
    [i \in DOMAIN messages |->
        [msg |-> messages[i], fds |-> SubSeq(received_fds, 1, FdCount[messages[i]])]]

WithDescriptors(messages, received_fds) ==
    [i \in DOMAIN messages |->
        LET before == FdsNeeded[SubSeq(messages, 1, i - 1)]
        IN  [msg |-> messages[i],
             fds |-> SubSeq(received_fds, before + 1, before + FdCount[messages[i]])]]

Drop(s, n) == SubSeq(s, n + 1, Len(s))

(* What the peer acknowledges need not be retained any longer.             *)
\* mutant: a descriptor goes as soon as anything is heard of the peer
release_acknowledged_Eager(e, done) ==
    retained' = [retained EXCEPT ![e] = IF done # << >> THEN << >> ELSE @]

release_acknowledged(e, done) ==
    retained' = [retained EXCEPT ![e] = Drop(@, AcknowledgedIn[done])]

(* Where the thread goes when it has nothing more to hand over.            *)
AfterRead(e) ==
    IF "HUP" \in revents[e] THEN "hup" ELSE IF "OUT" \in revents[e] THEN "write" ELSE "top"

AfterBatch(e) == IF e \in peer_eof' THEN "eof" ELSE AfterRead(e)

WakeupsLeft(e) == IF "WAKEUP" \in revents[e] THEN wakeup \ {e} ELSE wakeup

(* read_incoming_messages, up to the handing over of the batch.  m_peer_eof *)
(* is set as soon as the end is read.                                      *)
read_incoming_messages(e) ==
    /\ io[e] = "read"
    /\ \/ /\ "IN" \notin revents[e]
          /\ Goto(e, AfterRead(e))
          /\ wakeup' = WakeupsLeft(e)
          /\ UNCHANGED <<batch, queueVars, readVars, wire, wire_fds>>
       \/ /\ "IN" \in revents[e]
          /\ peer_eof' = IF PeerIsOpen(e) THEN peer_eof ELSE peer_eof \cup {e}
          /\ LET units == unprocessed_bytes[e] \o wire[Peer[e]]
                 descriptors == unprocessed_fds[e] \o wire_fds[Peer[e]]
                 done == Processable(units, descriptors)
                 messages == MessagesIn[done]
                 count == FdsNeeded[messages]
             IN  /\ wire' = [wire EXCEPT ![Peer[e]] = << >>]
                 /\ wire_fds' = [wire_fds EXCEPT ![Peer[e]] = << >>]
                 /\ unprocessed_bytes' = [unprocessed_bytes EXCEPT ![e] = Drop(units, Len(done))]
                 /\ unprocessed_fds' = [unprocessed_fds EXCEPT ![e] = Drop(descriptors, count)]
                 /\ batch' = [batch EXCEPT ![e] = WithDescriptors(messages, descriptors)]
                 /\ release_acknowledged(e, done)
                 /\ stream' = [stream EXCEPT ![e] =
                        IF count > 0 THEN @ \o Acknowledgement(count) ELSE @]
                 /\ wakeup' = IF count > 0 THEN wakeup \cup {e} ELSE WakeupsLeft(e)
                 /\ Goto(e, IF messages # << >> THEN "deliver" ELSE AfterBatch(e))
          /\ UNCHANGED <<fds, incoming>>
    /\ UNCHANGED <<io_thread_state, want_to_write, mainVars, open, notified>>

(* The batch is handed over under m_incoming_mutex, which the main thread  *)
(* has when it is about to wait.                                           *)
DeliverBatch(e) ==
    /\ io[e] = "deliver"
    /\ main[e] # "locked"
    /\ incoming' = [incoming EXCEPT ![e] = @ \o batch[e]]
    /\ batch' = [batch EXCEPT ![e] = << >>]
    /\ Broadcast(e)
    /\ notified' = notified \cup {e}
    /\ UNCHANGED peer_eof
    /\ Goto(e, AfterBatch(e))
    /\ UNCHANGED <<io_thread_state, want_to_write, shutting_down, posted, received, queueVars,
                   unprocessed_bytes, unprocessed_fds, socketVars, wakeup>>

NotifyOfEof(e) ==
    /\ io[e] = "eof"
    /\ Broadcast(e)
    /\ notified' = notified \cup {e}
    /\ Goto(e, AfterRead(e))
    /\ UNCHANGED <<io_thread_state, want_to_write, batch, shutting_down, posted, received,
                   queueVars, readVars, socketVars, wakeup>>

CheckHangup(e) ==
    /\ io[e] = "hup"
    /\ SetState(e, "Stopped")
    /\ Goto(e, "finish")
    /\ UNCHANGED <<want_to_write, batch, mainVars, queueVars, readVars, socketVars, pipeVars>>

(* transfer_data: descriptors travel with the first bytes of a write, so   *)
(* without bytes they do not travel.                                       *)
discard(e, n, k) ==
    /\ stream' = [stream EXCEPT ![e] = Drop(@, n)]
    /\ fds' = [fds EXCEPT ![e] = Drop(@, k)]

transfer_data(e) ==
    /\ io[e] = "write"
    /\ Goto(e, "top")
    /\ \/ /\ PeerIsOpen(e) /\ stream[e] # << >>
          /\ \E n \in 1..Min({Len(stream[e]), Capacity - Len(wire[e])}) :
               LET k == Min({Len(fds[e]), MAX_TRANSFER_FDS})
               IN  /\ wire' = [wire EXCEPT ![e] = @ \o SubSeq(stream[e], 1, n)]
                   /\ wire_fds' = [wire_fds EXCEPT ![e] = @ \o SubSeq(fds[e], 1, k)]
                   /\ discard(e, n, k)
          /\ UNCHANGED io_thread_state
       \/ /\ ~PeerIsOpen(e) /\ stream[e] # << >>      \* EPIPE
          /\ SetState(e, "Stopped")
          /\ UNCHANGED <<stream, fds, wire, wire_fds>>
       \/ /\ stream[e] = << >>
          /\ UNCHANGED <<io_thread_state, stream, fds, wire, wire_fds>>
    /\ UNCHANGED <<want_to_write, batch, mainVars, retained, readVars, open, pipeVars>>

(* The end of io_thread_loop: VERIFY, whose failure ends the process, then *)
(* m_peer_eof, and a broadcast that nobody's mutex is held for.            *)
FinishThread(e) ==
    /\ io[e] = "finish"
    /\ \/ /\ io_thread_state[e] = "Stopped"
          /\ Goto(e, "done")
          /\ peer_eof' = peer_eof \cup {e}
          /\ Broadcast(e)
          /\ UNCHANGED open
       \/ /\ io_thread_state[e] # "Stopped"
          /\ Goto(e, "crashed")
          /\ main' = [main EXCEPT ![e] = "dead"]
          /\ open' = open \ {e}
          /\ UNCHANGED peer_eof
    /\ UNCHANGED <<io_thread_state, want_to_write, batch, shutting_down, posted,
                   received, queueVars, unprocessed_bytes, unprocessed_fds, incoming, wire,
                   wire_fds, pipeVars>>

IOThread(e) ==
    \/ PeekSendQueue(e)
    \/ LoadState(e)
    \/ Poll(e)
    \/ read_incoming_messages(e)
    \/ DeliverBatch(e)
    \/ NotifyOfEof(e)
    \/ CheckHangup(e)
    \/ transfer_data(e)
    \/ FinishThread(e)

-----------------------------------------------------------------------------
(* The main thread.  It posts the messages of its outbox whenever it is    *)
(* free to.                                                                *)
\* mutant: the I/O thread is not told
wake_io_thread_Silent(e) == UNCHANGED wakeup

wake_io_thread(e) == wakeup' = wakeup \cup {e}

(* The descriptors are retained before anything can be sent.               *)
NextToPost(e) == Outbox[e][posted[e] + 1]

RetainDescriptors(e) ==
    /\ main[e] = "idle"
    /\ posted[e] < Len(Outbox[e])
    /\ retained' = [retained EXCEPT ![e] = @ \o Descriptors(NextToPost(e))]
    /\ main' = [main EXCEPT ![e] = "posting"]
    /\ UNCHANGED <<threadVars, shutting_down, posted, received, stream, fds, readVars,
                   socketVars, pipeVars>>

enqueue_message(e, m) ==
    /\ stream' = [stream EXCEPT ![e] = @ \o Encoded(m)]
    /\ fds' = [fds EXCEPT ![e] = @ \o Descriptors(m)]

post_message(e) ==
    /\ main[e] = "posting"
    /\ enqueue_message(e, NextToPost(e))
    /\ posted' = [posted EXCEPT ![e] = @ + 1]
    /\ main' = [main EXCEPT ![e] = "idle"]
    /\ wake_io_thread(e)
    /\ UNCHANGED <<threadVars, shutting_down, received, retained, readVars, socketVars, notified>>

MainGoesTo(e, place) ==
    /\ main' = [main EXCEPT ![e] = place]
    /\ UNCHANGED <<threadVars, shutting_down, posted, received, queueVars, readVars, socketVars,
                   pipeVars>>

(* wait_until_readable, called by a synchronous call: the test with the    *)
(* mutex locked, and the wait, which unlocks it.                           *)
CheckReadable(e) ==
    MainGoesTo(e, IF incoming[e] = << >> /\ io_thread_state[e] = "Running"
                  THEN "locked" ELSE "drain")

SyncCall(e) == main[e] = "idle" /\ CheckReadable(e)
CheckAgain(e) == main[e] = "check" /\ CheckReadable(e)
Wait(e) == main[e] = "locked" /\ MainGoesTo(e, "waiting")

(* drain_messages_from_peer, from the hook or from a synchronous call:     *)
(* the messages are taken first and m_peer_eof is read afterwards.         *)
TakeMessages(e) ==
    /\ received' = [received EXCEPT ![e] = @ \o incoming[e]]
    /\ incoming' = [incoming EXCEPT ![e] = << >>]

ReadHook(e) ==
    /\ main[e] = "idle"
    /\ e \in notified
    /\ notified' = notified \ {e}
    /\ TakeMessages(e)
    /\ main' = [main EXCEPT ![e] = "eof"]
    /\ UNCHANGED <<threadVars, shutting_down, posted, queueVars, unprocessed_bytes,
                   unprocessed_fds, peer_eof, socketVars, wakeup>>

DrainInCall(e) ==
    /\ main[e] = "drain"
    /\ TakeMessages(e)
    /\ main' = [main EXCEPT ![e] = "call"]
    /\ UNCHANGED <<threadVars, shutting_down, posted, queueVars, unprocessed_bytes,
                   unprocessed_fds, peer_eof, socketVars, pipeVars>>

(* A shutdown is scheduled when the peer is seen to be gone.               *)
ScheduleShutdown(e) ==
    shutting_down' = IF e \in peer_eof THEN shutting_down \cup {e} ELSE shutting_down

EndHook(e) ==
    /\ main[e] = "eof"
    /\ ScheduleShutdown(e)
    /\ main' = [main EXCEPT ![e] = "idle"]
    /\ UNCHANGED <<threadVars, posted, received, queueVars, readVars, socketVars, pipeVars>>

(* A close: the state is set, the I/O thread woken and joined.             *)
\* mutant: the state is left for the I/O thread to set
stop_io_thread_KeepState(e, s, place) ==
    /\ main' = [main EXCEPT ![e] = place]
    /\ wake_io_thread(e)
    /\ UNCHANGED io_thread_state

stop_io_thread(e, s, place) ==
    /\ SetState(e, s)
    /\ main' = [main EXCEPT ![e] = place]
    /\ wake_io_thread(e)

(* wait_for_specific_endpoint_message_impl after a drain.  Which message   *)
(* it waits for is left open, so it may return or wait for more; when the  *)
(* peer is gone it gives up, and closes the transport if messages are left.*)
EndOrRepeatCall(e) ==
    /\ main[e] = "call"
    /\ ScheduleShutdown(e)
    /\ \/ /\ e \in peer_eof \/ received[e] # << >>
          /\ main' = [main EXCEPT ![e] = "idle"]
          /\ UNCHANGED <<io_thread_state, wakeup>>
       \/ /\ e \notin peer_eof
          /\ main' = [main EXCEPT ![e] = "check"]
          /\ UNCHANGED <<io_thread_state, wakeup>>
       \/ /\ e \in peer_eof /\ received[e] # << >>
          /\ stop_io_thread(e, "Stopped", "joining")
    /\ UNCHANGED <<io, want_to_write, revents, batch, posted, received, queueVars, readVars,
                   socketVars, notified>>

Stop(e, s, place) ==
    /\ main[e] = "idle"
    /\ stop_io_thread(e, s, place)
    /\ UNCHANGED <<io, want_to_write, revents, batch, posted, received, queueVars, readVars,
                   socketVars, notified>>

(* The scheduled shutdown runs, or the owner closes the transport itself.  *)
shutdown(e) ==
    /\ e \in shutting_down
    /\ shutting_down' = shutting_down \ {e}
    /\ Stop(e, "Stopped", "joining")

close(e) ==
    /\ "now" \in Closes[e]
    /\ Stop(e, "Stopped", "joining")
    /\ UNCHANGED shutting_down

close_after_sending_all_pending_messages(e) ==
    /\ "sent" \in Closes[e]
    /\ Stop(e, "SendPendingMessagesAndStop", "flushing")
    /\ UNCHANGED shutting_down

Joined(e) ==
    /\ main[e] \in {"joining", "flushing"}
    /\ io[e] = "done"
    /\ main' = [main EXCEPT ![e] = "closed"]
    /\ open' = open \ {e}
    /\ UNCHANGED <<threadVars, shutting_down, posted, received, queueVars, readVars, wire,
                   wire_fds, pipeVars>>

(* What the event loop, and a call that has begun, will do.                *)
MainThread(e) ==
    \/ post_message(e)
    \/ CheckAgain(e)
    \/ Wait(e)
    \/ ReadHook(e)
    \/ EndHook(e)
    \/ DrainInCall(e)
    \/ EndOrRepeatCall(e)
    \/ shutdown(e)
    \/ Joined(e)

(* What the owner of the transport may do.                                 *)
Owner(e) ==
    \/ RetainDescriptors(e)
    \/ SyncCall(e)
    \/ close(e)
    \/ close_after_sending_all_pending_messages(e)

Next == \E e \in Ends : IOThread(e) \/ MainThread(e) \/ Owner(e)

Spec == Init /\ [][Next]_vars

(* Both threads are scheduled; whether the owner does anything more is up  *)
(* to it.                                                                  *)
Fairness == \A e \in Ends : WF_vars(IOThread(e)) /\ WF_vars(MainThread(e))

FairSpec == Spec /\ Fairness

-----------------------------------------------------------------------------
Posted(e) == SubSeq(Outbox[e], 1, posted[e])

(* What has left the byte stream at the other end.                         *)
Arrived(e) == received[Peer[e]] \o incoming[Peer[e]] \o batch[Peer[e]]

UnderWay(e) == unprocessed_bytes[Peer[e]] \o wire[e] \o stream[e]

(* No message is lost, repeated or overtaken between post_message and the  *)
(* main thread of the other end, and each arrives with its own             *)
(* descriptors, however writes are cut up.                                 *)
InOrder ==
    \A e \in Ends :
        LET here == Arrived(e)
        IN  /\ [i \in DOMAIN here |-> here[i].msg] \o MessagesIn[UnderWay(e)] = Posted(e)
            /\ \A i \in DOMAIN here : here[i].fds = Descriptors(here[i].msg)

BeingPosted(e) == IF main[e] = "posting" THEN Descriptors(NextToPost(e)) ELSE << >>

(* A descriptor is retained until the peer's acknowledgement has been      *)
(* read: what is retained is exactly what is acknowledged but not read,    *)
(* then what the peer has not taken, what is on the socket, what is queued *)
(* and what is about to be.  So no acknowledgement finds the queue of      *)
(* retained ones empty.                                                    *)
RetainedUntilReceived ==
    \A e \in Ends :
        LET acknowledged == AcknowledgedIn[UnderWay(Peer[e])]
        IN  /\ acknowledged <= Len(retained[e])
            /\ Drop(retained[e], acknowledged)
                    = unprocessed_fds[Peer[e]] \o wire_fds[e] \o fds[e] \o BeingPosted(e)

(* The VERIFY at the end of io_thread_loop, that the thread leaves its     *)
(* loop Stopped, can fail in one situation only: the main thread is in a   *)
(* close that sends what is pending, and has stored that state after the   *)
(* I/O thread, which has seen its peer hang up, had stored Stopped.        *)
StoppedUnlessFlushing ==
    \A e \in Ends : io[e] = "finish" => io_thread_state[e] = "Stopped" \/ main[e] = "flushing"

(* The variables have their types, descriptors are retained until they are *)
(* received, and the VERIFY of io_thread_loop fails in one situation only. *)
Inv == TypeOK /\ RetainedUntilReceived /\ StoppedUnlessFlushing

SomebodyCloses == \E e \in Ends : main[e] \in {"joining", "flushing", "closed", "dead"}

(* Descriptors that are left when the last byte has gone: they do not      *)
(* travel alone.                                                           *)
Stranded(e) == stream[e] = << >> /\ fds[e] # << >>

(* Every message that is posted gets to the main thread of the other end,  *)
(* whether that is in its event loop or waits in a synchronous call,       *)
(* unless somebody closes, or more descriptors are queued than the bytes   *)
(* behind them can take along and nothing is posted that would.            *)
EveryMessageArrives ==
    \A e \in Ends : \A n \in DOMAIN Outbox[e] :
        posted[e] >= n ~> Len(received[Peer[e]]) >= n \/ SomebodyCloses \/ []Stranded(e)

(* Closing a transport joins the I/O thread.  A close at once comes back.  *)
(* One that sends what is pending first does so too, with two exceptions.  *)
(* If the peer has gone, the process may end at the VERIFY of the I/O      *)
(* thread instead (StoppedUnlessFlushing).  If the peer stays, it may wait *)
(* for ever for descriptors that no bytes are left to carry.               *)
CloseReturns ==
    \A e \in Ends :
        /\ main[e] = "joining" ~> main[e] = "closed"
        /\ main[e] = "flushing" ~> \/ main[e] = "closed"
                                   \/ main[e] = "dead" /\ ~PeerIsOpen(e)
                                   \/ [](PeerIsOpen(e) /\ Stranded(e))

=============================================================================
