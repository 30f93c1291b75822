----------------------------- MODULE EventLoop -----------------------------
(***************************************************************************)
(* The single-threaded event loop RequestServer runs on                    *)
(* (LibCore/ThreadEventQueue.cpp).                                         *)
(*                                                                         *)
(* A turn of the loop is one event and everything its handler calls before *)
(* it returns.  `calls' is what is left of the current turn, outermost     *)
(* call last: the C++ call stack, reduced to the calls that change state.  *)
(* While it is not empty no other event can run, so the handlers of a turn *)
(* are atomic for everyone else although each is an action of its own.     *)
(* `queued_events' holds what deferred_invoke and post_event have put off  *)
(* to later turns, each element the calls of one turn.                     *)
(***************************************************************************)
EXTENDS Naturals, Sequences

CONSTANTS
    Requests,       \* every request a client may make, and every background one
    Clients         \* the connections of RequestServer

(* The calls a turn may still have to make: an operation of a request, or  *)
(* the end of a connection.  `on' is the object called.                    *)
Ops == { "process", "unblock", "transfer_headers", "write_queued", "activate",
         "pipe", "pipe_activate", "settle", "finish", "close", "destroy",
         "remove" }

Calls == [op : Ops, on : Requests] \cup [op : {"die"}, on : Clients]

Call(op, x) == [op |-> op, on |-> x]

VARIABLES
    calls,          \* what is left of the current turn, innermost call first
    queued_events   \* ThreadEventQueue::Private::queued_events

loopVars == <<calls, queued_events>>

LoopTypeOK ==
    /\ calls \in Seq(Calls)
    /\ queued_events \in Seq(Seq(Calls))

LoopInit ==
    /\ calls = << >>
    /\ queued_events = << >>

(* Nothing is running: the loop may take the next event.                   *)
Idle == calls = << >>

(* The turn has reached call `op' on x.                                    *)
Calling(op, x) == calls # << >> /\ Head(calls) = Call(op, x)

(* The running call is over; it calls `inner' before it returns.           *)
Then(inner) == calls' = inner \o Tail(calls)

Return == Then(<< >>)

(* ThreadEventQueue::process hands out the queued events one by one, oldest *)
(* first, and asks nothing but whether the receiver is still there: the    *)
(* calls themselves look at that.                                          *)
DispatchQueuedEvent ==
    /\ Idle
    /\ queued_events # << >>
    /\ calls' = Head(queued_events)
    /\ queued_events' = Tail(queued_events)

=============================================================================
