---------------------------- MODULE DataProvider ----------------------------
(***************************************************************************)
(* LibMedia's VideoDataProvider and AudioDataProvider: a thread that       *)
(* demuxes and decodes one track into a short queue, and the main thread   *)
(* that seeks in the track and takes from the queue                        *)
(* (src/Libraries/LibMedia/Providers).  The two classes have the same      *)
(* control; only the video one has seek modes and says when its queue is   *)
(* full.                                                                   *)
(*                                                                         *)
(* The threads share what m_mutex guards.  A section of code under the     *)
(* mutex is one step, together with what the thread does on its own before *)
(* and after it.  The thread is at:                                        *)
(*   loop      at the head of its loop, about to call handle_seek()        *)
(*   seeking   in handle_seek(), demuxing and decoding for a seek          *)
(*   push      demuxing and decoding for the queue                         *)
(*   wait      after handle_seek() had nothing to do, about to wait        *)
(*   waiting   in m_wait_condition.wait()                                  *)
(* handle_seek() has three callers: `caller` is the one to return to.      *)
(*                                                                         *)
(* A time is a number.  Frames are not told apart: of the queue only its   *)
(* length matters, up to m_queue_max_size, which stands for all lengths    *)
(* from there on: a seek puts its frames into the queue whatever it may    *)
(* hold.  Of demuxer and decoder there is the time that the last seek has  *)
(* taken them to.  A seek that ends with the stream keeps the queue,   *)
(* which then begins with older frames; the sinks skip what is before the  *)
(* clock.                                                                  *)
(* Reading is possible when the stream has enough data; a seek's abort()   *)
(* interrupts a read that is blocked.  Start and end of the thread are     *)
(* left out: it has been started, and the provider is not destroyed.       *)
(***************************************************************************)
EXTENDS Naturals, Sequences

CONSTANTS
    Providers,          \* the tracks' providers
    VideoProviders,     \* those of video tracks
    m_queue_max_size,   \* how many frames a queue holds
    None

SeekModes == {"Accurate", "FastBefore", "FastAfter"}

\* handle_seek()'s variables.
SeekRecords == [id : Nat, timestamp : Nat, mode : SeekModes]

ASSUME DataProviderAssumption ==
    /\ VideoProviders \subseteq Providers
    /\ m_queue_max_size \in Nat \ {0}
    /\ None \notin Nat /\ None \notin SeekRecords

VARIABLES
    m_queue,            \* the length of the queue, or m_queue_max_size if longer
    position,           \* the time that the last seek has taken the track to
    m_is_in_error_state,
    m_seek_id,
    m_last_processed_seek_id,
    m_seek_timestamp,
    m_seek_mode,
    m_seek_completion_handler,  \* whose seek it is, or None
    m_aborted,          \* the cursor's reads are aborted
    thread,             \* where the thread is
    caller,             \* the caller of handle_seek(): "loop", "failed", "full"
    woken,              \* m_wait_condition was signalled since the thread waits
    local,              \* handle_seek()'s variables [id, timestamp, mode], or None
    enough,             \* the stream has the data that is read
    deferred,           \* callbacks for the main loop, [provider, id, ok, time]
    full                \* the providers whose queue-is-full callback is deferred

\* What the thread alone changes.
threadVars == <<position, m_is_in_error_state, m_last_processed_seek_id, thread, caller,
                local>>
\* What seek() changes, apart from waking the thread.
seekVars == <<m_seek_id, m_seek_timestamp, m_seek_mode, m_seek_completion_handler, m_aborted>>
providerVars == <<m_queue, threadVars, seekVars, woken, enough, deferred, full>>

Set(f, p, value) == f' = [f EXCEPT ![p] = value]

\* A queue of n frames.
Capped(n) == IF n < m_queue_max_size THEN n ELSE m_queue_max_size

ProvidersInit ==
    /\ m_queue = [p \in Providers |-> 0]
    /\ position = [p \in Providers |-> 0]
    /\ m_is_in_error_state = [p \in Providers |-> FALSE]
    /\ m_seek_id = [p \in Providers |-> 0]
    /\ m_last_processed_seek_id = [p \in Providers |-> 0]
    /\ m_seek_timestamp = [p \in Providers |-> 0]
    /\ m_seek_mode = [p \in Providers |-> "Accurate"]
    /\ m_seek_completion_handler = [p \in Providers |-> None]
    /\ m_aborted = [p \in Providers |-> FALSE]
    /\ thread = [p \in Providers |-> "loop"]
    /\ caller = [p \in Providers |-> "loop"]
    /\ woken = [p \in Providers |-> FALSE]
    /\ local = [p \in Providers |-> None]
    /\ enough = FALSE
    /\ deferred = <<>>
    /\ full = {}

-----------------------------------------------------------------------------
(* The main thread's calls: each is one section under the mutex. *)

\* m_wait_condition.broadcast(): wakes the thread if it waits now.
wake(p) == woken' = [woken EXCEPT ![p] = @ \/ thread[p] = "waiting"]

\* retrieve_frame() and retrieve_block(), when there is something to take.
retrieve(p) ==
    /\ m_queue[p] > 0
    /\ \/ Set(m_queue, p, m_queue[p] - 1)
       \/ m_queue[p] = m_queue_max_size /\ UNCHANGED m_queue
    /\ wake(p)
    /\ UNCHANGED <<seekVars, threadVars, enough, deferred, full>>

\* seek(), for the providers ps in one go of the main thread: handler says
\* whose seek it is, timestamp and mode where to go; the other providers have
\* the completion handlers in kept.
seek(ps, handler, timestamp, mode, kept) ==
    /\ m_seek_id' = [p \in Providers |-> IF p \in ps THEN m_seek_id[p] + 1 ELSE m_seek_id[p]]
    /\ m_seek_completion_handler' =
           [p \in Providers |-> IF p \in ps THEN handler ELSE kept[p]]
    /\ m_seek_timestamp' =
           [p \in Providers |-> IF p \in ps THEN timestamp ELSE m_seek_timestamp[p]]
    /\ m_seek_mode' = [p \in Providers |-> IF p \in ps THEN mode ELSE m_seek_mode[p]]
    /\ m_aborted' = [p \in Providers |-> p \in ps \/ m_aborted[p]]
    /\ woken' = [p \in Providers |-> woken[p] \/ (p \in ps /\ thread[p] = "waiting")]

is_blocked(p) == thread[p] \in {"seeking", "push"} /\ ~ enough /\ ~ m_aborted[p]

-----------------------------------------------------------------------------
(* The thread. *)

HasSeek(p) == m_last_processed_seek_id[p] # m_seek_id[p]

\* mutant: without reset_abort().
TakeUpSeek_Aborted(p, id, mode) ==
    /\ Set(local, p, [id |-> id, timestamp |-> m_seek_timestamp[p], mode |-> mode])
    /\ Set(thread, p, "seeking")
    /\ UNCHANGED m_aborted

\* The section at the head of handle_seek()'s loop takes up the latest seek,
\* with the id and the mode given.
TakeUpSeek(p, id, mode) ==
    /\ Set(local, p, [id |-> id, timestamp |-> m_seek_timestamp[p], mode |-> mode])
    /\ Set(m_aborted, p, FALSE)
    /\ Set(thread, p, "seeking")

\* A call of handle_seek(), up to that section; without a seek it returns
\* false, and the caller goes to place.
handle_seek(p, from, place) ==
    /\ IF HasSeek(p)
         THEN TakeUpSeek(p, m_seek_id[p], m_seek_mode[p])
         ELSE Set(thread, p, place) /\ UNCHANGED <<local, m_aborted>>
    /\ Set(caller, p, from)

\* What a step of the thread leaves alone, unless it completes a seek.
NoSeekCompleted == UNCHANGED <<position, m_seek_timestamp, m_seek_completion_handler,
                               m_last_processed_seek_id, enough, deferred>>

\* The thread's main loop.
Loop(p) ==
    /\ thread[p] = "loop"
    /\ handle_seek(p, "loop", "push")
    /\ NoSeekCompleted
    /\ UNCHANGED <<m_queue, m_is_in_error_state, m_seek_id, m_seek_mode, woken, full>>

\* handle_seek() returns true, with the seek processed: the main loop goes on
\* to decode, the other callers return to it.
\* process_seek_on_main_thread() has posted the outcome.
ReturnTrue(p, ok, time) ==
    /\ Set(m_last_processed_seek_id, p, local[p].id)
    /\ deferred' = Append(deferred, [provider |-> p, id |-> local[p].id, ok |-> ok,
                                     time |-> time])
    /\ Set(m_is_in_error_state, p, ~ ok)
    /\ Set(thread, p, IF caller[p] = "loop" THEN "push" ELSE "loop")
    /\ Set(caller, p, "loop")
    /\ Set(local, p, None)
    /\ UNCHANGED <<seekVars, woken, enough, full>>

\* resolved_time(): a fast seek ends at a keyframe on its side of the target.
resolved_times(p) ==
    LET t == local[p].timestamp
    IN  IF p \notin VideoProviders \/ local[p].mode = "Accurate" THEN {t}
        ELSE IF local[p].mode = "FastBefore" THEN {t - 1, t}
        ELSE {t, t + 1}

\* resolve_seek(): the frame that was looked for is decoded and replaces the
\* queue, with the one before it if there is one; or the stream ends, which
\* resolves the seek to its target and keeps the queue, with the last video
\* frame, if there was one, behind it.
resolve_seek(p) ==
    /\ thread[p] = "seeking"
    /\ enough
    /\ \E time \in resolved_times(p) :
         /\ ReturnTrue(p, TRUE, time)
         /\ Set(position, p, time)
         /\ \/ \E n \in {1, 2} : Set(m_queue, p, Capped(n))
            \/ /\ time = local[p].timestamp
               /\ local[p].mode # "FastAfter" \/ p \notin VideoProviders
               /\ \/ UNCHANGED m_queue
                  \/ p \in VideoProviders /\ Set(m_queue, p, Capped(m_queue[p] + 1))

\* handle_error(): demuxing, decoding or converting fails, or the read was
\* aborted.
handle_error(p) ==
    /\ thread[p] = "seeking"
    /\ enough \/ m_aborted[p]
    /\ ReturnTrue(p, FALSE, 0)
    /\ Set(m_queue, p, 0)
    /\ UNCHANGED position

\* Between two frames the thread sees that there is a newer seek.
RestartSeek(p) ==
    /\ thread[p] = "seeking"
    /\ enough
    /\ m_seek_id[p] # local[p].id
    /\ TakeUpSeek(p, m_seek_id[p], m_seek_mode[p])
    /\ NoSeekCompleted
    /\ UNCHANGED <<m_queue, m_is_in_error_state, m_seek_id, m_seek_mode, caller, woken, full>>

\* A seek to the first keyframe after a time finds none: the latest seek
\* becomes an accurate one, under a new id.
NothingAfter(p) ==
    /\ thread[p] = "seeking"
    /\ enough
    /\ p \in VideoProviders
    /\ local[p].mode = "FastAfter"
    /\ Set(m_seek_id, p, m_seek_id[p] + 1)
    /\ Set(m_seek_mode, p, "Accurate")
    /\ TakeUpSeek(p, m_seek_id[p] + 1, "Accurate")
    /\ NoSeekCompleted
    /\ UNCHANGED <<m_queue, m_is_in_error_state, caller, woken, full>>

\* A decoded frame is put into the queue, and the thread goes on with what it
\* has decoded; or there is no room, the main thread is told, and
\* handle_seek() is called.
OfferFrame(p) ==
    \/ /\ m_queue[p] < m_queue_max_size
       /\ Set(m_queue, p, m_queue[p] + 1)
       /\ Set(thread, p, "push")
       /\ Set(caller, p, "loop")
       /\ UNCHANGED <<local, m_aborted, full>>
    \/ /\ m_queue[p] >= m_queue_max_size
       /\ full' = full \cup ({p} \cap VideoProviders)
       /\ handle_seek(p, "full", "wait")
       /\ UNCHANGED m_queue

\* The loop of set_error_and_wait_for_seek().
WaitForSeek(p) == handle_seek(p, "failed", "wait") /\ UNCHANGED <<m_queue, full>>

\* push_data_and_decode_some_frames(): no frame comes out yet, or one does; or
\* set_error_and_wait_for_seek(), at the end of the stream, after an error or
\* because the read was aborted.  (The playback manager's error callback is
\* set by nobody, so that the deferred error has no effect.)
push_data_and_decode_some_frames(p) ==
    /\ thread[p] = "push"
    /\ \/ /\ enough
          /\ handle_seek(p, "loop", "push")
          /\ UNCHANGED <<m_queue, full, m_is_in_error_state>>
       \/ /\ enough
          /\ OfferFrame(p)
          /\ UNCHANGED m_is_in_error_state
       \/ /\ enough \/ m_aborted[p]
          /\ Set(m_is_in_error_state, p, TRUE)
          /\ WaitForSeek(p)
    /\ NoSeekCompleted
    /\ UNCHANGED <<m_seek_id, m_seek_mode, woken>>

\* m_wait_condition.wait(), without a look at what it waits for ...
Wait(p) ==
    /\ thread[p] = "wait"
    /\ Set(thread, p, "waiting")
    /\ NoSeekCompleted
    /\ UNCHANGED <<m_queue, m_is_in_error_state, m_seek_id, m_seek_mode, m_aborted, caller,
                   woken, local, full>>

\* ... and its return.
Wake(p) ==
    /\ thread[p] = "waiting"
    /\ woken[p]
    /\ Set(woken, p, FALSE)
    /\ IF caller[p] = "failed" THEN WaitForSeek(p) ELSE OfferFrame(p)
    /\ NoSeekCompleted
    /\ UNCHANGED <<m_is_in_error_state, m_seek_id, m_seek_mode>>

ProviderThread(p) ==
    \/ Loop(p)
    \/ resolve_seek(p)
    \/ handle_error(p)
    \/ RestartSeek(p)
    \/ NothingAfter(p)
    \/ push_data_and_decode_some_frames(p)
    \/ Wait(p)
    \/ Wake(p)

\* IncrementallyPopulatedStream: append() or close() provides what is read.
append ==
    /\ ~ enough
    /\ enough' = TRUE
    /\ UNCHANGED <<m_queue, threadVars, seekVars, woken, deferred, full>>
=============================================================================
