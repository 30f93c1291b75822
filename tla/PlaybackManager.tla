-------------------------- MODULE PlaybackManager --------------------------
(***************************************************************************)
(* LibMedia's PlaybackManager with its state handlers and sinks, on top of *)
(* the providers' threads: one video track, displayed, and one audio track,*)
(* enabled or not (src/Libraries/LibMedia/PlaybackManager.cpp,             *)
(* PlaybackStates, Sinks).                                                 *)
(*                                                                         *)
(* Everything here runs on the main thread, except the audio device's      *)
(* thread, which takes blocks from the audio provider.  An accurate seek   *)
(* sends both providers on their way at once; a fast one waits for the     *)
(* keyframe that the video provider finds, and sends the audio provider    *)
(* there.                                                                  *)
(*                                                                         *)
(* The n-th seek of the user goes to the time 2n, so that the keyframes    *)
(* around it have times of their own.  Its SeekData is seek_data[n], for as *)
(* long as a completion handler refers to it.                              *)
(***************************************************************************)
EXTENDS DataProvider, FiniteSets, Functions

CONSTANTS
    MaxSeeks,   \* bound: the seeks of the user
    Modes       \* the modes it seeks in

ASSUME PlaybackAssumption ==
    /\ Providers = {"video", "audio"} /\ VideoProviders = {"video"}
    /\ MaxSeeks \in Nat
    /\ Modes \subseteq SeekModes

VARIABLES
    state,          \* the state handler
    m_playing,      \* what a ResumingStateHandler resumes to
    m_current_seek_id,  \* of the SeekingStateHandler: counts from 1 in each
    seeks,          \* how often the user has seeked
    seek_data,      \* the SeekData that are referred to
    time,           \* what the time provider was last set to
    m_pause_updates,    \* of the DisplayingVideoSink
    enabled,        \* the providers that the sinks have: of audio, none or one
    asked,          \* what the user last asked for: to play or not
    crashed         \* a VERIFY has failed

managerVars == <<state, m_playing, m_current_seek_id, seeks, seek_data, time, m_pause_updates,
                 enabled, asked, crashed>>
vars == <<providerVars, managerVars>>

\* The video track is selected, the audio track is enabled or not.  Left out: a
\* switch of the audio track in between.
Init ==
    /\ ProvidersInit
    /\ state = "Paused"
    /\ m_playing = FALSE
    /\ m_current_seek_id = 0
    /\ seeks = 0
    /\ seek_data = <<>>
    /\ time = 0
    /\ m_pause_updates = FALSE
    /\ enabled \in {Providers, VideoProviders}
    /\ asked = FALSE
    /\ crashed = FALSE

\* The main thread is in its loop.
InLoop == ~ crashed

is_playing == state = "Playing" \/ (state \in {"Seeking", "Buffering"} /\ m_playing)

-----------------------------------------------------------------------------
(* Seeks. *)

\* The SeekData d of the n-th seek, and the others that are referred to.
Refer(n, d) ==
    LET referred == Range(m_seek_completion_handler') \ {None}
    IN  seek_data' = [k \in referred |-> IF k = n THEN d ELSE seek_data[k]]

\* begin_seek() for a new SeekData: a fast seek leaves the audio for later.
begin_seek(mode) ==
    LET n == seeks + 1
        id == IF state = "Seeking" THEN m_current_seek_id + 1 ELSE 1
    IN  /\ seeks' = n
        /\ seek(IF mode = "Accurate" THEN enabled ELSE enabled \cap VideoProviders,
                n, 2 * n, mode, m_seek_completion_handler)
        /\ Refer(n, [id |-> id, mode |-> mode, chosen |-> IF mode = "Accurate" THEN 2 * n ELSE 0,
                     in_flight |-> enabled, completed |-> {}])
        /\ m_current_seek_id' = id
        /\ m_pause_updates' = TRUE

\* mutant: a second seek forgets that the first interrupted the playback.
manager_seek_Forgets(mode) ==
    /\ InLoop
    /\ seeks < MaxSeeks
    /\ begin_seek(mode)
    /\ state' = "Seeking"
    /\ m_playing' = (state = "Playing")
    /\ UNCHANGED <<m_queue, threadVars, enough, deferred, full, time, enabled, asked, crashed>>

\* PlaybackManager::seek(): in the seeking state the handler starts over, in
\* the others it is replaced.
manager_seek(mode) ==
    /\ InLoop
    /\ seeks < MaxSeeks
    /\ begin_seek(mode)
    /\ state' = "Seeking"
    /\ m_playing' = is_playing
    /\ UNCHANGED <<m_queue, threadVars, enough, deferred, full, time, enabled,
                   asked, crashed>>

\* mutant: any SeekData that is complete ends the seek.
possibly_complete_seek_AnySeek(d) ==
    LET current == d.completed = d.in_flight /\ state = "Seeking"
    IN  /\ crashed' = (d.completed = d.in_flight /\ state # "Seeking")
        /\ time' = IF current THEN d.chosen ELSE time
        /\ m_pause_updates' = (m_pause_updates /\ ~ current)
        /\ state' = IF current THEN (IF m_playing THEN "Playing" ELSE "Paused") ELSE state

\* possibly_complete_seek() for the SeekData d.  as<SeekingStateHandler>()
\* verifies the state.
possibly_complete_seek(d) ==
    LET complete == d.completed = d.in_flight
        current == complete /\ state = "Seeking" /\ m_current_seek_id = d.id
    IN  /\ crashed' = (complete /\ state # "Seeking")
        /\ time' = IF current THEN d.chosen ELSE time
        /\ m_pause_updates' = (m_pause_updates /\ ~ current)
        /\ state' = IF current THEN (IF m_playing THEN "Playing" ELSE "Paused") ELSE state

\* mutant: nothing happens when there is no audio to follow.
CompletionHandler_Silent(n, p, resolved, kept) ==
    LET audio == enabled \ VideoProviders
        audioNext == p \in VideoProviders /\ seek_data[n].mode # "Accurate"
        d == [seek_data[n] EXCEPT
                 !.completed = @ \cup {p},
                 !.chosen = IF p \in VideoProviders /\ resolved > @ THEN resolved ELSE @,
                 !.in_flight = IF audioNext THEN (@ \cap VideoProviders) \cup audio ELSE @]
    IN  /\ seek(IF audioNext THEN audio ELSE {}, n, d.chosen, "Accurate", kept)
        /\ Refer(n, d)
        /\ IF audioNext /\ audio = {} THEN UNCHANGED <<crashed, time, m_pause_updates, state>>
           ELSE possibly_complete_seek(d)

\* The completion handlers that begin_seek() and begin_audio_seeks() give to
\* the providers.  After a fast seek of the video the audio follows.
CompletionHandler(n, p, resolved, kept) ==
    LET audio == enabled \ VideoProviders
        audioNext == p \in VideoProviders /\ seek_data[n].mode # "Accurate"
        d == [seek_data[n] EXCEPT
                 !.completed = @ \cup {p},
                 !.chosen = IF p \in VideoProviders /\ resolved > @ THEN resolved ELSE @,
                 !.in_flight = IF audioNext THEN (@ \cap VideoProviders) \cup audio ELSE @]
    IN  /\ seek(IF audioNext THEN audio ELSE {}, n, d.chosen, "Accurate", kept)
        /\ Refer(n, d)
        /\ possibly_complete_seek(d)

\* The callback that process_seek_on_main_thread() deferred: nothing happens
\* for a seek that is not the provider's latest.  The completion handler is
\* called once; when the seek failed it is dropped.
process_seek ==
    /\ InLoop
    /\ deferred # <<>>
    /\ deferred' = Tail(deferred)
    /\ LET e == Head(deferred)
           n == m_seek_completion_handler[e.provider]
           taken == [m_seek_completion_handler EXCEPT ![e.provider] = None]
       IN  IF m_seek_id[e.provider] = e.id
             THEN IF e.ok /\ n # None
                    THEN CompletionHandler(n, e.provider, e.time, taken)
                    ELSE /\ m_seek_completion_handler' = taken
                         /\ UNCHANGED <<m_seek_id, m_seek_timestamp, m_seek_mode, m_aborted,
                                        woken, state, time, m_pause_updates, crashed>>
                         /\ Refer(None, None)
             ELSE UNCHANGED <<seekVars, woken, state, time, m_pause_updates, crashed, seek_data>>
    /\ UNCHANGED <<m_queue, threadVars, enough, full, m_playing, m_current_seek_id, seeks,
                   enabled, asked>>

-----------------------------------------------------------------------------
(* The other operations. *)

\* play() and pause(), by the state handler in charge.
play ==
    /\ InLoop
    /\ ~ asked
    /\ asked' = TRUE
    /\ state' = IF state = "Paused" THEN "Playing" ELSE state
    /\ m_playing' = (state \in {"Seeking", "Buffering"})
    /\ UNCHANGED <<providerVars, m_current_seek_id, seeks, seek_data, time, m_pause_updates, enabled, crashed>>

pause ==
    /\ InLoop
    /\ asked
    /\ asked' = FALSE
    /\ state' = IF state = "Playing" THEN "Paused" ELSE state
    /\ m_playing' = FALSE
    /\ UNCHANGED <<providerVars, m_current_seek_id, seeks, seek_data, time, m_pause_updates, enabled, crashed>>

\* DisplayingVideoSink::update() takes a frame; without one, while the
\* provider is blocked, PlayingStateHandler::enter_buffering() acts on it.
update ==
    /\ InLoop
    /\ ~ m_pause_updates
    /\ \/ retrieve("video") /\ UNCHANGED managerVars
       \/ /\ m_queue["video"] = 0 /\ is_blocked("video")
          /\ state = "Playing"
          /\ state' = "Buffering"
          /\ m_playing' = TRUE
          /\ UNCHANGED <<providerVars, m_current_seek_id, seeks, seek_data, time, m_pause_updates,
                         enabled, asked, crashed>>

\* The audio device's thread, in write_audio_data_to_playback_stream().  The
\* sink suspends the device asynchronously, so that its thread may take blocks
\* in every state (before the first play() too, where the code does not).
write_audio_data ==
    /\ InLoop
    /\ "audio" \in enabled
    /\ retrieve("audio")
    /\ UNCHANGED managerVars

\* The frames-queue-is-full handler: exit_buffering().
exit_buffering ==
    /\ InLoop
    /\ full # {}
    /\ full' = {}
    /\ state' = IF state = "Buffering" THEN (IF m_playing THEN "Playing" ELSE "Paused") ELSE state
    /\ UNCHANGED <<m_queue, threadVars, seekVars, woken, enough, deferred, m_playing,
                   m_current_seek_id, seeks, seek_data, time, m_pause_updates, enabled,
                   asked, crashed>>

-----------------------------------------------------------------------------
MainLoop ==
    \/ process_seek
    \/ exit_buffering

User ==
    \/ \E mode \in Modes : manager_seek(mode)
    \/ play
    \/ pause
    \/ update
    \/ write_audio_data

Next ==
    \/ MainLoop
    \/ User
    \/ \E p \in Providers : ProviderThread(p) /\ UNCHANGED managerVars
    \/ append /\ UNCHANGED managerVars

Spec == Init /\ [][Next]_vars

\* A packet has been decoded to its last frame, or decoding has failed, and
\* the thread, back in its loop, finds a seek.
ReachSeek(p) ==
    push_data_and_decode_some_frames(p) /\ thread'[p] = "seeking" /\ UNCHANGED managerVars

\* The main loop and the threads run, and decoding gets somewhere: a packet
\* has an end, a seek does not decode for ever, and data comes.
Fairness ==
    /\ WF_vars(MainLoop)
    /\ \A p \in Providers : SF_vars(ReachSeek(p))
    /\ \A p \in Providers : WF_vars(ProviderThread(p) /\ UNCHANGED managerVars)
    /\ WF_vars(append /\ UNCHANGED managerVars)

FairSpec == Spec /\ Fairness

-----------------------------------------------------------------------------
(* Properties. *)

ThreadPlaces == {"loop", "seeking", "push", "wait", "waiting"}
SeekDatas == [id : Nat, mode : SeekModes, chosen : Nat, in_flight : SUBSET Providers,
              completed : SUBSET Providers]

\* Every variable has its type.
TypeOK ==
    /\ m_queue \in [Providers -> 0 .. m_queue_max_size] /\ position \in [Providers -> Nat]
    /\ m_is_in_error_state \in [Providers -> BOOLEAN]
    /\ m_seek_id \in [Providers -> Nat] /\ m_last_processed_seek_id \in [Providers -> Nat]
    /\ m_seek_timestamp \in [Providers -> Nat] /\ m_seek_mode \in [Providers -> SeekModes]
    /\ m_seek_completion_handler \in [Providers -> Nat \cup {None}]
    /\ m_aborted \in [Providers -> BOOLEAN] /\ woken \in [Providers -> BOOLEAN]
    /\ thread \in [Providers -> ThreadPlaces]
    /\ caller \in [Providers -> {"loop", "failed", "full"}]
    /\ local \in [Providers -> SeekRecords \cup {None}]
    /\ \A p \in Providers : local[p] # None <=> thread[p] = "seeking"
    /\ enough \in BOOLEAN
    /\ deferred \in Seq([provider : Providers, id : Nat, ok : BOOLEAN, time : Nat])
    /\ full \subseteq VideoProviders
    /\ state \in {"Paused", "Playing", "Buffering", "Seeking"}
    /\ m_playing \in BOOLEAN /\ asked \in BOOLEAN /\ crashed \in BOOLEAN
    /\ m_current_seek_id \in Nat /\ time \in Nat
    /\ seeks \in 0 .. MaxSeeks
    /\ seek_data \in [DOMAIN seek_data -> SeekDatas]
    /\ DOMAIN seek_data = Range(m_seek_completion_handler) \ {None}
    /\ m_pause_updates \in BOOLEAN
    /\ enabled \subseteq Providers

\* When the seeking state is left, the tracks are where the clock is: a fast
\* seek takes the audio to the keyframe of the video, and no result of an
\* overtaken seek, of either provider and in whatever mode, ends the latest
\* (process_seek_on_main_thread(), possibly_complete_seek()); nor does any
\* come when the seeking state has been left, which its
\* as<SeekingStateHandler>() asserts.
InSync ==
    /\ ~ crashed
    /\ state # "Seeking" => \A p \in enabled : position[p] = time

\* What the user last asked for is what the manager does, or goes back to: a
\* seek, a second seek in it, or buffering does not lose a play() or pause()
\* in between; and the display is frozen just during seeks.
PlaysAsAsked ==
    /\ is_playing = asked
    /\ m_pause_updates = (state = "Seeking")

\* A read is only aborted for a seek that the thread has not yet taken up
\* (abort(), reset_abort()): no other read fails because of it.
AbortedForASeek ==
    \A p \in Providers : m_aborted[p] =>
        /\ HasSeek(p)
        /\ thread[p] = "seeking" => m_seek_id[p] # local[p].id

\* The variables have their types, and a read is only aborted for a seek.
Inv == TypeOK /\ AbortedForASeek

\* A seek ends: the seeking state is left, unless the seek failed, or a thread
\* went to sleep after it looked for seeks and before this one came.
SeekEnds ==
    []<>(state = "Seeking" =>
            \/ \E p \in Providers : m_is_in_error_state[p]
            \/ \E p \in Providers : thread[p] = "waiting" /\ ~ woken[p] /\ HasSeek(p))
=============================================================================
