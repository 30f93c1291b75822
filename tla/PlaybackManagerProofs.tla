----------------------- MODULE PlaybackManagerProofs -----------------------
(***************************************************************************)
(* Theorems about PlaybackManager, for every number of seeks, every mode   *)
(* and every length of the queues: the invariant of the providers, that    *)
(* the manager plays as it was asked to, and that the tracks are in sync   *)
(* when a seek has ended.                                                  *)
(***************************************************************************)
EXTENDS PlaybackManager, SequenceTheorems, TLAPS

-----------------------------------------------------------------------------
(* The manager plays as it was asked to. *)

States == {"Paused", "Playing", "Buffering", "Seeking"}

(* PlaysAsAsked with the types that it needs is inductive.                 *)
PlayInv ==
    /\ state \in States
    /\ m_playing \in BOOLEAN /\ asked \in BOOLEAN /\ m_pause_updates \in BOOLEAN
    /\ PlaysAsAsked

playVars == <<state, m_playing, asked, m_pause_updates>>

(* The end of a seek resumes what the seek interrupted.                    *)
LEMMA SeekResumes ==
    ASSUME PlayInv, NEW d, possibly_complete_seek(d), UNCHANGED <<m_playing, asked>>
    PROVE  PlayInv'
<1> DEFINE current == d.completed = d.in_flight /\ state = "Seeking" /\ m_current_seek_id = d.id
<1>1. CASE current
    BY <1>1, Zenon DEF PlayInv, PlaysAsAsked, is_playing, States, possibly_complete_seek
<1>2. CASE ~ current
    BY <1>2, Zenon DEF PlayInv, PlaysAsAsked, is_playing, States, possibly_complete_seek
<1> QED BY <1>1, <1>2

(* The callback that a provider deferred keeps PlayInv.                    *)
LEMMA ProcessSeekPlays ==
    ASSUME PlayInv, process_seek
    PROVE  PlayInv'
<1> DEFINE e == Head(deferred)
           n == m_seek_completion_handler[e.provider]
           taken == [m_seek_completion_handler EXCEPT ![e.provider] = None]
<1>1. UNCHANGED <<m_playing, asked>>
    BY Zenon DEF process_seek
<1>2. \/ CompletionHandler(n, e.provider, e.time, taken)
      \/ UNCHANGED <<state, m_pause_updates>>
    BY Zenon DEF process_seek
<1>3. CASE CompletionHandler(n, e.provider, e.time, taken)
    <2> HIDE DEF e, n, taken
    <2>1. PICK d : possibly_complete_seek(d)
        BY <1>3, Zenon DEF CompletionHandler
    <2> QED BY <2>1, <1>1, SeekResumes
<1>4. CASE UNCHANGED <<state, m_pause_updates>>
    BY <1>4, <1>1 DEF PlayInv, PlaysAsAsked, is_playing
<1> QED BY <1>2, <1>3, <1>4

(* Every step keeps PlayInv.                                               *)
LEMMA PlayStep == PlayInv /\ [Next]_vars => PlayInv'
<1> SUFFICES ASSUME PlayInv, [Next]_vars PROVE PlayInv'
    OBVIOUS
<1>1. CASE process_seek
    BY <1>1, ProcessSeekPlays
<1>2. CASE exit_buffering
    BY <1>2 DEF exit_buffering, PlayInv, PlaysAsAsked, is_playing, States
<1>3. ASSUME NEW mode \in Modes, manager_seek(mode) PROVE PlayInv'
    BY <1>3 DEF manager_seek, begin_seek, PlayInv, PlaysAsAsked, is_playing, States
<1>4. CASE play
    <2>1. CASE state \in {"Seeking", "Buffering"}
        BY <1>4, <2>1, Zenon DEF play, PlayInv, PlaysAsAsked, is_playing, States
    <2>2. CASE state \notin {"Seeking", "Buffering"}
        <3>1. state = "Paused" /\ m_pause_updates = FALSE
            BY <1>4, <2>2 DEF play, PlayInv, PlaysAsAsked, is_playing, States
        <3>2. state' = "Playing" /\ m_playing' = FALSE /\ m_pause_updates' = FALSE /\ asked' = TRUE
            <4>1. m_playing' = (state \in {"Seeking", "Buffering"})
                BY <1>4, Zenon DEF play
            <4>2. (state \in {"Seeking", "Buffering"}) = FALSE
                BY <2>2
            <4>3. m_playing' = FALSE
                BY <4>1, <4>2
            <4> QED BY <1>4, <3>1, <4>3 DEF play
        <3> QED BY <3>2 DEF PlayInv, PlaysAsAsked, is_playing, States
    <2> QED BY <2>1, <2>2
<1>5. CASE pause
    BY <1>5 DEF pause, PlayInv, PlaysAsAsked, is_playing, States
<1>6. CASE update
    <2>1. CASE UNCHANGED managerVars
        BY <2>1, Zenon DEF managerVars, PlayInv, PlaysAsAsked, is_playing
    <2>2. CASE state = "Playing" /\ state' = "Buffering" /\ m_playing' = TRUE
               /\ UNCHANGED <<m_pause_updates, asked>>
        BY <2>2, Zenon DEF PlayInv, PlaysAsAsked, is_playing, States
    <2> QED BY <1>6, <2>1, <2>2, Zenon DEF update
<1>7. CASE UNCHANGED playVars
    BY <1>7 DEF playVars, PlayInv, PlaysAsAsked, is_playing
<1>8. write_audio_data \/ UNCHANGED managerVars \/ UNCHANGED vars => UNCHANGED playVars
    BY DEF write_audio_data, managerVars, vars, playVars
<1> QED
    BY <1>1, <1>2, <1>3, <1>4, <1>5, <1>6, <1>7, <1>8 DEF Next, MainLoop, User

(* What the user last asked for is what the manager does or goes back to,  *)
(* and the display is frozen just during seeks, whatever seeks come,       *)
(* overtake each other or fail: play(), pause(), the state handlers'       *)
(* resuming and the end of a seek never disagree.                          *)
THEOREM PlaysOn == Spec => []PlaysAsAsked
<1>1. Init => PlayInv
    BY DEF Init, PlayInv, PlaysAsAsked, is_playing, States
<1>2. PlayInv => PlaysAsAsked
    BY DEF PlayInv
<1> QED BY <1>1, <1>2, PlayStep, PTL DEF Spec

(***************************************************************************)
(* The inductive invariant.                                                *)
(***************************************************************************)

(* A provider's ids: what is processed, then what the thread is at, then   *)
(* the latest.  What it is at is the latest seek if the ids agree.         *)
ProviderOK(p) ==
    /\ m_last_processed_seek_id[p] <= m_seek_id[p]
    /\ m_seek_mode[p] # "Accurate" => m_seek_timestamp[p] >= 2
    /\ thread[p] = "seeking" =>
           /\ m_last_processed_seek_id[p] < local[p].id
           /\ local[p].id <= m_seek_id[p]
           /\ local[p].mode # "Accurate" => local[p].timestamp >= 2
           /\ local[p].id = m_seek_id[p] =>
                  local[p].timestamp = m_seek_timestamp[p] /\ local[p].mode = m_seek_mode[p]

(* Where the latest seek of a provider may end.                            *)
Resolves(p, t) ==
    \/ t = m_seek_timestamp[p]
    \/ p = "video" /\ m_seek_mode[p] # "Accurate" /\ t + 1 >= m_seek_timestamp[p]

(* A deferred outcome is about a seek that is processed; the last one says *)
(* where the provider is, the latest where it was to go.                   *)
Entries == [provider : Providers, id : Nat, ok : BOOLEAN, time : Nat]

EntryOK(e) ==
    /\ e.id <= m_last_processed_seek_id[e.provider]
    /\ e.ok /\ e.id = m_last_processed_seek_id[e.provider] => position[e.provider] = e.time
    /\ e.ok /\ e.id = m_seek_id[e.provider] => Resolves(e.provider, e.time)

(* A provider with a completion handler is on its way: the video for the   *)
(* latest seek of the user, the audio for it or for an earlier one.        *)
HandlerOK(p, n) ==
    LET d == seek_data[n]
    IN  /\ state = "Seeking" /\ p \in enabled /\ 1 <= n /\ n <= seeks
        /\ p \notin d.completed
        /\ p = "video" =>
               /\ n = seeks /\ m_seek_timestamp[p] = 2 * n
               /\ d.mode = "Accurate" => m_seek_mode[p] = "Accurate"
               /\ d.mode # "Accurate" => d.chosen = 0 /\ d.completed = {}
        /\ p = "audio" =>
               /\ m_seek_timestamp[p] = d.chosen
               /\ d.mode # "Accurate" => "video" \in d.completed

(* The tracks that have completed the latest seek are there, and stay.     *)
DataOK(n) ==
    LET d == seek_data[n]
    IN  /\ d.in_flight = enabled /\ d.completed \subseteq enabled
        /\ d.mode = "Accurate" => d.chosen = 2 * n
        /\ n < seeks => d.id < m_current_seek_id
        /\ n = seeks =>
               /\ d.id = m_current_seek_id
               /\ \A p \in d.completed :
                      /\ m_seek_completion_handler[p] = None
                      /\ m_last_processed_seek_id[p] = m_seek_id[p]
                      /\ position[p] = d.chosen

(* When the seeking state is left, every track is at the time.             *)
Arrived ==
    state # "Seeking" =>
        \A p \in enabled : m_last_processed_seek_id[p] = m_seek_id[p] /\ position[p] = time

EntriesOK == \A k \in DOMAIN deferred, e \in Entries : deferred[k] = e => EntryOK(e)

SeeksOK ==
    /\ "video" \in enabled
    /\ \A p \in Providers, n \in Nat : m_seek_completion_handler[p] = n => HandlerOK(p, n)
    /\ \A n \in DOMAIN seek_data : DataOK(n)
    /\ Arrived

(* The types of what the properties are about, and of the rest.            *)
CoreTypes ==
    /\ position \in [Providers -> Nat]
    /\ m_seek_id \in [Providers -> Nat] /\ m_last_processed_seek_id \in [Providers -> Nat]
    /\ m_seek_timestamp \in [Providers -> Nat] /\ m_seek_mode \in [Providers -> SeekModes]
    /\ m_seek_completion_handler \in [Providers -> Nat \cup {None}]
    /\ m_aborted \in [Providers -> BOOLEAN]
    /\ thread \in [Providers -> ThreadPlaces]
    /\ local \in [Providers -> SeekRecords \cup {None}]
    /\ \A p \in Providers : local[p] # None <=> thread[p] = "seeking"
    /\ deferred \in Seq(Entries)
    /\ m_current_seek_id \in Nat /\ time \in Nat
    /\ seeks \in 0 .. MaxSeeks
    /\ seek_data \in [DOMAIN seek_data -> SeekDatas]
    /\ DOMAIN seek_data = Range(m_seek_completion_handler) \ {None}
    /\ enabled \subseteq Providers

OtherTypes ==
    /\ m_queue \in [Providers -> 0 .. m_queue_max_size]
    /\ m_is_in_error_state \in [Providers -> BOOLEAN]
    /\ woken \in [Providers -> BOOLEAN]
    /\ caller \in [Providers -> {"loop", "failed", "full"}]
    /\ enough \in BOOLEAN
    /\ full \subseteq VideoProviders
    /\ state \in States
    /\ m_playing \in BOOLEAN /\ asked \in BOOLEAN /\ m_pause_updates \in BOOLEAN

Core ==
    /\ CoreTypes
    /\ AbortedForASeek
    /\ crashed = FALSE
    /\ \A p \in Providers : ProviderOK(p)
    /\ EntriesOK
    /\ SeeksOK

IInv == PlaysAsAsked /\ OtherTypes /\ Core

-----------------------------------------------------------------------------
(* Steps that leave most of it alone. *)

coreVars == <<position, m_seek_id, m_last_processed_seek_id, m_seek_timestamp, m_seek_mode,
              m_seek_completion_handler, m_aborted, thread, local, m_current_seek_id, seeks,
              seek_data, time, enabled, crashed>>

(* A step that neither seeks nor ends a seek keeps Core: play(), pause(),  *)
(* buffering and the queues.                                               *)
LEMMA OtherStep ==
    ASSUME Core, UNCHANGED coreVars, UNCHANGED deferred,
           state' = "Seeking" <=> state = "Seeking"
    PROVE  Core'
<1>1. CoreTypes' /\ AbortedForASeek' /\ crashed' = FALSE
    BY DEF Core, coreVars, CoreTypes, AbortedForASeek, HasSeek
<1>2. \A p \in Providers : ProviderOK(p)'
    BY DEF Core, coreVars, ProviderOK
<1>3. EntriesOK'
    BY DEF Core, EntriesOK, coreVars, EntryOK, Resolves
<1>4. SeeksOK'
    BY DEF Core, coreVars, SeeksOK, HandlerOK, DataOK, Arrived
<1> QED BY <1>1, <1>2, <1>3, <1>4 DEF Core

(* The callback of an overtaken seek is dropped.                           *)
LEMMA StaleStep ==
    ASSUME Core, UNCHANGED coreVars, UNCHANGED state, deferred # <<>>,
           deferred' = Tail(deferred)
    PROVE  Core'
<1>1. deferred \in Seq(Entries)
    BY DEF Core, CoreTypes
<1>2. /\ deferred' \in Seq(Entries)
      /\ \A k \in DOMAIN deferred' : k + 1 \in DOMAIN deferred /\ deferred'[k] = deferred[k + 1]
    BY <1>1
<1>3. CoreTypes' /\ AbortedForASeek' /\ crashed' = FALSE
    BY <1>2 DEF Core, coreVars, CoreTypes, AbortedForASeek, HasSeek
<1>4. \A p \in Providers : ProviderOK(p)'
    BY DEF Core, coreVars, ProviderOK
<1>5. \A e : EntryOK(e) => EntryOK(e)'
    BY DEF coreVars, EntryOK, Resolves
<1>6. EntriesOK'
    BY <1>2, <1>5 DEF Core, EntriesOK
<1>7. SeeksOK'
    BY DEF Core, coreVars, SeeksOK, HandlerOK, DataOK, Arrived
<1> QED BY <1>3, <1>4, <1>6, <1>7 DEF Core

-----------------------------------------------------------------------------
(* The thread. *)

(* The thread goes on, with no seek taken up or ended.                     *)
GoesOn(p, place) ==
    /\ place \in ThreadPlaces \ {"seeking"}
    /\ thread[p] # "seeking"
    /\ Set(thread, p, place)
    /\ UNCHANGED <<local, m_aborted, m_seek_id, m_seek_mode>>
    /\ NoSeekCompleted
    /\ UNCHANGED managerVars

(* The thread takes up the latest seek, or makes it an accurate one.       *)
TakesUp(p, id, mode) ==
    /\ HasSeek(p)
    /\ id \in Nat /\ m_seek_id[p] <= id
    /\ mode = m_seek_mode[p] \/ (mode = "Accurate" /\ m_seek_id[p] < id)
    /\ m_seek_id' = [m_seek_id EXCEPT ![p] = id]
    /\ m_seek_mode' = [m_seek_mode EXCEPT ![p] = mode]
    /\ local' = [local EXCEPT ![p] = [id |-> id, timestamp |-> m_seek_timestamp[p], mode |-> mode]]
    /\ thread' = [thread EXCEPT ![p] = "seeking"]
    /\ m_aborted' = [m_aborted EXCEPT ![p] = FALSE]
    /\ NoSeekCompleted
    /\ UNCHANGED managerVars

(* A seek ends, at the time t if it succeeds.                              *)
Ends(p, ok, t) ==
    /\ thread[p] = "seeking"
    /\ ok \in BOOLEAN /\ t \in Nat
    /\ ok => \/ t = local[p].timestamp
             \/ p = "video" /\ local[p].mode # "Accurate" /\ t + 1 >= local[p].timestamp
    /\ position' = IF ok THEN [position EXCEPT ![p] = t] ELSE position
    /\ ReturnTrue(p, ok, t)
    /\ UNCHANGED managerVars

(* A thread that goes on keeps Core.                                       *)
LEMMA GoesOnStep ==
    ASSUME Core, NEW p \in Providers, NEW place, GoesOn(p, place)
    PROVE  Core'
<1>1. /\ thread' = [thread EXCEPT ![p] = place] /\ place \in ThreadPlaces \ {"seeking"}
      /\ thread[p] # "seeking"
      /\ UNCHANGED <<position, m_seek_id, m_last_processed_seek_id, m_seek_timestamp, m_seek_mode,
              m_seek_completion_handler, m_aborted, local, m_current_seek_id, seeks,
              seek_data, time, enabled, crashed, deferred, state>>
    BY DEF GoesOn, NoSeekCompleted, managerVars, Set
<1>2. CoreTypes' /\ AbortedForASeek' /\ crashed' = FALSE
    BY <1>1 DEF Core, CoreTypes, AbortedForASeek, HasSeek, ThreadPlaces
<1>3. \A q \in Providers : ProviderOK(q)'
    BY <1>1 DEF Core, CoreTypes, ProviderOK
<1>4. EntriesOK'
    BY <1>1 DEF Core, EntriesOK, EntryOK, Resolves
<1>5. SeeksOK'
    BY <1>1 DEF Core, SeeksOK, HandlerOK, DataOK, Arrived
<1> QED BY <1>2, <1>3, <1>4, <1>5 DEF Core

(* A thread that takes up a seek keeps Core: nothing is known of a seek    *)
(* that is not processed.                                                  *)
LEMMA TakesUpStep ==
    ASSUME Core, NEW p \in Providers, NEW id, NEW mode, TakesUp(p, id, mode)
    PROVE  Core'
<1> DEFINE r == [id |-> id, timestamp |-> m_seek_timestamp[p], mode |-> mode]
<1>1. /\ thread' = [thread EXCEPT ![p] = "seeking"] /\ m_aborted' = [m_aborted EXCEPT ![p] = FALSE]
      /\ m_seek_id' = [m_seek_id EXCEPT ![p] = id]
      /\ m_seek_mode' = [m_seek_mode EXCEPT ![p] = mode]
      /\ local' = [local EXCEPT ![p] = r]
      /\ UNCHANGED <<position, m_last_processed_seek_id, m_seek_timestamp,
              m_seek_completion_handler, m_current_seek_id, seeks,
              seek_data, time, enabled, crashed, deferred, state>>
    BY DEF TakesUp, NoSeekCompleted, managerVars
<1>2. /\ id \in Nat /\ mode \in SeekModes /\ m_seek_timestamp[p] \in Nat
      /\ m_seek_id[p] <= id /\ m_last_processed_seek_id[p] < m_seek_id[p]
      /\ mode = m_seek_mode[p] \/ (mode = "Accurate" /\ m_seek_id[p] < id)
      /\ m_seek_id[p] \in Nat /\ m_last_processed_seek_id[p] \in Nat
    BY DEF TakesUp, Core, CoreTypes, ProviderOK, HasSeek, SeekModes
<1>3. r \in SeekRecords /\ r # None /\ r.id = id /\ r.timestamp = m_seek_timestamp[p] /\ r.mode = mode
    BY <1>2, DataProviderAssumption DEF SeekRecords
<1> HIDE DEF r
<1>4. CoreTypes' /\ crashed' = FALSE
    BY <1>1, <1>2, <1>3 DEF Core, CoreTypes, ThreadPlaces
<1>5. AbortedForASeek'
    BY <1>1, <1>2, <1>3 DEF Core, CoreTypes, AbortedForASeek, HasSeek
<1>6. \A q \in Providers : ProviderOK(q)'
    BY <1>1, <1>2, <1>3 DEF Core, CoreTypes, ProviderOK
<1>7. EntriesOK'
    <2>1. ASSUME NEW f \in Entries, EntryOK(f) PROVE EntryOK(f)'
        <3>1. f.provider \in Providers /\ f.id \in Nat
            BY DEF Entries
        <3> QED BY <2>1, <3>1, <1>1, <1>2 DEF Core, CoreTypes, EntryOK, Resolves
    <2> QED BY <2>1, <1>1 DEF Core, EntriesOK
<1>8. SeeksOK'
    <2>1. ASSUME NEW q \in Providers, NEW n \in Nat, m_seek_completion_handler'[q] = n
          PROVE  HandlerOK(q, n)'
        <3>1. HandlerOK(q, n)
            BY <2>1, <1>1 DEF Core, SeeksOK
        <3>2. m_seek_mode[q] = "Accurate" => m_seek_mode'[q] = "Accurate"
            BY <1>1, <1>2 DEF Core, CoreTypes
        <3> QED BY <3>1, <3>2, <1>1 DEF HandlerOK
    <2>2. \A n \in DOMAIN seek_data' : DataOK(n)'
        BY <1>1, <1>2 DEF Core, CoreTypes, SeeksOK, DataOK
    <2>3. Arrived'
        BY <1>1, <1>2 DEF Core, CoreTypes, SeeksOK, Arrived
    <2> QED BY <1>1, <2>1, <2>2, <2>3 DEF SeeksOK, Core
<1> QED BY <1>1, <1>4, <1>5, <1>6, <1>7, <1>8 DEF Core

(* A thread that has processed a seek keeps Core: its outcome is the last  *)
(* in the queue, and says where the provider is.                           *)
LEMMA EndsStep ==
    ASSUME Core, NEW p \in Providers, NEW ok, NEW t, Ends(p, ok, t)
    PROVE  Core'
<1> DEFINE e == [provider |-> p, id |-> local[p].id, ok |-> ok, time |-> t]
           place == IF caller[p] = "loop" THEN "push" ELSE "loop"
           id == local[p].id
<1>1. /\ thread' = [thread EXCEPT ![p] = place]
      /\ m_last_processed_seek_id' = [m_last_processed_seek_id EXCEPT ![p] = id]
      /\ local' = [local EXCEPT ![p] = None]
      /\ deferred' = Append(deferred, e)
      /\ position' = IF ok THEN [position EXCEPT ![p] = t] ELSE position
      /\ UNCHANGED <<m_seek_id, m_seek_timestamp, m_seek_mode, m_aborted,
              m_seek_completion_handler, m_current_seek_id, seeks,
              seek_data, time, enabled, crashed, state>>
    BY DEF Ends, ReturnTrue, seekVars, managerVars, Set
<1>2. /\ local[p] \in SeekRecords
      /\ id \in Nat /\ m_last_processed_seek_id[p] < id /\ id <= m_seek_id[p]
      /\ m_last_processed_seek_id[p] \in Nat /\ m_seek_id[p] \in Nat
      /\ id = m_seek_id[p] =>
             local[p].timestamp = m_seek_timestamp[p] /\ local[p].mode = m_seek_mode[p]
    BY DEF Ends, Core, CoreTypes, ProviderOK, SeekRecords
<1>3. place \in ThreadPlaces \ {"seeking"}
    BY DEF ThreadPlaces
<1>4. /\ e \in Entries
      /\ e.provider = p /\ e.id = id /\ e.time = t
      /\ e.ok => ok
    BY <1>2, Zenon DEF Entries, Ends
<1>5. t \in Nat /\ ok \in BOOLEAN
    BY DEF Ends
<1>6. e.ok /\ id = m_seek_id[p] => Resolves(p, t)
    BY <1>2, <1>4 DEF Ends, Resolves
<1> HIDE DEF place, e, id
<1>7. deferred \in Seq(Entries)
    BY DEF Core, CoreTypes
<1>8. /\ deferred' \in Seq(Entries)
      /\ \A k \in DOMAIN deferred' : deferred'[k] = e \/ (k \in DOMAIN deferred /\ deferred'[k] = deferred[k])
    BY <1>1, <1>4, <1>7, AppendProperties
<1>9. CoreTypes' /\ crashed' = FALSE
    BY <1>1, <1>2, <1>3, <1>5, <1>8, DataProviderAssumption DEF Core, CoreTypes
<1>10. AbortedForASeek'
    BY <1>1, <1>2, <1>3 DEF Core, CoreTypes, AbortedForASeek, HasSeek, Ends, id
<1>11. \A q \in Providers : ProviderOK(q)'
    BY <1>1, <1>2, <1>3 DEF Core, CoreTypes, ProviderOK
<1>13. EntriesOK'
    <2>1. ASSUME NEW f \in Entries, EntryOK(f) PROVE EntryOK(f)'
        <3>1. f.provider \in Providers /\ f.id \in Nat
            BY DEF Entries
        <3> QED BY SMTT(30), <2>1, <3>1, <1>1, <1>2, <1>5 DEF Core, CoreTypes, EntryOK, Resolves
    <2>2. ASSUME NEW f, f = e PROVE EntryOK(f)'
        BY <2>2, <1>1, <1>2, <1>4, <1>5, <1>6 DEF Core, CoreTypes, EntryOK, Resolves
    <2> QED BY <2>1, <2>2, <1>8 DEF Core, EntriesOK
<1>14. SeeksOK'
    <2>1. \A q \in Providers, n \in Nat : m_seek_completion_handler'[q] = n => HandlerOK(q, n)'
        BY <1>1 DEF Core, SeeksOK, HandlerOK
    <2>2. \A n \in DOMAIN seek_data' : DataOK(n)'
        BY <1>1, <1>2, <1>5 DEF Core, CoreTypes, SeeksOK, DataOK
    <2>3. Arrived'
        BY <1>1, <1>2, <1>5 DEF Core, CoreTypes, SeeksOK, Arrived
    <2> QED BY <1>1, <2>1, <2>2, <2>3 DEF SeeksOK, Core
<1> QED BY <1>8, <1>9, <1>10, <1>11, <1>13, <1>14 DEF Core

(* Whoever calls handle_seek(): it takes up a seek, or there is none and   *)
(* the caller goes on.                                                     *)
LEMMA HandleSeekStep ==
    ASSUME Core, NEW p \in Providers, NEW from, NEW place \in ThreadPlaces \ {"seeking"},
           thread[p] # "seeking", handle_seek(p, from, place),
           NoSeekCompleted, UNCHANGED <<m_seek_id, m_seek_mode>>, UNCHANGED managerVars
    PROVE  Core'
<1>1. m_seek_id \in [Providers -> Nat] /\ m_seek_mode \in [Providers -> SeekModes]
    BY DEF Core, CoreTypes
<1>2. /\ m_seek_id' = [m_seek_id EXCEPT ![p] = m_seek_id[p]]
      /\ m_seek_mode' = [m_seek_mode EXCEPT ![p] = m_seek_mode[p]]
    BY <1>1 DEF Set
<1>3. CASE HasSeek(p)
    <2>1. PICK id \in Nat, mode \in SeekModes : id = m_seek_id[p] /\ mode = m_seek_mode[p]
        BY <1>1
    <2>2. /\ m_seek_id' = [m_seek_id EXCEPT ![p] = id]
          /\ m_seek_mode' = [m_seek_mode EXCEPT ![p] = mode]
        BY <1>1, <2>1
    <2>3. TakeUpSeek(p, m_seek_id[p], m_seek_mode[p])
        BY <1>3 DEF handle_seek
    <2>4. /\ local' = [local EXCEPT ![p] = [id |-> id, timestamp |-> m_seek_timestamp[p], mode |-> mode]]
          /\ thread' = [thread EXCEPT ![p] = "seeking"]
          /\ m_aborted' = [m_aborted EXCEPT ![p] = FALSE]
        BY <2>1, <2>3 DEF TakeUpSeek, Set
    <2>5. m_seek_id[p] <= id
        BY <2>1
    <2>6. TakesUp(p, id, mode)
        BY <1>3, <2>1, <2>2, <2>4, <2>5, Zenon DEF TakesUp
    <2> QED BY <2>6, TakesUpStep
<1>4. CASE ~ HasSeek(p)
    <2>1. GoesOn(p, place)
        BY <1>4 DEF GoesOn, handle_seek
    <2> QED BY <2>1, GoesOnStep
<1> QED BY <1>3, <1>4

(* A frame is offered to the queue, by the thread or when it is woken.     *)
LEMMA OfferFrameStep ==
    ASSUME Core, NEW p \in Providers, thread[p] # "seeking", OfferFrame(p),
           NoSeekCompleted, UNCHANGED <<m_seek_id, m_seek_mode>>, UNCHANGED managerVars
    PROVE  Core'
<1>1. {"push", "wait"} \subseteq ThreadPlaces \ {"seeking"}
    BY DEF ThreadPlaces
<1>2. CASE Set(thread, p, "push") /\ UNCHANGED <<local, m_aborted>>
    <2>1. GoesOn(p, "push")
        BY <1>1, <1>2 DEF GoesOn
    <2> QED BY <2>1, GoesOnStep
<1>3. CASE handle_seek(p, "full", "wait")
    BY <1>1, <1>3, HandleSeekStep
<1> QED BY <1>2, <1>3 DEF OfferFrame

(* The end of a seek: the time is one that the seek may end at.            *)
LEMMA ResolveSeekStep ==
    ASSUME Core, NEW p \in Providers, resolve_seek(p), UNCHANGED managerVars
    PROVE  Core'
<1>1. PICK t \in resolved_times(p) : ReturnTrue(p, TRUE, t) /\ Set(position, p, t)
    BY Zenon DEF resolve_seek
<1>2. thread[p] = "seeking" /\ local[p] \in SeekRecords /\ ProviderOK(p)
    BY DEF resolve_seek, Core, CoreTypes
<1>3. /\ local[p].timestamp \in Nat
      /\ local[p].mode # "Accurate" => local[p].timestamp >= 2
    BY <1>2 DEF SeekRecords, ProviderOK
<1>4. /\ t \in Nat
      /\ \/ t = local[p].timestamp
         \/ p = "video" /\ local[p].mode # "Accurate" /\ t + 1 >= local[p].timestamp
    BY <1>1, <1>3, PlaybackAssumption DEF resolved_times
<1>5. Ends(p, TRUE, t)
    BY <1>1, <1>2, <1>4 DEF Ends, Set
<1> QED BY <1>5, EndsStep

(* Every step of a provider's thread keeps Core.                           *)
LEMMA ThreadStep ==
    ASSUME Core, NEW p \in Providers, ProviderThread(p), UNCHANGED managerVars
    PROVE  Core'
<1>1. {"push", "wait", "waiting"} \subseteq ThreadPlaces \ {"seeking"}
    BY DEF ThreadPlaces
<1>2. /\ m_seek_id \in [Providers -> Nat] /\ m_seek_mode \in [Providers -> SeekModes]
      /\ m_last_processed_seek_id \in [Providers -> Nat]
    BY DEF Core, CoreTypes
<1>3. thread[p] = "seeking" => HasSeek(p)
    BY <1>2 DEF Core, CoreTypes, ProviderOK, HasSeek, SeekRecords
<1>4. CASE Loop(p)
    BY <1>1, <1>4, HandleSeekStep DEF Loop
<1>5. CASE resolve_seek(p)
    BY <1>5, ResolveSeekStep
<1>6. CASE handle_error(p)
    <2>1. Ends(p, FALSE, 0)
        BY <1>6 DEF handle_error, Ends
    <2> QED BY <2>1, EndsStep
<1>7. CASE RestartSeek(p)
    <2>1. /\ m_seek_id' = [m_seek_id EXCEPT ![p] = m_seek_id[p]]
      /\ m_seek_mode' = [m_seek_mode EXCEPT ![p] = m_seek_mode[p]]
        BY <1>2, <1>7 DEF Set, RestartSeek
    <2>2. PICK id \in Nat, mode \in SeekModes : id = m_seek_id[p] /\ mode = m_seek_mode[p]
        BY <1>2
    <2>3. /\ m_seek_id' = [m_seek_id EXCEPT ![p] = id]
          /\ m_seek_mode' = [m_seek_mode EXCEPT ![p] = mode]
        BY <2>1, <2>2
    <2>4. /\ local' = [local EXCEPT ![p] = [id |-> id, timestamp |-> m_seek_timestamp[p], mode |-> mode]]
          /\ thread' = [thread EXCEPT ![p] = "seeking"]
          /\ m_aborted' = [m_aborted EXCEPT ![p] = FALSE]
        BY <1>7, <2>2 DEF RestartSeek, TakeUpSeek, Set
    <2>5. m_seek_id[p] <= id
        BY <2>2
    <2>6. TakesUp(p, id, mode)
        BY <1>3, <1>7, <2>2, <2>3, <2>4, <2>5, Zenon DEF TakesUp, RestartSeek
    <2> QED BY <2>6, TakesUpStep
<1>8. CASE NothingAfter(p)
    <2>1. PICK id \in Nat : id = m_seek_id[p] + 1
        BY <1>2
    <2>2. TakesUp(p, id, "Accurate")
        BY <1>2, <1>3, <1>8, <2>1 DEF TakesUp, NothingAfter, TakeUpSeek, Set
    <2> QED BY <2>2, TakesUpStep
<1>9. CASE push_data_and_decode_some_frames(p)
    <2>1. /\ thread[p] # "seeking" /\ NoSeekCompleted /\ UNCHANGED <<m_seek_id, m_seek_mode>>
          /\ \/ handle_seek(p, "loop", "push")
             \/ OfferFrame(p)
             \/ WaitForSeek(p)
        BY <1>9 DEF push_data_and_decode_some_frames
    <2>2. CASE handle_seek(p, "loop", "push")
        BY <1>1, <2>1, <2>2, HandleSeekStep
    <2>3. CASE WaitForSeek(p)
        BY <1>1, <2>1, <2>3, HandleSeekStep DEF WaitForSeek
    <2>4. CASE OfferFrame(p)
        BY <2>1, <2>4, OfferFrameStep
    <2> QED BY <2>1, <2>2, <2>3, <2>4
<1>10. CASE Wait(p)
    <2>1. GoesOn(p, "waiting")
        BY <1>1, <1>10 DEF GoesOn, Wait
    <2> QED BY <2>1, GoesOnStep
<1>11. CASE Wake(p)
    <2>1. /\ thread[p] # "seeking" /\ NoSeekCompleted /\ UNCHANGED <<m_seek_id, m_seek_mode>>
          /\ WaitForSeek(p) \/ OfferFrame(p)
        BY <1>11 DEF Wake
    <2>2. CASE WaitForSeek(p)
        BY <1>1, <2>1, <2>2, HandleSeekStep DEF WaitForSeek
    <2>3. CASE OfferFrame(p)
        BY <2>1, <2>3, OfferFrameStep
    <2> QED BY <2>1, <2>2, <2>3
<1> QED
    BY <1>4, <1>5, <1>6, <1>7, <1>8, <1>9, <1>10, <1>11 DEF ProviderThread

-----------------------------------------------------------------------------
(* Seeks. *)

(* What a reference to a SeekData keeps of the others.                     *)
LEMMA Referred ==
    ASSUME NEW n, NEW d, Refer(n, d)
    PROVE  /\ DOMAIN seek_data' = Range(m_seek_completion_handler') \ {None}
           /\ \A k \in DOMAIN seek_data' : seek_data'[k] = IF k = n THEN d ELSE seek_data[k]
           /\ seek_data' = [k \in DOMAIN seek_data' |-> seek_data'[k]]
BY DEF Refer

(* What every call of seek() does and keeps, for whichever providers: the  *)
(* older seeks are not the latest any more.                                *)
Called(ps, n, t, mode, kept) ==
    /\ m_seek_id' \in [Providers -> Nat] /\ m_seek_timestamp' \in [Providers -> Nat]
    /\ m_seek_completion_handler' \in [Providers -> Nat \cup {None}]
    /\ m_seek_mode' \in [Providers -> SeekModes] /\ m_aborted' \in [Providers -> BOOLEAN]
    /\ \A p \in Providers :
           /\ p \in ps =>
                  /\ m_seek_id'[p] = m_seek_id[p] + 1 /\ m_seek_completion_handler'[p] = n
                  /\ m_seek_timestamp'[p] = t /\ m_seek_mode'[p] = mode
           /\ p \notin ps =>
                  /\ m_seek_id'[p] = m_seek_id[p] /\ m_seek_completion_handler'[p] = kept[p]
                  /\ m_seek_timestamp'[p] = m_seek_timestamp[p]
                  /\ m_seek_mode'[p] = m_seek_mode[p]
    /\ AbortedForASeek'
    /\ \A p \in Providers : ProviderOK(p)'
    /\ \A f \in Entries : EntryOK(f) => EntryOK(f)'

(* A call of seek() by the main thread does just that.                     *)
LEMMA SeekCall ==
    ASSUME Core, NEW ps \in SUBSET Providers, NEW n \in Nat, NEW t \in Nat, NEW mode \in SeekModes,
           mode # "Accurate" => t >= 2,
           NEW kept \in [Providers -> Nat \cup {None}],
           seek(ps, n, t, mode, kept),
           UNCHANGED <<position, m_last_processed_seek_id, thread, local>>
    PROVE  Called(ps, n, t, mode, kept)
<1>1. \A p \in Providers :
          /\ p \in ps =>
                 /\ m_seek_id'[p] = m_seek_id[p] + 1 /\ m_seek_completion_handler'[p] = n
                 /\ m_seek_timestamp'[p] = t /\ m_seek_mode'[p] = mode
          /\ p \notin ps =>
                 /\ m_seek_id'[p] = m_seek_id[p] /\ m_seek_completion_handler'[p] = kept[p]
                 /\ m_seek_timestamp'[p] = m_seek_timestamp[p]
                 /\ m_seek_mode'[p] = m_seek_mode[p]
                 /\ m_aborted'[p] = (p \in ps \/ m_aborted[p])
    BY DEF seek
<1>2. /\ m_seek_id' \in [Providers -> Nat] /\ m_seek_completion_handler' \in [Providers -> Nat \cup {None}]
      /\ m_seek_timestamp' \in [Providers -> Nat] /\ m_seek_mode' \in [Providers -> SeekModes]
      /\ m_aborted' \in [Providers -> BOOLEAN]
    BY DEF seek, Core, CoreTypes
<1>3. ASSUME NEW p \in Providers
      PROVE  /\ ProviderOK(p) /\ m_seek_id[p] \in Nat /\ m_last_processed_seek_id[p] \in Nat
             /\ thread[p] = "seeking" => local[p].id \in Nat
    BY DEF Core, CoreTypes, SeekRecords
<1>4. AbortedForASeek'
    <2> SUFFICES ASSUME NEW p \in Providers, m_aborted'[p]
                 PROVE  /\ m_last_processed_seek_id[p] # m_seek_id'[p]
                        /\ thread[p] = "seeking" => m_seek_id'[p] # local[p].id
        BY DEF AbortedForASeek, HasSeek
    <2>1. CASE p \in ps
        BY <2>1, <1>1, <1>3 DEF ProviderOK
    <2>2. CASE p \notin ps
        BY <2>2, <1>1 DEF Core, AbortedForASeek, HasSeek
    <2> QED BY <2>1, <2>2
<1>5. ASSUME NEW p \in Providers PROVE ProviderOK(p)'
    <2>1. CASE p \in ps
        BY <2>1, <1>1, <1>3 DEF ProviderOK
    <2>2. CASE p \notin ps
        BY <2>2, <1>1, <1>3 DEF ProviderOK
    <2> QED BY <2>1, <2>2
<1>6. ASSUME NEW f \in Entries, EntryOK(f) PROVE EntryOK(f)'
    <2>1. f.provider \in Providers /\ f.id \in Nat
        BY DEF Entries
    <2>2. CASE f.provider \in ps
        BY <2>1, <2>2, <1>1, <1>3, <1>6 DEF EntryOK, ProviderOK
    <2>3. CASE f.provider \notin ps
        BY <2>1, <2>3, <1>1, <1>6 DEF EntryOK, Resolves
    <2> QED BY <2>2, <2>3
<1> QED BY <1>1, <1>2, <1>4, <1>5, <1>6 DEF Called

(* PlaybackManager::seek() keeps Core: the video is on its way to the new  *)
(* seek, the audio too, or still to an earlier one.                        *)
LEMMA SeekStep ==
    ASSUME Core, NEW mode \in Modes, manager_seek(mode)
    PROVE  Core'
<1> DEFINE n == seeks + 1
           id == IF state = "Seeking" THEN m_current_seek_id + 1 ELSE 1
           ps == IF mode = "Accurate" THEN enabled ELSE enabled \cap VideoProviders
           d == [id |-> id, mode |-> mode, chosen |-> IF mode = "Accurate" THEN 2 * n ELSE 0,
                 in_flight |-> enabled, completed |-> {}]
<1>1. /\ n \in Nat /\ n \in 1 .. MaxSeeks /\ id \in Nat /\ mode \in SeekModes
      /\ seeks \in Nat /\ n = seeks + 1 /\ m_current_seek_id \in Nat
    BY PlaybackAssumption DEF manager_seek, Core, CoreTypes
<1>2. /\ "video" \in ps /\ ps \subseteq enabled
      /\ \A p \in enabled : p \in ps \/ (p = "audio" /\ mode # "Accurate")
      /\ Providers = {"video", "audio"} /\ enabled \subseteq Providers
    BY PlaybackAssumption DEF Core, CoreTypes, SeeksOK
<1>3. /\ d \in SeekDatas
      /\ d.id = id /\ d.mode = mode /\ d.in_flight = enabled /\ d.completed = {}
      /\ d.chosen = (IF mode = "Accurate" THEN 2 * n ELSE 0)
    BY <1>1, <1>2 DEF SeekDatas
<1>4. /\ seeks' = n /\ m_current_seek_id' = id /\ state' = "Seeking"
      /\ Refer(n, d)
      /\ seek(ps, n, 2 * n, mode, m_seek_completion_handler)
      /\ UNCHANGED <<position, m_last_processed_seek_id, thread, local, deferred, time, enabled,
                     crashed>>
    BY DEF manager_seek, begin_seek, threadVars
<1>5. state = "Seeking" => id = m_current_seek_id + 1
    OBVIOUS
<1> HIDE DEF n, id, ps, d
<1>6. /\ DOMAIN seek_data' = Range(m_seek_completion_handler') \ {None}
      /\ \A k \in DOMAIN seek_data' : seek_data'[k] = IF k = n THEN d ELSE seek_data[k]
      /\ seek_data' = [k \in DOMAIN seek_data' |-> seek_data'[k]]
    BY <1>4, Referred
<1>7. /\ ps \in SUBSET Providers /\ 2 * n \in Nat /\ 2 * n >= 2
      /\ m_seek_completion_handler \in [Providers -> Nat \cup {None}]
    BY SMTT(30), <1>1, <1>2 DEF Core, CoreTypes
<1>8. /\ m_seek_id' \in [Providers -> Nat] /\ m_seek_timestamp' \in [Providers -> Nat]
      /\ m_seek_completion_handler' \in [Providers -> Nat \cup {None}]
      /\ m_seek_mode' \in [Providers -> SeekModes] /\ m_aborted' \in [Providers -> BOOLEAN]
      /\ \A p \in Providers :
             /\ p \in ps =>
                    /\ m_seek_id'[p] = m_seek_id[p] + 1 /\ m_seek_completion_handler'[p] = n
                    /\ m_seek_timestamp'[p] = 2 * n /\ m_seek_mode'[p] = mode
             /\ p \notin ps =>
                    /\ m_seek_id'[p] = m_seek_id[p]
                    /\ m_seek_completion_handler'[p] = m_seek_completion_handler[p]
                    /\ m_seek_timestamp'[p] = m_seek_timestamp[p]
                    /\ m_seek_mode'[p] = m_seek_mode[p]
      /\ AbortedForASeek'
      /\ \A p \in Providers : ProviderOK(p)'
      /\ \A f \in Entries : EntryOK(f) => EntryOK(f)'
    <2>1. PICK qs \in SUBSET Providers : qs = ps
        BY <1>7
    <2>2. PICK m \in Nat : m = n
        BY <1>1
    <2>3. PICK t \in Nat : t = 2 * n
        BY <1>7
    <2>4. PICK kept \in [Providers -> Nat \cup {None}] : kept = m_seek_completion_handler
        BY <1>7
    <2>5. /\ seek(qs, m, t, mode, kept)
          /\ mode # "Accurate" => t >= 2
          /\ UNCHANGED <<position, m_last_processed_seek_id, thread, local>>
        BY <1>4, <1>7, <2>1, <2>2, <2>3, <2>4
    <2>6. Called(qs, m, t, mode, kept)
        BY <1>1, <2>5, SeekCall
    <2> QED BY <2>1, <2>2, <2>3, <2>4, <2>6 DEF Called
<1>9. \A k \in DOMAIN seek_data' : k = n \/ (k \in DOMAIN seek_data /\ k \in Nat /\ k # n /\ k <= seeks
                                             /\ state = "Seeking" /\ seek_data'[k] = seek_data[k])
    <2> SUFFICES ASSUME NEW k \in DOMAIN seek_data', k # n
                 PROVE  k \in DOMAIN seek_data /\ k \in Nat /\ k <= seeks /\ state = "Seeking"
        BY <1>6
    <2>1. PICK p \in Providers : k = m_seek_completion_handler'[p] /\ k # None
        BY <1>6, <1>8 DEF Range
    <2>2. k = m_seek_completion_handler[p]
        BY <2>1, <1>8
    <2>3. k \in Nat /\ HandlerOK(p, k)
        BY <2>1, <2>2 DEF Core, CoreTypes, SeeksOK
    <2>4. k \in DOMAIN seek_data
        BY <2>1, <2>2 DEF Core, CoreTypes, Range
    <2> QED BY <2>3, <2>4 DEF HandlerOK
<1>10. seek_data' \in [DOMAIN seek_data' -> SeekDatas]
    BY <1>3, <1>6, <1>9 DEF Core, CoreTypes
<1>11. CoreTypes' /\ crashed' = FALSE
    BY <1>1, <1>4, <1>6, <1>8, <1>10 DEF Core, CoreTypes
<1>12. EntriesOK'
    BY <1>4, <1>8 DEF Core, EntriesOK
<1>13. ASSUME NEW p \in Providers, NEW k \in Nat, m_seek_completion_handler'[p] = k
       PROVE  HandlerOK(p, k)'
    <2>0. k \in DOMAIN seek_data'
        BY <1>6, <1>8, <1>13, DataProviderAssumption DEF Range
    <2>1. CASE p \in ps
        <3>1. k = n /\ p \in enabled /\ seek_data'[k] = d
            BY <2>0, <2>1, <1>2, <1>6, <1>8, <1>13
        <3> QED BY <2>1, <3>1, <1>1, <1>2, <1>3, <1>4, <1>8, PlaybackAssumption DEF HandlerOK, ps
    <2>2. CASE p \notin ps
        <3>1. HandlerOK(p, k) /\ p = "audio"
            BY <2>2, <1>2, <1>8, <1>13 DEF Core, SeeksOK
        <3>2. k <= seeks /\ seek_data'[k] = seek_data[k]
            BY <2>0, <3>1, <1>1, <1>9 DEF HandlerOK
        <3> QED BY <2>2, <3>1, <3>2, <1>1, <1>4, <1>8 DEF HandlerOK
    <2> QED BY <2>1, <2>2
<1>14. ASSUME NEW k \in DOMAIN seek_data' PROVE DataOK(k)'
    <2>1. CASE k = n
        BY <2>1, <1>1, <1>3, <1>4, <1>6 DEF DataOK
    <2>2. CASE k # n
        <3>1. DataOK(k) /\ k \in Nat /\ k <= seeks /\ state = "Seeking" /\ seek_data'[k] = seek_data[k]
            BY <2>2, <1>9 DEF Core, SeeksOK
        <3>2. seek_data[k].id \in Nat
            BY <2>2, <1>9 DEF Core, CoreTypes, SeekDatas
        <3>3. seek_data[k].id < id
            BY <3>1, <3>2, <1>1, <1>5 DEF DataOK
        <3> QED BY <3>1, <3>3, <1>1, <1>4 DEF DataOK
    <2> QED BY <2>1, <2>2
<1>15. SeeksOK'
    BY <1>4, <1>13, <1>14 DEF SeeksOK, Arrived, Core
<1> QED BY <1>8, <1>11, <1>12, <1>15 DEF Core

(* What the queue of callbacks keeps when the first is taken.              *)
LEMMA TailEntries ==
    ASSUME Core, deferred # <<>>, deferred' = Tail(deferred),
           \A f \in Entries : EntryOK(f) => EntryOK(f)'
    PROVE  deferred' \in Seq(Entries) /\ EntriesOK'
<1>1. deferred \in Seq(Entries)
    BY DEF Core, CoreTypes
<1>2. /\ deferred' \in Seq(Entries)
      /\ \A k \in DOMAIN deferred' : k + 1 \in DOMAIN deferred /\ deferred'[k] = deferred[k + 1]
    BY <1>1
<1> QED BY <1>2 DEF Core, EntriesOK

(* The completion handler of a seek that failed is dropped.                *)
LEMMA DroppedStep ==
    ASSUME Core, deferred # <<>>, deferred' = Tail(deferred), NEW p \in Providers,
           m_seek_completion_handler' = [m_seek_completion_handler EXCEPT ![p] = None],
           Refer(None, None),
           UNCHANGED <<position, m_seek_id, m_last_processed_seek_id, m_seek_timestamp, m_seek_mode,
                       m_aborted, thread, local, m_current_seek_id, seeks, time, enabled,
                       crashed, state>>
    PROVE  Core'
<1>1. /\ m_seek_completion_handler \in [Providers -> Nat \cup {None}]
      /\ m_seek_completion_handler' \in [Providers -> Nat \cup {None}]
      /\ \A q \in Providers :
             m_seek_completion_handler'[q] \in {None, m_seek_completion_handler[q]}
    BY DEF Core, CoreTypes
<1>2. /\ DOMAIN seek_data' = Range(m_seek_completion_handler') \ {None}
      /\ \A k \in DOMAIN seek_data' : seek_data'[k] = seek_data[k]
      /\ seek_data' = [k \in DOMAIN seek_data' |-> seek_data'[k]]
    BY Referred
<1>3. DOMAIN seek_data' \subseteq DOMAIN seek_data
    BY <1>1, <1>2 DEF Core, CoreTypes, Range
<1>4. seek_data' \in [DOMAIN seek_data' -> SeekDatas]
    BY <1>2, <1>3 DEF Core, CoreTypes
<1>5. \A f \in Entries : EntryOK(f) => EntryOK(f)'
    BY DEF EntryOK, Resolves
<1>6. deferred' \in Seq(Entries) /\ EntriesOK'
    BY <1>5, TailEntries
<1>7. CoreTypes' /\ AbortedForASeek' /\ crashed' = FALSE
    BY <1>1, <1>2, <1>4, <1>6 DEF Core, CoreTypes, AbortedForASeek, HasSeek
<1>8. \A q \in Providers : ProviderOK(q)'
    BY DEF Core, ProviderOK
<1>9. ASSUME NEW q \in Providers, NEW k \in Nat, m_seek_completion_handler'[q] = k
      PROVE  HandlerOK(q, k)'
    <2>1. m_seek_completion_handler[q] = k /\ k \in DOMAIN seek_data'
        BY <1>1, <1>2, <1>9, DataProviderAssumption DEF Range
    <2>2. HandlerOK(q, k) /\ seek_data'[k] = seek_data[k]
        BY <1>2, <2>1 DEF Core, SeeksOK
    <2> QED BY <2>2 DEF HandlerOK
<1>10. ASSUME NEW k \in DOMAIN seek_data' PROVE DataOK(k)'
    <2>1. DataOK(k) /\ seek_data'[k] = seek_data[k]
        BY <1>2, <1>3 DEF Core, SeeksOK
    <2>2. seek_data[k].completed \subseteq Providers
        BY <1>3 DEF Core, CoreTypes, SeekDatas
    <2> QED BY <1>1, <2>1, <2>2 DEF DataOK
<1>11. SeeksOK'
    BY <1>9, <1>10 DEF SeeksOK, Arrived, Core
<1> QED BY <1>6, <1>7, <1>8, <1>11 DEF Core

(* The completion handler of the n-th seek is called by the provider p,    *)
(* which is at the time t: the tracks that have completed it agree, the    *)
(* audio follows a fast seek, and the seeking state is left when all       *)
(* tracks have completed the latest seek.                                  *)
LEMMA CompletionStep ==
    ASSUME Core, deferred # <<>>, deferred' = Tail(deferred),
           NEW p \in Providers, NEW n \in Nat, NEW t \in Nat,
           NEW kept, kept = [m_seek_completion_handler EXCEPT ![p] = None],
           m_seek_completion_handler[p] = n,
           m_last_processed_seek_id[p] = m_seek_id[p], position[p] = t, Resolves(p, t),
           CompletionHandler(n, p, t, kept),
           UNCHANGED <<position, m_last_processed_seek_id, thread, local, m_current_seek_id, seeks,
                       enabled>>
    PROVE  Core'
<1> DEFINE d == seek_data[n]
           audio == enabled \ VideoProviders
           audioNext == p \in VideoProviders /\ d.mode # "Accurate"
           ps == IF audioNext THEN audio ELSE {}
           dd == [d EXCEPT
                     !.completed = @ \cup {p},
                     !.chosen = IF p \in VideoProviders /\ t > @ THEN t ELSE @,
                     !.in_flight = IF audioNext THEN (@ \cap VideoProviders) \cup audio ELSE @]
<1>1. seek(ps, n, dd.chosen, "Accurate", kept) /\ Refer(n, dd) /\ possibly_complete_seek(dd)
    BY DEF CompletionHandler
<1>2. /\ Providers = {"video", "audio"} /\ VideoProviders = {"video"} /\ enabled \subseteq Providers
      /\ "video" \in enabled /\ seeks \in Nat /\ m_current_seek_id \in Nat
    BY PlaybackAssumption DEF Core, CoreTypes, SeeksOK
<1>3. /\ n \in DOMAIN seek_data /\ d \in SeekDatas
      /\ HandlerOK(p, n) /\ DataOK(n)
    <2>1. n \in DOMAIN seek_data
        BY DataProviderAssumption DEF Core, CoreTypes, Range
    <2> QED BY <2>1 DEF Core, CoreTypes, SeeksOK
<1>4. /\ state = "Seeking" /\ p \in enabled /\ 1 <= n /\ n <= seeks /\ p \notin d.completed
      /\ d.in_flight = enabled /\ d.completed \subseteq enabled
      /\ d.chosen \in Nat /\ d.mode \in SeekModes /\ d.id \in Nat
      /\ n < seeks => d.id < m_current_seek_id
      /\ n = seeks => d.id = m_current_seek_id
    BY <1>3 DEF HandlerOK, DataOK, SeekDatas
<1>5. audioNext => p = "video" /\ n = seeks /\ d.chosen = 0 /\ d.completed = {} /\ t > 0
    BY <1>2, <1>3, <1>4 DEF HandlerOK, Resolves, Core, CoreTypes
<1>6. ~ audioNext => t = d.chosen
    BY <1>2, <1>3, <1>4 DEF HandlerOK, DataOK, Resolves, Core, CoreTypes
<1>7. /\ dd \in SeekDatas
      /\ dd.id = d.id /\ dd.mode = d.mode /\ dd.completed = d.completed \cup {p}
      /\ dd.in_flight = enabled /\ dd.chosen = t
    <2>1. /\ dd.id = d.id /\ dd.mode = d.mode /\ dd.completed = d.completed \cup {p}
          /\ dd.in_flight = (IF audioNext THEN (d.in_flight \cap VideoProviders) \cup audio ELSE d.in_flight)
          /\ dd.chosen = (IF p \in VideoProviders /\ t > d.chosen THEN t ELSE d.chosen)
          /\ dd = [id |-> dd.id, mode |-> dd.mode, chosen |-> dd.chosen, in_flight |-> dd.in_flight,
                   completed |-> dd.completed]
        <3>2. PICK r \in SeekDatas : r = d
            BY <1>3
        <3>3. PICK x, y, z : /\ x = d.completed \cup {p}
                             /\ y = (IF p \in VideoProviders /\ t > d.chosen THEN t ELSE d.chosen)
                             /\ z = (IF audioNext THEN (d.in_flight \cap VideoProviders) \cup audio
                                     ELSE d.in_flight)
            BY Zenon
        <3>4. PICK u : u = dd
            BY Zenon
        <3>5. u = [r EXCEPT !.completed = x, !.chosen = y, !.in_flight = z]
            BY <3>2, <3>3, <3>4
        <3>6. /\ u.id = r.id /\ u.mode = r.mode /\ u.completed = x /\ u.chosen = y
              /\ u.in_flight = z
              /\ u = [id |-> u.id, mode |-> u.mode, chosen |-> u.chosen,
                      in_flight |-> u.in_flight, completed |-> u.completed]
            BY <3>5 DEF SeekDatas
        <3> HIDE DEF dd
        <3> QED BY <3>2, <3>3, <3>4, <3>6
    <2> HIDE DEF dd
    <2>2. dd.in_flight = enabled
        BY <1>2, <1>4, <2>1
    <2>3. dd.chosen = t
        BY <1>2, <1>4, <1>5, <1>6, <2>1
    <2> QED BY <1>2, <1>4, <2>1, <2>2, <2>3 DEF SeekDatas
<1>8. /\ ps \in SUBSET Providers /\ ps \subseteq enabled /\ p \notin ps
      /\ \A q \in ps : q = "audio" /\ audioNext
      /\ audioNext => \A q \in enabled : q # p => q \in ps
    BY <1>2, <1>5
<1>9. ~ audioNext => ps = {}
    OBVIOUS
<1> HIDE DEF dd, ps, audioNext
<1>10. kept \in [Providers -> Nat \cup {None}]
    BY DEF Core, CoreTypes
<1>11. Called(ps, n, t, "Accurate", kept)
    <2>1. PICK qs \in SUBSET Providers : qs = ps
        BY <1>8
    <2>2. seek(qs, n, t, "Accurate", kept) /\ "Accurate" \in SeekModes
        BY <1>1, <1>7, <2>1 DEF SeekModes
    <2>3. Called(qs, n, t, "Accurate", kept)
        BY <1>10, <2>2, SeekCall
    <2> QED BY <2>1, <2>3
<1>12. /\ m_seek_id' \in [Providers -> Nat] /\ m_seek_timestamp' \in [Providers -> Nat]
       /\ m_seek_completion_handler' \in [Providers -> Nat \cup {None}]
       /\ m_seek_mode' \in [Providers -> SeekModes] /\ m_aborted' \in [Providers -> BOOLEAN]
       /\ AbortedForASeek'
       /\ \A q \in Providers : ProviderOK(q)'
       /\ \A f \in Entries : EntryOK(f) => EntryOK(f)'
    BY <1>11 DEF Called
<1>13. \A q \in Providers :
          /\ q \in ps =>
                 /\ m_seek_id'[q] = m_seek_id[q] + 1 /\ m_seek_completion_handler'[q] = n
                 /\ m_seek_timestamp'[q] = t /\ m_seek_mode'[q] = "Accurate"
          /\ q \notin ps =>
                 /\ m_seek_id'[q] = m_seek_id[q] /\ m_seek_completion_handler'[q] = kept[q]
                 /\ m_seek_timestamp'[q] = m_seek_timestamp[q]
                 /\ m_seek_mode'[q] = m_seek_mode[q]
    BY <1>11 DEF Called
<1>14. \A q \in Providers : kept[q] = IF q = p THEN None ELSE m_seek_completion_handler[q]
    BY DEF Core, CoreTypes
<1>15. /\ DOMAIN seek_data' = Range(m_seek_completion_handler') \ {None}
       /\ \A k \in DOMAIN seek_data' : seek_data'[k] = IF k = n THEN dd ELSE seek_data[k]
       /\ seek_data' = [k \in DOMAIN seek_data' |-> seek_data'[k]]
    BY <1>1 DEF Refer
<1>16. \A k \in DOMAIN seek_data' : k \in DOMAIN seek_data /\ k \in Nat
    <2> SUFFICES ASSUME NEW k \in DOMAIN seek_data' PROVE k \in DOMAIN seek_data /\ k \in Nat
        OBVIOUS
    <2>1. PICK q \in Providers : k = m_seek_completion_handler'[q] /\ k # None
        BY <1>12, <1>15 DEF Range
    <2>2. k = n \/ k = m_seek_completion_handler[q]
        BY <1>13, <1>14, <2>1
    <2> QED BY <1>3, <1>12, <2>1, <2>2 DEF Core, CoreTypes, Range
<1>17. seek_data' \in [DOMAIN seek_data' -> SeekDatas]
    BY <1>7, <1>15, <1>16 DEF Core, CoreTypes
<1> DEFINE current == dd.completed = enabled /\ n = seeks
<1>18. /\ crashed' = FALSE
       /\ current => time' = t /\ state' # "Seeking"
       /\ ~ current => time' = time /\ state' = "Seeking"
    <2>1. n = seeks <=> m_current_seek_id = dd.id
        BY <1>2, <1>4, <1>7
    <2> QED BY <2>1, <1>1, <1>4, <1>7 DEF possibly_complete_seek
<1>19. deferred' \in Seq(Entries) /\ EntriesOK'
    BY <1>12, TailEntries
<1>20. time' \in Nat
    BY <1>18 DEF Core, CoreTypes
<1>21. CoreTypes'
    BY <1>12, <1>15, <1>17, <1>19, <1>20 DEF Core, CoreTypes
<1>22. ASSUME n = seeks, NEW q \in dd.completed
       PROVE  /\ q \in Providers /\ q \notin ps
              /\ m_seek_completion_handler'[q] = None
              /\ m_last_processed_seek_id[q] = m_seek_id'[q]
              /\ position[q] = t
    <2>1. CASE q = p
        BY <2>1, <1>8, <1>13, <1>14
    <2>2. CASE q # p
        <3>1. q \in d.completed /\ q \in Providers
            BY <2>2, <1>2, <1>4, <1>7, <1>22
        <3>2. ~ audioNext
            BY <3>1, <1>5
        <3>3. q \notin ps /\ t = d.chosen
            BY <3>2, <1>6, <1>9
        <3> QED BY <1>3, <1>13, <1>14, <1>22, <2>2, <3>1, <3>3 DEF DataOK
    <2> QED BY <2>1, <2>2
<1>23. ASSUME NEW q \in Providers, NEW k \in Nat, m_seek_completion_handler'[q] = k
       PROVE  HandlerOK(q, k)'
    <2>0. k \in DOMAIN seek_data' /\ k # None
        BY <1>12, <1>15, <1>23, DataProviderAssumption DEF Range
    <2>1. q # p
        BY <1>8, <1>13, <1>14, <1>23, <2>0
    <2>2. CASE q \in ps
        <3>1. /\ k = n /\ seek_data'[k] = dd /\ q = "audio" /\ audioNext /\ q \in enabled
              /\ p = "video" /\ dd.completed = {"video"} /\ n <= seeks /\ 1 <= n
              /\ m_seek_timestamp'[q] = t
            BY <2>0, <2>2, <1>4, <1>5, <1>7, <1>8, <1>13, <1>15, <1>23
        <3>2. state' = "Seeking"
            BY <3>1, <1>18
        <3> QED BY <3>1, <3>2, <1>7 DEF HandlerOK
    <2>3. CASE q \notin ps
        <3>1. m_seek_completion_handler[q] = k
            BY <2>1, <2>3, <1>13, <1>14, <1>23
        <3>2. HandlerOK(q, k)
            BY <3>1 DEF Core, SeeksOK
        <3>3. q \in enabled /\ ~ audioNext
            BY <3>2, <2>1, <2>3, <1>8 DEF HandlerOK
        <3>4. state' = "Seeking"
            BY <3>3, <2>0, <1>18, <1>22, <1>23
        <3>5. m_seek_timestamp'[q] = m_seek_timestamp[q] /\ m_seek_mode'[q] = m_seek_mode[q]
            BY <2>3, <1>13
        <3>6. CASE k # n
            <4>1. seek_data'[k] = seek_data[k]
                BY <3>6, <2>0, <1>15
            <4> QED BY <4>1, <3>2, <3>4, <3>5 DEF HandlerOK
        <3>7. CASE k = n
            <4>1. seek_data'[k] = dd /\ dd.chosen = d.chosen
                BY <3>3, <3>7, <2>0, <1>6, <1>7, <1>15
            <4>2. q \notin dd.completed
                BY <2>1, <3>2, <3>7, <1>7 DEF HandlerOK
            <4>3. CASE q = "audio"
                BY <4>1, <4>2, <4>3, <3>2, <3>4, <3>5, <3>7, <1>7 DEF HandlerOK
            <4>4. CASE q = "video"
                <5>1. d.mode = "Accurate"
                    BY <4>4, <2>1, <3>2, <3>7, <1>2, <1>3 DEF HandlerOK
                <5> QED BY <5>1, <4>1, <4>2, <4>4, <3>2, <3>4, <3>5, <3>7, <1>7 DEF HandlerOK
            <4> QED BY <4>3, <4>4, <1>2
        <3> QED BY <3>6, <3>7
    <2> QED BY <2>2, <2>3
<1>24. ASSUME NEW k \in DOMAIN seek_data' PROVE DataOK(k)'
    <2>0. k \in DOMAIN seek_data /\ DataOK(k) /\ k \in Nat
        BY <1>16 DEF Core, SeeksOK
    <2>1. CASE k = n
        <3>1. seek_data'[k] = dd
            BY <2>1, <1>15
        <3>2. dd.mode = "Accurate" => dd.chosen = 2 * n
            <4>1. dd.mode = "Accurate" => ~ audioNext
                BY <1>7 DEF audioNext
            <4> QED BY <4>1, <1>3, <1>6, <1>7 DEF DataOK
        <3> QED BY <2>1, <3>1, <3>2, <1>4, <1>7, <1>22 DEF DataOK
    <2>2. CASE k # n
        <3>1. seek_data'[k] = seek_data[k] /\ seek_data[k].completed \subseteq Providers
            BY <2>0, <2>2, <1>2, <1>15 DEF DataOK
        <3>2. k = seeks => ps = {}
            BY <2>2, <1>5, <1>9
        <3> QED BY <2>0, <3>1, <3>2, <1>13, <1>14 DEF DataOK
    <2> QED BY <2>1, <2>2
<1>25. Arrived'
    BY <1>18, <1>22 DEF Arrived
<1>26. SeeksOK'
    BY <1>2, <1>23, <1>24, <1>25 DEF SeeksOK
<1> QED BY <1>12, <1>18, <1>19, <1>21, <1>26 DEF Core

(* The callback that a provider's thread has deferred keeps Core.          *)
LEMMA ProcessSeekStep ==
    ASSUME Core, process_seek
    PROVE  Core'
<1>1. deferred # <<>> /\ deferred' = Tail(deferred) /\ deferred \in Seq(Entries)
    BY DEF process_seek, Core, CoreTypes
<1>2. PICK e \in Entries : e = Head(deferred) /\ e = deferred[1] /\ 1 \in DOMAIN deferred
    BY <1>1
<1>3. e.provider \in Providers /\ e.id \in Nat /\ e.time \in Nat /\ EntryOK(e)
    BY <1>2 DEF Entries, Core, EntriesOK
<1>4. PICK p \in Providers : p = e.provider
    BY <1>3
<1>5. UNCHANGED <<position, m_last_processed_seek_id, thread, local, m_current_seek_id, seeks,
                  enabled>>
    BY DEF process_seek, threadVars
<1>6. CASE m_seek_id[p] # e.id
    <2>1. UNCHANGED coreVars /\ UNCHANGED state
        BY <1>2, <1>4, <1>5, <1>6 DEF process_seek, coreVars, seekVars
    <2> QED BY <2>1, <1>1, StaleStep
<1>7. CASE m_seek_id[p] = e.id /\ e.ok /\ m_seek_completion_handler[p] # None
    <2>1. PICK n \in Nat : n = m_seek_completion_handler[p]
        BY <1>7 DEF Core, CoreTypes
    <2>2. PICK kept : kept = [m_seek_completion_handler EXCEPT ![p] = None]
        BY Zenon
    <2>3. PICK t \in Nat : t = e.time
        BY <1>3
    <2>4. CompletionHandler(n, p, t, kept)
        BY <1>2, <1>4, <1>7, <2>1, <2>2, <2>3, Zenon DEF process_seek
    <2>5. m_last_processed_seek_id[p] = m_seek_id[p] /\ position[p] = t /\ Resolves(p, t)
        BY <1>3, <1>4, <1>7, <2>3 DEF EntryOK, Core, CoreTypes, ProviderOK
    <2> QED BY <1>1, <1>5, <2>1, <2>2, <2>4, <2>5, CompletionStep
<1>8. CASE m_seek_id[p] = e.id /\ ~ (e.ok /\ m_seek_completion_handler[p] # None)
    <2>1. /\ m_seek_completion_handler' = [m_seek_completion_handler EXCEPT ![p] = None]
          /\ Refer(None, None)
          /\ UNCHANGED <<m_seek_id, m_seek_timestamp, m_seek_mode, m_aborted, state, time, crashed>>
        BY <1>2, <1>4, <1>8, Zenon DEF process_seek
    <2> QED BY <1>1, <1>5, <2>1, DroppedStep
<1> QED BY <1>6, <1>7, <1>8

-----------------------------------------------------------------------------
(* The rest of the types. *)

(* What seek() and the waking of a thread do to the other types.           *)
LEMMA OtherSeek ==
    ASSUME OtherTypes, NEW ps, NEW n, NEW t, NEW mode, NEW kept, seek(ps, n, t, mode, kept)
    PROVE  woken' \in [Providers -> BOOLEAN]
BY DEF seek, OtherTypes

(* Every step of a thread keeps them.                                      *)
LEMMA OtherThread ==
    ASSUME OtherTypes, NEW p \in Providers, ProviderThread(p), UNCHANGED managerVars
    PROVE  OtherTypes'
<1> USE DataProviderAssumption
<1>1. UNCHANGED <<state, m_playing, asked, m_pause_updates>>
    BY DEF managerVars
<1>2. enough' = enough
    BY DEF ProviderThread, Loop, resolve_seek, handle_error, RestartSeek, NothingAfter, Wait, Wake,
           push_data_and_decode_some_frames, NoSeekCompleted, ReturnTrue
<1>3. full' \subseteq VideoProviders
    BY DEF OtherTypes, ProviderThread, Loop, resolve_seek, handle_error, RestartSeek, NothingAfter,
           Wait, Wake, push_data_and_decode_some_frames, OfferFrame, WaitForSeek, ReturnTrue
<1>4. caller' \in [Providers -> {"loop", "failed", "full"}]
    BY DEF OtherTypes, ProviderThread, Loop, resolve_seek, handle_error, RestartSeek, NothingAfter,
           Wait, Wake, push_data_and_decode_some_frames, OfferFrame, WaitForSeek, ReturnTrue,
           handle_seek, Set
<1>5. m_queue' \in [Providers -> 0 .. m_queue_max_size]
    <2>1. CASE UNCHANGED m_queue
        BY <2>1 DEF OtherTypes
    <2>2. CASE \E n \in {1, 2, m_queue[p] + 1} : Set(m_queue, p, Capped(n))
        BY <2>2 DEF OtherTypes, Set, Capped
    <2>3. ASSUME OfferFrame(p) PROVE m_queue' \in [Providers -> 0 .. m_queue_max_size]
        BY <2>3 DEF OfferFrame, OtherTypes, Set
    <2>4. resolve_seek(p) => \/ UNCHANGED m_queue
                             \/ \E n \in {1, 2, m_queue[p] + 1} : Set(m_queue, p, Capped(n))
        BY DEF resolve_seek
    <2>5. handle_error(p) => Set(m_queue, p, 0)
        BY DEF handle_error
    <2>6. CASE Set(m_queue, p, 0)
        BY <2>6 DEF Set, OtherTypes
    <2> QED BY <2>1, <2>2, <2>3, <2>4, <2>5, <2>6
            DEF ProviderThread, Loop, RestartSeek, NothingAfter,
                Wait, Wake, push_data_and_decode_some_frames, WaitForSeek
<1>6. m_is_in_error_state' \in [Providers -> BOOLEAN]
    <2>1. \/ UNCHANGED m_is_in_error_state
          \/ Set(m_is_in_error_state, p, TRUE)
          \/ \E ok \in BOOLEAN : Set(m_is_in_error_state, p, ~ ok)
        BY DEF ProviderThread, Loop, resolve_seek, handle_error, RestartSeek, NothingAfter,
               Wait, Wake, push_data_and_decode_some_frames, ReturnTrue
    <2> QED BY <2>1 DEF OtherTypes, Set
<1>7. woken' \in [Providers -> BOOLEAN]
    <2>1. UNCHANGED woken \/ Set(woken, p, FALSE)
        BY DEF ProviderThread, Loop, resolve_seek, handle_error, RestartSeek, NothingAfter,
               Wait, Wake, push_data_and_decode_some_frames, ReturnTrue
    <2> QED BY <2>1 DEF OtherTypes, Set
<1> QED BY <1>1, <1>2, <1>3, <1>4, <1>5, <1>6, <1>7 DEF OtherTypes

(* Taking from a queue keeps them.                                         *)
LEMMA OtherRetrieve ==
    ASSUME OtherTypes, NEW p \in Providers, retrieve(p), UNCHANGED managerVars
    PROVE  OtherTypes'
<1>1. m_queue' \in [Providers -> 0 .. m_queue_max_size]
    BY DataProviderAssumption DEF retrieve, Set, OtherTypes
<1>2. woken' \in [Providers -> BOOLEAN]
    BY DEF retrieve, wake, OtherTypes
<1>3. UNCHANGED <<m_is_in_error_state, caller, enough, full, state, m_playing, asked, m_pause_updates>>
    BY DEF retrieve, threadVars, managerVars
<1> QED BY <1>1, <1>2, <1>3 DEF OtherTypes

(* Every step keeps them; PlayStep has those of the manager.               *)
LEMMA OtherTypesStep ==
    ASSUME IInv, [Next]_vars
    PROVE  OtherTypes'
<1>1. OtherTypes /\ PlayInv'
    <2>1. PlayInv
        BY DEF IInv, OtherTypes, PlayInv
    <2> QED BY <2>1, PlayStep DEF IInv
<1>2. ASSUME /\ UNCHANGED <<m_queue, m_is_in_error_state, caller>>
             /\ woken' \in [Providers -> BOOLEAN] /\ enough' \in BOOLEAN
             /\ full' \subseteq VideoProviders
      PROVE  OtherTypes'
    BY <1>1, <1>2 DEF OtherTypes, PlayInv
<1>3. CASE process_seek
    <2>1. UNCHANGED <<m_queue, m_is_in_error_state, caller, enough, full>>
        BY <1>3 DEF process_seek, threadVars
    <2>2. woken' \in [Providers -> BOOLEAN]
        <3>1. CASE UNCHANGED woken
            BY <1>1, <3>1 DEF OtherTypes
        <3>2. CASE \E ps, n, t, mode, kept : seek(ps, n, t, mode, kept)
            BY <1>1, <3>2, OtherSeek
        <3>3. ASSUME NEW n, NEW p, NEW t, NEW kept, CompletionHandler(n, p, t, kept)
              PROVE  \E qs, m, s, mode, k : seek(qs, m, s, mode, k)
            BY <3>3, Zenon DEF CompletionHandler
        <3>4. (\E n, p, t, kept : CompletionHandler(n, p, t, kept)) \/ UNCHANGED woken
            BY <1>3, Zenon DEF process_seek
        <3> QED BY <3>1, <3>2, <3>3, <3>4
    <2> QED BY <1>1, <1>2, <2>1, <2>2 DEF OtherTypes
<1>4. CASE exit_buffering
    BY <1>1, <1>2, <1>4 DEF exit_buffering, OtherTypes, threadVars
<1>5. ASSUME NEW mode \in Modes, manager_seek(mode) PROVE OtherTypes'
    <2>1. woken' \in [Providers -> BOOLEAN]
        BY <1>1, <1>5 DEF manager_seek, begin_seek, seek, OtherTypes
    <2> QED BY <1>1, <1>2, <1>5, <2>1 DEF manager_seek, OtherTypes, threadVars
<1>6. CASE UNCHANGED providerVars
    BY <1>1, <1>2, <1>6 DEF providerVars, threadVars, OtherTypes
<1>7. play \/ pause => UNCHANGED providerVars
    BY DEF play, pause
<1>8. CASE update
    BY <1>1, <1>6, <1>8, OtherRetrieve, PlaybackAssumption DEF update
<1>9. CASE write_audio_data
    BY <1>1, <1>9, OtherRetrieve, PlaybackAssumption DEF write_audio_data
<1>10. ASSUME NEW p \in Providers, ProviderThread(p), UNCHANGED managerVars PROVE OtherTypes'
    BY <1>1, <1>10, OtherThread
<1>11. CASE append
    BY <1>1, <1>2, <1>11 DEF append, OtherTypes, threadVars
<1>12. CASE UNCHANGED vars
    BY <1>6, <1>12 DEF vars
<1> QED
    BY <1>3, <1>4, <1>5, <1>6, <1>7, <1>8, <1>9, <1>10, <1>11, <1>12 DEF Next, MainLoop, User

-----------------------------------------------------------------------------
(* The theorems. *)

(* Every step keeps Core.                                                  *)
LEMMA CoreStep ==
    ASSUME IInv, [Next]_vars
    PROVE  Core'
<1>1. Core /\ state \in States
    BY DEF IInv, OtherTypes
<1>2. ASSUME UNCHANGED coreVars, UNCHANGED deferred, state' = "Seeking" <=> state = "Seeking"
      PROVE  Core'
    BY <1>1, <1>2, OtherStep
<1>3. CASE process_seek
    BY <1>1, <1>3, ProcessSeekStep
<1>4. CASE exit_buffering
    BY <1>2, <1>4 DEF exit_buffering, coreVars, threadVars, seekVars
<1>5. ASSUME NEW mode \in Modes, manager_seek(mode) PROVE Core'
    BY <1>1, <1>5, SeekStep
<1>6. CASE play \/ pause
    BY <1>2, <1>6 DEF play, pause, coreVars, providerVars, threadVars, seekVars
<1>7. CASE update
    BY <1>2, <1>7 DEF update, coreVars, providerVars, threadVars, seekVars, managerVars, retrieve
<1>8. CASE write_audio_data
    BY <1>2, <1>8 DEF write_audio_data, coreVars, threadVars, seekVars, managerVars, retrieve
<1>9. ASSUME NEW p \in Providers, ProviderThread(p), UNCHANGED managerVars PROVE Core'
    BY <1>1, <1>9, ThreadStep
<1>10. CASE append /\ UNCHANGED managerVars
    BY <1>2, <1>10 DEF append, coreVars, threadVars, seekVars, managerVars
<1>11. CASE UNCHANGED vars
    BY <1>2, <1>11 DEF vars, coreVars, providerVars, threadVars, seekVars, managerVars
<1> QED
    BY <1>3, <1>4, <1>5, <1>6, <1>7, <1>8, <1>9, <1>10, <1>11 DEF Next, MainLoop, User

(* IInv is an invariant.                                                   *)
LEMMA Inductive == Spec => []IInv
<1>1. Init => IInv
    <2> SUFFICES ASSUME Init PROVE IInv
        OBVIOUS
    <2> USE DataProviderAssumption, PlaybackAssumption
    <2>1. PlaysAsAsked /\ OtherTypes
        <3>1. PlaysAsAsked
            BY DEF Init, PlaysAsAsked, is_playing
        <3>2. /\ m_is_in_error_state \in [Providers -> BOOLEAN] /\ woken \in [Providers -> BOOLEAN]
              /\ enough \in BOOLEAN /\ m_playing \in BOOLEAN /\ asked \in BOOLEAN
              /\ m_pause_updates \in BOOLEAN
            BY DEF Init, ProvidersInit
        <3>3. m_queue \in [Providers -> 0 .. m_queue_max_size]
            BY DEF Init, ProvidersInit
        <3>4. caller \in [Providers -> {"loop", "failed", "full"}] /\ state \in States
            BY DEF Init, ProvidersInit, States
        <3>5. full \subseteq VideoProviders
            BY DEF Init, ProvidersInit
        <3> QED BY <3>1, <3>2, <3>3, <3>4, <3>5 DEF OtherTypes
    <2>2. Range(m_seek_completion_handler) \ {None} = {} /\ DOMAIN seek_data = {}
        BY DEF Init, ProvidersInit, Range
    <2>3. CoreTypes
        <3>1. deferred \in Seq(Entries) /\ seek_data \in [DOMAIN seek_data -> SeekDatas]
            BY <2>2 DEF Init, ProvidersInit
        <3>2. DOMAIN seek_data = Range(m_seek_completion_handler) \ {None}
            BY <2>2
        <3>3. /\ seeks \in 0 .. MaxSeeks /\ m_current_seek_id \in Nat /\ time \in Nat
              /\ enabled \subseteq Providers
            BY DEF Init
        <3>4. m_aborted \in [Providers -> BOOLEAN]
            BY DEF Init, ProvidersInit
        <3> QED BY <3>1, <3>2, <3>3, <3>4
                DEF Init, ProvidersInit, CoreTypes, SeekModes, ThreadPlaces
    <2>4. AbortedForASeek /\ crashed = FALSE /\ EntriesOK /\ \A p \in Providers : ProviderOK(p)
        BY DEF Init, ProvidersInit, AbortedForASeek, EntriesOK, ProviderOK
    <2>5. SeeksOK
        BY <2>2 DEF Init, ProvidersInit, SeeksOK, Arrived
    <2> QED BY <2>1, <2>3, <2>4, <2>5 DEF IInv, Core
<1>2. IInv /\ [Next]_vars => IInv'
    <2> SUFFICES ASSUME IInv, [Next]_vars PROVE IInv'
        OBVIOUS
    <2>1. PlaysAsAsked'
        <3>1. PlayInv
            BY DEF IInv, OtherTypes, PlayInv
        <3>2. PlayInv'
            BY <3>1, PlayStep
        <3> QED BY <3>2 DEF PlayInv
    <2> QED BY <2>1, OtherTypesStep, CoreStep DEF IInv
<1> QED BY <1>1, <1>2, PTL DEF Spec

(* Whatever seeks come, overtake each other or fail, a provider's variables *)
(* have their types, and a read is only ever aborted for a seek that its   *)
(* thread has not taken up: abort() and reset_abort() never leave a thread *)
(* whose reads fail for no reason.                                         *)
THEOREM AbortsAreForSeeks == Spec => []Inv
<1>1. IInv => Inv
    BY DEF IInv, Core, CoreTypes, OtherTypes, Inv, TypeOK, States, Entries
<1> QED BY <1>1, Inductive, PTL

(* When the seeking state is left, every track is where the clock is, and  *)
(* no completion handler finds the manager in another state: for any       *)
(* number of seeks in any modes, however the two threads and the callbacks *)
(* interleave (possibly_complete_seek()).                                  *)
THEOREM TracksAreInSync == Spec => []InSync
<1>1. IInv => InSync
    BY DEF IInv, Core, SeeksOK, Arrived, InSync
<1> QED BY <1>1, Inductive, PTL

=============================================================================
