------------------------ MODULE RequestServerProofs ------------------------
(* Theorems about RequestServer, for any number of clients, requests and   *)
(* keys, and whatever goes wrong.                                          *)
EXTENDS RequestServer, SequenceTheorems, TLAPS

-----------------------------------------------------------------------------
(* The event loop.                                                         *)

(* Turns are sequences of calls.                                           *)
LEMMA CallType ==
    /\ \A op \in Ops, r \in Requests : Call(op, r) \in Calls
    /\ \A c \in Clients : Call("die", c) \in Calls
BY DEF Call, Calls

(* A call that calls others leaves a turn behind.                          *)
LEMMA ThenType ==
    ASSUME LoopTypeOK, calls # << >>, NEW inner \in Seq(Calls), Then(inner)
    PROVE  calls' \in Seq(Calls)
<1>1. Tail(calls) \in Seq(Calls)
  BY DEF LoopTypeOK
<1> QED BY <1>1 DEF Then

(* A turn whose running call returns is a turn.                            *)
LEMMA ReturnType ==
    ASSUME LoopTypeOK, calls # << >>, Return
    PROVE  calls' \in Seq(Calls)
<1>1. << >> \in Seq(Calls)
  OBVIOUS
<1> QED BY <1>1, ThenType DEF Return

(* transition_to_state keeps the types of the turn and of m_state.         *)
LEMMA EnterType ==
    ASSUME TypeOK, calls # << >>, NEW r \in Requests, NEW s \in States, Enter(r, s)
    PROVE  calls' \in Seq(Calls) /\ state' \in [Requests -> States]
<1>1. <<Call("process", r)>> \in Seq(Calls)
  BY CallType DEF Ops
<1> QED BY <1>1, ThenType DEF Enter, TypeOK, RequestTypeOK

(* Deferred turns are queued.                                              *)
LEMMA DeferType ==
    ASSUME LoopTypeOK, NEW turns \in Seq(Seq(Calls)), Defer(turns)
    PROVE  queued_events' \in Seq(Seq(Calls))
BY DEF Defer, LoopTypeOK

(* request_complete defers a turn.                                         *)
LEMMA RequestCompleteType ==
    ASSUME NEW r \in Requests
    PROVE  request_complete(r) \in Seq(Seq(Calls))
<1>1. Call("remove", r) \in Calls
  BY CallType DEF Ops
<1> QED BY <1>1 DEF request_complete

(* cache_entry_closed defers a turn for the requests that waited, or       *)
(* nothing.                                                                *)
LEMMA ResumptionType ==
    ASSUME CacheTypeOK, NEW r \in Requests
    PROVE  Resumption(r) \in Seq(Seq(Calls))
<1> DEFINE pending == waiting[Key[r]]
           turn == [i \in 1..Len(pending) |-> Call("unblock", pending[i])]
<1>1. pending \in Seq(Requests)
  BY CacheAssumption DEF CacheTypeOK
<1>2. \A i \in 1..Len(pending) : Call("unblock", pending[i]) \in Calls
  BY <1>1, CallType DEF Ops
<1>3. Len(pending) \in Nat
  BY <1>1
<1> HIDE DEF pending
<1>4. turn \in Seq(Calls)
  BY <1>2, <1>3, IsASeq
<1>5. Resumption(r) = << >> \/ Resumption(r) = <<turn>>
  BY DEF Resumption, pending
<1> HIDE DEF turn
<1>6. << >> \in Seq(Seq(Calls))
  OBVIOUS
<1>7. <<turn>> \in Seq(Seq(Calls))
  BY <1>4
<1> QED BY <1>5, <1>6, <1>7

-----------------------------------------------------------------------------
(* The cache.                                                              *)

(* What open_entry answers: a reader only to a request that may use the    *)
(* cache and that nobody is in the way of.                                 *)
LEMMA OpenEntryType ==
    ASSUME CacheTypeOK, NEW r \in Requests, NEW revalidate, NEW locking,
           NEW o \in open_entry(r, revalidate, locking)
    PROVE  /\ o.answer \in Readers \cup {"none", "blocked"}
           /\ o.row \in Rows
           /\ o.file \in Files
           /\ o.answer \in Readers =>
                /\ r \in Cacheable
                /\ ~check_if_cache_has_open_entry(r, revalidate, locking)
           /\ o.answer = "stale_while_revalidate" => ~revalidate
<1> DEFINE k == Key[r]
           blocked == check_if_cache_has_open_entry(r, revalidate, locking)
<1>1. index[k] \in Rows /\ file[k] \in Files /\ "absent" \in Rows /\ "absent" \in Files
  BY CacheAssumption DEF CacheTypeOK, Rows, Files
<1> DEFINE Answers == Readers \cup {"none", "blocked"}
<1>2. CASE r \notin Cacheable \/ blocked \/ o.answer = "none"
  <2>1. \E a \in {"none", "blocked"}, x \in Rows, f \in Files : o = Opened(a, x, f)
    BY <1>1, <1>2 DEF open_entry, Opened
  <2> QED BY <2>1 DEF Opened, Readers
<1>3. CASE r \in Cacheable /\ ~blocked /\ o.answer # "none"
  <2>1. \/ revalidate /\ o = Opened("background", index[k], file[k])
        \/ /\ ~revalidate
           /\ \/ o = Opened("reader", index[k], file[k])
              \/ o = Opened(OpenToRevalidate(r, locking), index[k], file[k])
              \/ o = Opened("stale_while_revalidate", index[k], file[k])
    BY <1>3 DEF open_entry, Opened
  <2>2. OpenToRevalidate(r, locking) \in {"blocked", "must_revalidate"}
    BY DEF OpenToRevalidate
  <2>3. o.row = index[k] /\ o.file = file[k] /\ o.answer \in Answers
    BY <2>1, <2>2 DEF Opened, Readers
  <2>4. o.answer = "stale_while_revalidate" => ~revalidate
    BY <2>1 DEF Opened
  <2> QED BY <1>1, <1>3, <2>3, <2>4
<1> QED BY <1>2, <1>3

(* create_entry answers one of three things.                               *)
LEMMA CreateEntryType ==
    ASSUME NEW r \in Requests, NEW locking, NEW w \in create_entry(r, locking)
    PROVE  w \in {"none", "blocked", "writer"}
BY DEF create_entry

(* Closing an entry, or replacing it, keeps the types of the cache.        *)
LEMMA CloseEntryType ==
    ASSUME CacheTypeOK, NEW r \in Requests, NEW e \in Entries, CloseEntry(r, e)
    PROVE  /\ entry' \in [Requests -> Entries]
           /\ marked' \in SUBSET Requests
           /\ headed' \in SUBSET Requests
           /\ waiting' \in [Keys -> Seq(Requests)]
<1>1. Key[r] \in Keys /\ << >> \in Seq(Requests)
  BY CacheAssumption
<1>2. waiting' \in [Keys -> Seq(Requests)]
  BY <1>1 DEF CacheTypeOK, CloseEntry
<1> QED BY <1>2 DEF CacheTypeOK, CloseEntry

(* CacheEntry::remove keeps the types of the row and the file.             *)
LEMMA RemoveType ==
    ASSUME CacheTypeOK, NEW k \in Keys, remove(k)
    PROVE  index' \in [Keys -> Rows] /\ file' \in [Keys -> Files]
BY DEF CacheTypeOK, remove, Rows, Files

(* A writer that fails leaves the cache and the queue well typed.          *)
LEMMA LoseWriterType ==
    ASSUME TypeOK, NEW r \in Requests, LoseWriter(r)
    PROVE  CacheTypeOK' /\ queued_events' \in Seq(Seq(Calls)) /\ writerRef' \in SUBSET Requests
<1>1. index' \in [Keys -> Rows] /\ file' \in [Keys -> Files]
  BY CacheAssumption, RemoveType DEF LoseWriter, TypeOK, CacheTypeOK
<1>2. CacheTypeOK'
  BY <1>1, CloseEntryType DEF LoseWriter, TypeOK, CacheTypeOK, Entries
<1> QED BY <1>2, ResumptionType, DeferType DEF LoseWriter, TypeOK, RequestTypeOK

-----------------------------------------------------------------------------
(* Type correctness, one lemma per group of handlers.                      *)

(* A new process starts in a state of the right type.                      *)
LEMMA TerminateType ==
    ASSUME TypeOK, Terminate
    PROVE  TypeOK'
<1>1. << >> \in Seq(Calls) /\ << >> \in Seq(Seq(Calls)) /\ << >> \in Seq(Requests)
  OBVIOUS
<1>2. LoopTypeOK'
  BY <1>1 DEF Terminate, LoopTypeOK
<1>3. CacheTypeOK'
  BY <1>1 DEF Terminate, TypeOK, CacheTypeOK, Entries
<1>4. RequestTypeOK'
  BY DEF Terminate, TypeOK, RequestTypeOK, States, Alive
<1> QED BY <1>2, <1>3, <1>4 DEF TypeOK

(* The messages of the clients.                                            *)
LEMMA MessageTypes ==
    ASSUME TypeOK, NEW r \in Requests,
           start_request(r) \/ ensure_connection(r) \/ stop_request(r)
    PROVE  TypeOK'
<1> USE DEF TypeOK
<1>1. CASE start_request(r)
  <2>1. <<Call("process", r)>> \in Seq(Calls)
    BY CallType DEF Ops
  <2>2. LoopTypeOK' /\ CacheTypeOK'
    BY <1>1, <2>1 DEF start_request, LoopTypeOK, CacheTypeOK, cacheVars
  <2>3. RequestTypeOK'
    BY <1>1 DEF start_request, RequestTypeOK, States
  <2> QED BY <2>2, <2>3
<1>2. CASE ensure_connection(r)
  <2>1. <<Call("process", r)>> \in Seq(Calls)
    BY CallType DEF Ops
  <2>2. LoopTypeOK' /\ CacheTypeOK'
    BY <1>2, <2>1 DEF ensure_connection, LoopTypeOK, CacheTypeOK, cacheVars
  <2>3. RequestTypeOK'
    BY <1>2 DEF ensure_connection, RequestTypeOK, States
  <2> QED BY <2>2, <2>3
<1>3. CASE stop_request(r)
  <2>1. <<Call("destroy", r)>> \in Seq(Calls)
    BY CallType DEF Ops
  <2> QED BY <1>3, <2>1 DEF stop_request, LoopTypeOK, CacheTypeOK, RequestTypeOK, cacheVars,
                            requestVars
<1> QED BY <1>1, <1>2, <1>3

(* Clearing the cache keeps the types.                                     *)
LEMMA ClearingType ==
    ASSUME TypeOK, remove_cache_entries_accessed_since
    PROVE  TypeOK'
<1>1. LoopTypeOK' /\ RequestTypeOK'
  BY DEF remove_cache_entries_accessed_since, TypeOK, LoopTypeOK, RequestTypeOK, loopVars,
         requestVars
<1>2. CacheTypeOK'
  BY DEF remove_cache_entries_accessed_since, remove_entries_accessed_since, TypeOK,
         CacheTypeOK, OpenEntries, Rows, Files
<1> QED BY <1>1, <1>2 DEF TypeOK

(* A connection that goes away.                                            *)
LEMMA ConnectionTypes ==
    ASSUME TypeOK, NEW c \in Clients, disconnect(c) \/ die(c)
    PROVE  TypeOK'
<1> USE DEF TypeOK
<1>1. CASE disconnect(c)
  <2>1. <<Call("die", c)>> \in Seq(Calls)
    BY CallType
  <2>2. LoopTypeOK' /\ CacheTypeOK'
    BY <1>1, <2>1 DEF disconnect, LoopTypeOK, CacheTypeOK, cacheVars
  <2>3. RequestTypeOK'
    BY <1>1 DEF disconnect, RequestTypeOK
  <2> QED BY <2>2, <2>3
<1>2. CASE die(c)
  <2>1. calls' \in Seq(Calls)
    <3>1. \A q \in Requests : <<Call("destroy", q)>> \in Seq(Calls)
      BY CallType DEF Ops
    <3>2. CASE Return
      BY <1>2, <3>2, ReturnType DEF die, Calling
    <3>3. CASE \E q \in Requests : calls' = <<Call("destroy", q)>> \o calls
      BY <3>1, <3>3 DEF LoopTypeOK
    <3> QED BY <1>2, <3>2, <3>3 DEF die
  <2> QED BY <1>2, <2>1 DEF die, LoopTypeOK, CacheTypeOK, RequestTypeOK, cacheVars, requestVars
<1> QED BY <1>1, <1>2

(* handle_initial_state.                                                   *)
LEMMA InitialStateType ==
    ASSUME TypeOK, NEW r \in Requests, handle_initial_state(r)
    PROVE  TypeOK'
<1> USE DEF TypeOK
<1> DEFINE untouched == UNCHANGED <<connected, resolving, curl, result, buffered, sent,
                                    headersSent, notifying, piping, log>>
<1>1. calls # << >> /\ Key[r] \in Keys /\ untouched
  BY CacheAssumption DEF handle_initial_state, Processing, Calling
<1>2. PICK o \in open_entry(r, r \in Revalidations, Locking) :
        /\ index' = [index EXCEPT ![Key[r]] = o.row]
        /\ \/ InitBlocked(r) /\ readerRef' \in {readerRef, readerRef \ {r}}
           \/ o.answer \in Readers /\ InitReader(r, o.answer)
           \/ InitUncached(r, "Complete") \/ InitUncached(r, "DNSLookup")
           \/ InitWriter(r)
        /\ \/ UNCHANGED file
           \/ file' = [file EXCEPT ![Key[r]] = o.file]
           \/ file' = [file EXCEPT ![Key[r]] = "unsealed"]
  BY DEF handle_initial_state
<1>3. o.row \in Rows /\ o.file \in Files
  BY OpenEntryType
<1>4. index' \in [Keys -> Rows] /\ file' \in [Keys -> Files]
  BY <1>1, <1>2, <1>3 DEF CacheTypeOK, Files
<1> HIDE DEF TypeOK
<1>5. ASSUME InitBlocked(r), readerRef' \in {readerRef, readerRef \ {r}} PROVE TypeOK'
  <2>1. calls' \in Seq(Calls) /\ state' \in [Requests -> States]
    BY <1>1, <1>5, EnterType DEF InitBlocked, States
  <2>2. waiting' \in [Keys -> Seq(Requests)]
    BY <1>1, <1>5 DEF InitBlocked, Wait, TypeOK, CacheTypeOK
  <2> QED BY <1>1, <1>4, <1>5, <2>1, <2>2
          DEF InitBlocked, TypeOK, LoopTypeOK, CacheTypeOK, RequestTypeOK
<1>6. ASSUME o.answer \in Readers, InitReader(r, o.answer) PROVE TypeOK'
  <2>1. calls' \in Seq(Calls) /\ state' \in [Requests -> States]
    <3>1. CASE Enter(r, "DNSLookup") \/ Enter(r, "ReadCache")
      BY <1>1, <3>1, EnterType DEF States
    <3>2. CASE /\ state' = [state EXCEPT ![r] = "ReadCache", ![Background[r]] = "Init"]
               /\ Then(<<Call("process", Background[r]), Call("process", r)>>)
               /\ r \in Fetches
      <4>1. Call("process", Background[r]) \in Calls /\ Call("process", r) \in Calls
        BY <3>2, RequestAssumption, CallType DEF Ops
      <4>2. <<Call("process", Background[r]), Call("process", r)>> \in Seq(Calls)
        BY <4>1
      <4>3. calls' \in Seq(Calls)
        BY <1>1, <3>2, <4>2, ThenType DEF TypeOK
      <4> QED BY <3>2, <4>3 DEF TypeOK, RequestTypeOK, States
    <3>3. o.answer = "stale_while_revalidate" => r \in Fetches
      BY <1>2, <1>3, RequestAssumption, OpenEntryType DEF Readers, TypeOK
    <3> QED BY <1>6, <3>1, <3>2, <3>3 DEF InitReader
  <2>2. entry' \in [Requests -> Entries]
    BY <1>6 DEF InitReader, TypeOK, CacheTypeOK, Entries
  <2> QED BY <1>1, <1>4, <1>6, <2>1, <2>2
          DEF InitReader, TypeOK, LoopTypeOK, CacheTypeOK, RequestTypeOK
<1>7. ASSUME InitUncached(r, "Complete") \/ InitUncached(r, "DNSLookup") PROVE TypeOK'
  <2>1. calls' \in Seq(Calls) /\ state' \in [Requests -> States]
    BY <1>1, <1>7, EnterType DEF InitUncached, States
  <2> QED BY <1>1, <1>4, <1>7, <2>1
          DEF InitUncached, TypeOK, LoopTypeOK, CacheTypeOK, RequestTypeOK
<1>8. ASSUME InitWriter(r) PROVE TypeOK'
  <2>1. calls' \in Seq(Calls) /\ state' \in [Requests -> States]
    BY <1>1, <1>8, EnterType DEF InitWriter, States
  <2>2. entry' \in [Requests -> Entries]
    BY <1>8 DEF InitWriter, TypeOK, CacheTypeOK, Entries
  <2> QED BY <1>1, <1>4, <1>8, <2>1, <2>2
          DEF InitWriter, TypeOK, LoopTypeOK, CacheTypeOK, RequestTypeOK
<1> QED BY <1>2, <1>5, <1>6, <1>7, <1>8

(* The two messages about the start of a request, and its end.             *)
LEMMA TellType ==
    ASSUME RequestTypeOK, NEW r \in Requests, NEW m \in Messages, Tell(r, m)
    PROVE  log' \in [Requests -> Seq(Messages)]
BY DEF Tell, RequestTypeOK

(* inform_client_request_started adds a message to the log, or nothing.    *)
LEMMA InformType ==
    ASSUME RequestTypeOK, NEW r \in Requests, inform_client_request_started(r)
    PROVE  log' \in [Requests -> Seq(Messages)]
<1>1. CASE r \in Revalidations
  BY <1>1 DEF inform_client_request_started, RequestTypeOK
<1>2. CASE r \notin Revalidations
  BY <1>2, TellType DEF inform_client_request_started, Messages
<1> QED BY <1>1, <1>2

(* The handlers of the states that only wait or begin something.           *)
LEMMA BeginningTypes ==
    ASSUME TypeOK, NEW r \in Requests,
           \/ handle_wait_for_cache_state(r) \/ notify_request_unblocked(r)
           \/ handle_read_cache_state(r) \/ handle_dns_lookup_state(r)
           \/ handle_connect_state(r) \/ handle_fetch_state(r)
    PROVE  TypeOK'
<1>1. calls # << >>
  BY DEF handle_wait_for_cache_state, notify_request_unblocked, handle_read_cache_state,
         handle_dns_lookup_state, handle_connect_state, handle_fetch_state, Processing, Calling
<1>2. Return => calls' \in Seq(Calls)
  BY <1>1, ReturnType DEF TypeOK
<1>3. \A s \in States : Enter(r, s) => calls' \in Seq(Calls) /\ state' \in [Requests -> States]
  BY <1>1, EnterType
<1> USE DEF TypeOK
<1>4. CASE handle_wait_for_cache_state(r)
  BY <1>2, <1>4 DEF handle_wait_for_cache_state, LoopTypeOK, CacheTypeOK, RequestTypeOK,
                    cacheVars, requestVars
<1>5. CASE notify_request_unblocked(r)
  <2>1. calls' \in Seq(Calls) /\ state' \in [Requests -> States]
    BY <1>2, <1>3, <1>5 DEF notify_request_unblocked, States, RequestTypeOK
  <2> QED BY <1>5, <2>1 DEF notify_request_unblocked, LoopTypeOK, CacheTypeOK, RequestTypeOK,
                            cacheVars
<1>6. CASE handle_read_cache_state(r)
  <2>1. <<Call("transfer_headers", r), Call("pipe", r)>> \in Seq(Calls)
    <3>1. Call("transfer_headers", r) \in Calls /\ Call("pipe", r) \in Calls
      BY CallType DEF Ops
    <3> QED BY <3>1
  <2>2. calls' \in Seq(Calls) /\ state' \in [Requests -> States]
    BY <1>1, <1>3, <1>6, <2>1, ThenType DEF handle_read_cache_state, States, RequestTypeOK
  <2>3. log' \in [Requests -> Seq(Messages)]
    BY <1>6, InformType DEF handle_read_cache_state, RequestTypeOK
  <2> QED BY <1>6, <2>2, <2>3 DEF handle_read_cache_state, LoopTypeOK, CacheTypeOK,
                                  RequestTypeOK, cacheVars
<1>7. CASE handle_dns_lookup_state(r)
  <2>1. AfterLookup(r) \subseteq States
    BY DEF AfterLookup, States
  <2>2. calls' \in Seq(Calls) /\ state' \in [Requests -> States]
    BY <1>2, <1>3, <1>7, <2>1 DEF handle_dns_lookup_state, RequestTypeOK
  <2>3. resolving' \in SUBSET Requests
    BY <1>7 DEF handle_dns_lookup_state, Asking, RequestTypeOK
  <2> QED BY <1>7, <2>2, <2>3 DEF handle_dns_lookup_state, LoopTypeOK, CacheTypeOK,
                                  RequestTypeOK, cacheVars
<1>8. CASE handle_connect_state(r)
  BY <1>2, <1>8 DEF handle_connect_state, LoopTypeOK, CacheTypeOK, RequestTypeOK, cacheVars
<1>9. CASE handle_fetch_state(r)
  <2>1. calls' \in Seq(Calls) /\ state' \in [Requests -> States]
    BY <1>2, <1>3, <1>9 DEF handle_fetch_state, States, RequestTypeOK
  <2>2. log' \in [Requests -> Seq(Messages)]
    BY <1>9, InformType DEF handle_fetch_state, InformUnlessRevalidating, RequestTypeOK
  <2> QED BY <1>9, <2>1, <2>2 DEF handle_fetch_state, LoopTypeOK, CacheTypeOK,
                                  RequestTypeOK, cacheVars
<1> QED BY <1>4, <1>5, <1>6, <1>7, <1>8, <1>9

(* A lookup settles.                                                       *)
LEMMA LookupType ==
    ASSUME TypeOK, NEW r \in Requests, DNSLookupSettled(r)
    PROVE  TypeOK'
<1>1. AfterLookup(r) \subseteq States
  BY DEF AfterLookup, States
<1>2. <<Call("process", r)>> \in Seq(Calls)
  BY CallType DEF Ops
<1>3. CASE Terminate
  BY <1>3, TerminateType
<1>4. CASE ~Terminate
  <2>1. calls' \in Seq(Calls) /\ state' \in [Requests -> States]
    BY <1>1, <1>2, <1>4 DEF DNSLookupSettled, TypeOK, LoopTypeOK, RequestTypeOK, loopVars
  <2> QED BY <1>4, <2>1 DEF DNSLookupSettled, TypeOK, LoopTypeOK, CacheTypeOK, RequestTypeOK,
                            loopVars, cacheVars
<1> QED BY <1>3, <1>4

(* The states a request ends in.                                           *)
LEMMA EndingTypes ==
    ASSUME TypeOK, NEW r \in Requests,
           handle_complete_state(r) \/ finish(r) \/ handle_error_state(r) \/ settle(r)
             \/ remove_request(r) \/ destroy(r)
    PROVE  TypeOK'
<1>1. calls # << >>
  BY DEF handle_complete_state, finish, handle_error_state, settle, remove_request, destroy,
         Processing, Calling
<1>2. Return => calls' \in Seq(Calls)
  BY <1>1, ReturnType DEF TypeOK
<1>3. Defer(request_complete(r)) => queued_events' \in Seq(Seq(Calls))
  BY RequestCompleteType, DeferType DEF TypeOK
<1>4. /\ Call("transfer_headers", r) \in Calls /\ Call("finish", r) \in Calls
      /\ Call("destroy", r) \in Calls /\ Call("close", r) \in Calls
      /\ Key[r] \in Keys
  BY CallType, CacheAssumption DEF Ops
<1> USE DEF TypeOK
<1>5. CASE handle_complete_state(r)
  <2>1. <<Call("transfer_headers", r), Call("finish", r)>> \in Seq(Calls)
    BY <1>4
  <2>2. calls' \in Seq(Calls) /\ queued_events' \in Seq(Seq(Calls))
    BY <1>1, <1>2, <1>3, <1>5, <2>1, ThenType DEF handle_complete_state, LoopTypeOK
  <2> QED BY <1>5, <2>2 DEF handle_complete_state, LoopTypeOK, CacheTypeOK, RequestTypeOK,
                            cacheVars, requestVars
<1>6. CASE finish(r)
  <2>1. calls' \in Seq(Calls)
    BY <1>2, <1>6 DEF finish
  <2>2. log' \in [Requests -> Seq(Messages)]
    BY <1>6, TellType DEF finish, Messages
  <2>3. queued_events' \in Seq(Seq(Calls))
    <3>1. Resumption(r) \o request_complete(r) \in Seq(Seq(Calls))
      BY ResumptionType, RequestCompleteType
    <3> QED BY <1>3, <1>6, <3>1, DeferType DEF finish
  <2>4. CacheTypeOK'
    <3>1. CASE UNCHANGED cacheVars
      BY <3>1 DEF cacheVars, CacheTypeOK
    <3>2. CASE remove(Key[r]) /\ CloseEntry(r, "none")
      BY <1>4, <3>2, RemoveType, CloseEntryType DEF CacheTypeOK, Entries
    <3> QED BY <1>6, <3>1, <3>2 DEF finish
  <2>5. result' \in [Requests -> {"none", "ok", "recv_error", "error"}]
    BY <1>6 DEF finish, RequestTypeOK
  <2>6. writerRef' \in SUBSET Requests
    BY <1>6 DEF finish, RequestTypeOK
  <2> QED BY <1>6, <2>1, <2>2, <2>3, <2>4, <2>5, <2>6 DEF finish, LoopTypeOK, RequestTypeOK
<1>7. CASE handle_error_state(r)
  <2>1. log' \in [Requests -> Seq(Messages)]
    BY <1>7, TellType DEF handle_error_state, Messages, RequestTypeOK
  <2> QED BY <1>2, <1>3, <1>7, <2>1 DEF handle_error_state, LoopTypeOK, CacheTypeOK,
                                        RequestTypeOK, cacheVars
<1>8. CASE settle(r)
  <2>1. calls' \in Seq(Calls) /\ state' \in [Requests -> States]
    BY <1>1, <1>2, <1>8, EnterType DEF settle, States, RequestTypeOK
  <2>2. result' \in [Requests -> {"none", "ok", "recv_error", "error"}]
    BY <1>8 DEF settle, ResultCodes, RequestTypeOK
  <2> QED BY <1>8, <2>1, <2>2 DEF settle, LoopTypeOK, CacheTypeOK, RequestTypeOK, cacheVars
<1>9. CASE remove_request(r)
  <2>1. <<Call("destroy", r)>> \in Seq(Calls)
    BY <1>4
  <2>2. calls' \in Seq(Calls)
    BY <1>1, <1>2, <1>9, <2>1, ThenType DEF remove_request
  <2> QED BY <1>9, <2>2 DEF remove_request, LoopTypeOK, CacheTypeOK, RequestTypeOK,
                            cacheVars, requestVars
<1>10. CASE destroy(r)
  <2>1. <<Call("close", r)>> \in Seq(Calls)
    BY <1>4
  <2>2. calls' \in Seq(Calls)
    BY <1>1, <1>2, <1>10, <2>1, ThenType DEF destroy, flush
  <2>3. index' \in [Keys -> Rows] /\ file' \in [Keys -> Files]
    <3>1. CASE remove(Key[r])
      BY <1>4, <3>1, RemoveType
    <3>2. CASE ~remove(Key[r])
      BY <1>4, <1>10, <3>2 DEF destroy, flush, CacheTypeOK, Rows
    <3> QED BY <3>1, <3>2
  <2>4. LoopTypeOK' /\ CacheTypeOK'
    BY <1>10, <2>2, <2>3 DEF destroy, LoopTypeOK, CacheTypeOK
  <2>5. RequestTypeOK'
    BY <1>10 DEF destroy, RequestTypeOK, States
  <2> QED BY <2>4, <2>5
<1> QED BY <1>5, <1>6, <1>7, <1>8, <1>9, <1>10

(* The body on its way to the client and to the cache.                     *)
LEMMA WriteToCacheType ==
    ASSUME TypeOK, NEW r \in Requests, WriteToCache(r)
    PROVE  CacheTypeOK' /\ queued_events' \in Seq(Seq(Calls)) /\ writerRef' \in SUBSET Requests
<1>1. CASE LoseWriter(r)
  BY <1>1, LoseWriterType
<1>2. CASE UNCHANGED <<queued_events, cacheVars, writerRef>>
  BY <1>2 DEF TypeOK, LoopTypeOK, CacheTypeOK, RequestTypeOK, cacheVars
<1> QED BY <1>1, <1>2 DEF WriteToCache

(* Writing to the client's pipe keeps the types, however much it takes.    *)
LEMMA WritingTypes ==
    ASSUME TypeOK, calls # << >>, NEW r \in Requests, NEW inCallback \in BOOLEAN,
           WriteAll(r) \/ WriteSome(r) \/ WriteNothing(r) \/ WriteFails(r, inCallback)
    PROVE  /\ LoopTypeOK'
           /\ CacheTypeOK'
           /\ state' \in [Requests -> States]
           /\ writerRef' \in SUBSET Requests
           /\ curl' \in [Requests -> {"none", "running", "aborted", "done"}]
           /\ buffered' \in SUBSET Requests
           /\ sent' \in SUBSET Requests
           /\ notifying' \in SUBSET Requests
<1>1. Return => calls' \in Seq(Calls)
  BY ReturnType DEF TypeOK
<1>2. CASE WriteAll(r)
  <2>1. CacheTypeOK' /\ queued_events' \in Seq(Seq(Calls)) /\ writerRef' \in SUBSET Requests
    BY <1>2, WriteToCacheType DEF WriteAll
  <2>2. calls' \in Seq(Calls) /\ state' \in [Requests -> States]
    BY <1>1, <1>2, EnterType DEF WriteAll, CompleteIfDrained, TypeOK, RequestTypeOK, States
  <2> QED BY <1>2, <2>1, <2>2 DEF WriteAll, TypeOK, LoopTypeOK, RequestTypeOK
<1>3. CASE WriteSome(r)
  <2>1. CacheTypeOK' /\ queued_events' \in Seq(Seq(Calls)) /\ writerRef' \in SUBSET Requests
    BY <1>3, WriteToCacheType DEF WriteSome
  <2> QED BY <1>1, <1>3, <2>1 DEF WriteSome, TypeOK, LoopTypeOK, RequestTypeOK
<1>4. CASE WriteNothing(r)
  BY <1>1, <1>4 DEF WriteNothing, TypeOK, LoopTypeOK, CacheTypeOK, RequestTypeOK, cacheVars
<1>5. CASE WriteFails(r, inCallback)
  BY <1>1, <1>5 DEF WriteFails, TypeOK, LoopTypeOK, CacheTypeOK, RequestTypeOK, cacheVars
<1> QED BY <1>2, <1>3, <1>4, <1>5

(* Headers and body on their way to the client and the cache keep the      *)
(* types.                                                                  *)
LEMMA ResponseTypes ==
    ASSUME TypeOK, NEW r \in Requests,
           \/ transfer_headers_to_client_if_needed(r) \/ write_queued_bytes_without_blocking(r)
           \/ ClientPipeWritable(r) \/ on_client_pipe_writable(r)
    PROVE  TypeOK'
<1>1. CASE transfer_headers_to_client_if_needed(r)
  <2>1. calls' \in Seq(Calls)
    BY <1>1, ReturnType DEF transfer_headers_to_client_if_needed, Calling, TypeOK
  <2>2. log' \in [Requests -> Seq(Messages)]
    BY <1>1, TellType DEF transfer_headers_to_client_if_needed, Messages, TypeOK, RequestTypeOK
  <2>3. CacheTypeOK' /\ queued_events' \in Seq(Seq(Calls)) /\ writerRef' \in SUBSET Requests
    <3>1. CASE LoseWriter(r)
      BY <3>1, LoseWriterType
    <3>2. CASE ~LoseWriter(r)
      BY <1>1, <3>2 DEF transfer_headers_to_client_if_needed, TypeOK, LoopTypeOK, CacheTypeOK,
                        RequestTypeOK, cacheVars
    <3> QED BY <3>1, <3>2
  <2> QED BY <1>1, <2>1, <2>2, <2>3
          DEF transfer_headers_to_client_if_needed, TypeOK, LoopTypeOK, RequestTypeOK
<1>2. CASE write_queued_bytes_without_blocking(r)
  BY <1>2, WritingTypes
  DEF write_queued_bytes_without_blocking, Calling, TypeOK, RequestTypeOK
<1>3. CASE ClientPipeWritable(r)
  <2>1. Call("activate", r) \in Calls
    BY CallType DEF Ops
  <2>2. <<<<Call("activate", r)>>>> \in Seq(Seq(Calls))
    BY <2>1
  <2>3. queued_events' \in Seq(Seq(Calls))
    BY <1>3, <2>2, DeferType DEF ClientPipeWritable, TypeOK
  <2> QED BY <1>3, <2>3 DEF ClientPipeWritable, TypeOK, LoopTypeOK, CacheTypeOK,
                            RequestTypeOK, cacheVars, requestVars
<1>4. CASE on_client_pipe_writable(r)
  <2>1. calls # << >>
    BY <1>4 DEF on_client_pipe_writable, Calling
  <2>2. CASE Alive(r)
    BY <1>4, <2>1, <2>2, WritingTypes DEF on_client_pipe_writable, TypeOK, RequestTypeOK
  <2>3. CASE ~Alive(r)
    BY <1>4, <2>1, <2>3, ReturnType DEF on_client_pipe_writable, TypeOK, LoopTypeOK,
                                        CacheTypeOK, RequestTypeOK, cacheVars
  <2> QED BY <2>2, <2>3
<1> QED BY <1>1, <1>2, <1>3, <1>4

(* A stored body on its way to the client.                                 *)
LEMMA PipeTypes ==
    ASSUME TypeOK, NEW r \in Requests,
           \/ pipe_without_blocking(r) \/ ReaderPipeWritable(r)
           \/ on_reader_pipe_writable(r) \/ close(r)
    PROVE  TypeOK'
<1>1. /\ Call("process", r) \in Calls /\ Call("close", r) \in Calls /\ Call("pipe", r) \in Calls
      /\ Call("pipe_activate", r) \in Calls /\ Key[r] \in Keys
  BY CallType, CacheAssumption DEF Ops
<1>2. CASE PipeOverruns(r)
  BY <1>2, TerminateType DEF PipeOverruns
<1>3. CASE pipe_without_blocking(r) /\ ~PipeOverruns(r)
  <2>1. calls # << >>
    BY <1>3 DEF pipe_without_blocking, Calling
  <2>2. <<Call("process", r), Call("close", r)>> \in Seq(Calls)
    BY <1>1
  <2>3. calls' \in Seq(Calls)
    BY <1>3, <2>1, <2>2, ThenType, ReturnType
    DEF pipe_without_blocking, PipeComplete, PipeBlocked, PipeError, TypeOK
  <2>4. index' \in [Keys -> Rows] /\ file' \in [Keys -> Files]
    BY <1>1, <1>3, RemoveType
    DEF pipe_without_blocking, PipeComplete, PipeBlocked, PipeError, TypeOK, CacheTypeOK
  <2>5. /\ state' \in [Requests -> States]
        /\ result' \in [Requests -> {"none", "ok", "recv_error", "error"}]
        /\ sent' \in SUBSET Requests /\ piping' \in SUBSET Requests
    BY <1>3 DEF pipe_without_blocking, PipeComplete, PipeBlocked, PipeError, TypeOK,
                RequestTypeOK, States
  <2> QED BY <1>3, <2>3, <2>4, <2>5
          DEF pipe_without_blocking, TypeOK, LoopTypeOK, CacheTypeOK, RequestTypeOK
<1>4. CASE ReaderPipeWritable(r)
  <2>1. <<<<Call("pipe_activate", r)>>>> \in Seq(Seq(Calls))
    BY <1>1
  <2>2. queued_events' \in Seq(Seq(Calls))
    BY <1>4, <2>1, DeferType DEF ReaderPipeWritable, TypeOK
  <2> QED BY <1>4, <2>2 DEF ReaderPipeWritable, TypeOK, LoopTypeOK, CacheTypeOK,
                            RequestTypeOK, cacheVars, requestVars
<1>5. CASE on_reader_pipe_writable(r)
  <2>1. calls # << >> /\ <<Call("pipe", r)>> \in Seq(Calls) /\ <<Call("close", r)>> \in Seq(Calls)
    BY <1>1, <1>5 DEF on_reader_pipe_writable, Calling
  <2>2. CASE Alive(r) \/ entry[r] = "none"
    <3>1. calls' \in Seq(Calls)
      BY <1>5, <2>1, <2>2, ThenType, ReturnType DEF on_reader_pipe_writable, TypeOK
    <3> QED BY <1>5, <2>2, <3>1 DEF on_reader_pipe_writable, TypeOK, LoopTypeOK, CacheTypeOK,
                                    RequestTypeOK, cacheVars, requestVars
  <2>3. CASE Terminate
    BY <2>3, TerminateType
  <2>4. CASE ~Alive(r) /\ entry[r] # "none" /\ ~Terminate
    <3>1. calls' \in Seq(Calls)
      BY <1>5, <2>1, <2>4, ThenType DEF on_reader_pipe_writable, TypeOK
    <3>2. index' \in [Keys -> Rows] /\ file' \in [Keys -> Files]
      BY <1>1, <1>5, <2>4, RemoveType DEF on_reader_pipe_writable, TypeOK
    <3>3. log' \in [Requests -> Seq(Messages)]
      BY <1>5, <2>4, TellType DEF on_reader_pipe_writable, TypeOK, Messages
    <3> QED BY <1>5, <2>4, <3>1, <3>2, <3>3
            DEF on_reader_pipe_writable, TypeOK, LoopTypeOK, CacheTypeOK, RequestTypeOK
  <2> QED BY <2>2, <2>3, <2>4
<1>6. CASE close(r)
  <2>1. calls' \in Seq(Calls)
    BY <1>6, ReturnType DEF close, Calling, TypeOK
  <2>2. queued_events' \in Seq(Seq(Calls))
    BY <1>6, ResumptionType, DeferType DEF close, TypeOK
  <2>3. /\ entry' \in [Requests -> Entries] /\ marked' \in SUBSET Requests
        /\ headed' \in SUBSET Requests /\ waiting' \in [Keys -> Seq(Requests)]
    BY <1>6, CloseEntryType DEF close, TypeOK, Entries
  <2>4. index' \in [Keys -> Rows] /\ file' \in [Keys -> Files]
    BY <1>1, <1>6 DEF close, TypeOK, CacheTypeOK, Files
  <2> QED BY <1>6, <2>1, <2>2, <2>3, <2>4
          DEF close, TypeOK, LoopTypeOK, CacheTypeOK, RequestTypeOK, requestVars
<1> QED BY <1>2, <1>3, <1>4, <1>5, <1>6

(* The callbacks of curl.                                                  *)
LEMMA RevalidationFailedType ==
    ASSUME TypeOK, NEW r \in Requests, NEW e \in {"writer", "none"}, RevalidationFailed(r, e)
    PROVE  CacheTypeOK' /\ queued_events' \in Seq(Seq(Calls)) /\ readerRef' \in SUBSET Requests
<1>1. /\ entry' \in [Requests -> Entries] /\ marked' \in SUBSET Requests
      /\ headed' \in SUBSET Requests /\ waiting' \in [Keys -> Seq(Requests)]
  BY CloseEntryType DEF RevalidationFailed, TypeOK, Entries
<1>2. index' \in [Keys -> Rows] /\ file' \in [Keys -> Files]
  BY DEF RevalidationFailed, TypeOK, CacheTypeOK, Rows, Files
<1>3. queued_events' \in Seq(Seq(Calls))
  BY ResumptionType, DeferType DEF RevalidationFailed, TypeOK
<1> QED BY <1>1, <1>2, <1>3 DEF RevalidationFailed, TypeOK, CacheTypeOK, RequestTypeOK

(* The callbacks of curl keep the types.                                   *)
LEMMA CurlTypes ==
    ASSUME TypeOK, NEW r \in Requests, on_data_received(r) \/ notify_fetch_complete(r)
    PROVE  TypeOK'
<1>1. /\ Call("transfer_headers", r) \in Calls /\ Call("write_queued", r) \in Calls
      /\ Call("process", r) \in Calls /\ Call("settle", r) \in Calls
  BY CallType DEF Ops
<1>2. /\ <<Call("transfer_headers", r), Call("write_queued", r)>> \in Seq(Calls)
      /\ <<Call("transfer_headers", r), Call("settle", r)>> \in Seq(Calls)
      /\ <<Call("process", r)>> \in Seq(Calls) /\ <<Call("settle", r)>> \in Seq(Calls)
  BY <1>1
<1>3. CASE on_data_received(r)
  <2>1. CASE is_revalidation_request(r)
    <3>1. CacheTypeOK' /\ queued_events' \in Seq(Seq(Calls)) /\ readerRef' \in SUBSET Requests
      BY <1>3, <2>1, RevalidationFailedType DEF on_data_received, ReplaceStoredResponse
    <3>2. calls' \in Seq(Calls) /\ state' \in [Requests -> States]
      BY <1>2, <1>3, <2>1
      DEF on_data_received, ReplaceStoredResponse, TypeOK, RequestTypeOK, States
    <3>3. log' \in [Requests -> Seq(Messages)]
      BY <1>3, <2>1, InformType
      DEF on_data_received, ReplaceStoredResponse, TypeOK, RequestTypeOK
    <3>4. /\ writerRef' \in SUBSET Requests /\ buffered' \in SUBSET Requests
          /\ curl' \in [Requests -> {"none", "running", "aborted", "done"}]
      BY <1>3, <2>1 DEF on_data_received, ReplaceStoredResponse, TypeOK, RequestTypeOK
    <3> QED BY <1>3, <3>1, <3>2, <3>3, <3>4
            DEF on_data_received, TypeOK, LoopTypeOK, RequestTypeOK
  <2>2. CASE ~is_revalidation_request(r)
    BY <1>2, <1>3, <2>2
    DEF on_data_received, TypeOK, LoopTypeOK, CacheTypeOK, RequestTypeOK, cacheVars
  <2> QED BY <2>1, <2>2
<1>4. CASE notify_fetch_complete(r)
  <2>1. CASE is_revalidation_request(r) /\ NotModified(r)
    <3>1. CacheTypeOK' /\ queued_events' \in Seq(Seq(Calls))
      <4>1. CASE r \in Revalidations
        BY <2>1, <4>1, CloseEntryType, ResumptionType, DeferType
        DEF NotModified, TypeOK, CacheTypeOK, Entries
      <4>2. CASE r \notin Revalidations
        BY <2>1, <4>2 DEF NotModified, TypeOK, LoopTypeOK, CacheTypeOK, cacheVars
      <4> QED BY <4>1, <4>2
    <3>2. calls' \in Seq(Calls) /\ state' \in [Requests -> States]
      BY <1>2, <2>1 DEF NotModified, TypeOK, RequestTypeOK, States
    <3> QED BY <1>4, <2>1, <3>1, <3>2
            DEF notify_fetch_complete, NotModified, TypeOK, LoopTypeOK, RequestTypeOK
  <2>2. CASE is_revalidation_request(r) /\ Modified(r)
    <3>1. CacheTypeOK' /\ queued_events' \in Seq(Seq(Calls)) /\ readerRef' \in SUBSET Requests
      BY <2>2, RevalidationFailedType DEF Modified
    <3>2. calls' \in Seq(Calls) /\ state' \in [Requests -> States]
      BY <1>2, <2>2 DEF Modified, TypeOK, RequestTypeOK, States
    <3>3. log' \in [Requests -> Seq(Messages)]
      BY <2>2, InformType DEF Modified, TypeOK, RequestTypeOK
    <3> QED BY <1>4, <2>2, <3>1, <3>2, <3>3
            DEF notify_fetch_complete, TypeOK, LoopTypeOK, RequestTypeOK
  <2>3. CASE ~is_revalidation_request(r)
    BY <1>2, <1>4, <2>3
    DEF notify_fetch_complete, TypeOK, LoopTypeOK, CacheTypeOK, RequestTypeOK, cacheVars
  <2> QED BY <1>4, <2>1, <2>2, <2>3 DEF notify_fetch_complete
<1> QED BY <1>3, <1>4

(* Type correctness of the whole server.                                   *)
LEMMA NextType == TypeOK /\ [Next]_vars => TypeOK'
<1> SUFFICES ASSUME TypeOK, [Next]_vars PROVE TypeOK'
  OBVIOUS
<1>1. ASSUME NEW r \in Requests, RequestCall(r) PROVE TypeOK'
  BY <1>1, InitialStateType, BeginningTypes, EndingTypes, ResponseTypes, PipeTypes
  DEF RequestCall
<1>2. ASSUME NEW c \in Clients, die(c) \/ disconnect(c) PROVE TypeOK'
  BY <1>2, ConnectionTypes
<1>3. ASSUME NEW r \in Requests, RequestEvent(r) PROVE TypeOK'
  BY <1>3, MessageTypes, LookupType, CurlTypes, ResponseTypes, PipeTypes
  DEF RequestEvent
<1>4. CASE dispatch
  BY <1>4 DEF dispatch, DispatchQueuedEvent, TypeOK, LoopTypeOK, CacheTypeOK, RequestTypeOK,
              cacheVars, requestVars
<1>5. CASE remove_cache_entries_accessed_since
  BY <1>5, ClearingType
<1>6. CASE crash
  BY <1>6, TerminateType DEF crash
<1>7. CASE UNCHANGED vars
  BY <1>7 DEF vars, loopVars, cacheVars, requestVars, TypeOK, LoopTypeOK, CacheTypeOK,
              RequestTypeOK
<1> QED BY <1>1, <1>2, <1>3, <1>4, <1>5, <1>6, <1>7 DEF Next, Turn

(* Every variable of the event loop, the disk cache and the requests keeps *)
(* its type, whatever the handlers of Request and ConnectionFromClient do. *)
THEOREM TypeCorrectness == Spec => []TypeOK
<1>1. Init => TypeOK
  <2>1. << >> \in Seq(Calls) /\ << >> \in Seq(Seq(Calls)) /\ << >> \in Seq(Requests)
        /\ << >> \in Seq(Messages)
    OBVIOUS
  <2> QED BY <2>1 DEF Init, LoopInit, CacheInit, TypeOK, LoopTypeOK, CacheTypeOK,
                      RequestTypeOK, Rows, Files, Entries, States
<1> QED BY <1>1, NextType, PTL DEF Spec

-----------------------------------------------------------------------------
(* Exclusion of writers.                                                   *)

(* r opens a reader beside readers only, or a writer where nobody else has *)
(* anything open.                                                          *)
OpensReader(r) ==
    /\ \E e \in Readers : entry' = [entry EXCEPT ![r] = e]
    /\ \A o \in OpenEntries(Key[r]) : entry[o] # "writer"

OpensWriter(r) ==
    /\ entry' = [entry EXCEPT ![r] = "writer"]
    /\ OpenEntries(Key[r]) \subseteq {r}

Closes(r) == entry' = [entry EXCEPT ![r] = "none"]

(* What handle_initial_state does to the open entries.                     *)
LEMMA InitialStateEntries ==
    ASSUME TypeOK, NEW r \in Requests, handle_initial_state(r)
    PROVE  UNCHANGED entry \/ OpensReader(r) \/ OpensWriter(r)
<1>1. PICK o \in open_entry(r, r \in Revalidations, Locking) :
        \/ UNCHANGED entry
        \/ o.answer \in Readers /\ entry' = [entry EXCEPT ![r] = o.answer]
        \/ "writer" \in create_entry(r, Locking) /\ entry' = [entry EXCEPT ![r] = "writer"]
  BY DEF handle_initial_state, InitBlocked, InitReader, InitUncached, InitWriter
<1>2. CASE o.answer \in Readers /\ entry' = [entry EXCEPT ![r] = o.answer]
  <2>1. ~check_if_cache_has_open_entry(r, r \in Revalidations, Locking)
    BY <1>2, OpenEntryType DEF TypeOK
  <2> QED BY <1>2, <2>1 DEF OpensReader, check_if_cache_has_open_entry
<1>3. CASE "writer" \in create_entry(r, Locking) /\ entry' = [entry EXCEPT ![r] = "writer"]
  <2>1. ~check_if_cache_has_open_entry(r, TRUE, Locking)
    BY <1>3 DEF create_entry
  <2> QED BY <1>3, <2>1 DEF OpensWriter, check_if_cache_has_open_entry
<1> QED BY <1>1, <1>2, <1>3

(* What any step does to them, and which step opens one.                   *)
LEMMA EntriesChange ==
    ASSUME TypeOK, [Next]_vars
    PROVE  \/ UNCHANGED entry
           \/ entry' = [r \in Requests |-> "none"]
           \/ \E r \in Requests :
                  \/ Closes(r)
                  \/ handle_initial_state(r) /\ (OpensReader(r) \/ OpensWriter(r))
                  \/ on_data_received(r) /\ OpensWriter(r)
<1> DEFINE Changes == \/ UNCHANGED entry
                      \/ entry' = [r \in Requests |-> "none"]
                      \/ \E r \in Requests :
                             \/ Closes(r)
                             \/ handle_initial_state(r) /\ (OpensReader(r) \/ OpensWriter(r))
                             \/ on_data_received(r) /\ OpensWriter(r)
<1>1. ASSUME NEW r \in Requests, RequestCall(r) PROVE Changes
  <2>1. CASE handle_initial_state(r)
    BY <2>1, InitialStateEntries
  <2>2. CASE \/ handle_read_cache_state(r) \/ handle_wait_for_cache_state(r)
             \/ handle_dns_lookup_state(r) \/ handle_connect_state(r) \/ handle_fetch_state(r)
             \/ handle_complete_state(r) \/ handle_error_state(r)
             \/ notify_request_unblocked(r) \/ settle(r)
             \/ remove_request(r) \/ destroy(r)
    BY <2>2 DEF handle_read_cache_state, handle_wait_for_cache_state, handle_dns_lookup_state,
                handle_connect_state, handle_fetch_state, handle_complete_state,
                handle_error_state, notify_request_unblocked, settle, remove_request, destroy, cacheVars
  <2>3. CASE transfer_headers_to_client_if_needed(r)
    BY <2>3 DEF transfer_headers_to_client_if_needed, LoseWriter, CloseEntry, Closes, cacheVars
  <2>4. CASE write_queued_bytes_without_blocking(r)
    BY <2>4 DEF write_queued_bytes_without_blocking, WriteAll, WriteSome, WriteNothing,
                WriteFails, WriteToCache, LoseWriter, CloseEntry, Closes, cacheVars
  <2>5. CASE on_client_pipe_writable(r)
    BY <2>5 DEF on_client_pipe_writable, WriteAll, WriteSome, WriteNothing, WriteFails,
                WriteToCache, LoseWriter, CloseEntry, Closes, cacheVars
  <2>6. CASE pipe_without_blocking(r) \/ on_reader_pipe_writable(r)
    BY <2>6 DEF pipe_without_blocking, PipeOverruns, on_reader_pipe_writable, Terminate,
                cacheVars
  <2>7. CASE finish(r) \/ close(r)
    BY <2>7 DEF finish, close, CloseEntry, Closes, cacheVars
  <2> QED BY <1>1, <2>1, <2>2, <2>3, <2>4, <2>5, <2>6, <2>7 DEF RequestCall
<1>2. ASSUME NEW c \in Clients, die(c) \/ disconnect(c) PROVE Changes
  BY <1>2 DEF die, disconnect, cacheVars
<1>3. ASSUME NEW r \in Requests, RequestEvent(r) PROVE Changes
  <2>1. CASE \/ start_request(r) \/ ensure_connection(r) \/ stop_request(r)
             \/ ClientPipeWritable(r) \/ ReaderPipeWritable(r)
    BY <2>1 DEF start_request, ensure_connection, stop_request, ClientPipeWritable,
                ReaderPipeWritable, cacheVars
  <2>2. CASE DNSLookupSettled(r)
    BY <2>2 DEF DNSLookupSettled, Terminate, cacheVars
  <2>3. CASE on_data_received(r)
    BY <2>3 DEF on_data_received, ReplaceStoredResponse, RevalidationFailed, CloseEntry,
                IsLastOpenEntry, Closes, OpensWriter, cacheVars
  <2>4. CASE notify_fetch_complete(r)
    BY <2>4 DEF notify_fetch_complete, NotModified, Modified, RevalidationFailed, CloseEntry,
                Closes, cacheVars
  <2> QED BY <1>3, <2>1, <2>2, <2>3, <2>4 DEF RequestEvent
<1>4. CASE dispatch \/ remove_cache_entries_accessed_since \/ crash \/ UNCHANGED vars
  BY <1>4 DEF dispatch, remove_cache_entries_accessed_since, remove_entries_accessed_since,
              crash, Terminate, vars, cacheVars
<1> QED BY <1>1, <1>2, <1>3, <1>4 DEF Next, Turn

(* No entry is open beside one that is being written.                      *)
THEOREM WritersAreExclusive == Spec => []WriterIsExclusive
<1> DEFINE IInv == TypeOK /\ WriterIsExclusive
<1>1. Init => WriterIsExclusive
  BY DEF Init, CacheInit, WriterIsExclusive
<1>2. IInv /\ [Next]_vars => WriterIsExclusive'
  <2> SUFFICES ASSUME TypeOK, WriterIsExclusive, [Next]_vars,
                      NEW w \in Requests, NEW o \in Requests,
                      entry'[w] = "writer", entry'[o] # "none", Key[o] = Key[w]
               PROVE  o = w
    BY DEF WriterIsExclusive
  <2>1. entry \in [Requests -> Entries]
    BY DEF TypeOK, CacheTypeOK
  <2>2. CASE UNCHANGED entry \/ entry' = [r \in Requests |-> "none"]
    BY <2>2 DEF WriterIsExclusive
  <2>3. ASSUME NEW r \in Requests, Closes(r) PROVE o = w
    BY <2>1, <2>3 DEF Closes, WriterIsExclusive
  <2>4. ASSUME NEW r \in Requests, OpensReader(r) PROVE o = w
    BY <2>1, <2>4 DEF OpensReader, OpenEntries, Readers, WriterIsExclusive
  <2>5. ASSUME NEW r \in Requests, OpensWriter(r) PROVE o = w
    BY <2>1, <2>5 DEF OpensWriter, OpenEntries, WriterIsExclusive
  <2> QED BY <2>2, <2>3, <2>4, <2>5, EntriesChange
<1> QED BY <1>1, <1>2, TypeCorrectness, PTL DEF Spec

-----------------------------------------------------------------------------
(* How the requests share the cache: who has a key to himself, who is      *)
(* resumed, what may be dereferenced, and what the clients are told.       *)
(* These theorems rest on one invariant over the whole of a turn.          *)

(***************************************************************************)
(* The invariant.  First the turns: what the calls of one turn, and the    *)
(* queued turns, have to do with each other.                               *)
(***************************************************************************)

(* The calls that drive a request on, and those that end one.              *)
Drivers == {"process", "unblock", "pipe", "pipe_activate", "write_queued", "activate",
            "settle", "finish"}

Ends == {"destroy", "remove", "die"}

Rivals(op, other) == (op \in Drivers /\ other \in Drivers) \/ (op = "close" /\ other = "close")

(* Two calls of one turn.  A request is driven by one call at a time and   *)
(* its entry closed once; it does not end in a turn that drives one; the   *)
(* notifier of a reader is activated in a turn of its own.                 *)
Compatible(c, d) ==
    /\ ~(c.on = d.on /\ Rivals(c.op, d.op))
    /\ c.op \in Ends => d.op \in Ends \cup {"close"}
    /\ d.op \in Ends => c.op \in Ends \cup {"close"}
    /\ c.op # "pipe_activate" /\ d.op # "pipe_activate"

TurnOK(turn) == \A i, j \in 1 .. Len(turn) : i # j => Compatible(turn[i], turn[j])

(* call is in one of the turns of the queue q.                             *)
Queued(call, q) == \E i \in 1 .. Len(q) : IsIn(call, q[i])

(* Calls that there is one of, in all the turns together.                  *)
Once == {"unblock", "pipe_activate"}

(* The queue q, while the calls of `turn' are left of the current one.     *)
QueueOK(turn, q) ==
    /\ \A i \in 1 .. Len(q) : TurnOK(q[i])
    /\ \A i, j \in 1 .. Len(q) : \A call \in Calls :
           call.op \in Once /\ IsIn(call, q[i]) /\ IsIn(call, q[j]) => i = j
    /\ \A call \in Calls : Queued(call, q) =>
           /\ call.op \in {"unblock", "remove", "activate", "pipe_activate"}
           /\ call.op \in Once => ~IsIn(call, turn)

(***************************************************************************)
(* Next, the requests.                                                     *)
(***************************************************************************)

(* The response of r flows to the client, and no longer from the cache.    *)
Flows(r) == state[r] \in {"Fetch", "Complete"} /\ curl[r] # "none" /\ r \notin readerRef

(* What holds of r while a call of op on it is still to come.              *)
Fits(op, r) ==
    /\ state[r] # "Unborn"
    /\ op = "process" => /\ Alive(r) /\ r \notin resolving /\ r \notin piping
                         /\ state[r] = "Fetch" => curl[r] = "none"
    /\ op = "unblock" => state[r] \in {"WaitForCache", "Destroyed"}
    /\ op = "pipe" => state[r] = "ReadCache" /\ r \notin piping
    /\ op = "pipe_activate" => (Alive(r) => r \in piping)
    /\ op = "write_queued" => Flows(r)
    /\ op = "activate" => (Alive(r) => Flows(r))
    /\ op = "settle" => /\ state[r] \in {"Fetch", "Connect", "Complete", "Error"}
                        /\ curl[r] # "none" /\ r \notin readerRef
    /\ op \in {"transfer_headers", "finish"} => Alive(r)
    /\ op = "close" => /\ entry[r] # "none"
                       /\ Alive(r) => entry[r] \in Readers /\ state[r] \in {"Complete", "Error"}

(* The states before a request has anything to do with its response.       *)
Young == {"Unborn", "Init", "WaitForCache"}

(* How the state of r, its entry with the references to it, its transfer   *)
(* and its notifiers go together.                                          *)
EntryOK(r) ==
    /\ state[r] \in Young \cup {"Connect"} =>
           entry[r] = "none" /\ r \notin readerRef /\ r \notin writerRef
    /\ Alive(r) => /\ r \in writerRef <=> entry[r] = "writer"
                   /\ entry[r] \in Readers => r \in readerRef
                   /\ entry[r] = "writer" => r \notin readerRef
    /\ entry[r] # "none" => r \in Cacheable
    /\ entry[r] \in Readers => (entry[r] = "background" <=> r \in Revalidations)
    /\ state[r] \in {"DNSLookup", "Fetch"} /\ r \in readerRef =>
           entry[r] \in {"must_revalidate", "background"}
    /\ state[r] = "ReadCache" => entry[r] \in Readers

TransferOK(r) ==
    /\ state[r] \in Young \cup {"DNSLookup"} => curl[r] = "none"
    /\ state[r] = "Connect" => r \in Connects
    /\ curl[r] \in {"running", "aborted"} =>
           /\ state[r] \in {"Fetch", "Connect", "Complete", "Error"}
           /\ curl[r] = "running" => state[r] # "Error"
           /\ r \in readerRef => state[r] = "Fetch"
    /\ r \in resolving => state[r] \in {"DNSLookup", "Destroyed"}
    /\ r \in piping => state[r] \in {"ReadCache", "Destroyed"}
    /\ r \in notifying => Flows(r)
    /\ ~Alive(r) => r \notin readerRef /\ r \notin writerRef /\ curl[r] = "none"

RequestOK(r) == EntryOK(r) /\ TransferOK(r)

(* A call of op on r is still to come, in this turn or in a later one.     *)
Pending(op, r) == IsIn(Call(op, r), calls) \/ Queued(Call(op, r), queued_events)

TurnsOK ==
    /\ TurnOK(calls)
    /\ QueueOK(calls, queued_events)
    /\ \A r \in Requests, op \in Ops : Pending(op, r) => Fits(op, r)

(* The waiting lists: every request is on one list once, that of its key,  *)
(* and waits or is gone; it is not being resumed already.                  *)
WaitingOK ==
    \A k \in Keys : \A i, j \in 1 .. Len(waiting[k]) :
        /\ waiting[k][i] = waiting[k][j] => i = j
        /\ Key[waiting[k][i]] = k
        /\ state[waiting[k][i]] \in {"WaitForCache", "Destroyed"}
        /\ ~Pending("unblock", waiting[k][i])

(* A background request starts when its fetch has left the first states.   *)
BackgroundOK == \A f \in Fetches : state[Background[f]] # "Unborn" => state[f] \notin Young

LocalInv == TypeOK /\ TurnsOK /\ (\A r \in Requests : RequestOK(r)) /\ BackgroundOK

IInv == LocalInv /\ WaitingOK /\ NoLostWakeup

-----------------------------------------------------------------------------
(* Turns as sequences of calls.                                            *)

(* Calls are equal if they are the same operation on the same object.      *)
LEMMA CallFields ==
    ASSUME NEW op, NEW x
    PROVE  /\ Call(op, x).op = op /\ Call(op, x).on = x
           /\ \A o, y : Call(op, x) = Call(o, y) <=> op = o /\ x = y
<1>1. ASSUME NEW o, NEW y PROVE Call(o, y).op = o /\ Call(o, y).on = y
  BY DEF Call
<1> QED BY <1>1

(* What is in a turn of no, one and two calls.                             *)
LEMMA ShortTurns ==
    ASSUME NEW a, NEW b
    PROVE  /\ \A c : ~IsIn(c, <<>>)
           /\ \A c : IsIn(c, <<a>>) <=> c = a
           /\ \A c : IsIn(c, <<a, b>>) <=> c = a \/ c = b
           /\ TurnOK(<<>>) /\ TurnOK(<<a>>)
           /\ Compatible(a, b) => TurnOK(<<a, b>>)
<1>1. \A c : ~IsIn(c, <<>>)
  BY DEF IsIn
<1>2. ASSUME NEW c PROVE IsIn(c, <<a>>) <=> c = a
  BY DEF IsIn
<1>3. ASSUME NEW c PROVE IsIn(c, <<a, b>>) <=> c = a \/ c = b
  <2>1. Len(<<a, b>>) = 2 /\ <<a, b>>[1] = a /\ <<a, b>>[2] = b
    OBVIOUS
  <2> QED BY <2>1 DEF IsIn
<1>4. TurnOK(<<>>) /\ TurnOK(<<a>>)
  BY DEF TurnOK
<1>5. ASSUME Compatible(a, b) PROVE TurnOK(<<a, b>>)
  <2>1. Len(<<a, b>>) = 2 /\ <<a, b>>[1] = a /\ <<a, b>>[2] = b
    OBVIOUS
  <2>2. Compatible(b, a)
    BY <1>5 DEF Compatible, Rivals
  <2> QED BY <1>5, <2>1, <2>2 DEF TurnOK
<1> QED BY <1>1, <1>2, <1>3, <1>4, <1>5

(* What is in two turns put together.                                      *)
LEMMA JoinedTurns ==
    ASSUME NEW S, NEW s \in Seq(S), NEW t \in Seq(S)
    PROVE  /\ \A c : IsIn(c, s \o t) <=> IsIn(c, s) \/ IsIn(c, t)
           /\ (/\ TurnOK(s) /\ TurnOK(t)
               /\ \A c, d \in S : IsIn(c, s) /\ IsIn(d, t) => Compatible(c, d))
              => TurnOK(s \o t)
<1>1. /\ Len(s) \in Nat /\ Len(t) \in Nat /\ Len(s \o t) = Len(s) + Len(t)
      /\ \A i \in 1 .. Len(s) + Len(t) :
             (s \o t)[i] = IF i <= Len(s) THEN s[i] ELSE t[i - Len(s)]
  BY ConcatProperties, LenProperties
<1>2. ASSUME NEW c PROVE IsIn(c, s \o t) <=> IsIn(c, s) \/ IsIn(c, t)
  <2>1. ASSUME IsIn(c, s \o t) PROVE IsIn(c, s) \/ IsIn(c, t)
    <3>1. PICK i \in 1 .. Len(s) + Len(t) : (s \o t)[i] = c
      BY <1>1, <2>1 DEF IsIn
    <3>2. CASE i <= Len(s)
      BY <1>1, <3>1, <3>2 DEF IsIn
    <3>3. CASE i > Len(s)
      <4>1. i - Len(s) \in 1 .. Len(t) /\ t[i - Len(s)] = c
        BY <1>1, <3>1, <3>3
      <4> QED BY <4>1 DEF IsIn
    <3> QED BY <1>1, <3>2, <3>3
  <2>2. ASSUME IsIn(c, s) PROVE IsIn(c, s \o t)
    <3>1. PICK i \in 1 .. Len(s) : s[i] = c
      BY <2>2 DEF IsIn
    <3>2. i \in 1 .. Len(s \o t) /\ (s \o t)[i] = c
      BY <1>1, <3>1
    <3> QED BY <3>2 DEF IsIn
  <2>3. ASSUME IsIn(c, t) PROVE IsIn(c, s \o t)
    <3>1. PICK i \in 1 .. Len(t) : t[i] = c
      BY <2>3 DEF IsIn
    <3>2. i + Len(s) \in 1 .. Len(s \o t) /\ (s \o t)[i + Len(s)] = c
      BY <1>1, <3>1
    <3> QED BY <3>2 DEF IsIn
  <2> QED BY <2>1, <2>2, <2>3
<1>3. ASSUME TurnOK(s), TurnOK(t),
             \A c, d \in S : IsIn(c, s) /\ IsIn(d, t) => Compatible(c, d)
      PROVE  TurnOK(s \o t)
  <2> SUFFICES ASSUME NEW i \in 1 .. Len(s) + Len(t), NEW j \in 1 .. Len(s) + Len(t), i # j
               PROVE  Compatible((s \o t)[i], (s \o t)[j])
    BY <1>1 DEF TurnOK
  <2>1. ASSUME NEW m \in 1 .. Len(s), NEW n \in 1 .. Len(t)
        PROVE  Compatible(s[m], t[n]) /\ Compatible(t[n], s[m])
    <3>1. s[m] \in S /\ t[n] \in S /\ IsIn(s[m], s) /\ IsIn(t[n], t)
      BY ElementOfSeq DEF IsIn
    <3>2. Compatible(s[m], t[n])
      BY <1>3, <3>1
    <3> QED BY <3>2 DEF Compatible, Rivals
  <2>2. CASE i <= Len(s) /\ j <= Len(s)
    BY <1>1, <1>3, <2>2 DEF TurnOK
  <2>3. CASE i <= Len(s) /\ j > Len(s)
    <3>1. i \in 1 .. Len(s) /\ j - Len(s) \in 1 .. Len(t)
      BY <1>1, <2>3
    <3> QED BY <1>1, <2>1, <2>3, <3>1
  <2>4. CASE i > Len(s) /\ j <= Len(s)
    <3>1. j \in 1 .. Len(s) /\ i - Len(s) \in 1 .. Len(t)
      BY <1>1, <2>4
    <3> QED BY <1>1, <2>1, <2>4, <3>1
  <2>5. CASE i > Len(s) /\ j > Len(s)
    <3>1. i - Len(s) \in 1 .. Len(t) /\ j - Len(s) \in 1 .. Len(t) /\ i - Len(s) # j - Len(s)
      BY <1>1, <2>5
    <3>2. Compatible(t[i - Len(s)], t[j - Len(s)])
      BY <1>3, <3>1 DEF TurnOK
    <3> QED BY <1>1, <2>5, <3>2
  <2> QED BY <1>1, <2>2, <2>3, <2>4, <2>5
<1> QED BY <1>2, <1>3

(* The first call of a turn and the rest.                                  *)
LEMMA FirstCall ==
    ASSUME NEW S, NEW s \in Seq(S), s # <<>>
    PROVE  /\ Tail(s) \in Seq(S) /\ Head(s) \in S
           /\ \A c : IsIn(c, s) <=> c = Head(s) \/ IsIn(c, Tail(s))
           /\ TurnOK(s) => /\ TurnOK(Tail(s))
                           /\ \A c : IsIn(c, Tail(s)) => Compatible(Head(s), c)
<1>1. /\ Len(s) \in Nat /\ Len(s) >= 1 /\ Tail(s) \in Seq(S) /\ Head(s) \in S /\ Head(s) = s[1]
      /\ Len(Tail(s)) = Len(s) - 1 /\ \A i \in 1 .. Len(s) - 1 : Tail(s)[i] = s[i + 1]
  BY HeadTailProperties, LenProperties, EmptySeq
<1>2. ASSUME NEW c PROVE IsIn(c, s) <=> c = Head(s) \/ IsIn(c, Tail(s))
  <2>1. ASSUME IsIn(c, s), c # Head(s) PROVE IsIn(c, Tail(s))
    <3>1. PICK i \in 1 .. Len(s) : s[i] = c
      BY <2>1 DEF IsIn
    <3>2. i - 1 \in 1 .. Len(s) - 1 /\ Tail(s)[i - 1] = c
      BY <1>1, <2>1, <3>1
    <3> QED BY <1>1, <3>2 DEF IsIn
  <2>2. ASSUME IsIn(c, Tail(s)) PROVE IsIn(c, s)
    <3>1. PICK i \in 1 .. Len(s) - 1 : Tail(s)[i] = c
      BY <1>1, <2>2 DEF IsIn
    <3>2. i + 1 \in 1 .. Len(s) /\ s[i + 1] = c
      BY <1>1, <3>1
    <3> QED BY <3>2 DEF IsIn
  <2>3. IsIn(Head(s), s)
    BY <1>1 DEF IsIn
  <2> QED BY <2>1, <2>2, <2>3
<1>3. ASSUME TurnOK(s) PROVE TurnOK(Tail(s))
  <2> SUFFICES ASSUME NEW i \in 1 .. Len(s) - 1, NEW j \in 1 .. Len(s) - 1, i # j
               PROVE  Compatible(Tail(s)[i], Tail(s)[j])
    BY <1>1 DEF TurnOK
  <2>1. i + 1 \in 1 .. Len(s) /\ j + 1 \in 1 .. Len(s) /\ i + 1 # j + 1
    BY <1>1
  <2>2. Compatible(s[i + 1], s[j + 1])
    BY <1>3, <2>1 DEF TurnOK
  <2> QED BY <1>1, <2>2
<1>4. ASSUME TurnOK(s), NEW c, IsIn(c, Tail(s)) PROVE Compatible(Head(s), c)
  <2>1. PICK i \in 1 .. Len(s) - 1 : Tail(s)[i] = c
    BY <1>1, <1>4 DEF IsIn
  <2>2. i + 1 \in 1 .. Len(s) /\ s[i + 1] = c /\ 1 \in 1 .. Len(s) /\ i + 1 # 1
    BY <1>1, <2>1
  <2>3. Compatible(s[1], s[i + 1])
    BY <1>4, <2>2 DEF TurnOK
  <2> QED BY <1>1, <2>2, <2>3
<1> QED BY <1>1, <1>2, <1>3, <1>4

-----------------------------------------------------------------------------
(* The queue.                                                              *)

(* A queue of no turn, and of one.                                         *)
LEMMA ShortQueues ==
    ASSUME NEW turn, NEW t
    PROVE  /\ \A c : ~Queued(c, <<>>)
           /\ \A c : Queued(c, <<t>>) <=> IsIn(c, t)
           /\ QueueOK(turn, <<>>)
           /\ (/\ TurnOK(t)
               /\ \A c \in Calls : IsIn(c, t) =>
                      /\ c.op \in {"unblock", "remove", "activate", "pipe_activate"}
                      /\ c.op \in Once => ~IsIn(c, turn))
              => QueueOK(turn, <<t>>)
<1>1. \A c : ~Queued(c, <<>>)
  BY DEF Queued
<1>2. \A c : Queued(c, <<t>>) <=> IsIn(c, t)
  <2>1. Len(<<t>>) = 1 /\ <<t>>[1] = t
    OBVIOUS
  <2> QED BY <2>1 DEF Queued
<1>3. QueueOK(turn, <<>>)
  BY <1>1 DEF QueueOK
<1>4. ASSUME TurnOK(t),
             \A c \in Calls : IsIn(c, t) =>
                 /\ c.op \in {"unblock", "remove", "activate", "pipe_activate"}
                 /\ c.op \in Once => ~IsIn(c, turn)
      PROVE  QueueOK(turn, <<t>>)
  <2>1. Len(<<t>>) = 1 /\ <<t>>[1] = t
    OBVIOUS
  <2>2. \A i, j \in 1 .. 1 : i = 1 /\ j = 1
    OBVIOUS
  <2> HIDE DEF Once
  <2> QED BY <1>2, <1>4, <2>1, <2>2 DEF QueueOK
<1> QED BY <1>1, <1>2, <1>3, <1>4

(* Turns appended to the queue.                                            *)
LEMMA JoinedQueues ==
    ASSUME NEW q \in Seq(Seq(Calls)), NEW p \in Seq(Seq(Calls))
    PROVE  /\ \A c : Queued(c, q \o p) <=> Queued(c, q) \/ Queued(c, p)
           /\ \A turn :
                  (/\ QueueOK(turn, q) /\ QueueOK(turn, p)
                   /\ \A c \in Calls : c.op \in Once => ~(Queued(c, q) /\ Queued(c, p)))
                  => QueueOK(turn, q \o p)
<1>1. /\ Len(q) \in Nat /\ Len(p) \in Nat /\ Len(q \o p) = Len(q) + Len(p)
      /\ \A i \in 1 .. Len(q) + Len(p) :
             (q \o p)[i] = IF i <= Len(q) THEN q[i] ELSE p[i - Len(q)]
  BY ConcatProperties, LenProperties
<1>2. ASSUME NEW i \in 1 .. Len(q) + Len(p)
      PROVE  \/ i \in 1 .. Len(q) /\ (q \o p)[i] = q[i]
             \/ i - Len(q) \in 1 .. Len(p) /\ (q \o p)[i] = p[i - Len(q)]
  BY <1>1
<1>3. ASSUME NEW c PROVE Queued(c, q \o p) <=> Queued(c, q) \/ Queued(c, p)
  <2>1. ASSUME Queued(c, q \o p) PROVE Queued(c, q) \/ Queued(c, p)
    BY <1>1, <1>2, <2>1 DEF Queued
  <2>2. ASSUME Queued(c, q) PROVE Queued(c, q \o p)
    <3>1. PICK i \in 1 .. Len(q) : IsIn(c, q[i])
      BY <2>2 DEF Queued
    <3>2. i \in 1 .. Len(q) + Len(p) /\ (q \o p)[i] = q[i]
      BY <1>1
    <3> QED BY <1>1, <3>1, <3>2 DEF Queued
  <2>3. ASSUME Queued(c, p) PROVE Queued(c, q \o p)
    <3>1. PICK i \in 1 .. Len(p) : IsIn(c, p[i])
      BY <2>3 DEF Queued
    <3>2. i + Len(q) \in 1 .. Len(q) + Len(p) /\ (q \o p)[i + Len(q)] = p[i]
      BY <1>1
    <3> QED BY <1>1, <3>1, <3>2 DEF Queued
  <2> QED BY <2>1, <2>2, <2>3
<1>4. ASSUME NEW turn, QueueOK(turn, q), QueueOK(turn, p),
             \A c \in Calls : c.op \in Once => ~(Queued(c, q) /\ Queued(c, p))
      PROVE  QueueOK(turn, q \o p)
  <2>1. ASSUME NEW i \in 1 .. Len(q) + Len(p) PROVE TurnOK((q \o p)[i])
    BY <1>2, <1>4 DEF QueueOK
  <2>2. ASSUME NEW i \in 1 .. Len(q) + Len(p), NEW j \in 1 .. Len(q) + Len(p), NEW c \in Calls,
               c.op \in Once, IsIn(c, (q \o p)[i]), IsIn(c, (q \o p)[j])
        PROVE  i = j
    <3>1. ~(Queued(c, q) /\ Queued(c, p))
      BY <1>4, <2>2
    <3>2. CASE i \in 1 .. Len(q) /\ j \in 1 .. Len(q)
      <4>1. IsIn(c, q[i]) /\ IsIn(c, q[j])
        BY <1>1, <2>2, <3>2
      <4> QED BY <1>4, <2>2, <3>2, <4>1 DEF QueueOK
    <3>3. CASE i - Len(q) \in 1 .. Len(p) /\ j - Len(q) \in 1 .. Len(p)
      <4>1. IsIn(c, p[i - Len(q)]) /\ IsIn(c, p[j - Len(q)])
        BY <1>1, <2>2, <3>3
      <4>2. i - Len(q) = j - Len(q)
        BY <1>4, <2>2, <3>3, <4>1 DEF QueueOK
      <4> QED BY <1>1, <4>2
    <3>4. CASE i \in 1 .. Len(q) /\ j - Len(q) \in 1 .. Len(p)
      <4>1. IsIn(c, q[i]) /\ IsIn(c, p[j - Len(q)])
        BY <1>1, <2>2, <3>4
      <4> QED BY <3>1, <3>4, <4>1 DEF Queued
    <3>5. CASE i - Len(q) \in 1 .. Len(p) /\ j \in 1 .. Len(q)
      <4>1. IsIn(c, p[i - Len(q)]) /\ IsIn(c, q[j])
        BY <1>1, <2>2, <3>5
      <4> QED BY <3>1, <3>5, <4>1 DEF Queued
    <3> QED BY <1>2, <3>2, <3>3, <3>4, <3>5
  <2>3. ASSUME NEW c \in Calls, Queued(c, q \o p)
        PROVE  /\ c.op \in {"unblock", "remove", "activate", "pipe_activate"}
               /\ c.op \in Once => ~IsIn(c, turn)
    <3>1. Queued(c, q) \/ Queued(c, p)
      BY <1>3, <2>3
    <3> QED BY <1>4, <3>1 DEF QueueOK
  <2> QED BY <1>1, <2>1, <2>2, <2>3 DEF QueueOK
<1> QED BY <1>3, <1>4

(* The oldest turn and the rest.                                           *)
LEMMA FirstTurn ==
    ASSUME NEW q \in Seq(Seq(Calls)), q # <<>>
    PROVE  /\ Head(q) \in Seq(Calls) /\ Tail(q) \in Seq(Seq(Calls))
           /\ \A c : Queued(c, q) <=> IsIn(c, Head(q)) \/ Queued(c, Tail(q))
           /\ \A turn : QueueOK(turn, q) => TurnOK(Head(q)) /\ QueueOK(Head(q), Tail(q))
<1>1. /\ Len(q) \in Nat /\ Len(q) >= 1 /\ Tail(q) \in Seq(Seq(Calls))
      /\ Head(q) \in Seq(Calls) /\ Head(q) = q[1]
      /\ Len(Tail(q)) = Len(q) - 1 /\ \A i \in 1 .. Len(q) - 1 : Tail(q)[i] = q[i + 1]
  BY HeadTailProperties, LenProperties, EmptySeq
<1>2. ASSUME NEW i \in 1 .. Len(q) - 1
      PROVE  i + 1 \in 1 .. Len(q) /\ Tail(q)[i] = q[i + 1] /\ 1 \in 1 .. Len(q) /\ i + 1 # 1
  BY <1>1
<1>3. ASSUME NEW c PROVE Queued(c, q) <=> IsIn(c, Head(q)) \/ Queued(c, Tail(q))
  <2>1. ASSUME Queued(c, q), ~IsIn(c, Head(q)) PROVE Queued(c, Tail(q))
    <3>1. PICK i \in 1 .. Len(q) : IsIn(c, q[i])
      BY <2>1 DEF Queued
    <3>2. i - 1 \in 1 .. Len(q) - 1 /\ IsIn(c, Tail(q)[i - 1])
      <4>1. i # 1
        BY <1>1, <2>1, <3>1
      <4>2. i - 1 \in 1 .. Len(q) - 1 /\ Tail(q)[i - 1] = q[i]
        BY <1>1, <4>1
      <4> QED BY <3>1, <4>2
    <3> QED BY <1>1, <3>2 DEF Queued
  <2>2. ASSUME Queued(c, Tail(q)) PROVE Queued(c, q)
    BY <1>1, <1>2, <2>2 DEF Queued
  <2>3. ASSUME IsIn(c, Head(q)) PROVE Queued(c, q)
    <3>1. 1 \in 1 .. Len(q) /\ IsIn(c, q[1])
      BY <1>1, <2>3
    <3> QED BY <3>1 DEF Queued
  <2> QED BY <2>1, <2>2, <2>3
<1>4. ASSUME NEW turn, QueueOK(turn, q) PROVE TurnOK(Head(q)) /\ QueueOK(Head(q), Tail(q))
  <2>1. TurnOK(Head(q))
    BY <1>1, <1>4 DEF QueueOK
  <2>2. ASSUME NEW i \in 1 .. Len(q) - 1 PROVE TurnOK(Tail(q)[i])
    BY <1>2, <1>4 DEF QueueOK
  <2>3. ASSUME NEW i \in 1 .. Len(q) - 1, NEW j \in 1 .. Len(q) - 1, NEW c \in Calls,
               c.op \in Once, IsIn(c, Tail(q)[i]), IsIn(c, Tail(q)[j])
        PROVE  i = j
    <3>1. i + 1 = j + 1
      BY <1>2, <1>4, <2>3 DEF QueueOK
    <3> QED BY <3>1
  <2>4. ASSUME NEW c \in Calls, Queued(c, Tail(q))
        PROVE  /\ c.op \in {"unblock", "remove", "activate", "pipe_activate"}
               /\ c.op \in Once => ~IsIn(c, Head(q))
    <3>1. c.op \in {"unblock", "remove", "activate", "pipe_activate"}
      BY <1>3, <1>4, <2>4 DEF QueueOK
    <3>2. ASSUME c.op \in Once, IsIn(c, Head(q)) PROVE FALSE
      <4>1. PICK i \in 1 .. Len(q) - 1 : IsIn(c, Tail(q)[i])
        BY <1>1, <2>4 DEF Queued
      <4>2. IsIn(c, q[1]) /\ IsIn(c, q[i + 1])
        BY <1>1, <1>2, <3>2, <4>1
      <4> QED BY <1>2, <1>4, <3>2, <4>2 DEF QueueOK
    <3> QED BY <3>1, <3>2
  <2> QED BY <1>1, <2>1, <2>2, <2>3, <2>4 DEF QueueOK
<1> QED BY <1>1, <1>3, <1>4

(* The current turn goes on.                                               *)
LEMMA TurnGoesOn ==
    ASSUME NEW turn, NEW next, NEW q, QueueOK(turn, q),
           \A c \in Calls : c.op \in Once /\ IsIn(c, next) => IsIn(c, turn)
    PROVE  QueueOK(next, q)
BY DEF QueueOK

-----------------------------------------------------------------------------
(* Steps that are about one request.                                       *)

(* The step does not concern x, but may take its lookup away.              *)
Same(x) ==
    /\ state'[x] = state[x] /\ entry'[x] = entry[x] /\ curl'[x] = curl[x]
    /\ x \in readerRef' <=> x \in readerRef
    /\ x \in writerRef' <=> x \in writerRef
    /\ x \in piping' <=> x \in piping
    /\ x \in resolving' => x \in resolving
    /\ x \in notifying' => x \in notifying

(* What holds of such a request still does.                                *)
LEMMA SameRequest ==
    ASSUME NEW x \in Requests, Same(x), RequestOK(x)
    PROVE  RequestOK(x)' /\ \A op \in Ops : Fits(op, x) => Fits(op, x)'
<1>1. Flows(x)' <=> Flows(x)
  BY DEF Same, Flows
<1>2. Alive(x)' <=> Alive(x)
  BY DEF Same, Alive
<1>3. EntryOK(x)'
  BY <1>2 DEF Same, RequestOK, EntryOK
<1>4. TransferOK(x)'
  BY <1>1, <1>2 DEF Same, RequestOK, TransferOK
<1>5. ASSUME NEW op \in Ops, Fits(op, x) PROVE Fits(op, x)'
  BY <1>1, <1>2, <1>5 DEF Same, Fits
<1> QED BY <1>3, <1>4, <1>5 DEF RequestOK

(* The entry of r is closed, and the turns are queued that this gives rise *)
(* to.                                                                     *)
ClosesEntry(r) ==
    /\ \E successor \in {"none", "writer"} : CloseEntry(r, successor)
    /\ \/ Defer(Resumption(r))
       \/ Defer(Resumption(r) \o request_complete(r))

(* No entry is closed, and nobody resumed.                                 *)
KeepsEntries(r) ==
    /\ waiting' = waiting
    /\ entry[r] # "none" => entry'[r] # "none"
    /\ \/ queued_events' = queued_events
       \/ Defer(request_complete(r))

(* The requests that closing the entry of r resumes.                       *)
Resumed(r, x) == IsLastOpenEntry(r) /\ IsIn(x, waiting[Key[r]])

(* The turn that resumes them.                                             *)
LEMMA ResumptionTurns ==
    ASSUME IInv, NEW r \in Requests
    PROVE  /\ Resumption(r) \in Seq(Seq(Calls))
           /\ \A c \in Calls : Queued(c, Resumption(r)) <=>
                  \E x \in Requests : c = Call("unblock", x) /\ Resumed(r, x)
           /\ \A turn : (\A c \in Calls : c.op \in Once /\ IsIn(c, turn) => IsIn(c, calls)) =>
                  QueueOK(turn, Resumption(r))
<1> DEFINE list == waiting[Key[r]]
           turn == [i \in 1 .. Len(list) |-> Call("unblock", list[i])]
<1>1. list \in Seq(Requests) /\ Len(list) \in Nat /\ Key[r] \in Keys
  BY CacheAssumption DEF IInv, LocalInv, TypeOK, CacheTypeOK
<1>2. \A i \in 1 .. Len(list) : list[i] \in Requests
  BY <1>1, ElementOfSeq
<1>3. ASSUME NEW i \in 1 .. Len(list), NEW j \in 1 .. Len(list)
      PROVE  (list[i] = list[j] => i = j) /\ ~Pending("unblock", list[i])
  BY <1>1 DEF IInv, WaitingOK
<1>4. CASE ~(IsLastOpenEntry(r) /\ list # <<>>)
  <2>1. Resumption(r) = <<>>
    BY <1>4 DEF Resumption
  <2>2. \A x : ~Resumed(r, x)
    <3>1. CASE ~IsLastOpenEntry(r)
      BY <3>1 DEF Resumed
    <3>2. CASE list = <<>>
      BY <3>2, ShortTurns DEF Resumed
    <3> QED BY <1>4, <3>1, <3>2
  <2>3. <<>> \in Seq(Seq(Calls))
    OBVIOUS
  <2> QED BY <2>1, <2>2, <2>3, ShortQueues
<1>5. CASE IsLastOpenEntry(r) /\ list # <<>>
  <2>1. Resumption(r) = <<turn>>
    BY <1>5 DEF Resumption
  <2>2. Len(turn) = Len(list) /\ \A i \in 1 .. Len(list) : turn[i] = Call("unblock", list[i])
    <3>1. DOMAIN turn = 1 .. Len(list)
      OBVIOUS
    <3>2. turn \in Seq({Call("unblock", x) : x \in Requests})
      BY <1>1, <1>2, IsASeq
    <3> QED BY <1>1, <3>1, <3>2, LenProperties
  <2> HIDE DEF turn, list
  <2>3. \A c : IsIn(c, turn) <=> \E i \in 1 .. Len(list) : c = Call("unblock", list[i])
    BY <2>2 DEF IsIn
  <2>4. \A c : IsIn(c, turn) <=> \E x \in Requests : c = Call("unblock", x) /\ Resumed(r, x)
    <3>1. \A x : Resumed(r, x) <=> \E i \in 1 .. Len(list) : list[i] = x
      BY <1>5 DEF Resumed, IsIn, list
    <3> QED BY <1>2, <2>3, <3>1
  <2>5. TurnOK(turn)
    <3> SUFFICES ASSUME NEW i \in 1 .. Len(list), NEW j \in 1 .. Len(list), i # j
                 PROVE  Compatible(turn[i], turn[j])
      BY <2>2 DEF TurnOK
    <3>1. /\ turn[i].op = "unblock" /\ turn[j].op = "unblock"
          /\ turn[i].on = list[i] /\ turn[j].on = list[j]
      <4>1. turn[i] = Call("unblock", list[i]) /\ turn[j] = Call("unblock", list[j])
        BY <2>2
      <4> QED BY <4>1, CallFields
    <3>2. list[i] # list[j]
      BY <1>3
    <3> QED BY <3>1, <3>2 DEF Compatible, Ends
  <2>6. ASSUME NEW now, \A c \in Calls : c.op \in Once /\ IsIn(c, now) => IsIn(c, calls)
        PROVE  QueueOK(now, <<turn>>)
    <3>1. ASSUME NEW c \in Calls, IsIn(c, turn)
          PROVE  c.op = "unblock" /\ ~IsIn(c, now)
      <4>1. PICK i \in 1 .. Len(list) : c = Call("unblock", list[i])
        BY <2>3, <3>1
      <4>2. c.op = "unblock" /\ ~IsIn(c, calls)
        BY <1>3, <4>1 DEF Pending, Call
      <4> QED BY <2>6, <4>2 DEF Once
    <3> QED BY <2>5, <3>1, ShortQueues
  <2>7. <<turn>> \in Seq(Seq(Calls))
    BY <2>1, ResumptionType DEF IInv, LocalInv, TypeOK
  <2> QED BY <2>1, <2>4, <2>6, <2>7, ShortQueues
<1> QED BY <1>4, <1>5

(* What is queued after such a step.                                       *)
LEMMA Deferred ==
    ASSUME IInv, NEW r \in Requests, ClosesEntry(r) \/ KeepsEntries(r), NEW turn,
           \A c \in Calls : c.op \in Once /\ IsIn(c, turn) => IsIn(c, calls)
    PROVE  /\ QueueOK(turn, queued_events')
           /\ \A c \in Calls : Queued(c, queued_events') =>
                  \/ Queued(c, queued_events)
                  \/ c = Call("remove", r)
                  \/ /\ ClosesEntry(r)
                     /\ \E x \in Requests : c = Call("unblock", x) /\ Resumed(r, x)
           /\ \A c \in Calls : Queued(c, queued_events) => Queued(c, queued_events')
           /\ ClosesEntry(r) =>
                  \A x \in Requests : Resumed(r, x) => Queued(Call("unblock", x), queued_events')
<1> DEFINE done == request_complete(r)
           res == Resumption(r)
<1>1. queued_events \in Seq(Seq(Calls)) /\ QueueOK(calls, queued_events)
  BY DEF IInv, LocalInv, TypeOK, LoopTypeOK, TurnsOK
<1>2. QueueOK(turn, queued_events)
  BY <1>1, TurnGoesOn
<1>3. /\ done \in Seq(Seq(Calls)) /\ QueueOK(turn, done)
      /\ \A c : Queued(c, done) <=> c = Call("remove", r)
      /\ Call("remove", r).op \notin Once
  <2>1. done = <<<<Call("remove", r)>>>> /\ done \in Seq(Seq(Calls))
    BY RequestCompleteType DEF request_complete
  <2>2. Call("remove", r).op = "remove"
    BY CallFields
  <2>3. \A c : IsIn(c, <<Call("remove", r)>>) <=> c = Call("remove", r)
    BY ShortTurns
  <2>4. TurnOK(<<Call("remove", r)>>)
    BY ShortTurns
  <2> QED BY <2>1, <2>2, <2>3, <2>4, ShortQueues DEF Once
<1>4. /\ res \in Seq(Seq(Calls)) /\ QueueOK(turn, res)
      /\ \A c \in Calls : Queued(c, res) <=>
             \E x \in Requests : c = Call("unblock", x) /\ Resumed(r, x)
  BY ResumptionTurns
<1>5. ASSUME NEW c \in Calls, Queued(c, res) PROVE ~Queued(c, queued_events) /\ ~Queued(c, done)
  <2>1. PICK x \in Requests : c = Call("unblock", x) /\ Resumed(r, x)
    BY <1>4, <1>5
  <2>2. PICK i \in 1 .. Len(waiting[Key[r]]) : waiting[Key[r]][i] = x
    BY <2>1 DEF Resumed, IsIn
  <2>3. ~Pending("unblock", x)
    BY <2>2, CacheAssumption DEF IInv, WaitingOK
  <2>4. Call("remove", r) # Call("unblock", x)
    BY CallFields
  <2> QED BY <1>3, <2>1, <2>3, <2>4 DEF Pending
<1>6. \A x \in Requests : Call("unblock", x) \in Calls
  BY CallType DEF Ops
<1> HIDE DEF done, res
<1>7. CASE queued_events' = queued_events /\ KeepsEntries(r) /\ ~ClosesEntry(r)
  BY <1>2, <1>7
<1>8. CASE queued_events' = queued_events \o done /\ KeepsEntries(r) /\ ~ClosesEntry(r)
  <2>1. \A c : Queued(c, queued_events') <=> Queued(c, queued_events) \/ Queued(c, done)
    BY <1>1, <1>3, <1>8, JoinedQueues
  <2>2. QueueOK(turn, queued_events')
    BY <1>1, <1>2, <1>3, <1>8, JoinedQueues
  <2> QED BY <1>3, <1>8, <2>1, <2>2
<1>9. CASE queued_events' = queued_events \o res /\ ClosesEntry(r)
  <2>1. \A c : Queued(c, queued_events') <=> Queued(c, queued_events) \/ Queued(c, res)
    BY <1>1, <1>4, <1>9, JoinedQueues
  <2>2. QueueOK(turn, queued_events')
    BY <1>1, <1>2, <1>4, <1>5, <1>9, JoinedQueues
  <2> QED BY <1>4, <1>6, <1>9, <2>1, <2>2
<1>10. CASE queued_events' = queued_events \o (res \o done) /\ ClosesEntry(r)
  <2>1. /\ res \o done \in Seq(Seq(Calls)) /\ QueueOK(turn, res \o done)
        /\ \A c : Queued(c, res \o done) <=> Queued(c, res) \/ Queued(c, done)
    <3>1. res \o done \in Seq(Seq(Calls))
      BY <1>3, <1>4, ConcatProperties
    <3> QED BY <1>3, <1>4, <1>5, <3>1, JoinedQueues
  <2>2. \A c : Queued(c, queued_events') <=> Queued(c, queued_events) \/ Queued(c, res \o done)
    BY <1>1, <1>10, <2>1, JoinedQueues
  <2>3. \A c \in Calls : c.op \in Once => ~(Queued(c, queued_events) /\ Queued(c, res \o done))
    BY <1>3, <1>5, <2>1
  <2>4. QueueOK(turn, queued_events')
    BY <1>1, <1>2, <1>10, <2>1, <2>3, JoinedQueues
  <2> QED BY <1>3, <1>4, <1>6, <1>10, <2>1, <2>2, <2>4
<1> QED BY <1>7, <1>8, <1>9, <1>10 DEF ClosesEntry, KeepsEntries, Defer, done, res

(* The waiting lists and those who wait, when a list stays as it is or is  *)
(* resumed.                                                                *)
LEMMA WaitStep ==
    ASSUME IInv, TypeOK',
           \A k \in Keys :
               \/ /\ waiting'[k] = waiting[k]
                  /\ OpenEntries(k) # {} => OpenEntries(k)' # {}
                  /\ \A x \in Requests :
                         Key[x] = k /\ Pending("unblock", x)' => Pending("unblock", x)
               \/ /\ waiting'[k] = <<>>
                  /\ \A x \in Requests : IsIn(x, waiting[k]) => Pending("unblock", x)',
           \A x \in Requests :
               /\ Pending("unblock", x) => Pending("unblock", x)' \/ state'[x] # "WaitForCache"
               /\ state'[x] = "WaitForCache" => state[x] = "WaitForCache"
               /\ state[x] \in {"WaitForCache", "Destroyed"} =>
                      state'[x] \in {"WaitForCache", "Destroyed"} \/ Pending("unblock", x)
    PROVE  WaitingOK' /\ NoLostWakeup'
<1>1. \A k \in Keys : waiting[k] \in Seq(Requests) /\ \A i \in 1 .. Len(waiting[k]) : waiting[k][i] \in Requests
  <2>1. \A k \in Keys : waiting[k] \in Seq(Requests)
    BY DEF IInv, LocalInv, TypeOK, CacheTypeOK
  <2> QED BY <2>1, ElementOfSeq
<1>2. WaitingOK'
  <2> SUFFICES ASSUME NEW k \in Keys, NEW i \in 1 .. Len(waiting'[k]), NEW j \in 1 .. Len(waiting'[k])
               PROVE  /\ waiting'[k][i] = waiting'[k][j] => i = j
                      /\ Key[waiting'[k][i]] = k
                      /\ state'[waiting'[k][i]] \in {"WaitForCache", "Destroyed"}
                      /\ \A x \in Requests : x = waiting'[k][i] => ~Pending("unblock", x)'
    <3>1. \A k \in Keys : \A i \in 1 .. Len(waiting'[k]) : waiting'[k][i] \in Requests
      <4>1. \A k \in Keys : waiting'[k] \in Seq(Requests)
        BY DEF TypeOK, CacheTypeOK
      <4> QED BY <4>1, ElementOfSeq
    <3> QED BY <3>1 DEF WaitingOK, Pending
  <2>1. CASE waiting'[k] = <<>>
    BY <2>1
  <2>2. CASE /\ waiting'[k] = waiting[k]
             /\ \A x \in Requests : Key[x] = k /\ Pending("unblock", x)' => Pending("unblock", x)
    <3>1. PICK w \in Requests : w = waiting[k][i]
      BY <1>1, <2>2
    <3>2. /\ waiting[k][i] = waiting[k][j] => i = j
          /\ Key[w] = k /\ state[w] \in {"WaitForCache", "Destroyed"} /\ ~Pending("unblock", w)
      BY <2>2, <3>1 DEF IInv, WaitingOK
    <3>3. state'[w] \in {"WaitForCache", "Destroyed"} /\ ~Pending("unblock", w)'
      BY <2>2, <3>2
    <3> QED BY <2>2, <3>1, <3>2, <3>3
  <2> QED BY <2>1, <2>2
<1>3. NoLostWakeup'
  <2> SUFFICES ASSUME NEW r \in Requests, state'[r] = "WaitForCache", ~Pending("unblock", r)'
               PROVE  /\ r \in {waiting'[Key[r]][i] : i \in 1 .. Len(waiting'[Key[r]])}
                      /\ OpenEntries(Key[r])' # {}
    BY DEF NoLostWakeup, WillBeUnblocked, Pending, Queued
  <2>1. state[r] = "WaitForCache" /\ ~Pending("unblock", r) /\ Key[r] \in Keys
    BY CacheAssumption
  <2>2. r \in {waiting[Key[r]][i] : i \in 1 .. Len(waiting[Key[r]])} /\ OpenEntries(Key[r]) # {}
    BY <2>1 DEF IInv, NoLostWakeup, WillBeUnblocked, Pending, Queued
  <2>3. PICK i \in 1 .. Len(waiting[Key[r]]) : waiting[Key[r]][i] = r
    BY <2>2
  <2>4. IsIn(r, waiting[Key[r]])
    BY <2>3 DEF IsIn
  <2>5. waiting'[Key[r]] = waiting[Key[r]] /\ OpenEntries(Key[r])' # {}
    BY <2>1, <2>2, <2>4
  <2> QED BY <2>2, <2>5
<1> QED BY <1>2, <1>3

(* A step about r keeps the invariant, if it keeps what it says of r.  The *)
(* turn goes on with the calls `inner' and then with `rest'.               *)
LEMMA Step ==
    ASSUME IInv, TypeOK', NEW r \in Requests,
           NEW inner \in Seq(Calls), NEW rest \in Seq(Calls),
           calls' = inner \o rest, TurnOK(inner), TurnOK(rest),
           \A c \in Calls : IsIn(c, rest) => IsIn(c, calls),
           \A c, d \in Calls : IsIn(c, inner) /\ IsIn(d, rest) => Compatible(c, d),
           \A c \in Calls : IsIn(c, inner) => c.op \notin Once /\ c.on = r /\ Fits(c.op, r)',
           ClosesEntry(r) \/ KeepsEntries(r),
           \A x \in Requests \ {r} : Same(x),
           RequestOK(r)',
           state'[r] \in Young => state[r] \in Young,
           state[r] = "Unborn" => r \notin Revalidations,
           state'[r] # "Unborn",
           state'[r] = "WaitForCache" => state[r] = "WaitForCache",
           state[r] \in {"WaitForCache", "Destroyed"} =>
               state'[r] \in {"WaitForCache", "Destroyed"} \/ Pending("unblock", r),
           \A op \in Ops :
               IsIn(Call(op, r), rest) \/ Queued(Call(op, r), queued_events) => Fits(op, r)',
           \A x \in Requests : Pending("unblock", x) =>
               \/ IsIn(Call("unblock", x), rest)
               \/ Queued(Call("unblock", x), queued_events)
               \/ state'[x] # "WaitForCache"
    PROVE  IInv'
<1>1. \A op \in Ops, x \in Requests : Call(op, x) \in Calls
  BY CallType
<1>2. \A c : IsIn(c, calls') <=> IsIn(c, inner) \/ IsIn(c, rest)
  BY JoinedTurns
<1>3. TurnOK(calls')
  BY JoinedTurns
<1>4. \A c \in Calls : c.op \in Once /\ IsIn(c, calls') => IsIn(c, calls)
  BY <1>2
<1>5. /\ QueueOK(calls', queued_events')
      /\ \A c \in Calls : Queued(c, queued_events') =>
             \/ Queued(c, queued_events)
             \/ c = Call("remove", r)
             \/ /\ ClosesEntry(r)
                /\ \E x \in Requests : c = Call("unblock", x) /\ Resumed(r, x)
      /\ \A c \in Calls : Queued(c, queued_events) => Queued(c, queued_events')
      /\ ClosesEntry(r) =>
             \A x \in Requests : Resumed(r, x) => Queued(Call("unblock", x), queued_events')
  <2>1. PICK turn : turn = calls'
    OBVIOUS
  <2>2. \A c \in Calls : c.op \in Once /\ IsIn(c, turn) => IsIn(c, calls)
    BY <1>4, <2>1
  <2>3. /\ QueueOK(turn, queued_events')
        /\ \A c \in Calls : Queued(c, queued_events') =>
               \/ Queued(c, queued_events)
               \/ c = Call("remove", r)
               \/ /\ ClosesEntry(r)
                  /\ \E x \in Requests : c = Call("unblock", x) /\ Resumed(r, x)
        /\ \A c \in Calls : Queued(c, queued_events) => Queued(c, queued_events')
        /\ ClosesEntry(r) =>
               \A x \in Requests : Resumed(r, x) => Queued(Call("unblock", x), queued_events')
    BY <2>2, Deferred
  <2> QED BY <2>1, <2>3
<1>6. ASSUME NEW op \in Ops, NEW x \in Requests, Pending(op, x)'
      PROVE  \/ x = r /\ IsIn(Call(op, r), inner)
             \/ IsIn(Call(op, x), rest)
             \/ Queued(Call(op, x), queued_events)
             \/ op = "remove" /\ x = r
             \/ op = "unblock" /\ ClosesEntry(r) /\ Resumed(r, x)
  <2>1. IsIn(Call(op, x), calls') \/ Queued(Call(op, x), queued_events')
    BY <1>6 DEF Pending
  <2>2. ASSUME IsIn(Call(op, x), inner) PROVE x = r
    BY <1>1, <2>2, CallFields
  <2>3. \A y \in Requests : Call(op, x) = Call("unblock", y) => op = "unblock" /\ x = y
    BY CallFields
  <2>4. Call(op, x) = Call("remove", r) => op = "remove" /\ x = r
    BY CallFields
  <2> QED BY <1>1, <1>2, <1>5, <2>1, <2>2, <2>3, <2>4
<1>7. ASSUME NEW x \in Requests, Resumed(r, x)
      PROVE  Key[x] = Key[r] /\ state[x] \in {"WaitForCache", "Destroyed"} /\ ~Pending("unblock", x)
  <2>1. PICK i \in 1 .. Len(waiting[Key[r]]) : waiting[Key[r]][i] = x
    BY <1>7 DEF Resumed, IsIn
  <2> QED BY <2>1, CacheAssumption DEF IInv, WaitingOK
<1>8. ASSUME NEW x \in Requests PROVE RequestOK(x)'
  BY SameRequest DEF IInv, LocalInv
<1>9. ASSUME NEW op \in Ops, NEW x \in Requests, Pending(op, x)' PROVE Fits(op, x)'
  <2>1. CASE x = r
    <3>1. CASE IsIn(Call(op, r), inner)
      BY <1>1, <2>1, <3>1, CallFields
    <3>2. CASE IsIn(Call(op, r), rest) \/ Queued(Call(op, r), queued_events)
      BY <2>1, <3>2
    <3>3. CASE op = "remove"
      BY <2>1, <3>3 DEF Fits
    <3>4. CASE op = "unblock" /\ Resumed(r, r)
      <4>1. state'[r] \in {"WaitForCache", "Destroyed"}
        BY <1>7, <3>4
      <4> QED BY <2>1, <3>4, <4>1 DEF Fits
    <3> QED BY <1>6, <1>9, <2>1, <3>1, <3>2, <3>3, <3>4
  <2>2. CASE x # r
    <3>1. Same(x) /\ RequestOK(x)
      BY <2>2 DEF IInv, LocalInv
    <3>2. CASE IsIn(Call(op, x), rest) \/ Queued(Call(op, x), queued_events)
      <4>1. Pending(op, x)
        BY <1>1, <3>2 DEF Pending
      <4>2. Fits(op, x)
        BY <4>1 DEF IInv, LocalInv, TurnsOK
      <4> QED BY <3>1, <4>2, SameRequest
    <3>3. CASE op = "unblock" /\ Resumed(r, x)
      <4>1. Fits(op, x)
        BY <1>7, <3>3 DEF Fits
      <4> QED BY <3>1, <4>1, SameRequest
    <3> QED BY <1>6, <1>9, <2>2, <3>2, <3>3
  <2> QED BY <2>1, <2>2
<1>10. BackgroundOK'
  <2> SUFFICES ASSUME NEW f \in Fetches, state'[Background[f]] # "Unborn" PROVE state'[f] \notin Young
    BY DEF BackgroundOK
  <2>1. f \in Requests /\ Background[f] \in Requests /\ Background[f] \in Revalidations
    BY RequestAssumption DEF Revalidations
  <2>2. state[Background[f]] # "Unborn"
    BY <2>1 DEF Same
  <2>3. state[f] \notin Young
    BY <2>2 DEF IInv, LocalInv, BackgroundOK
  <2> QED BY <2>1, <2>3 DEF Same
<1>11. LocalInv'
  BY <1>3, <1>5, <1>8, <1>9, <1>10 DEF LocalInv, TurnsOK
<1>12. WaitingOK' /\ NoLostWakeup'
  <2>1. ASSUME NEW x \in Requests
        PROVE  /\ Pending("unblock", x) => Pending("unblock", x)' \/ state'[x] # "WaitForCache"
               /\ state'[x] = "WaitForCache" => state[x] = "WaitForCache"
               /\ state[x] \in {"WaitForCache", "Destroyed"} =>
                      state'[x] \in {"WaitForCache", "Destroyed"} \/ Pending("unblock", x)
    <3>1. Call("unblock", x) \in Calls
      BY <1>1 DEF Ops
    <3>2. Pending("unblock", x) => Pending("unblock", x)' \/ state'[x] # "WaitForCache"
      BY <1>2, <1>5, <3>1 DEF Pending
    <3> QED BY <3>2 DEF Same
  <2>2. ASSUME NEW x \in Requests, Pending("unblock", x)'
        PROVE  Pending("unblock", x) \/ (ClosesEntry(r) /\ Resumed(r, x))
    <3>1. "unblock" \in Ops /\ "unblock" \in Once
      BY DEF Ops, Once
    <3>2. ~IsIn(Call("unblock", r), inner)
      BY <1>1, <3>1, CallFields
    <3> QED BY <1>1, <1>6, <2>2, <3>1, <3>2 DEF Pending
  <2>3. ASSUME NEW k \in Keys
        PROVE  \/ /\ waiting'[k] = waiting[k]
                  /\ OpenEntries(k) # {} => OpenEntries(k)' # {}
                  /\ \A x \in Requests :
                         Key[x] = k /\ Pending("unblock", x)' => Pending("unblock", x)
               \/ /\ waiting'[k] = <<>>
                  /\ \A x \in Requests : IsIn(x, waiting[k]) => Pending("unblock", x)'
    <3>1. waiting \in [Keys -> Seq(Requests)] /\ Key \in [Requests -> Keys]
          /\ entry \in [Requests -> Entries]
      BY CacheAssumption DEF IInv, LocalInv, TypeOK, CacheTypeOK
    <3>2. \A x \in Requests \ {r} : entry'[x] = entry[x]
      BY DEF Same
    <3>3. CASE ClosesEntry(r) /\ IsLastOpenEntry(r) /\ k = Key[r]
      <4>1. waiting'[k] = <<>>
        BY <3>1, <3>3 DEF ClosesEntry, CloseEntry
      <4>2. ASSUME NEW x \in Requests, IsIn(x, waiting[k]) PROVE Pending("unblock", x)'
        <5>1. Resumed(r, x)
          BY <3>3, <4>2 DEF Resumed
        <5> QED BY <1>5, <3>3, <5>1 DEF Pending
      <4> QED BY <4>1, <4>2
    <3>4. CASE ClosesEntry(r) /\ ~(IsLastOpenEntry(r) /\ k = Key[r])
      <4>1. waiting'[k] = waiting[k]
        BY <3>1, <3>4 DEF ClosesEntry, CloseEntry
      <4>2. ASSUME OpenEntries(k) # {} PROVE OpenEntries(k)' # {}
        <5>1. PICK o \in Requests : o # r /\ Key[o] = k /\ entry[o] # "none"
          BY <3>4, <4>2 DEF OpenEntries, IsLastOpenEntry
        <5> QED BY <3>2, <5>1 DEF OpenEntries
      <4>3. \A x \in Requests : Key[x] = k /\ Pending("unblock", x)' => Pending("unblock", x)
        BY <1>7, <2>2, <3>4 DEF Resumed
      <4> QED BY <4>1, <4>2, <4>3
    <3>5. CASE ~ClosesEntry(r)
      <4>1. waiting'[k] = waiting[k] /\ (entry[r] # "none" => entry'[r] # "none")
        BY <3>5 DEF KeepsEntries
      <4>2. OpenEntries(k) # {} => OpenEntries(k)' # {}
        BY <3>2, <4>1 DEF OpenEntries
      <4> QED BY <2>2, <3>5, <4>1, <4>2
    <3> QED BY <3>3, <3>4, <3>5
  <2> QED BY <2>1, <2>3, WaitStep
<1> QED BY <1>11, <1>12 DEF IInv

(* A call that may still be to come when a call of op on the same request  *)
(* has been made: in a queued turn, or in the rest of this one.            *)
Remains(op, other) ==
    \/ other \in {"unblock", "remove", "activate", "pipe_activate"} /\ ~(op \in Once /\ other = op)
    \/ /\ ~Rivals(op, other)
       /\ op \in Ends => other \in Ends \cup {"close"}
       /\ other \in Ends => op \in Ends \cup {"close"}

(* The calls that a call of op on r may make before it returns.            *)
Makes(op, r, c) ==
    /\ c.on = r
    /\ \/ op \in Drivers /\ c.op \in {"process", "pipe", "finish", "transfer_headers"}
       \/ op \in Ends /\ c.op = "destroy"
       \/ c.op = "close" /\ ~IsIn(c, Tail(calls))

(* What is known of r when it is called.                                   *)
LEMMA Called ==
    ASSUME IInv, NEW r \in Requests, NEW op \in Ops, Calling(op, r)
    PROVE  /\ Fits(op, r) /\ RequestOK(r) /\ state[r] # "Unborn"
           /\ calls # <<>> /\ calls \in Seq(Calls) /\ Tail(calls) \in Seq(Calls)
<1>1. calls # <<>> /\ Head(calls) = Call(op, r) /\ calls \in Seq(Calls)
  BY DEF Calling, IInv, LocalInv, TypeOK, LoopTypeOK
<1>2. IsIn(Call(op, r), calls) /\ Tail(calls) \in Seq(Calls)
  BY <1>1, FirstCall
<1>3. Fits(op, r)
  BY <1>2 DEF IInv, LocalInv, TurnsOK, Pending
<1> QED BY <1>1, <1>2, <1>3 DEF IInv, LocalInv, Fits

(* A call of the turn keeps the invariant, if it keeps what it says of r.  *)
LEMMA CallStep ==
    ASSUME IInv, TypeOK', NEW r \in Requests, NEW op \in Ops, Calling(op, r),
           NEW inner \in Seq(Calls), Then(inner), TurnOK(inner),
           \A c \in Calls : IsIn(c, inner) => Makes(op, r, c) /\ Fits(c.op, r)',
           ClosesEntry(r) \/ KeepsEntries(r),
           \A x \in Requests \ {r} : Same(x),
           RequestOK(r)',
           state'[r] \in Young => state[r] \in Young,
           state'[r] # "Unborn",
           state'[r] = "WaitForCache" => state[r] = "WaitForCache" /\ op # "unblock",
           state[r] \in {"WaitForCache", "Destroyed"} =>
               state'[r] \in {"WaitForCache", "Destroyed"} \/ op = "unblock",
           \A other \in Ops : Remains(op, other) /\ Fits(other, r) => Fits(other, r)'
    PROVE  IInv'
<1> DEFINE rest == Tail(calls)
<1>1. /\ calls # <<>> /\ calls \in Seq(Calls) /\ rest \in Seq(Calls) /\ Head(calls) = Call(op, r)
      /\ state[r] # "Unborn"
  BY Called DEF Calling
<1>2. /\ \A c : IsIn(c, calls) <=> c = Call(op, r) \/ IsIn(c, rest)
      /\ TurnOK(rest)
      /\ \A c : IsIn(c, rest) => Compatible(Call(op, r), c)
  <2>1. TurnOK(calls)
    BY DEF IInv, LocalInv, TurnsOK
  <2> QED BY <1>1, <2>1, FirstCall
<1>3. calls' = inner \o rest
  BY DEF Then
<1>4. Call(op, r) \in Calls /\ Call(op, r).op = op /\ Call(op, r).on = r
  BY CallType, CallFields
<1> HIDE DEF rest
<1>5. ASSUME NEW c \in Calls, NEW d \in Calls, IsIn(c, inner), IsIn(d, rest)
      PROVE  Compatible(c, d)
  <2>1. Makes(op, r, c) /\ Compatible(Call(op, r), d)
    BY <1>2, <1>5
  <2>2. CASE op \in Drivers /\ c.op \in {"process", "pipe", "finish", "transfer_headers"}
    BY <1>4, <2>1, <2>2 DEF Makes, Compatible, Rivals, Drivers, Ends
  <2>3. CASE op \in Ends /\ c.op = "destroy"
    BY <1>4, <2>1, <2>3 DEF Makes, Compatible, Rivals, Drivers, Ends
  <2>4. CASE c.op = "close" /\ ~IsIn(c, rest)
    <3>1. ~(d.op = "close" /\ d.on = c.on)
      BY <1>5, <2>4 DEF Calls
    <3> QED BY <1>4, <2>1, <2>4, <3>1 DEF Makes, Compatible, Rivals, Drivers, Ends
  <2> QED BY <2>1, <2>2, <2>3, <2>4 DEF Makes, rest
<1>6. ASSUME NEW c \in Calls, IsIn(c, inner)
      PROVE  c.op \notin Once /\ c.on = r /\ Fits(c.op, r)'
  BY <1>6 DEF Makes, Once
<1>7. ASSUME NEW other \in Ops,
             IsIn(Call(other, r), rest) \/ Queued(Call(other, r), queued_events)
      PROVE  Fits(other, r)'
  <2>1. Call(other, r) \in Calls /\ Call(other, r).op = other /\ Call(other, r).on = r
    BY CallType, CallFields
  <2>2. Pending(other, r)
    BY <1>2, <1>7 DEF Pending
  <2>3. Fits(other, r)
    BY <2>2 DEF IInv, LocalInv, TurnsOK
  <2>4. Remains(op, other)
    <3>1. CASE IsIn(Call(other, r), rest)
      <4>1. Compatible(Call(op, r), Call(other, r))
        BY <1>2, <3>1
      <4> QED BY <1>4, <2>1, <4>1 DEF Compatible, Remains
    <3>2. CASE Queued(Call(other, r), queued_events)
      <4>1. /\ other \in {"unblock", "remove", "activate", "pipe_activate"}
            /\ other \in Once => ~IsIn(Call(other, r), calls)
        BY <2>1, <3>2 DEF IInv, LocalInv, TurnsOK, QueueOK
      <4>2. IsIn(Call(op, r), calls)
        BY <1>2
      <4> QED BY <4>1, <4>2 DEF Remains
    <3> QED BY <1>7, <3>1, <3>2
  <2> QED BY <2>3, <2>4
<1>8. ASSUME NEW x \in Requests, Pending("unblock", x)
      PROVE  \/ IsIn(Call("unblock", x), rest)
             \/ Queued(Call("unblock", x), queued_events)
             \/ state'[x] # "WaitForCache"
  <2>1. CASE Call("unblock", x) = Call(op, r)
    <3>1. op = "unblock" /\ x = r
      BY <2>1, CallFields
    <3> QED BY <3>1
  <2> QED BY <1>2, <1>8, <2>1 DEF Pending
<1>9. op = "unblock" => Pending("unblock", r)
  BY <1>2 DEF Pending
<1>10. \A c \in Calls : IsIn(c, rest) => IsIn(c, calls)
  BY <1>2
<1> QED BY <1>1, <1>2, <1>3, <1>5, <1>6, <1>7, <1>8, <1>9, <1>10, Step

(* A call that returns, makes one call or makes two.                       *)
LEMMA CallSteps ==
    ASSUME IInv, TypeOK', NEW r \in Requests, NEW op \in Ops, Calling(op, r),
           ClosesEntry(r) \/ KeepsEntries(r),
           \A x \in Requests \ {r} : Same(x),
           RequestOK(r)',
           state'[r] \in Young => state[r] \in Young,
           state'[r] # "Unborn",
           state'[r] = "WaitForCache" => state[r] = "WaitForCache" /\ op # "unblock",
           state[r] \in {"WaitForCache", "Destroyed"} =>
               state'[r] \in {"WaitForCache", "Destroyed"} \/ op = "unblock",
           \A other \in Ops : Remains(op, other) /\ Fits(other, r) => Fits(other, r)'
    PROVE  /\ Return => IInv'
           /\ \A a \in Ops :
                  /\ Then(<<Call(a, r)>>)
                  /\ Makes(op, r, Call(a, r)) /\ Fits(a, r)'
                  => IInv'
           /\ \A a, b \in Ops :
                  /\ Then(<<Call(a, r), Call(b, r)>>) /\ Compatible(Call(a, r), Call(b, r))
                  /\ Makes(op, r, Call(a, r)) /\ Fits(a, r)'
                  /\ Makes(op, r, Call(b, r)) /\ Fits(b, r)'
                  => IInv'
<1>1. ASSUME Return PROVE IInv'
  <2>1. TurnOK(<<>>) /\ \A c : ~IsIn(c, <<>>)
    BY ShortTurns
  <2>4. <<>> \in Seq(Calls)
    OBVIOUS
  <2>2. Then(<<>>)
    BY <1>1 DEF Return
  <2>3. \A c \in Calls : IsIn(c, <<>>) => Makes(op, r, c) /\ Fits(c.op, r)'
    BY <2>1
  <2> QED BY <2>1, <2>2, <2>3, <2>4, CallStep
<1>2. ASSUME NEW a \in Ops, Then(<<Call(a, r)>>), Makes(op, r, Call(a, r)), Fits(a, r)'
      PROVE  IInv'
  <2>1. Call(a, r) \in Calls /\ Call(a, r).op = a
    BY CallType, CallFields
  <2>2. <<Call(a, r)>> \in Seq(Calls)
    BY <2>1
  <2>3. TurnOK(<<Call(a, r)>>) /\ \A c : IsIn(c, <<Call(a, r)>>) <=> c = Call(a, r)
    BY ShortTurns
  <2>4. \A c \in Calls : IsIn(c, <<Call(a, r)>>) => Makes(op, r, c) /\ Fits(c.op, r)'
    BY <1>2, <2>1, <2>3
  <2> QED BY <1>2, <2>2, <2>3, <2>4, CallStep
<1>3. ASSUME NEW a \in Ops, NEW b \in Ops, Then(<<Call(a, r), Call(b, r)>>),
             Compatible(Call(a, r), Call(b, r)),
             Makes(op, r, Call(a, r)), Fits(a, r)', Makes(op, r, Call(b, r)), Fits(b, r)'
      PROVE  IInv'
  <2>1. Call(a, r) \in Calls /\ Call(a, r).op = a /\ Call(b, r) \in Calls /\ Call(b, r).op = b
    BY CallType, CallFields
  <2>2. <<Call(a, r), Call(b, r)>> \in Seq(Calls)
    BY <2>1
  <2>3. /\ TurnOK(<<Call(a, r), Call(b, r)>>)
        /\ \A c : IsIn(c, <<Call(a, r), Call(b, r)>>) <=> c = Call(a, r) \/ c = Call(b, r)
    BY <1>3, ShortTurns
  <2>4. \A c \in Calls :
            IsIn(c, <<Call(a, r), Call(b, r)>>) => Makes(op, r, c) /\ Fits(c.op, r)'
    BY <1>3, <2>1, <2>3
  <2> QED BY <1>3, <2>2, <2>3, <2>4, CallStep
<1> QED BY <1>1, <1>2, <1>3

(* An event that starts a turn for r, or only posts one.                   *)
LEMMA EventStep ==
    ASSUME IInv, TypeOK', NEW r \in Requests, Idle,
           NEW inner \in Seq(Calls), calls' = inner, TurnOK(inner),
           \A c \in Calls : IsIn(c, inner) => c.op \notin Once /\ c.on = r /\ Fits(c.op, r)',
           ClosesEntry(r) \/ KeepsEntries(r),
           \A x \in Requests \ {r} : Same(x),
           RequestOK(r)',
           state'[r] \in Young => state[r] \in Young,
           state[r] = "Unborn" => r \notin Revalidations,
           state'[r] # "Unborn",
           state'[r] = "WaitForCache" => state[r] = "WaitForCache",
           state[r] \in {"WaitForCache", "Destroyed"} =>
               state'[r] \in {"WaitForCache", "Destroyed"},
           \A other \in {"unblock", "remove", "activate", "pipe_activate"} :
               Fits(other, r) => Fits(other, r)'
    PROVE  IInv'
<1>1. calls' = inner \o <<>> /\ <<>> \in Seq(Calls)
  BY ConcatEmptySeq
<1>2. TurnOK(<<>>) /\ \A c : ~IsIn(c, <<>>)
  BY ShortTurns
<1>3. ASSUME NEW op \in Ops, Queued(Call(op, r), queued_events) PROVE Fits(op, r)'
  <2>1. Call(op, r) \in Calls /\ Call(op, r).op = op
    BY CallType, CallFields
  <2>2. op \in {"unblock", "remove", "activate", "pipe_activate"} /\ Fits(op, r)
    BY <1>3, <2>1 DEF IInv, LocalInv, TurnsOK, QueueOK, Pending
  <2> QED BY <2>2
<1>4. \A x \in Requests : Pending("unblock", x) => Queued(Call("unblock", x), queued_events)
  BY <1>2 DEF Idle, Pending
<1> QED BY <1>1, <1>2, <1>3, <1>4, Step

(* A call that changes nothing the invariant says of any request.          *)
LEMMA QuietCall ==
    ASSUME IInv, TypeOK', NEW r \in Requests, NEW op \in Ops, Calling(op, r), op # "unblock",
           KeepsEntries(r), \A x \in Requests : Same(x)
    PROVE  /\ Return => IInv'
           /\ \A a \in Ops :
                  /\ Then(<<Call(a, r)>>)
                  /\ Makes(op, r, Call(a, r)) /\ Fits(a, r)'
                  => IInv'
           /\ \A a, b \in Ops :
                  /\ Then(<<Call(a, r), Call(b, r)>>) /\ Compatible(Call(a, r), Call(b, r))
                  /\ Makes(op, r, Call(a, r)) /\ Fits(a, r)'
                  /\ Makes(op, r, Call(b, r)) /\ Fits(b, r)'
                  => IInv'
<1>1. RequestOK(r)' /\ \A other \in Ops : Fits(other, r) => Fits(other, r)'
  BY Called, SameRequest
<1>2. state[r] # "Unborn" /\ state'[r] = state[r]
  BY Called DEF Same
<1> QED BY <1>1, <1>2, CallSteps

(* The calls a handler makes are calls of a turn that may follow.          *)
LEMMA MadeCalls ==
    ASSUME NEW r \in Requests, NEW op \in Drivers
    PROVE  /\ \A a \in {"process", "pipe", "finish", "transfer_headers"} :
                  a \in Ops /\ Makes(op, r, Call(a, r))
           /\ \A b \in Drivers \cup {"close"} :
                  b # "pipe_activate" => Compatible(Call("transfer_headers", r), Call(b, r))
           /\ Compatible(Call("process", r), Call("close", r))
<1>1. \A a : Call(a, r).op = a /\ Call(a, r).on = r
  BY CallFields
<1>2. \A a \in {"process", "pipe", "finish", "transfer_headers"} :
          a \in Ops /\ Makes(op, r, Call(a, r))
  BY <1>1 DEF Makes, Ops
<1>3. \A b \in Drivers \cup {"close"} :
          b # "pipe_activate" => Compatible(Call("transfer_headers", r), Call(b, r))
  BY <1>1 DEF Compatible, Rivals, Drivers, Ends
<1>4. Compatible(Call("process", r), Call("close", r))
  BY <1>1 DEF Compatible, Rivals, Drivers, Ends
<1> QED BY <1>2, <1>3, <1>4

-----------------------------------------------------------------------------
(* The handlers keep the invariant.                                        *)

(* What TypeOK says of the variables of the invariant.                     *)
LEMMA FieldTypes ==
    ASSUME TypeOK, NEW r \in Requests
    PROVE  /\ state \in [Requests -> States] /\ curl \in [Requests -> {"none", "running", "aborted", "done"}]
           /\ entry \in [Requests -> Entries] /\ Key[r] \in Keys
           /\ waiting \in [Keys -> Seq(Requests)]
BY CacheAssumption DEF TypeOK, RequestTypeOK, CacheTypeOK

(* handle_read_cache_state.                                                *)
LEMMA ReadCacheStep ==
    ASSUME IInv, TypeOK', NEW r \in Requests, handle_read_cache_state(r)
    PROVE  IInv'
<1>1. /\ Calling("process", r) /\ "process" \in Ops /\ "process" \in Drivers
      /\ state[r] = "ReadCache" /\ state \in [Requests -> States]
  BY FieldTypes DEF handle_read_cache_state, Processing, Ops, Drivers, IInv, LocalInv
<1>2. Fits("process", r) /\ RequestOK(r)
  BY <1>1, Called
<1>3. /\ KeepsEntries(r) /\ \A x \in Requests \ {r} : Same(x)
      /\ state'[r] \in {"ReadCache", "Error"}
      /\ UNCHANGED <<entry, readerRef, writerRef, resolving, curl, notifying, piping>>
  BY <1>1 DEF handle_read_cache_state, Enter, KeepsEntries, Same, cacheVars
<1>4. RequestOK(r)'
  BY <1>1, <1>2, <1>3 DEF RequestOK, EntryOK, TransferOK, Fits, Flows, Alive, Young, Readers
<1>5. ASSUME NEW other \in Ops, Remains("process", other), Fits(other, r)
      PROVE  Fits(other, r)'
  BY <1>1, <1>2, <1>3, <1>5
  DEF Fits, Flows, Alive, Remains, Rivals, Drivers, Once, RequestOK, TransferOK
<1>6. CASE Then(<<Call("transfer_headers", r), Call("pipe", r)>>) /\ UNCHANGED state
  <2>1. Fits("transfer_headers", r)' /\ Fits("pipe", r)'
    BY <1>1, <1>2, <1>3, <1>6 DEF Fits, Alive
  <2>2. Compatible(Call("transfer_headers", r), Call("pipe", r))
    BY <1>1, MadeCalls DEF Drivers
  <2> QED BY <1>1, <1>3, <1>4, <1>5, <1>6, <2>1, <2>2, MadeCalls, CallSteps DEF Young
<1>7. CASE Enter(r, "Error")
  <2>1. Then(<<Call("process", r)>>) /\ state'[r] = "Error"
    BY <1>1, <1>7 DEF Enter
  <2>2. Fits("process", r)'
    BY <1>2, <1>3, <2>1 DEF Fits, Alive
  <2> QED BY <1>1, <1>3, <1>4, <1>5, <2>1, <2>2, MadeCalls, CallSteps DEF Young
<1> QED BY <1>6, <1>7 DEF handle_read_cache_state

(* handle_wait_for_cache_state, handle_complete_state, handle_error_state  *)
(* and remove_request: the request stays as it is.                         *)
LEMMA QuietSteps ==
    ASSUME IInv, TypeOK', NEW r \in Requests,
           \/ handle_wait_for_cache_state(r) \/ handle_complete_state(r)
           \/ handle_error_state(r) \/ remove_request(r)
    PROVE  IInv'
<1>1. KeepsEntries(r) /\ \A x \in Requests : Same(x)
  BY DEF handle_wait_for_cache_state, handle_complete_state, handle_error_state, remove_request,
         KeepsEntries, Same, cacheVars, requestVars
<1>2. CASE \/ handle_wait_for_cache_state(r) \/ handle_error_state(r)
           \/ handle_complete_state(r) /\ r \notin Fetches
  <2>1. Calling("process", r) /\ Return /\ "process" \in Ops
    BY <1>2 DEF handle_wait_for_cache_state, handle_complete_state, handle_error_state,
                Processing, Ops
  <2> QED BY <1>1, <2>1, QuietCall
<1>3. CASE handle_complete_state(r) /\ r \in Fetches
  <2>1. /\ Calling("process", r) /\ "process" \in Ops /\ "process" \in Drivers
        /\ Then(<<Call("transfer_headers", r), Call("finish", r)>>)
    BY <1>3 DEF handle_complete_state, Processing, Ops, Drivers
  <2>2. Fits("process", r)
    BY <2>1, Called
  <2>3. Fits("transfer_headers", r)' /\ Fits("finish", r)'
    BY <1>1, <2>2 DEF Fits, Alive, Same
  <2>4. Compatible(Call("transfer_headers", r), Call("finish", r))
    BY <2>1, MadeCalls DEF Drivers
  <2> QED BY <1>1, <2>1, <2>3, <2>4, MadeCalls, QuietCall
<1>4. CASE remove_request(r)
  <2>1. /\ Calling("remove", r) /\ "remove" \in Ops /\ "destroy" \in Ops
        /\ Return \/ Then(<<Call("destroy", r)>>)
    BY <1>4 DEF remove_request, Ops
  <2>2. Fits("destroy", r)'
    BY <1>1, <2>1, Called DEF Fits, Same
  <2>3. Makes("remove", r, Call("destroy", r))
    BY CallFields DEF Makes, Ends
  <2> QED BY <1>1, <2>1, <2>2, <2>3, QuietCall
<1> QED BY <1>2, <1>3, <1>4

(* notify_request_unblocked.                                               *)
LEMMA UnblockStep ==
    ASSUME IInv, TypeOK', NEW r \in Requests, notify_request_unblocked(r)
    PROVE  IInv'
<1>1. /\ Calling("unblock", r) /\ "unblock" \in Ops /\ "unblock" \in Drivers
      /\ state \in [Requests -> States]
  BY FieldTypes DEF notify_request_unblocked, Ops, Drivers, IInv, LocalInv
<1>2. Fits("unblock", r) /\ RequestOK(r)
  BY <1>1, Called
<1>3. /\ KeepsEntries(r) /\ \A x \in Requests \ {r} : Same(x)
      /\ UNCHANGED <<entry, readerRef, writerRef, resolving, curl, notifying, piping>>
      /\ state[r] \in {"WaitForCache", "Destroyed"}
      /\ \/ state[r] = "WaitForCache" /\ state'[r] = "Init" /\ Then(<<Call("process", r)>>)
         \/ state[r] = "Destroyed" /\ state'[r] = "Destroyed" /\ Return
  BY <1>1, <1>2 DEF notify_request_unblocked, Enter, KeepsEntries, Same, cacheVars, Fits, Alive
<1>4. RequestOK(r)'
  BY <1>1, <1>2, <1>3 DEF RequestOK, EntryOK, TransferOK, Fits, Flows, Alive, Young, Readers
<1>5. ASSUME NEW other \in Ops, Remains("unblock", other), Fits(other, r)
      PROVE  Fits(other, r)'
  BY <1>1, <1>2, <1>3, <1>5
  DEF Fits, Flows, Alive, Remains, Rivals, Drivers, Once, RequestOK, TransferOK, EntryOK, Young
<1>6. CASE state[r] = "WaitForCache"
  <2>1. Fits("process", r)'
    BY <1>2, <1>3, <1>6 DEF Fits, Alive, RequestOK, TransferOK
  <2> QED BY <1>1, <1>3, <1>4, <1>5, <1>6, <2>1, MadeCalls, CallSteps DEF Young
<1>7. CASE state[r] = "Destroyed"
  BY <1>1, <1>3, <1>4, <1>5, <1>7, CallSteps DEF Young
<1> QED BY <1>3, <1>6, <1>7

(* handle_dns_lookup_state.                                                *)
LEMMA LookupStep ==
    ASSUME IInv, TypeOK', NEW r \in Requests, handle_dns_lookup_state(r)
    PROVE  IInv'
<1>1. /\ Calling("process", r) /\ "process" \in Ops /\ "process" \in Drivers
      /\ state[r] = "DNSLookup" /\ state \in [Requests -> States]
  BY FieldTypes DEF handle_dns_lookup_state, Processing, Ops, Drivers, IInv, LocalInv
<1>2. Fits("process", r) /\ RequestOK(r)
  BY <1>1, Called
<1>3. /\ KeepsEntries(r) /\ \A x \in Requests \ {r} : Same(x)
      /\ UNCHANGED <<entry, readerRef, writerRef, curl, notifying, piping>>
      /\ \/ /\ state'[r] \in {"Complete", "Fetch", "Error"}
            /\ Then(<<Call("process", r)>>) /\ resolving' = resolving
         \/ Return /\ state'[r] = "DNSLookup"
  BY <1>1
  DEF handle_dns_lookup_state, AfterLookup, Asking, Enter, KeepsEntries, Same, cacheVars
<1>4. RequestOK(r)'
  BY <1>1, <1>2, <1>3 DEF RequestOK, EntryOK, TransferOK, Fits, Flows, Alive, Young, Readers
<1>5. ASSUME NEW other \in Ops, Remains("process", other), Fits(other, r)
      PROVE  Fits(other, r)'
  BY <1>1, <1>2, <1>3, <1>5
  DEF Fits, Flows, Alive, Remains, Rivals, Drivers, Once, RequestOK, TransferOK, EntryOK, Young
<1>6. CASE state'[r] # "DNSLookup"
  <2>1. Fits("process", r)'
    BY <1>1, <1>2, <1>3, <1>6 DEF Fits, Alive, RequestOK, TransferOK
  <2> QED BY <1>1, <1>3, <1>4, <1>5, <1>6, <2>1, MadeCalls, CallSteps DEF Young
<1>7. CASE state'[r] = "DNSLookup"
  BY <1>1, <1>3, <1>4, <1>5, <1>7, CallSteps DEF Young
<1> QED BY <1>6, <1>7

(* handle_connect_state and handle_fetch_state.                            *)
LEMMA TransferStep ==
    ASSUME IInv, TypeOK', NEW r \in Requests, handle_connect_state(r) \/ handle_fetch_state(r)
    PROVE  IInv'
<1>1. /\ Calling("process", r) /\ "process" \in Ops /\ "process" \in Drivers
      /\ state[r] \in {"Connect", "Fetch"} /\ state \in [Requests -> States]
      /\ curl \in [Requests -> {"none", "running", "aborted", "done"}]
  BY FieldTypes
  DEF handle_connect_state, handle_fetch_state, Processing, Ops, Drivers, IInv, LocalInv
<1>2. Fits("process", r) /\ RequestOK(r)
  BY <1>1, Called
<1>3. /\ KeepsEntries(r) /\ \A x \in Requests \ {r} : Same(x)
      /\ UNCHANGED <<entry, readerRef, writerRef, resolving, notifying, piping>>
      /\ \/ Return /\ state'[r] = state[r] /\ curl'[r] \in {"running", curl[r]}
         \/ /\ Then(<<Call("process", r)>>) /\ state[r] = "Fetch" /\ state'[r] = "Error"
            /\ curl'[r] = curl[r]
  BY <1>1
  DEF handle_connect_state, handle_fetch_state, Processing, Enter, KeepsEntries, Same, cacheVars
<1>4. RequestOK(r)'
  BY <1>1, <1>2, <1>3 DEF RequestOK, EntryOK, TransferOK, Fits, Flows, Alive, Young, Readers
<1>5. ASSUME NEW other \in Ops, Remains("process", other), Fits(other, r)
      PROVE  Fits(other, r)'
  BY <1>1, <1>2, <1>3, <1>5
  DEF Fits, Flows, Alive, Remains, Rivals, Drivers, Once, RequestOK, TransferOK, EntryOK, Young
<1>6. CASE state'[r] = "Error"
  <2>1. Fits("process", r)'
    BY <1>1, <1>2, <1>3, <1>6 DEF Fits, Alive, RequestOK, TransferOK
  <2> QED BY <1>1, <1>3, <1>4, <1>5, <1>6, <2>1, MadeCalls, CallSteps DEF Young
<1>7. CASE state'[r] # "Error"
  BY <1>1, <1>3, <1>4, <1>5, <1>7, CallSteps DEF Young
<1> QED BY <1>6, <1>7

(* settle.                                                                 *)
LEMMA SettleStep ==
    ASSUME IInv, TypeOK', NEW r \in Requests, settle(r)
    PROVE  IInv'
<1>1. /\ Calling("settle", r) /\ "settle" \in Ops /\ "settle" \in Drivers
      /\ state \in [Requests -> States]
      /\ curl \in [Requests -> {"none", "running", "aborted", "done"}]
  BY FieldTypes DEF settle, Ops, Drivers, IInv, LocalInv
<1>2. Fits("settle", r) /\ RequestOK(r)
  BY <1>1, Called
<1>3. /\ KeepsEntries(r) /\ \A x \in Requests \ {r} : Same(x)
      /\ UNCHANGED <<entry, readerRef, writerRef, resolving, notifying, piping>>
      /\ curl'[r] = "done"
      /\ \/ Return /\ state'[r] = state[r]
         \/ Then(<<Call("process", r)>>) /\ state'[r] = "Complete"
  BY <1>1 DEF settle, Enter, KeepsEntries, Same, cacheVars
<1>4. RequestOK(r)'
  BY <1>1, <1>2, <1>3 DEF RequestOK, EntryOK, TransferOK, Fits, Flows, Alive, Young, Readers
<1>5. ASSUME NEW other \in Ops, Remains("settle", other), Fits(other, r)
      PROVE  Fits(other, r)'
  BY <1>1, <1>2, <1>3, <1>5
  DEF Fits, Flows, Alive, Remains, Rivals, Drivers, Once, RequestOK, TransferOK, EntryOK, Young
<1>6. CASE Then(<<Call("process", r)>>) /\ state'[r] = "Complete"
  <2>1. Fits("process", r)'
    BY <1>1, <1>2, <1>3, <1>6 DEF Fits, Alive, RequestOK, TransferOK
  <2> QED BY <1>1, <1>2, <1>3, <1>4, <1>5, <1>6, <2>1, MadeCalls, CallSteps DEF Young, Fits
<1>7. CASE Return /\ state'[r] = state[r]
  BY <1>1, <1>2, <1>3, <1>4, <1>5, <1>7, CallSteps DEF Young, Fits
<1> QED BY <1>3, <1>6, <1>7

(* finish and transfer_headers_to_client_if_needed: the request stays as   *)
(* it is, or loses its writer.                                             *)
LEMMA HeadersAndFinishStep ==
    ASSUME IInv, TypeOK', NEW r \in Requests,
           finish(r) \/ transfer_headers_to_client_if_needed(r)
    PROVE  IInv'
<1>1. PICK op \in {"finish", "transfer_headers"} : Calling(op, r)
  BY DEF finish, transfer_headers_to_client_if_needed
<1>2. op \in Ops /\ entry \in [Requests -> Entries] /\ Return
  BY FieldTypes DEF Ops, IInv, LocalInv, finish, transfer_headers_to_client_if_needed
<1>3. Fits(op, r) /\ RequestOK(r) /\ Alive(r)
  BY <1>1, <1>2, Called DEF Fits
<1>4. UNCHANGED <<state, readerRef, resolving, curl, notifying, piping>>
  BY DEF finish, transfer_headers_to_client_if_needed
<1>5. CASE KeepsEntries(r) /\ entry' = entry /\ writerRef' = writerRef
  <2>1. \A x \in Requests : Same(x)
    BY <1>4, <1>5 DEF Same
  <2> QED BY <1>1, <1>2, <1>5, <2>1, QuietCall
<1>6. CASE /\ r \in writerRef /\ CloseEntry(r, "none") /\ writerRef' = writerRef \ {r}
           /\ Defer(Resumption(r)) \/ Defer(Resumption(r) \o request_complete(r))
  <2>1. entry'[r] = "none" /\ \A x \in Requests \ {r} : entry'[x] = entry[x]
    BY <1>2, <1>6 DEF CloseEntry
  <2>2. ClosesEntry(r) /\ \A x \in Requests \ {r} : Same(x)
    BY <1>4, <1>6, <2>1 DEF ClosesEntry, Same
  <2>3. RequestOK(r)'
    BY <1>3, <1>4, <1>6, <2>1
    DEF RequestOK, EntryOK, TransferOK, Flows, Alive, Young, Readers
  <2>4. ASSUME NEW other \in Ops, Fits(other, r) PROVE Fits(other, r)'
    BY <1>3, <1>4, <1>6, <2>1, <2>4
    DEF Fits, Flows, Alive, RequestOK, EntryOK, TransferOK, Readers
  <2>5. state'[r] = state[r] /\ state[r] # "Unborn"
    BY <1>3, <1>4 DEF Alive
  <2> QED BY <1>1, <1>2, <2>2, <2>3, <2>4, <2>5, CallSteps
<1>7. CASE finish(r)
  <2>1. CASE r \in writerRef
    BY <1>5, <1>6, <1>7, <2>1 DEF finish, KeepsEntries, cacheVars
  <2>2. CASE r \notin writerRef
    BY <1>5, <1>7, <2>2 DEF finish, KeepsEntries, cacheVars
  <2> QED BY <2>1, <2>2
<1>8. CASE transfer_headers_to_client_if_needed(r)
  <2>1. CASE LoseWriter(r) /\ r \in writerRef
    BY <1>6, <2>1 DEF LoseWriter
  <2>2. CASE ~(LoseWriter(r) /\ r \in writerRef)
    BY <1>5, <1>8, <2>2 DEF transfer_headers_to_client_if_needed, KeepsEntries, cacheVars
  <2> QED BY <2>1, <2>2
<1> QED BY <1>7, <1>8

(* Writing to the client's pipe.                                           *)
LEMMA WritingStep ==
    ASSUME IInv, TypeOK', NEW r \in Requests, NEW op \in {"write_queued", "activate"},
           Calling(op, r), Alive(r), NEW inCallback \in BOOLEAN,
           WriteAll(r) \/ WriteSome(r) \/ WriteNothing(r) \/ WriteFails(r, inCallback),
           UNCHANGED <<readerRef, resolving, piping>>
    PROVE  IInv'
<1>1. /\ op \in Ops /\ op \in Drivers /\ entry \in [Requests -> Entries]
      /\ state \in [Requests -> States]
      /\ curl \in [Requests -> {"none", "running", "aborted", "done"}]
  BY FieldTypes DEF Ops, Drivers, IInv, LocalInv
<1>2. RequestOK(r) /\ Flows(r)
  BY <1>1, Called DEF Fits
<1>3. \/ /\ writerRef' = writerRef /\ entry' = entry /\ waiting' = waiting
         /\ queued_events' = queued_events
      \/ r \in writerRef /\ LoseWriter(r)
  BY DEF WriteAll, WriteSome, WriteNothing, WriteFails, WriteToCache, cacheVars
<1>4. /\ \A x \in Requests \ {r} : /\ state'[x] = state[x] /\ curl'[x] = curl[x]
                                   /\ x \in notifying' <=> x \in notifying
      /\ curl'[r] \in {curl[r], "aborted"}
      /\ \/ Return /\ state'[r] = state[r]
         \/ Then(<<Call("process", r)>>) /\ state'[r] = "Complete"
  BY <1>1 DEF WriteAll, WriteSome, WriteNothing, WriteFails, CompleteIfDrained, Enter
<1>5. /\ ClosesEntry(r) \/ KeepsEntries(r)
      /\ \A x \in Requests \ {r} : Same(x)
      /\ \/ entry'[r] = entry[r] /\ (r \in writerRef' <=> r \in writerRef)
         \/ r \in writerRef /\ entry'[r] = "none" /\ r \notin writerRef'
  <2>1. CASE r \in writerRef /\ LoseWriter(r)
    BY <1>1, <1>4, <2>1 DEF ClosesEntry, LoseWriter, CloseEntry, Same
  <2>2. CASE /\ writerRef' = writerRef /\ entry' = entry /\ waiting' = waiting
             /\ queued_events' = queued_events
    BY <1>4, <2>2 DEF KeepsEntries, Same
  <2> QED BY <1>3, <2>1, <2>2
<1>6. Flows(r)' /\ Alive(r)'
  BY <1>2, <1>4 DEF Flows, Alive
<1>7. RequestOK(r)'
  <2>1. EntryOK(r)'
    BY <1>2, <1>4, <1>5, <1>6 DEF RequestOK, EntryOK, Flows, Alive, Young, Readers
  <2>2. TransferOK(r)'
    BY <1>2, <1>4, <1>5, <1>6 DEF RequestOK, TransferOK, Flows, Alive, Young
  <2> QED BY <2>1, <2>2 DEF RequestOK
<1>8. ASSUME NEW other \in Ops, Remains(op, other), Fits(other, r) PROVE Fits(other, r)'
  BY <1>1, <1>2, <1>4, <1>5, <1>6, <1>8
  DEF Fits, Flows, Alive, Remains, Rivals, Drivers, Once, RequestOK, EntryOK, TransferOK
<1>9. CASE Then(<<Call("process", r)>>) /\ state'[r] = "Complete"
  <2>1. Fits("process", r)'
    BY <1>2, <1>6, <1>9 DEF Fits, RequestOK, TransferOK, Flows
  <2> QED BY <1>1, <1>2, <1>5, <1>7, <1>8, <1>9, <2>1, MadeCalls, CallSteps DEF Young, Flows
<1>10. CASE Return /\ state'[r] = state[r]
  BY <1>1, <1>2, <1>5, <1>7, <1>8, <1>10, CallSteps DEF Young, Flows
<1> QED BY <1>4, <1>9, <1>10

(* write_queued_bytes_without_blocking and on_client_pipe_writable.        *)
LEMMA WriteSteps ==
    ASSUME IInv, TypeOK', NEW r \in Requests,
           write_queued_bytes_without_blocking(r) \/ on_client_pipe_writable(r)
    PROVE  IInv'
<1>1. CASE write_queued_bytes_without_blocking(r)
  <2>1. Calling("write_queued", r) /\ "write_queued" \in Ops
    BY <1>1 DEF write_queued_bytes_without_blocking, Ops
  <2>2. Alive(r)
    BY <2>1, Called DEF Fits, Flows, Alive
  <2> QED BY <1>1, <2>1, <2>2, WritingStep DEF write_queued_bytes_without_blocking
<1>2. CASE on_client_pipe_writable(r) /\ Alive(r)
  BY <1>2, WritingStep DEF on_client_pipe_writable
<1>3. CASE on_client_pipe_writable(r) /\ ~Alive(r)
  <2>1. /\ Calling("activate", r) /\ "activate" \in Ops /\ Return
        /\ KeepsEntries(r) /\ \A x \in Requests : Same(x)
    BY <1>3 DEF on_client_pipe_writable, Ops, KeepsEntries, Same, cacheVars
  <2> QED BY <2>1, QuietCall
<1> QED BY <1>1, <1>2, <1>3

(* A new process starts with nothing running, open or waited for.          *)
LEMMA TerminateStep ==
    ASSUME IInv, TypeOK', Terminate
    PROVE  IInv'
<1>1. /\ calls' = <<>> /\ queued_events' = <<>>
      /\ TurnOK(<<>>) /\ QueueOK(<<>>, <<>>)
      /\ \A c : ~IsIn(c, <<>>) /\ ~Queued(c, <<>>)
  BY ShortTurns, ShortQueues DEF Terminate
<1>2. /\ \A x \in Requests : /\ state'[x] \in {"Unborn", "Destroyed"}
                             /\ state'[x] = "Unborn" <=> state[x] = "Unborn"
                             /\ entry'[x] = "none" /\ curl'[x] = "none"
      /\ readerRef' = {} /\ writerRef' = {} /\ resolving' = {} /\ notifying' = {} /\ piping' = {}
      /\ \A k \in Keys : waiting'[k] = <<>>
  BY DEF Terminate, Alive
<1>3. TurnsOK'
  BY <1>1 DEF TurnsOK, Pending
<1>4. ASSUME NEW x \in Requests PROVE RequestOK(x)'
  BY <1>2 DEF RequestOK, EntryOK, TransferOK, Flows, Alive, Young, Readers
<1>5. BackgroundOK'
  <2> SUFFICES ASSUME NEW f \in Fetches, state'[Background[f]] # "Unborn" PROVE state'[f] \notin Young
    BY DEF BackgroundOK
  <2>1. f \in Requests /\ Background[f] \in Requests
    BY RequestAssumption
  <2>2. state[f] \notin Young
    BY <1>2, <2>1 DEF IInv, LocalInv, BackgroundOK
  <2> QED BY <1>2, <2>1, <2>2 DEF Young
<1>6. WaitingOK'
  BY <1>2 DEF WaitingOK
<1>7. NoLostWakeup'
  BY <1>2 DEF NoLostWakeup
<1> QED BY <1>3, <1>4, <1>5, <1>6, <1>7 DEF IInv, LocalInv

(* The calls that are left of a turn when r is called.                     *)
LEMMA LeftOfTurn ==
    ASSUME IInv, NEW r \in Requests, NEW op \in Ops, Calling(op, r)
    PROVE  /\ \A c : IsIn(c, Tail(calls)) => Compatible(Call(op, r), c)
           /\ \A other \in Ops : IsIn(Call(other, r), Tail(calls)) => Fits(other, r)
<1>1. calls # <<>> /\ Head(calls) = Call(op, r) /\ calls \in Seq(Calls) /\ TurnOK(calls)
  BY DEF Calling, IInv, LocalInv, TypeOK, LoopTypeOK, TurnsOK
<1>2. /\ \A c : IsIn(c, Tail(calls)) => Compatible(Call(op, r), c)
      /\ \A c : IsIn(c, Tail(calls)) => IsIn(c, calls)
  BY <1>1, FirstCall
<1>3. ASSUME NEW other \in Ops, IsIn(Call(other, r), Tail(calls)) PROVE Fits(other, r)
  BY <1>2, <1>3 DEF IInv, LocalInv, TurnsOK, Pending
<1> QED BY <1>2, <1>3

(* pipe_without_blocking.                                                  *)
LEMMA PipeStep ==
    ASSUME IInv, TypeOK', NEW r \in Requests, pipe_without_blocking(r)
    PROVE  IInv'
<1>1. /\ Calling("pipe", r) /\ "pipe" \in Ops /\ "pipe" \in Drivers /\ "close" \in Ops
      /\ state \in [Requests -> States]
  BY FieldTypes DEF pipe_without_blocking, Ops, Drivers, IInv, LocalInv
<1>2. Fits("pipe", r) /\ RequestOK(r) /\ state[r] = "ReadCache" /\ entry[r] \in Readers
  BY <1>1, Called DEF Fits, RequestOK, EntryOK
<1>3. CASE PipeOverruns(r)
  BY <1>3, TerminateStep DEF PipeOverruns
<1>4. CASE ~PipeOverruns(r)
  <2>1. /\ KeepsEntries(r) /\ \A x \in Requests \ {r} : Same(x)
        /\ UNCHANGED <<entry, readerRef, writerRef, resolving, curl, notifying>>
        /\ \/ Return /\ state'[r] = "ReadCache" /\ piping' = piping \cup {r}
           \/ /\ Then(<<Call("process", r), Call("close", r)>>)
              /\ state'[r] \in {"Complete", "Error"} /\ piping' = piping
    BY <1>1, <1>2, <1>4
    DEF pipe_without_blocking, PipeComplete, PipeBlocked, PipeError, KeepsEntries, Same
  <2>2. RequestOK(r)'
    BY <1>1, <1>2, <2>1 DEF RequestOK, EntryOK, TransferOK, Fits, Flows, Alive, Young, Readers
  <2>3. ASSUME NEW other \in Ops, Remains("pipe", other), Fits(other, r)
        PROVE  Fits(other, r)'
    BY <1>1, <1>2, <2>1, <2>3
    DEF Fits, Flows, Alive, Remains, Rivals, Drivers, Once, RequestOK, TransferOK, EntryOK, Young
  <2>4. CASE Return /\ state'[r] = "ReadCache"
    BY <1>1, <1>2, <2>1, <2>2, <2>3, <2>4, CallSteps DEF Young
  <2>5. CASE Then(<<Call("process", r), Call("close", r)>>) /\ state'[r] \in {"Complete", "Error"}
    <3>1. Fits("process", r)' /\ Fits("close", r)'
      BY <1>2, <2>1, <2>5 DEF Fits, Alive, RequestOK, TransferOK, Readers
    <3>2. ~IsIn(Call("close", r), Tail(calls))
      BY <1>1, <1>2, LeftOfTurn DEF Fits, Alive
    <3>3. Makes("pipe", r, Call("close", r)) /\ Compatible(Call("process", r), Call("close", r))
      BY <1>1, <3>2, CallFields, MadeCalls DEF Makes
    <3> QED BY <1>1, <1>2, <2>1, <2>2, <2>3, <2>5, <3>1, <3>3, MadeCalls, CallSteps DEF Young
  <2> QED BY <2>1, <2>4, <2>5
<1> QED BY <1>3, <1>4

(* on_reader_pipe_writable.                                                *)
LEMMA ReaderPipeStep ==
    ASSUME IInv, TypeOK', NEW r \in Requests, on_reader_pipe_writable(r)
    PROVE  IInv'
<1>1. /\ Calling("pipe_activate", r) /\ "pipe_activate" \in Ops /\ "pipe_activate" \in Drivers
      /\ "close" \in Ops
  BY DEF on_reader_pipe_writable, Ops, Drivers
<1>2. Fits("pipe_activate", r) /\ RequestOK(r) /\ state[r] # "Unborn"
  BY <1>1, Called
<1>3. CASE ~Alive(r) /\ entry[r] = "none"
  <2>1. KeepsEntries(r) /\ Return /\ \A x \in Requests : Same(x)
    BY <1>3 DEF on_reader_pipe_writable, KeepsEntries, Same, cacheVars, requestVars
  <2> QED BY <1>1, <2>1, QuietCall
<1>4. CASE Terminate
  BY <1>4, TerminateStep
<1>5. CASE ~Terminate /\ ~(~Alive(r) /\ entry[r] = "none")
  <2>1. /\ KeepsEntries(r) /\ \A x \in Requests \ {r} : Same(x)
        /\ UNCHANGED <<state, entry, readerRef, writerRef, resolving, curl, notifying>>
        /\ piping' = piping \ {r}
        /\ \/ Alive(r) /\ Then(<<Call("pipe", r)>>)
           \/ ~Alive(r) /\ entry[r] # "none" /\ Then(<<Call("close", r)>>)
    BY <1>5 DEF on_reader_pipe_writable, KeepsEntries, Same, cacheVars
  <2>2. RequestOK(r)'
    BY <1>2, <2>1 DEF RequestOK, EntryOK, TransferOK, Flows, Alive
  <2>3. ASSUME NEW other \in Ops, Remains("pipe_activate", other), Fits(other, r)
        PROVE  Fits(other, r)'
    BY <2>1, <2>3 DEF Fits, Flows, Alive, Remains, Rivals, Drivers, Once
  <2>4. CASE Alive(r) /\ Then(<<Call("pipe", r)>>)
    <3>1. Fits("pipe", r)'
      BY <1>2, <2>1, <2>4 DEF Fits, RequestOK, TransferOK, Alive
    <3> QED BY <1>1, <1>2, <2>1, <2>2, <2>3, <2>4, <3>1, MadeCalls, CallSteps
  <2>5. CASE ~Alive(r) /\ entry[r] # "none" /\ Then(<<Call("close", r)>>)
    <3>1. Fits("close", r)'
      BY <1>2, <2>1, <2>5 DEF Fits, Alive
    <3>2. ~IsIn(Call("close", r), Tail(calls))
      BY <1>1, LeftOfTurn, CallFields DEF Compatible
    <3>3. Makes("pipe_activate", r, Call("close", r))
      BY <3>2, CallFields DEF Makes
    <3> QED BY <1>1, <1>2, <2>1, <2>2, <2>3, <2>5, <3>1, <3>3, CallSteps
  <2> QED BY <2>1, <2>4, <2>5
<1> QED BY <1>3, <1>4, <1>5

(* close.                                                                  *)
LEMMA CloseStep ==
    ASSUME IInv, TypeOK', NEW r \in Requests, close(r)
    PROVE  IInv'
<1>1. /\ Calling("close", r) /\ "close" \in Ops /\ Return /\ entry \in [Requests -> Entries]
  BY FieldTypes DEF close, Ops, IInv, LocalInv
<1>2. Fits("close", r) /\ RequestOK(r) /\ state[r] # "Unborn"
  BY <1>1, Called
<1>3. /\ ClosesEntry(r) /\ \A x \in Requests \ {r} : Same(x)
      /\ UNCHANGED <<state, readerRef, writerRef, resolving, curl, notifying, piping>>
      /\ entry'[r] = "none"
  BY <1>1 DEF close, ClosesEntry, CloseEntry, Same, requestVars
<1>4. RequestOK(r)'
  BY <1>2, <1>3 DEF RequestOK, EntryOK, TransferOK, Fits, Flows, Alive, Young, Readers
<1>5. ASSUME NEW other \in Ops, Remains("close", other), Fits(other, r)
      PROVE  Fits(other, r)'
  BY <1>3, <1>5 DEF Fits, Flows, Alive, Remains, Rivals
<1> QED BY <1>1, <1>2, <1>3, <1>4, <1>5, CallSteps

(* destroy.                                                                *)
LEMMA DestroyStep ==
    ASSUME IInv, TypeOK', NEW r \in Requests, destroy(r)
    PROVE  IInv'
<1>1. /\ Calling("destroy", r) /\ "destroy" \in Ops /\ "close" \in Ops
      /\ state \in [Requests -> States]
      /\ curl \in [Requests -> {"none", "running", "aborted", "done"}]
  BY FieldTypes DEF destroy, Ops, IInv, LocalInv
<1>2. Fits("destroy", r) /\ RequestOK(r) /\ state[r] # "Unborn"
  BY <1>1, Called
<1>3. /\ KeepsEntries(r) /\ \A x \in Requests \ {r} : Same(x)
      /\ UNCHANGED <<entry, resolving, piping>>
      /\ state'[r] = "Destroyed" /\ curl'[r] = "none"
      /\ r \notin readerRef' /\ r \notin writerRef' /\ r \notin notifying'
      /\ \/ r \in writerRef /\ Then(<<Call("close", r)>>)
         \/ r \notin writerRef /\ Return
  BY <1>1 DEF destroy, flush, KeepsEntries, Same
<1>4. RequestOK(r)'
  BY <1>2, <1>3 DEF RequestOK, EntryOK, TransferOK, Fits, Flows, Alive, Young
<1>5. ASSUME NEW other \in Ops, Remains("destroy", other), Fits(other, r)
      PROVE  Fits(other, r)'
  BY <1>3, <1>5 DEF Fits, Flows, Alive, Remains, Rivals, Drivers, Ends, Once
<1>6. CASE r \in writerRef /\ Then(<<Call("close", r)>>)
  <2>1. Alive(r) /\ entry[r] = "writer"
    BY <1>2, <1>6 DEF RequestOK, EntryOK, TransferOK
  <2>2. ~IsIn(Call("close", r), Tail(calls))
    BY <1>1, <2>1, LeftOfTurn DEF Fits, Readers
  <2>3. Makes("destroy", r, Call("close", r)) /\ Fits("close", r)'
    BY <1>3, <2>1, <2>2, CallFields DEF Makes, Fits, Alive
  <2> QED BY <1>1, <1>3, <1>4, <1>5, <1>6, <2>3, CallSteps DEF Young
<1>7. CASE r \notin writerRef /\ Return
  BY <1>1, <1>3, <1>4, <1>5, <1>7, CallSteps DEF Young
<1> QED BY <1>3, <1>6, <1>7

-----------------------------------------------------------------------------
(* The events keep the invariant.                                          *)

(* An event that starts a turn of no, one or two calls on r.               *)
LEMMA EventSteps ==
    ASSUME IInv, TypeOK', NEW r \in Requests, Idle,
           ClosesEntry(r) \/ KeepsEntries(r),
           \A x \in Requests \ {r} : Same(x),
           RequestOK(r)',
           state'[r] \in Young => state[r] \in Young,
           state[r] = "Unborn" => r \notin Revalidations,
           state'[r] # "Unborn",
           state'[r] = "WaitForCache" => state[r] = "WaitForCache",
           state[r] \in {"WaitForCache", "Destroyed"} =>
               state'[r] \in {"WaitForCache", "Destroyed"},
           \A other \in {"unblock", "remove", "activate", "pipe_activate"} :
               Fits(other, r) => Fits(other, r)'
    PROVE  /\ calls' = <<>> => IInv'
           /\ \A a \in Ops \ Once : calls' = <<Call(a, r)>> /\ Fits(a, r)' => IInv'
           /\ \A a, b \in Ops \ Once :
                  /\ calls' = <<Call(a, r), Call(b, r)>> /\ Compatible(Call(a, r), Call(b, r))
                  /\ Fits(a, r)' /\ Fits(b, r)'
                  => IInv'
<1>1. ASSUME calls' = <<>> PROVE IInv'
  <2>1. TurnOK(<<>>) /\ \A c : ~IsIn(c, <<>>)
    BY ShortTurns
  <2>2. <<>> \in Seq(Calls)
    OBVIOUS
  <2>3. \A c \in Calls : IsIn(c, <<>>) => c.op \notin Once /\ c.on = r /\ Fits(c.op, r)'
    BY <2>1
  <2> QED BY <1>1, <2>1, <2>2, <2>3, EventStep
<1>2. ASSUME NEW a \in Ops \ Once, calls' = <<Call(a, r)>>, Fits(a, r)' PROVE IInv'
  <2>1. Call(a, r) \in Calls /\ Call(a, r).op = a /\ Call(a, r).on = r
    BY CallType, CallFields
  <2>2. <<Call(a, r)>> \in Seq(Calls)
    BY <2>1
  <2>3. TurnOK(<<Call(a, r)>>) /\ \A c : IsIn(c, <<Call(a, r)>>) <=> c = Call(a, r)
    BY ShortTurns
  <2>4. \A c \in Calls :
            IsIn(c, <<Call(a, r)>>) => c.op \notin Once /\ c.on = r /\ Fits(c.op, r)'
    BY <1>2, <2>1, <2>3
  <2> QED BY <1>2, <2>2, <2>3, <2>4, EventStep
<1>3. ASSUME NEW a \in Ops \ Once, NEW b \in Ops \ Once, calls' = <<Call(a, r), Call(b, r)>>,
             Compatible(Call(a, r), Call(b, r)), Fits(a, r)', Fits(b, r)'
      PROVE  IInv'
  <2>1. /\ Call(a, r) \in Calls /\ Call(a, r).op = a /\ Call(a, r).on = r
        /\ Call(b, r) \in Calls /\ Call(b, r).op = b /\ Call(b, r).on = r
    BY CallType, CallFields
  <2>2. <<Call(a, r), Call(b, r)>> \in Seq(Calls)
    BY <2>1
  <2>3. /\ TurnOK(<<Call(a, r), Call(b, r)>>)
        /\ \A c : IsIn(c, <<Call(a, r), Call(b, r)>>) <=> c = Call(a, r) \/ c = Call(b, r)
    BY <1>3, ShortTurns
  <2>4. \A c \in Calls : IsIn(c, <<Call(a, r), Call(b, r)>>) =>
            c.op \notin Once /\ c.on = r /\ Fits(c.op, r)'
    BY <1>3, <2>1, <2>3
  <2> QED BY <1>3, <2>2, <2>3, <2>4, EventStep
<1> QED BY <1>1, <1>2, <1>3

(* start_request, ensure_connection and stop_request.                      *)
LEMMA MessageSteps ==
    ASSUME IInv, TypeOK', NEW r \in Requests,
           start_request(r) \/ ensure_connection(r) \/ stop_request(r)
    PROVE  IInv'
<1>1. /\ Idle /\ RequestOK(r) /\ state \in [Requests -> States]
      /\ "process" \in Ops \ Once /\ "destroy" \in Ops \ Once
  BY FieldTypes DEF start_request, ensure_connection, stop_request, IInv, LocalInv, Ops, Once
<1>2. CASE start_request(r) \/ ensure_connection(r)
  <2>1. /\ KeepsEntries(r) /\ \A x \in Requests \ {r} : Same(x)
        /\ state[r] = "Unborn"
        /\ state'[r] = "Init" \/ (r \in Connects /\ state'[r] \in {"DNSLookup", "Connect"})
        /\ UNCHANGED <<entry, readerRef, writerRef, resolving, curl, notifying, piping>>
        /\ calls' = <<Call("process", r)>>
        /\ r \notin Revalidations
    BY <1>1, <1>2, RequestAssumption
    DEF start_request, ensure_connection, KeepsEntries, Same, cacheVars
  <2>2. RequestOK(r)'
    BY <1>1, <2>1 DEF RequestOK, EntryOK, TransferOK, Flows, Alive, Young, Readers
  <2>3. Fits("process", r)'
    BY <1>1, <2>1 DEF Fits, Alive, RequestOK, TransferOK
  <2>4. \A other : ~Fits(other, r)
    BY <2>1 DEF Fits
  <2> QED BY <1>1, <2>1, <2>2, <2>3, <2>4, EventSteps DEF Young
<1>3. CASE stop_request(r)
  <2>1. /\ KeepsEntries(r) /\ \A x \in Requests : Same(x)
        /\ calls' = <<Call("destroy", r)>> /\ state'[r] = state[r] /\ state[r] # "Unborn"
    BY <1>3 DEF stop_request, KeepsEntries, Same, cacheVars, requestVars, Alive
  <2>2. /\ RequestOK(r)'
        /\ \A other \in {"unblock", "remove", "activate", "pipe_activate"} :
               Fits(other, r) => Fits(other, r)'
    BY <1>1, <2>1, SameRequest DEF Ops
  <2>3. Fits("destroy", r)'
    BY <2>1 DEF Fits
  <2> QED BY <1>1, <2>1, <2>2, <2>3, EventSteps
<1> QED BY <1>2, <1>3

(* The lookup settles.                                                     *)
LEMMA LookupSettledStep ==
    ASSUME IInv, TypeOK', NEW r \in Requests, DNSLookupSettled(r)
    PROVE  IInv'
<1>1. /\ Idle /\ RequestOK(r) /\ state \in [Requests -> States]
      /\ "process" \in Ops \ Once /\ state[r] \in {"DNSLookup", "Destroyed"}
  BY FieldTypes DEF DNSLookupSettled, IInv, LocalInv, Ops, Once, RequestOK, TransferOK
<1>2. CASE Terminate
  BY <1>2, TerminateStep
<1>3. CASE ~Terminate
  <2>1. /\ KeepsEntries(r) /\ \A x \in Requests \ {r} : Same(x)
        /\ UNCHANGED <<entry, readerRef, writerRef, curl, notifying, piping>>
        /\ resolving' = resolving \ {r}
        /\ \/ /\ state[r] = "DNSLookup" /\ state'[r] \in {"Complete", "Fetch", "Error"}
              /\ calls' = <<Call("process", r)>>
           \/ state[r] = "Destroyed" /\ state'[r] = "Destroyed" /\ calls' = <<>>
    BY <1>1, <1>3 DEF DNSLookupSettled, AfterLookup, KeepsEntries, Same, cacheVars, loopVars,
                      Alive, Idle
  <2>2. RequestOK(r)'
    BY <1>1, <2>1 DEF RequestOK, EntryOK, TransferOK, Flows, Alive, Young, Readers
  <2>3. ASSUME NEW other \in {"unblock", "remove", "activate", "pipe_activate"}, Fits(other, r)
        PROVE  Fits(other, r)'
    BY <1>1, <2>1, <2>3 DEF Fits, Flows, Alive, RequestOK, TransferOK
  <2>4. CASE calls' = <<Call("process", r)>> /\ state[r] = "DNSLookup"
    <3>1. Fits("process", r)'
      BY <1>1, <2>1, <2>4 DEF Fits, Alive, RequestOK, TransferOK
    <3> QED BY <1>1, <2>1, <2>2, <2>3, <2>4, <3>1, EventSteps DEF Young
  <2>5. CASE calls' = <<>> /\ state[r] = "Destroyed"
    BY <1>1, <2>1, <2>2, <2>3, <2>5, EventSteps DEF Young
  <2> QED BY <2>1, <2>4, <2>5
<1> QED BY <1>2, <1>3

(* What is known of r when curl calls back.                                *)
LEMMA CurlCallback ==
    ASSUME IInv, NEW r \in Requests, curl[r] \in {"running", "aborted"}
    PROVE  /\ RequestOK(r) /\ state[r] \in {"Fetch", "Connect", "Complete", "Error"}
           /\ r \in readerRef <=> is_revalidation_request(r)
           /\ is_revalidation_request(r) =>
                  /\ state[r] = "Fetch" /\ r \notin writerRef
                  /\ entry[r] \in {"must_revalidate", "background"}
                  /\ r \in Revalidations <=> entry[r] = "background"
<1>1. RequestOK(r) /\ state[r] \in {"Fetch", "Connect", "Complete", "Error"}
  BY DEF IInv, LocalInv, RequestOK, TransferOK
<1>2. ASSUME r \in readerRef
      PROVE  /\ state[r] = "Fetch" /\ r \notin writerRef
             /\ entry[r] \in {"must_revalidate", "background"}
             /\ r \in Revalidations <=> entry[r] = "background"
             /\ is_revalidation_request(r)
  <2>1. /\ state[r] = "Fetch" /\ entry[r] \in {"must_revalidate", "background"}
        /\ r \notin writerRef /\ (r \in Revalidations <=> entry[r] = "background")
    BY <1>1, <1>2 DEF RequestOK, EntryOK, TransferOK, Alive, Readers
  <2>2. r \in Fetches => entry[r] = "must_revalidate"
    BY <2>1, RequestAssumption
  <2> QED BY <1>2, <2>1, <2>2 DEF is_revalidation_request
<1>3. is_revalidation_request(r) => r \in readerRef
  BY DEF is_revalidation_request
<1> QED BY <1>1, <1>2, <1>3

(* Two calls on r that may follow each other in a turn of curl's.          *)
LEMMA CurlCalls ==
    ASSUME NEW r \in Requests
    PROVE  /\ "transfer_headers" \in Ops \ Once /\ "process" \in Ops \ Once
           /\ "write_queued" \in Ops \ Once /\ "settle" \in Ops \ Once
           /\ Compatible(Call("transfer_headers", r), Call("write_queued", r))
           /\ Compatible(Call("transfer_headers", r), Call("settle", r))
<1>1. \A a : Call(a, r).op = a /\ Call(a, r).on = r
  BY CallFields
<1> QED BY <1>1 DEF Compatible, Rivals, Drivers, Ends, Ops, Once

(* on_data_received.                                                       *)
LEMMA DataStep ==
    ASSUME IInv, TypeOK', NEW r \in Requests, on_data_received(r)
    PROVE  IInv'
<1>1. /\ Idle /\ curl[r] = "running" /\ r \notin Connects
      /\ state \in [Requests -> States] /\ entry \in [Requests -> Entries]
      /\ curl \in [Requests -> {"none", "running", "aborted", "done"}]
      /\ UNCHANGED <<resolving, notifying, piping>>
  BY FieldTypes DEF on_data_received, IInv, LocalInv
<1>2. /\ RequestOK(r) /\ (r \in readerRef <=> is_revalidation_request(r))
      /\ is_revalidation_request(r) => state[r] = "Fetch" /\ r \notin writerRef
  BY <1>1, CurlCallback
<1>3. CASE is_revalidation_request(r)
  <2>1. PICK w \in {"none", "writer"} :
          /\ RevalidationFailed(r, w)
          /\ \/ /\ writerRef' = IF w = "writer" THEN writerRef \cup {r} ELSE writerRef \ {r}
                /\ calls' = <<Call("transfer_headers", r), Call("write_queued", r)>>
                /\ UNCHANGED <<state, curl>>
             \/ /\ w = "none" /\ writerRef' = writerRef
                /\ curl' = [curl EXCEPT ![r] = "aborted"]
                /\ state' = [state EXCEPT ![r] = "Error"]
                /\ calls' = <<Call("process", r)>>
    BY <1>3 DEF on_data_received, ReplaceStoredResponse
  <2>2. /\ entry'[r] = w /\ \A x \in Requests \ {r} : entry'[x] = entry[x]
        /\ readerRef' = readerRef \ {r} /\ r \notin readerRef'
        /\ ClosesEntry(r)
    BY <1>1, <2>1 DEF RevalidationFailed, CloseEntry, ClosesEntry
  <2>3. \A x \in Requests \ {r} : Same(x)
    BY <1>1, <2>1, <2>2 DEF Same
  <2>4. /\ r \in writerRef' <=> w = "writer"
        /\ \/ /\ state'[r] = "Fetch" /\ curl'[r] = "running"
              /\ calls' = <<Call("transfer_headers", r), Call("write_queued", r)>>
           \/ /\ state'[r] = "Error" /\ curl'[r] = "aborted"
              /\ calls' = <<Call("process", r)>>
    BY <1>1, <1>2, <1>3, <2>1
  <2>5. RequestOK(r)'
    BY <1>1, <1>2, <1>3, <2>2, <2>4
    DEF RequestOK, EntryOK, TransferOK, Flows, Alive, Young, Readers
  <2>6. ASSUME NEW other \in {"unblock", "remove", "activate", "pipe_activate"}, Fits(other, r)
        PROVE  Fits(other, r)'
    BY <1>1, <1>2, <1>3, <2>4, <2>6 DEF Fits, Flows, Alive, RequestOK, TransferOK
  <2>7. CASE calls' = <<Call("transfer_headers", r), Call("write_queued", r)>> /\ state'[r] = "Fetch"
    <3>1. Fits("transfer_headers", r)' /\ Fits("write_queued", r)'
      BY <2>2, <2>4, <2>7 DEF Fits, Flows, Alive
    <3> QED BY <1>1, <1>2, <1>3, <2>2, <2>3, <2>5, <2>6, <2>7, <3>1, CurlCalls, EventSteps
            DEF Young
  <2>8. CASE calls' = <<Call("process", r)>> /\ state'[r] = "Error"
    <3>1. Fits("process", r)'
      BY <1>1, <1>2, <1>3, <2>8 DEF Fits, Alive, RequestOK, TransferOK
    <3> QED BY <1>1, <1>2, <1>3, <2>2, <2>3, <2>5, <2>6, <2>8, <3>1, CurlCalls, EventSteps
            DEF Young
  <2> QED BY <2>4, <2>7, <2>8
<1>4. CASE ~is_revalidation_request(r)
  <2>1. /\ KeepsEntries(r) /\ \A x \in Requests : Same(x)
        /\ calls' = <<Call("transfer_headers", r), Call("write_queued", r)>>
        /\ UNCHANGED <<state, curl, readerRef>>
    BY <1>1, <1>4 DEF on_data_received, KeepsEntries, Same, cacheVars
  <2>2. /\ RequestOK(r)'
        /\ \A other \in {"unblock", "remove", "activate", "pipe_activate"} :
               Fits(other, r) => Fits(other, r)'
    BY <1>2, <2>1, SameRequest DEF Ops
  <2>3. Flows(r) /\ state[r] \notin Young
    BY <1>1, <1>2, <1>4 DEF RequestOK, TransferOK, Flows, Young
  <2>4. Fits("transfer_headers", r)' /\ Fits("write_queued", r)'
    BY <2>1, <2>3 DEF Fits, Flows, Alive
  <2> QED BY <1>1, <2>1, <2>2, <2>3, <2>4, CurlCalls, EventSteps DEF Young
<1> QED BY <1>3, <1>4

(* notify_fetch_complete.                                                  *)
LEMMA FetchCompleteStep ==
    ASSUME IInv, TypeOK', NEW r \in Requests, notify_fetch_complete(r)
    PROVE  IInv'
<1>1. /\ Idle /\ curl[r] \in {"running", "aborted"}
      /\ state \in [Requests -> States] /\ entry \in [Requests -> Entries]
      /\ curl \in [Requests -> {"none", "running", "aborted", "done"}]
      /\ UNCHANGED <<writerRef, resolving, notifying, piping>>
  BY FieldTypes DEF notify_fetch_complete, IInv, LocalInv
<1>2. /\ RequestOK(r) /\ (r \in readerRef <=> is_revalidation_request(r))
      /\ state[r] \in {"Fetch", "Connect", "Complete", "Error"}
      /\ is_revalidation_request(r) =>
             /\ state[r] = "Fetch" /\ r \notin writerRef
             /\ entry[r] \in {"must_revalidate", "background"}
  BY <1>1, CurlCallback
<1>3. CASE is_revalidation_request(r)
  <2>1. curl' = [curl EXCEPT ![r] = "done"] /\ (NotModified(r) \/ Modified(r))
    BY <1>3 DEF notify_fetch_complete
  <2>2. CASE Modified(r)
    <3>1. RevalidationFailed(r, "none")
      BY <2>2 DEF Modified
    <3>2. /\ entry'[r] = "none" /\ \A x \in Requests \ {r} : entry'[x] = entry[x]
          /\ readerRef' = readerRef \ {r} /\ r \notin readerRef'
          /\ ClosesEntry(r)
      BY <1>1, <3>1 DEF RevalidationFailed, CloseEntry, ClosesEntry
    <3>3. /\ \A x \in Requests \ {r} : state'[x] = state[x]
          /\ \/ /\ state'[r] = "Fetch"
                /\ calls' = <<Call("transfer_headers", r), Call("settle", r)>>
             \/ state'[r] = "Error" /\ calls' = <<Call("process", r)>>
      BY <1>1, <1>2, <1>3, <2>2 DEF Modified
    <3>4. \A x \in Requests \ {r} : Same(x)
      BY <1>1, <2>1, <3>2, <3>3 DEF Same
    <3>5. curl'[r] = "done"
      BY <1>1, <2>1
    <3>6. RequestOK(r)'
      BY <1>1, <1>2, <1>3, <3>2, <3>3, <3>5
      DEF RequestOK, EntryOK, TransferOK, Flows, Alive, Young, Readers
    <3>7. ASSUME NEW other \in {"unblock", "remove", "activate", "pipe_activate"}, Fits(other, r)
          PROVE  Fits(other, r)'
      BY <1>1, <1>2, <1>3, <3>3, <3>7 DEF Fits, Flows, Alive, RequestOK, TransferOK
    <3>8. CASE calls' = <<Call("transfer_headers", r), Call("settle", r)>> /\ state'[r] = "Fetch"
      <4>1. Fits("transfer_headers", r)' /\ Fits("settle", r)'
        BY <3>2, <3>5, <3>8 DEF Fits, Flows, Alive
      <4> QED BY <1>1, <1>2, <1>3, <3>2, <3>4, <3>6, <3>7, <3>8, <4>1, CurlCalls, EventSteps
              DEF Young
    <3>9. CASE calls' = <<Call("process", r)>> /\ state'[r] = "Error"
      <4>1. Fits("process", r)'
        BY <1>1, <1>2, <1>3, <3>9 DEF Fits, Alive, RequestOK, TransferOK
      <4> QED BY <1>1, <1>2, <1>3, <3>2, <3>4, <3>6, <3>7, <3>9, <4>1, CurlCalls, EventSteps
              DEF Young
    <3> QED BY <3>3, <3>8, <3>9
  <2>3. CASE NotModified(r)
    <3>1. /\ state'[r] \in {"Complete", "ReadCache"} /\ calls' = <<Call("process", r)>>
          /\ readerRef' = readerRef /\ curl'[r] = "done"
          /\ \A x \in Requests \ {r} : /\ state'[x] = state[x] /\ curl'[x] = curl[x]
                                       /\ entry'[x] = entry[x]
          /\ \/ r \in Revalidations /\ state'[r] = "Complete" /\ entry'[r] = "none"
             \/ r \notin Revalidations /\ state'[r] = "ReadCache" /\ entry'[r] = entry[r]
      BY <1>1, <2>1, <2>3 DEF NotModified, CloseEntry, cacheVars
    <3>2. (ClosesEntry(r) \/ KeepsEntries(r)) /\ \A x \in Requests \ {r} : Same(x)
      <4>1. ClosesEntry(r) \/ KeepsEntries(r)
        BY <2>3 DEF NotModified, ClosesEntry, KeepsEntries, cacheVars
      <4> QED BY <1>1, <3>1, <4>1 DEF Same
    <3>3. RequestOK(r)'
      BY <1>1, <1>2, <1>3, <3>1
      DEF RequestOK, EntryOK, TransferOK, Flows, Alive, Young, Readers
    <3>4. ASSUME NEW other \in {"unblock", "remove", "activate", "pipe_activate"}, Fits(other, r)
          PROVE  Fits(other, r)'
      BY <1>1, <1>2, <1>3, <3>1, <3>4 DEF Fits, Flows, Alive, RequestOK, TransferOK
    <3>5. Fits("process", r)'
      BY <1>1, <1>2, <1>3, <3>1 DEF Fits, Alive, RequestOK, TransferOK
    <3> QED BY <1>1, <1>2, <1>3, <3>1, <3>2, <3>3, <3>4, <3>5, CurlCalls, EventSteps DEF Young
  <2> QED BY <2>1, <2>2, <2>3
<1>4. CASE ~is_revalidation_request(r)
  <2>1. /\ KeepsEntries(r) /\ \A x \in Requests : Same(x) /\ calls' = <<Call("settle", r)>>
        /\ UNCHANGED <<state, curl, readerRef>>
    BY <1>1, <1>4 DEF notify_fetch_complete, KeepsEntries, Same, cacheVars
  <2>2. /\ RequestOK(r)'
        /\ \A other \in {"unblock", "remove", "activate", "pipe_activate"} :
               Fits(other, r) => Fits(other, r)'
    BY <1>2, <2>1, SameRequest DEF Ops
  <2>3. Fits("settle", r)' /\ state[r] \notin Young
    BY <1>1, <1>2, <1>4, <2>1 DEF Fits, Young
  <2> QED BY <1>1, <2>1, <2>2, <2>3, CurlCalls, EventSteps DEF Young
<1> QED BY <1>3, <1>4

(* A step of the loop alone: calls move, the requests and their entries    *)
(* stay as they are.                                                       *)
LEMMA LoopStep ==
    ASSUME IInv, TypeOK',
           UNCHANGED <<waiting, entry, state, readerRef, writerRef, resolving, curl, notifying,
                       piping>>,
           TurnOK(calls)', QueueOK(calls, queued_events)',
           \A x \in Requests, op \in Ops :
               Pending(op, x)' => Pending(op, x) \/ (op # "unblock" /\ Fits(op, x)),
           \A x \in Requests : Pending("unblock", x) => Pending("unblock", x)'
    PROVE  IInv'
<1>1. UNCHANGED <<state, waiting, entry>> /\ \A x \in Requests : Same(x)
  BY DEF Same
<1>2. \A x \in Requests : RequestOK(x)' /\ \A op \in Ops : Fits(op, x) => Fits(op, x)'
  BY <1>1, SameRequest DEF IInv, LocalInv
<1>3. TurnsOK'
  <2>1. ASSUME NEW x \in Requests, NEW op \in Ops, Pending(op, x)' PROVE Fits(op, x)'
    BY <1>2, <2>1 DEF IInv, LocalInv, TurnsOK
  <2> QED BY <2>1 DEF TurnsOK
<1>4. BackgroundOK'
  BY <1>1 DEF IInv, LocalInv, BackgroundOK
<1>5. WaitingOK' /\ NoLostWakeup'
  <2>1. ASSUME NEW x \in Requests PROVE Pending("unblock", x)' <=> Pending("unblock", x)
    BY DEF Ops
  <2>2. \A k \in Keys : OpenEntries(k)' = OpenEntries(k)
    BY <1>1 DEF OpenEntries
  <2> QED BY <1>1, <2>1, <2>2, WaitStep
<1> QED BY <1>2, <1>3, <1>4, <1>5 DEF IInv, LocalInv

(* An activation of a notifier is posted.                                  *)
LEMMA PostStep ==
    ASSUME IInv, TypeOK', NEW r \in Requests, NEW op \in {"activate", "pipe_activate"},
           Idle, Defer(<<<<Call(op, r)>>>>), UNCHANGED <<calls, cacheVars, requestVars>>,
           Fits(op, r), op \in Once => ~Queued(Call(op, r), queued_events)
    PROVE  IInv'
<1> DEFINE post == <<<<Call(op, r)>>>>
<1>1. /\ calls = <<>> /\ queued_events \in Seq(Seq(Calls)) /\ TurnOK(calls)
      /\ QueueOK(calls, queued_events)
      /\ Call(op, r) \in Calls /\ Call(op, r).op = op /\ op \in Ops
  BY CallType, CallFields
  DEF Idle, Ops, IInv, LocalInv, TypeOK, LoopTypeOK, TurnsOK
<1>2. /\ post \in Seq(Seq(Calls)) /\ TurnOK(<<Call(op, r)>>)
      /\ \A c : IsIn(c, <<Call(op, r)>>) <=> c = Call(op, r)
      /\ \A c : ~IsIn(c, calls)
  <2>1. <<Call(op, r)>> \in Seq(Calls)
    BY <1>1
  <2>2. post \in Seq(Seq(Calls))
    BY <2>1
  <2> QED BY <1>1, <2>2, ShortTurns
<1>3. QueueOK(calls, post) /\ \A c : Queued(c, post) <=> c = Call(op, r)
  BY <1>1, <1>2, ShortQueues
<1>4. queued_events' = queued_events \o post
  BY DEF Defer
<1> HIDE DEF post
<1>5. /\ QueueOK(calls, queued_events')
      /\ \A c : Queued(c, queued_events') <=> Queued(c, queued_events) \/ c = Call(op, r)
  <2>1. \A c \in Calls : c.op \in Once => ~(Queued(c, queued_events) /\ Queued(c, post))
    BY <1>1, <1>3
  <2> QED BY <1>1, <1>2, <1>3, <1>4, <2>1, JoinedQueues
<1>6. calls' = calls /\ UNCHANGED <<waiting, entry, state, readerRef, writerRef, resolving, curl,
                                    notifying, piping>>
  BY DEF cacheVars, requestVars
<1>7. TurnOK(calls)' /\ QueueOK(calls, queued_events)'
  BY <1>1, <1>5, <1>6
<1>8. ASSUME NEW x \in Requests, NEW o \in Ops, Pending(o, x)'
      PROVE  Pending(o, x) \/ (o # "unblock" /\ Fits(o, x))
  <2>1. IsIn(Call(o, x), calls) \/ Queued(Call(o, x), queued_events')
    BY <1>6, <1>8 DEF Pending
  <2> QED BY <1>5, <2>1, CallFields DEF Pending
<1>9. \A x \in Requests : Pending("unblock", x) => Pending("unblock", x)'
  BY <1>5, <1>6 DEF Pending
<1> QED BY <1>6, <1>7, <1>8, <1>9, LoopStep

(* ClientPipeWritable and ReaderPipeWritable.                              *)
LEMMA WritableSteps ==
    ASSUME IInv, TypeOK', NEW r \in Requests, ClientPipeWritable(r) \/ ReaderPipeWritable(r)
    PROVE  IInv'
<1>1. RequestOK(r)
  BY DEF IInv, LocalInv
<1>2. CASE ClientPipeWritable(r)
  <2>1. Fits("activate", r) /\ "activate" \notin Once
    BY <1>1, <1>2 DEF ClientPipeWritable, RequestOK, TransferOK, Fits, Flows, Once
  <2> QED BY <1>2, <2>1, PostStep DEF ClientPipeWritable
<1>3. CASE ReaderPipeWritable(r)
  <2>1. Fits("pipe_activate", r)
    BY <1>3 DEF ReaderPipeWritable, Fits, Alive
  <2>2. ASSUME Queued(Call("pipe_activate", r), queued_events) PROVE FALSE
    <3>1. PICK i \in 1 .. Len(queued_events) : IsIn(Call("pipe_activate", r), queued_events[i])
      BY <2>2 DEF Queued
    <3>2. PICK turn : turn = queued_events[i]
      OBVIOUS
    <3>3. turn \in Seq(Calls) /\ TurnOK(turn)
      BY <3>2, ElementOfSeq DEF IInv, LocalInv, TypeOK, LoopTypeOK, TurnsOK, QueueOK
    <3>4. PICK j \in 1 .. Len(turn) : turn[j] = Call("pipe_activate", r)
      BY <3>1, <3>2 DEF IsIn
    <3>5. \A m \in 1 .. Len(turn) : m = j
      BY <3>3, <3>4, CallFields DEF TurnOK, Compatible
    <3>6. Len(turn) = 1 /\ j = 1
      <4>1. Len(turn) \in Nat /\ j \in 1 .. Len(turn)
        BY <3>3, LenProperties
      <4>2. 1 \in 1 .. Len(turn) /\ Len(turn) \in 1 .. Len(turn)
        BY <4>1
      <4> QED BY <3>5, <4>1, <4>2
    <3>7. turn = <<Call("pipe_activate", r)>>
      BY <3>3, <3>4, <3>6
    <3> QED BY <1>3, <3>2, <3>7 DEF ReaderPipeWritable, Posted
  <2> QED BY <1>3, <2>1, <2>2, PostStep DEF ReaderPipeWritable
<1> QED BY <1>2, <1>3

(* disconnect and die.                                                     *)
LEMMA ConnectionSteps ==
    ASSUME IInv, TypeOK', NEW c \in Clients, disconnect(c) \/ die(c)
    PROVE  IInv'
<1>1. /\ TurnOK(calls) /\ QueueOK(calls, queued_events) /\ calls \in Seq(Calls)
      /\ UNCHANGED <<queued_events, waiting, entry, state, readerRef, writerRef, resolving, curl,
                     notifying, piping>>
  BY DEF disconnect, die, cacheVars, requestVars, IInv, LocalInv, TurnsOK, TypeOK, LoopTypeOK
<1>2. /\ c \notin Requests /\ "destroy" \in Ops /\ "die" \notin Once
      /\ "unblock" \in Ops
  BY RequestAssumption DEF Ops, Once
<1>3. \A op, x : /\ Call(op, x).op = op /\ Call(op, x).on = x
                 /\ Call(op, x) = Call("die", c) => x = c
                 /\ \A y : Call(op, x) = Call("destroy", y) => op = "destroy" /\ x = y
  BY CallFields
<1>4. CASE disconnect(c)
  <2>1. /\ calls = <<>> /\ calls' = <<Call("die", c)>>
        /\ TurnOK(<<Call("die", c)>>) /\ \A d : IsIn(d, <<Call("die", c)>>) <=> d = Call("die", c)
        /\ \A d : ~IsIn(d, <<>>)
    BY <1>4, ShortTurns DEF disconnect, Idle
  <2>2. QueueOK(<<Call("die", c)>>, queued_events)
    <3>1. \A d \in Calls : d.op \in Once /\ IsIn(d, <<Call("die", c)>>) => IsIn(d, calls)
      BY <1>2, <1>3, <2>1
    <3> QED BY <1>1, <3>1, TurnGoesOn
  <2>3. \A x \in Requests, op \in Ops : Pending(op, x)' <=> Pending(op, x)
    BY <1>1, <1>2, <1>3, <2>1 DEF Pending
  <2>4. TurnOK(calls)' /\ QueueOK(calls, queued_events)'
    BY <1>1, <2>1, <2>2
  <2> QED BY <1>1, <1>2, <2>3, <2>4, LoopStep
<1>5. CASE die(c)
  <2>1. calls # <<>> /\ Head(calls) = Call("die", c)
    BY <1>5 DEF die, Calling
  <2>2. /\ \A d : IsIn(d, calls) <=> d = Call("die", c) \/ IsIn(d, Tail(calls))
        /\ TurnOK(Tail(calls)) /\ Tail(calls) \in Seq(Calls)
        /\ \A d : IsIn(d, Tail(calls)) => Compatible(Call("die", c), d)
    BY <1>1, <2>1, FirstCall
  <2>3. CASE Return
    <3>1. calls' = Tail(calls)
      <4>1. calls' = <<>> \o Tail(calls)
        BY <2>3 DEF Return, Then
      <4> QED BY <2>2, <4>1, ConcatEmptySeq
    <3>2. QueueOK(Tail(calls), queued_events)
      BY <1>1, <2>2, TurnGoesOn
    <3>3. \A x \in Requests, op \in Ops : Pending(op, x)' <=> Pending(op, x)
      BY <1>1, <1>2, <1>3, <2>2, <3>1 DEF Pending
    <3>4. TurnOK(calls)' /\ QueueOK(calls, queued_events)'
      BY <1>1, <2>2, <3>1, <3>2
    <3> QED BY <1>1, <1>2, <3>3, <3>4, LoopStep
  <2>4. ASSUME NEW r \in Requests, Alive(r), calls' = <<Call("destroy", r)>> \o calls
        PROVE  IInv'
    <3>1. /\ <<Call("destroy", r)>> \in Seq(Calls) /\ TurnOK(<<Call("destroy", r)>>)
          /\ \A d : IsIn(d, <<Call("destroy", r)>>) <=> d = Call("destroy", r)
      <4>1. Call("destroy", r) \in Calls
        BY <1>2, CallType
      <4>2. <<Call("destroy", r)>> \in Seq(Calls)
        BY <4>1
      <4> QED BY <4>2, ShortTurns
    <3>2. \A d : IsIn(d, calls') <=> d = Call("destroy", r) \/ IsIn(d, calls)
      BY <1>1, <2>4, <3>1, JoinedTurns
    <3>3. ASSUME NEW d \in Calls, IsIn(d, calls) PROVE Compatible(Call("destroy", r), d)
      <4>1. d = Call("die", c) \/ Compatible(Call("die", c), d)
        BY <2>2, <3>3
      <4> QED BY <1>3, <4>1 DEF Compatible, Rivals, Drivers, Ends
    <3>4. TurnOK(calls')
      <4>1. \A a, d \in Calls :
                IsIn(a, <<Call("destroy", r)>>) /\ IsIn(d, calls) => Compatible(a, d)
        BY <3>1, <3>3
      <4>2. TurnOK(<<Call("destroy", r)>> \o calls)
        BY <1>1, <3>1, <4>1, JoinedTurns
      <4> QED BY <2>4, <4>2
    <3>5. QueueOK(calls', queued_events)
      <4>1. PICK turn : turn = calls'
        OBVIOUS
      <4>2. \A d \in Calls : d.op \in Once /\ IsIn(d, turn) => IsIn(d, calls)
        BY <1>3, <3>2, <4>1 DEF Once
      <4>3. QueueOK(turn, queued_events)
        BY <1>1, <4>2, TurnGoesOn
      <4> QED BY <4>1, <4>3
    <3>6. TurnOK(calls)' /\ QueueOK(calls, queued_events)'
      BY <1>1, <3>4, <3>5
    <3>7. ASSUME NEW x \in Requests, NEW op \in Ops, Pending(op, x)'
          PROVE  Pending(op, x) \/ (op # "unblock" /\ Fits(op, x))
      <4>1. IsIn(Call(op, x), calls') \/ Queued(Call(op, x), queued_events)
        BY <1>1, <3>7 DEF Pending
      <4>2. CASE Call(op, x) = Call("destroy", r)
        BY <1>3, <2>4, <4>2 DEF Fits, Alive
      <4> QED BY <3>2, <4>1, <4>2 DEF Pending
    <3>8. \A x \in Requests : Pending("unblock", x) => Pending("unblock", x)'
      BY <1>1, <3>2 DEF Pending
    <3> QED BY <1>1, <3>6, <3>7, <3>8, LoopStep
  <2> QED BY <1>5, <2>3, <2>4 DEF die
<1> QED BY <1>4, <1>5

(* The loop takes the oldest queued turn.                                  *)
LEMMA DispatchStep ==
    ASSUME IInv, TypeOK', dispatch
    PROVE  IInv'
<1>1. /\ calls = <<>> /\ queued_events # <<>> /\ queued_events \in Seq(Seq(Calls))
      /\ calls' = Head(queued_events) /\ queued_events' = Tail(queued_events)
      /\ QueueOK(calls, queued_events)
      /\ UNCHANGED <<waiting, entry, state, readerRef, writerRef, resolving, curl, notifying,
                     piping>>
  BY DEF dispatch, DispatchQueuedEvent, Idle, cacheVars, requestVars, IInv, LocalInv, TypeOK,
         LoopTypeOK, TurnsOK
<1>2. /\ \A c : Queued(c, queued_events) <=> IsIn(c, calls') \/ Queued(c, queued_events')
      /\ TurnOK(Head(queued_events)) /\ QueueOK(Head(queued_events), Tail(queued_events))
  BY <1>1, FirstTurn
<1>3. TurnOK(calls)' /\ QueueOK(calls, queued_events)'
  BY <1>1, <1>2
<1>4. \A c : ~IsIn(c, calls)
  BY <1>1, ShortTurns
<1>5. \A x \in Requests, op \in Ops : Pending(op, x)' <=> Pending(op, x)
  BY <1>2, <1>4 DEF Pending
<1>6. "unblock" \in Ops
  BY DEF Ops
<1> QED BY <1>1, <1>3, <1>5, <1>6, LoopStep

(* Clearing the cache, and steps in which nothing happens.                 *)
LEMMA ClearStep ==
    ASSUME IInv, TypeOK', remove_cache_entries_accessed_since \/ UNCHANGED vars
    PROVE  IInv'
<1>1. UNCHANGED <<calls, queued_events, waiting, entry, state, readerRef, writerRef, resolving,
                  curl, notifying, piping>>
  BY DEF remove_cache_entries_accessed_since, remove_entries_accessed_since, loopVars, vars,
         cacheVars, requestVars
<1>2. TurnOK(calls)' /\ QueueOK(calls, queued_events)'
  BY <1>1 DEF IInv, LocalInv, TurnsOK
<1>3. \A x \in Requests, op \in Ops : Pending(op, x)' <=> Pending(op, x)
  BY <1>1 DEF Pending
<1>4. "unblock" \in Ops
  BY DEF Ops
<1> QED BY <1>1, <1>2, <1>3, <1>4, LoopStep

-----------------------------------------------------------------------------
(* handle_initial_state keeps the invariant.                               *)

(* A request is told to wait only if its key has an open entry; it locks   *)
(* the key only if it has none.                                            *)
LEMMA OpenEntryWaits ==
    ASSUME NEW r \in Requests, NEW revalidate, NEW locking,
           NEW o \in open_entry(r, revalidate, locking)
    PROVE  /\ o.answer = "blocked" => OpenEntries(Key[r]) # {}
           /\ o.answer \in {"must_revalidate", "background"} => OpenEntries(Key[r]) = {}
           /\ o.answer \in Readers => (o.answer = "background" <=> revalidate)
           /\ o.answer = "none" /\ r \in Cacheable /\ o.row # "absent" => revalidate
<1> DEFINE k == Key[r]
           blocked == check_if_cache_has_open_entry(r, revalidate, locking)
<1>1. CASE r \notin Cacheable
  <2>1. o = Opened("none", index[k], file[k])
    BY <1>1 DEF open_entry
  <2> QED BY <1>1, <2>1 DEF Opened, Readers
<1>2. CASE r \in Cacheable /\ blocked
  <2>1. o = Opened("blocked", index[k], file[k])
    BY <1>2 DEF open_entry
  <2>2. OpenEntries(k) # {}
    BY <1>2 DEF check_if_cache_has_open_entry
  <2> QED BY <2>1, <2>2 DEF Opened, Readers
<1>3. CASE r \in Cacheable /\ ~blocked
  <2>1. \/ o = Opened("none", index[k], file[k]) /\ (index[k] = "absent" \/ revalidate)
        \/ \E f : o = Opened("none", "absent", f)
        \/ revalidate /\ o = Opened("background", index[k], file[k])
        \/ /\ ~revalidate
           /\ \/ o = Opened("reader", index[k], file[k])
              \/ o = Opened(OpenToRevalidate(r, locking), index[k], file[k])
              \/ o = Opened("stale_while_revalidate", index[k], file[k])
    BY <1>3 DEF open_entry
  <2>2. revalidate => OpenEntries(k) = {}
    BY <1>3 DEF check_if_cache_has_open_entry
  <2>3. \/ OpenToRevalidate(r, locking) = "blocked" /\ OpenEntries(k) # {}
        \/ OpenToRevalidate(r, locking) = "must_revalidate" /\ OpenEntries(k) = {}
    BY DEF OpenToRevalidate, check_if_cache_has_open_entry
  <2>4. \A a, x, f : /\ Opened(a, x, f).answer = a /\ Opened(a, x, f).row = x
    BY DEF Opened
  <2> HIDE DEF k
  <2> QED BY <2>1, <2>2, <2>3, <2>4 DEF Readers, k
<1> QED BY <1>1, <1>2, <1>3

(* A call that makes itself again leaves the turn as it was.               *)
LEMMA Again ==
    ASSUME IInv, NEW r \in Requests, Calling("process", r), Then(<<Call("process", r)>>)
    PROVE  calls' = calls
<1>1. calls \in Seq(Calls) /\ calls # <<>> /\ Head(calls) = Call("process", r)
  BY DEF Calling, IInv, LocalInv, TypeOK, LoopTypeOK
<1>2. calls' = <<Head(calls)>> \o Tail(calls)
  BY <1>1 DEF Then
<1> QED BY <1>1, <1>2, HeadTailProperties, ConcatSimplifications

(* What is known of a request in Init that is called.                      *)
LEMMA InitFacts ==
    ASSUME IInv, NEW r \in Requests, Processing(r, "Init")
    PROVE  /\ Calling("process", r) /\ state[r] = "Init" /\ RequestOK(r)
           /\ entry[r] = "none" /\ curl[r] = "none" /\ r \notin readerRef /\ r \notin writerRef
           /\ r \notin resolving /\ r \notin piping /\ r \notin notifying
           /\ \A op \in Ops : Fits(op, r) =>
                  op \in {"process", "transfer_headers", "finish", "destroy", "remove", "die"}
           /\ r \in Fetches => state[Background[r]] = "Unborn"
<1>1. Calling("process", r) /\ state[r] = "Init" /\ "process" \in Ops
  BY DEF Processing, Ops
<1>2. RequestOK(r)
  BY DEF IInv, LocalInv
<1>3. /\ entry[r] = "none" /\ curl[r] = "none" /\ r \notin readerRef /\ r \notin writerRef
      /\ r \notin resolving /\ r \notin piping /\ r \notin notifying
  BY <1>1, <1>2 DEF RequestOK, EntryOK, TransferOK, Flows, Young
<1>4. ASSUME NEW op \in Ops, Fits(op, r)
      PROVE  op \in {"process", "transfer_headers", "finish", "destroy", "remove", "die"}
  BY <1>1, <1>3, <1>4 DEF Fits, Flows, Alive, Ops
<1>5. r \in Fetches => state[Background[r]] = "Unborn"
  BY <1>1 DEF IInv, LocalInv, BackgroundOK, Young
<1> QED BY <1>1, <1>2, <1>3, <1>4, <1>5

(* The request is blocked and waits.                                       *)
LEMMA InitBlockedStep ==
    ASSUME IInv, TypeOK', NEW r \in Requests, Processing(r, "Init"), InitBlocked(r),
           OpenEntries(Key[r]) # {}, readerRef' \in {readerRef, readerRef \ {r}},
           UNCHANGED <<resolving, curl, notifying, piping>>
    PROVE  IInv'
<1>1. /\ Calling("process", r) /\ state[r] = "Init" /\ RequestOK(r)
      /\ entry[r] = "none" /\ curl[r] = "none" /\ r \notin readerRef /\ r \notin writerRef
      /\ r \notin resolving /\ r \notin piping /\ r \notin notifying
      /\ \A op \in Ops : Fits(op, r) =>
             op \in {"process", "transfer_headers", "finish", "destroy", "remove", "die"}
      /\ r \in Fetches => state[Background[r]] = "Unborn"
  BY InitFacts
<1>2. /\ state \in [Requests -> States] /\ waiting \in [Keys -> Seq(Requests)]
      /\ Key[r] \in Keys
  BY FieldTypes DEF IInv, LocalInv
<1>3. /\ calls' = calls /\ UNCHANGED <<queued_events, entry, writerRef>>
      /\ state'[r] = "WaitForCache" /\ \A x \in Requests \ {r} : state'[x] = state[x]
      /\ waiting' = [waiting EXCEPT ![Key[r]] = Append(waiting[Key[r]], r)]
  BY <1>1, <1>2, Again DEF InitBlocked, Enter, Wait
<1>4. \A x \in Requests \ {r} : Same(x)
  BY <1>3 DEF Same
<1>5. RequestOK(r)' /\ \A op \in Ops : Fits(op, r) => Fits(op, r)'
  <2>1. RequestOK(r)'
    BY <1>1, <1>3 DEF RequestOK, EntryOK, TransferOK, Flows, Alive, Young, Readers
  <2>2. ASSUME NEW op \in Ops, Fits(op, r) PROVE Fits(op, r)'
    BY <1>1, <1>3, <2>2 DEF Fits, Alive
  <2> QED BY <2>1, <2>2
<1>6. \A x \in Requests : RequestOK(x)' /\ \A op \in Ops : Fits(op, x) => Fits(op, x)'
  BY <1>4, <1>5, SameRequest DEF IInv, LocalInv
<1>7. \A x \in Requests, op \in Ops : Pending(op, x)' <=> Pending(op, x)
  BY <1>3 DEF Pending
<1>8. TurnsOK'
  <2>1. TurnOK(calls)' /\ QueueOK(calls, queued_events)'
    BY <1>3 DEF IInv, LocalInv, TurnsOK
  <2>2. ASSUME NEW x \in Requests, NEW op \in Ops, Pending(op, x)' PROVE Fits(op, x)'
    BY <1>6, <1>7, <2>2 DEF IInv, LocalInv, TurnsOK
  <2> QED BY <2>1, <2>2 DEF TurnsOK
<1>9. BackgroundOK'
  <2> SUFFICES ASSUME NEW f \in Fetches, state'[Background[f]] # "Unborn"
               PROVE  state'[f] \notin Young
    BY DEF BackgroundOK
  <2>1. f \in Requests /\ Background[f] \in Requests /\ Background[f] # f
    BY RequestAssumption DEF Revalidations
  <2>2. state[Background[f]] # "Unborn"
    BY <1>1, <1>3, <2>1
  <2>3. state[f] \notin Young
    BY <2>2 DEF IInv, LocalInv, BackgroundOK
  <2> QED BY <1>1, <1>3, <2>1, <2>3 DEF Young
<1> DEFINE list == waiting[Key[r]]
           next == waiting'[Key[r]]
<1>10. /\ list \in Seq(Requests) /\ Len(list) \in Nat
       /\ next = Append(list, r) /\ Len(next) = Len(list) + 1 /\ next[Len(list) + 1] = r
       /\ \A i \in 1 .. Len(list) : next[i] = list[i] /\ list[i] \in Requests
  <2>1. list \in Seq(Requests) /\ next = Append(list, r)
    BY <1>2, <1>3
  <2> HIDE DEF list, next
  <2>2. Len(list) \in Nat /\ \A i \in 1 .. Len(list) : list[i] \in Requests
    BY <2>1, LenProperties, ElementOfSeq
  <2> QED BY <2>1, <2>2, AppendProperties
<1>11. \A k \in Keys : k # Key[r] => waiting'[k] = waiting[k]
  BY <1>2, <1>3
<1>12. WaitingOK'
  <2>1. ASSUME NEW k \in Keys, NEW i \in 1 .. Len(waiting[k])
        PROVE  /\ waiting[k][i] # r /\ waiting[k][i] \in Requests /\ Key[waiting[k][i]] = k
               /\ state'[waiting[k][i]] \in {"WaitForCache", "Destroyed"}
               /\ \A x \in Requests : x = waiting[k][i] => ~Pending("unblock", x)'
    <3>1. waiting[k] \in Seq(Requests)
      BY <1>2
    <3>2. PICK w \in Requests : w = waiting[k][i]
      BY <3>1, ElementOfSeq
    <3>3. /\ Key[w] = k /\ state[w] \in {"WaitForCache", "Destroyed"}
          /\ ~Pending("unblock", w)
      BY <3>2 DEF IInv, WaitingOK
    <3>4. "unblock" \in Ops /\ w # r
      BY <1>1, <3>3 DEF Ops
    <3> QED BY <1>3, <1>7, <3>2, <3>3, <3>4
  <2>2. ASSUME NEW k \in Keys, NEW i \in 1 .. Len(waiting[k]), NEW j \in 1 .. Len(waiting[k]),
               waiting[k][i] = waiting[k][j]
        PROVE  i = j
    BY <2>2 DEF IInv, WaitingOK
  <2>3. ~Pending("unblock", r)'
    <3>1. "unblock" \in Ops /\ ~Fits("unblock", r)
      BY <1>1 DEF Ops
    <3> QED BY <1>7, <3>1 DEF IInv, LocalInv, TurnsOK
  <2> SUFFICES ASSUME NEW k \in Keys, NEW i \in 1 .. Len(waiting'[k]), NEW j \in 1 .. Len(waiting'[k])
               PROVE  /\ waiting'[k][i] = waiting'[k][j] => i = j
                      /\ Key[waiting'[k][i]] = k
                      /\ state'[waiting'[k][i]] \in {"WaitForCache", "Destroyed"}
                      /\ waiting'[k][i] \in Requests
                      /\ \A x \in Requests : x = waiting'[k][i] => ~Pending("unblock", x)'
    BY DEF WaitingOK, Pending
  <2>4. CASE k # Key[r]
    BY <1>11, <2>1, <2>2, <2>4
  <2>5. CASE k = Key[r]
    <3>1. ASSUME NEW m \in 1 .. Len(next)
          PROVE  \/ m \in 1 .. Len(list) /\ next[m] = list[m]
                 \/ m = Len(list) + 1 /\ next[m] = r
      <4>1. m \in 1 .. Len(list) + 1
        BY <1>10
      <4> HIDE DEF next, list
      <4> QED BY <1>10, <4>1
    <3>2. \A m \in 1 .. Len(list) : list[m] # r
      BY <1>2, <2>1
    <3>3. next[i] = next[j] => i = j
      BY <1>2, <2>2, <2>5, <3>1, <3>2
    <3>4. CASE i = Len(list) + 1
      BY <1>3, <1>10, <2>3, <2>5, <3>3, <3>4
    <3>5. CASE i \in 1 .. Len(list) /\ next[i] = list[i]
      BY <1>2, <2>1, <2>5, <3>3, <3>5
    <3> QED BY <2>5, <3>1, <3>4, <3>5
  <2> QED BY <2>4, <2>5
<1>13. NoLostWakeup'
  <2> SUFFICES ASSUME NEW x \in Requests, state'[x] = "WaitForCache", ~Pending("unblock", x)'
               PROVE  /\ \E i \in 1 .. Len(waiting'[Key[x]]) : waiting'[Key[x]][i] = x
                      /\ OpenEntries(Key[x])' # {}
    BY DEF NoLostWakeup, WillBeUnblocked, Pending, Queued
  <2>1. \A k : OpenEntries(k)' = OpenEntries(k)
    BY <1>3 DEF OpenEntries
  <2>2. CASE x = r
    <3>1. Len(list) + 1 \in 1 .. Len(next)
      BY <1>10
    <3> QED BY <1>10, <2>1, <2>2, <3>1
  <2>3. CASE x # r
    <3>1. state[x] = "WaitForCache" /\ ~Pending("unblock", x) /\ Key[x] \in Keys
      BY <1>3, <1>7, <2>3, CacheAssumption DEF Ops
    <3>2. /\ x \in {waiting[Key[x]][i] : i \in 1 .. Len(waiting[Key[x]])}
          /\ OpenEntries(Key[x]) # {}
      BY <3>1 DEF IInv, NoLostWakeup, WillBeUnblocked, Pending, Queued
    <3>3. PICK i \in 1 .. Len(waiting[Key[x]]) : waiting[Key[x]][i] = x
      BY <3>2
    <3>4. CASE Key[x] # Key[r]
      BY <1>11, <2>1, <3>1, <3>2, <3>3, <3>4
    <3>5. CASE Key[x] = Key[r]
      <4>1. i \in 1 .. Len(next) /\ next[i] = x
        BY <1>10, <3>3, <3>5
      <4> QED BY <2>1, <3>2, <3>5, <4>1
    <3> QED BY <3>4, <3>5
  <2> QED BY <2>2, <2>3
<1> QED BY <1>6, <1>8, <1>9, <1>12, <1>13 DEF IInv, LocalInv

(* The request goes on alone, with a reader, a writer or no entry.         *)
LEMMA InitAloneStep ==
    ASSUME IInv, TypeOK', NEW r \in Requests, Processing(r, "Init"),
           UNCHANGED <<waiting, queued_events, resolving, curl, notifying, piping>>,
           NEW e \in Entries, entry' = [entry EXCEPT ![r] = e],
           NEW s \in {"DNSLookup", "ReadCache", "Complete"}, Enter(r, s),
           readerRef' = IF e \in Readers THEN readerRef \cup {r} ELSE readerRef \ {r},
           writerRef' = IF e = "writer" THEN writerRef \cup {r} ELSE writerRef,
           e \in Readers =>
               /\ e = "background" <=> r \in Revalidations
               /\ s = "DNSLookup" <=> e \in {"must_revalidate", "background"},
           s = "ReadCache" => e \in Readers,
           e # "none" => r \in Cacheable
    PROVE  IInv'
<1>1. /\ Calling("process", r) /\ state[r] = "Init" /\ RequestOK(r)
      /\ entry[r] = "none" /\ curl[r] = "none" /\ r \notin readerRef /\ r \notin writerRef
      /\ r \notin resolving /\ r \notin piping /\ r \notin notifying
      /\ \A op \in Ops : Fits(op, r) =>
             op \in {"process", "transfer_headers", "finish", "destroy", "remove", "die"}
  BY InitFacts
<1>2. /\ state \in [Requests -> States] /\ entry \in [Requests -> Entries]
      /\ "process" \in Ops /\ "process" \in Drivers
  BY FieldTypes DEF IInv, LocalInv, Ops, Drivers
<1>3. /\ entry'[r] = e /\ state'[r] = s /\ Then(<<Call("process", r)>>)
      /\ \A x \in Requests \ {r} : entry'[x] = entry[x] /\ state'[x] = state[x]
      /\ r \in readerRef' <=> e \in Readers
      /\ r \in writerRef' <=> e = "writer"
  BY <1>1, <1>2 DEF Enter
<1>4. KeepsEntries(r) /\ \A x \in Requests \ {r} : Same(x)
  BY <1>1, <1>3 DEF KeepsEntries, Same
<1>5. RequestOK(r)'
  BY <1>1, <1>3 DEF RequestOK, EntryOK, TransferOK, Flows, Alive, Young, Readers
<1>6. ASSUME NEW op \in Ops, Fits(op, r) PROVE Fits(op, r)'
  BY <1>1, <1>3, <1>6 DEF Fits, Alive
<1>7. Fits("process", r)'
  BY <1>1, <1>3 DEF Fits, Alive
<1> QED BY <1>1, <1>2, <1>3, <1>4, <1>5, <1>6, <1>7, MadeCalls, CallSteps DEF Young

(* A stale response is read, while a background request revalidates it.    *)
LEMMA InitStaleStep ==
    ASSUME IInv, TypeOK', NEW r \in Requests, Processing(r, "Init"),
           r \in Fetches, r \in Cacheable, InitReader(r, "stale_while_revalidate"),
           UNCHANGED <<resolving, curl, notifying, piping>>
    PROVE  IInv'
<1> DEFINE b == Background[r]
<1>1. /\ Calling("process", r) /\ state[r] = "Init" /\ RequestOK(r)
      /\ entry[r] = "none" /\ curl[r] = "none" /\ r \notin readerRef /\ r \notin writerRef
      /\ r \notin resolving /\ r \notin piping /\ r \notin notifying
      /\ \A op \in Ops : Fits(op, r) =>
             op \in {"process", "transfer_headers", "finish", "destroy", "remove", "die"}
      /\ state[b] = "Unborn"
  BY InitFacts
<1>2. /\ b \in Requests /\ b # r /\ r \notin Revalidations
      /\ \A f \in Fetches : f # b /\ (Background[f] = b => f = r)
  BY RequestAssumption DEF Revalidations
<1>3. /\ state \in [Requests -> States] /\ entry \in [Requests -> Entries]
      /\ calls \in Seq(Calls) /\ "process" \in Ops
      /\ TurnOK(calls) /\ QueueOK(calls, queued_events)
  BY FieldTypes DEF IInv, LocalInv, Ops, TypeOK, LoopTypeOK, TurnsOK
<1>4. /\ entry' = [entry EXCEPT ![r] = "stale_while_revalidate"]
      /\ readerRef' = readerRef \cup {r}
      /\ state' = [state EXCEPT ![r] = "ReadCache", ![b] = "Init"]
      /\ Then(<<Call("process", b), Call("process", r)>>)
      /\ UNCHANGED <<queued_events, waiting, writerRef>>
  BY DEF InitReader
<1> HIDE DEF b
<1>5. /\ entry'[r] = "stale_while_revalidate" /\ r \in readerRef'
      /\ state'[r] = "ReadCache" /\ state'[b] = "Init"
      /\ \A x \in Requests \ {r} : entry'[x] = entry[x] /\ (x \in readerRef' <=> x \in readerRef)
      /\ \A x \in Requests \ {r, b} : state'[x] = state[x]
  BY <1>2, <1>3, <1>4
<1>6. \A x \in Requests \ {r, b} : Same(x)
  BY <1>4, <1>5 DEF Same
<1>7. \A op \in Ops : ~Pending(op, b)
  BY <1>1, <1>2 DEF IInv, LocalInv, TurnsOK, Fits
<1>8. /\ calls # <<>> /\ Head(calls) = Call("process", r)
      /\ \A c : IsIn(c, calls) <=> c = Call("process", r) \/ IsIn(c, Tail(calls))
      /\ TurnOK(Tail(calls)) /\ Tail(calls) \in Seq(Calls)
      /\ \A c : IsIn(c, Tail(calls)) => Compatible(Call("process", r), c)
  <2>1. calls # <<>> /\ Head(calls) = Call("process", r)
    BY <1>1 DEF Calling
  <2> QED BY <1>3, <2>1, FirstCall
<1>9. \A op, x : Call(op, x).op = op /\ Call(op, x).on = x
  BY CallFields
<1> DEFINE inner == <<Call("process", b), Call("process", r)>>
<1>10. /\ inner \in Seq(Calls) /\ TurnOK(inner)
       /\ \A c : IsIn(c, inner) <=> c = Call("process", b) \/ c = Call("process", r)
  <2>1. Call("process", b) \in Calls /\ Call("process", r) \in Calls
    BY <1>2, <1>3, CallType
  <2>2. Compatible(Call("process", b), Call("process", r))
    BY <1>2, <1>9 DEF Compatible, Ends
  <2>3. inner \in Seq(Calls)
    BY <2>1
  <2> QED BY <2>2, <2>3, ShortTurns
<1>11. ASSUME NEW c \in Calls, NEW d \in Calls, IsIn(c, inner), IsIn(d, Tail(calls))
       PROVE  Compatible(c, d)
  <2>1. Compatible(Call("process", r), d)
    BY <1>8, <1>11
  <2>2. d.on # b
    <3>1. ASSUME d.on = b PROVE FALSE
      <4>1. d = Call(d.op, b) /\ d.op \in Ops
        BY <1>2, <3>1, RequestAssumption DEF Calls, Call
      <4>2. IsIn(Call(d.op, b), calls)
        BY <1>8, <1>11, <4>1
      <4> QED BY <1>7, <4>1, <4>2 DEF Pending
    <3> QED BY <3>1
  <2> QED BY <1>9, <1>10, <1>11, <2>1, <2>2 DEF Compatible, Rivals
<1>12. calls' = inner \o Tail(calls)
  BY <1>4 DEF Then
<1> HIDE DEF inner
<1>13. /\ TurnOK(inner \o Tail(calls))
       /\ \A c : IsIn(c, inner \o Tail(calls)) <=> IsIn(c, inner) \/ IsIn(c, Tail(calls))
  BY <1>8, <1>10, <1>11, JoinedTurns
<1>14. \A c : IsIn(c, calls') <=> c = Call("process", b) \/ IsIn(c, calls)
  BY <1>8, <1>10, <1>12, <1>13
<1>15. QueueOK(calls', queued_events)
  <2>1. PICK turn : turn = calls'
    OBVIOUS
  <2>2. \A c \in Calls : c.op \in Once /\ IsIn(c, turn) => IsIn(c, calls)
    BY <1>9, <1>14, <2>1 DEF Once
  <2>3. QueueOK(turn, queued_events)
    BY <1>3, <2>2, TurnGoesOn
  <2> QED BY <2>1, <2>3
<1>16. ASSUME NEW x \in Requests, NEW op \in Ops
       PROVE  Pending(op, x)' <=> Pending(op, x) \/ (op = "process" /\ x = b)
  <2>1. Call(op, x) = Call("process", b) <=> op = "process" /\ x = b
    BY CallFields
  <2> QED BY <1>4, <1>14, <2>1 DEF Pending
<1>17. RequestOK(r)' /\ \A op \in Ops : Fits(op, r) => Fits(op, r)'
  <2>1. RequestOK(r)'
    BY <1>1, <1>2, <1>4, <1>5 DEF RequestOK, EntryOK, TransferOK, Flows, Alive, Young, Readers
  <2>2. ASSUME NEW op \in Ops, Fits(op, r) PROVE Fits(op, r)'
    BY <1>1, <1>5, <2>2 DEF Fits, Alive
  <2> QED BY <2>1, <2>2
<1>18. RequestOK(b)' /\ Fits("process", b)'
  <2>1. RequestOK(b)
    BY <1>2 DEF IInv, LocalInv
  <2>2. /\ entry[b] = "none" /\ curl[b] = "none" /\ b \notin readerRef /\ b \notin writerRef
        /\ b \notin resolving /\ b \notin piping /\ b \notin notifying
    BY <1>1, <2>1 DEF RequestOK, EntryOK, TransferOK, Flows, Young
  <2>3. /\ entry'[b] = "none" /\ curl'[b] = "none" /\ b \notin readerRef' /\ b \notin writerRef'
        /\ b \notin resolving' /\ b \notin piping' /\ b \notin notifying' /\ state'[b] = "Init"
    BY <1>2, <1>4, <1>5, <2>2
  <2>4. RequestOK(b)'
    BY <2>3 DEF RequestOK, EntryOK, TransferOK, Flows, Alive, Young, Readers
  <2>5. Fits("process", b)'
    BY <2>3 DEF Fits, Alive
  <2> QED BY <2>4, <2>5
<1>19. ASSUME NEW x \in Requests PROVE RequestOK(x)'
  BY <1>6, <1>17, <1>18, <1>19, SameRequest DEF IInv, LocalInv
<1>20. TurnsOK'
  <2>1. ASSUME NEW x \in Requests, NEW op \in Ops, Pending(op, x)' PROVE Fits(op, x)'
    <3>1. CASE x = b
      BY <1>7, <1>16, <1>18, <2>1, <3>1
    <3>2. CASE x = r
      BY <1>2, <1>16, <1>17, <2>1, <3>2 DEF IInv, LocalInv, TurnsOK
    <3>3. CASE x \notin {r, b}
      <4>1. Fits(op, x) /\ RequestOK(x) /\ Same(x)
        BY <1>6, <1>16, <2>1, <3>3 DEF IInv, LocalInv, TurnsOK
      <4> QED BY <4>1, SameRequest
    <3> QED BY <3>1, <3>2, <3>3
  <2>2. TurnOK(calls') /\ QueueOK(calls', queued_events')
    BY <1>4, <1>12, <1>13, <1>15
  <2> QED BY <2>1, <2>2 DEF TurnsOK
<1>21. BackgroundOK'
  <2> SUFFICES ASSUME NEW f \in Fetches, state'[Background[f]] # "Unborn"
               PROVE  state'[f] \notin Young
    BY DEF BackgroundOK
  <2>1. CASE f = r
    BY <1>5, <2>1 DEF Young
  <2>2. CASE f # r
    <3>1. f \in Requests /\ Background[f] \in Requests /\ Background[f] # b /\ f # b
      BY <1>2, <2>2, RequestAssumption
    <3>2. state[Background[f]] # "Unborn"
      BY <1>1, <1>5, <3>1
    <3>3. state[f] \notin Young
      BY <3>2 DEF IInv, LocalInv, BackgroundOK
    <3> QED BY <1>5, <2>2, <3>1, <3>3
  <2> QED BY <2>1, <2>2
<1>22. WaitingOK' /\ NoLostWakeup'
  <2>1. \A x \in Requests : Pending("unblock", x)' <=> Pending("unblock", x)
    BY <1>16 DEF Ops
  <2>2. \A k \in Keys : OpenEntries(k) # {} => OpenEntries(k)' # {}
    BY <1>1, <1>5 DEF OpenEntries
  <2>3. \A x \in Requests :
          /\ state'[x] = "WaitForCache" => state[x] = "WaitForCache"
          /\ state[x] \in {"WaitForCache", "Destroyed"} =>
                 state'[x] \in {"WaitForCache", "Destroyed"}
    BY <1>1, <1>5
  <2> QED BY <1>4, <2>1, <2>2, <2>3, WaitStep
<1> QED BY <1>19, <1>20, <1>21, <1>22 DEF IInv, LocalInv

(* handle_initial_state.                                                   *)
LEMMA InitialStep ==
    ASSUME IInv, TypeOK', NEW r \in Requests, handle_initial_state(r)
    PROVE  IInv'
<1>1. Processing(r, "Init") /\ UNCHANGED <<resolving, curl, notifying, piping>>
  BY DEF handle_initial_state
<1>2. PICK o \in open_entry(r, r \in Revalidations, Locking) :
        \/ o.answer = "blocked" /\ InitBlocked(r) /\ readerRef' = readerRef
        \/ o.answer \in Readers /\ InitReader(r, o.answer)
        \/ o.answer = "none" /\ InitUncached(r, "Complete")
        \/ /\ o.answer = "none"
           /\ \E w \in create_entry(r, Locking) :
                \/ w = "blocked" /\ InitBlocked(r) /\ readerRef' = readerRef \ {r}
                \/ w = "none" /\ InitUncached(r, "DNSLookup")
                \/ w = "writer" /\ InitWriter(r)
  BY DEF handle_initial_state
<1>3. entry[r] = "none" /\ entry \in [Requests -> Entries]
  BY <1>1, InitFacts, FieldTypes DEF IInv, LocalInv
<1>4. "blocked" \in create_entry(r, Locking) => OpenEntries(Key[r]) # {}
  BY DEF create_entry, check_if_cache_has_open_entry
<1>5. o.answer = "blocked" => OpenEntries(Key[r]) # {}
  BY OpenEntryWaits
<1>6. CASE InitBlocked(r) /\ OpenEntries(Key[r]) # {} /\ readerRef' \in {readerRef, readerRef \ {r}}
  BY <1>1, <1>6, InitBlockedStep
<1>7. CASE InitUncached(r, "Complete") \/ InitUncached(r, "DNSLookup")
  <2>1. entry' = [entry EXCEPT ![r] = "none"]
    BY <1>3, <1>7 DEF InitUncached
  <2>2. "none" \in Entries /\ "none" \notin Readers
    BY DEF Entries, Readers
  <2> QED BY <1>1, <1>7, <2>1, <2>2, InitAloneStep DEF InitUncached
<1>8. CASE "writer" \in create_entry(r, Locking) /\ InitWriter(r)
  <2>1. "writer" \in Entries /\ "writer" \notin Readers
    BY DEF Entries, Readers
  <2>2. r \in Cacheable
    BY <1>8 DEF create_entry
  <2> QED BY <1>1, <1>8, <2>1, <2>2, InitAloneStep DEF InitWriter
<1>9. CASE o.answer \in Readers /\ InitReader(r, o.answer)
  <2>1. /\ o.answer = "background" <=> r \in Revalidations
        /\ r \in Cacheable
        /\ o.answer = "stale_while_revalidate" => r \notin Revalidations
    BY <1>9, OpenEntryType, OpenEntryWaits DEF IInv, LocalInv, TypeOK
  <2>2. CASE o.answer = "stale_while_revalidate"
    <3>1. r \in Fetches
      BY <2>1, <2>2, RequestAssumption
    <3> QED BY <1>1, <1>9, <2>1, <2>2, <3>1, InitStaleStep
  <2>3. CASE o.answer # "stale_while_revalidate"
    <3>1. PICK s \in {"DNSLookup", "ReadCache"} :
            Enter(r, s) /\ (s = "DNSLookup" <=> o.answer \in {"must_revalidate", "background"})
      BY <1>9, <2>3 DEF InitReader
    <3>2. /\ entry' = [entry EXCEPT ![r] = o.answer] /\ readerRef' = readerRef \cup {r}
          /\ UNCHANGED <<queued_events, waiting, writerRef>>
          /\ o.answer \in Entries /\ o.answer # "writer"
      BY <1>9 DEF InitReader, Entries, Readers
    <3> QED BY <1>1, <1>9, <2>1, <3>1, <3>2, InitAloneStep
  <2> QED BY <2>2, <2>3
<1> QED BY <1>2, <1>4, <1>5, <1>6, <1>7, <1>8, <1>9

(* Every step keeps the invariant.                                         *)
LEMMA NextKeeps == IInv /\ [Next]_vars => IInv'
<1> SUFFICES ASSUME IInv, [Next]_vars PROVE IInv'
  OBVIOUS
<1>1. TypeOK'
  BY NextType DEF IInv, LocalInv
<1>2. ASSUME NEW r \in Requests, RequestCall(r) PROVE IInv'
  BY <1>1, <1>2, InitialStep, ReadCacheStep, QuietSteps, LookupStep, TransferStep, UnblockStep,
     HeadersAndFinishStep, WriteSteps, PipeStep, ReaderPipeStep, SettleStep, CloseStep,
     DestroyStep
  DEF RequestCall
<1>3. ASSUME NEW c \in Clients, die(c) \/ disconnect(c) PROVE IInv'
  BY <1>1, <1>3, ConnectionSteps
<1>4. ASSUME NEW r \in Requests, RequestEvent(r) PROVE IInv'
  BY <1>1, <1>4, MessageSteps, LookupSettledStep, DataStep, FetchCompleteStep, WritableSteps
  DEF RequestEvent
<1>5. CASE dispatch
  BY <1>1, <1>5, DispatchStep
<1>6. CASE remove_cache_entries_accessed_since \/ UNCHANGED vars
  BY <1>1, <1>6, ClearStep
<1>7. CASE crash
  BY <1>1, <1>7, TerminateStep DEF crash
<1> QED BY <1>2, <1>3, <1>4, <1>5, <1>6, <1>7 DEF Next, Turn

(* The invariant holds from the start.                                     *)
LEMMA InitKeeps == Init => IInv
<1> SUFFICES ASSUME Init PROVE IInv
  OBVIOUS
<1>1. TypeOK
  <2>1. << >> \in Seq(Calls) /\ << >> \in Seq(Seq(Calls)) /\ << >> \in Seq(Requests)
        /\ << >> \in Seq(Messages)
    OBVIOUS
  <2> QED BY <2>1 DEF Init, LoopInit, CacheInit, TypeOK, LoopTypeOK, CacheTypeOK,
                      RequestTypeOK, Rows, Files, Entries, States
<1>2. /\ calls = <<>> /\ queued_events = <<>> /\ TurnOK(<<>>) /\ QueueOK(<<>>, <<>>)
      /\ \A c : ~IsIn(c, <<>>) /\ ~Queued(c, <<>>)
  BY ShortTurns, ShortQueues DEF Init, LoopInit
<1>3. TurnsOK
  BY <1>2 DEF TurnsOK, Pending
<1>4. ASSUME NEW r \in Requests PROVE RequestOK(r)
  BY DEF Init, CacheInit, RequestOK, EntryOK, TransferOK, Flows, Alive, Young, Readers
<1>5. BackgroundOK
  BY RequestAssumption DEF Init, BackgroundOK
<1>6. WaitingOK
  BY DEF Init, CacheInit, WaitingOK
<1>7. NoLostWakeup
  BY DEF Init, NoLostWakeup
<1> QED BY <1>1, <1>3, <1>4, <1>5, <1>6, <1>7 DEF IInv, LocalInv

(* The invariant of the turns and the requests.                            *)
THEOREM TurnsAndRequestsFit == Spec => []IInv
BY InitKeeps, NextKeeps, PTL DEF Spec

(* Every request that waits is resumed, and only a request that waits:     *)
(* whoever is on a waiting list or about to be resumed is in WaitForCache, *)
(* without an entry or a transfer of its own, or is gone.                  *)
THEOREM WakeupsAreExactAlways == Spec => []WakeupsAreExact
<1>1. ASSUME IInv, NEW r \in Requests, Alive(r), IsIn(r, waiting[Key[r]]) \/ WillBeUnblocked(r)
      PROVE  state[r] = "WaitForCache" /\ entry[r] = "none" /\ curl[r] = "none"
  <2>1. Key[r] \in Keys /\ "unblock" \in Ops /\ RequestOK(r)
    BY <1>1, CacheAssumption DEF Ops, IInv, LocalInv
  <2>2. ASSUME IsIn(r, waiting[Key[r]]) PROVE state[r] = "WaitForCache"
    BY <1>1, <2>1, <2>2 DEF IInv, WaitingOK, IsIn, Alive
  <2>3. ASSUME WillBeUnblocked(r) PROVE state[r] = "WaitForCache"
    <3>1. Fits("unblock", r)
      BY <1>1, <2>1, <2>3 DEF IInv, LocalInv, TurnsOK, Pending, WillBeUnblocked, Queued
    <3> QED BY <1>1, <3>1 DEF Fits, Alive
  <2>4. state[r] = "WaitForCache"
    BY <1>1, <2>2, <2>3
  <2> QED BY <2>1, <2>4 DEF RequestOK, EntryOK, TransferOK, Young
<1>2. IInv => WakeupsAreExact
  BY <1>1 DEF WakeupsAreExact, UnblockedOnlyWhileWaiting, IInv
<1> QED BY <1>2, TurnsAndRequestsFit, PTL

(* What a request dereferences is there.                                   *)
THEOREM ReferencesAreLiveAlways == Spec => []ReferencesAreLive
<1>1. ASSUME IInv, NEW r \in Requests
      PROVE  /\ r \in writerRef => entry[r] = "writer"
             /\ r \in readerRef /\ curl[r] \in {"running", "aborted"} => entry[r] \in Readers
             /\ Calling("pipe", r) => r \in readerRef /\ entry[r] \in Readers
             /\ IsIn(Call("close", r), calls) => entry[r] # "none"
  <2>1. RequestOK(r) /\ "pipe" \in Ops /\ "close" \in Ops
    BY <1>1 DEF IInv, LocalInv, Ops
  <2>2. r \in writerRef => entry[r] = "writer"
    BY <2>1 DEF RequestOK, EntryOK, TransferOK
  <2>3. r \in readerRef /\ curl[r] \in {"running", "aborted"} => entry[r] \in Readers
    BY <1>1, CurlCallback DEF Readers
  <2>4. ASSUME Calling("pipe", r) PROVE r \in readerRef /\ entry[r] \in Readers
    <3>1. state[r] = "ReadCache"
      BY <1>1, <2>1, <2>4, Called DEF Fits
    <3> QED BY <2>1, <3>1 DEF RequestOK, EntryOK, Alive
  <2>5. ASSUME IsIn(Call("close", r), calls) PROVE entry[r] # "none"
    <3>1. Fits("close", r)
      BY <1>1, <2>1, <2>5 DEF IInv, LocalInv, TurnsOK, Pending
    <3> QED BY <3>1 DEF Fits
  <2> QED BY <2>2, <2>3, <2>4, <2>5
<1>2. IInv => ReferencesAreLive
  BY <1>1 DEF ReferencesAreLive
<1> QED BY <1>2, TurnsAndRequestsFit, PTL

-----------------------------------------------------------------------------
(* What the steps do to the lives of the requests, to the rows and to the  *)
(* files.                                                                  *)

(* Nobody who has an entry comes to life or dies.                          *)
SameLives == \A x \in Requests : entry[x] # "none" => (Alive(x)' <=> Alive(x))

(* r goes on to another state of a living request.                         *)
GoesOn(r) ==
    /\ Alive(r) \/ entry[r] = "none"
    /\ \E s \in States \ {"Unborn", "Destroyed"} : state' = [state EXCEPT ![r] = s]

(* Then nobody with an entry comes to life or dies.                        *)
LEMMA GoingOn ==
    ASSUME TypeOK, NEW r \in Requests, GoesOn(r)
    PROVE  SameLives
<1>1. state \in [Requests -> States]
  BY FieldTypes
<1>2. PICK s \in States \ {"Unborn", "Destroyed"} : state' = [state EXCEPT ![r] = s]
  BY DEF GoesOn
<1> QED BY <1>1, <1>2 DEF GoesOn, SameLives, Alive

(* A request with an entry dies in destroy, or with the process.           *)
LEMMA LivesChange ==
    ASSUME IInv, [Next]_vars
    PROVE  \/ SameLives
           \/ entry' = [r \in Requests |-> "none"]
           \/ \E r \in Requests : destroy(r)
<1> DEFINE Changes == \/ SameLives
                      \/ entry' = [r \in Requests |-> "none"]
                      \/ \E r \in Requests : destroy(r)
<1>1. TypeOK
  BY DEF IInv, LocalInv
<1>2. ASSUME UNCHANGED state PROVE SameLives
  BY <1>2 DEF SameLives, Alive
<1>3. ASSUME Terminate PROVE Changes
  BY <1>3 DEF Terminate
<1>4. ASSUME NEW r \in Requests, RequestCall(r) PROVE Changes
  <2>1. CASE handle_initial_state(r)
    <3>1. Processing(r, "Init")
      BY <2>1 DEF handle_initial_state
    <3>2. /\ entry[r] = "none" /\ (r \in Fetches => state[Background[r]] = "Unborn")
          /\ state \in [Requests -> States]
      BY <1>1, <3>1, InitFacts, FieldTypes
    <3>3. \/ \E s \in {"WaitForCache", "DNSLookup", "ReadCache", "Complete"} :
               state' = [state EXCEPT ![r] = s]
          \/ \E o \in open_entry(r, r \in Revalidations, Locking) :
               /\ o.answer = "stale_while_revalidate"
               /\ state' = [state EXCEPT ![r] = "ReadCache", ![Background[r]] = "Init"]
      BY <2>1 DEF handle_initial_state, InitBlocked, InitReader, InitUncached, InitWriter, Enter
    <3>4. CASE \E s \in {"WaitForCache", "DNSLookup", "ReadCache", "Complete"} :
                 state' = [state EXCEPT ![r] = s]
      BY <1>1, <3>2, <3>4, GoingOn DEF GoesOn, States
    <3>5. CASE \E o \in open_entry(r, r \in Revalidations, Locking) :
                 /\ o.answer = "stale_while_revalidate"
                 /\ state' = [state EXCEPT ![r] = "ReadCache", ![Background[r]] = "Init"]
      <4>1. r \notin Revalidations
        BY <1>1, <3>5, OpenEntryType DEF TypeOK
      <4>2. Cacheable \subseteq Requests /\ r \in Cacheable
        BY <1>1, <3>5, OpenEntryType, CacheAssumption DEF TypeOK, Readers
      <4>3. r \in Fetches /\ Background[r] \in Requests
        BY <4>1, <4>2, RequestAssumption
      <4>4. RequestOK(Background[r])
        BY <4>3 DEF IInv, LocalInv
      <4>5. entry[Background[r]] = "none"
        BY <3>2, <4>3, <4>4 DEF RequestOK, EntryOK, Young
      <4>6. \A x \in Requests : x # r /\ x # Background[r] => state'[x] = state[x]
        BY <3>2, <3>5, <4>3
      <4> QED BY <3>2, <4>3, <4>5, <4>6 DEF SameLives, Alive
    <3> QED BY <3>3, <3>4, <3>5
  <2>2. CASE \/ handle_read_cache_state(r) \/ handle_dns_lookup_state(r) \/ handle_fetch_state(r)
             \/ notify_request_unblocked(r)
    <3>1. UNCHANGED state \/ GoesOn(r)
      BY <2>2 DEF handle_read_cache_state, handle_dns_lookup_state, handle_fetch_state,
                  notify_request_unblocked, Processing, Enter, AfterLookup, GoesOn, Alive, States
    <3> QED BY <1>1, <1>2, <3>1, GoingOn
  <2>3. CASE \/ handle_wait_for_cache_state(r) \/ handle_connect_state(r)
             \/ handle_complete_state(r) \/ handle_error_state(r)
             \/ transfer_headers_to_client_if_needed(r) \/ finish(r) \/ close(r)
             \/ remove_request(r)
    <3>1. UNCHANGED state
      BY <2>3 DEF handle_wait_for_cache_state, handle_connect_state, handle_complete_state,
                  handle_error_state, transfer_headers_to_client_if_needed, finish, close,
                  remove_request, requestVars
    <3> QED BY <1>2, <3>1
  <2>4. CASE write_queued_bytes_without_blocking(r) \/ on_client_pipe_writable(r)
    <3>1. /\ UNCHANGED state \/ Enter(r, "Complete")
          /\ Calling("write_queued", r) \/ (Calling("activate", r) /\ Alive(r))
                 \/ UNCHANGED state
      BY <2>4 DEF write_queued_bytes_without_blocking, on_client_pipe_writable, WriteAll,
                  WriteSome, WriteNothing, WriteFails, CompleteIfDrained
    <3>2. Calling("write_queued", r) => Alive(r)
      BY Called DEF Ops, Fits, Flows, Alive
    <3>3. UNCHANGED state \/ GoesOn(r)
      BY <3>1, <3>2 DEF Enter, GoesOn, States
    <3> QED BY <1>1, <1>2, <3>3, GoingOn
  <2>5. CASE pipe_without_blocking(r) \/ settle(r)
    <3>1. \/ UNCHANGED state \/ Terminate
          \/ \E s \in {"Complete", "Error"} : state' = [state EXCEPT ![r] = s]
      BY <2>5 DEF pipe_without_blocking, PipeComplete, PipeBlocked, PipeError, PipeOverruns,
                  settle, Enter
    <3>2. Calling("pipe", r) \/ Calling("settle", r)
      BY <2>5 DEF pipe_without_blocking, settle
    <3>3. Alive(r)
      BY <3>2, Called DEF Ops, Fits, Alive
    <3>4. UNCHANGED state \/ GoesOn(r) \/ Terminate
      BY <3>1, <3>3 DEF GoesOn, States
    <3> QED BY <1>1, <1>2, <1>3, <3>4, GoingOn
  <2>6. CASE on_reader_pipe_writable(r)
    <3>1. UNCHANGED state \/ Terminate
      BY <2>6 DEF on_reader_pipe_writable, requestVars
    <3> QED BY <1>2, <1>3, <3>1
  <2>7. CASE destroy(r)
    BY <2>7
  <2> QED BY <1>4, <2>1, <2>2, <2>3, <2>4, <2>5, <2>6, <2>7 DEF RequestCall
<1>5. ASSUME NEW c \in Clients, die(c) \/ disconnect(c) PROVE Changes
  <2>1. UNCHANGED state
    BY <1>5 DEF die, disconnect, requestVars
  <2> QED BY <1>2, <2>1
<1>6. ASSUME NEW r \in Requests, RequestEvent(r) PROVE Changes
  <2>1. CASE start_request(r) \/ ensure_connection(r)
    <3>1. RequestOK(r) /\ state[r] = "Unborn"
      BY <2>1 DEF IInv, LocalInv, start_request, ensure_connection
    <3>2. entry[r] = "none"
      BY <3>1 DEF RequestOK, EntryOK, Young
    <3>3. GoesOn(r)
      BY <2>1, <3>2 DEF start_request, ensure_connection, GoesOn, States
    <3> QED BY <1>1, <3>3, GoingOn
  <2>2. CASE stop_request(r) \/ ClientPipeWritable(r) \/ ReaderPipeWritable(r)
    <3>1. UNCHANGED state
      BY <2>2 DEF stop_request, ClientPipeWritable, ReaderPipeWritable, requestVars
    <3> QED BY <1>2, <3>1
  <2>3. CASE DNSLookupSettled(r)
    <3>1. UNCHANGED state \/ GoesOn(r) \/ Terminate
      BY <2>3 DEF DNSLookupSettled, AfterLookup, GoesOn, States
    <3> QED BY <1>1, <1>2, <1>3, <3>1, GoingOn
  <2>4. CASE on_data_received(r) \/ notify_fetch_complete(r)
    <3>1. /\ curl[r] \in {"running", "aborted"}
          /\ \/ UNCHANGED state
             \/ \E s \in {"Error", "Complete", "ReadCache"} : state' = [state EXCEPT ![r] = s]
      BY <2>4 DEF on_data_received, ReplaceStoredResponse, notify_fetch_complete, NotModified,
                  Modified
    <3>2. Alive(r)
      BY <3>1, CurlCallback DEF Alive
    <3>3. UNCHANGED state \/ GoesOn(r)
      BY <3>1, <3>2 DEF GoesOn, States
    <3> QED BY <1>1, <1>2, <3>3, GoingOn
  <2> QED BY <1>6, <2>1, <2>2, <2>3, <2>4 DEF RequestEvent
<1>7. CASE dispatch \/ remove_cache_entries_accessed_since \/ crash \/ UNCHANGED vars
  <2>1. UNCHANGED state \/ Terminate
    BY <1>7 DEF dispatch, remove_cache_entries_accessed_since, crash, vars, requestVars
  <2> QED BY <1>2, <1>3, <2>1
<1> QED BY <1>4, <1>5, <1>6, <1>7 DEF Next, Turn

(* What open_entry leaves of the row and the file.                         *)
LEMMA OpenEntryKeeps ==
    ASSUME NEW r \in Requests, NEW revalidate, NEW locking,
           NEW o \in open_entry(r, revalidate, locking)
    PROVE  o.row \in {index[Key[r]], "absent"} /\ o.file \in {file[Key[r]], "absent"}
<1> DEFINE k == Key[r]
<1>1. \/ \E a : o = Opened(a, index[k], file[k])
      \/ o = Opened("none", "absent", "absent")
      \/ o = Opened("none", "absent", file[k])
  BY DEF open_entry
<1>2. \A a, x, f : Opened(a, x, f).row = x /\ Opened(a, x, f).file = f
  BY DEF Opened
<1> QED BY <1>1, <1>2

(* A row is created when a writer is flushed, and only then; a file is     *)
(* changed by the writer that opens or closes it, or after a crash; else   *)
(* they are removed, if anything.                                          *)
RowKept(k) ==
    \/ index'[k] \in {index[k], "absent"}
    \/ \E q \in Requests : destroy(q) /\ q \in writerRef /\ Key[q] = k

FileKept(k) ==
    \/ file'[k] \in {file[k], "absent"}
    \/ entry' = [r \in Requests |-> "none"]
    \/ \E q \in Requests : Key[q] = k /\ (OpensWriter(q) \/ (close(q) /\ entry[q] = "writer"))

Kept(k) == RowKept(k) /\ FileKept(k)

(* Steps that leave both as they are, or remove both, keep them.           *)
LEMMA KeptSteps ==
    ASSUME TypeOK, NEW k \in Keys
    PROVE  /\ UNCHANGED <<index, file>> => Kept(k)
           /\ \A r \in Requests : remove(Key[r]) => Kept(k)
           /\ Terminate => Kept(k)
<1>1. index \in [Keys -> Rows] /\ file \in [Keys -> Files]
  BY DEF TypeOK, CacheTypeOK
<1>2. UNCHANGED <<index, file>> => Kept(k)
  BY DEF Kept, RowKept, FileKept
<1>3. ASSUME NEW r \in Requests, remove(Key[r]) PROVE Kept(k)
  <2>1. index'[k] \in {index[k], "absent"} /\ file'[k] \in {file[k], "absent"}
    BY <1>1, <1>3 DEF remove
  <2> QED BY <2>1 DEF Kept, RowKept, FileKept
<1>4. Terminate => Kept(k)
  BY DEF Terminate, Kept, RowKept, FileKept
<1> QED BY <1>2, <1>3, <1>4

(* What any step does to the row and the file of a key.                    *)
LEMMA StoreChanges ==
    ASSUME IInv, [Next]_vars, NEW k \in Keys
    PROVE  Kept(k)
<1>1. TypeOK /\ index \in [Keys -> Rows] /\ file \in [Keys -> Files]
  BY DEF IInv, LocalInv, TypeOK, CacheTypeOK
<1>2. /\ UNCHANGED <<index, file>> => Kept(k)
      /\ \A r \in Requests : remove(Key[r]) => Kept(k)
      /\ Terminate => Kept(k)
  BY <1>1, KeptSteps
<1>3. ASSUME NEW r \in Requests, RequestCall(r) PROVE Kept(k)
  <2>1. CASE handle_initial_state(r)
    <3>1. PICK o \in open_entry(r, r \in Revalidations, Locking) :
            /\ index' = [index EXCEPT ![Key[r]] = o.row]
            /\ \/ file' = file
               \/ file' = [file EXCEPT ![Key[r]] = o.file]
               \/ /\ "writer" \in create_entry(r, Locking) /\ InitWriter(r)
                  /\ file' = [file EXCEPT ![Key[r]] = "unsealed"]
      BY <2>1 DEF handle_initial_state
    <3>2. o.row \in {index[Key[r]], "absent"} /\ o.file \in {file[Key[r]], "absent"}
      BY OpenEntryKeeps
    <3>3. index'[k] \in {index[k], "absent"}
      BY <1>1, <3>1, <3>2
    <3>4. CASE file' = file \/ file' = [file EXCEPT ![Key[r]] = o.file]
      BY <1>1, <3>2, <3>3, <3>4 DEF Kept, RowKept, FileKept
    <3>5. CASE /\ "writer" \in create_entry(r, Locking) /\ InitWriter(r)
               /\ file' = [file EXCEPT ![Key[r]] = "unsealed"]
      <4>1. OpensWriter(r)
        <5>1. ~check_if_cache_has_open_entry(r, TRUE, Locking)
          BY <3>5 DEF create_entry
        <5> QED BY <3>5, <5>1 DEF OpensWriter, check_if_cache_has_open_entry, InitWriter
      <4>2. k # Key[r] => file'[k] = file[k]
        BY <1>1, <3>5
      <4> QED BY <3>3, <4>1, <4>2 DEF Kept, RowKept, FileKept
    <3> QED BY <3>1, <3>4, <3>5
  <2>2. CASE \/ handle_read_cache_state(r) \/ handle_wait_for_cache_state(r)
             \/ handle_dns_lookup_state(r) \/ handle_connect_state(r) \/ handle_fetch_state(r)
             \/ handle_complete_state(r) \/ handle_error_state(r)
             \/ notify_request_unblocked(r) \/ settle(r) \/ remove_request(r)
    <3>1. UNCHANGED <<index, file>>
      BY <2>2 DEF handle_read_cache_state, handle_wait_for_cache_state,
                  handle_dns_lookup_state, handle_connect_state, handle_fetch_state,
                  handle_complete_state, handle_error_state, notify_request_unblocked, settle,
                  remove_request, cacheVars
    <3> QED BY <1>2, <3>1
  <2>3. CASE \/ transfer_headers_to_client_if_needed(r) \/ write_queued_bytes_without_blocking(r)
             \/ on_client_pipe_writable(r) \/ finish(r)
    <3>1. UNCHANGED <<index, file>> \/ remove(Key[r])
      BY <2>3 DEF transfer_headers_to_client_if_needed, write_queued_bytes_without_blocking,
                  on_client_pipe_writable, finish, WriteAll, WriteSome, WriteNothing,
                  WriteFails, WriteToCache, LoseWriter, cacheVars
    <3> QED BY <1>2, <3>1
  <2>4. CASE pipe_without_blocking(r) \/ on_reader_pipe_writable(r)
    <3>1. UNCHANGED <<index, file>> \/ remove(Key[r]) \/ Terminate
      BY <2>4 DEF pipe_without_blocking, on_reader_pipe_writable, PipeComplete, PipeBlocked,
                  PipeError, PipeOverruns, cacheVars
    <3> QED BY <1>2, <3>1
  <2>5. CASE close(r)
    <3>1. /\ UNCHANGED index
          /\ file' = file \/ (entry[r] = "writer" /\ \E f : file' = [file EXCEPT ![Key[r]] = f])
      BY <2>5 DEF close
    <3>2. k # Key[r] => file'[k] = file[k]
      BY <1>1, <3>1
    <3> QED BY <2>5, <3>1, <3>2 DEF Kept, RowKept, FileKept
  <2>6. CASE destroy(r)
    <3>1. \/ UNCHANGED <<index, file>> \/ remove(Key[r])
          \/ /\ r \in writerRef /\ UNCHANGED file
             /\ \E x : index' = [index EXCEPT ![Key[r]] = x]
      BY <2>6 DEF destroy, flush
    <3>2. CASE /\ r \in writerRef /\ UNCHANGED file
               /\ \E x : index' = [index EXCEPT ![Key[r]] = x]
      <4>1. k # Key[r] => index'[k] = index[k]
        BY <1>1, <3>2
      <4> QED BY <2>6, <3>2, <4>1 DEF Kept, RowKept, FileKept
    <3> QED BY <1>2, <3>1, <3>2
  <2> QED BY <1>3, <2>1, <2>2, <2>3, <2>4, <2>5, <2>6 DEF RequestCall
<1>4. ASSUME NEW c \in Clients, die(c) \/ disconnect(c) PROVE Kept(k)
  <2>1. UNCHANGED <<index, file>>
    BY <1>4 DEF die, disconnect, cacheVars
  <2> QED BY <1>2, <2>1
<1>5. ASSUME NEW r \in Requests, RequestEvent(r) PROVE Kept(k)
  <2>1. CASE \/ start_request(r) \/ ensure_connection(r) \/ stop_request(r)
             \/ ClientPipeWritable(r) \/ ReaderPipeWritable(r) \/ DNSLookupSettled(r)
    <3>1. UNCHANGED <<index, file>> \/ Terminate
      BY <2>1 DEF start_request, ensure_connection, stop_request, ClientPipeWritable,
                  ReaderPipeWritable, DNSLookupSettled, cacheVars
    <3> QED BY <1>2, <3>1
  <2>2. CASE on_data_received(r) \/ notify_fetch_complete(r)
    <3>1. \/ UNCHANGED <<index, file>>
          \/ RevalidationFailed(r, "none")
          \/ IsLastOpenEntry(r) /\ RevalidationFailed(r, "writer")
      BY <2>2 DEF on_data_received, ReplaceStoredResponse, notify_fetch_complete, NotModified,
                  Modified, cacheVars
    <3>2. ASSUME RevalidationFailed(r, "none") PROVE remove(Key[r])
      BY <3>2 DEF RevalidationFailed, remove
    <3>3. ASSUME IsLastOpenEntry(r), RevalidationFailed(r, "writer") PROVE Kept(k)
      <4>1. OpensWriter(r)
        BY <3>3 DEF RevalidationFailed, CloseEntry, IsLastOpenEntry, OpensWriter
      <4>2. index'[k] \in {index[k], "absent"} /\ (k # Key[r] => file'[k] = file[k])
        BY <1>1, <3>3 DEF RevalidationFailed
      <4> QED BY <4>1, <4>2 DEF Kept, RowKept, FileKept
    <3> QED BY <1>2, <3>1, <3>2, <3>3
  <2> QED BY <1>5, <2>1, <2>2 DEF RequestEvent
<1>6. CASE remove_cache_entries_accessed_since
  <2>1. index'[k] \in {index[k], "absent"} /\ file'[k] \in {file[k], "absent"}
    BY <1>1, <1>6 DEF remove_cache_entries_accessed_since, remove_entries_accessed_since
  <2> QED BY <2>1 DEF Kept, RowKept, FileKept
<1>7. CASE dispatch \/ crash \/ UNCHANGED vars
  <2>1. UNCHANGED <<index, file>> \/ Terminate
    BY <1>7 DEF dispatch, crash, vars, cacheVars
  <2> QED BY <1>2, <2>1
<1> QED BY <1>3, <1>4, <1>5, <1>6, <1>7 DEF Next, Turn

-----------------------------------------------------------------------------
(* The keys as locks.                                                      *)

(* r has an entry that nobody else may have one beside.                    *)
Exclusive(r) ==
    \/ entry[r] = "writer"
    \/ Alive(r) /\ entry[r] \in {"must_revalidate", "background"}

(* The open entries that lock their key are those of the live requests     *)
(* that revalidate, whatever is_revalidation_request asks of their kind.   *)
LEMMA ExclusiveEntries ==
    ASSUME IInv, NEW r \in Requests, entry[r] # "none"
    PROVE  Exclusive(r) <=> entry[r] = "writer" \/ r \in Locking
<1>1. RequestOK(r) /\ entry[r] \in Entries
  BY FieldTypes DEF IInv, LocalInv
<1>2. r \in Cacheable /\ r \notin Connects
  BY <1>1, RequestAssumption DEF RequestOK, EntryOK
<1>3. r \in Fetches <=> r \notin Revalidations
  BY <1>2, RequestAssumption
<1>4. ASSUME Exclusive(r), entry[r] # "writer" PROVE r \in Locking
  <2>1. r \in readerRef /\ (r \in Fetches => entry[r] = "must_revalidate")
    BY <1>1, <1>3, <1>4 DEF Exclusive, RequestOK, EntryOK, Readers
  <2> QED BY <1>4, <2>1 DEF Exclusive, Locking, is_revalidation_request
<1>5. ASSUME r \in Locking PROVE Exclusive(r)
  <2>1. Alive(r) /\ r \in readerRef /\ (r \in Fetches => entry[r] = "must_revalidate")
    BY <1>5 DEF Locking, is_revalidation_request
  <2>2. entry[r] \in Readers
    BY <1>1, <2>1 DEF RequestOK, EntryOK, Entries
  <2>3. r \notin Fetches => entry[r] = "background"
    BY <1>1, <1>3, <2>2 DEF RequestOK, EntryOK
  <2> QED BY <2>1, <2>3 DEF Exclusive
<1>6. entry[r] = "writer" => Exclusive(r)
  BY DEF Exclusive
<1> QED BY <1>4, <1>5, <1>6

(* r opens an entry beside others, or has the key to itself.               *)
OpensBeside(r) ==
    /\ \E e \in {"reader", "stale_while_revalidate"} : entry' = [entry EXCEPT ![r] = e]
    /\ \A o \in OpenEntries(Key[r]) : ~Exclusive(o)

OpensAlone(r) ==
    /\ OpenEntries(Key[r]) = {}
    /\ \E e \in {"must_revalidate", "background", "writer"} :
           /\ entry' = [entry EXCEPT ![r] = e]
           /\ e = "writer" => index'[Key[r]] = "absent"

(* What handle_initial_state opens.                                        *)
LEMMA InitialStateOpens ==
    ASSUME IInv, NEW r \in Requests, handle_initial_state(r)
    PROVE  /\ entry[r] = "none" /\ Alive(r)'
           /\ UNCHANGED entry \/ OpensBeside(r) \/ OpensAlone(r)
<1>1. Processing(r, "Init") /\ CacheTypeOK
  BY DEF handle_initial_state, IInv, LocalInv, TypeOK
<1>2. /\ entry[r] = "none" /\ (r \in Fetches => state[Background[r]] = "Unborn")
      /\ state \in [Requests -> States] /\ index \in [Keys -> Rows] /\ Key[r] \in Keys
      /\ state[r] = "Init"
  BY <1>1, InitFacts, FieldTypes DEF IInv, LocalInv, CacheTypeOK
<1>3. PICK o \in open_entry(r, r \in Revalidations, Locking) :
        /\ index' = [index EXCEPT ![Key[r]] = o.row]
        /\ \/ InitBlocked(r)
           \/ o.answer \in Readers /\ InitReader(r, o.answer)
           \/ InitUncached(r, "Complete") \/ InitUncached(r, "DNSLookup")
           \/ /\ o.answer = "none" /\ r \notin Revalidations
              /\ "writer" \in create_entry(r, Locking) /\ InitWriter(r)
  BY DEF handle_initial_state
<1>4. CASE InitBlocked(r) \/ InitUncached(r, "Complete") \/ InitUncached(r, "DNSLookup")
  BY <1>2, <1>4 DEF InitBlocked, InitUncached, Enter, Alive
<1>5. CASE o.answer \in Readers /\ InitReader(r, o.answer)
  <2>1. r \in Cacheable /\ ~check_if_cache_has_open_entry(r, r \in Revalidations, Locking)
    BY <1>1, <1>5, OpenEntryType
  <2>2. \A x \in OpenEntries(Key[r]) : entry[x] # "writer" /\ x \notin Locking
    BY <2>1 DEF check_if_cache_has_open_entry
  <2>3. \A x \in OpenEntries(Key[r]) : ~Exclusive(x)
    BY <2>2, ExclusiveEntries DEF OpenEntries
  <2>4. entry' = [entry EXCEPT ![r] = o.answer]
    BY <1>5 DEF InitReader
  <2>5. o.answer \in {"must_revalidate", "background"} => OpenEntries(Key[r]) = {}
    BY OpenEntryWaits
  <2>6. OpensBeside(r) \/ OpensAlone(r)
    BY <1>5, <2>3, <2>4, <2>5 DEF OpensBeside, OpensAlone, Readers
  <2>7. o.answer = "stale_while_revalidate" => r \in Fetches /\ Background[r] # r
    <3>1. o.answer = "stale_while_revalidate" => r \notin Revalidations
      BY <1>1, OpenEntryType
    <3>2. r \notin Revalidations => r \in Fetches
      BY <2>1, RequestAssumption
    <3>3. r \in Fetches => Background[r] \in Revalidations
      BY DEF Revalidations
    <3> QED BY <3>1, <3>2, <3>3
  <2>8. state'[r] \in {"DNSLookup", "ReadCache"}
    BY <1>2, <1>5, <2>7 DEF InitReader, Enter
  <2> QED BY <1>2, <2>6, <2>8 DEF Alive
<1>6. CASE /\ o.answer = "none" /\ r \notin Revalidations
           /\ "writer" \in create_entry(r, Locking) /\ InitWriter(r)
  <2>1. r \in Cacheable /\ ~check_if_cache_has_open_entry(r, TRUE, Locking)
    BY <1>6 DEF create_entry
  <2>2. OpenEntries(Key[r]) = {}
    BY <2>1 DEF check_if_cache_has_open_entry
  <2>3. o.row = "absent"
    BY <1>6, <2>1, OpenEntryWaits
  <2>4. entry' = [entry EXCEPT ![r] = "writer"] /\ index'[Key[r]] = "absent"
    BY <1>2, <1>3, <1>6, <2>3 DEF InitWriter
  <2>5. state'[r] = "DNSLookup"
    BY <1>2, <1>6 DEF InitWriter, Enter
  <2> QED BY <1>2, <2>2, <2>4, <2>5 DEF OpensAlone, Alive
<1> QED BY <1>3, <1>4, <1>5, <1>6

(* r replaces the stored response it revalidates by the one it writes.     *)
Replaces(r) ==
    /\ Exclusive(r) /\ IsLastOpenEntry(r)
    /\ entry' = [entry EXCEPT ![r] = "writer"]
    /\ index'[Key[r]] = "absent"

(* r dies; its entry stays open until it is closed.                        *)
Dies(r) ==
    /\ UNCHANGED entry
    /\ state' = [state EXCEPT ![r] = "Destroyed"]

(* What any step does to the keys as locks.                                *)
LEMMA LocksChange ==
    ASSUME IInv, [Next]_vars
    PROVE  \/ entry' = [r \in Requests |-> "none"]
           \/ \E r \in Requests : Dies(r)
           \/ /\ SameLives
              /\ \/ UNCHANGED entry
                 \/ \E r \in Requests :
                        \/ Closes(r)
                        \/ /\ entry[r] = "none" /\ Alive(r)'
                           /\ OpensBeside(r) \/ OpensAlone(r)
                        \/ Replaces(r)
<1>1. TypeOK /\ index \in [Keys -> Rows]
  BY DEF IInv, LocalInv, TypeOK, CacheTypeOK
<1>2. ASSUME NEW r \in Requests, destroy(r) PROVE Dies(r)
  BY <1>2 DEF destroy, Dies
<1>3. ASSUME NEW r \in Requests, handle_initial_state(r)
      PROVE  /\ entry[r] = "none" /\ Alive(r)'
             /\ UNCHANGED entry \/ OpensBeside(r) \/ OpensAlone(r)
  BY <1>3, InitialStateOpens
<1>4. ASSUME NEW r \in Requests, on_data_received(r), OpensWriter(r)
      PROVE  UNCHANGED entry \/ Closes(r) \/ Replaces(r)
  <2>1. curl[r] \in {"running", "aborted"} /\ Key[r] \in Keys
    BY <1>1, <1>4, FieldTypes DEF on_data_received
  <2>2. is_revalidation_request(r) => Exclusive(r)
    BY <2>1, CurlCallback DEF Exclusive, Alive
  <2>3. \/ UNCHANGED entry \/ Closes(r)
        \/ is_revalidation_request(r) /\ IsLastOpenEntry(r) /\ RevalidationFailed(r, "writer")
    BY <1>4 DEF on_data_received, ReplaceStoredResponse, RevalidationFailed, CloseEntry,
                Closes, cacheVars
  <2>4. RevalidationFailed(r, "writer") =>
            entry' = [entry EXCEPT ![r] = "writer"] /\ index'[Key[r]] = "absent"
    BY <1>1, <2>1 DEF RevalidationFailed, CloseEntry
  <2> QED BY <2>2, <2>3, <2>4 DEF Replaces
<1>5. \/ SameLives
      \/ entry' = [r \in Requests |-> "none"]
      \/ \E r \in Requests : destroy(r)
  BY LivesChange
<1>6. \/ UNCHANGED entry
      \/ entry' = [r \in Requests |-> "none"]
      \/ \E r \in Requests :
             \/ Closes(r)
             \/ handle_initial_state(r)
             \/ on_data_received(r) /\ OpensWriter(r)
  BY <1>1, EntriesChange
<1> QED BY <1>2, <1>3, <1>4, <1>5, <1>6

(* Nobody has an entry beside an exclusive one.                            *)
KeysAreLocked ==
    \A r, o \in Requests : Exclusive(r) /\ entry[o] # "none" /\ Key[o] = Key[r] => o = r

(* Every step keeps it: an exclusive entry is opened where there is none.  *)
LEMMA KeysStayLocked ==
    ASSUME IInv, KeysAreLocked, [Next]_vars
    PROVE  KeysAreLocked'
<1> SUFFICES ASSUME NEW r \in Requests, NEW o \in Requests,
                    Exclusive(r)', entry'[o] # "none", Key[o] = Key[r]
             PROVE  o = r
  BY DEF KeysAreLocked
<1>1. entry \in [Requests -> Entries] /\ state \in [Requests -> States]
  BY FieldTypes DEF IInv, LocalInv
<1>2. entry'[r] # "none"
  BY DEF Exclusive
<1>3. CASE entry' = [x \in Requests |-> "none"]
  BY <1>2, <1>3
<1>4. ASSUME NEW q \in Requests, Dies(q) PROVE o = r
  <2>1. Exclusive(r) /\ entry[o] # "none"
    BY <1>1, <1>4 DEF Dies, Exclusive, Alive
  <2> QED BY <2>1 DEF KeysAreLocked
<1>5. CASE SameLives
  <2>1. ASSUME entry'[r] = entry[r] PROVE Exclusive(r)
    BY <1>2, <1>5, <2>1 DEF Exclusive, SameLives
  <2>2. CASE UNCHANGED entry
    BY <2>1, <2>2 DEF KeysAreLocked
  <2>3. ASSUME NEW q \in Requests, Closes(q) PROVE o = r
    <3>1. r # q /\ o # q /\ entry'[r] = entry[r] /\ entry'[o] = entry[o]
      BY <1>1, <1>2, <2>3 DEF Closes
    <3> QED BY <2>1, <3>1 DEF KeysAreLocked
  <2>4. ASSUME NEW q \in Requests, entry[q] = "none", OpensBeside(q) PROVE o = r
    <3>1. /\ \A x \in Requests : x # q => entry'[x] = entry[x]
          /\ entry'[q] \in {"reader", "stale_while_revalidate"}
      BY <1>1, <2>4 DEF OpensBeside
    <3>2. r # q /\ entry'[r] = entry[r]
      BY <3>1 DEF Exclusive
    <3>3. Exclusive(r)
      BY <2>1, <3>2
    <3>4. CASE o = q
      BY <1>2, <2>4, <3>2, <3>3, <3>4 DEF OpensBeside, OpenEntries
    <3>5. CASE o # q
      BY <3>1, <3>3, <3>5 DEF KeysAreLocked
    <3> QED BY <3>4, <3>5
  <2>5. ASSUME NEW q \in Requests, OpensAlone(q) \/ Replaces(q) PROVE o = r
    <3>1. /\ \A x \in Requests : x # q => entry'[x] = entry[x]
          /\ OpenEntries(Key[q]) \subseteq {q}
      BY <1>1, <2>5 DEF OpensAlone, Replaces, IsLastOpenEntry
    <3>2. \A x \in Requests : x # q /\ Key[x] = Key[q] => entry'[x] = "none"
      BY <3>1 DEF OpenEntries
    <3>3. CASE r = q \/ o = q
      BY <1>2, <3>2, <3>3
    <3>4. CASE r # q /\ o # q
      BY <2>1, <3>1, <3>4 DEF KeysAreLocked
    <3> QED BY <3>3, <3>4
  <2> QED BY <1>3, <1>4, <2>2, <2>3, <2>4, <2>5, LocksChange
<1> QED BY <1>3, <1>4, <1>5, LocksChange

(* A row for a file that is being written would have to be created by a    *)
(* writer of the same key.                                                 *)
LEMMA NoRowAppears ==
    ASSUME IInv, KeysAreLocked, NoRowWhileWriting, [Next]_vars
    PROVE  NoRowWhileWriting'
<1> SUFFICES ASSUME NEW w \in Requests, entry'[w] = "writer", Alive(w)'
             PROVE  index'[Key[w]] = "absent"
  BY DEF NoRowWhileWriting
<1>1. entry \in [Requests -> Entries] /\ state \in [Requests -> States] /\ Key[w] \in Keys
  BY FieldTypes DEF IInv, LocalInv
<1>2. ASSUME entry[w] = "writer", Alive(w) PROVE index'[Key[w]] = "absent"
  <2>1. index[Key[w]] = "absent"
    BY <1>2 DEF NoRowWhileWriting
  <2>2. ASSUME NEW q \in Requests, destroy(q), q \in writerRef, Key[q] = Key[w] PROVE FALSE
    <3>1. RequestOK(q)
      BY DEF IInv, LocalInv
    <3>2. entry[q] = "writer"
      BY <2>2, <3>1 DEF RequestOK, EntryOK, TransferOK
    <3>3. q = w
      BY <1>2, <2>2, <3>2 DEF KeysAreLocked, Exclusive
    <3> QED BY <1>1, <2>2, <3>3 DEF destroy, Alive
  <2>3. RowKept(Key[w])
    BY <1>1, StoreChanges DEF Kept
  <2> QED BY <2>1, <2>2, <2>3 DEF RowKept
<1>3. CASE entry' = [x \in Requests |-> "none"]
  BY <1>3
<1>4. ASSUME NEW q \in Requests, Dies(q) PROVE index'[Key[w]] = "absent"
  BY <1>1, <1>2, <1>4 DEF Dies, Alive
<1>5. CASE SameLives
  <2>1. ASSUME entry[w] = "writer" PROVE index'[Key[w]] = "absent"
    BY <1>2, <1>5, <2>1 DEF SameLives
  <2>2. CASE UNCHANGED entry
    BY <2>1, <2>2
  <2>3. ASSUME NEW q \in Requests, Closes(q) \/ OpensBeside(q) PROVE entry[w] = "writer"
    BY <1>1, <2>3 DEF Closes, OpensBeside
  <2>4. ASSUME NEW q \in Requests, OpensAlone(q) \/ Replaces(q)
        PROVE  entry[w] = "writer" \/ index'[Key[w]] = "absent"
    BY <1>1, <2>4 DEF OpensAlone, Replaces
  <2> QED BY <1>3, <1>4, <2>1, <2>2, <2>3, <2>4, LocksChange
<1> QED BY <1>3, <1>4, <1>5, LocksChange

(* Writers and revalidations hold such entries.                            *)
LEMMA LocksKept ==
    ASSUME IInv
    PROVE  /\ KeysAreLocked => RevalidationIsExclusive
           /\ KeysAreLocked => WriterIsExclusive
<1>1. ASSUME KeysAreLocked PROVE RevalidationIsExclusive
  BY <1>1 DEF KeysAreLocked, Exclusive, RevalidationIsExclusive, IsLastOpenEntry, OpenEntries
<1>2. ASSUME KeysAreLocked PROVE WriterIsExclusive
  BY <1>2 DEF KeysAreLocked, Exclusive, WriterIsExclusive
<1> QED BY <1>1, <1>2

(* The invariant of the keys.                                              *)
KeysInv == IInv /\ KeysAreLocked /\ NoRowWhileWriting

(* The invariant of the keys.                                              *)
LEMMA KeysInvHolds == Spec => []KeysInv
<1>1. Init => KeysInv
  <2> SUFFICES ASSUME Init PROVE KeysInv
    OBVIOUS
  <2>1. \A r \in Requests : entry[r] = "none"
    BY DEF Init, CacheInit
  <2> QED BY <2>1, InitKeeps DEF KeysInv, KeysAreLocked, Exclusive, NoRowWhileWriting
<1>2. KeysInv /\ [Next]_vars => KeysInv'
  BY NextKeeps, KeysStayLocked, NoRowAppears DEF KeysInv
<1> QED BY <1>1, <1>2, PTL DEF Spec

(* A request that revalidates has the only open entry of its key, and the  *)
(* index has no row for a file that is being written: on_data_received can *)
(* replace the stored response in one go.                                  *)
THEOREM RevalidationsOwnTheirKeys == Spec => []RevalidationOwnsTheKey
<1>1. KeysInv => RevalidationOwnsTheKey
  BY LocksKept DEF KeysInv, RevalidationOwnsTheKey
<1> QED BY <1>1, KeysInvHolds, PTL

(* A file that readers have open is not rewritten under them.              *)
THEOREM FilesOfReadersAreKept == Spec => ReadersKeepTheirFile
<1> DEFINE Keeps == \A k \in Keys : \A r \in Requests :
                        Key[r] = k /\ entry[r] \in Readers /\ entry'[r] = entry[r]
                            => file'[k] \in {file[k], "absent"}
<1>1. ASSUME KeysInv, [Next]_vars PROVE Keeps
  <2> SUFFICES ASSUME NEW r \in Requests, entry[r] \in Readers, entry'[r] = entry[r],
                      file'[Key[r]] \notin {file[Key[r]], "absent"}
               PROVE  FALSE
    OBVIOUS
  <2>1. entry \in [Requests -> Entries] /\ Key[r] \in Keys /\ IInv /\ KeysAreLocked
    BY <1>1, FieldTypes DEF KeysInv, IInv, LocalInv
  <2>2. FileKept(Key[r])
    BY <1>1, <2>1, StoreChanges DEF Kept
  <2>3. entry[r] # "none" /\ entry[r] # "writer"
    BY DEF Readers
  <2>4. entry' # [x \in Requests |-> "none"]
    BY <2>3
  <2>5. PICK q \in Requests : Key[q] = Key[r] /\ (OpensWriter(q) \/ entry[q] = "writer")
    BY <2>2, <2>4 DEF FileKept
  <2>6. CASE OpensWriter(q)
    <3>1. r = q
      BY <2>3, <2>5, <2>6 DEF OpensWriter, OpenEntries
    <3> QED BY <2>1, <2>3, <2>6, <3>1 DEF OpensWriter
  <2>7. CASE entry[q] = "writer"
    BY <2>1, <2>3, <2>5, <2>7 DEF KeysAreLocked, Exclusive
  <2> QED BY <2>5, <2>6, <2>7
<1>2. KeysInv /\ [Next]_vars => [Keeps]_vars
  BY <1>1
<1> QED BY <1>2, KeysInvHolds, PTL DEF Spec, ReadersKeepTheirFile

(* How r holds its key.                                                    *)
ModeOf(r) ==
    IF entry[r] = "none" THEN "none" ELSE IF Exclusive(r) THEN "exclusive" ELSE "shared"

(* The modes of the abstract lock, request by request.                     *)
LEMMA Modes == IInv => LockMode = [r \in Requests |-> ModeOf(r)]
<1> SUFFICES ASSUME IInv, NEW r \in Requests
             PROVE  LockMode[r] = ModeOf(r)
  BY DEF LockMode
<1>1. entry[r] # "none" => (Exclusive(r) <=> entry[r] = "writer" \/ r \in Locking)
  BY ExclusiveEntries
<1> QED BY <1>1 DEF LockMode, ModeOf

(* One request changes how it holds its key.                               *)
LEMMA ModeChanges ==
    ASSUME IInv, IInv', NEW q \in Requests, NEW v, ModeOf(q)' = v,
           \A x \in Requests : x # q => ModeOf(x)' = ModeOf(x)
    PROVE  LockMode' = [LockMode EXCEPT ![q] = v]
<1>1. LockMode = [r \in Requests |-> ModeOf(r)]
  BY Modes
<1>2. LockMode' = [r \in Requests |-> ModeOf(r)']
  <2>1. (IInv => LockMode = [r \in Requests |-> ModeOf(r)])'
    BY Modes, PTL
  <2> QED BY <2>1
<1> HIDE DEF ModeOf
<1> QED BY <1>1, <1>2

(* A step of RequestServer is a step of the lock, or none.                 *)
LEMMA LockStep ==
    ASSUME KeysInv, KeysInv', [Next]_vars
    PROVE  [Lock!Next]_LockMode
<1>1. /\ IInv /\ IInv' /\ KeysAreLocked
      /\ entry \in [Requests -> Entries] /\ state \in [Requests -> States]
  <2>1. IInv /\ IInv' /\ KeysAreLocked /\ TypeOK
    BY DEF KeysInv, IInv, LocalInv
  <2> QED BY <2>1 DEF TypeOK, CacheTypeOK, RequestTypeOK
<1>2. LockMode = [r \in Requests |-> ModeOf(r)]
  BY <1>1, Modes
<1>3. LockMode' = [r \in Requests |-> ModeOf(r)']
  <2>1. (IInv => LockMode = [r \in Requests |-> ModeOf(r)])'
    BY Modes, PTL
  <2> QED BY <1>1, <2>1
<1>4. CASE entry' = [r \in Requests |-> "none"]
  <2>1. \A r \in Requests : ModeOf(r)' = "none"
    BY <1>4 DEF ModeOf
  <2>2. LockMode' = [r \in Requests |-> "none"]
    BY <1>3, <2>1
  <2> QED BY <2>2 DEF Lock!Next, Lock!ReleaseAll
<1>5. ASSUME NEW r \in Requests, Dies(r) PROVE [Lock!Next]_LockMode
  <2>1. \A x \in Requests : x # r => ModeOf(x)' = ModeOf(x)
    BY <1>1, <1>5 DEF Dies, ModeOf, Exclusive, Alive
  <2>2. ModeOf(r)' = ModeOf(r) \/ (ModeOf(r) = "exclusive" /\ ModeOf(r)' = "shared")
    BY <1>1, <1>5 DEF Dies, ModeOf, Exclusive, Alive
  <2>3. CASE ModeOf(r)' = ModeOf(r)
    <3>1. \A x \in Requests : ModeOf(x)' = ModeOf(x)
      BY <2>1, <2>3
    <3> QED BY <1>2, <1>3, <3>1
  <2>4. CASE ModeOf(r) = "exclusive" /\ ModeOf(r)' = "shared"
    <3>1. LockMode' = [LockMode EXCEPT ![r] = "shared"]
      BY <1>1, <2>1, <2>4, ModeChanges
    <3>2. LockMode[r] = "exclusive"
      BY <1>2, <2>4
    <3> QED BY <3>1, <3>2 DEF Lock!Next, Lock!Downgrade
  <2> QED BY <2>2, <2>3, <2>4
<1>6. CASE SameLives
  <2>1. ASSUME NEW x \in Requests, entry'[x] = entry[x] PROVE ModeOf(x)' = ModeOf(x)
    BY <1>6, <2>1 DEF SameLives, ModeOf, Exclusive
  <2>2. CASE UNCHANGED entry
    <3>1. \A x \in Requests : ModeOf(x)' = ModeOf(x)
      BY <2>1, <2>2
    <3> QED BY <1>2, <1>3, <3>1
  <2>3. ASSUME NEW r \in Requests, Closes(r) PROVE [Lock!Next]_LockMode
    <3>1. ModeOf(r)' = "none" /\ \A x \in Requests : x # r => entry'[x] = entry[x]
      BY <1>1, <2>3 DEF Closes, ModeOf
    <3>2. LockMode' = [LockMode EXCEPT ![r] = "none"]
      BY <1>1, <2>1, <3>1, ModeChanges
    <3> QED BY <3>2 DEF Lock!Next, Lock!Release
  <2>4. ASSUME NEW r \in Requests, OpensBeside(r) PROVE [Lock!Next]_LockMode
    <3>1. ModeOf(r)' = "shared" /\ \A x \in Requests : x # r => entry'[x] = entry[x]
      BY <1>1, <2>4 DEF OpensBeside, ModeOf, Exclusive
    <3>2. LockMode' = [LockMode EXCEPT ![r] = "shared"]
      BY <1>1, <2>1, <3>1, ModeChanges
    <3>3. ASSUME NEW o \in Lock!Holders(r) PROVE LockMode[o] = "shared"
      <4>1. o \in Requests /\ Key[o] = Key[r] /\ ModeOf(o) # "none"
        BY <1>2, <3>3 DEF Lock!Holders
      <4>2. entry[o] # "none" /\ ~Exclusive(o)
        BY <2>4, <4>1 DEF OpensBeside, OpenEntries, ModeOf
      <4> QED BY <1>2, <4>1, <4>2 DEF ModeOf
    <3> QED BY <3>2, <3>3 DEF Lock!Next, Lock!AcquireShared
  <2>5. ASSUME NEW r \in Requests, Alive(r)', OpensAlone(r) PROVE [Lock!Next]_LockMode
    <3>1. ModeOf(r)' = "exclusive" /\ \A x \in Requests : x # r => entry'[x] = entry[x]
      BY <1>1, <2>5 DEF OpensAlone, ModeOf, Exclusive
    <3>2. LockMode' = [LockMode EXCEPT ![r] = "exclusive"]
      BY <1>1, <2>1, <3>1, ModeChanges
    <3>3. Lock!Holders(r) = {}
      <4>1. \A o \in Requests : Key[o] = Key[r] => ModeOf(o) = "none"
        BY <2>5 DEF OpensAlone, OpenEntries, ModeOf
      <4> QED BY <1>2, <4>1 DEF Lock!Holders
    <3> QED BY <3>2, <3>3 DEF Lock!Next, Lock!AcquireExclusive
  <2>6. ASSUME NEW r \in Requests, Replaces(r) PROVE [Lock!Next]_LockMode
    <3>1. /\ \A x \in Requests : x # r => entry'[x] = entry[x]
          /\ ModeOf(r)' = "exclusive" /\ ModeOf(r) = "exclusive"
      BY <1>1, <2>6 DEF Replaces, ModeOf, Exclusive
    <3>2. \A x \in Requests : ModeOf(x)' = ModeOf(x)
      BY <2>1, <3>1
    <3> QED BY <1>2, <1>3, <3>2
  <2> QED BY <1>1, <1>4, <1>5, <2>2, <2>3, <2>4, <2>5, <2>6, LocksChange
<1> QED BY <1>1, <1>4, <1>5, <1>6, LocksChange

(* The cache implements the readers-writer lock of CacheLock on its keys,  *)
(* through every way a request can take, die or crash.                     *)
THEOREM CacheImplementsLock == Spec => ImplementsLock
<1>1. Init => Lock!Init
  BY DEF Init, CacheInit, Lock!Init, LockMode
<1>2. KeysInv /\ KeysInv' /\ [Next]_vars => [Lock!Next]_LockMode
  BY LockStep
<1> QED BY <1>1, <1>2, KeysInvHolds, PTL DEF Spec, ImplementsLock, Lock!Spec

(* That lock is one: whoever holds a key exclusively is its only holder.   *)
LEMMA LockExcludes == Lock!Spec => []Lock!Exclusion
<1> DEFINE Good == Lock!Exclusion
<1>1. LockMode = [r \in Requests |-> LockMode[r]]
  BY DEF LockMode
<1>2. Lock!Init => Good
  BY DEF Lock!Init, Lock!Exclusion
<1>3. ASSUME Good, [Lock!Next]_LockMode PROVE Good'
  <2> SUFFICES ASSUME NEW r \in Requests, LockMode'[r] = "exclusive",
                      NEW o \in Requests, Key[o] = Key[r], LockMode'[o] # "none"
               PROVE  o = r
    BY DEF Lock!Exclusion, Lock!Holders
  <2>1. \A x, y \in Requests :
            LockMode[x] = "exclusive" /\ Key[y] = Key[x] /\ LockMode[y] # "none" => y = x
    BY <1>3 DEF Lock!Exclusion, Lock!Holders
  <2>2. CASE UNCHANGED LockMode
    BY <2>1, <2>2
  <2>3. ASSUME NEW q \in Requests, Lock!AcquireShared(q) PROVE o = r
    BY <1>1, <2>1, <2>3 DEF Lock!AcquireShared, Lock!Holders
  <2>4. ASSUME NEW q \in Requests, Lock!AcquireExclusive(q) PROVE o = r
    BY <1>1, <2>1, <2>4 DEF Lock!AcquireExclusive, Lock!Holders
  <2>5. ASSUME NEW q \in Requests, Lock!Downgrade(q) \/ Lock!Release(q) PROVE o = r
    BY <1>1, <2>1, <2>5 DEF Lock!Downgrade, Lock!Release
  <2>6. CASE Lock!ReleaseAll
    BY <2>6 DEF Lock!ReleaseAll
  <2> QED BY <1>3, <2>2, <2>3, <2>4, <2>5, <2>6 DEF Lock!Next
<1> QED BY <1>2, <1>3, PTL DEF Lock!Spec

(* So in the cache, too, a key that is written or revalidated is held by   *)
(* one request.                                                            *)
THEOREM KeysAreHeldByOne == Spec => []Lock!Exclusion
BY CacheImplementsLock, LockExcludes, PTL DEF ImplementsLock

-----------------------------------------------------------------------------
(* What the clients are told.                                              *)

(* ClientProtocol of the messages s about one request.                     *)
InProtocol(s) ==
    \A i \in 1 .. Len(s) :
        LET before == {s[j] : j \in 1 .. (i - 1)}
        IN  before \cap {"finished", "failed"} = {} =>
                /\ s[i] = "started" => before = {}
                /\ s[i] = "headers" => before = {"started"}
                /\ s[i] = "finished" => before = {"started", "headers"}

(* m may follow the messages s.                                            *)
MayFollow(s, m) ==
    \/ m = "failed"
    \/ m = "started" /\ s = <<>>
    \/ m = "headers" /\ s # <<>> /\ ~IsIn("headers", s)
    \/ m = "finished" /\ IsIn("headers", s)

(* Messages in protocol stay so when one is added that may follow them.    *)
LEMMA OneMore ==
    ASSUME NEW s \in Seq(Messages), NEW m \in Messages, InProtocol(s), MayFollow(s, m)
    PROVE  InProtocol(Append(s, m))
<1> DEFINE t == Append(s, m)
           Before(q, i) == {q[j] : j \in 1 .. (i - 1)}
           Ended(q, i) == Before(q, i) \cap {"finished", "failed"} # {}
           Good(q, i) == /\ q[i] = "started" => Before(q, i) = {}
                         /\ q[i] = "headers" => Before(q, i) = {"started"}
                         /\ q[i] = "finished" => Before(q, i) = {"started", "headers"}
           n == Len(s) + 1
<1>1. /\ Len(s) \in Nat /\ Len(t) = n /\ t[n] = m
      /\ \A i \in 1 .. Len(s) : t[i] = s[i] /\ s[i] \in Messages
  BY AppendProperties, LenProperties, ElementOfSeq
<1>2. \A i \in 1 .. Len(s) : Ended(s, i) \/ Good(s, i)
  BY DEF InProtocol
<1>3. ASSUME NEW i \in 1 .. n PROVE Before(t, i) = Before(s, i)
  <2>1. \A j \in 1 .. (i - 1) : t[j] = s[j]
    BY <1>1
  <2> QED BY <2>1
<1>4. ASSUME NEW i \in 1 .. Len(s) PROVE Ended(t, i) \/ Good(t, i)
  <2>1. i \in 1 .. n /\ t[i] = s[i]
    BY <1>1
  <2>2. Before(t, i) = Before(s, i)
    BY <1>3, <2>1
  <2> HIDE DEF Before, t
  <2> QED BY <1>2, <2>1, <2>2
<1>5. Before(t, n) = {s[j] : j \in 1 .. Len(s)}
  BY <1>1, <1>3
<1>6. Ended(t, n) \/ Good(t, n)
  <2> SUFFICES ASSUME ~Ended(t, n), m # "failed" PROVE Good(t, n)
    BY <1>1 DEF Messages
  <2>1. \A j \in 1 .. Len(s) : s[j] \in {"started", "headers"}
    <3>1. \A j \in 1 .. Len(s) : s[j] \notin {"finished", "failed"}
      BY <1>5
    <3> QED BY <1>1, <3>1 DEF Messages
  <2>2. CASE m = "started" /\ s = <<>>
    <3>1. Len(s) = 0
      BY <2>2
    <3>2. Before(t, n) = {}
      BY <1>5, <3>1
    <3> HIDE DEF Before, t, n
    <3> QED BY <1>1, <2>2, <3>2
  <2>3. CASE m = "headers" /\ s # <<>> /\ ~IsIn("headers", s)
    <3>1. 1 \in 1 .. Len(s) /\ \A j \in 1 .. Len(s) : s[j] = "started"
      BY <1>1, <2>1, <2>3, EmptySeq DEF IsIn
    <3>2. Before(t, n) = {"started"}
      BY <1>5, <3>1
    <3> HIDE DEF Before, t, n
    <3> QED BY <1>1, <2>3, <3>2
  <2>4. CASE m = "finished" /\ IsIn("headers", s)
    <3>1. PICK h \in 1 .. Len(s) : s[h] = "headers"
      BY <2>4 DEF IsIn
    <3>2. ~Ended(s, h)
      BY <1>1, <2>1
    <3>3. Before(s, h) = {"started"}
      BY <1>2, <3>1, <3>2
    <3>4. PICK j \in 1 .. (h - 1) : s[j] = "started"
      BY <3>3
    <3>5. j \in 1 .. Len(s)
      BY <1>1
    <3>6. Before(t, n) = {"started", "headers"}
      BY <1>5, <2>1, <3>1, <3>4, <3>5
    <3> HIDE DEF Before, t, n
    <3> QED BY <1>1, <2>4, <3>6
  <2> QED BY <2>2, <2>3, <2>4 DEF MayFollow
<1>7. ASSUME NEW i \in 1 .. n PROVE Ended(t, i) \/ Good(t, i)
  <2>1. i \in 1 .. Len(s) \/ i = n
    BY <1>1
  <2> QED BY <1>4, <1>6, <2>1
<1> QED BY <1>1, <1>7 DEF InProtocol

(* What the client knows of r.                                             *)
Told(m, r) == IsIn(m, log[r])

(* The states in which nothing has been said of r: until it fetches, or    *)
(* for as long as it only asks whether the stored response is good.        *)
Unheard(r) ==
    \/ state[r] \in Young \cup {"DNSLookup"}
    \/ state[r] = "Fetch" /\ (r \in readerRef \/ curl[r] = "none")
    \/ state[r] = "ReadCache" /\ IsIn(Call("process", r), calls)

(* Those in which something has.                                           *)
Heard(r) ==
    /\ Alive(r)
    /\ \/ state[r] = "Complete"
       \/ state[r] = "Error" /\ ~IsIn(Call("process", r), calls)
       \/ r \in piping
       \/ curl[r] # "none" /\ r \notin readerRef /\ state[r] # "Error"
       \/ IsIn(Call("transfer_headers", r), calls)
       \/ IsIn(Call("pipe", r), calls)

(* How the log of r follows what r does.  A request is finished after its  *)
(* headers were sent, in the same turn if not earlier.                     *)
LogOK(r) ==
    /\ Unheard(r) => log[r] = <<>>
    /\ Heard(r) => log[r] # <<>>
    /\ state[r] # "Destroyed" => (Told("headers", r) <=> r \in headersSent)
    /\ IsIn(Call("finish", r), calls) => r \in headersSent \/ Calling("transfer_headers", r)

(* Only fetches have a log to keep, and only they are finished so.         *)
ClientOK(r) ==
    /\ r \in Fetches => LogOK(r)
    /\ state[r] = "Fetch" => r \notin Connects
    /\ IsIn(Call("finish", r), calls) => r \in Fetches

(* The invariant behind ClientProtocol.                                    *)
ClientsOK == \A r \in Requests : ClientOK(r) /\ InProtocol(log[r])

(* Steps that do not touch what the client knows of x.                     *)
SameClient(x) ==
    /\ state'[x] = state[x] /\ curl'[x] = curl[x] /\ log'[x] = log[x]
    /\ x \in readerRef' <=> x \in readerRef
    /\ x \in piping' <=> x \in piping
    /\ x \in headersSent' <=> x \in headersSent

SameCalls(x) ==
    /\ \A op \in {"process", "transfer_headers", "pipe", "finish"} :
           IsIn(Call(op, x), calls') <=> IsIn(Call(op, x), calls)
    /\ ~Calling("transfer_headers", x)

(* Then what is said of x still holds.                                     *)
LEMMA ClientUnaffected ==
    ASSUME NEW x \in Requests, ClientOK(x), SameClient(x), SameCalls(x)
    PROVE  ClientOK(x)'
<1>1. Unheard(x)' <=> Unheard(x)
  BY DEF SameClient, SameCalls, Unheard
<1>2. Heard(x)' <=> Heard(x)
  BY DEF SameClient, SameCalls, Heard, Alive
<1>3. Told("headers", x)' <=> Told("headers", x)
  BY DEF SameClient, Told, IsIn
<1>4. LogOK(x) => LogOK(x)'
  BY <1>1, <1>2, <1>3 DEF LogOK, SameClient, SameCalls
<1> QED BY <1>4 DEF ClientOK, SameClient, SameCalls

(* The calls `inner' are the operations `made' on r.                       *)
Inner(r, inner, made) ==
    /\ inner \in Seq(Calls)
    /\ \A c : IsIn(c, inner) <=> \E o \in made : c = Call(o, r)

(* No call, one call and two calls on r.                                   *)
LEMMA Inners ==
    ASSUME NEW r \in Requests, NEW a \in Ops, NEW b \in Ops
    PROVE  /\ Inner(r, <<>>, {})
           /\ Inner(r, <<Call(a, r)>>, {a})
           /\ Inner(r, <<Call(a, r), Call(b, r)>>, {a, b})
<1>1. Call(a, r) \in Calls /\ Call(b, r) \in Calls
  BY CallType
<1>2. <<>> \in Seq(Calls) /\ <<Call(a, r)>> \in Seq(Calls) /\ <<Call(a, r), Call(b, r)>> \in Seq(Calls)
  BY <1>1
<1>3. /\ \A c : ~IsIn(c, <<>>)
      /\ \A c : IsIn(c, <<Call(a, r)>>) <=> c = Call(a, r)
      /\ \A c : IsIn(c, <<Call(a, r), Call(b, r)>>) <=> c = Call(a, r) \/ c = Call(b, r)
  BY ShortTurns
<1> QED BY <1>2, <1>3 DEF Inner

(* The calls that are left when a call of op on r has returned.            *)
LEMMA AfterCall ==
    ASSUME IInv, NEW r \in Requests, NEW op \in Ops, Calling(op, r),
           NEW inner, NEW made, Inner(r, inner, made), Then(inner)
    PROVE  /\ \A o \in made : IsIn(Call(o, r), calls')
           /\ \A o : IsIn(Call(o, r), calls') => o \in made \/ IsIn(Call(o, r), calls)
           /\ op \in Drivers => \A o \in Drivers : IsIn(Call(o, r), calls') => o \in made
           /\ \A o : o # op /\ IsIn(Call(o, r), calls) => IsIn(Call(o, r), calls')
           /\ op \in Ends => \A o : IsIn(Call(o, r), calls') => o \in made \cup Ends \cup {"close"}
           /\ \A x \in Requests : x # r => SameCalls(x)
<1>1. calls # <<>> /\ calls \in Seq(Calls) /\ Head(calls) = Call(op, r) /\ Tail(calls) \in Seq(Calls)
  BY Called DEF Calling
<1>2. /\ \A c : IsIn(c, calls) <=> c = Call(op, r) \/ IsIn(c, Tail(calls))
      /\ \A c : IsIn(c, Tail(calls)) => Compatible(Call(op, r), c)
  BY <1>1, LeftOfTurn, FirstCall
<1>3. \A c : IsIn(c, calls') <=> (\E o \in made : c = Call(o, r)) \/ IsIn(c, Tail(calls))
  BY <1>1, JoinedTurns DEF Inner, Then
<1>4. \A o, y, p, z : /\ Call(o, y) = Call(p, z) <=> o = p /\ y = z
                      /\ Call(o, y).op = o /\ Call(o, y).on = y
  BY CallFields
<1>5. \A o \in made : IsIn(Call(o, r), calls')
  BY <1>3
<1>6. \A o : IsIn(Call(o, r), calls') => o \in made \/ IsIn(Call(o, r), calls)
  BY <1>2, <1>3, <1>4
<1>7. ASSUME op \in Drivers, NEW o \in Drivers, IsIn(Call(o, r), calls') PROVE o \in made
  <2>1. ~Compatible(Call(op, r), Call(o, r))
    BY <1>4, <1>7 DEF Compatible, Rivals
  <2> QED BY <1>2, <1>3, <1>4, <1>7, <2>1
<1>8. \A o : o # op /\ IsIn(Call(o, r), calls) => IsIn(Call(o, r), calls')
  BY <1>2, <1>3, <1>4
<1>9. ASSUME op \in Ends, NEW o, IsIn(Call(o, r), calls') PROVE o \in made \cup Ends \cup {"close"}
  <2>1. Compatible(Call(op, r), Call(o, r)) => o \in Ends \cup {"close"}
    BY <1>4, <1>9 DEF Compatible
  <2> QED BY <1>2, <1>3, <1>4, <1>9, <2>1
<1>10. ASSUME NEW x \in Requests, x # r PROVE SameCalls(x)
  BY <1>1, <1>2, <1>3, <1>4, <1>10 DEF SameCalls, Calling
<1> QED BY <1>5, <1>6, <1>7, <1>8, <1>9, <1>10

(* Nothing is said of r, or m is.                                          *)
LEMMA Saying ==
    ASSUME TypeOK, NEW r \in Requests, NEW m \in Messages, Tell(r, m)
    PROVE  /\ log'[r] # <<>>
           /\ m = "headers" \/ Told("headers", r) <=> Told("headers", r)'
           /\ \A x \in Requests : x # r => log'[x] = log[x]
           /\ InProtocol(log[r]) /\ MayFollow(log[r], m) => InProtocol(log'[r])
<1>1. log \in [Requests -> Seq(Messages)]
  BY DEF TypeOK, RequestTypeOK
<1>2. log'[r] = Append(log[r], m) /\ \A x \in Requests : x # r => log'[x] = log[x]
  BY <1>1 DEF Tell
<1>3. PICK s \in Seq(Messages) : s = log[r]
  BY <1>1
<1>4. /\ Append(s, m) # <<>>
      /\ m = "headers" \/ IsIn("headers", s) <=> IsIn("headers", Append(s, m))
  <2>1. /\ Len(s) \in Nat /\ Len(Append(s, m)) = Len(s) + 1 /\ Append(s, m)[Len(s) + 1] = m
        /\ \A i \in 1 .. Len(s) : Append(s, m)[i] = s[i]
    BY AppendProperties, LenProperties
  <2>2. Len(s) + 1 \in 1 .. Len(s) + 1
    BY <2>1
  <2>3. \A i \in 1 .. Len(s) + 1 : i = Len(s) + 1 \/ i \in 1 .. Len(s)
    BY <2>1
  <2>4. Append(s, m) # <<>>
    BY <2>1
  <2>5. ASSUME m = "headers" \/ IsIn("headers", s) PROVE IsIn("headers", Append(s, m))
    BY <2>1, <2>2, <2>5 DEF IsIn
  <2>6. ASSUME IsIn("headers", Append(s, m)) PROVE m = "headers" \/ IsIn("headers", s)
    BY <2>1, <2>3, <2>6 DEF IsIn
  <2> QED BY <2>4, <2>5, <2>6
<1>5. InProtocol(s) /\ MayFollow(s, m) => InProtocol(Append(s, m))
  BY OneMore
<1>6. Told("headers", r) <=> IsIn("headers", s)
  BY <1>3 DEF Told
<1>7. Told("headers", r)' <=> IsIn("headers", Append(s, m))
  BY <1>2, <1>3 DEF Told
<1> QED BY <1>2, <1>3, <1>4, <1>5, <1>6, <1>7

(* What is said of r keeps to the protocol, or nothing is said.            *)
Says(r) ==
    \/ log' = log
    \/ \E m \in Messages : Tell(r, m) /\ MayFollow(log[r], m)

(* Then all logs are still in protocol.                                    *)
LEMMA Protocol ==
    ASSUME TypeOK, ClientsOK, NEW r \in Requests, Says(r)
    PROVE  \A x \in Requests : InProtocol(log'[x])
<1>1. \A x \in Requests : InProtocol(log[x])
  BY DEF ClientsOK
<1>2. ASSUME NEW m \in Messages, Tell(r, m), MayFollow(log[r], m)
      PROVE  \A x \in Requests : InProtocol(log'[x])
  BY <1>1, <1>2, Saying
<1> QED BY <1>1, <1>2 DEF Says

(* A call on r keeps the invariant of the clients, if it keeps that of r.  *)
LEMMA ClientCall ==
    ASSUME IInv, ClientsOK, NEW r \in Requests, NEW op \in Ops, Calling(op, r),
           NEW inner, NEW made, Inner(r, inner, made), Then(inner),
           \A x \in Requests : x # r => SameClient(x),
           Says(r), ClientOK(r)'
    PROVE  ClientsOK'
<1>1. \A x \in Requests : x # r => SameCalls(x)
  BY AfterCall
<1>2. ASSUME NEW x \in Requests PROVE ClientOK(x)'
  BY <1>1, ClientUnaffected DEF ClientsOK
<1>3. \A x \in Requests : InProtocol(log'[x])
  BY Protocol DEF IInv, LocalInv
<1> QED BY <1>2, <1>3 DEF ClientsOK

(* The calls on r after one that drives it.                                *)
LEMMA DriverCall ==
    ASSUME IInv, NEW r \in Requests, NEW op \in Drivers, Calling(op, r),
           NEW inner, NEW made, Inner(r, inner, made), Then(inner)
    PROVE  /\ IsIn(Call("process", r), calls') <=> "process" \in made
           /\ IsIn(Call("pipe", r), calls') <=> "pipe" \in made
           /\ IsIn(Call("finish", r), calls') <=> "finish" \in made
           /\ IsIn(Call("transfer_headers", r), calls') =>
                  "transfer_headers" \in made \/ IsIn(Call("transfer_headers", r), calls)
<1>1. op \in Ops /\ {"process", "pipe", "finish"} \subseteq Drivers
  BY DEF Drivers, Ops
<1>2. /\ \A o \in made : IsIn(Call(o, r), calls')
      /\ \A o : IsIn(Call(o, r), calls') => o \in made \/ IsIn(Call(o, r), calls)
      /\ \A o \in Drivers : IsIn(Call(o, r), calls') => o \in made
  BY <1>1, AfterCall
<1> QED BY <1>1, <1>2

(* What is known of a request whose state is handled.                      *)
LEMMA Handled ==
    ASSUME IInv, ClientsOK, NEW r \in Requests, NEW s, Processing(r, s)
    PROVE  /\ Calling("process", r) /\ "process" \in Drivers /\ "process" \in Ops
           /\ IsIn(Call("process", r), calls) /\ state[r] = s
           /\ RequestOK(r) /\ ClientOK(r) /\ Alive(r) /\ r \notin piping
           /\ s = "Fetch" => curl[r] = "none"
           /\ TypeOK /\ state \in [Requests -> States]
           /\ curl \in [Requests -> {"none", "running", "aborted", "done"}]
<1>1. Calling("process", r) /\ "process" \in Drivers /\ "process" \in Ops /\ state[r] = s
  BY DEF Processing, Drivers, Ops
<1>2. Fits("process", r) /\ RequestOK(r) /\ calls # <<>> /\ calls \in Seq(Calls)
  BY <1>1, Called
<1>3. IsIn(Call("process", r), calls)
  BY <1>1, <1>2, FirstCall DEF Calling
<1>4. Alive(r) /\ r \notin piping /\ (s = "Fetch" => curl[r] = "none")
  BY <1>1, <1>2 DEF Fits
<1>5. TypeOK /\ ClientOK(r)
  BY DEF IInv, LocalInv, ClientsOK
<1> QED BY <1>1, <1>2, <1>3, <1>4, <1>5, FieldTypes

(* Where nothing is said of r, its log stays what it is.                   *)
LEMMA Silence ==
    ASSUME NEW r \in Requests, log' = log
    PROVE  Says(r) /\ log'[r] = log[r] /\ (Told("headers", r)' <=> Told("headers", r))
BY DEF Says, Told, IsIn

(* A request in Fetch that refers to a reader revalidates.                 *)
LEMMA Revalidating ==
    ASSUME IInv, NEW r \in Requests, state[r] = "Fetch"
    PROVE  is_revalidation_request(r) <=> r \in readerRef
<1>1. RequestOK(r)
  BY DEF IInv, LocalInv
<1>2. ASSUME r \in readerRef PROVE r \in Fetches => entry[r] = "must_revalidate"
  <2>1. entry[r] \in {"must_revalidate", "background"}
        /\ (r \in Revalidations <=> entry[r] = "background")
    BY <1>1, <1>2 DEF RequestOK, EntryOK, Readers
  <2> QED BY <2>1, RequestAssumption
<1> QED BY <1>2 DEF is_revalidation_request

(* inform_client_request_started, where the client has heard nothing yet.  *)
LEMMA Informed ==
    ASSUME TypeOK, NEW r \in Requests, inform_client_request_started(r),
           r \in Fetches \/ r \in Revalidations, r \in Fetches => log[r] = <<>>
    PROVE  /\ Says(r) /\ (Told("headers", r)' <=> Told("headers", r))
           /\ \A x \in Requests : x # r => log'[x] = log[x]
           /\ r \in Fetches => log'[r] # <<>>
<1>1. r \in Fetches <=> r \notin Revalidations
  BY RequestAssumption
<1>2. CASE r \in Fetches
  <2>1. Tell(r, "started") /\ "started" \in Messages /\ MayFollow(log[r], "started")
    BY <1>1, <1>2 DEF inform_client_request_started, Messages, MayFollow
  <2>2. /\ log'[r] # <<>> /\ (Told("headers", r)' <=> Told("headers", r))
        /\ \A x \in Requests : x # r => log'[x] = log[x]
    BY <2>1, Saying
  <2> QED BY <2>1, <2>2 DEF Says
<1>3. CASE r \in Revalidations
  <2>1. log' = log /\ r \notin Fetches
    BY <1>1, <1>3 DEF inform_client_request_started
  <2> QED BY <2>1, Silence
<1> QED BY <1>2, <1>3

(* A call that drives r, and that sends no headers, keeps the invariant,   *)
(* if the log of r is then as the new state of r has it.                   *)
LEMMA DriverStep ==
    ASSUME IInv, ClientsOK, NEW r \in Requests, NEW op \in Drivers, Calling(op, r),
           NEW inner, NEW made, Inner(r, inner, made), Then(inner), "finish" \notin made,
           \A x \in Requests : x # r => SameClient(x),
           Says(r), Told("headers", r)' <=> Told("headers", r), headersSent' = headersSent,
           state[r] = "Destroyed" => state'[r] = "Destroyed",
           state'[r] = "Fetch" => r \notin Connects,
           r \in Fetches => /\ Unheard(r)' => log'[r] = <<>>
                            /\ Heard(r)' => log'[r] # <<>>
    PROVE  ClientsOK'
<1>1. ClientOK(r) /\ op \in Ops /\ ~IsIn(Call("finish", r), calls')
  BY DriverCall DEF ClientsOK, Drivers, Ops
<1>2. ClientOK(r)'
  BY <1>1 DEF ClientOK, LogOK
<1> QED BY <1>1, <1>2, ClientCall

(* handle_read_cache_state.                                                *)
LEMMA ReadCacheClient ==
    ASSUME IInv, ClientsOK, NEW r \in Requests, handle_read_cache_state(r)
    PROVE  ClientsOK'
<1>1. Processing(r, "ReadCache") /\ UNCHANGED <<curl, readerRef, piping, headersSent>>
  BY DEF handle_read_cache_state
<1>2. /\ Calling("process", r) /\ "process" \in Drivers
      /\ IsIn(Call("process", r), calls) /\ state[r] = "ReadCache"
      /\ RequestOK(r) /\ ClientOK(r) /\ Alive(r) /\ r \notin piping
      /\ TypeOK /\ state \in [Requests -> States]
  BY <1>1, Handled
<1>3. r \in Fetches \/ r \in Revalidations
  <2>1. r \in Cacheable
    BY <1>2 DEF RequestOK, EntryOK, Readers
  <2> QED BY <2>1, RequestAssumption
<1>4. r \in Fetches => r \notin Revalidations /\ log[r] = <<>>
  BY <1>2, RequestAssumption DEF ClientOK, LogOK, Unheard
<1>5. CASE /\ inform_client_request_started(r) /\ UNCHANGED state
           /\ Then(<<Call("transfer_headers", r), Call("pipe", r)>>)
  <2>1. Inner(r, <<Call("transfer_headers", r), Call("pipe", r)>>, {"transfer_headers", "pipe"})
    BY Inners DEF Ops
  <2>2. ~IsIn(Call("process", r), calls')
    BY <1>2, <1>5, <2>1, DriverCall
  <2>3. /\ Says(r) /\ (Told("headers", r)' <=> Told("headers", r))
        /\ \A x \in Requests : x # r => log'[x] = log[x]
        /\ r \in Fetches => log'[r] # <<>>
    BY <1>2, <1>3, <1>4, <1>5, Informed
  <2>4. ~Unheard(r)' /\ \A x \in Requests : x # r => SameClient(x)
    BY <1>1, <1>2, <1>5, <2>2, <2>3 DEF Unheard, Young, SameClient
  <2> QED BY <1>1, <1>2, <1>5, <2>1, <2>3, <2>4, DriverStep
<1>6. CASE Enter(r, "Error") /\ UNCHANGED log
  <2>1. Inner(r, <<Call("process", r)>>, {"process"})
    BY Inners DEF Ops
  <2>2. /\ IsIn(Call("process", r), calls') /\ ~IsIn(Call("pipe", r), calls')
        /\ IsIn(Call("transfer_headers", r), calls') => IsIn(Call("transfer_headers", r), calls)
    BY <1>2, <1>6, <2>1, DriverCall DEF Enter
  <2>3. Says(r) /\ log'[r] = log[r] /\ (Told("headers", r)' <=> Told("headers", r))
    BY <1>6, Silence
  <2>4. state'[r] = "Error" /\ \A x \in Requests : x # r => SameClient(x)
    BY <1>1, <1>2, <1>6 DEF Enter, SameClient
  <2>5. ~Unheard(r)' /\ (Heard(r)' => Heard(r))
    BY <1>1, <1>2, <2>2, <2>4 DEF Unheard, Heard, Young
  <2> QED BY <1>1, <1>2, <1>6, <2>1, <2>3, <2>4, <2>5, DriverStep DEF Enter, ClientOK, LogOK
<1> QED BY <1>5, <1>6 DEF handle_read_cache_state

(* r enters another state in silence, with the log that befits it.         *)
LEMMA SilentEnter ==
    ASSUME IInv, ClientsOK, NEW r \in Requests, NEW op \in Drivers, Calling(op, r), NEW s,
           Enter(r, s), state[r] # "Destroyed", s # "Fetch" \/ r \notin Connects,
           log' = log, UNCHANGED headersSent,
           \A x \in Requests : x # r => /\ curl'[x] = curl[x]
                                        /\ x \in piping' <=> x \in piping
                                        /\ x \in readerRef' <=> x \in readerRef,
           r \in Fetches =>
               /\ s \in Young \cup {"DNSLookup", "Fetch", "ReadCache"} => log[r] = <<>>
               /\ s \notin {"Unborn", "Destroyed", "Error"} =>
                      /\ curl'[r] # "none" /\ r \notin readerRef' => log[r] # <<>>
                      /\ s = "Complete" => log[r] # <<>>
               /\ r \in piping' => log[r] # <<>>
               /\ IsIn(Call("transfer_headers", r), calls) => log[r] # <<>>
    PROVE  ClientsOK'
<1>1. Inner(r, <<Call("process", r)>>, {"process"}) /\ Then(<<Call("process", r)>>)
  BY Inners DEF Ops, Enter
<1>2. /\ IsIn(Call("process", r), calls') /\ ~IsIn(Call("pipe", r), calls')
      /\ IsIn(Call("transfer_headers", r), calls') => IsIn(Call("transfer_headers", r), calls)
  BY <1>1, DriverCall
<1>3. Says(r) /\ log'[r] = log[r] /\ (Told("headers", r)' <=> Told("headers", r))
  BY Silence
<1>4. state \in [Requests -> States]
  BY FieldTypes DEF IInv, LocalInv
<1>5. state'[r] = s /\ \A x \in Requests : x # r => SameClient(x)
  BY <1>4 DEF Enter, SameClient
<1>6. r \in Fetches => /\ Unheard(r)' => log'[r] = <<>>
                       /\ Heard(r)' => log'[r] # <<>>
  BY <1>2, <1>3, <1>5 DEF Unheard, Heard, Alive
<1> QED BY <1>1, <1>3, <1>5, <1>6, DriverStep

(* r keeps its state, in silence.                                          *)
LEMMA SilentReturn ==
    ASSUME IInv, ClientsOK, NEW r \in Requests, NEW op \in Drivers, Calling(op, r),
           Return, log' = log, UNCHANGED <<state, headersSent, readerRef>>,
           \A x \in Requests : x # r => /\ curl'[x] = curl[x]
                                        /\ x \in piping' <=> x \in piping,
           r \in Fetches =>
               /\ state[r] = "Fetch" /\ (r \in readerRef \/ curl'[r] = "none") => log[r] = <<>>
               /\ state[r] \notin {"Unborn", "Destroyed"} =>
                      /\ curl'[r] # "none" /\ r \notin readerRef => log[r] # <<>>
                      /\ r \in piping' => log[r] # <<>>
                      /\ state[r] = "Error" => log[r] # <<>>
    PROVE  ClientsOK'
<1>1. Inner(r, <<>>, {}) /\ Then(<<>>)
  BY Inners DEF Ops, Return
<1>2. /\ ~IsIn(Call("process", r), calls') /\ ~IsIn(Call("pipe", r), calls')
      /\ IsIn(Call("transfer_headers", r), calls') => IsIn(Call("transfer_headers", r), calls)
  BY <1>1, DriverCall
<1>3. Says(r) /\ log'[r] = log[r] /\ (Told("headers", r)' <=> Told("headers", r))
  BY Silence
<1>4. ClientOK(r)
  BY DEF ClientsOK
<1>5. \A x \in Requests : x # r => SameClient(x)
  BY DEF SameClient
<1>6. r \in Fetches => (Unheard(r)' => log'[r] = <<>>)
  BY <1>2, <1>3, <1>4 DEF Unheard, ClientOK, LogOK
<1>7. r \in Fetches => (Heard(r)' => log'[r] # <<>>)
  BY <1>2, <1>3, <1>4 DEF Heard, Alive, ClientOK, LogOK
<1>8. state'[r] = "Fetch" => r \notin Connects
  BY <1>4 DEF ClientOK
<1> QED BY <1>1, <1>3, <1>5, <1>6, <1>7, <1>8, DriverStep

(* handle_dns_lookup_state.                                                *)
LEMMA LookupClient ==
    ASSUME IInv, ClientsOK, NEW r \in Requests, handle_dns_lookup_state(r)
    PROVE  ClientsOK'
<1>1. /\ Processing(r, "DNSLookup") /\ UNCHANGED <<curl, readerRef, piping, headersSent>>
      /\ log' = log
  BY DEF handle_dns_lookup_state
<1>2. /\ Calling("process", r) /\ "process" \in Drivers
      /\ state[r] = "DNSLookup"
      /\ RequestOK(r) /\ ClientOK(r) /\ Alive(r) /\ r \notin piping
  BY <1>1, Handled
<1>3. /\ curl[r] = "none"
      /\ r \in Fetches => /\ log[r] = <<>>
                          /\ IsIn(Call("transfer_headers", r), calls) => log[r] # <<>>
  BY <1>2 DEF RequestOK, TransferOK, ClientOK, LogOK, Unheard, Heard
<1>4. ASSUME NEW s \in AfterLookup(r), Enter(r, s) PROVE ClientsOK'
  <2>1. \/ s = "Error"
        \/ s = "Fetch" /\ r \notin Connects
        \/ s = "Complete" /\ r \in Connects
    BY <1>4 DEF AfterLookup
  <2>2. r \in Connects => r \notin Fetches
    BY RequestAssumption
  <2> QED BY <1>1, <1>2, <1>3, <1>4, <2>1, <2>2, SilentEnter
<1>5. CASE Return /\ UNCHANGED state
  BY <1>1, <1>2, <1>3, <1>5, SilentReturn
<1> QED BY <1>4, <1>5 DEF handle_dns_lookup_state

(* handle_wait_for_cache_state and handle_connect_state.                   *)
LEMMA WaitAndConnectClient ==
    ASSUME IInv, ClientsOK, NEW r \in Requests,
           handle_wait_for_cache_state(r) \/ handle_connect_state(r)
    PROVE  ClientsOK'
<1>1. /\ Return /\ UNCHANGED <<state, readerRef, piping, headersSent>> /\ log' = log
      /\ \/ Processing(r, "WaitForCache") /\ UNCHANGED curl
         \/ Processing(r, "Connect") /\ curl' \in {curl, [curl EXCEPT ![r] = "running"]}
  BY DEF handle_wait_for_cache_state, handle_connect_state, requestVars
<1>2. PICK s \in {"WaitForCache", "Connect"} : Processing(r, s)
  BY <1>1
<1>3. /\ Calling("process", r) /\ "process" \in Drivers
      /\ state[r] = s /\ r \notin piping /\ RequestOK(r)
      /\ curl \in [Requests -> {"none", "running", "aborted", "done"}]
  BY <1>2, Handled
<1>4. \A x \in Requests : x # r => curl'[x] = curl[x]
  BY <1>1, <1>3
<1>5. r \in Fetches => s = "WaitForCache" /\ curl[r] = "none" /\ curl'[r] = "none"
  <2>1. r \in Fetches => r \notin Connects
    BY RequestAssumption
  <2>2. /\ s = "Connect" => r \in Connects
        /\ s = "WaitForCache" => curl[r] = "none"
    BY <1>3 DEF RequestOK, TransferOK, Young
  <2> QED BY <1>1, <1>2, <2>1, <2>2 DEF Processing
<1> QED BY <1>1, <1>3, <1>4, <1>5, SilentReturn

(* handle_fetch_state.                                                     *)
LEMMA FetchClient ==
    ASSUME IInv, ClientsOK, NEW r \in Requests, handle_fetch_state(r)
    PROVE  ClientsOK'
<1>1. Processing(r, "Fetch") /\ UNCHANGED <<readerRef, piping, headersSent>>
  BY DEF handle_fetch_state
<1>2. /\ Calling("process", r) /\ "process" \in Drivers
      /\ IsIn(Call("process", r), calls) /\ state[r] = "Fetch" /\ curl[r] = "none"
      /\ ClientOK(r) /\ Alive(r) /\ r \notin piping /\ TypeOK
      /\ curl \in [Requests -> {"none", "running", "aborted", "done"}]
  BY <1>1, Handled
<1>3. /\ r \in Fetches \/ r \in Revalidations
      /\ r \in Fetches => /\ log[r] = <<>>
                          /\ IsIn(Call("transfer_headers", r), calls) => log[r] # <<>>
  BY <1>2, RequestAssumption DEF ClientOK, LogOK, Unheard, Heard
<1>4. CASE /\ InformUnlessRevalidating(r) /\ curl' = [curl EXCEPT ![r] = "running"]
           /\ Return /\ UNCHANGED state
  <2>1. curl'[r] = "running" /\ \A x \in Requests : x # r => curl'[x] = curl[x]
    BY <1>2, <1>4
  <2>2. is_revalidation_request(r) <=> r \in readerRef
    BY <1>2, Revalidating
  <2>3. CASE r \in readerRef
    <3>1. log' = log
      BY <1>4, <2>2, <2>3 DEF InformUnlessRevalidating
    <3> QED BY <1>1, <1>2, <1>3, <1>4, <2>1, <2>3, <3>1, SilentReturn
  <2>4. CASE r \notin readerRef
    <3>1. /\ Says(r) /\ (Told("headers", r)' <=> Told("headers", r))
          /\ \A x \in Requests : x # r => log'[x] = log[x]
          /\ r \in Fetches => log'[r] # <<>>
      BY <1>2, <1>3, <1>4, <2>2, <2>4, Informed DEF InformUnlessRevalidating
    <3>2. Inner(r, <<>>, {}) /\ Then(<<>>)
      BY <1>4, Inners DEF Ops, Return
    <3>3. ~Unheard(r)' /\ \A x \in Requests : x # r => SameClient(x)
      BY <1>1, <1>2, <1>4, <2>1, <2>4, <3>1 DEF Unheard, Young, SameClient
    <3>4. state'[r] = state[r] /\ r \notin Connects
      BY <1>2, <1>4 DEF ClientOK
    <3> QED BY <1>1, <1>2, <3>1, <3>2, <3>3, <3>4, DriverStep
  <2> QED BY <2>3, <2>4
<1>5. CASE Enter(r, "Error") /\ UNCHANGED <<curl, log>>
  BY <1>1, <1>2, <1>3, <1>5, SilentEnter DEF Young
<1> QED BY <1>4, <1>5 DEF handle_fetch_state

(* handle_complete_state.                                                  *)
LEMMA CompleteClient ==
    ASSUME IInv, ClientsOK, NEW r \in Requests, handle_complete_state(r)
    PROVE  ClientsOK'
<1>1. /\ Processing(r, "Complete") /\ log' = log
      /\ UNCHANGED <<state, curl, readerRef, piping, headersSent>>
  BY DEF handle_complete_state, requestVars
<1>2. /\ Calling("process", r) /\ "process" \in Drivers /\ "process" \in Ops
      /\ state[r] = "Complete" /\ ClientOK(r) /\ Alive(r) /\ r \notin piping
  BY <1>1, Handled
<1>3. Says(r) /\ log'[r] = log[r] /\ (Told("headers", r)' <=> Told("headers", r))
  BY <1>1, Silence
<1>4. CASE r \in Fetches /\ Then(<<Call("transfer_headers", r), Call("finish", r)>>)
  <2> DEFINE inner == <<Call("transfer_headers", r), Call("finish", r)>>
  <2>1. Inner(r, inner, {"transfer_headers", "finish"})
    BY Inners DEF Ops
  <2>2. Calling("transfer_headers", r)'
    <3>1. Tail(calls) \in Seq(Calls) /\ inner \in Seq(Calls)
      BY <1>2, <2>1, Called DEF Inner
    <3>2. Len(inner) = 2 /\ inner[1] = Call("transfer_headers", r) /\ calls' = inner \o Tail(calls)
      BY <1>4 DEF Then
    <3>3. /\ Len(calls') = 2 + Len(Tail(calls)) /\ Len(Tail(calls)) \in Nat
          /\ calls'[1] = inner[1] /\ calls' \in Seq(Calls)
      BY <3>1, <3>2, ConcatProperties, LenProperties
    <3>4. calls' # <<>> /\ Head(calls') = calls'[1]
      BY <3>3
    <3> QED BY <3>2, <3>3, <3>4 DEF Calling
  <2>3. ClientOK(r)'
    BY <1>1, <1>2, <1>3, <1>4, <2>2 DEF ClientOK, LogOK, Unheard, Heard, Young
  <2>4. \A x \in Requests : x # r => SameClient(x)
    BY <1>1 DEF SameClient
  <2> QED BY <1>2, <1>3, <1>4, <2>1, <2>3, <2>4, ClientCall
<1>5. CASE r \notin Fetches /\ Return
  BY <1>1, <1>2, <1>5, SilentReturn
<1> QED BY <1>4, <1>5 DEF handle_complete_state

(* handle_error_state.                                                     *)
LEMMA ErrorClient ==
    ASSUME IInv, ClientsOK, NEW r \in Requests, handle_error_state(r)
    PROVE  ClientsOK'
<1>1. /\ Processing(r, "Error") /\ Return
      /\ UNCHANGED <<state, curl, readerRef, piping, headersSent>>
  BY DEF handle_error_state
<1>2. /\ Calling("process", r) /\ "process" \in Drivers
      /\ state[r] = "Error" /\ ClientOK(r) /\ TypeOK
  BY <1>1, Handled
<1>3. CASE r \in Fetches /\ Tell(r, "failed")
  <2>1. "failed" \in Messages /\ MayFollow(log[r], "failed")
    BY DEF Messages, MayFollow
  <2>2. /\ log'[r] # <<>> /\ (Told("headers", r)' <=> Told("headers", r))
        /\ \A x \in Requests : x # r => log'[x] = log[x]
    BY <1>2, <1>3, <2>1, Saying
  <2>3. Inner(r, <<>>, {}) /\ Then(<<>>)
    BY <1>1, Inners DEF Ops, Return
  <2>4. ~Unheard(r)' /\ Says(r) /\ \A x \in Requests : x # r => SameClient(x)
    BY <1>1, <1>2, <1>3, <2>1, <2>2 DEF Unheard, Young, SameClient, Says
  <2> QED BY <1>1, <1>2, <2>2, <2>3, <2>4, DriverStep
<1>4. CASE r \notin Fetches /\ UNCHANGED log
  BY <1>1, <1>2, <1>4, SilentReturn
<1> QED BY <1>3, <1>4 DEF handle_error_state

(* Nothing else drives r in a turn that does.                              *)
LEMMA OneDriver ==
    ASSUME IInv, NEW r \in Requests, NEW op \in Drivers, Calling(op, r), NEW o \in Drivers, o # op
    PROVE  ~IsIn(Call(o, r), calls)
<1>1. op \in Ops /\ calls # <<>> /\ Head(calls) = Call(op, r)
  BY DEF Drivers, Ops, Calling
<1>2. calls \in Seq(Calls) /\ \A c : IsIn(c, Tail(calls)) => Compatible(Call(op, r), c)
  BY <1>1, Called, LeftOfTurn
<1>3. IsIn(Call(o, r), calls) => Call(o, r) = Call(op, r) \/ IsIn(Call(o, r), Tail(calls))
  BY <1>1, <1>2, FirstCall
<1>4. /\ Call(o, r) # Call(op, r) /\ Call(o, r).op = o /\ Call(o, r).on = r
      /\ Call(op, r).op = op /\ Call(op, r).on = r
  BY CallFields
<1>5. ~Compatible(Call(op, r), Call(o, r))
  BY <1>4 DEF Compatible, Rivals
<1> QED BY <1>2, <1>3, <1>4, <1>5

(* What is known of r when a call that drives it is made.                  *)
LEMMA Driven ==
    ASSUME IInv, ClientsOK, NEW r \in Requests, NEW op \in Drivers, Calling(op, r)
    PROVE  /\ op \in Ops /\ Fits(op, r) /\ RequestOK(r) /\ ClientOK(r) /\ TypeOK
           /\ IsIn(Call(op, r), calls) /\ state[r] # "Unborn"
           /\ op # "process" => ~IsIn(Call("process", r), calls)
           /\ state \in [Requests -> States]
           /\ curl \in [Requests -> {"none", "running", "aborted", "done"}]
<1>1. op \in Ops /\ "process" \in Drivers
  BY DEF Drivers, Ops
<1>2. Fits(op, r) /\ RequestOK(r) /\ state[r] # "Unborn" /\ calls # <<>> /\ calls \in Seq(Calls)
  BY <1>1, Called
<1>3. IsIn(Call(op, r), calls)
  BY <1>2, FirstCall DEF Calling
<1>4. op # "process" => ~IsIn(Call("process", r), calls)
  BY <1>1, OneDriver
<1>5. TypeOK /\ ClientOK(r)
  BY DEF IInv, LocalInv, ClientsOK
<1> QED BY <1>1, <1>2, <1>3, <1>4, <1>5, FieldTypes

(* notify_request_unblocked.                                               *)
LEMMA UnblockClient ==
    ASSUME IInv, ClientsOK, NEW r \in Requests, notify_request_unblocked(r)
    PROVE  ClientsOK'
<1>1. /\ Calling("unblock", r) /\ "unblock" \in Drivers /\ log' = log
      /\ UNCHANGED <<curl, readerRef, piping, headersSent>>
  BY DEF notify_request_unblocked, Drivers
<1>2. Fits("unblock", r) /\ RequestOK(r) /\ ClientOK(r)
  BY <1>1, Driven
<1>3. CASE Alive(r) /\ Enter(r, "Init")
  <2>1. state[r] = "WaitForCache" /\ curl[r] = "none" /\ r \notin piping
    BY <1>2, <1>3 DEF Fits, Alive, RequestOK, TransferOK, Young
  <2>2. r \in Fetches => /\ log[r] = <<>>
                         /\ IsIn(Call("transfer_headers", r), calls) => log[r] # <<>>
    BY <1>2, <1>3, <2>1 DEF ClientOK, LogOK, Unheard, Heard, Young
  <2> QED BY <1>1, <1>3, <2>1, <2>2, SilentEnter
<1>4. CASE ~Alive(r) /\ Return /\ UNCHANGED state
  BY <1>1, <1>4, SilentReturn DEF Alive
<1> QED BY <1>3, <1>4 DEF notify_request_unblocked

(* settle.                                                                 *)
LEMMA SettleClient ==
    ASSUME IInv, ClientsOK, NEW r \in Requests, settle(r)
    PROVE  ClientsOK'
<1>1. /\ Calling("settle", r) /\ "settle" \in Drivers /\ log' = log
      /\ curl' = [curl EXCEPT ![r] = "done"] /\ UNCHANGED <<readerRef, piping, headersSent>>
      /\ \/ Return /\ UNCHANGED state
         \/ Enter(r, "Complete")
  BY DEF settle, Drivers
<1>2. /\ Fits("settle", r) /\ RequestOK(r) /\ ClientOK(r) /\ ~IsIn(Call("process", r), calls)
      /\ curl \in [Requests -> {"none", "running", "aborted", "done"}]
  BY <1>1, Driven
<1>3. /\ state[r] \in {"Fetch", "Connect", "Complete", "Error"} /\ curl[r] # "none"
      /\ r \notin readerRef
  BY <1>2 DEF Fits
<1>4. r \in Fetches => log[r] # <<>>
  <2>1. r \in Fetches => Heard(r)
    BY <1>2, <1>3 DEF Heard, Alive
  <2> QED BY <1>2, <2>1 DEF ClientOK, LogOK
<1>5. curl'[r] = "done" /\ \A x \in Requests : x # r => curl'[x] = curl[x]
  BY <1>1, <1>2
<1>6. CASE Return /\ UNCHANGED state
  BY <1>1, <1>3, <1>4, <1>5, <1>6, SilentReturn
<1>7. CASE Enter(r, "Complete")
  BY <1>1, <1>3, <1>4, <1>5, <1>7, SilentEnter DEF Young
<1> QED BY <1>1, <1>6, <1>7

(* write_queued_bytes_without_blocking and on_client_pipe_writable.        *)
LEMMA WriteClient ==
    ASSUME IInv, ClientsOK, NEW r \in Requests,
           write_queued_bytes_without_blocking(r) \/ on_client_pipe_writable(r)
    PROVE  ClientsOK'
<1>1. PICK op \in {"write_queued", "activate"} :
        /\ Calling(op, r)
        /\ op = "write_queued" \/ Alive(r) \/ (~Alive(r) /\ Return /\ UNCHANGED <<state, curl>>)
  BY DEF write_queued_bytes_without_blocking, on_client_pipe_writable
<1>2. /\ log' = log /\ UNCHANGED <<readerRef, piping, headersSent>>
      /\ curl' \in {curl, [curl EXCEPT ![r] = "aborted"]}
      /\ \/ Return /\ UNCHANGED state
         \/ Enter(r, "Complete")
  BY DEF write_queued_bytes_without_blocking, on_client_pipe_writable, WriteAll, WriteSome,
         WriteNothing, WriteFails, CompleteIfDrained
<1>3. op \in Drivers
  BY DEF Drivers
<1>4. /\ Fits(op, r) /\ ClientOK(r)
      /\ curl \in [Requests -> {"none", "running", "aborted", "done"}]
  BY <1>1, <1>3, Driven
<1>5. CASE ~Alive(r) /\ Return /\ UNCHANGED <<state, curl>>
  BY <1>1, <1>2, <1>3, <1>5, SilentReturn DEF Alive
<1>6. CASE Alive(r) \/ op = "write_queued"
  <2>1. Flows(r)
    BY <1>1, <1>4, <1>6 DEF Fits
  <2>2. /\ state[r] \in {"Fetch", "Complete"} /\ r \notin readerRef
        /\ curl'[r] # "none" /\ \A x \in Requests : x # r => curl'[x] = curl[x]
    BY <1>2, <1>4, <2>1 DEF Flows
  <2>3. r \in Fetches => log[r] # <<>>
    BY <1>4, <2>1 DEF ClientOK, LogOK, Heard, Flows, Alive
  <2>4. CASE Return /\ UNCHANGED state
    BY <1>1, <1>2, <1>3, <2>2, <2>3, <2>4, SilentReturn
  <2>5. CASE Enter(r, "Complete")
    BY <1>1, <1>2, <1>3, <2>2, <2>3, <2>5, SilentEnter DEF Young
  <2> QED BY <1>2, <2>4, <2>5
<1> QED BY <1>1, <1>5, <1>6

(* The process ends.                                                       *)
LEMMA TerminateClient ==
    ASSUME ClientsOK, Terminate
    PROVE  ClientsOK'
<1>1. calls' = <<>> /\ log' = log /\ headersSent' = {} /\ \A c : ~IsIn(c, calls')
  BY ShortTurns DEF Terminate
<1>2. ASSUME NEW x \in Requests PROVE state'[x] \in {"Unborn", "Destroyed"}
                                      /\ (state'[x] = "Unborn" => state[x] = "Unborn")
  BY DEF Terminate, Alive
<1>3. ASSUME NEW x \in Requests PROVE ClientOK(x)' /\ InProtocol(log'[x])
  <2>1. ClientOK(x) /\ InProtocol(log[x])
    BY DEF ClientsOK
  <2>2. Told("headers", x)' <=> Told("headers", x)
    BY <1>1 DEF Told, IsIn
  <2>3. x \in Fetches /\ state'[x] = "Unborn" => log[x] = <<>>
    BY <1>2, <2>1 DEF ClientOK, LogOK, Unheard, Young
  <2>4. log[x] = <<>> => ~Told("headers", x)
    BY ShortTurns DEF Told
  <2>5. Unheard(x)' => state'[x] = "Unborn"
    BY <1>1, <1>2 DEF Unheard, Young
  <2>6. ~Heard(x)'
    BY <1>2 DEF Heard, Alive
  <2> QED BY <1>1, <1>2, <2>1, <2>2, <2>3, <2>4, <2>5, <2>6 DEF ClientOK, LogOK
<1> QED BY <1>3 DEF ClientsOK

(* pipe_without_blocking.                                                  *)
LEMMA PipeClient ==
    ASSUME IInv, ClientsOK, NEW r \in Requests, pipe_without_blocking(r)
    PROVE  ClientsOK'
<1>1. Calling("pipe", r) /\ "pipe" \in Drivers
  BY DEF pipe_without_blocking, Drivers
<1>2. /\ Fits("pipe", r) /\ ClientOK(r) /\ IsIn(Call("pipe", r), calls)
      /\ state \in [Requests -> States]
  BY <1>1, Driven
<1>3. state[r] = "ReadCache" /\ (r \in Fetches => log[r] # <<>>)
  BY <1>2 DEF Fits, ClientOK, LogOK, Heard, Alive
<1>4. CASE /\ PipeComplete(r) \/ PipeBlocked(r) \/ PipeError(r)
           /\ log' = log /\ UNCHANGED <<readerRef, curl, headersSent>>
  <2>1. CASE PipeBlocked(r)
    BY <1>1, <1>3, <1>4, <2>1, SilentReturn DEF PipeBlocked
  <2>2. CASE PipeComplete(r) \/ PipeError(r)
    <3>1. PICK s \in {"Complete", "Error"} :
            /\ state' = [state EXCEPT ![r] = s] /\ UNCHANGED piping
            /\ Then(<<Call("process", r), Call("close", r)>>)
      BY <2>2 DEF PipeComplete, PipeError
    <3>2. Inner(r, <<Call("process", r), Call("close", r)>>, {"process", "close"})
      BY Inners DEF Ops
    <3>3. Says(r) /\ log'[r] = log[r] /\ (Told("headers", r)' <=> Told("headers", r))
      BY <1>4, Silence
    <3>4. state'[r] = s /\ \A x \in Requests : x # r => SameClient(x)
      BY <1>2, <1>4, <3>1 DEF SameClient
    <3>5. ~Unheard(r)'
      BY <3>4 DEF Unheard, Young
    <3> QED BY <1>1, <1>3, <1>4, <3>1, <3>2, <3>3, <3>4, <3>5, DriverStep
  <2> QED BY <1>4, <2>1, <2>2
<1>5. CASE PipeOverruns(r)
  BY <1>5, TerminateClient DEF PipeOverruns
<1> QED BY <1>4, <1>5 DEF pipe_without_blocking

(* on_reader_pipe_writable.                                                *)
LEMMA ReaderPipeClient ==
    ASSUME IInv, ClientsOK, NEW r \in Requests, on_reader_pipe_writable(r)
    PROVE  ClientsOK'
<1>1. Calling("pipe_activate", r) /\ "pipe_activate" \in Drivers
  BY DEF on_reader_pipe_writable, Drivers
<1>2. /\ Fits("pipe_activate", r) /\ RequestOK(r) /\ ClientOK(r) /\ TypeOK
      /\ state[r] # "Unborn"
  BY <1>1, Driven
<1>3. CASE /\ Alive(r) /\ piping' = piping \ {r} /\ Then(<<Call("pipe", r)>>)
           /\ log' = log /\ UNCHANGED <<state, readerRef, curl, headersSent>>
  <2>1. Inner(r, <<Call("pipe", r)>>, {"pipe"})
    BY Inners DEF Ops
  <2>2. ~IsIn(Call("process", r), calls')
    BY <1>1, <1>3, <2>1, DriverCall
  <2>3. state[r] = "ReadCache" /\ (r \in Fetches => log[r] # <<>>)
    BY <1>2, <1>3 DEF Fits, RequestOK, TransferOK, ClientOK, LogOK, Heard, Alive
  <2>4. Says(r) /\ log'[r] = log[r] /\ (Told("headers", r)' <=> Told("headers", r))
    BY <1>3, Silence
  <2>5. ~Unheard(r)' /\ \A x \in Requests : x # r => SameClient(x)
    BY <1>3, <2>2, <2>3 DEF Unheard, Young, SameClient
  <2> QED BY <1>1, <1>3, <2>1, <2>3, <2>4, <2>5, DriverStep
<1>4. CASE ~Alive(r) /\ Return /\ UNCHANGED requestVars
  BY <1>1, <1>4, SilentReturn DEF Alive, requestVars
<1>5. CASE /\ ~Alive(r) /\ piping' = piping \ {r} /\ Tell(r, "failed")
           /\ Then(<<Call("close", r)>>) /\ UNCHANGED <<state, readerRef, curl, headersSent>>
  <2>1. Inner(r, <<Call("close", r)>>, {"close"})
    BY Inners DEF Ops
  <2>2. "failed" \in Messages /\ MayFollow(log[r], "failed")
    BY DEF Messages, MayFollow
  <2>3. /\ Told("headers", r)' <=> Told("headers", r)
        /\ \A x \in Requests : x # r => log'[x] = log[x]
    BY <1>2, <1>5, <2>2, Saying
  <2>4. state[r] = "Destroyed"
    BY <1>2, <1>5 DEF Alive
  <2>5. /\ ~Unheard(r)' /\ ~Heard(r)' /\ Says(r)
        /\ \A x \in Requests : x # r => SameClient(x)
    BY <1>5, <2>2, <2>3, <2>4 DEF Unheard, Heard, Alive, Young, SameClient, Says
  <2> QED BY <1>1, <1>5, <2>1, <2>3, <2>4, <2>5, DriverStep
<1>6. CASE Terminate
  BY <1>6, TerminateClient
<1> QED BY <1>3, <1>4, <1>5, <1>6 DEF on_reader_pipe_writable

(* finish.                                                                 *)
LEMMA FinishClient ==
    ASSUME IInv, ClientsOK, NEW r \in Requests, finish(r)
    PROVE  ClientsOK'
<1>1. /\ Calling("finish", r) /\ "finish" \in Drivers /\ Return
      /\ UNCHANGED <<state, readerRef, curl, headersSent, piping>>
      /\ Tell(r, "finished") \/ Tell(r, "failed")
  BY DEF finish, Drivers
<1>2. /\ Fits("finish", r) /\ ClientOK(r) /\ TypeOK /\ IsIn(Call("finish", r), calls)
      /\ ~IsIn(Call("process", r), calls)
  BY <1>1, Driven
<1>3. Alive(r) /\ r \in Fetches /\ r \in headersSent
  <2>1. ~Calling("transfer_headers", r)
    BY <1>1, CallFields DEF Calling
  <2> QED BY <1>2, <2>1 DEF Fits, ClientOK, LogOK
<1>4. Told("headers", r) /\ log[r] # <<>>
  <2>1. Told("headers", r)
    BY <1>2, <1>3 DEF ClientOK, LogOK, Alive
  <2> QED BY <2>1, ShortTurns DEF Told
<1>5. PICK m \in {"finished", "failed"} : Tell(r, m)
  BY <1>1
<1>6. m \in Messages /\ MayFollow(log[r], m)
  BY <1>4 DEF Messages, MayFollow, Told
<1>7. /\ log'[r] # <<>> /\ (Told("headers", r)' <=> Told("headers", r))
      /\ \A x \in Requests : x # r => log'[x] = log[x]
  BY <1>2, <1>5, <1>6, Saying
<1>8. Inner(r, <<>>, {}) /\ Then(<<>>)
  BY <1>1, Inners DEF Ops, Return
<1>9. ~IsIn(Call("process", r), calls')
  BY <1>1, <1>8, DriverCall
<1>10. ~Unheard(r)'
  <2>1. Unheard(r)' => Unheard(r)
    BY <1>1, <1>9 DEF Unheard
  <2> QED BY <1>2, <1>3, <1>4, <2>1 DEF ClientOK, LogOK
<1>11. Says(r) /\ \A x \in Requests : x # r => SameClient(x)
  BY <1>1, <1>5, <1>6, <1>7 DEF Says, SameClient
<1>12. state'[r] = state[r] /\ (state[r] = "Fetch" => r \notin Connects)
  BY <1>1, <1>2 DEF ClientOK
<1> QED BY <1>1, <1>7, <1>8, <1>10, <1>11, <1>12, DriverStep

(* transfer_headers_to_client_if_needed.                                   *)
LEMMA HeadersClient ==
    ASSUME IInv, ClientsOK, NEW r \in Requests, transfer_headers_to_client_if_needed(r)
    PROVE  ClientsOK'
<1>1. /\ Calling("transfer_headers", r) /\ "transfer_headers" \in Ops /\ Return
      /\ headersSent' = headersSent \cup {r} /\ UNCHANGED <<state, readerRef, curl, piping>>
      /\ IF r \in Fetches \ headersSent THEN Tell(r, "headers") ELSE UNCHANGED log
  BY DEF transfer_headers_to_client_if_needed, Ops
<1>2. Fits("transfer_headers", r) /\ calls # <<>> /\ calls \in Seq(Calls)
  BY <1>1, Called
<1>3. Alive(r) /\ IsIn(Call("transfer_headers", r), calls) /\ TypeOK /\ ClientOK(r)
  BY <1>1, <1>2, FirstCall DEF Fits, Calling, IInv, LocalInv, ClientsOK
<1>4. Inner(r, <<>>, {}) /\ Then(<<>>)
  BY <1>1, Inners DEF Ops, Return
<1>5. \A o \in {"process", "pipe", "finish"} : IsIn(Call(o, r), calls') <=> IsIn(Call(o, r), calls)
  BY <1>1, <1>4, AfterCall
<1>6. r \in Fetches => log[r] # <<>> /\ (Told("headers", r) <=> r \in headersSent)
  BY <1>3 DEF ClientOK, LogOK, Heard, Alive
<1>7. Unheard(r)' => Unheard(r)
  BY <1>1, <1>5 DEF Unheard
<1>8. CASE r \in Fetches \ headersSent
  <2>1. Tell(r, "headers") /\ "headers" \in Messages /\ MayFollow(log[r], "headers")
    BY <1>1, <1>6, <1>8 DEF Messages, MayFollow, Told
  <2>2. /\ log'[r] # <<>> /\ Told("headers", r)'
        /\ \A x \in Requests : x # r => log'[x] = log[x]
    BY <1>3, <2>1, Saying
  <2>3. ClientOK(r)'
    BY <1>1, <1>3, <1>5, <1>6, <1>7, <1>8, <2>2 DEF ClientOK, LogOK
  <2>4. Says(r) /\ \A x \in Requests : x # r => SameClient(x)
    BY <1>1, <2>1, <2>2 DEF Says, SameClient
  <2> QED BY <1>1, <1>4, <2>3, <2>4, ClientCall
<1>9. CASE r \notin Fetches \ headersSent
  <2>1. log' = log
    BY <1>1, <1>9
  <2>2. Says(r) /\ log'[r] = log[r] /\ (Told("headers", r)' <=> Told("headers", r))
    BY <2>1, Silence
  <2>3. ClientOK(r)'
    BY <1>1, <1>3, <1>5, <1>6, <1>7, <1>9, <2>2 DEF ClientOK, LogOK
  <2>4. \A x \in Requests : x # r => SameClient(x)
    BY <1>1, <2>1 DEF SameClient
  <2> QED BY <1>1, <1>4, <2>2, <2>3, <2>4, ClientCall
<1> QED BY <1>8, <1>9

(* close, remove_request and destroy.                                      *)
LEMMA EndClient ==
    ASSUME IInv, ClientsOK, NEW r \in Requests, close(r) \/ remove_request(r) \/ destroy(r)
    PROVE  ClientsOK'
<1>1. PICK op \in {"close", "remove", "destroy"} :
        /\ Calling(op, r) /\ log' = log
        /\ \/ op = "close" /\ Return
           \/ op = "remove" /\ (Then(<<Call("destroy", r)>>) \/ Return)
           \/ op = "destroy" /\ (Then(<<Call("close", r)>>) \/ Return)
        /\ op # "destroy" => UNCHANGED requestVars
        /\ op = "destroy" => /\ state' = [state EXCEPT ![r] = "Destroyed"]
                             /\ curl' = [curl EXCEPT ![r] = "none"]
                             /\ readerRef' = readerRef \ {r} /\ headersSent' = headersSent \ {r}
                             /\ UNCHANGED piping
  BY DEF close, remove_request, destroy, flush, requestVars
<1>2. /\ op \in Ops /\ ClientOK(r) /\ state \in [Requests -> States]
      /\ curl \in [Requests -> {"none", "running", "aborted", "done"}]
  BY FieldTypes DEF Ops, ClientsOK, IInv, LocalInv
<1>3. PICK inner, made : Inner(r, inner, made) /\ Then(inner) /\ made \subseteq {"close", "destroy"}
  <2>1. /\ Inner(r, <<>>, {}) /\ Inner(r, <<Call("close", r)>>, {"close"})
        /\ Inner(r, <<Call("destroy", r)>>, {"destroy"})
    BY Inners DEF Ops
  <2>2. CASE Then(<<>>)
    BY <2>1, <2>2
  <2>3. CASE Then(<<Call("close", r)>>)
    BY <2>1, <2>3
  <2>4. CASE Then(<<Call("destroy", r)>>)
    BY <2>1, <2>4
  <2> QED BY <1>1, <2>2, <2>3, <2>4 DEF Return
<1>4. /\ \A o : IsIn(Call(o, r), calls') => o \in made \/ IsIn(Call(o, r), calls)
      /\ op \in Ends => \A o : IsIn(Call(o, r), calls') => o \in made \cup Ends \cup {"close"}
      /\ \A o : o # op /\ IsIn(Call(o, r), calls) => IsIn(Call(o, r), calls')
  BY <1>1, <1>2, <1>3, AfterCall
<1>5. Says(r) /\ log'[r] = log[r]
  BY <1>1, Silence
<1>6. \A x \in Requests : x # r => SameClient(x)
  BY <1>1, <1>2 DEF SameClient, requestVars
<1>7. ClientOK(r)'
  <2>1. CASE op # "destroy"
    <3>1. SameClient(r)
      BY <1>1, <2>1 DEF SameClient, requestVars
    <3>2. ~Calling("transfer_headers", r)
      BY <1>1, CallFields DEF Calling
    <3>3. \A o \in {"process", "transfer_headers", "pipe", "finish"} :
              IsIn(Call(o, r), calls') <=> IsIn(Call(o, r), calls)
      BY <1>1, <1>3, <1>4
    <3>4. SameCalls(r)
      BY <3>2, <3>3 DEF SameCalls
    <3> QED BY <1>2, <3>1, <3>4, ClientUnaffected
  <2>2. CASE op = "destroy"
    <3>1. ~IsIn(Call("finish", r), calls')
      BY <1>3, <1>4, <2>2 DEF Ends
    <3>2. state'[r] = "Destroyed"
      BY <1>1, <1>2, <2>2
    <3> QED BY <3>1, <3>2 DEF ClientOK, LogOK, Unheard, Heard, Alive, Young
  <2> QED BY <2>1, <2>2
<1> QED BY <1>1, <1>2, <1>3, <1>5, <1>6, <1>7, ClientCall

(* A fetch opens a stale response and has it revalidated.                  *)
LEMMA StaleClient ==
    ASSUME IInv, ClientsOK, NEW r \in Fetches, Processing(r, "Init"),
           InitReader(r, "stale_while_revalidate"),
           log' = log, UNCHANGED <<curl, headersSent, piping>>
    PROVE  ClientsOK'
<1> DEFINE b == Background[r]
           inner == <<Call("process", b), Call("process", r)>>
<1>1. r \in Requests /\ b \in Requests /\ b # r /\ b \notin Fetches
  BY RequestAssumption DEF Revalidations
<1>2. /\ Calling("process", r) /\ "process" \in Drivers /\ "process" \in Ops
      /\ IsIn(Call("process", r), calls) /\ state[r] = "Init"
      /\ RequestOK(r) /\ ClientOK(r) /\ Alive(r) /\ r \notin piping
      /\ state \in [Requests -> States]
  BY <1>1, Handled
<1>3. /\ readerRef' = readerRef \cup {r} /\ calls' = inner \o Tail(calls)
      /\ state' = [state EXCEPT ![r] = "ReadCache", ![b] = "Init"]
  BY DEF InitReader, Then
<1>4. /\ calls # <<>> /\ calls \in Seq(Calls) /\ Tail(calls) \in Seq(Calls)
      /\ Head(calls) = Call("process", r)
  BY <1>1, <1>2, Called DEF Calling
<1>5. /\ \A c : IsIn(c, calls) <=> c = Call("process", r) \/ IsIn(c, Tail(calls))
      /\ \A c : IsIn(c, Tail(calls)) => Compatible(Call("process", r), c)
  BY <1>1, <1>2, <1>4, LeftOfTurn, FirstCall
<1>6. \A c : IsIn(c, inner) <=> c = Call("process", b) \/ c = Call("process", r)
  BY ShortTurns
<1>7. inner \in Seq(Calls)
  <2>1. Call("process", b) \in Calls /\ Call("process", r) \in Calls
    BY <1>1, <1>2, CallType
  <2> QED BY <2>1
<1> HIDE DEF inner
<1>8. \A c : IsIn(c, calls') <=> \/ c = Call("process", b) \/ c = Call("process", r)
                                 \/ IsIn(c, Tail(calls))
  BY <1>3, <1>4, <1>6, <1>7, JoinedTurns
<1>9. \A o, y, p, z : /\ Call(o, y) = Call(p, z) <=> o = p /\ y = z
                      /\ Call(o, y).op = o /\ Call(o, y).on = y
  BY CallFields
<1> HIDE DEF b
<1>10. /\ state'[r] = "ReadCache" /\ state'[b] = "Init"
       /\ \A x \in Requests : x # r /\ x # b => state'[x] = state[x]
  BY <1>1, <1>2, <1>3
<1>11. \A x \in Requests : /\ ClientOK(x)
                           /\ IsIn(Call("finish", x), calls') => IsIn(Call("finish", x), calls)
  BY <1>5, <1>8, <1>9 DEF ClientsOK
<1>12. ClientOK(b)'
  BY <1>1, <1>10, <1>11 DEF ClientOK
<1>13. ClientOK(r)'
  <2>1. Says(r) /\ log'[r] = log[r] /\ (Told("headers", r)' <=> Told("headers", r))
    BY <1>1, Silence
  <2>2. /\ IsIn(Call("transfer_headers", r), calls') => IsIn(Call("transfer_headers", r), calls)
        /\ ~IsIn(Call("pipe", r), calls') /\ ~IsIn(Call("finish", r), calls')
    <3>1. /\ ~Compatible(Call("process", r), Call("pipe", r))
          /\ ~Compatible(Call("process", r), Call("finish", r))
      BY <1>9 DEF Compatible, Rivals, Drivers
    <3> QED BY <1>5, <1>8, <1>9, <3>1
  <2>3. log[r] = <<>> /\ curl[r] = "none"
    BY <1>2 DEF ClientOK, LogOK, Unheard, RequestOK, TransferOK, Young
  <2>4. Heard(r)' => Heard(r)
    BY <1>2, <1>10, <2>2, <2>3 DEF Heard
  <2> QED BY <1>2, <1>10, <2>1, <2>2, <2>3, <2>4 DEF ClientOK, LogOK
<1>14. ASSUME NEW x \in Requests, x # r, x # b PROVE ClientOK(x)'
  <2>1. SameClient(x)
    BY <1>3, <1>10, <1>14 DEF SameClient
  <2>2. SameCalls(x)
    BY <1>4, <1>5, <1>8, <1>9, <1>14 DEF SameCalls, Calling
  <2> QED BY <1>11, <2>1, <2>2, ClientUnaffected
<1>15. \A x \in Requests : InProtocol(log'[x])
  BY DEF ClientsOK
<1> QED BY <1>12, <1>13, <1>14, <1>15 DEF ClientsOK

(* handle_initial_state.                                                   *)
LEMMA InitialClient ==
    ASSUME IInv, ClientsOK, NEW r \in Requests, handle_initial_state(r)
    PROVE  ClientsOK'
<1>1. Processing(r, "Init") /\ log' = log /\ UNCHANGED <<curl, headersSent, piping>>
  BY DEF handle_initial_state
<1>2. /\ Calling("process", r) /\ "process" \in Drivers /\ state[r] = "Init"
      /\ ClientOK(r) /\ Alive(r) /\ r \notin piping /\ curl[r] = "none"
  BY <1>1, Handled, InitFacts
<1>3. PICK o \in open_entry(r, r \in Revalidations, Locking) :
        \/ InitBlocked(r) /\ readerRef' \in {readerRef, readerRef \ {r}}
        \/ o.answer \in Readers /\ InitReader(r, o.answer)
        \/ InitUncached(r, "DNSLookup") \/ InitWriter(r)
        \/ r \in Revalidations /\ InitUncached(r, "Complete")
  BY DEF handle_initial_state
<1>4. ASSUME NEW s \in {"WaitForCache", "DNSLookup", "ReadCache", "Complete"}, Enter(r, s),
             readerRef' \in {readerRef, readerRef \ {r}, readerRef \cup {r}},
             s = "Complete" => r \in Revalidations
      PROVE  ClientsOK'
  <2>1. r \in Fetches => r \notin Revalidations
    BY RequestAssumption
  <2>2. r \in Fetches => /\ log[r] = <<>>
                         /\ IsIn(Call("transfer_headers", r), calls) => log[r] # <<>>
    BY <1>2 DEF ClientOK, LogOK, Unheard, Heard, Young
  <2>3. \A x \in Requests : x # r => (x \in readerRef' <=> x \in readerRef)
    BY <1>4
  <2> QED BY <1>1, <1>2, <1>4, <2>1, <2>2, <2>3, SilentEnter
<1>5. CASE \/ InitBlocked(r) /\ readerRef' \in {readerRef, readerRef \ {r}}
           \/ InitUncached(r, "DNSLookup") \/ InitWriter(r)
           \/ r \in Revalidations /\ InitUncached(r, "Complete")
  BY <1>4, <1>5 DEF InitBlocked, InitUncached, InitWriter
<1>6. CASE o.answer \in Readers /\ InitReader(r, o.answer)
  <2>1. r \in Cacheable /\ (o.answer = "stale_while_revalidate" => r \notin Revalidations)
    BY <1>6, OpenEntryType DEF IInv, LocalInv, TypeOK
  <2>2. CASE o.answer = "stale_while_revalidate"
    <3>1. r \in Fetches
      BY <2>1, <2>2, RequestAssumption
    <3> QED BY <1>1, <1>6, <2>2, <3>1, StaleClient
  <2>3. CASE o.answer # "stale_while_revalidate"
    BY <1>4, <1>6, <2>3 DEF InitReader
  <2> QED BY <2>2, <2>3
<1> QED BY <1>3, <1>5, <1>6

-----------------------------------------------------------------------------
(* What the clients are told: the events.                                  *)

(* An event that starts the calls `made' on r, and sends no headers, keeps *)
(* the invariant, if the log of r is as the new state of r has it.         *)
LEMMA EventClient ==
    ASSUME IInv, ClientsOK, Idle, NEW r \in Requests,
           NEW inner, NEW made, Inner(r, inner, made), calls' = inner, "finish" \notin made,
           \A x \in Requests : x # r => SameClient(x),
           Says(r), Told("headers", r)' <=> Told("headers", r), headersSent' = headersSent,
           state[r] # "Destroyed",
           state'[r] = "Fetch" => r \notin Connects,
           r \in Fetches => /\ Unheard(r)' => log'[r] = <<>>
                            /\ Heard(r)' => log'[r] # <<>>
    PROVE  ClientsOK'
<1>1. \A o, y, p, z : Call(o, y) = Call(p, z) <=> o = p /\ y = z
  BY CallFields
<1>2. \A c : ~IsIn(c, calls)
  BY ShortTurns DEF Idle
<1>3. \A c : IsIn(c, calls') <=> \E o \in made : c = Call(o, r)
  BY DEF Inner
<1>4. ~IsIn(Call("finish", r), calls') /\ ClientOK(r)
  BY <1>1, <1>3 DEF ClientsOK
<1>5. ClientOK(r)'
  BY <1>4 DEF ClientOK, LogOK
<1>6. ASSUME NEW x \in Requests, x # r PROVE ClientOK(x)'
  <2>1. SameCalls(x)
    BY <1>1, <1>2, <1>3, <1>6 DEF SameCalls, Calling, Idle
  <2> QED BY <1>6, <2>1, ClientUnaffected DEF ClientsOK
<1>7. \A x \in Requests : InProtocol(log'[x])
  BY Protocol DEF IInv, LocalInv
<1> QED BY <1>5, <1>6, <1>7 DEF ClientsOK

(* The calls such an event starts.                                         *)
LEMMA EventCalls ==
    ASSUME NEW r \in Requests, NEW a \in Ops, NEW b \in Ops
    PROVE  /\ calls' = <<Call(a, r)>> =>
                  \A o : IsIn(Call(o, r), calls') <=> o = a
           /\ calls' = <<Call(a, r), Call(b, r)>> =>
                  \A o : IsIn(Call(o, r), calls') <=> o = a \/ o = b
<1>1. \A o, y, p, z : Call(o, y) = Call(p, z) <=> o = p /\ y = z
  BY CallFields
<1>2. /\ \A c : IsIn(c, <<Call(a, r)>>) <=> c = Call(a, r)
      /\ \A c : IsIn(c, <<Call(a, r), Call(b, r)>>) <=> c = Call(a, r) \/ c = Call(b, r)
  BY ShortTurns
<1> QED BY <1>1, <1>2

(* An event that changes nothing of what the clients know.                 *)
LEMMA QuietEvent ==
    ASSUME ClientsOK, Idle, \A x \in Requests : SameClient(x),
           \A x \in Requests : \A op \in {"process", "transfer_headers", "pipe", "finish"} :
               ~IsIn(Call(op, x), calls')
    PROVE  ClientsOK'
<1>1. \A c : ~IsIn(c, calls)
  BY ShortTurns DEF Idle
<1>2. ASSUME NEW x \in Requests PROVE ClientOK(x)' /\ InProtocol(log'[x])
  <2>1. SameCalls(x)
    BY <1>1 DEF SameCalls, Calling, Idle
  <2>2. log'[x] = log[x]
    BY DEF SameClient
  <2> QED BY <2>1, <2>2, ClientUnaffected DEF ClientsOK
<1> QED BY <1>2 DEF ClientsOK

(* start_request, ensure_connection and stop_request.                      *)
LEMMA MessageClient ==
    ASSUME IInv, ClientsOK, NEW r \in Requests,
           start_request(r) \/ ensure_connection(r) \/ stop_request(r)
    PROVE  ClientsOK'
<1>1. /\ Idle /\ state \in [Requests -> States] /\ ClientOK(r) /\ RequestOK(r)
      /\ UNCHANGED <<curl, readerRef, piping, headersSent>> /\ log' = log
  BY FieldTypes DEF start_request, ensure_connection, stop_request, IInv, LocalInv, ClientsOK,
                    requestVars
<1>2. Inner(r, <<Call("process", r)>>, {"process"}) /\ "process" \in Ops /\ "destroy" \in Ops
  BY Inners DEF Ops
<1>3. Says(r) /\ log'[r] = log[r] /\ (Told("headers", r)' <=> Told("headers", r))
  BY <1>1, Silence
<1>4. CASE start_request(r) \/ ensure_connection(r)
  <2>1. /\ state[r] = "Unborn" /\ calls' = <<Call("process", r)>>
        /\ \/ r \in Fetches /\ state'[r] = "Init"
           \/ r \notin Fetches /\ state'[r] \in {"DNSLookup", "Connect"}
        /\ \A x \in Requests : x # r => SameClient(x)
    BY <1>1, <1>4, RequestAssumption DEF start_request, ensure_connection, SameClient
  <2>2. \A o : IsIn(Call(o, r), calls') <=> o = "process"
    BY <1>2, <2>1, EventCalls
  <2>3. r \in Fetches => log[r] = <<>> /\ curl[r] = "none" /\ r \notin piping
    BY <1>1, <2>1 DEF ClientOK, LogOK, Unheard, Young, RequestOK, TransferOK
  <2>4. r \in Fetches => ~Heard(r)'
    BY <1>1, <2>1, <2>2, <2>3 DEF Heard
  <2> QED BY <1>1, <1>2, <1>3, <2>1, <2>3, <2>4, EventClient
<1>5. CASE stop_request(r)
  <2>1. calls' = <<Call("destroy", r)>> /\ \A x \in Requests : SameClient(x)
    BY <1>5 DEF stop_request, requestVars, SameClient
  <2>2. \A c : IsIn(c, <<Call("destroy", r)>>) <=> c = Call("destroy", r)
    BY ShortTurns
  <2>3. \A x \in Requests : \A op \in {"process", "transfer_headers", "pipe", "finish"} :
            ~IsIn(Call(op, x), calls')
    BY <2>1, <2>2, CallFields
  <2> QED BY <1>1, <2>1, <2>3, QuietEvent
<1> QED BY <1>4, <1>5

(* The lookup settles.                                                     *)
LEMMA LookupSettledClient ==
    ASSUME IInv, ClientsOK, NEW r \in Requests, DNSLookupSettled(r)
    PROVE  ClientsOK'
<1>1. /\ Idle /\ state \in [Requests -> States] /\ ClientOK(r) /\ RequestOK(r)
      /\ state[r] \in {"DNSLookup", "Destroyed"}
  BY FieldTypes DEF DNSLookupSettled, IInv, LocalInv, ClientsOK, RequestOK, TransferOK
<1>2. CASE Terminate
  BY <1>2, TerminateClient
<1>3. CASE ~Alive(r) /\ ~Terminate
  <2>1. calls' = <<>> /\ \A x \in Requests : SameClient(x)
    BY <1>1, <1>3 DEF DNSLookupSettled, loopVars, SameClient, Idle
  <2>2. \A c : ~IsIn(c, calls')
    BY <2>1, ShortTurns
  <2> QED BY <1>1, <2>1, <2>2, QuietEvent
<1>4. CASE Alive(r)
  <2>1. /\ log' = log /\ UNCHANGED <<curl, readerRef, piping, headersSent>>
        /\ calls' = <<Call("process", r)>>
        /\ \E s \in AfterLookup(r) : state' = [state EXCEPT ![r] = s]
    BY <1>4 DEF DNSLookupSettled
  <2>2. /\ state[r] = "DNSLookup" /\ \A x \in Requests : x # r => SameClient(x)
        /\ \/ state'[r] = "Error"
           \/ state'[r] = "Fetch" /\ r \notin Connects
           \/ state'[r] = "Complete" /\ r \in Connects
    BY <1>1, <1>4, <2>1 DEF AfterLookup, SameClient, Alive
  <2>3. r \in Connects => r \notin Fetches
    BY RequestAssumption
  <2>4. Inner(r, <<Call("process", r)>>, {"process"}) /\ "process" \in Ops
    BY Inners DEF Ops
  <2>5. \A o : IsIn(Call(o, r), calls') <=> o = "process"
    BY <2>1, <2>4, EventCalls
  <2>6. r \in Fetches => log[r] = <<>> /\ curl[r] = "none" /\ r \notin piping
    BY <1>1, <2>2 DEF ClientOK, LogOK, Unheard, Young, RequestOK, TransferOK
  <2>7. r \in Fetches => ~Heard(r)'
    BY <2>1, <2>2, <2>3, <2>5, <2>6 DEF Heard
  <2>8. Says(r) /\ log'[r] = log[r] /\ (Told("headers", r)' <=> Told("headers", r))
    BY <2>1, Silence
  <2> QED BY <1>1, <2>1, <2>2, <2>4, <2>6, <2>7, <2>8, EventClient
<1> QED BY <1>2, <1>3, <1>4

(* What a revalidation tells its client when its outcome is known.         *)
LEMMA OutcomeClient ==
    ASSUME IInv, ClientsOK, Idle, NEW r \in Requests, is_revalidation_request(r),
           curl[r] \in {"running", "aborted"}, state[r] = "Fetch",
           \A x \in Requests : x # r => curl'[x] = curl[x] /\ state'[x] = state[x],
           UNCHANGED <<piping, headersSent>>, readerRef' = readerRef \ {r},
           curl'[r] # "none", NEW op \in {"write_queued", "settle"},
           \/ /\ inform_client_request_started(r) /\ state'[r] = "Fetch"
              /\ calls' = <<Call("transfer_headers", r), Call(op, r)>>
           \/ /\ log' = log /\ state'[r] = "Error"
              /\ calls' = <<Call("process", r)>>
    PROVE  ClientsOK'
<1>1. ClientOK(r) /\ RequestOK(r) /\ TypeOK /\ r \in readerRef
  BY DEF ClientsOK, IInv, LocalInv, is_revalidation_request
<1>2. /\ r \in Fetches \/ r \in Revalidations
      /\ r \notin Connects /\ r \notin piping
      /\ r \in Fetches => log[r] = <<>>
  BY <1>1, RequestAssumption DEF ClientOK, LogOK, Unheard, RequestOK, TransferOK
<1>3. "process" \in Ops /\ "transfer_headers" \in Ops /\ op \in Ops
  BY DEF Ops
<1>4. CASE /\ inform_client_request_started(r) /\ state'[r] = "Fetch"
           /\ calls' = <<Call("transfer_headers", r), Call(op, r)>>
  <2>1. Inner(r, <<Call("transfer_headers", r), Call(op, r)>>, {"transfer_headers", op})
    BY <1>3, Inners
  <2>2. /\ Says(r) /\ (Told("headers", r)' <=> Told("headers", r))
        /\ \A x \in Requests : x # r => log'[x] = log[x]
        /\ r \in Fetches => log'[r] # <<>>
    BY <1>1, <1>2, <1>4, Informed
  <2>3. ~Unheard(r)' /\ \A x \in Requests : x # r => SameClient(x)
    BY <1>4, <2>2 DEF Unheard, Young, SameClient
  <2> QED BY <1>2, <1>4, <2>1, <2>2, <2>3, EventClient
<1>5. CASE /\ log' = log /\ state'[r] = "Error"
           /\ calls' = <<Call("process", r)>>
  <2>1. Inner(r, <<Call("process", r)>>, {"process"})
    BY <1>3, Inners
  <2>2. \A o : IsIn(Call(o, r), calls') <=> o = "process"
    BY <1>3, <1>5, EventCalls
  <2>3. Says(r) /\ (Told("headers", r)' <=> Told("headers", r))
    BY <1>5, Silence
  <2>4. ~Unheard(r)' /\ ~Heard(r)'
    BY <1>2, <1>5, <2>2 DEF Unheard, Heard, Young
  <2>5. \A x \in Requests : x # r => SameClient(x)
    BY <1>5 DEF SameClient
  <2> QED BY <1>5, <2>1, <2>3, <2>4, <2>5, EventClient
<1> QED BY <1>4, <1>5

(* on_data_received.                                                       *)
LEMMA DataClient ==
    ASSUME IInv, ClientsOK, NEW r \in Requests, on_data_received(r)
    PROVE  ClientsOK'
<1>1. /\ Idle /\ curl[r] = "running" /\ r \notin Connects /\ ClientOK(r)
      /\ state \in [Requests -> States]
      /\ curl \in [Requests -> {"none", "running", "aborted", "done"}]
      /\ UNCHANGED <<piping, headersSent>>
  BY FieldTypes DEF on_data_received, IInv, LocalInv, ClientsOK
<1>2. /\ RequestOK(r) /\ (r \in readerRef <=> is_revalidation_request(r))
      /\ is_revalidation_request(r) => state[r] = "Fetch"
  BY <1>1, CurlCallback
<1>3. CASE is_revalidation_request(r)
  <2>1. /\ readerRef' = readerRef \ {r}
        /\ \/ /\ inform_client_request_started(r) /\ UNCHANGED <<state, curl>>
              /\ calls' = <<Call("transfer_headers", r), Call("write_queued", r)>>
           \/ /\ log' = log /\ calls' = <<Call("process", r)>>
              /\ curl' = [curl EXCEPT ![r] = "aborted"]
              /\ state' = [state EXCEPT ![r] = "Error"]
    BY <1>3 DEF on_data_received, ReplaceStoredResponse, RevalidationFailed
  <2>2. /\ curl'[r] # "none"
        /\ \A x \in Requests : x # r => curl'[x] = curl[x] /\ state'[x] = state[x]
        /\ \/ /\ inform_client_request_started(r) /\ state'[r] = "Fetch"
              /\ calls' = <<Call("transfer_headers", r), Call("write_queued", r)>>
           \/ /\ log' = log /\ state'[r] = "Error"
              /\ calls' = <<Call("process", r)>>
    BY <1>1, <1>2, <1>3, <2>1
  <2> QED BY <1>1, <1>2, <1>3, <2>1, <2>2, OutcomeClient
<1>4. CASE ~is_revalidation_request(r)
  <2>1. /\ UNCHANGED <<state, readerRef, curl>> /\ log' = log
        /\ calls' = <<Call("transfer_headers", r), Call("write_queued", r)>>
    BY <1>4 DEF on_data_received
  <2>2. /\ Inner(r, <<Call("transfer_headers", r), Call("write_queued", r)>>,
                 {"transfer_headers", "write_queued"})
        /\ "transfer_headers" \in Ops /\ "write_queued" \in Ops
    BY Inners DEF Ops
  <2>3. \A o : IsIn(Call(o, r), calls') <=> o = "transfer_headers" \/ o = "write_queued"
    BY <2>1, <2>2, EventCalls
  <2>4. r \notin readerRef /\ state[r] \in {"Fetch", "Connect", "Complete"}
    BY <1>1, <1>2, <1>4 DEF RequestOK, TransferOK
  <2>5. r \in Fetches => log[r] # <<>>
    BY <1>1, <2>4 DEF ClientOK, LogOK, Heard, Alive
  <2>6. ~Unheard(r)' /\ \A x \in Requests : x # r => SameClient(x)
    BY <1>1, <2>1, <2>4 DEF Unheard, Young, SameClient
  <2>7. Says(r) /\ log'[r] = log[r] /\ (Told("headers", r)' <=> Told("headers", r))
    BY <2>1, Silence
  <2> QED BY <1>1, <2>1, <2>2, <2>4, <2>5, <2>6, <2>7, EventClient
<1> QED BY <1>3, <1>4

(* notify_fetch_complete.                                                  *)
LEMMA FetchCompleteClient ==
    ASSUME IInv, ClientsOK, NEW r \in Requests, notify_fetch_complete(r)
    PROVE  ClientsOK'
<1>1. /\ Idle /\ curl[r] \in {"running", "aborted"} /\ ClientOK(r)
      /\ state \in [Requests -> States]
      /\ curl \in [Requests -> {"none", "running", "aborted", "done"}]
      /\ UNCHANGED <<piping, headersSent>>
  BY FieldTypes DEF notify_fetch_complete, IInv, LocalInv, ClientsOK
<1>2. /\ RequestOK(r) /\ (r \in readerRef <=> is_revalidation_request(r))
      /\ is_revalidation_request(r) => state[r] = "Fetch"
  BY <1>1, CurlCallback
<1>3. CASE is_revalidation_request(r)
  <2>1. curl' = [curl EXCEPT ![r] = "done"] /\ (NotModified(r) \/ Modified(r))
    BY <1>3 DEF notify_fetch_complete
  <2>2. curl'[r] = "done" /\ \A x \in Requests : x # r => curl'[x] = curl[x]
    BY <1>1, <2>1
  <2>3. CASE Modified(r)
    <3>1. /\ readerRef' = readerRef \ {r}
          /\ \/ /\ inform_client_request_started(r) /\ UNCHANGED state
                /\ calls' = <<Call("transfer_headers", r), Call("settle", r)>>
             \/ /\ log' = log /\ calls' = <<Call("process", r)>>
                /\ state' = [state EXCEPT ![r] = "Error"]
      BY <2>3 DEF Modified, RevalidationFailed
    <3>2. /\ \A x \in Requests : x # r => curl'[x] = curl[x] /\ state'[x] = state[x]
          /\ \/ /\ inform_client_request_started(r) /\ state'[r] = "Fetch"
                /\ calls' = <<Call("transfer_headers", r), Call("settle", r)>>
             \/ /\ log' = log /\ state'[r] = "Error"
                /\ calls' = <<Call("process", r)>>
      BY <1>1, <1>2, <1>3, <2>2, <3>1
    <3> QED BY <1>1, <1>2, <1>3, <2>2, <3>1, <3>2, OutcomeClient
  <2>4. CASE NotModified(r)
    <3>1. /\ calls' = <<Call("process", r)>> /\ readerRef' = readerRef /\ log' = log
          /\ state' = [state EXCEPT ![r] = IF r \in Revalidations THEN "Complete" ELSE "ReadCache"]
      BY <2>4 DEF NotModified
    <3>2. /\ r \in Fetches => /\ r \notin Revalidations /\ log[r] = <<>> /\ r \notin piping
      BY <1>1, <1>2, <1>3, RequestAssumption
      DEF ClientOK, LogOK, Unheard, RequestOK, TransferOK
    <3>3. /\ r \in Fetches => state'[r] = "ReadCache"
          /\ state'[r] # "Fetch"
          /\ \A x \in Requests : x # r => SameClient(x)
      BY <1>1, <2>2, <3>1, <3>2 DEF SameClient
    <3>4. Inner(r, <<Call("process", r)>>, {"process"}) /\ "process" \in Ops
      BY Inners DEF Ops
    <3>5. \A o : IsIn(Call(o, r), calls') <=> o = "process"
      BY <3>1, <3>4, EventCalls
    <3>6. r \in Fetches => ~Heard(r)'
      BY <1>1, <1>2, <1>3, <3>1, <3>2, <3>3, <3>5 DEF Heard
    <3>7. Says(r) /\ log'[r] = log[r] /\ (Told("headers", r)' <=> Told("headers", r))
      BY <3>1, Silence
    <3> QED BY <1>1, <1>2, <1>3, <3>1, <3>2, <3>3, <3>4, <3>6, <3>7, EventClient
  <2> QED BY <2>1, <2>3, <2>4
<1>4. CASE ~is_revalidation_request(r)
  <2>1. calls' = <<Call("settle", r)>> /\ \A x \in Requests : SameClient(x)
    BY <1>4 DEF notify_fetch_complete, SameClient
  <2>2. \A c : IsIn(c, <<Call("settle", r)>>) <=> c = Call("settle", r)
    BY ShortTurns
  <2>3. \A x \in Requests : \A op \in {"process", "transfer_headers", "pipe", "finish"} :
            ~IsIn(Call(op, x), calls')
    BY <2>1, <2>2, CallFields
  <2> QED BY <1>1, <2>1, <2>3, QuietEvent
<1> QED BY <1>3, <1>4

(* Events that touch no request: a writable pipe, a queued turn, a client  *)
(* that goes away and the requests it leaves behind.                       *)
LEMMA QuietEvents ==
    ASSUME IInv, ClientsOK,
           \/ \E r \in Requests : ClientPipeWritable(r) \/ ReaderPipeWritable(r)
           \/ dispatch
           \/ \E c \in Clients : disconnect(c)
    PROVE  ClientsOK'
<1>1. Idle /\ calls = <<>> /\ \A x \in Requests : SameClient(x)
  BY DEF ClientPipeWritable, ReaderPipeWritable, dispatch, DispatchQueuedEvent, disconnect,
         requestVars, SameClient, Idle
<1>2. \A c : ~IsIn(c, <<>>)
  BY ShortTurns
<1>3. CASE \E r \in Requests : ClientPipeWritable(r) \/ ReaderPipeWritable(r)
  <2>1. calls' = <<>>
    BY <1>1, <1>3 DEF ClientPipeWritable, ReaderPipeWritable
  <2> QED BY <1>1, <1>2, <2>1, QuietEvent
<1>4. CASE dispatch
  <2>1. /\ queued_events # <<>> /\ queued_events \in Seq(Seq(Calls))
        /\ calls' = Head(queued_events) /\ QueueOK(calls, queued_events)
    BY <1>4 DEF dispatch, DispatchQueuedEvent, IInv, LocalInv, TypeOK, LoopTypeOK, TurnsOK
  <2>2. \A c : IsIn(c, calls') => Queued(c, queued_events)
    BY <2>1, FirstTurn
  <2>3. ASSUME NEW x \in Requests, NEW op \in {"process", "transfer_headers", "pipe", "finish"}
        PROVE  ~IsIn(Call(op, x), calls')
    <3>1. op \in Ops
      BY DEF Ops
    <3>2. Call(op, x) \in Calls /\ Call(op, x).op = op
      BY <3>1, CallType, CallFields
    <3> QED BY <2>1, <2>2, <3>2 DEF QueueOK
  <2> QED BY <1>1, <2>3, QuietEvent
<1>5. CASE \E c \in Clients : disconnect(c)
  <2>1. PICK c \in Clients : calls' = <<Call("die", c)>>
    BY <1>5 DEF disconnect
  <2>2. \A d : IsIn(d, <<Call("die", c)>>) <=> d = Call("die", c)
    BY ShortTurns
  <2>3. \A x \in Requests : \A op \in {"process", "transfer_headers", "pipe", "finish"} :
            ~IsIn(Call(op, x), calls')
    BY <2>1, <2>2, CallFields
  <2> QED BY <1>1, <2>3, QuietEvent
<1> QED BY <1>3, <1>4, <1>5

(* die calls nobody but destroy.                                           *)
LEMMA DieCalls ==
    ASSUME IInv, NEW c \in Clients, die(c)
    PROVE  \A x : \A op \in {"process", "transfer_headers", "pipe", "finish"} :
               IsIn(Call(op, x), calls') <=> IsIn(Call(op, x), calls)
<1>1. calls # <<>> /\ Head(calls) = Call("die", c) /\ calls \in Seq(Calls)
  BY DEF die, Calling, IInv, LocalInv, TypeOK, LoopTypeOK
<1>2. \A o, y, p, z : Call(o, y) = Call(p, z) <=> o = p /\ y = z
  BY CallFields
<1>3. /\ \A d : IsIn(d, calls) <=> d = Call("die", c) \/ IsIn(d, Tail(calls))
      /\ Tail(calls) \in Seq(Calls)
  BY <1>1, FirstCall
<1>4. CASE Return
  <2>1. calls' = <<>> \o Tail(calls)
    BY <1>4 DEF Return, Then
  <2>2. calls' = Tail(calls)
    BY <1>3, <2>1, ConcatEmptySeq
  <2> QED BY <1>2, <1>3, <2>2
<1>5. ASSUME NEW r \in Requests, calls' = <<Call("destroy", r)>> \o calls
      PROVE  \A x : \A op \in {"process", "transfer_headers", "pipe", "finish"} :
                 IsIn(Call(op, x), calls') <=> IsIn(Call(op, x), calls)
  <2>1. "destroy" \in Ops
    BY DEF Ops
  <2>2. Call("destroy", r) \in Calls
    BY <2>1, CallType
  <2>3. /\ <<Call("destroy", r)>> \in Seq(Calls)
        /\ \A d : IsIn(d, <<Call("destroy", r)>>) <=> d = Call("destroy", r)
    <3>1. <<Call("destroy", r)>> \in Seq(Calls)
      BY <2>2
    <3> QED BY <3>1, ShortTurns
  <2>4. \A d : IsIn(d, calls') <=> d = Call("destroy", r) \/ IsIn(d, calls)
    BY <1>1, <1>5, <2>3, JoinedTurns
  <2> QED BY <1>2, <2>4
<1> QED BY <1>4, <1>5 DEF die

(* die.                                                                    *)
LEMMA DieClient ==
    ASSUME IInv, ClientsOK, NEW c \in Clients, die(c)
    PROVE  ClientsOK'
<1>1. /\ calls # <<>> /\ Head(calls) = Call("die", c)
      /\ \A x \in Requests : SameClient(x)
  BY DEF die, Calling, requestVars, SameClient
<1>2. \A o, y, p, z : Call(o, y) = Call(p, z) <=> o = p /\ y = z
  BY CallFields
<1>3. ASSUME NEW x \in Requests PROVE ClientOK(x)' /\ InProtocol(log'[x])
  <2>1. SameCalls(x)
    BY <1>1, <1>2, DieCalls DEF SameCalls, Calling
  <2>2. SameClient(x) /\ log'[x] = log[x]
    BY <1>1 DEF SameClient
  <2> QED BY <2>1, <2>2, ClientUnaffected DEF ClientsOK
<1> QED BY <1>3 DEF ClientsOK

(* Every step keeps the invariant of the clients.                          *)
LEMMA ClientsKept == IInv /\ ClientsOK /\ [Next]_vars => ClientsOK'
<1> SUFFICES ASSUME IInv, ClientsOK, [Next]_vars PROVE ClientsOK'
  OBVIOUS
<1>1. ASSUME NEW r \in Requests, RequestCall(r) PROVE ClientsOK'
  BY <1>1, InitialClient, ReadCacheClient, WaitAndConnectClient, LookupClient, FetchClient,
     CompleteClient, ErrorClient, UnblockClient, HeadersClient, WriteClient, PipeClient,
     ReaderPipeClient, SettleClient, FinishClient, EndClient
  DEF RequestCall
<1>2. ASSUME NEW c \in Clients, die(c) PROVE ClientsOK'
  BY <1>2, DieClient
<1>3. ASSUME NEW r \in Requests, RequestEvent(r) PROVE ClientsOK'
  BY <1>3, MessageClient, LookupSettledClient, DataClient, FetchCompleteClient, QuietEvents
  DEF RequestEvent
<1>4. CASE dispatch \/ \E c \in Clients : disconnect(c)
  BY <1>4, QuietEvents
<1>5. CASE remove_cache_entries_accessed_since \/ UNCHANGED vars
  <2>1. UNCHANGED <<calls, state, curl, log, readerRef, piping, headersSent>>
    BY <1>5 DEF remove_cache_entries_accessed_since, vars, loopVars, requestVars
  <2>2. ASSUME NEW x \in Requests PROVE ClientOK(x)' <=> ClientOK(x)
    BY <2>1 DEF ClientOK, LogOK, Unheard, Heard, Told, Alive, Calling
  <2>3. \A x \in Requests : InProtocol(log'[x])
    BY <2>1 DEF ClientsOK
  <2> QED BY <2>2, <2>3 DEF ClientsOK
<1>6. CASE crash
  BY <1>6, TerminateClient DEF crash
<1> QED BY <1>1, <1>2, <1>3, <1>4, <1>5, <1>6 DEF Next, Turn

(* A client is told of a request first, and once, that it started; of its  *)
(* headers once; of its success only after both.                           *)
THEOREM ClientsAreToldInOrder == Spec => []ClientProtocol
<1>1. Init => ClientsOK
  <2> SUFFICES ASSUME Init, NEW r \in Requests PROVE ClientOK(r) /\ InProtocol(log[r])
    BY DEF ClientsOK
  <2>1. /\ log[r] = <<>> /\ calls = <<>> /\ headersSent = {} /\ state[r] = "Unborn"
        /\ \A c : ~IsIn(c, <<>>)
    BY ShortTurns DEF Init, LoopInit
  <2>2. InProtocol(log[r])
    BY <2>1 DEF InProtocol
  <2>3. ClientOK(r)
    BY <2>1 DEF ClientOK, LogOK, Heard, Alive, Told
  <2> QED BY <2>2, <2>3
<1>2. IInv /\ ClientsOK /\ [Next]_vars => ClientsOK'
  BY ClientsKept
<1>3. ClientsOK => ClientProtocol
  BY DEF ClientsOK, ClientProtocol, InProtocol
<1> QED BY <1>1, <1>2, <1>3, TurnsAndRequestsFit, PTL DEF Spec

-----------------------------------------------------------------------------
(* The VERIFYs of the handlers.  A handler of the running turn is one of a *)
(* state the request is in, and finish has a result code to look at.       *)
NoVerifyFails ==
    calls # << >> =>
        \/ \E c \in Clients : Calling("die", c)
        \/ \E r \in Requests, op \in Ops :
              /\ Calling(op, r)
              /\ op = "process" => Alive(r)
              /\ op = "finish" => result[r] # "none"

(* A fetch has its result code from when it is complete until it ends.     *)
ResultOK(r) ==
    /\ r \in Fetches /\ state[r] = "Complete" => result[r] # "none"
    /\ IsIn(Call("finish", r), calls) => result[r] # "none"

ResultsOK == \A r \in Requests : ResultOK(r)

(* Steps that complete no fetch, and finish none, without a result code.   *)
KeepsResult(x) ==
    /\ IsIn(Call("finish", x), calls') =>
           /\ IsIn(Call("finish", x), calls) \/ result'[x] # "none"
           /\ result[x] # "none" => result'[x] # "none"
    /\ x \in Fetches /\ state'[x] = "Complete" =>
           \/ result'[x] # "none"
           \/ state[x] = "Complete" /\ result'[x] = result[x]

(* They keep the invariant.                                                *)
LEMMA ResultsKept ==
    ASSUME ResultsOK, \A x \in Requests : KeepsResult(x)
    PROVE  ResultsOK'
BY DEF ResultsOK, ResultOK, KeepsResult

(* What a handler of r does, as far as results are concerned: it makes no  *)
(* call of finish without one, and completes no fetch without one.         *)
LEMMA ResultCall ==
    ASSUME IInv, ResultsOK, NEW r \in Requests, NEW op \in Ops, Calling(op, r),
           NEW inner, NEW made, Inner(r, inner, made), Then(inner),
           \A x \in Requests : x # r => state'[x] = state[x] /\ result'[x] = result[x],
           "finish" \in made => result'[r] # "none",
           op \in Ends \/ result'[r] = result[r] \/ result'[r] # "none",
           r \in Fetches /\ state'[r] = "Complete" =>
               result'[r] # "none" \/ (state[r] = "Complete" /\ result'[r] = result[r])
    PROVE  ResultsOK'
<1>1. /\ \A o : IsIn(Call(o, r), calls') => o \in made \/ IsIn(Call(o, r), calls)
      /\ op \in Ends => \A o : IsIn(Call(o, r), calls') => o \in made \cup Ends \cup {"close"}
      /\ \A x \in Requests : x # r => SameCalls(x)
  BY AfterCall
<1>2. ASSUME NEW x \in Requests, x # r PROVE KeepsResult(x)
  BY <1>1, <1>2 DEF KeepsResult, SameCalls
<1>3. ASSUME IsIn(Call("finish", r), calls')
      PROVE  /\ IsIn(Call("finish", r), calls) \/ result'[r] # "none"
             /\ result[r] # "none" => result'[r] # "none"
  <2>1. "finish" \in made \/ IsIn(Call("finish", r), calls)
    BY <1>1, <1>3
  <2>2. op \in Ends => "finish" \in made
    BY <1>1, <1>3 DEF Ends
  <2> QED BY <2>1, <2>2
<1>4. KeepsResult(r)
  BY <1>3 DEF KeepsResult
<1> QED BY <1>2, <1>4, ResultsKept

(* A handler that leaves the result code alone, makes no call of finish    *)
(* and completes no fetch that has none.                                   *)
LEMMA PlainCall ==
    ASSUME IInv, ResultsOK, NEW r \in Requests, NEW op \in Ops, Calling(op, r),
           NEW inner, NEW made, Inner(r, inner, made), Then(inner), "finish" \notin made,
           result' = result,
           \/ state' = state
           \/ \E s \in States : /\ state' = [state EXCEPT ![r] = s]
                                /\ r \in Fetches /\ s = "Complete" => result[r] # "none"
    PROVE  ResultsOK'
<1>1. state \in [Requests -> States]
  BY FieldTypes DEF IInv, LocalInv
<1>2. CASE state' = state
  BY <1>2, ResultCall
<1>3. ASSUME NEW s \in States, state' = [state EXCEPT ![r] = s],
             r \in Fetches /\ s = "Complete" => result[r] # "none"
      PROVE  ResultsOK'
  <2>1. state'[r] = s /\ \A x \in Requests : x # r => state'[x] = state[x]
    BY <1>1, <1>3
  <2> QED BY <1>3, <2>1, ResultCall
<1> QED BY <1>2, <1>3

(* The same, for a handler that enters a state or returns.                 *)
LEMMA PlainCalls ==
    ASSUME IInv, ResultsOK, NEW r \in Requests, NEW op \in Ops, Calling(op, r), result' = result
    PROVE  /\ Return /\ state' = state => ResultsOK'
           /\ \A s \in States :
                  /\ Enter(r, s)
                  /\ r \in Fetches /\ s = "Complete" => result[r] # "none"
                  => ResultsOK'
           /\ \A a, b \in Ops \ {"finish"} :
                  /\ Then(<<Call(a, r)>>) \/ Then(<<Call(a, r), Call(b, r)>>)
                  /\ \/ state' = state
                     \/ state' = [state EXCEPT ![r] = "Error"]
                  => ResultsOK'
<1>1. "process" \in Ops /\ "Error" \in States
  BY DEF Ops, States
<1>2. \A a, b \in Ops : /\ Inner(r, <<>>, {})
                        /\ Inner(r, <<Call(a, r)>>, {a})
                        /\ Inner(r, <<Call(a, r), Call(b, r)>>, {a, b})
  BY Inners
<1>3. ASSUME Return, state' = state PROVE ResultsOK'
  <2>1. Inner(r, <<>>, {}) /\ Then(<<>>)
    BY <1>1, <1>2, <1>3 DEF Return
  <2> QED BY <1>3, <2>1, PlainCall
<1>4. ASSUME NEW s \in States, Enter(r, s), r \in Fetches /\ s = "Complete" => result[r] # "none"
      PROVE  ResultsOK'
  <2>1. Inner(r, <<Call("process", r)>>, {"process"}) /\ Then(<<Call("process", r)>>)
    BY <1>1, <1>2, <1>4 DEF Enter
  <2>2. state' = [state EXCEPT ![r] = s]
    BY <1>4 DEF Enter
  <2> QED BY <1>4, <2>1, <2>2, PlainCall
<1>5. ASSUME NEW a \in Ops \ {"finish"}, NEW b \in Ops \ {"finish"},
             Then(<<Call(a, r)>>) \/ Then(<<Call(a, r), Call(b, r)>>),
             state' = state \/ state' = [state EXCEPT ![r] = "Error"]
      PROVE  ResultsOK'
  <2>1. \E s \in States : /\ s # "Complete"
                          /\ state' = state \/ state' = [state EXCEPT ![r] = s]
    BY <1>1, <1>5
  <2>2. CASE Then(<<Call(a, r)>>)
    BY <1>2, <1>5, <2>1, <2>2, PlainCall
  <2>3. CASE Then(<<Call(a, r), Call(b, r)>>)
    BY <1>2, <1>5, <2>1, <2>3, PlainCall
  <2> QED BY <1>5, <2>2, <2>3
<1> QED BY <1>3, <1>4, <1>5

(* A process that ends has nothing to finish.                              *)
LEMMA TerminateResults ==
    ASSUME IInv, Terminate
    PROVE  ResultsOK'
<1>1. calls' = <<>> /\ \A c : ~IsIn(c, <<>>)
  BY ShortTurns DEF Terminate
<1>2. \A x \in Requests : state'[x] # "Complete"
  BY DEF Terminate, Alive
<1> QED BY <1>1, <1>2 DEF ResultsOK, ResultOK

(* The handlers that only look at a state and go on, and the end of a      *)
(* request that only closes its entry.                                     *)
LEMMA PlainResults ==
    ASSUME IInv, ResultsOK, NEW r \in Requests,
           \/ handle_read_cache_state(r) \/ handle_wait_for_cache_state(r)
           \/ handle_dns_lookup_state(r) \/ handle_connect_state(r) \/ handle_fetch_state(r)
           \/ handle_error_state(r) \/ notify_request_unblocked(r)
           \/ transfer_headers_to_client_if_needed(r) \/ close(r) \/ remove_request(r)
    PROVE  ResultsOK'
<1>1. /\ {"process", "unblock", "transfer_headers", "pipe", "close", "remove", "destroy"}
             \subseteq Ops \ {"finish"}
      /\ {"Init", "Error", "Fetch", "Complete"} \subseteq States
  BY DEF Ops, States
<1>2. result' = result
  BY DEF handle_read_cache_state, handle_wait_for_cache_state, handle_dns_lookup_state,
         handle_connect_state, handle_fetch_state, handle_error_state, notify_request_unblocked,
         transfer_headers_to_client_if_needed, close, remove_request, requestVars
<1>3. PICK op \in Ops : Calling(op, r)
  BY <1>1 DEF handle_read_cache_state, handle_wait_for_cache_state, handle_dns_lookup_state,
         handle_connect_state, handle_fetch_state, handle_error_state, notify_request_unblocked,
         transfer_headers_to_client_if_needed, close, remove_request, Processing
<1>4. /\ Return /\ state' = state => ResultsOK'
      /\ \A s \in States : Enter(r, s) /\ (r \in Fetches => s # "Complete") => ResultsOK'
      /\ \A a, b \in Ops \ {"finish"} :
             (Then(<<Call(a, r)>>) \/ Then(<<Call(a, r), Call(b, r)>>)) /\ state' = state
                 => ResultsOK'
  BY <1>2, <1>3, PlainCalls
<1>5. CASE handle_read_cache_state(r)
  BY <1>1, <1>4, <1>5 DEF handle_read_cache_state
<1>6. CASE handle_dns_lookup_state(r)
  <2>1. \A s \in AfterLookup(r) : s \in States /\ (r \in Fetches => s # "Complete")
    BY <1>1, RequestAssumption DEF AfterLookup
  <2> QED BY <1>4, <1>6, <2>1 DEF handle_dns_lookup_state
<1>7. CASE handle_fetch_state(r)
  BY <1>1, <1>4, <1>7 DEF handle_fetch_state
<1>8. CASE notify_request_unblocked(r)
  BY <1>1, <1>4, <1>8 DEF notify_request_unblocked
<1>9. CASE remove_request(r)
  BY <1>1, <1>4, <1>9 DEF remove_request, requestVars
<1>10. CASE \/ handle_wait_for_cache_state(r) \/ handle_connect_state(r) \/ handle_error_state(r)
            \/ transfer_headers_to_client_if_needed(r) \/ close(r)
  BY <1>4, <1>10 DEF handle_wait_for_cache_state, handle_connect_state, handle_error_state,
                     transfer_headers_to_client_if_needed, close, requestVars
<1> QED BY <1>5, <1>6, <1>7, <1>8, <1>9, <1>10

(* The start of a request that is to be revalidated in the background: two *)
(* requests go on, neither of them to its end.                             *)
LEMMA StaleResults ==
    ASSUME IInv, ResultsOK, NEW r \in Fetches, Processing(r, "Init"),
           InitReader(r, "stale_while_revalidate"), result' = result
    PROVE  ResultsOK'
<1> DEFINE b == Background[r]
           inner == <<Call("process", b), Call("process", r)>>
<1>1. /\ r \in Requests /\ b \in Requests /\ b # r /\ "process" \in Ops
      /\ Calling("process", r) /\ state \in [Requests -> States]
  <2>1. r \in Requests /\ b \in Requests /\ b # r
    BY RequestAssumption DEF Revalidations
  <2>2. "process" \in Ops /\ Calling("process", r)
    BY DEF Ops, Processing
  <2>3. state \in [Requests -> States]
    BY DEF IInv, LocalInv, TypeOK, RequestTypeOK
  <2> QED BY <2>1, <2>2, <2>3
<1>2. /\ calls' = inner \o Tail(calls)
      /\ state' = [state EXCEPT ![r] = "ReadCache", ![b] = "Init"]
  BY DEF InitReader, Then
<1>3. /\ calls # <<>> /\ calls \in Seq(Calls) /\ Tail(calls) \in Seq(Calls)
      /\ \A c : IsIn(c, Tail(calls)) => IsIn(c, calls)
  BY <1>1, Called, FirstCall
<1>4. \A c : IsIn(c, inner) <=> c = Call("process", b) \/ c = Call("process", r)
  BY ShortTurns
<1>5. inner \in Seq(Calls)
  <2>1. Call("process", b) \in Calls /\ Call("process", r) \in Calls
    BY <1>1, CallType
  <2> QED BY <2>1
<1> HIDE DEF inner
<1>6. \A x : IsIn(Call("finish", x), calls') => IsIn(Call("finish", x), calls)
  <2>1. \A c : IsIn(c, calls') <=> IsIn(c, inner) \/ IsIn(c, Tail(calls))
    BY <1>2, <1>3, <1>5, JoinedTurns
  <2>2. \A x, y : Call("finish", x) # Call("process", y)
    BY CallFields
  <2> QED BY <1>3, <1>4, <2>1, <2>2
<1>7. \A x \in Requests : state'[x] = "Complete" => state[x] = "Complete"
  BY <1>1, <1>2
<1>8. \A x \in Requests : KeepsResult(x)
  BY <1>6, <1>7 DEF KeepsResult
<1> QED BY <1>8, ResultsKept

(* handle_initial_state.                                                   *)
LEMMA InitialResults ==
    ASSUME IInv, ResultsOK, NEW r \in Requests, handle_initial_state(r)
    PROVE  ResultsOK'
<1>1. Processing(r, "Init") /\ Calling("process", r) /\ "process" \in Ops /\ result' = result
  BY DEF handle_initial_state, Processing, Ops
<1>2. PICK o \in open_entry(r, r \in Revalidations, Locking) :
        \/ InitBlocked(r)
        \/ o.answer \in Readers /\ InitReader(r, o.answer)
        \/ InitUncached(r, "DNSLookup") \/ InitWriter(r)
        \/ r \in Revalidations /\ InitUncached(r, "Complete")
  BY DEF handle_initial_state
<1>3. ASSUME NEW s \in {"WaitForCache", "DNSLookup", "ReadCache", "Complete"}, Enter(r, s),
             s = "Complete" => r \in Revalidations
      PROVE  ResultsOK'
  <2>1. s \in States /\ (r \in Fetches => r \notin Revalidations)
    BY RequestAssumption DEF States
  <2> QED BY <1>1, <1>3, <2>1, PlainCalls
<1>4. CASE \/ InitBlocked(r) \/ InitUncached(r, "DNSLookup") \/ InitWriter(r)
           \/ r \in Revalidations /\ InitUncached(r, "Complete")
  BY <1>3, <1>4 DEF InitBlocked, InitUncached, InitWriter
<1>5. CASE o.answer \in Readers /\ InitReader(r, o.answer)
  <2>1. r \in Cacheable /\ (o.answer = "stale_while_revalidate" => r \notin Revalidations)
    BY <1>5, OpenEntryType DEF IInv, LocalInv, TypeOK
  <2>2. CASE o.answer = "stale_while_revalidate"
    <3>1. r \in Fetches
      BY <2>1, <2>2, RequestAssumption
    <3> QED BY <1>1, <1>5, <2>2, <3>1, StaleResults
  <2>3. CASE o.answer # "stale_while_revalidate"
    BY <1>3, <1>5, <2>3 DEF InitReader
  <2> QED BY <2>2, <2>3
<1> QED BY <1>2, <1>4, <1>5

(* The body is sent: write_queued_bytes_without_blocking completes the     *)
(* request only if it has a result code.                                   *)
LEMMA WriteResults ==
    ASSUME IInv, ResultsOK, NEW r \in Requests,
           write_queued_bytes_without_blocking(r) \/ on_client_pipe_writable(r)
    PROVE  ResultsOK'
<1>1. result' = result /\ "Complete" \in States
  BY DEF write_queued_bytes_without_blocking, on_client_pipe_writable, States
<1>2. PICK op \in Ops : Calling(op, r)
  BY DEF write_queued_bytes_without_blocking, on_client_pipe_writable, Ops
<1>3. \/ Return /\ state' = state
      \/ result[r] # "none" /\ Enter(r, "Complete")
  BY DEF write_queued_bytes_without_blocking, on_client_pipe_writable, WriteAll, WriteSome,
         WriteNothing, WriteFails, CompleteIfDrained
<1> QED BY <1>1, <1>2, <1>3, PlainCalls

(* The stored body is sent.                                                *)
LEMMA PipeResults ==
    ASSUME IInv, ResultsOK, NEW r \in Requests,
           pipe_without_blocking(r) \/ on_reader_pipe_writable(r)
    PROVE  ResultsOK'
<1>1. {"pipe", "pipe_activate", "process", "close"} \subseteq Ops \ {"finish"}
  BY DEF Ops
<1>2. CASE Terminate
  BY <1>2, TerminateResults
<1>3. CASE on_reader_pipe_writable(r) /\ ~Terminate
  <2>1. /\ result' = result /\ state' = state /\ Calling("pipe_activate", r)
        /\ Return \/ Then(<<Call("pipe", r)>>) \/ Then(<<Call("close", r)>>)
    BY <1>3 DEF on_reader_pipe_writable, requestVars
  <2> QED BY <1>1, <2>1, PlainCalls
<1>4. CASE pipe_without_blocking(r) /\ ~Terminate
  <2>1. Calling("pipe", r) /\ (PipeComplete(r) \/ PipeBlocked(r) \/ PipeError(r))
    BY <1>4 DEF pipe_without_blocking, PipeOverruns
  <2>2. CASE PipeBlocked(r)
    BY <1>1, <2>1, <2>2, PlainCalls DEF PipeBlocked
  <2>3. CASE PipeError(r)
    BY <1>1, <2>1, <2>3, PlainCalls DEF PipeError
  <2>4. CASE PipeComplete(r)
    <3>1. /\ result' = [result EXCEPT ![r] = "ok"] /\ state' = [state EXCEPT ![r] = "Complete"]
          /\ Then(<<Call("process", r), Call("close", r)>>)
      BY <2>4 DEF PipeComplete
    <3>2. /\ state \in [Requests -> States]
          /\ result \in [Requests -> {"none", "ok", "recv_error", "error"}]
      BY DEF IInv, LocalInv, TypeOK, RequestTypeOK
    <3>3. /\ result'[r] # "none"
          /\ \A x \in Requests : x # r => state'[x] = state[x] /\ result'[x] = result[x]
      BY <3>1, <3>2
    <3>4. Inner(r, <<Call("process", r), Call("close", r)>>, {"process", "close"})
      BY <1>1, Inners
    <3> QED BY <1>1, <2>1, <3>1, <3>3, <3>4, ResultCall
  <2> QED BY <2>1, <2>2, <2>3, <2>4
<1> QED BY <1>2, <1>3, <1>4

(* A fetch that is complete is finished with its result code.              *)
LEMMA EndResults ==
    ASSUME IInv, ResultsOK, NEW r \in Requests,
           handle_complete_state(r) \/ settle(r) \/ finish(r) \/ destroy(r)
    PROVE  ResultsOK'
<1>1. /\ state \in [Requests -> States] /\ ResultOK(r)
      /\ result \in [Requests -> {"none", "ok", "recv_error", "error"}]
  BY DEF IInv, LocalInv, TypeOK, RequestTypeOK, ResultsOK
<1>2. /\ {"process", "transfer_headers", "settle", "finish", "close", "destroy"} \subseteq Ops
      /\ "destroy" \in Ends /\ "Complete" \in States
  BY DEF Ops, Ends, States
<1>3. /\ Inner(r, <<>>, {})
      /\ Inner(r, <<Call("process", r)>>, {"process"})
      /\ Inner(r, <<Call("close", r)>>, {"close"})
      /\ Inner(r, <<Call("transfer_headers", r), Call("finish", r)>>, {"transfer_headers", "finish"})
  BY <1>2, Inners
<1>4. CASE handle_complete_state(r)
  <2>1. /\ Calling("process", r) /\ state[r] = "Complete" /\ UNCHANGED <<state, result>>
        /\ \/ r \in Fetches /\ Then(<<Call("transfer_headers", r), Call("finish", r)>>)
           \/ Return
    BY <1>4 DEF handle_complete_state, Processing, requestVars
  <2>2. CASE r \in Fetches /\ Then(<<Call("transfer_headers", r), Call("finish", r)>>)
    <3>1. result'[r] # "none"
      BY <1>1, <2>1, <2>2 DEF ResultOK
    <3> QED BY <1>2, <1>3, <2>1, <2>2, <3>1, ResultCall
  <2>3. CASE Return
    BY <1>2, <2>1, <2>3, PlainCalls
  <2> QED BY <2>1, <2>2, <2>3
<1>5. CASE settle(r)
  <2>1. /\ Calling("settle", r) /\ \E code \in ResultCodes(r) : result' = [result EXCEPT ![r] = code]
        /\ \/ Return /\ state' = state
           \/ Enter(r, "Complete")
    BY <1>5 DEF settle
  <2>2. "none" \notin ResultCodes(r)
    BY DEF ResultCodes
  <2>3. result'[r] # "none" /\ \A x \in Requests : x # r => result'[x] = result[x]
    BY <1>1, <2>1, <2>2
  <2>4. \A x \in Requests : x # r => state'[x] = state[x]
    BY <1>1, <2>1 DEF Enter
  <2>5. Then(<<>>) \/ Then(<<Call("process", r)>>)
    BY <2>1 DEF Return, Enter
  <2> QED BY <1>2, <1>3, <2>1, <2>3, <2>4, <2>5, ResultCall
<1>6. CASE finish(r)
  <2>1. /\ Calling("finish", r) /\ Then(<<>>) /\ state' = state
        /\ result' = result \/ result' = [result EXCEPT ![r] = "ok"]
    BY <1>6 DEF finish, Return
  <2>2. /\ result'[r] = result[r] \/ result'[r] # "none"
        /\ \A x \in Requests : x # r => result'[x] = result[x]
    BY <1>1, <2>1
  <2>3. r \in Fetches /\ state'[r] = "Complete" => result'[r] # "none"
    BY <1>1, <2>1, <2>2 DEF ResultOK
  <2> QED BY <1>2, <1>3, <2>1, <2>2, <2>3, ResultCall
<1>7. CASE destroy(r)
  <2>1. state' = [state EXCEPT ![r] = "Destroyed"] /\ result' = [result EXCEPT ![r] = "none"]
    BY <1>7 DEF destroy
  <2>2. /\ state'[r] = "Destroyed"
        /\ \A x \in Requests : x # r => state'[x] = state[x] /\ result'[x] = result[x]
    BY <1>1, <2>1
  <2>3. Calling("destroy", r) /\ (Then(<<>>) \/ Then(<<Call("close", r)>>))
    BY <1>7 DEF destroy, flush, Return
  <2> QED BY <1>2, <1>3, <2>2, <2>3, ResultCall
<1> QED BY <1>4, <1>5, <1>6, <1>7

(* Events complete no fetch, and none of them starts with a finish.        *)
LEMMA ResultEvent ==
    ASSUME ResultsOK, result' = result,
           \A x \in Fetches : state'[x] = "Complete" => state[x] = "Complete",
           \A x \in Requests :
               IsIn(Call("finish", x), calls') => IsIn(Call("finish", x), calls)
    PROVE  ResultsOK'
BY ResultsKept DEF KeepsResult

(* The events of a request.                                                *)
LEMMA EventResults ==
    ASSUME IInv, ResultsOK, NEW r \in Requests, RequestEvent(r)
    PROVE  ResultsOK'
<1>1. CASE Terminate
  BY <1>1, TerminateResults
<1>2. CASE ~Terminate
  <2>1. state \in [Requests -> States]
    BY DEF IInv, LocalInv, TypeOK, RequestTypeOK
  <2>2. /\ r \in Fetches => r \notin Connects /\ r \notin Revalidations
        /\ \A s \in AfterLookup(r) : s = "Complete" => r \in Connects
    BY RequestAssumption DEF AfterLookup
  <2>3. result' = result
    BY <1>2 DEF RequestEvent, start_request, ensure_connection, stop_request, DNSLookupSettled,
                on_data_received, notify_fetch_complete, ClientPipeWritable, ReaderPipeWritable,
                requestVars
  <2>4. \/ state' = state
        \/ \E s : /\ state' = [state EXCEPT ![r] = s]
                  /\ r \in Fetches => s # "Complete"
    <3>1. CASE start_request(r) \/ ensure_connection(r) \/ stop_request(r)
      BY <3>1 DEF start_request, ensure_connection, stop_request, requestVars
    <3>2. CASE DNSLookupSettled(r)
      BY <1>2, <2>2, <3>2 DEF DNSLookupSettled
    <3>3. CASE on_data_received(r)
      BY <3>3 DEF on_data_received, ReplaceStoredResponse
    <3>4. CASE notify_fetch_complete(r)
      BY <2>2, <3>4 DEF notify_fetch_complete, NotModified, Modified
    <3>5. CASE ClientPipeWritable(r) \/ ReaderPipeWritable(r)
      BY <3>5 DEF ClientPipeWritable, ReaderPipeWritable, requestVars
    <3> QED BY <3>1, <3>2, <3>3, <3>4, <3>5 DEF RequestEvent
  <2>5. \A x \in Fetches : state'[x] = "Complete" => state[x] = "Complete"
    BY <2>1, <2>4, RequestAssumption
  <2>6. \/ calls' = <<>>
        \/ \E a, b \in {"process", "destroy", "transfer_headers", "write_queued", "settle"} :
               calls' = <<Call(a, r)>> \/ calls' = <<Call(a, r), Call(b, r)>>
    <3>1. CASE start_request(r) \/ ensure_connection(r) \/ stop_request(r)
      BY <3>1 DEF start_request, ensure_connection, stop_request
    <3>2. CASE DNSLookupSettled(r)
      BY <1>2, <3>2 DEF DNSLookupSettled, Idle, loopVars
    <3>3. CASE on_data_received(r)
      BY <3>3 DEF on_data_received, ReplaceStoredResponse
    <3>4. CASE notify_fetch_complete(r)
      BY <3>4 DEF notify_fetch_complete, NotModified, Modified
    <3>5. CASE ClientPipeWritable(r) \/ ReaderPipeWritable(r)
      BY <3>5 DEF ClientPipeWritable, ReaderPipeWritable, Idle
    <3> QED BY <3>1, <3>2, <3>3, <3>4, <3>5 DEF RequestEvent
  <2>7. \A x : ~IsIn(Call("finish", x), calls')
    <3>1. \A x, y, o : Call("finish", x) = Call(o, y) => o = "finish"
      BY CallFields
    <3>2. CASE calls' = <<>>
      BY <3>2, ShortTurns
    <3>3. ASSUME NEW a \in {"process", "destroy", "transfer_headers", "write_queued", "settle"},
                 NEW b \in {"process", "destroy", "transfer_headers", "write_queued", "settle"},
                 calls' = <<Call(a, r)>> \/ calls' = <<Call(a, r), Call(b, r)>>
          PROVE  \A x : ~IsIn(Call("finish", x), calls')
      <4>1. \A c : IsIn(c, calls') => c = Call(a, r) \/ c = Call(b, r)
        <5>1. /\ \A c : IsIn(c, <<Call(a, r)>>) <=> c = Call(a, r)
              /\ \A c : IsIn(c, <<Call(a, r), Call(b, r)>>) <=> c = Call(a, r) \/ c = Call(b, r)
          BY ShortTurns
        <5> QED BY <3>3, <5>1
      <4> QED BY <3>1, <4>1
    <3> QED BY <2>6, <3>2, <3>3
  <2> QED BY <2>3, <2>5, <2>7, ResultEvent
<1> QED BY <1>1, <1>2

(* The events of the loop and of the connections.                          *)
LEMMA LoopResults ==
    ASSUME IInv, ResultsOK,
           \/ dispatch \/ remove_cache_entries_accessed_since \/ UNCHANGED vars
           \/ \E c \in Clients : disconnect(c) \/ die(c)
    PROVE  ResultsOK'
<1>1. UNCHANGED <<state, result>>
  BY DEF dispatch, remove_cache_entries_accessed_since, disconnect, die, vars, requestVars
<1>2. CASE dispatch
  <2>1. /\ queued_events # <<>> /\ queued_events \in Seq(Seq(Calls))
        /\ calls' = Head(queued_events) /\ QueueOK(calls, queued_events)
    BY <1>2 DEF dispatch, DispatchQueuedEvent, IInv, LocalInv, TypeOK, LoopTypeOK, TurnsOK
  <2>2. \A c : IsIn(c, calls') => Queued(c, queued_events)
    BY <2>1, FirstTurn
  <2>3. ASSUME NEW x \in Requests PROVE ~IsIn(Call("finish", x), calls')
    <3>1. "finish" \in Ops
      BY DEF Ops
    <3>2. Call("finish", x) \in Calls /\ Call("finish", x).op = "finish"
      BY <3>1, CallType, CallFields
    <3> QED BY <2>1, <2>2, <3>2 DEF QueueOK
  <2> QED BY <1>1, <2>3, ResultEvent
<1>3. CASE remove_cache_entries_accessed_since \/ UNCHANGED vars
  BY <1>1, <1>3, ResultEvent DEF remove_cache_entries_accessed_since, vars, loopVars
<1>4. ASSUME NEW c \in Clients, disconnect(c) PROVE ResultsOK'
  <2>1. calls' = <<Call("die", c)>> /\ \A x : Call("finish", x) # Call("die", c)
    BY <1>4, CallFields DEF disconnect
  <2>2. \A d : IsIn(d, <<Call("die", c)>>) <=> d = Call("die", c)
    BY ShortTurns
  <2> QED BY <1>1, <2>1, <2>2, ResultEvent
<1>5. ASSUME NEW c \in Clients, die(c) PROVE ResultsOK'
  BY <1>1, <1>5, DieCalls, ResultEvent
<1> QED BY <1>2, <1>3, <1>4, <1>5

(* The handlers of a turn find what they VERIFY.  Whatever call the turn   *)
(* has come to is one on a request or the end of a connection, a request   *)
(* whose state is handled is alive, and handle_complete_state finds        *)
(* m_curl_result_code set: no path to Complete leaves it out.              *)
THEOREM HandlersFindWhatTheyVerify == Spec => []NoVerifyFails
<1>1. Init => ResultsOK
  BY ShortTurns DEF Init, LoopInit, ResultsOK, ResultOK
<1>2. ASSUME IInv, ResultsOK, [Next]_vars PROVE ResultsOK'
  <2>1. ASSUME NEW r \in Requests, RequestCall(r) PROVE ResultsOK'
    BY <1>2, <2>1, PlainResults, InitialResults, WriteResults, PipeResults, EndResults
    DEF RequestCall
  <2>2. ASSUME NEW r \in Requests, RequestEvent(r) PROVE ResultsOK'
    BY <1>2, <2>2, EventResults
  <2>3. CASE crash
    BY <1>2, <2>3, TerminateResults DEF crash
  <2>4. CASE \/ dispatch \/ remove_cache_entries_accessed_since \/ UNCHANGED vars
             \/ \E c \in Clients : disconnect(c) \/ die(c)
    BY <1>2, <2>4, LoopResults
  <2> QED BY <1>2, <2>1, <2>2, <2>3, <2>4 DEF Next, Turn
<1>3. ASSUME IInv, ResultsOK PROVE NoVerifyFails
  <2> SUFFICES ASSUME calls # <<>> PROVE NoVerifyFails
    BY DEF NoVerifyFails
  <2>1. calls \in Seq(Calls)
    BY <1>3 DEF IInv, LocalInv, TypeOK, LoopTypeOK
  <2>2. Head(calls) \in Calls /\ IsIn(Head(calls), calls)
    BY <2>1, FirstCall
  <2>3. \/ \E r \in Requests, op \in Ops : Head(calls) = Call(op, r)
        \/ \E c \in Clients : Head(calls) = Call("die", c)
    BY <2>2 DEF Calls, Call
  <2>4. ASSUME NEW r \in Requests, NEW op \in Ops, Head(calls) = Call(op, r)
        PROVE  NoVerifyFails
    <3>1. Calling(op, r) /\ IsIn(Call(op, r), calls)
      BY <2>2, <2>4 DEF Calling
    <3>2. op = "process" => Alive(r)
      BY <1>3, <3>1, Called DEF Fits
    <3>3. op = "finish" => result[r] # "none"
      BY <1>3, <3>1 DEF ResultsOK, ResultOK
    <3> QED BY <3>1, <3>2, <3>3 DEF NoVerifyFails
  <2>5. ASSUME NEW c \in Clients, Head(calls) = Call("die", c) PROVE NoVerifyFails
    BY <2>5 DEF NoVerifyFails, Calling
  <2> QED BY <2>3, <2>4, <2>5
<1> QED BY <1>1, <1>2, <1>3, TurnsAndRequestsFit, PTL DEF Spec
=============================================================================
