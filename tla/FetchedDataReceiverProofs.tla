--------------------- MODULE FetchedDataReceiverProofs ---------------------
(***************************************************************************)
(* Theorems about FetchedDataReceiver and MemoryCache, for every number of *)
(* fetches and bytes.                                                      *)
(***************************************************************************)
EXTENDS FetchedDataReceiver, TLAPS

(***************************************************************************)
(* The inductive invariant, for one fetch with its network n, receiver r,  *)
(* stream s and the bytes w that the network has brought.  Pull: a pull is *)
(* under way while its promise waits for bytes, which is only if there are *)
(* none, or for its task.  Life: how far the receiver is, seen from the    *)
(* network, from the buffer and from the stream.                           *)
(***************************************************************************)
Pull(r, s) ==
    /\ s.pulling <=> r.m_pending_promise \/ r.m_has_unfulfilled_promise
    /\ r.m_pending_promise => ~r.m_has_unfulfilled_promise /\ buffer_is_eof(r)
    /\ r.task > 0 => r.m_has_unfulfilled_promise

Life(n, r, s) ==
    /\ n = "complete" <=> r.m_lifecycle_state # "Receiving"
    /\ s.state = "closed" <=> r.m_lifecycle_state = "Closed"
    /\ r.m_lifecycle_state \in {"ReadyToClose", "Closed"} =>
           buffer_is_eof(r) /\ ~r.m_has_unfulfilled_promise

FetchOK(n, r, s, w) ==
    /\ ~r.broken
    /\ r.m_buffer = w
    /\ r.m_pulled_bytes <= r.m_buffer
    /\ Pull(r, s)
    /\ Life(n, r, s)

IInv ==
    /\ TypeOK
    /\ \A f \in Fetches :
           /\ FetchOK(network[f], receiver[f], stream[f], wrote[f])
           /\ read[f] + stream[f].trimmed + receiver[f].task <= receiver[f].m_pulled_bytes
    /\ CachedBodyIsWhole

(***************************************************************************)
(* Bytes are in one place: given to the consumer (k of them), cut off for  *)
(* a small view of it, in the task, or still to be pulled, unless the      *)
(* fetch was stopped and the task's bytes are gone.                        *)
(***************************************************************************)
Added(r, s, k) ==
    \/ r.m_has_unfulfilled_promise /\ r.task = 0
    \/ s.state \notin {"readable", "closed"}
    \/ k + s.trimmed + r.task = r.m_pulled_bytes

BytesAddUp == \A f \in Fetches : Added(receiver[f], stream[f], read[f])

(* The stream s once the receiver has become r, as Becomes has it.         *)
After(r, s) ==
    IF r.m_lifecycle_state = "Closed" THEN [s EXCEPT !.state = "closed", !.pulling = FALSE]
    ELSE s

(* From r to q, bytes go from the buffer to the task only, and a promise    *)
(* whose task was removed stays as it is.                                  *)
Moves(r, q) ==
    /\ q.m_pulled_bytes + r.task = r.m_pulled_bytes + q.task
    /\ r.m_has_unfulfilled_promise /\ r.task = 0 => q.m_has_unfulfilled_promise /\ q.task = 0

(* What a step from r to q with the stream u keeps.                        *)
Kept(n, r, q, u, w) == q \in Receiver /\ u \in Stream /\ FetchOK(n, q, u, w) /\ Moves(r, q)

(* q is a receiver with these members, none of whose VERIFYs has failed.   *)
Has(q, buffer, pulled, pending, unfulfilled, life, task) ==
    /\ q \in Receiver
    /\ q.m_buffer = buffer /\ q.m_pulled_bytes = pulled
    /\ q.m_pending_promise = pending /\ q.m_has_unfulfilled_promise = unfulfilled
    /\ q.m_lifecycle_state = life
    /\ q.task = task
    /\ q.broken = FALSE

-----------------------------------------------------------------------------
(* Closing a stream cuts nothing off.                                      *)
LEMMA AfterKeeps ==
    ASSUME NEW r, NEW s \in Stream PROVE After(r, s).trimmed = s.trimmed
BY Zenon DEF After, Stream

(* A VERIFY that holds does nothing.                                       *)
LEMMA VerifyHolds ==
    ASSUME NEW r \in Receiver, NEW b \in BOOLEAN, b PROVE VERIFY(b, r) = r
BY DEF VERIFY, Receiver

(* The task gets all the bytes that have not been pulled.                  *)
LEMMA PullBytes ==
    ASSUME NEW r \in Receiver, ~r.broken, ~r.m_has_unfulfilled_promise,
           r.m_lifecycle_state \in {"Receiving", "CompletePending"},
           r.m_pulled_bytes < r.m_buffer
    PROVE  Has(pull_bytes_into_stream(r), r.m_buffer, r.m_buffer, FALSE, TRUE,
               r.m_lifecycle_state, r.m_buffer - r.m_pulled_bytes)
<1> DEFINE q == [r EXCEPT !.task = r.m_buffer - r.m_pulled_bytes,
                          !.m_pulled_bytes = r.m_buffer,
                          !.m_has_unfulfilled_promise = TRUE,
                          !.m_pending_promise = FALSE]
<1>1. /\ r.m_buffer - r.m_pulled_bytes \in 0 .. MaxBytes
      /\ r.m_pulled_bytes + (r.m_buffer - r.m_pulled_bytes) = r.m_buffer
      /\ r.m_buffer - r.m_pulled_bytes > 0
  BY FetchedDataReceiverAssumption DEF Receiver
<1>2. q \in Receiver
  BY <1>1, Zenon DEF Receiver
<1>3. pull_bytes_into_stream(r) = q
  BY <1>1, <1>2, VerifyHolds, Zenon DEF pull_bytes_into_stream, copy_unpulled_bytes
<1>4. r.broken = FALSE
  BY DEF Receiver
<1> QED BY <1>2, <1>3, <1>4, Zenon DEF Has, Receiver

(* A stream is closed when everything has been pulled and no task is left. *)
LEMMA CloseStream ==
    ASSUME NEW r \in Receiver, ~r.broken, ~r.m_has_unfulfilled_promise,
           r.m_pulled_bytes = r.m_buffer
    PROVE  Has(close_stream(r), r.m_buffer, r.m_buffer, FALSE, FALSE, "Closed", r.task)
<1> DEFINE q == [r EXCEPT !.m_pending_promise = FALSE, !.m_lifecycle_state = "Closed"]
<1>1. q \in Receiver
  BY Zenon DEF Receiver, LifecycleState
<1>2. close_stream(r) = q
  BY <1>1, VerifyHolds, Zenon DEF close_stream, buffer_is_eof
<1>3. r.broken = FALSE /\ r.m_has_unfulfilled_promise = FALSE
  BY DEF Receiver
<1> QED BY <1>1, <1>2, <1>3, Zenon DEF Has, Receiver

(* WhenReady only changes how far the receiver is.                         *)
LEMMA Ready ==
    ASSUME NEW r \in Receiver, ~r.broken
    PROVE  Has(WhenReady(r), r.m_buffer, r.m_pulled_bytes, r.m_pending_promise,
               r.m_has_unfulfilled_promise,
               IF ready_to_close(r) THEN "ReadyToClose" ELSE r.m_lifecycle_state, r.task)
<1> DEFINE q == [r EXCEPT !.m_lifecycle_state = "ReadyToClose"]
<1>1. q \in Receiver
  BY Zenon DEF Receiver, LifecycleState
<1>2. r.broken = FALSE
  BY DEF Receiver
<1> QED BY <1>1, <1>2, Zenon DEF Has, Receiver, WhenReady

-----------------------------------------------------------------------------
(* A pull finds the receiver without another one, and leaves it with bytes *)
(* in a task, waiting for bytes, or closed.                                *)
LEMMA PullKeeps ==
    ASSUME NEW n, NEW r \in Receiver, NEW s \in Stream, NEW w,
           FetchOK(n, r, s, w), s.state = "readable", ~s.pulling,
           NEW q, q = set_pending_promise(r),
           NEW t \in Stream, t.state = "readable", t.pulling = TRUE,
           NEW u, u = After(q, t)
    PROVE  Kept(n, r, q, u, w)
<1> DEFINE a == [r EXCEPT !.m_pending_promise = TRUE]
<1>1. Has(a, r.m_buffer, r.m_pulled_bytes, TRUE, FALSE, r.m_lifecycle_state, r.task)
  <2>1. r.broken = FALSE /\ r.m_has_unfulfilled_promise = FALSE
    BY DEF Receiver, FetchOK, Pull, Stream
  <2> QED BY <2>1, Zenon DEF Has, Receiver
<1>2. VERIFY(~r.m_pending_promise /\ ~r.m_has_unfulfilled_promise, a) = a
  <2>1. ~r.m_pending_promise /\ ~r.m_has_unfulfilled_promise
    BY DEF Receiver, FetchOK, Pull, Stream
  <2> QED BY <1>1, <2>1, VerifyHolds, Zenon DEF Has
<1>3. /\ u \in Stream
      /\ q.m_lifecycle_state = "Closed" => u.state = "closed" /\ u.pulling = FALSE
      /\ q.m_lifecycle_state # "Closed" => u.state = "readable" /\ u.pulling = TRUE
  BY Zenon DEF After, Stream
<1> HIDE DEF a
<1>4. r.m_buffer = w /\ w \in Nat
  BY FetchedDataReceiverAssumption DEF FetchOK, Receiver
<1>8. r.task \in Nat /\ r.m_pulled_bytes \in Nat /\ ~(r.task > 0) /\ ~r.m_has_unfulfilled_promise
  BY FetchedDataReceiverAssumption DEF FetchOK, Pull, Receiver, Stream
<1>5. CASE ~buffer_is_eof(r)
  <2>1. q = pull_bytes_into_stream(a)
    BY <1>2, <1>5, Zenon DEF set_pending_promise, a
  <2>2. /\ a \in Receiver /\ ~a.broken /\ ~a.m_has_unfulfilled_promise
        /\ a.m_lifecycle_state \in {"Receiving", "CompletePending"}
        /\ a.m_pulled_bytes < a.m_buffer
    BY <1>1, <1>5, FetchedDataReceiverAssumption
    DEF Has, FetchOK, Pull, Life, buffer_is_eof, Receiver, LifecycleState
  <2>3. Has(q, a.m_buffer, a.m_buffer, FALSE, TRUE, a.m_lifecycle_state,
            a.m_buffer - a.m_pulled_bytes)
    BY <2>1, <2>2, PullBytes, Zenon
  <2>4. Pull(q, u)
    BY <1>1, <1>3, <2>2, <2>3 DEF Has, Pull
  <2>5. Life(n, q, u)
    BY <1>1, <1>3, <2>2, <2>3 DEF Has, Life, FetchOK
  <2>6. Moves(r, q)
    BY <1>1, <1>4, <1>8, <2>3 DEF Has, Moves
  <2> QED BY <1>1, <1>3, <1>4, <2>3, <2>4, <2>5, <2>6 DEF Has, FetchOK, Kept
<1>6. CASE buffer_is_eof(r) /\ r.m_lifecycle_state = "ReadyToClose"
  <2>1. q = close_stream(a)
    BY <1>2, <1>6, Zenon DEF set_pending_promise, a
  <2>2. /\ a \in Receiver /\ ~a.broken /\ ~a.m_has_unfulfilled_promise
        /\ a.m_pulled_bytes = a.m_buffer
    BY <1>1, <1>6 DEF Has, buffer_is_eof
  <2>3. Has(q, a.m_buffer, a.m_buffer, FALSE, FALSE, "Closed", a.task)
    BY <2>1, <2>2, CloseStream, Zenon
  <2>4. Pull(q, u)
    BY <1>1, <1>3, <2>2, <2>3 DEF Has, FetchOK, Pull, buffer_is_eof
  <2>5. Life(n, q, u)
    BY <1>1, <1>3, <1>6, <2>2, <2>3 DEF Has, FetchOK, Life, buffer_is_eof
  <2>6. Moves(r, q)
    BY <1>1, <1>4, <1>6, <1>8, <2>3 DEF Has, Moves, buffer_is_eof
  <2> QED BY <1>1, <1>3, <1>4, <2>3, <2>4, <2>5, <2>6 DEF Has, FetchOK, Kept
<1>7. CASE buffer_is_eof(r) /\ r.m_lifecycle_state # "ReadyToClose"
  <2>1. q = a
    BY <1>2, <1>7, Zenon DEF set_pending_promise, a
  <2>2. Moves(r, q)
    BY <1>1, <1>8, <2>1 DEF Has, Moves
  <2> QED BY <1>1, <1>3, <1>4, <1>7, <2>1, <2>2 DEF Has, FetchOK, Pull, Life, buffer_is_eof, Kept
<1> QED BY <1>5, <1>6, <1>7

(* Bytes from the network find the receiver receiving: a pull that waits   *)
(* gets them, and otherwise they stay in the buffer.                       *)
LEMMA DataKeeps ==
    ASSUME NEW n, NEW r \in Receiver, NEW s \in Stream, NEW w \in Nat, NEW b \in Nat \ {0},
           FetchOK(n, r, s, w), n # "complete", w + b <= MaxBytes,
           NEW q, q = handle_network_bytes(r, b, s.state = "readable"),
           NEW u, u = After(q, s)
    PROVE  q \in Receiver /\ u \in Stream /\ FetchOK(n, q, u, w + b) /\ Moves(r, q)
<1> DEFINE a == [r EXCEPT !.m_buffer = @ + b]
<1>1. Has(a, w + b, r.m_pulled_bytes, r.m_pending_promise, r.m_has_unfulfilled_promise,
          "Receiving", r.task)
  <2>1. r.broken = FALSE /\ r.m_buffer = w /\ r.m_lifecycle_state = "Receiving"
    BY DEF Receiver, FetchOK, Life
  <2>2. w + b \in 0 .. MaxBytes
    BY FetchedDataReceiverAssumption
  <2> QED BY <2>1, <2>2, Zenon DEF Has, Receiver
<1>2. VERIFY(r.m_lifecycle_state = "Receiving", a) = a
  BY <1>1, VerifyHolds DEF Has, FetchOK, Life
<1> HIDE DEF a
<1>3. b > 0 /\ r.task \in Nat /\ r.m_pulled_bytes \in Nat
  BY FetchedDataReceiverAssumption DEF Receiver
<1>4. CASE ~r.m_pending_promise
  <2>1. q = WhenReady(a)
    BY <1>2, <1>3, <1>4, Zenon DEF handle_network_bytes, a
  <2>2. Has(q, w + b, r.m_pulled_bytes, r.m_pending_promise, r.m_has_unfulfilled_promise,
            "Receiving", r.task)
    BY <1>1, <2>1, Ready DEF Has, ready_to_close
  <2>3. u = s
    BY <2>2, Zenon DEF Has, After
  <2>4. Moves(r, q)
    BY <1>3, <2>2 DEF Has, Moves
  <2> QED BY <1>4, <2>2, <2>3, <2>4, FetchedDataReceiverAssumption
          DEF Has, FetchOK, Pull, Life, buffer_is_eof, Receiver
<1>5. CASE r.m_pending_promise
  <2>1. q = pull_bytes_into_stream(a)
    BY <1>2, <1>3, <1>5, Zenon DEF handle_network_bytes, a
  <2>2. /\ a \in Receiver /\ ~a.broken /\ ~a.m_has_unfulfilled_promise
        /\ a.m_lifecycle_state \in {"Receiving", "CompletePending"}
        /\ a.m_pulled_bytes < a.m_buffer
    BY <1>1, <1>5, FetchedDataReceiverAssumption
    DEF Has, FetchOK, Pull, Life, buffer_is_eof, Receiver
  <2>3. Has(q, a.m_buffer, a.m_buffer, FALSE, TRUE, a.m_lifecycle_state,
            a.m_buffer - a.m_pulled_bytes)
    BY <2>1, <2>2, PullBytes, Zenon
  <2>4. u = s
    BY <1>1, <2>3, Zenon DEF Has, After
  <2>5. r.task = 0 /\ ~r.m_has_unfulfilled_promise
    BY <1>3, <1>5 DEF FetchOK, Pull
  <2>6. Moves(r, q)
    BY <1>1, <1>3, <2>3, <2>5 DEF Has, Moves
  <2> QED BY <1>1, <1>5, <2>3, <2>4, <2>6, FetchedDataReceiverAssumption
          DEF Has, FetchOK, Pull, Life, Receiver
<1> QED BY <1>4, <1>5

(* The end of the network closes the stream of a pull that waits, if it is *)
(* still readable, or is kept in mind until all bytes have been read.      *)
LEMMA CompleteKeeps ==
    ASSUME NEW n, NEW r \in Receiver, NEW s \in Stream, NEW w,
           FetchOK(n, r, s, w), n # "complete",
           NEW q, q = handle_network_bytes(r, 0, s.state = "readable"),
           NEW u, u = After(q, s)
    PROVE  /\ Kept("complete", r, q, u, w)
           /\ q.m_lifecycle_state = "Closed" => s.state = "readable"
<1> DEFINE a == [r EXCEPT !.m_lifecycle_state = "CompletePending"]
<1>1. Has(a, w, r.m_pulled_bytes, r.m_pending_promise, r.m_has_unfulfilled_promise,
          "CompletePending", r.task)
  <2>1. r.broken = FALSE /\ r.m_buffer = w
    BY DEF Receiver, FetchOK, Life
  <2> QED BY <2>1, Zenon DEF Has, Receiver, LifecycleState
<1>2. VERIFY(r.m_lifecycle_state = "Receiving", a) = a
  BY <1>1, VerifyHolds DEF Has, FetchOK, Life
<1> HIDE DEF a
<1>3. /\ s.state # "closed" /\ u \in Stream
      /\ q.m_lifecycle_state = "Closed" => u.state = "closed" /\ u.pulling = FALSE
      /\ q.m_lifecycle_state # "Closed" => u = s
  <2>1. s.state # "closed"
    BY DEF FetchOK, Life
  <2> QED BY <2>1, Zenon DEF After, Stream
<1>4. /\ ~(0 > 0) /\ r.m_pulled_bytes \in Nat /\ w \in Nat /\ r.m_pulled_bytes <= w
      /\ r.task \in Nat
  BY FetchedDataReceiverAssumption DEF FetchOK, Receiver
<1>5. CASE ~r.m_pending_promise
  <2>1. q = WhenReady(a)
    BY <1>2, <1>4, <1>5, Zenon DEF handle_network_bytes, a
  <2>2. Has(q, w, r.m_pulled_bytes, r.m_pending_promise, r.m_has_unfulfilled_promise,
            IF ready_to_close(a) THEN "ReadyToClose" ELSE "CompletePending", r.task)
    BY <1>1, <2>1, Ready DEF Has
  <2>3. Moves(r, q)
    BY <1>4, <2>2 DEF Has, Moves
  <2> QED BY <1>1, <1>3, <1>4, <1>5, <2>2, <2>3
          DEF Has, FetchOK, Pull, Life, buffer_is_eof, ready_to_close, Kept
<1>6. CASE r.m_pending_promise /\ s.state = "readable"
  <2>1. q = close_stream(a)
    BY <1>2, <1>4, <1>6, Zenon DEF handle_network_bytes, a
  <2>2. /\ a \in Receiver /\ ~a.broken /\ ~a.m_has_unfulfilled_promise
        /\ a.m_pulled_bytes = a.m_buffer
    BY <1>1, <1>6 DEF Has, FetchOK, Pull, buffer_is_eof
  <2>3. Has(q, a.m_buffer, a.m_buffer, FALSE, FALSE, "Closed", a.task)
    BY <2>1, <2>2, CloseStream, Zenon
  <2>4. Moves(r, q)
    BY <1>1, <1>4, <1>6, <2>2, <2>3 DEF Has, Moves, FetchOK, Pull
  <2> QED BY <1>1, <1>3, <1>4, <1>6, <2>3, <2>4 DEF Has, FetchOK, Pull, Life, buffer_is_eof, Kept
<1>7. CASE r.m_pending_promise /\ s.state # "readable"
  <2>1. q = a
    BY <1>2, <1>4, <1>7, Zenon DEF handle_network_bytes, a
  <2>2. Moves(r, q)
    BY <1>1, <1>4, <2>1 DEF Has, Moves
  <2> QED BY <1>1, <1>3, <1>4, <1>7, <2>1, <2>2 DEF Has, FetchOK, Pull, Life, buffer_is_eof, Kept
<1> QED BY <1>5, <1>6, <1>7

(* The task has given its bytes away: a pull is over.                      *)
LEMMA TaskKeeps ==
    ASSUME NEW n, NEW r \in Receiver, NEW s \in Stream, NEW w,
           FetchOK(n, r, s, w), r.task > 0,
           NEW q, q = FinishTask(r),
           NEW u \in Stream, ~u.pulling, u.state = s.state
    PROVE  /\ q \in Receiver /\ FetchOK(n, q, u, w)
           /\ q.task = 0 /\ q.m_pulled_bytes = r.m_pulled_bytes
           /\ ~q.m_has_unfulfilled_promise /\ q.m_buffer = r.m_buffer
<1> DEFINE a == [r EXCEPT !.m_has_unfulfilled_promise = FALSE, !.task = 0]
<1>1. /\ r.broken = FALSE /\ r.m_buffer = w /\ 0 \in 0 .. MaxBytes
      /\ r.m_pending_promise = FALSE
      /\ r.m_lifecycle_state \in {"Receiving", "CompletePending"}
  BY FetchedDataReceiverAssumption DEF Receiver, FetchOK, Pull, Life, LifecycleState
<1>2. Has(a, w, r.m_pulled_bytes, FALSE, FALSE, r.m_lifecycle_state, 0)
  BY <1>1, Zenon DEF Has, Receiver
<1>3. q = WhenReady(a)
  BY <1>1, <1>2, VerifyHolds, Zenon DEF FinishTask, Has
<1> HIDE DEF a
<1>4. Has(q, w, r.m_pulled_bytes, FALSE, FALSE,
          IF ready_to_close(a) THEN "ReadyToClose" ELSE r.m_lifecycle_state, 0)
  BY <1>2, <1>3, Ready DEF Has
<1> QED BY <1>1, <1>2, <1>4, FetchedDataReceiverAssumption
        DEF Has, FetchOK, Pull, Life, Receiver, buffer_is_eof, ready_to_close

-----------------------------------------------------------------------------
(* What remains to be shown of a step that is about the fetch f alone.     *)
LEMMA OneFetch ==
    ASSUME IInv, NEW f \in Fetches,
           \A g \in Fetches \ {f} :
               /\ network'[g] = network[g] /\ receiver'[g] = receiver[g]
               /\ stream'[g] = stream[g] /\ wrote'[g] = wrote[g] /\ read'[g] = read[g],
           read'[f] + stream'[f].trimmed + receiver'[f].task <= receiver'[f].m_pulled_bytes,
           FetchOK(network'[f], receiver'[f], stream'[f], wrote'[f]),
           TypeOK', CachedBodyIsWhole'
    PROVE  IInv'
<1>1. ASSUME NEW g \in Fetches
      PROVE  /\ FetchOK(network'[g], receiver'[g], stream'[g], wrote'[g])
             /\ read'[g] + stream'[g].trimmed + receiver'[g].task <= receiver'[g].m_pulled_bytes
  <2>1. CASE g = f
    BY <2>1
  <2>2. CASE g # f
    BY <2>2 DEF IInv
  <2> QED BY <2>1, <2>2
<1> QED BY <1>1 DEF IInv

(* The same for the bytes.                                                 *)
LEMMA OneAdded ==
    ASSUME NEW f \in Fetches,
           \A g \in Fetches \ {f} :
               receiver'[g] = receiver[g] /\ stream'[g] = stream[g] /\ read'[g] = read[g],
           Added(receiver[f], stream[f], read[f]) => Added(receiver'[f], stream'[f], read'[f])
    PROVE  BytesAddUp => BytesAddUp'
<1> SUFFICES ASSUME BytesAddUp, NEW g \in Fetches PROVE Added(receiver'[g], stream'[g], read'[g])
  BY DEF BytesAddUp
<1>1. CASE g = f
  BY <1>1 DEF BytesAddUp
<1>2. CASE g # f
  BY <1>2 DEF BytesAddUp
<1> QED BY <1>1, <1>2

(* When the receiver of f becomes q, with all that the network has brought *)
(* in its buffer, what the memory cache has is whole.                      *)
LEMMA BecomesKeeps ==
    ASSUME IInv, NEW f \in Fetches, NEW q \in Receiver, NEW s, Becomes(f, q, s),
           network' \in [Fetches -> {"none", "cached", "started", "headers", "complete", "failed"}],
           wrote' \in [Fetches -> 0 .. MaxBytes],
           \A g \in Fetches : network[g] = "complete" => wrote'[g] = wrote[g]
                                                         /\ network'[g] = network[g],
           FetchOK(network'[f], q, After(q, s), wrote'[f])
    PROVE  /\ CachedBodyIsWhole'
           /\ m_pending_entries' \in Fetches \cup {None}
           /\ m_complete_entries' \subseteq Entry
           /\ receiver' = [receiver EXCEPT ![f] = q]
           /\ stream' = [stream EXCEPT ![f] = After(q, s)]
<1>1. receiver' = [receiver EXCEPT ![f] = q] /\ stream' = [stream EXCEPT ![f] = After(q, s)]
  BY Zenon DEF Becomes, After
<1>4. /\ m_pending_entries \in Fetches \cup {None} /\ m_complete_entries \subseteq Entry
      /\ \A e \in m_complete_entries :
             network'[e.body] = "complete" /\ e.size = wrote'[e.body]
  <2>1. \A e \in m_complete_entries : e.body \in Fetches
    BY DEF IInv, TypeOK, Entry
  <2> QED BY <2>1 DEF IInv, TypeOK, CachedBodyIsWhole
<1>2. CASE q.m_lifecycle_state = "Closed"
  <2>1. network'[f] = "complete" /\ wrote'[f] = q.m_buffer /\ q.m_buffer \in Nat
    BY <1>2, FetchedDataReceiverAssumption DEF FetchOK, Life, Receiver
  <2>2. finalize_entry(f, q.m_buffer)
    BY <1>2 DEF Becomes
  <2>3. CASE m_pending_entries = None
    <3>1. m_complete_entries' = m_complete_entries /\ m_pending_entries' = None
      BY <2>2, <2>3 DEF finalize_entry
    <3> QED BY <1>1, <1>4, <3>1 DEF CachedBodyIsWhole
  <2>4. CASE m_pending_entries # None
    <3> DEFINE e == [headers |-> m_pending_entries, body |-> f, size |-> q.m_buffer]
    <3>1. m_complete_entries' = {e} /\ m_pending_entries' = None
      BY <2>2, <2>4 DEF finalize_entry
    <3>2. e \in Entry /\ e.body = f /\ e.size = q.m_buffer
      BY <1>4, <2>1, <2>4 DEF Entry
    <3> HIDE DEF e
    <3> QED BY <1>1, <2>1, <3>1, <3>2 DEF CachedBodyIsWhole
  <2> QED BY <2>3, <2>4
<1>3. CASE q.m_lifecycle_state # "Closed"
  <2>1. m_complete_entries' = m_complete_entries /\ m_pending_entries' = m_pending_entries
    BY <1>3 DEF Becomes
  <2> QED BY <1>1, <1>4, <2>1 DEF CachedBodyIsWhole
<1> QED BY <1>2, <1>3

(* A step in which the receiver of f becomes q, as one of the lemmas above *)
(* has it, keeps the invariant.                                            *)
LEMMA BecomesStep ==
    ASSUME IInv, NEW f \in Fetches, NEW q \in Receiver, NEW s, Becomes(f, q, s),
           network' \in [Fetches -> {"none", "cached", "started", "headers", "complete", "failed"}],
           wrote' \in [Fetches -> 0 .. MaxBytes], UNCHANGED <<response, read>>,
           \A g \in Fetches \ {f} : wrote'[g] = wrote[g] /\ network'[g] = network[g],
           network[f] = "complete" => wrote'[f] = wrote[f] /\ network'[f] = network[f],
           After(q, s) \in Stream, After(q, s).trimmed = stream[f].trimmed, Moves(receiver[f], q),
           After(q, s).state \in {"readable", "closed"} => stream[f].state \in {"readable", "closed"},
           FetchOK(network'[f], q, After(q, s), wrote'[f])
    PROVE  IInv' /\ (BytesAddUp => BytesAddUp')
<1>1. /\ CachedBodyIsWhole'
      /\ m_pending_entries' \in Fetches \cup {None}
      /\ m_complete_entries' \subseteq Entry
      /\ receiver' = [receiver EXCEPT ![f] = q]
      /\ stream' = [stream EXCEPT ![f] = After(q, s)]
  BY BecomesKeeps
<1> DEFINE u == After(q, s)
<1> HIDE DEF u
<1>2. /\ receiver' \in [Fetches -> Receiver] /\ receiver'[f] = q
      /\ stream' \in [Fetches -> Stream] /\ stream'[f] = u
      /\ \A g \in Fetches \ {f} : receiver'[g] = receiver[g] /\ stream'[g] = stream[g]
  BY <1>1 DEF IInv, TypeOK, u
<1>3. TypeOK'
  BY <1>1, <1>2 DEF IInv, TypeOK
<1>4. read[f] \in Nat /\ receiver[f] \in Receiver /\ receiver[f].task \in Nat
      /\ receiver[f].m_pulled_bytes \in Nat /\ q.task \in Nat /\ q.m_pulled_bytes \in Nat
      /\ stream[f].trimmed \in Nat /\ u.trimmed = stream[f].trimmed
  <2>1. read[f] \in 0 .. MaxBytes /\ receiver[f] \in Receiver /\ stream[f] \in Stream
    BY DEF IInv, TypeOK
  <2> QED BY <2>1, FetchedDataReceiverAssumption DEF Receiver, Stream, u
<1>5. read'[f] + stream'[f].trimmed + receiver'[f].task <= receiver'[f].m_pulled_bytes
  <2>1. read[f] + stream[f].trimmed + receiver[f].task <= receiver[f].m_pulled_bytes
    BY DEF IInv
  <2> QED BY <1>2, <1>4, <2>1 DEF Moves
<1>6. FetchOK(network'[f], receiver'[f], stream'[f], wrote'[f])
  BY <1>2 DEF u
<1>7. \A g \in Fetches \ {f} :
          /\ network'[g] = network[g] /\ receiver'[g] = receiver[g]
          /\ stream'[g] = stream[g] /\ wrote'[g] = wrote[g] /\ read'[g] = read[g]
  BY <1>2
<1>8. IInv'
  BY <1>1, <1>3, <1>5, <1>6, <1>7, OneFetch
<1>9. Added(receiver[f], stream[f], read[f]) => Added(receiver'[f], stream'[f], read'[f])
  BY <1>2, <1>4 DEF Added, Moves, u
<1> QED BY <1>7, <1>8, <1>9, OneAdded

(* A step that only says more about a fetch that is not complete, or about *)
(* its response.                                                           *)
LEMMA NetworkStep ==
    ASSUME IInv, NEW f \in Fetches, NEW n \in {"cached", "started", "headers", "failed"},
           (network' = [network EXCEPT ![f] = n] /\ network[f] # "complete") \/ UNCHANGED network,
           response' \in [Fetches -> {"none", "resolved", "loaded", "validated", "network error"}],
           m_pending_entries' \in Fetches \cup {None},
           UNCHANGED <<m_complete_entries, receiver, stream, wrote, read>>
    PROVE  IInv' /\ (BytesAddUp => BytesAddUp')
<1>1. /\ network' \in [Fetches -> {"none", "cached", "started", "headers", "complete", "failed"}]
      /\ \A g \in Fetches : network'[g] = "complete" <=> network[g] = "complete"
  BY DEF IInv, TypeOK
<1>2. TypeOK'
  BY <1>1 DEF IInv, TypeOK
<1>3. \A g \in Fetches : FetchOK(network'[g], receiver'[g], stream'[g], wrote'[g])
  BY <1>1 DEF IInv, FetchOK, Life
<1>4. CachedBodyIsWhole'
  <2>1. \A e \in m_complete_entries : e.body \in Fetches
    BY DEF IInv, TypeOK, Entry
  <2> QED BY <1>1, <2>1 DEF IInv, CachedBodyIsWhole
<1>5. BytesAddUp => BytesAddUp'
  BY DEF BytesAddUp
<1> QED BY <1>2, <1>3, <1>4, <1>5 DEF IInv

(* A step of f's receiver and stream alone that leaves the network and the *)
(* memory cache as they are.                                               *)
LEMMA LocalStep ==
    ASSUME IInv, NEW f \in Fetches, NEW q \in Receiver, NEW u \in Stream, NEW k \in 0 .. MaxBytes,
           receiver' = [receiver EXCEPT ![f] = q], stream' = [stream EXCEPT ![f] = u],
           read' = [read EXCEPT ![f] = k],
           FetchOK(network[f], q, u, wrote[f]), k + u.trimmed + q.task <= q.m_pulled_bytes,
           response' \in [Fetches -> {"none", "resolved", "loaded", "validated", "network error"}],
           network' \in [Fetches -> {"none", "cached", "started", "headers", "complete", "failed"}],
           \A g \in Fetches \ {f} : network'[g] = network[g],
           network'[f] = "complete" <=> network[f] = "complete",
           UNCHANGED <<m_pending_entries, m_complete_entries, wrote>>
    PROVE  /\ IInv'
           /\ (Added(receiver[f], stream[f], read[f]) => Added(q, u, k)) => (BytesAddUp => BytesAddUp')
<1>1. /\ receiver' \in [Fetches -> Receiver] /\ receiver'[f] = q
      /\ stream' \in [Fetches -> Stream] /\ stream'[f] = u
      /\ read' \in [Fetches -> 0 .. MaxBytes] /\ read'[f] = k
      /\ \A g \in Fetches \ {f} :
             receiver'[g] = receiver[g] /\ stream'[g] = stream[g] /\ read'[g] = read[g]
  BY DEF IInv, TypeOK
<1>2. TypeOK'
  BY <1>1 DEF IInv, TypeOK
<1>3. FetchOK(network'[f], receiver'[f], stream'[f], wrote'[f])
  BY <1>1 DEF FetchOK, Life
<1>4. CachedBodyIsWhole'
  <2>1. \A e \in m_complete_entries : e.body \in Fetches
    BY DEF IInv, TypeOK, Entry
  <2>2. \A g \in Fetches : network'[g] = "complete" <=> network[g] = "complete"
    OBVIOUS
  <2> QED BY <2>1, <2>2 DEF IInv, CachedBodyIsWhole
<1>5. \A g \in Fetches \ {f} :
          /\ network'[g] = network[g] /\ receiver'[g] = receiver[g]
          /\ stream'[g] = stream[g] /\ wrote'[g] = wrote[g] /\ read'[g] = read[g]
  BY <1>1
<1>6. read'[f] + stream'[f].trimmed + receiver'[f].task <= receiver'[f].m_pulled_bytes
  BY <1>1
<1>7. IInv'
  BY <1>2, <1>3, <1>4, <1>5, <1>6, OneFetch
<1>8. (Added(receiver[f], stream[f], read[f]) => Added(q, u, k)) => (BytesAddUp => BytesAddUp')
  BY <1>1, <1>5, OneAdded
<1> QED BY <1>7, <1>8

-----------------------------------------------------------------------------
(* Nothing has been fetched yet.                                           *)
LEMMA Initially == Init => IInv
<1> SUFFICES ASSUME Init PROVE IInv
  OBVIOUS
<1> DEFINE s0 == NewStream
<1>1. Has(NewReceiver, 0, 0, FALSE, FALSE, "Receiving", 0) /\ 0 \in 0 .. MaxBytes
  <2>1. 0 \in 0 .. MaxBytes
    BY FetchedDataReceiverAssumption
  <2> QED BY <2>1, Zenon DEF Has, NewReceiver, Receiver, LifecycleState
<1>2. s0 \in Stream /\ s0.state = "readable" /\ s0.pulling = FALSE /\ s0.trimmed = 0
  BY <1>1, Zenon DEF Stream, NewStream
<1> HIDE DEF s0
<1>3. FetchOK("none", NewReceiver, s0, 0)
  BY <1>1, <1>2 DEF FetchOK, Has, Pull, Life, buffer_is_eof
<1>4. /\ network = [f \in Fetches |-> "none"] /\ receiver = [f \in Fetches |-> NewReceiver]
      /\ stream = [f \in Fetches |-> s0]
      /\ wrote = [f \in Fetches |-> 0] /\ read = [f \in Fetches |-> 0]
      /\ m_pending_entries = None /\ m_complete_entries = {}
      /\ response = [f \in Fetches |-> "none"]
  BY DEF Init, MemoryCacheInit, s0
<1>5. TypeOK
  BY <1>1, <1>2, <1>4 DEF TypeOK, Has
<1>6. \A f \in Fetches : /\ FetchOK(network[f], receiver[f], stream[f], wrote[f])
                         /\ read[f] + stream[f].trimmed + receiver[f].task <= receiver[f].m_pulled_bytes
  <2> TAKE f \in Fetches
  <2>1. /\ network[f] = "none" /\ receiver[f] = NewReceiver /\ stream[f] = s0
        /\ wrote[f] = 0 /\ read[f] = 0
    BY <1>4, Zenon
  <2>2. NewReceiver.task = 0 /\ NewReceiver.m_pulled_bytes = 0 /\ s0.trimmed = 0
    BY <1>1, <1>2, Zenon DEF Has
  <2>3. FetchOK(network[f], receiver[f], stream[f], wrote[f])
    BY <1>3, <2>1, Zenon
  <2> HIDE DEF s0
  <2> QED BY <2>1, <2>2, <2>3
<1> QED BY <1>4, <1>5, <1>6 DEF IInv, CachedBodyIsWhole

(* What the invariant says of one fetch.                                   *)
LEMMA OfOne ==
    ASSUME IInv, NEW f \in Fetches
    PROVE  /\ network[f] \in {"none", "cached", "started", "headers", "complete", "failed"}
           /\ receiver[f] \in Receiver /\ stream[f] \in Stream
           /\ wrote[f] \in Nat /\ wrote[f] <= MaxBytes /\ read[f] \in Nat
           /\ stream[f].trimmed \in Nat
           /\ receiver[f].task \in Nat /\ receiver[f].m_pulled_bytes \in Nat
           /\ receiver[f].m_pulled_bytes <= MaxBytes
           /\ FetchOK(network[f], receiver[f], stream[f], wrote[f])
           /\ read[f] + stream[f].trimmed + receiver[f].task <= receiver[f].m_pulled_bytes
<1>1. /\ receiver[f] \in Receiver /\ stream[f] \in Stream
      /\ wrote[f] \in 0 .. MaxBytes /\ read[f] \in 0 .. MaxBytes
      /\ network[f] \in {"none", "cached", "started", "headers", "complete", "failed"}
      /\ FetchOK(network[f], receiver[f], stream[f], wrote[f])
      /\ read[f] + stream[f].trimmed + receiver[f].task <= receiver[f].m_pulled_bytes
  BY DEF IInv, TypeOK
<1> QED BY <1>1, FetchedDataReceiverAssumption DEF Receiver, Stream

(* A pull, bytes from the network and its end make the receiver another    *)
(* one.                                                                    *)
LEMMA PullStep ==
    ASSUME IInv, NEW f \in Fetches, pull_algorithm(f) PROVE IInv' /\ (BytesAddUp => BytesAddUp')
<1>1. PICK v \in Views : Becomes(f, set_pending_promise(receiver[f]),
                                 [stream[f] EXCEPT !.pulling = TRUE, !.view = v])
  BY DEF pull_algorithm
<1> DEFINE q == set_pending_promise(receiver[f])
           s == [stream[f] EXCEPT !.pulling = TRUE, !.view = v]
           u == After(q, s)
<1>0. q = set_pending_promise(receiver[f]) /\ u = After(q, s)
  OBVIOUS
<1> HIDE DEF q, s, u
<1>2. /\ stream[f].state = "readable" /\ ~stream[f].pulling
      /\ UNCHANGED <<network, response, wrote, read>>
  BY DEF pull_algorithm
<1>3. /\ q \in Receiver /\ u \in Stream /\ FetchOK(network[f], q, u, wrote[f]) /\ Moves(receiver[f], q)
      /\ u.trimmed = stream[f].trimmed
  <2>1. /\ receiver[f] \in Receiver /\ stream[f] \in Stream /\ v \in Views \cup {0}
        /\ FetchOK(network[f], receiver[f], stream[f], wrote[f])
    BY OfOne
  <2>2. s \in Stream /\ s.state = "readable" /\ s.pulling = TRUE /\ s.trimmed = stream[f].trimmed
    BY <1>2, <2>1, Zenon DEF Stream, s
  <2>3. Kept(network[f], receiver[f], q, u, wrote[f])
    BY <1>0, <1>2, <2>1, <2>2, PullKeeps
  <2>4. u.trimmed = s.trimmed
    BY <1>0, <2>2, AfterKeeps
  <2> QED BY <2>2, <2>3, <2>4 DEF Kept
<1>4. Becomes(f, q, s) /\ stream[f].state \in {"readable", "closed"}
  BY <1>1, <1>2 DEF q, s
<1> QED BY <1>2, <1>3, <1>4, BecomesStep DEF IInv, TypeOK, u

(* Bytes from the network keep the invariant.                              *)
LEMMA DataStep ==
    ASSUME IInv, NEW f \in Fetches, on_data_received(f) PROVE IInv' /\ (BytesAddUp => BytesAddUp')
<1>1. PICK b \in 1 .. MaxBytes - wrote[f] :
          /\ wrote' = [wrote EXCEPT ![f] = @ + b]
          /\ Becomes(f, handle_network_bytes(receiver[f], b, stream[f].state = "readable"), stream[f])
  BY DEF on_data_received
<1> DEFINE q == handle_network_bytes(receiver[f], b, stream[f].state = "readable")
           u == After(q, stream[f])
<1>0. q = handle_network_bytes(receiver[f], b, stream[f].state = "readable")
      /\ u = After(q, stream[f])
  OBVIOUS
<1> HIDE DEF q, u
<1>2. network[f] # "complete" /\ UNCHANGED <<network, response, read>>
  BY DEF on_data_received, Underway
<1>3. b \in Nat \ {0} /\ wrote[f] + b <= MaxBytes
  BY OfOne, FetchedDataReceiverAssumption
<1>4. /\ q \in Receiver /\ u \in Stream /\ Moves(receiver[f], q)
      /\ FetchOK(network[f], q, u, wrote[f] + b)
  <2>1. /\ receiver[f] \in Receiver /\ stream[f] \in Stream /\ wrote[f] \in Nat
        /\ FetchOK(network[f], receiver[f], stream[f], wrote[f])
    BY OfOne
  <2> QED BY <1>0, <1>2, <1>3, <2>1, DataKeeps
<1>5. Becomes(f, q, stream[f])
  BY <1>1 DEF q
<1>7. u = stream[f]
  BY <1>0, <1>2, <1>4 DEF After, FetchOK, Life
<1>6. wrote' \in [Fetches -> 0 .. MaxBytes] /\ wrote'[f] = wrote[f] + b
      /\ \A g \in Fetches \ {f} : wrote'[g] = wrote[g]
  <2>1. wrote[f] \in Nat /\ wrote \in [Fetches -> 0 .. MaxBytes]
    BY OfOne DEF IInv, TypeOK
  <2>2. wrote[f] + b \in 0 .. MaxBytes
    BY <1>3, <2>1, FetchedDataReceiverAssumption
  <2> QED BY <1>1, <2>1, <2>2
<1> QED BY <1>2, <1>4, <1>5, <1>6, <1>7, BecomesStep DEF IInv, TypeOK, u

(* The network's success keeps the invariant.                              *)
LEMMA CompleteStep ==
    ASSUME IInv, NEW f \in Fetches, on_complete_success(f) PROVE IInv' /\ (BytesAddUp => BytesAddUp')
<1> DEFINE q == handle_network_bytes(receiver[f], 0, stream[f].state = "readable")
           u == After(q, stream[f])
<1>1. /\ network[f] = "headers" /\ network' = [network EXCEPT ![f] = "complete"]
      /\ Becomes(f, q, stream[f]) /\ UNCHANGED <<response, wrote, read>>
  BY DEF on_complete_success
<1>0. q = handle_network_bytes(receiver[f], 0, stream[f].state = "readable")
      /\ u = After(q, stream[f])
  OBVIOUS
<1> HIDE DEF q, u
<1>2. /\ Kept("complete", receiver[f], q, u, wrote[f])
      /\ q.m_lifecycle_state = "Closed" => stream[f].state = "readable"
  <2>1. /\ network[f] # "complete" /\ receiver[f] \in Receiver /\ stream[f] \in Stream
        /\ FetchOK(network[f], receiver[f], stream[f], wrote[f])
    BY <1>1, OfOne
  <2>2. Kept("complete", receiver[f], q, u, wrote[f])
    BY <1>0, <2>1, CompleteKeeps
  <2>3. q.m_lifecycle_state = "Closed" => stream[f].state = "readable"
    BY <1>0, <2>1, CompleteKeeps
  <2> QED BY <2>2, <2>3
<1>4. u.state \in {"readable", "closed"} => stream[f].state \in {"readable", "closed"}
  BY <1>0, <1>2 DEF After
<1>5. u.trimmed = stream[f].trimmed
  BY <1>0, OfOne, AfterKeeps
<1>3. /\ network'[f] = "complete" /\ \A g \in Fetches \ {f} : network'[g] = network[g]
      /\ network' \in [Fetches -> {"none", "cached", "started", "headers", "complete", "failed"}]
  BY <1>1 DEF IInv, TypeOK
<1> QED BY <1>1, <1>2, <1>3, <1>4, <1>5, BecomesStep DEF IInv, TypeOK, u, Kept

(* The task of a pull runs.                                                *)
LEMMA TaskStep ==
    ASSUME IInv, NEW f \in Fetches, FetchTask(f)
    PROVE  IInv' /\ (BytesAddUp => BytesAddUp')
<1> DEFINE r == receiver[f]
           s == stream[f]
           q == FinishTask(r)
           given == IF s.state = "readable" THEN pull_from_bytes(s.view, r.task) ELSE 0
           lost == IF s.state = "readable" THEN r.task - given ELSE 0
           t == s.trimmed + lost
           u == [s EXCEPT !.pulling = FALSE, !.trimmed = t]
           k == read[f] + given
<1>1. /\ r.task > 0 /\ receiver' = [receiver EXCEPT ![f] = q]
      /\ stream' = [stream EXCEPT ![f] = u]
      /\ read' = [read EXCEPT ![f] = k]
      /\ UNCHANGED <<m_pending_entries, m_complete_entries, network, response, wrote>>
  BY DEF FetchTask, IInv, TypeOK
<1>2. /\ r \in Receiver /\ s \in Stream /\ FetchOK(network[f], r, s, wrote[f])
      /\ read[f] \in Nat /\ r.task \in Nat /\ r.m_pulled_bytes \in Nat /\ s.trimmed \in Nat
      /\ r.m_pulled_bytes <= MaxBytes /\ read[f] + s.trimmed + r.task <= r.m_pulled_bytes
  BY OfOne
<1>3. /\ q = FinishTask(r) /\ u = [s EXCEPT !.pulling = FALSE, !.trimmed = t]
      /\ k = read[f] + given /\ t = s.trimmed + lost
  OBVIOUS
<1>4. s.view \in Nat
  <2>1. s.view \in Views \cup {0}
    BY <1>2, Zenon DEF Stream
  <2>2. Views \cup {0} \subseteq Nat
    BY FetchedDataReceiverAssumption
  <2> QED BY <2>1, <2>2, Zenon
<1>10. /\ given \in Nat /\ lost \in Nat /\ given + lost <= r.task
       /\ s.state = "readable" => given + lost = r.task
  BY <1>2, <1>4 DEF pull_from_bytes
<1> HIDE DEF r, s, q, given, lost, t, u, k
<1>11. t \in 0 .. MaxBytes /\ k \in 0 .. MaxBytes
  BY <1>2, <1>3, <1>10, FetchedDataReceiverAssumption
<1>12. u \in Stream /\ u.pulling = FALSE /\ u.state = s.state /\ u.trimmed = t
  BY <1>2, <1>3, <1>11, Zenon DEF Stream
<1>5. /\ q \in Receiver /\ u \in Stream /\ FetchOK(network[f], q, u, wrote[f])
      /\ q.task = 0 /\ q.m_pulled_bytes = r.m_pulled_bytes
  <2>1. r.task > 0 /\ q = FinishTask(r)
    BY <1>1, <1>3
  <2>2. r \in Receiver /\ s \in Stream /\ FetchOK(network[f], r, s, wrote[f])
    BY <1>2
  <2>3. u \in Stream /\ ~u.pulling /\ u.state = s.state
    BY <1>12
  <2>4. q \in Receiver /\ FetchOK(network[f], q, u, wrote[f])
        /\ q.task = 0 /\ q.m_pulled_bytes = r.m_pulled_bytes
    BY <2>1, <2>2, <2>3, TaskKeeps
  <2> QED BY <2>3, <2>4
<1>6. k + u.trimmed + q.task <= q.m_pulled_bytes
  BY <1>2, <1>3, <1>5, <1>10, <1>12
<1>7. Added(r, s, read[f]) => Added(q, u, k)
  <2> SUFFICES ASSUME Added(r, s, read[f]), s.state \in {"readable", "closed"}
               PROVE  k + u.trimmed + q.task = q.m_pulled_bytes
    BY <1>12 DEF Added
  <2>1. s.state = "readable"
    BY <1>1, <1>2 DEF FetchOK, Pull, Life
  <2>2. read[f] + s.trimmed + r.task = r.m_pulled_bytes
    BY <1>1, <1>2 DEF Added
  <2> QED BY <1>2, <1>3, <1>5, <1>10, <1>12, <2>1, <2>2
<1>8. /\ network \in [Fetches -> {"none", "cached", "started", "headers", "complete", "failed"}]
      /\ response \in [Fetches -> {"none", "resolved", "loaded", "validated", "network error"}]
  BY DEF IInv, TypeOK
<1>9. IInv' /\ ((Added(r, s, read[f]) => Added(q, u, k)) => (BytesAddUp => BytesAddUp'))
  BY <1>1, <1>5, <1>6, <1>8, <1>11, LocalStep DEF r, s
<1> QED BY <1>7, <1>9

(* The consumer cancels, or whoever fetches stops: nothing moves.          *)
LEMMA CancelStep ==
    ASSUME IInv, NEW f \in Fetches, cancel_algorithm(f)
    PROVE  IInv' /\ (BytesAddUp => BytesAddUp')
<1> DEFINE r == receiver[f]
           u == [stream[f] EXCEPT !.state = "cancelled"]
<1>1. /\ stream[f].state = "readable" /\ stream' = [stream EXCEPT ![f] = u]
      /\ UNCHANGED <<m_pending_entries, m_complete_entries, network, response, receiver, wrote, read>>
  BY DEF cancel_algorithm
<1>2. /\ r \in Receiver /\ stream[f] \in Stream /\ FetchOK(network[f], r, stream[f], wrote[f])
      /\ read[f] \in 0 .. MaxBytes /\ read[f] + stream[f].trimmed + r.task <= r.m_pulled_bytes
  BY OfOne DEF IInv, TypeOK
<1>3. u \in Stream /\ u.state = "cancelled" /\ u.pulling = stream[f].pulling
      /\ u.trimmed = stream[f].trimmed
  BY <1>2, Zenon DEF Stream
<1>4. /\ receiver' = [receiver EXCEPT ![f] = r] /\ read' = [read EXCEPT ![f] = read[f]]
      /\ network' \in [Fetches -> {"none", "cached", "started", "headers", "complete", "failed"}]
      /\ response' \in [Fetches -> {"none", "resolved", "loaded", "validated", "network error"}]
  BY <1>1 DEF IInv, TypeOK
<1> HIDE DEF r, u
<1>5. FetchOK(network[f], r, u, wrote[f])
  BY <1>1, <1>2, <1>3 DEF FetchOK, Pull, Life
<1>6. Added(r, u, read[f])
  BY <1>3 DEF Added
<1> QED BY <1>1, <1>2, <1>3, <1>4, <1>5, <1>6, LocalStep

(* The network's failure keeps the invariant: an open stream is errored.   *)
LEMMA FailureStep ==
    ASSUME IInv, NEW f \in Fetches, on_complete_failure(f)
    PROVE  IInv' /\ (BytesAddUp => BytesAddUp')
<1> DEFINE r == receiver[f]
           s == stream[f]
           u == [s EXCEPT !.state = IF @ = "readable" THEN "errored" ELSE @]
<1>1. /\ network[f] # "complete" /\ network' = [network EXCEPT ![f] = "failed"]
      /\ stream' = [stream EXCEPT ![f] = u]
      /\ response' = [response EXCEPT ![f] = IF @ = "none" THEN "network error" ELSE @]
      /\ UNCHANGED <<m_pending_entries, m_complete_entries, receiver, wrote, read>>
  BY DEF on_complete_failure, Underway
<1>2. /\ r \in Receiver /\ s \in Stream /\ FetchOK(network[f], r, s, wrote[f])
      /\ read[f] \in 0 .. MaxBytes /\ read[f] + stream[f].trimmed + r.task <= r.m_pulled_bytes
  BY OfOne DEF IInv, TypeOK
<1>3. /\ u \in Stream /\ u.state = (IF s.state = "readable" THEN "errored" ELSE s.state)
      /\ u.pulling = s.pulling /\ u.trimmed = s.trimmed
  BY <1>2, Zenon DEF Stream
<1>4. /\ receiver' = [receiver EXCEPT ![f] = r] /\ read' = [read EXCEPT ![f] = read[f]]
      /\ network' \in [Fetches -> {"none", "cached", "started", "headers", "complete", "failed"}]
      /\ network'[f] = "failed" /\ \A g \in Fetches \ {f} : network'[g] = network[g]
      /\ response' \in [Fetches -> {"none", "resolved", "loaded", "validated", "network error"}]
  BY <1>1 DEF IInv, TypeOK
<1> HIDE DEF r, s, u
<1>5. FetchOK(network[f], r, u, wrote[f])
  BY <1>1, <1>2, <1>3 DEF FetchOK, Pull, Life
<1>6. Added(r, s, read[f]) => Added(r, u, read[f])
  BY <1>3 DEF Added
<1> QED BY <1>1, <1>2, <1>3, <1>4, <1>5, <1>6, LocalStep DEF r, s

(* A fetch that is stopped drops its queued task, and keeps the invariant. *)
LEMMA StopStep ==
    ASSUME IInv, NEW f \in Fetches, stop_fetch(f)
    PROVE  IInv' /\ (BytesAddUp => BytesAddUp')
<1> DEFINE r == receiver[f]
           q == [r EXCEPT !.task = 0]
<1>1. /\ r.task > 0 /\ receiver' = [receiver EXCEPT ![f] = q]
      /\ UNCHANGED <<m_pending_entries, m_complete_entries, network, response, stream, wrote, read>>
  BY DEF stop_fetch
<1>2. /\ r \in Receiver /\ stream[f] \in Stream /\ FetchOK(network[f], r, stream[f], wrote[f])
      /\ read[f] \in Nat /\ read[f] \in 0 .. MaxBytes /\ read[f] + stream[f].trimmed + r.task <= r.m_pulled_bytes
      /\ r.task \in Nat /\ r.m_pulled_bytes \in Nat /\ stream[f].trimmed \in Nat
  BY OfOne DEF IInv, TypeOK
<1>3. Has(q, r.m_buffer, r.m_pulled_bytes, r.m_pending_promise, r.m_has_unfulfilled_promise,
          r.m_lifecycle_state, 0)
  <2>1. r.broken = FALSE /\ 0 \in 0 .. MaxBytes
    BY <1>2, FetchedDataReceiverAssumption DEF FetchOK, Receiver
  <2> QED BY <1>2, <2>1, Zenon DEF Has, Receiver
<1>4. /\ stream' = [stream EXCEPT ![f] = stream[f]] /\ read' = [read EXCEPT ![f] = read[f]]
      /\ network' \in [Fetches -> {"none", "cached", "started", "headers", "complete", "failed"}]
      /\ response' \in [Fetches -> {"none", "resolved", "loaded", "validated", "network error"}]
  BY <1>1 DEF IInv, TypeOK
<1> HIDE DEF r, q
<1>5. FetchOK(network[f], q, stream[f], wrote[f]) /\ read[f] + stream[f].trimmed + q.task <= q.m_pulled_bytes
  BY <1>1, <1>2, <1>3 DEF FetchOK, Pull, Life, Has, buffer_is_eof
<1>6. Added(q, stream[f], read[f])
  BY <1>1, <1>2, <1>3 DEF Added, Has, FetchOK, Pull
<1>7. q \in Receiver
  BY <1>3 DEF Has
<1> QED BY ZenonT(30), <1>1, <1>2, <1>4, <1>5, <1>6, <1>7, LocalStep

-----------------------------------------------------------------------------
(* Every step keeps the invariant and accounts for every byte.             *)
LEMMA StepKeeps ==
    ASSUME IInv, [Next]_vars PROVE IInv' /\ (BytesAddUp => BytesAddUp')
<1>1. CASE UNCHANGED vars
  <2>1. IInv'
    BY <1>1 DEF vars, IInv, TypeOK, CachedBodyIsWhole
  <2>2. BytesAddUp => BytesAddUp'
    BY <1>1 DEF vars, BytesAddUp
  <2> QED BY <2>1, <2>2
<1>2. ASSUME NEW f \in Fetches, FetchFromNetwork(f) PROVE IInv' /\ (BytesAddUp => BytesAddUp')
  BY <1>2, NetworkStep DEF FetchFromNetwork, IInv, TypeOK
<1>3. ASSUME NEW f \in Fetches, select_response_from_cache(f)
      PROVE  IInv' /\ (BytesAddUp => BytesAddUp')
  BY <1>3, NetworkStep DEF select_response_from_cache, IInv, TypeOK
<1>4. ASSUME NEW f \in Fetches, on_headers_received(f) PROVE IInv' /\ (BytesAddUp => BytesAddUp')
  BY <1>4, NetworkStep DEF on_headers_received, IInv, TypeOK
<1>5. ASSUME NEW f \in Fetches, store_response_in_cache(f)
      PROVE  IInv' /\ (BytesAddUp => BytesAddUp')
  BY <1>5, NetworkStep DEF store_response_in_cache, create_entry, IInv, TypeOK
<1>6. ASSUME NEW f \in Fetches, Validated(f) PROVE IInv' /\ (BytesAddUp => BytesAddUp')
  BY <1>6, NetworkStep DEF Validated, IInv, TypeOK
<1> QED BY <1>1, <1>2, <1>3, <1>4, <1>5, <1>6, PullStep, DataStep, CompleteStep, TaskStep,
           CancelStep, FailureStep, StopStep DEF Next

(* No order of network, consumer, tasks and stops makes a VERIFY of the    *)
(* FetchedDataReceiver fail, whatever the number of fetches, the bytes of  *)
(* a body and the views that readers bring.                                *)
THEOREM NoVerifyFails == Spec => []Inv
<1>1. IInv => Inv
  BY DEF IInv, Inv, AssertionsHold, Intact, FetchOK
<1> QED BY <1>1, Initially, StepKeeps, PTL DEF Spec

(* A body in the memory cache is whole whatever readers do: what finalises *)
(* the entry is the buffer, not what was read.                             *)
THEOREM CachedBodies == Spec => []CachedBodyIsWhole
<1>1. IInv => CachedBodyIsWhole
  BY DEF IInv
<1> QED BY <1>1, Initially, StepKeeps, PTL DEF Spec

(* A stream that is closed has given its consumer the whole body, less     *)
(* what the consumer's own views were too small for, and a cached body is  *)
(* the whole body, whatever views readers bring.                           *)
THEOREM WholeBodies == Spec => []BodiesAreWhole
<1>1. Init => BytesAddUp
  <2> SUFFICES ASSUME Init, NEW f \in Fetches
               PROVE  read[f] + stream[f].trimmed + receiver[f].task = receiver[f].m_pulled_bytes
    BY DEF BytesAddUp, Added
  <2>1. /\ read[f] = 0 /\ stream[f].trimmed = 0
        /\ receiver[f].task = 0 /\ receiver[f].m_pulled_bytes = 0
    BY DEF Init, NewReceiver, NewStream
  <2> QED BY <2>1
<1>2. IInv /\ BytesAddUp => BodiesAreWhole
  <2> SUFFICES ASSUME IInv, BytesAddUp PROVE BodiesAreWhole
    OBVIOUS
  <2>1. ASSUME NEW f \in Fetches, stream[f].state = "closed"
        PROVE  network[f] = "complete" /\ read[f] + stream[f].trimmed = wrote[f]
    <3>1. Added(receiver[f], stream[f], read[f])
      BY DEF BytesAddUp
    <3> QED BY <2>1, <3>1, OfOne DEF FetchOK, Life, Pull, Added, buffer_is_eof
  <2> QED BY <2>1 DEF IInv, BodiesAreWhole, ClosedIsWhole
<1>3. IInv /\ BytesAddUp /\ [Next]_vars => IInv' /\ BytesAddUp'
  BY StepKeeps
<1> QED BY <1>1, <1>2, <1>3, Initially, PTL DEF Spec
=============================================================================
