------------------------ MODULE RequestClientProofs ------------------------
(***************************************************************************)
(* Theorems about RequestClient, for every number of requests, every       *)
(* length of a body and every fault: its safety invariant, and that what   *)
(* the owners of requests are called with is what LoadCallbacks promises.  *)
(***************************************************************************)
EXTENDS RequestClient, FiniteSetTheorems, TLAPS

(***************************************************************************)
(* The order of what the server says of one request, and how far it has    *)
(* come with it.                                                           *)
(***************************************************************************)
Rank(type) == CASE type = "started" -> 1 [] type = "headers" -> 2 [] OTHER -> 3

Reached(w) == CASE w \in {"none", "asked"} -> 0 [] w = "started" -> 1 [] w = "headers" -> 2
                [] OTHER -> 3

(* A message of this type about r is among the first n of the channel.     *)
Before(n, type, r) == \E i \in 1 .. n : channel[i].type = type /\ channel[i].id = r

Pending(type, r) == Before(Len(channel), type, r)

(***************************************************************************)
(* The inductive invariant.                                                *)
(***************************************************************************)

(* Messages about one request keep their order.                            *)
Ordered ==
    \A i, j \in 1 .. Len(channel) :
        i < j /\ channel[i].id = channel[j].id => Rank(channel[i].type) < Rank(channel[j].type)

(* A message is about a request that the client still has, and that its    *)
(* server has come as far with.  Success is reported after the start and   *)
(* the headers, which come before it or have been handled.                 *)
MessageOK(i) ==
    LET m == channel[i]
        r == m.id
    IN  /\ client = "open" /\ r \in m_requests
        /\ Rank(m.type) <= Reached(work[r])
        /\ m.type = "started" => request[r].read_stream = "none"
        /\ m.type = "finished" /\ request[r].data =>
               /\ request[r].read_stream # "none" \/ Before(i - 1, "started", r)
               /\ called[r] # "none" \/ Before(i - 1, "headers", r)

(* The server works on requests that the client has, and has told of them. *)
WorkOK(r) ==
    /\ work[r] \in {"asked", "started", "headers"} =>
           r \in m_requests /\ client = "open" /\ server = "alive"
    /\ work[r] \in {"started", "headers"} /\ request[r].data =>
           request[r].read_stream # "none" \/ Pending("started", r)
    /\ work[r] = "headers" /\ request[r].data => called[r] # "none" \/ Pending("headers", r)

(* A request that was not issued is nowhere; the data are in the pipe or   *)
(* with the owner; a pipe that has ended is empty and has no writer; what  *)
(* has ended is no longer the client's.                                    *)
RequestOK(r) ==
    /\ request[r].data => request[r].issued
    /\ ~request[r].issued =>
           /\ called[r] = "none" /\ work[r] = "none" /\ request[r].read_stream = "none"
           /\ ~request[r].request_done
           /\ r \notin m_requests /\ r \notin held /\ r \notin deferred
    /\ got[r] + pipe[r] = wrote[r]
    /\ request[r].read_stream = "eof" \/ called[r] = "complete" => work[r] = "gone" /\ pipe[r] = 0
    /\ request[r].read_stream # "none" => work[r] \notin {"none", "asked"}
    /\ Ended(r) <=> request[r].user_finish_called
    /\ request[r].user_finish_called \/ request[r].request_done => r \notin m_requests
    /\ request[r].user_finish_called => request[r].read_stream # "open"
    /\ r \in deferred => request[r].user_finish_called
    /\ request[r].request_done /\ request[r].data /\ ~request[r].network_error => called[r] # "none"
    /\ owner = "ResourceLoader" =>
           /\ request[r].issued /\ ~request[r].user_finish_called => r \in held
           /\ r \in deferred => r \in held

IInv ==
    /\ TypeOK
    /\ AssertionsHold
    /\ client # "open" => server = "died"
    /\ Ordered
    /\ \A i \in 1 .. Len(channel) : MessageOK(i)
    /\ \A r \in Requests : WorkOK(r) /\ RequestOK(r)

-----------------------------------------------------------------------------
(* What the type invariant says of one request.                            *)
LEMMA OfOne ==
    ASSUME TypeOK, NEW r \in Requests
    PROVE  /\ work[r] \in Work /\ request[r] \in Request
           /\ pipe[r] \in Nat /\ wrote[r] \in Nat /\ got[r] \in Nat
           /\ pipe[r] <= MaxData /\ wrote[r] <= MaxData /\ got[r] <= MaxData
           /\ called[r] \in {"none", "headers", "complete", "failed"}
BY RequestClientAssumption DEF TypeOK

(* What it says of one message.                                            *)
LEMMA OfMessage ==
    ASSUME TypeOK
    PROVE  /\ channel \in Seq(Message) /\ Len(channel) \in Nat
           /\ \A i \in 1 .. Len(channel) :
                  /\ channel[i] \in Message /\ channel[i].id \in Requests
                  /\ channel[i].type \in {"started", "headers", "finished", "failed"}
<1>1. channel \in Seq(Message)
  BY DEF TypeOK
<1>2. \A i \in 1 .. Len(channel) : channel[i] \in Message
  BY <1>1
<1> QED BY <1>1, <1>2 DEF Message

(* A message is put at the end of the channel.                             *)
LEMMA AtTheEnd ==
    ASSUME TypeOK, NEW r \in Requests, NEW type \in {"started", "headers", "finished", "failed"},
           Send(r, type)
    PROVE  /\ channel' \in Seq(Message) /\ Len(channel') = Len(channel) + 1
           /\ \A i \in 1 .. Len(channel) : channel'[i] = channel[i]
           /\ channel'[Len(channel) + 1].type = type /\ channel'[Len(channel) + 1].id = r
<1> DEFINE m == [type |-> type, id |-> r]
<1>1. m \in Message /\ m.type = type /\ m.id = r
  BY DEF Message
<1>2. channel' = Append(channel, m)
  BY DEF Send
<1> HIDE DEF m
<1> QED BY <1>1, <1>2, OfMessage

(* The server sends a message and has come further with the request.       *)
LEMMA SendStep ==
    ASSUME IInv, NEW r \in Requests, NEW type \in {"started", "headers", "finished", "failed"},
           NEW w \in Work, Send(r, type), work' = [work EXCEPT ![r] = w],
           \/ type = "started" /\ work[r] = "asked" /\ w = "started"
           \/ type = "headers" /\ work[r] = "started" /\ w = "headers"
           \/ type = "finished" /\ work[r] = "headers" /\ w = "finished"
           \/ type = "failed" /\ work[r] \in {"asked", "started", "headers"} /\ w = "finished",
           ServerUnchanged, UNCHANGED <<pipe, wrote>>
    PROVE  IInv'
<1> DEFINE n == Len(channel)
<1> TypeOK /\ AssertionsHold /\ Ordered
  BY DEF IInv
<1>1. /\ channel' \in Seq(Message) /\ Len(channel') = n + 1 /\ n \in Nat
      /\ \A i \in 1 .. n : channel'[i] = channel[i]
      /\ channel'[n + 1].type = type /\ channel'[n + 1].id = r
  BY AtTheEnd, OfMessage
<1>2. /\ work' \in [Requests -> Work] /\ work'[r] = w
      /\ \A s \in Requests \ {r} : work'[s] = work[s]
  BY DEF TypeOK
<1>3. UNCHANGED <<owner, client, server, pipe, wrote, m_requests, held, deferred, request, got,
                  called, crashed>>
  BY DEF ServerUnchanged
<1>4. r \in m_requests /\ client = "open" /\ server = "alive"
  BY DEF IInv, WorkOK
<1>5. Reached(work[r]) < Rank(type) /\ Rank(type) <= Reached(w)
  BY DEF Reached, Rank
<1>6. TypeOK'
  BY <1>1, <1>2, <1>3 DEF TypeOK
<1> HIDE DEF n
<1>7. \A i \in 1 .. n : /\ channel[i].id \in Requests /\ MessageOK(i)
                        /\ channel[i].type \in {"started", "headers", "finished", "failed"}
  BY OfMessage DEF IInv, n
<1>8. Ordered'
  <2> SUFFICES ASSUME NEW i \in 1 .. n + 1, NEW j \in 1 .. n + 1, i < j,
                      channel'[i].id = channel'[j].id
               PROVE  Rank(channel'[i].type) < Rank(channel'[j].type)
    BY <1>1 DEF Ordered
  <2>1. CASE j \in 1 .. n
    BY <1>1, <2>1 DEF Ordered, n
  <2>2. CASE j = n + 1
    <3>1. i \in 1 .. n /\ channel'[i] = channel[i] /\ channel[i].id = r
      BY <1>1, <2>2
    <3>2. Rank(channel[i].type) <= Reached(work[r])
      BY <1>7, <3>1 DEF MessageOK
    <3>3. Rank(channel[i].type) \in Nat /\ Rank(type) \in Nat /\ Reached(work[r]) \in Nat
      BY DEF Rank, Reached
    <3> QED BY <1>1, <1>5, <2>2, <3>1, <3>2, <3>3
  <2> QED BY <2>1, <2>2, <1>1
<1>9. ASSUME NEW k \in Nat, k <= n, NEW t, NEW s PROVE Before(k, t, s)' <=> Before(k, t, s)
  BY <1>1, <1>9 DEF Before
<1>10. ASSUME NEW t, NEW s, Pending(t, s) PROVE Pending(t, s)'
  BY <1>1, <1>10 DEF Pending, Before, n
<1>11. Pending(type, r)'
  BY <1>1 DEF Pending, Before
<1>12. ASSUME NEW i \in 1 .. n + 1 PROVE MessageOK(i)'
  <2>1. CASE i \in 1 .. n
    <3>1. channel'[i] = channel[i] /\ MessageOK(i) /\ i - 1 \in Nat /\ i - 1 <= n
      BY <1>1, <1>7, <2>1
    <3>2. Rank(channel[i].type) <= Reached(work'[channel[i].id])
      BY <1>2, <1>5, <1>7, <2>1, <3>1 DEF MessageOK, Rank, Reached
    <3> QED BY <1>3, <1>9, <3>1, <3>2 DEF MessageOK
  <2>2. CASE i = n + 1
    <3>1. channel'[i].type = type /\ channel'[i].id = r /\ i - 1 = n
      BY <1>1, <2>2
    <3>2. type = "started" => request[r].read_stream = "none"
      BY DEF IInv, RequestOK
    <3>3. type = "finished" /\ request[r].data =>
              /\ request[r].read_stream # "none" \/ Before(n, "started", r)
              /\ called[r] # "none" \/ Before(n, "headers", r)
      BY DEF IInv, WorkOK, Pending, n
    <3> QED BY <1>1, <1>2, <1>3, <1>4, <1>5, <1>9, <3>1, <3>2, <3>3 DEF MessageOK
  <2> QED BY <1>1, <2>1, <2>2
<1>13. ASSUME NEW s \in Requests PROVE WorkOK(s)'
  <2>1. CASE s = r
    BY <1>2, <1>3, <1>4, <1>10, <1>11, <2>1 DEF IInv, WorkOK
  <2>2. CASE s # r
    BY <1>2, <1>3, <1>10, <2>2 DEF IInv, WorkOK
  <2> QED BY <2>1, <2>2
<1>14. ASSUME NEW s \in Requests PROVE RequestOK(s)'
  <2>1. CASE s = r
    BY <1>2, <1>3, <2>1 DEF IInv, RequestOK, Ended
  <2>2. CASE s # r
    BY <1>2, <1>3, <2>2 DEF IInv, RequestOK, Ended
  <2> QED BY <2>1, <2>2
<1> QED BY <1>1, <1>3, <1>6, <1>8, <1>12, <1>13, <1>14 DEF IInv, AssertionsHold

(* What is left to show of a step that leaves the channel alone.           *)
LEMMA SameChannel ==
    ASSUME IInv, UNCHANGED <<channel, client>>,
           \A r \in Requests : r \in m_requests =>
               /\ r \in m_requests' /\ Reached(work[r]) <= Reached(work'[r])
               /\ request[r].read_stream = "none" => request'[r].read_stream = "none"
               /\ request'[r].data =>
                      /\ request[r].data
                      /\ request'[r].read_stream = "none" => request[r].read_stream = "none"
                      /\ called'[r] = "none" => called[r] = "none"
    PROVE  /\ Ordered' /\ \A i \in 1 .. Len(channel') : MessageOK(i)'
           /\ \A type, r : Pending(type, r)' <=> Pending(type, r)
<1> TypeOK
  BY DEF IInv
<1>1. Ordered'
  BY DEF IInv, Ordered
<1>2. \A type, r : Pending(type, r)' <=> Pending(type, r)
  BY DEF Pending, Before
<1>3. ASSUME NEW i \in 1 .. Len(channel) PROVE MessageOK(i)'
  <2> DEFINE r == channel[i].id
             t == channel[i].type
  <2>1. MessageOK(i) /\ r \in Requests
    BY <1>3, OfMessage DEF IInv
  <2>2. r \in m_requests /\ Rank(t) <= Reached(work[r])
    BY <2>1 DEF MessageOK
  <2>3. Rank(t) \in Nat /\ Reached(work[r]) \in Nat /\ Reached(work'[r]) \in Nat
    BY DEF Rank, Reached
  <2>4. Rank(t) <= Reached(work'[r])
    BY <2>1, <2>2, <2>3
  <2>5. \A type : Before(i - 1, type, r)' <=> Before(i - 1, type, r)
    BY DEF Before
  <2> QED BY <2>1, <2>2, <2>4, <2>5 DEF MessageOK
<1> QED BY <1>1, <1>2, <1>3

(* The server writes data, and destroys a request that is finished.        *)
LEMMA WriteStep ==
    ASSUME IInv, NEW r \in Requests, write_queued_bytes_without_blocking(r) PROVE IInv'
<1> TypeOK /\ AssertionsHold
  BY DEF IInv
<1>1. /\ work[r] = "headers" /\ wrote[r] < MaxData
      /\ UNCHANGED <<owner, client, server, channel, work, m_requests, held, deferred, request, got,
                     called, crashed>>
  BY DEF write_queued_bytes_without_blocking, ServerUnchanged
<1>2. /\ wrote'[r] = wrote[r] + 1 /\ pipe'[r] = pipe[r] + 1
      /\ \A s \in Requests \ {r} : wrote'[s] = wrote[s] /\ pipe'[s] = pipe[s]
  BY DEF write_queued_bytes_without_blocking, TypeOK
<1>3. got[r] + pipe[r] = wrote[r]
  BY DEF IInv, RequestOK
<1>4. wrote[r] + 1 \in 0 .. MaxData /\ pipe[r] + 1 \in 0 .. MaxData
  BY <1>1, <1>3, OfOne, RequestClientAssumption
<1>5. TypeOK'
  <2>1. wrote' \in [Requests -> 0 .. MaxData] /\ pipe' \in [Requests -> 0 .. MaxData]
    BY <1>4 DEF write_queued_bytes_without_blocking, TypeOK
  <2> QED BY <1>1, <2>1 DEF TypeOK
<1>6. /\ Ordered' /\ \A i \in 1 .. Len(channel') : MessageOK(i)'
      /\ \A type, s : Pending(type, s)' <=> Pending(type, s)
  <2>1. \A s \in Requests : Reached(work[s]) <= Reached(work[s])
    BY DEF Reached
  <2> QED BY <1>1, <2>1, SameChannel
<1>7. ASSUME NEW s \in Requests PROVE WorkOK(s)'
  BY <1>1, <1>6 DEF IInv, WorkOK
<1>8. ASSUME NEW s \in Requests PROVE RequestOK(s)'
  <2>1. CASE s = r
    BY <1>1, <1>2, <2>1, OfOne DEF IInv, RequestOK, Ended
  <2>2. CASE s # r
    BY <1>1, <1>2, <2>2 DEF IInv, RequestOK, Ended
  <2> QED BY <2>1, <2>2
<1> QED BY <1>1, <1>5, <1>6, <1>7, <1>8 DEF IInv, AssertionsHold

(* The server forgets a request that it has finished.                      *)
LEMMA GoneStep ==
    ASSUME IInv, NEW r \in Requests, request_complete(r) PROVE IInv'
<1> TypeOK /\ AssertionsHold
  BY DEF IInv
<1>1. /\ work[r] = "finished"
      /\ UNCHANGED <<owner, client, server, channel, pipe, wrote, m_requests, held, deferred,
                     request, got, called, crashed>>
  BY DEF request_complete, ServerUnchanged
<1>2. /\ work' \in [Requests -> Work] /\ work'[r] = "gone"
      /\ \A s \in Requests \ {r} : work'[s] = work[s]
  BY DEF request_complete, TypeOK, Work
<1>3. TypeOK'
  BY <1>1, <1>2 DEF TypeOK
<1>4. /\ Ordered' /\ \A i \in 1 .. Len(channel') : MessageOK(i)'
      /\ \A type, s : Pending(type, s)' <=> Pending(type, s)
  <2>1. \A s \in Requests : Reached(work[s]) <= Reached(work'[s])
    BY <1>1, <1>2 DEF Reached
  <2> QED BY <1>1, <2>1, SameChannel
<1>5. ASSUME NEW s \in Requests PROVE WorkOK(s)' /\ RequestOK(s)'
  <2>1. CASE s = r
    BY <1>1, <1>2, <2>1 DEF IInv, WorkOK, RequestOK, Ended
  <2>2. CASE s # r
    BY <1>1, <1>2, <1>4, <2>2 DEF IInv, WorkOK, RequestOK, Ended
  <2> QED BY <2>1, <2>2
<1> QED BY <1>1, <1>3, <1>4, <1>5 DEF IInv, AssertionsHold

(* The server dies: the messages that remain are the first ones.           *)
LEMMA DeathStep ==
    ASSUME IInv, ServerDies PROVE IInv'
<1> TypeOK /\ AssertionsHold
  BY DEF IInv
<1>1. /\ server' = "died"
      /\ UNCHANGED <<owner, client, pipe, wrote, m_requests, held, deferred, request, got, called,
                     crashed>>
  BY DEF ServerDies
<1>2. \A r \in Requests : work'[r] = (IF work[r] = "none" THEN "none" ELSE "gone")
  BY DEF ServerDies
<1>3. PICK n \in 0 .. Len(channel) : channel' = SubSeq(channel, 1, n)
  BY DEF ServerDies
<1>4. /\ channel' \in Seq(Message) /\ Len(channel') = n /\ n \in Nat /\ n <= Len(channel)
      /\ \A i \in 1 .. n : channel'[i] = channel[i] /\ i \in 1 .. Len(channel)
  BY <1>3, OfMessage
<1>5. TypeOK'
  <2>1. work' \in [Requests -> Work]
    BY DEF ServerDies, TypeOK, Work
  <2> QED BY <1>1, <1>4, <2>1 DEF TypeOK
<1>6. Ordered'
  BY <1>4 DEF IInv, Ordered
<1>7. ASSUME NEW i \in 1 .. n PROVE MessageOK(i)'
  <2> DEFINE r == channel[i].id
             t == channel[i].type
  <2>1. MessageOK(i) /\ r \in Requests /\ channel'[i] = channel[i]
    BY <1>4, <1>7, OfMessage DEF IInv
  <2>2. Rank(t) <= Reached(work'[r])
    BY <1>2, <2>1 DEF MessageOK, Rank, Reached
  <2>3. \A type : Before(i - 1, type, r)' <=> Before(i - 1, type, r)
    BY <1>4, <1>7 DEF Before
  <2> QED BY <1>1, <2>1, <2>2, <2>3 DEF MessageOK
<1>8. ASSUME NEW s \in Requests PROVE WorkOK(s)' /\ RequestOK(s)'
  BY <1>1, <1>2 DEF IInv, WorkOK, RequestOK, Ended
<1> QED BY <1>1, <1>4, <1>5, <1>6, <1>7, <1>8 DEF IInv, AssertionsHold

-----------------------------------------------------------------------------
(* A request whose members are q is now p: only user_finish_called may     *)
(* differ.                                                                 *)
Like(p, q) ==
    /\ p.issued = q.issued /\ p.data = q.data /\ p.read_stream = q.read_stream
    /\ p.request_done = q.request_done /\ p.network_error = q.network_error

(* What Finish does to the request r when its members are q: now is        *)
(* whether the owner is told.                                              *)
Told(r, q, now) ==
    /\ request'[r] \in Request /\ Like(request'[r], q)
    /\ request'[r].user_finish_called <=> q.user_finish_called \/ now
    /\ called'[r] = IF now THEN IF q.network_error THEN "failed" ELSE "complete" ELSE called[r]
    /\ r \in deferred' <=> r \in deferred \/ now

(* A request is finished: its members, and what the owner is told.         *)
LEMMA FinishFacts ==
    ASSUME TypeOK, NEW S \in SUBSET Requests, NEW q \in [Requests -> Request], Finish(S, q)
    PROVE  /\ request' \in [Requests -> Request] /\ deferred' \subseteq Requests
           /\ called' \in [Requests -> {"none", "headers", "complete", "failed"}]
           /\ \A r \in Requests : Told(r, q[r], r \in S /\ FinishesNow(q[r]))
<1> DEFINE now == {r \in S : FinishesNow(q[r])}
<1>1. /\ request' = [r \in Requests |->
                       IF r \in now THEN [q[r] EXCEPT !.user_finish_called = TRUE] ELSE q[r]]
      /\ called' = [r \in Requests |->
                       IF r \in now THEN IF q[r].network_error THEN "failed" ELSE "complete"
                       ELSE called[r]]
      /\ deferred' = deferred \cup now
  BY DEF Finish
<1>2. ASSUME NEW p \in Request, NEW t, t = [p EXCEPT !.user_finish_called = TRUE]
      PROVE  t \in Request /\ Like(t, p) /\ t.user_finish_called = TRUE
  BY <1>2, Zenon DEF Request, Like
<1>3. ASSUME NEW r \in Requests
      PROVE  /\ r \in now <=> r \in S /\ FinishesNow(q[r])
             /\ request'[r] = IF r \in now THEN [q[r] EXCEPT !.user_finish_called = TRUE] ELSE q[r]
  BY <1>1
<1> HIDE DEF now
<1>4. ASSUME NEW r \in Requests
      PROVE  /\ request'[r] \in Request /\ Like(request'[r], q[r])
             /\ request'[r].user_finish_called <=> q[r].user_finish_called \/ r \in now
  <2>1. q[r] \in Request
    OBVIOUS
  <2>2. CASE r \in now
    BY <1>2, <1>3, <2>1, <2>2, Zenon
  <2>3. CASE r \notin now
    <3>1. request'[r] = q[r]
      BY <1>3, <2>3, Zenon
    <3>2. Like(q[r], q[r])
      BY DEF Like
    <3> QED BY <2>1, <2>3, <3>1, <3>2, Zenon
  <2> QED BY <2>2, <2>3
<1>5. deferred' \subseteq Requests
  BY <1>1 DEF TypeOK, now
<1>6. called' \in [Requests -> {"none", "headers", "complete", "failed"}]
  BY <1>1 DEF TypeOK
<1>7. request' \in [Requests -> Request]
  <2>1. request' = [r \in Requests |-> request'[r]]
    BY <1>1
  <2> QED BY <1>4, <2>1
<1>8. ASSUME NEW r \in Requests PROVE Told(r, q[r], r \in now)
  <2>1. /\ called'[r] = IF r \in now THEN IF q[r].network_error THEN "failed" ELSE "complete"
                        ELSE called[r]
        /\ r \in deferred' <=> r \in deferred \/ r \in now
    BY <1>1
  <2> QED BY <1>4, <2>1 DEF Told
<1>9. ASSUME NEW r \in Requests PROVE Told(r, q[r], r \in S /\ FinishesNow(q[r]))
  <2>1. CASE r \in now
    BY <1>3, <1>8, <2>1 DEF Told
  <2>2. CASE r \notin now
    BY <1>3, <1>8, <2>2 DEF Told
  <2> QED BY <2>1, <2>2
<1> QED BY <1>5, <1>6, <1>7, <1>9

(* What did_finish does to one request: hit is whether it is meant, now    *)
(* whether its owner is told.                                              *)
Hit(r, hit, now, error) ==
    /\ request'[r] \in Request
    /\ request'[r].issued = request[r].issued /\ request'[r].data = request[r].data
    /\ request'[r].read_stream = request[r].read_stream
    /\ request'[r].request_done <=> hit \/ request[r].request_done
    /\ request'[r].network_error <=> IF hit THEN error ELSE request[r].network_error
    /\ request'[r].user_finish_called <=> request[r].user_finish_called \/ now
    /\ called'[r] = IF now THEN IF error THEN "failed" ELSE "complete" ELSE called[r]
    /\ r \in deferred' <=> r \in deferred \/ now

(* What did_finish does to each request, in S or not.                      *)
LEMMA DidFinish ==
    ASSUME TypeOK, NEW S \in SUBSET Requests, NEW error \in BOOLEAN, did_finish(S, error)
    PROVE  /\ request' \in [Requests -> Request] /\ deferred' \subseteq Requests
           /\ called' \in [Requests -> {"none", "headers", "complete", "failed"}]
           /\ \A r \in Requests :
                  Hit(r, r \in S /\ request[r].data, r \in S /\ FinishesNow(request[r]), error)
<1> DEFINE q == [r \in Requests |->
                   IF r \in S /\ request[r].data
                   THEN [request[r] EXCEPT !.request_done = TRUE, !.network_error = error]
                   ELSE request[r]]
<1>1. Finish(S, q)
  BY DEF did_finish
<1>2. ASSUME NEW p \in Request, NEW t, t = [p EXCEPT !.request_done = TRUE, !.network_error = error]
      PROVE  /\ t \in Request /\ t.issued = p.issued /\ t.data = p.data
             /\ t.read_stream = p.read_stream /\ t.request_done = TRUE /\ t.network_error = error
             /\ t.user_finish_called = p.user_finish_called
  BY <1>2, Zenon DEF Request
<1>3. ASSUME NEW r \in Requests
      PROVE  /\ request[r] \in Request
             /\ q[r] = IF r \in S /\ request[r].data
                       THEN [request[r] EXCEPT !.request_done = TRUE, !.network_error = error]
                       ELSE request[r]
  BY OfOne
<1>q. q = [r \in Requests |-> q[r]]
  OBVIOUS
<1> HIDE DEF q
<1>4. ASSUME NEW r \in Requests
      PROVE  /\ q[r] \in Request /\ q[r].issued = request[r].issued /\ q[r].data = request[r].data
             /\ q[r].read_stream = request[r].read_stream
             /\ q[r].user_finish_called = request[r].user_finish_called
             /\ r \in S /\ request[r].data => q[r].request_done = TRUE /\ q[r].network_error = error
             /\ ~(r \in S /\ request[r].data) => q[r] = request[r]
  <2>1. CASE r \in S /\ request[r].data
    <3>1. q[r] = [request[r] EXCEPT !.request_done = TRUE, !.network_error = error]
      BY <1>3, <2>1, Zenon
    <3>2. request[r] \in Request
      BY <1>3
    <3>3. /\ q[r] \in Request /\ q[r].issued = request[r].issued /\ q[r].data = request[r].data
          /\ q[r].read_stream = request[r].read_stream
          /\ q[r].request_done = TRUE /\ q[r].network_error = error
          /\ q[r].user_finish_called = request[r].user_finish_called
      BY <1>2, <3>1, <3>2, Zenon
    <3> QED BY <2>1, <3>3, Zenon
  <2>2. CASE ~(r \in S /\ request[r].data)
    <3>1. q[r] = request[r]
      BY <1>3, <2>2, Zenon
    <3> QED BY <1>3, <2>2, <3>1, Zenon
  <2> QED BY <2>1, <2>2
<1>5. q \in [Requests -> Request]
  BY <1>4, <1>q
<1>6. /\ request' \in [Requests -> Request] /\ deferred' \subseteq Requests
      /\ called' \in [Requests -> {"none", "headers", "complete", "failed"}]
      /\ \A r \in Requests : Told(r, q[r], r \in S /\ FinishesNow(q[r]))
  BY <1>1, <1>5, FinishFacts
<1>7. ASSUME NEW r \in Requests
      PROVE  Hit(r, r \in S /\ request[r].data, r \in S /\ FinishesNow(request[r]), error)
  <2>1. FinishesNow(q[r]) <=> FinishesNow(request[r])
    BY <1>4 DEF FinishesNow
  <2>2. Told(r, q[r], r \in S /\ FinishesNow(q[r]))
    BY <1>6
  <2>3. FinishesNow(request[r]) => request[r].data
    BY DEF FinishesNow
  <2>4. CASE r \in S /\ request[r].data
    BY <1>3, <1>4, <2>1, <2>2, <2>4 DEF Told, Like, Hit, Request
  <2>5. CASE ~(r \in S /\ request[r].data)
    BY <1>3, <1>4, <2>1, <2>2, <2>3, <2>5 DEF Told, Like, Hit, Request
  <2> QED BY <2>4, <2>5
<1> QED BY <1>6, <1>7

-----------------------------------------------------------------------------
(***************************************************************************)
(* How far the load of r is, as Callbacks has it, and what LoadCallbacks   *)
(* lets one step do with it.                                               *)
(***************************************************************************)
Progress(r) ==
    IF ~request[r].issued THEN "none"
    ELSE IF Ended(r) THEN called[r]
    ELSE IF ~request[r].data THEN "stopped"
    ELSE IF called[r] = "headers" THEN "headers" ELSE "started"

LoadStep(r) ==
    \/ Progress(r)' = Progress(r) /\ got'[r] = got[r]
    \/ Progress(r) = "none" /\ Progress(r)' = "started" /\ got'[r] = got[r]
    \/ Progress(r) = "started" /\ Progress(r)' = "headers" /\ got'[r] = got[r]
    \/ Progress(r) \in {"started", "headers"} /\ Progress(r)' = Progress(r) /\ got'[r] > got[r]
    \/ Progress(r) = "headers" /\ Progress(r)' = "complete" /\ got'[r] >= got[r]
    \/ Progress(r) \in {"started", "headers"} /\ Progress(r)' = "failed" /\ got'[r] >= got[r]
    \/ Progress(r) \in {"started", "headers"} /\ Progress(r)' = "stopped" /\ got'[r] = got[r]

(* Nothing happens to the loads when the client and the owner do nothing.  *)
LEMMA QuietStep ==
    ASSUME UNCHANGED <<request, got, called>> PROVE \A r \in Requests : LoadStep(r)
BY DEF LoadStep, Progress, Ended

(* The first message is taken from the channel.  No other one about the    *)
(* same request is of the same or an earlier kind.                         *)
LEMMA Popped ==
    ASSUME IInv, channel # << >>, channel' = Tail(channel),
           NEW m, m = Head(channel), NEW n, n = Len(channel)
    PROVE  /\ n \in Nat \ {0} /\ m \in Message /\ m = channel[1] /\ MessageOK(1)
           /\ channel' \in Seq(Message) /\ Len(channel') = n - 1
           /\ \A i \in 1 .. n - 1 : channel'[i] = channel[i + 1] /\ i + 1 \in 1 .. n
           /\ Ordered'
           /\ \A i \in 1 .. n - 1 : channel'[i].id = m.id => Rank(m.type) < Rank(channel'[i].type)
           /\ \A k \in 0 .. n - 1 : \A type, r :
                  Before(k + 1, type, r) => Before(k, type, r)' \/ (m.type = type /\ m.id = r)
<1> TypeOK
  BY DEF IInv
<1>1. /\ n \in Nat \ {0} /\ channel' \in Seq(Message) /\ Len(channel') = n - 1 /\ m = channel[1]
      /\ \A i \in 1 .. n - 1 : channel'[i] = channel[i + 1] /\ i + 1 \in 1 .. n
  BY OfMessage
<1>2. m \in Message /\ MessageOK(1) /\ 1 \in 1 .. n
  BY <1>1, OfMessage DEF IInv
<1>3. \A i, j \in 1 .. n :
          i < j /\ channel[i].id = channel[j].id => Rank(channel[i].type) < Rank(channel[j].type)
  BY DEF IInv, Ordered
<1>4. Ordered'
  <2> SUFFICES ASSUME NEW i \in 1 .. n - 1, NEW j \in 1 .. n - 1, i < j,
                      channel'[i].id = channel'[j].id
               PROVE  Rank(channel'[i].type) < Rank(channel'[j].type)
    BY <1>1 DEF Ordered
  <2>1. /\ channel'[i] = channel[i + 1] /\ channel'[j] = channel[j + 1] /\ i + 1 < j + 1
        /\ i + 1 \in 1 .. n /\ j + 1 \in 1 .. n
    BY <1>1
  <2> QED BY <1>3, <2>1
<1>5. ASSUME NEW i \in 1 .. n - 1, channel'[i].id = m.id
      PROVE  Rank(m.type) < Rank(channel'[i].type)
  <2>1. channel'[i] = channel[i + 1] /\ i + 1 \in 1 .. n /\ 1 < i + 1
    BY <1>1
  <2> QED BY <1>1, <1>2, <1>3, <1>5, <2>1
<1>6. ASSUME NEW k \in 0 .. n - 1, NEW type, NEW r, Before(k + 1, type, r)
      PROVE  Before(k, type, r)' \/ (m.type = type /\ m.id = r)
  <2>1. PICK i \in 1 .. k + 1 : channel[i].type = type /\ channel[i].id = r
    BY <1>6 DEF Before
  <2>2. CASE i = 1
    BY <1>1, <2>1, <2>2
  <2>3. CASE i # 1
    <3>1. i - 1 \in 1 .. k /\ i - 1 \in 1 .. n - 1 /\ (i - 1) + 1 = i
      BY <1>1, <2>3
    <3>2. channel'[i - 1] = channel[i]
      BY <1>1, <3>1
    <3>3. channel'[i - 1].type = type /\ channel'[i - 1].id = r
      BY <2>1, <3>2
    <3> QED BY <3>1, <3>3 DEF Before
  <2> QED BY <2>2, <2>3
<1> QED BY <1>1, <1>2, <1>4, <1>5, <1>6

(* What is left to show when the first message, m, has been handled: the   *)
(* messages that remain are still in order, and still about requests of    *)
(* the client.                                                             *)
LEMMA PoppedOK ==
    ASSUME IInv, channel # << >>, channel' = Tail(channel), NEW m, m = Head(channel),
           UNCHANGED <<client, work>>,
           Rank(m.type) < 3 => m.id \in m_requests',
           \A r \in Requests : r # m.id =>
               /\ r \in m_requests => r \in m_requests'
               /\ request'[r].read_stream = request[r].read_stream
               /\ request'[r].data = request[r].data /\ called'[r] = called[r],
           m.type = "started" /\ request'[m.id].data => request'[m.id].read_stream # "none",
           m.type = "headers" /\ request'[m.id].data => called'[m.id] # "none",
           m.type # "started" => request'[m.id].read_stream = request[m.id].read_stream,
           request'[m.id].data => request[m.id].data,
           called[m.id] # "none" => called'[m.id] # "none"
    PROVE  \A i \in 1 .. Len(channel') : MessageOK(i)'
<1> TypeOK
  BY DEF IInv
<1> DEFINE n == Len(channel)
<1>0. /\ n \in Nat \ {0} /\ m \in Message /\ m = channel[1] /\ MessageOK(1)
      /\ channel' \in Seq(Message) /\ Len(channel') = n - 1
      /\ \A i \in 1 .. n - 1 : channel'[i] = channel[i + 1] /\ i + 1 \in 1 .. n
      /\ \A i \in 1 .. n - 1 : channel'[i].id = m.id => Rank(m.type) < Rank(channel'[i].type)
      /\ \A k \in 0 .. n - 1 : \A type, r :
             Before(k + 1, type, r) => Before(k, type, r)' \/ (m.type = type /\ m.id = r)
  BY Popped
<1> SUFFICES ASSUME NEW i \in 1 .. n - 1, NEW t, t = channel'[i].type,
                    NEW r, r = channel'[i].id
             PROVE  MessageOK(i)'
  BY <1>0
<1>1. /\ channel'[i] = channel[i + 1] /\ MessageOK(i + 1) /\ r \in Requests
      /\ t \in {"started", "headers", "finished", "failed"}
  BY <1>0, OfMessage DEF IInv
<1>2. \A type : Before(i, type, r) => Before(i - 1, type, r)' \/ (m.type = type /\ m.id = r)
  <2>1. i - 1 \in 0 .. n - 1 /\ (i - 1) + 1 = i
    BY <1>0
  <2> QED BY <1>0, <2>1
<1>3. /\ client = "open" /\ r \in m_requests /\ Rank(t) <= Reached(work[r])
      /\ t = "started" => request[r].read_stream = "none"
      /\ t = "finished" /\ request[r].data =>
               /\ request[r].read_stream # "none" \/ Before(i, "started", r)
               /\ called[r] # "none" \/ Before(i, "headers", r)
  <2>1. (i + 1) - 1 = i
    BY <1>0
  <2> QED BY <1>1, <2>1 DEF MessageOK
<1>4. r = m.id => Rank(m.type) < Rank(t)
  BY <1>0
<1>5. m.type \in {"started", "headers", "finished", "failed"} /\ m.id \in Requests
  BY <1>0 DEF Message
<1>6. /\ r \in m_requests'
      /\ t = "started" => request'[r].read_stream = "none"
  <2>1. CASE r = m.id
    BY <1>1, <1>4, <1>5, <2>1 DEF Rank
  <2>2. CASE r # m.id
    BY <1>1, <1>3, <2>2
  <2> QED BY <2>1, <2>2
<1>7. t = "finished" /\ request'[r].data =>
          /\ request'[r].read_stream # "none" \/ Before(i - 1, "started", r)'
          /\ called'[r] # "none" \/ Before(i - 1, "headers", r)'
  <2>1. CASE r = m.id
    BY <1>2, <1>3, <2>1
  <2>2. CASE r # m.id
    BY <1>1, <1>2, <1>3, <2>2
  <2> QED BY <2>1, <2>2
<1> QED BY <1>3, <1>6, <1>7 DEF MessageOK

(* The messages that are handled.                                          *)
LEMMA PendingPopped ==
    ASSUME IInv, channel # << >>, channel' = Tail(channel), NEW m, m = Head(channel),
           NEW type, NEW r, Pending(type, r), m.type # type \/ m.id # r
    PROVE  Pending(type, r)'
<1> DEFINE n == Len(channel)
<1>1. /\ n \in Nat \ {0} /\ Len(channel') = n - 1
      /\ \A k \in 0 .. n - 1 : \A t, s :
             Before(k + 1, t, s) => Before(k, t, s)' \/ (m.type = t /\ m.id = s)
  BY Popped
<1>0. Before(n, type, r)
  BY DEF Pending
<1> HIDE DEF n
<1>2. PICK k \in 0 .. n - 1 : k + 1 = n /\ k = n - 1
  BY <1>1
<1>3. Before(k + 1, type, r)
  BY <1>0, <1>2
<1>4. Before(k, type, r)'
  BY <1>1, <1>3
<1> QED BY <1>1, <1>2, <1>4 DEF Pending, Before

(* request_started keeps the invariant and is a step of the load.          *)
LEMMA StartedStep ==
    ASSUME IInv, client = "open", channel # << >>, channel' = Tail(channel),
           NEW m, m = Head(channel), m.type = "started", request_started(m.id),
           UNCHANGED <<owner, client, server, work, pipe, wrote, held, got>>
    PROVE  IInv' /\ \A r \in Requests : LoadStep(r)
<1> TypeOK /\ AssertionsHold
  BY DEF IInv
<1> DEFINE r0 == m.id
<1>1. /\ m \in Message /\ m = channel[1] /\ MessageOK(1) /\ channel' \in Seq(Message) /\ Ordered'
      /\ Len(channel') \in Nat
  BY Popped
<1>2. /\ r0 \in Requests /\ r0 \in m_requests /\ request[r0].read_stream = "none"
      /\ Rank("started") <= Reached(work[r0])
  BY <1>1 DEF MessageOK, Message
<1>3. UNCHANGED <<m_requests, deferred, called>>
  BY DEF request_started
<1>4. work[r0] \notin {"none", "asked"}
  BY <1>2 DEF Rank, Reached
<1>5. crashed' = FALSE
  BY <1>2 DEF request_started
<1>6. /\ request' \in [Requests -> Request]
      /\ \A r \in Requests \ {r0} : request'[r] = request[r]
      /\ request'[r0].read_stream = (IF request[r0].data THEN "open" ELSE "none")
      /\ request'[r0].issued = request[r0].issued /\ request'[r0].data = request[r0].data
      /\ request'[r0].request_done = request[r0].request_done
      /\ request'[r0].network_error = request[r0].network_error
      /\ request'[r0].user_finish_called = request[r0].user_finish_called
  <2> DEFINE wanted == r0 \in m_requests /\ request[r0].data
             q == [request[r0] EXCEPT !.read_stream = IF wanted THEN "open" ELSE @]
  <2>1. request' = [request EXCEPT ![r0] = q]
    BY DEF request_started
  <2>2. request \in [Requests -> Request] /\ request[r0] \in Request
    BY <1>2, OfOne DEF TypeOK
  <2>3. /\ q \in Request /\ q.issued = request[r0].issued /\ q.data = request[r0].data
        /\ q.request_done = request[r0].request_done
        /\ q.network_error = request[r0].network_error
        /\ q.user_finish_called = request[r0].user_finish_called
        /\ q.read_stream = (IF wanted THEN "open" ELSE request[r0].read_stream)
    BY <2>2, Zenon DEF Request
  <2>4. q.read_stream = (IF request[r0].data THEN "open" ELSE "none")
    BY <1>2, <2>3
  <2> HIDE DEF q
  <2> QED BY <1>2, <2>1, <2>2, <2>3, <2>4
<1>7. TypeOK'
  BY <1>1, <1>3, <1>5, <1>6 DEF TypeOK
<1> HIDE DEF r0
<1>8. \A i \in 1 .. Len(channel') : MessageOK(i)'
  BY <1>2, <1>3, <1>6, PoppedOK DEF r0
<1>9. ASSUME NEW r \in Requests PROVE WorkOK(r)'
  <2>1. CASE r = r0
    <3>1. Pending("headers", r) => Pending("headers", r)'
      BY PendingPopped
    <3> QED BY <1>2, <1>3, <1>6, <2>1, <3>1 DEF IInv, WorkOK
  <2>2. CASE r # r0
    <3>1. \A type : Pending(type, r) => Pending(type, r)'
      BY <2>2, PendingPopped DEF r0
    <3> QED BY <1>3, <1>6, <2>2, <3>1 DEF IInv, WorkOK
  <2> QED BY <2>1, <2>2
<1>10. ASSUME NEW r \in Requests PROVE RequestOK(r)'
  <2>1. CASE r = r0
    BY <1>2, <1>3, <1>4, <1>6, <2>1 DEF IInv, RequestOK, Ended
  <2>2. CASE r # r0
    BY <1>3, <1>6, <2>2 DEF IInv, RequestOK, Ended
  <2> QED BY <2>1, <2>2
<1>11. ASSUME NEW r \in Requests PROVE LoadStep(r)
  <2>1. request'[r].issued = request[r].issued /\ request'[r].data = request[r].data
    BY <1>6
  <2> QED BY <1>3, <2>1 DEF LoadStep, Progress, Ended
<1> QED BY <1>1, <1>5, <1>7, <1>8, <1>9, <1>10, <1>11 DEF IInv, AssertionsHold

(* headers_became_available keeps the invariant, and the order.            *)
LEMMA HeadersStep ==
    ASSUME IInv, client = "open", channel # << >>, channel' = Tail(channel),
           NEW m, m = Head(channel), m.type = "headers", headers_became_available(m.id),
           UNCHANGED <<owner, client, server, work, pipe, wrote, held, got>>
    PROVE  IInv' /\ \A r \in Requests : LoadStep(r)
<1> TypeOK /\ AssertionsHold
  BY DEF IInv
<1> DEFINE r0 == m.id
<1>1. /\ m \in Message /\ m = channel[1] /\ MessageOK(1) /\ channel' \in Seq(Message) /\ Ordered'
      /\ Len(channel') \in Nat
  BY Popped
<1>2. r0 \in Requests /\ r0 \in m_requests
  BY <1>1 DEF MessageOK, Message
<1>3. UNCHANGED <<m_requests, deferred, request, crashed>>
  BY DEF headers_became_available
<1>4. /\ called' \in [Requests -> {"none", "headers", "complete", "failed"}]
      /\ called'[r0] = (IF request[r0].data THEN "headers" ELSE called[r0])
      /\ \A r \in Requests \ {r0} : called'[r] = called[r]
  BY <1>2 DEF headers_became_available, TypeOK
<1>5. TypeOK'
  BY <1>1, <1>3, <1>4 DEF TypeOK
<1>6. ~request[r0].user_finish_called /\ called[r0] \in {"none", "headers"} /\ ~Ended(r0)
  BY <1>2, OfOne DEF IInv, RequestOK, Ended
<1> HIDE DEF r0
<1>7. \A i \in 1 .. Len(channel') : MessageOK(i)'
  BY <1>2, <1>3, <1>4, PoppedOK DEF r0
<1>8. ASSUME NEW r \in Requests PROVE WorkOK(r)'
  <2>1. CASE r = r0
    <3>1. Pending("started", r) => Pending("started", r)'
      BY PendingPopped
    <3> QED BY <1>2, <1>3, <1>4, <2>1, <3>1 DEF IInv, WorkOK
  <2>2. CASE r # r0
    <3>1. \A type : Pending(type, r) => Pending(type, r)'
      BY <2>2, PendingPopped DEF r0
    <3> QED BY <1>3, <1>4, <2>2, <3>1 DEF IInv, WorkOK
  <2> QED BY <2>1, <2>2
<1>9. ASSUME NEW r \in Requests PROVE RequestOK(r)'
  <2>1. CASE r = r0
    BY <1>2, <1>3, <1>4, <1>6, <2>1 DEF IInv, RequestOK, Ended
  <2>2. CASE r # r0
    BY <1>3, <1>4, <2>2 DEF IInv, RequestOK, Ended
  <2> QED BY <2>1, <2>2
<1>10. ASSUME NEW r \in Requests PROVE LoadStep(r)
  <2>1. CASE r = r0
    BY <1>3, <1>4, <1>6, <2>1 DEF LoadStep, Progress, Ended
  <2>2. CASE r # r0
    BY <1>3, <1>4, <2>2 DEF LoadStep, Progress, Ended
  <2> QED BY <2>1, <2>2
<1> QED BY <1>1, <1>3, <1>5, <1>7, <1>8, <1>9, <1>10 DEF IInv, AssertionsHold

(* A request of the client that is told of its end, with an error or after *)
(* its pipe was opened and its headers were handled, is no longer the      *)
(* client's.                                                               *)
LEMMA HitKeeps ==
    ASSUME IInv, NEW r \in Requests, NEW error \in BOOLEAN, r \in m_requests, r \notin m_requests',
           Hit(r, request[r].data, FinishesNow(request[r]), error),
           UNCHANGED <<owner, work, pipe, wrote, held, got>>,
           ~error /\ request[r].data => request[r].read_stream # "none" /\ called[r] # "none"
    PROVE  RequestOK(r)' /\ LoadStep(r)
<1>1. RequestOK(r) /\ request[r] \in Request /\ called[r] \in {"none", "headers", "complete", "failed"}
  BY OfOne DEF IInv
<1>2. FinishesNow(request[r]) => /\ request[r].data /\ ~request[r].user_finish_called
                                 /\ request[r].read_stream \in {"none", "eof"}
  BY DEF FinishesNow
<1>3. request[r].data /\ ~FinishesNow(request[r]) =>
          request[r].user_finish_called \/ request[r].read_stream = "open"
  BY <1>1 DEF FinishesNow, Request
<1>4. RequestOK(r)'
  <2>1. CASE FinishesNow(request[r])
    BY <1>1, <1>2, <2>1 DEF Hit, RequestOK, Ended
  <2>2. CASE ~FinishesNow(request[r])
    BY <1>1, <1>3, <2>2 DEF Hit, RequestOK, Ended
  <2> QED BY <2>1, <2>2
<1>5. LoadStep(r)
  <2>1. CASE FinishesNow(request[r])
    <3>1. ~Ended(r) /\ request[r].issued /\ request[r].data
      BY <1>1, <1>2, <2>1 DEF RequestOK
    <3>2. Progress(r) \in {"started", "headers"} /\ (~error => Progress(r) = "headers")
      BY <1>1, <3>1 DEF Progress, Ended
    <3>3. Progress(r)' = IF error THEN "failed" ELSE "complete"
      BY <2>1, <3>1 DEF Progress, Ended, Hit
    <3>4. got'[r] = got[r] /\ got[r] \in Nat
      BY OfOne DEF IInv
    <3> QED BY <3>2, <3>3, <3>4 DEF LoadStep
  <2>2. CASE ~FinishesNow(request[r])
    BY <2>2 DEF Hit, LoadStep, Progress, Ended
  <2> QED BY <2>1, <2>2
<1> QED BY <1>4, <1>5

(* Nothing happens to another one.                                         *)
LEMMA MissKeeps ==
    ASSUME IInv, NEW r \in Requests, NEW error \in BOOLEAN, r \in m_requests' => r \in m_requests,
           Hit(r, FALSE, FALSE, error), UNCHANGED <<owner, work, pipe, wrote, held, got>>
    PROVE  RequestOK(r)' /\ LoadStep(r)
<1>1. RequestOK(r) /\ request[r] \in Request
  BY OfOne DEF IInv
<1> QED BY <1>1 DEF Hit, RequestOK, Ended, LoadStep, Progress

(* request_finished keeps the invariant: all data first.                   *)
LEMMA FinishedStep ==
    ASSUME IInv, client = "open", channel # << >>, channel' = Tail(channel),
           NEW m, m = Head(channel), m.type \in {"finished", "failed"},
           request_finished(m.id, m.type = "failed"),
           UNCHANGED <<owner, client, server, work, pipe, wrote, held, got>>
    PROVE  IInv' /\ \A r \in Requests : LoadStep(r)
<1> TypeOK /\ AssertionsHold
  BY DEF IInv
<1> DEFINE r0 == m.id
           error == m.type = "failed"
<1>1. /\ m \in Message /\ m = channel[1] /\ MessageOK(1) /\ channel' \in Seq(Message) /\ Ordered'
      /\ Len(channel') \in Nat
  BY ONLY IInv, channel # << >>, channel' = Tail(channel), m = Head(channel), Popped
<1>2. /\ r0 \in Requests /\ r0 \in m_requests /\ Rank(m.type) <= Reached(work[r0])
      /\ m.type = "finished" /\ request[r0].data =>
              request[r0].read_stream # "none" /\ called[r0] # "none"
  <2>1. \A t : ~Before(1 - 1, t, r0)
    BY DEF Before
  <2> QED BY <1>1, <2>1 DEF MessageOK, Message
<1>3. /\ did_finish({r0} \cap m_requests, error)
      /\ m_requests' = m_requests \ {r0} /\ UNCHANGED crashed
  BY DEF request_finished
<1>4. error \in BOOLEAN /\ {r0} \cap m_requests = {r0} /\ {r0} \in SUBSET Requests
  BY <1>2
<1>5. /\ request' \in [Requests -> Request] /\ deferred' \subseteq Requests
      /\ called' \in [Requests -> {"none", "headers", "complete", "failed"}]
      /\ \A r \in Requests : Hit(r, r \in {r0} /\ request[r].data,
                                 r \in {r0} /\ FinishesNow(request[r]), error)
  <2>1. did_finish({r0}, error)
    BY <1>3, <1>4
  <2> HIDE DEF error, r0
  <2> QED BY <1>4, <2>1, DidFinish
<1>6. TypeOK'
  BY <1>1, <1>3, <1>5 DEF TypeOK
<1>7. ~error /\ request[r0].data => request[r0].read_stream # "none" /\ called[r0] # "none"
  BY <1>2
<1>m. /\ m.type \notin {"started", "headers"} /\ ~(Rank(m.type) < 3)
      /\ work[r0] \in {"finished", "gone"}
  BY <1>2, OfOne DEF Rank, Reached, Work
<1> HIDE DEF r0, error
<1>8. Hit(r0, request[r0].data, FinishesNow(request[r0]), error)
  BY <1>2, <1>5 DEF Hit
<1>9. ASSUME NEW r \in Requests, r # r0 PROVE Hit(r, FALSE, FALSE, error)
  BY <1>5, <1>9 DEF Hit
<1>10. ASSUME NEW r \in Requests PROVE RequestOK(r)' /\ LoadStep(r)
  <2>1. CASE r = r0
    BY <1>2, <1>3, <1>4, <1>7, <1>8, <2>1, HitKeeps
  <2>2. CASE r # r0
    BY <1>3, <1>4, <1>9, <2>2, MissKeeps
  <2> QED BY <2>1, <2>2
<1>11. \A i \in 1 .. Len(channel') : MessageOK(i)'
  <2>1. /\ request'[r0].read_stream = request[r0].read_stream /\ request'[r0].data = request[r0].data
        /\ called[r0] # "none" => called'[r0] # "none"
    BY <1>8 DEF Hit
  <2>2. \A r \in Requests : r # r0 =>
            /\ r \in m_requests => r \in m_requests'
            /\ request'[r].read_stream = request[r].read_stream
            /\ request'[r].data = request[r].data /\ called'[r] = called[r]
    BY <1>3, <1>9 DEF Hit
  <2> QED BY <1>m, <2>1, <2>2, PoppedOK DEF r0
<1>12. ASSUME NEW r \in Requests PROVE WorkOK(r)'
  <2>1. CASE r = r0
    BY <1>m, <2>1 DEF WorkOK
  <2>2. CASE r # r0
    <3>1. \A type : Pending(type, r) => Pending(type, r)'
      BY <2>2, PendingPopped DEF r0
    <3>2. /\ request'[r].read_stream = request[r].read_stream
          /\ request'[r].data = request[r].data /\ called'[r] = called[r]
      BY <1>9, <2>2 DEF Hit
    <3> QED BY <1>3, <2>2, <3>1, <3>2 DEF IInv, WorkOK
  <2> QED BY <2>1, <2>2
<1> QED BY <1>1, <1>3, <1>6, <1>10, <1>11, <1>12 DEF IInv, AssertionsHold

(* The pipe is read.                                                       *)
LEMMA ActivationStep ==
    ASSUME IInv, NEW r \in Requests, on_activation(r)
    PROVE  IInv' /\ \A s \in Requests : LoadStep(s)
<1> TypeOK /\ AssertionsHold
  BY DEF IInv
<1> DEFINE p == [request[r] EXCEPT !.read_stream = IF WriterClosed(r) THEN "eof" ELSE "open"]
           q == [request EXCEPT ![r] = p]
           S == {s \in {r} : q[s].request_done}
<1>1. /\ request[r].data /\ request[r].read_stream = "open" /\ (pipe[r] > 0 \/ WriterClosed(r))
      /\ UNCHANGED <<owner, client, m_requests, held, crashed, server, channel, work, wrote>>
      /\ Finish(S, q)
  BY DEF on_activation, serverVars
<1>2. /\ pipe'[r] = 0 /\ got'[r] = got[r] + pipe[r]
      /\ \A s \in Requests \ {r} : pipe'[s] = pipe[s] /\ got'[s] = got[s]
  BY DEF on_activation, TypeOK
<1>3. /\ RequestOK(r) /\ request[r] \in Request /\ request \in [Requests -> Request]
      /\ got[r] \in Nat /\ pipe[r] \in Nat /\ wrote[r] \in Nat /\ wrote[r] <= MaxData
      /\ called[r] \in {"none", "headers", "complete", "failed"}
  BY OfOne DEF IInv, TypeOK
<1>4. /\ p \in Request /\ p.issued = request[r].issued /\ p.data = request[r].data
      /\ p.request_done = request[r].request_done /\ p.network_error = request[r].network_error
      /\ p.user_finish_called = request[r].user_finish_called
      /\ p.read_stream = (IF WriterClosed(r) THEN "eof" ELSE "open")
  BY <1>3, Zenon DEF Request
<1>5. /\ q \in [Requests -> Request] /\ q[r] = p /\ \A s \in Requests \ {r} : q[s] = request[s]
      /\ S \in SUBSET Requests /\ (r \in S <=> q[r].request_done)
      /\ \A s \in Requests \ {r} : s \notin S
  <2> HIDE DEF p
  <2> QED BY <1>3, <1>4
<1> HIDE DEF p, q, S
<1>6. /\ request' \in [Requests -> Request] /\ deferred' \subseteq Requests
      /\ called' \in [Requests -> {"none", "headers", "complete", "failed"}]
      /\ \A s \in Requests : Told(s, q[s], s \in S /\ FinishesNow(q[s]))
  BY <1>1, <1>5, FinishFacts
<1>7. ~request[r].user_finish_called /\ ~Ended(r) /\ request[r].issued
  BY <1>1, <1>3 DEF RequestOK
<1>8. ASSUME NEW s \in Requests, s # r
      PROVE  /\ Like(request'[s], request[s]) /\ called'[s] = called[s]
             /\ request'[s].user_finish_called <=> request[s].user_finish_called
             /\ s \in deferred' <=> s \in deferred
  BY <1>5, <1>6, <1>8 DEF Told
<1>9. /\ request'[r].issued /\ request'[r].data
      /\ request'[r].request_done <=> request[r].request_done
      /\ request'[r].network_error <=> request[r].network_error
      /\ request'[r].read_stream = (IF WriterClosed(r) THEN "eof" ELSE "open")
  <2>1. Told(r, q[r], r \in S /\ FinishesNow(q[r]))
    BY <1>6
  <2> QED BY <1>1, <1>4, <1>5, <1>7, <2>1 DEF Told, Like
<1>10. \/ /\ request[r].request_done /\ WriterClosed(r) /\ request'[r].user_finish_called
          /\ called'[r] = (IF request[r].network_error THEN "failed" ELSE "complete")
          /\ r \in deferred'
       \/ /\ ~request'[r].user_finish_called /\ called'[r] = called[r]
          /\ r \in deferred' <=> r \in deferred
  <2>1. Told(r, p, p.request_done /\ FinishesNow(p))
    BY <1>5, <1>6 DEF Told
  <2>2. FinishesNow(p) <=> WriterClosed(r)
    BY <1>1, <1>4, <1>7 DEF FinishesNow
  <2>3. CASE request[r].request_done /\ WriterClosed(r)
    BY <1>4, <1>7, <2>1, <2>2, <2>3 DEF Told
  <2>4. CASE ~(request[r].request_done /\ WriterClosed(r))
    BY <1>4, <1>7, <2>1, <2>2, <2>4 DEF Told
  <2> QED BY <2>3, <2>4
<1>11. got[r] + pipe[r] = wrote[r] /\ got'[r] = wrote[r]
  BY <1>2, <1>3 DEF RequestOK
<1>12. TypeOK'
  <2>1. wrote[r] \in 0 .. MaxData /\ 0 \in 0 .. MaxData
    BY <1>3, RequestClientAssumption
  <2>2. pipe' \in [Requests -> 0 .. MaxData] /\ got' \in [Requests -> 0 .. MaxData]
    BY <1>11, <2>1 DEF TypeOK, on_activation
  <2> QED BY <1>1, <1>6, <2>2 DEF TypeOK
<1>13. ASSUME NEW s \in Requests, s # r PROVE RequestOK(s)' /\ LoadStep(s)
  <2>1. RequestOK(s)
    BY DEF IInv
  <2> QED BY <1>1, <1>2, <1>8, <1>13, <2>1 DEF RequestOK, LoadStep, Progress, Ended, Like
<1>14. RequestOK(r)'
  BY <1>1, <1>2, <1>3, <1>7, <1>9, <1>10, <1>11 DEF RequestOK, Ended, WriterClosed
<1>15. LoadStep(r)
  <2>1. Progress(r) \in {"started", "headers"}
    BY <1>1, <1>7 DEF Progress
  <2>2. request[r].request_done /\ ~request[r].network_error => Progress(r) = "headers"
    BY <1>1, <1>3, <1>7 DEF Progress, RequestOK, Ended
  <2>3. \/ /\ request[r].request_done
           /\ Progress(r)' = IF request[r].network_error THEN "failed" ELSE "complete"
        \/ Progress(r)' = Progress(r)
    BY <1>1, <1>7, <1>9, <1>10 DEF Progress, Ended
  <2>4. got'[r] >= got[r] /\ (got'[r] = got[r] \/ got'[r] > got[r])
    BY <1>2, <1>3
  <2> QED BY <2>1, <2>2, <2>3, <2>4 DEF LoadStep
<1>16. /\ Ordered' /\ \A i \in 1 .. Len(channel') : MessageOK(i)'
       /\ \A type, s : Pending(type, s)' <=> Pending(type, s)
  <2>1. ASSUME NEW s \in Requests
        PROVE  /\ s \in m_requests => s \in m_requests' /\ Reached(work[s]) <= Reached(work'[s])
               /\ request[s].read_stream = "none" => request'[s].read_stream = "none"
               /\ request'[s].data =>
                      /\ request[s].data
                      /\ request'[s].read_stream = "none" => request[s].read_stream = "none"
                      /\ called'[s] = "none" => called[s] = "none"
    <3>1. Reached(work[s]) <= Reached(work'[s])
      BY <1>1 DEF Reached
    <3>2. CASE s = r
      BY <1>1, <1>9, <1>10, <3>1, <3>2
    <3>3. CASE s # r
      BY <1>1, <1>8, <3>1, <3>3 DEF Like
    <3> QED BY <3>2, <3>3
  <2> QED BY <1>1, <2>1, SameChannel
<1>17. ASSUME NEW s \in Requests PROVE WorkOK(s)'
  <2>1. CASE s = r
    BY <1>1, <1>9, <1>10, <1>16, <2>1 DEF IInv, WorkOK
  <2>2. CASE s # r
    BY <1>1, <1>8, <1>16, <2>2 DEF IInv, WorkOK, Like
  <2> QED BY <2>1, <2>2
<1>18. \A s \in Requests : RequestOK(s)' /\ LoadStep(s)
  BY <1>13, <1>14, <1>15
<1> QED BY <1>1, <1>12, <1>16, <1>17, <1>18 DEF IInv, AssertionsHold

(* The client dies, or is replaced: no messages, no requests.              *)
LEMMA DieStep ==
    ASSUME IInv, die PROVE IInv' /\ \A r \in Requests : LoadStep(r)
<1> TypeOK /\ AssertionsHold
  BY DEF IInv
<1>1. /\ server = "died" /\ client' = "died" /\ channel' = << >> /\ m_requests' = {}
      /\ did_finish(m_requests, TRUE)
      /\ UNCHANGED <<owner, server, work, pipe, wrote, held, got, crashed>>
  BY DEF die
<1>2. m_requests \in SUBSET Requests /\ TRUE \in BOOLEAN
  BY DEF TypeOK
<1>3. /\ request' \in [Requests -> Request] /\ deferred' \subseteq Requests
      /\ called' \in [Requests -> {"none", "headers", "complete", "failed"}]
      /\ \A r \in Requests : Hit(r, r \in m_requests /\ request[r].data,
                                 r \in m_requests /\ FinishesNow(request[r]), TRUE)
  BY <1>1, <1>2, DidFinish
<1>4. /\ TypeOK' /\ Len(channel') = 0
      /\ Ordered' /\ \A i \in 1 .. Len(channel') : MessageOK(i)'
  BY <1>1, <1>3 DEF TypeOK, Ordered
<1>5. ASSUME NEW r \in Requests PROVE WorkOK(r)'
  <2>1. work[r] \notin {"asked", "started", "headers"}
    BY <1>1 DEF IInv, WorkOK
  <2> QED BY <1>1, <2>1 DEF WorkOK
<1>6. ASSUME NEW r \in Requests PROVE RequestOK(r)' /\ LoadStep(r)
  <2>1. Hit(r, r \in m_requests /\ request[r].data, r \in m_requests /\ FinishesNow(request[r]), TRUE)
    BY <1>3
  <2>2. CASE r \in m_requests
    <3>1. Hit(r, request[r].data, FinishesNow(request[r]), TRUE)
      BY <2>1, <2>2 DEF Hit
    <3> QED BY <1>1, <2>2, <3>1, HitKeeps
  <2>3. CASE r \notin m_requests
    <3>1. Hit(r, FALSE, FALSE, TRUE)
      BY <2>1, <2>3 DEF Hit
    <3> QED BY <1>1, <3>1, MissKeeps
  <2> QED BY <2>2, <2>3
<1> QED BY <1>1, <1>4, <1>5, <1>6 DEF IInv, AssertionsHold

(* A new client in place of the one whose server has died.                 *)
LEMMA ReplaceStep ==
    ASSUME IInv, set_client PROVE IInv' /\ \A r \in Requests : LoadStep(r)
<1> TypeOK /\ AssertionsHold
  BY DEF IInv
<1>1. /\ server = "died" /\ client' = "destroyed" /\ channel' = << >> /\ m_requests' = {}
      /\ UNCHANGED <<owner, server, work, pipe, wrote, held, deferred, request, got, called, crashed>>
  BY DEF set_client
<1>2. /\ TypeOK' /\ Len(channel') = 0
      /\ Ordered' /\ \A i \in 1 .. Len(channel') : MessageOK(i)'
  BY <1>1 DEF TypeOK, Ordered
<1>3. ASSUME NEW r \in Requests PROVE WorkOK(r)'
  <2>1. work[r] \notin {"asked", "started", "headers"}
    BY <1>1 DEF IInv, WorkOK
  <2> QED BY <1>1, <2>1 DEF WorkOK
<1>4. ASSUME NEW r \in Requests PROVE RequestOK(r)'
  BY <1>1 DEF IInv, RequestOK, Ended
<1>5. \A r \in Requests : LoadStep(r)
  BY <1>1, QuietStep
<1> QED BY <1>1, <1>2, <1>3, <1>4, <1>5 DEF IInv, AssertionsHold

(* The members of a request that has just been made.                       *)
LEMMA New ==
    /\ NewRequest \in Request /\ NewRequest.issued = TRUE /\ NewRequest.data = TRUE
    /\ NewRequest.read_stream = "none" /\ NewRequest.request_done = FALSE
    /\ NewRequest.network_error = FALSE /\ NewRequest.user_finish_called = FALSE
<1>1. NotIssued \in Request
  BY Zenon DEF NotIssued, Request
<1> QED BY <1>1, Zenon DEF NewRequest, NotIssued, Request

(* What a request that is issued now is like, whoever issues it.           *)
LEMMA Issued ==
    ASSUME IInv, NEW r \in Requests, ~request[r].issued, request'[r] = NewRequest,
           r \in m_requests', r \in held', UNCHANGED <<owner, client, server, pipe, wrote, deferred, got, called>>,
           work'[r] = IF client = "open" /\ server = "alive" THEN "asked" ELSE work[r]
    PROVE  WorkOK(r)' /\ RequestOK(r)' /\ LoadStep(r)
<1>1. RequestOK(r)
  BY DEF IInv
<1>2. /\ called[r] = "none" /\ work[r] = "none" /\ r \notin deferred
      /\ work'[r] \in {"asked", "none"}
      /\ work'[r] = "asked" => client = "open" /\ server = "alive"
  BY <1>1 DEF RequestOK
<1>3. WorkOK(r)'
  BY <1>2 DEF WorkOK
<1>4. RequestOK(r)'
  BY <1>1, <1>2, New DEF RequestOK, Ended
<1>5. Progress(r) = "none" /\ Progress(r)' = "started"
  BY <1>2, New DEF Progress, Ended
<1> QED BY <1>3, <1>4, <1>5 DEF LoadStep

(* A load that is begun is one the owner has not been told anything of.    *)
LEMMA LoadNew ==
    ASSUME IInv, NEW r \in Requests, load(r) PROVE IInv' /\ \A s \in Requests : LoadStep(s)
<1> TypeOK /\ AssertionsHold
  BY DEF IInv
<1>1. /\ owner = "ResourceLoader" /\ ~request[r].issued
      /\ m_requests' = m_requests \cup {r} /\ held' = held \cup {r}
      /\ work' = (IF client = "open" /\ server = "alive" THEN [work EXCEPT ![r] = "asked"] ELSE work)
      /\ request' = [request EXCEPT ![r] = NewRequest]
      /\ UNCHANGED <<owner, client, server, channel, pipe, wrote, deferred, got, called, crashed>>
  BY DEF load, start_request
<1>2. /\ work' \in [Requests -> Work] /\ request' \in [Requests -> Request]
      /\ work'[r] = (IF client = "open" /\ server = "alive" THEN "asked" ELSE work[r])
      /\ request'[r] = NewRequest
      /\ \A s \in Requests \ {r} : work'[s] = work[s] /\ request'[s] = request[s]
  BY <1>1, New DEF TypeOK, Work
<1>3. TypeOK'
  BY <1>1, <1>2 DEF TypeOK
<1>4. r \notin m_requests /\ r \notin held
  BY <1>1 DEF IInv, RequestOK
<1>5. /\ Ordered' /\ \A i \in 1 .. Len(channel') : MessageOK(i)'
      /\ \A type, s : Pending(type, s)' <=> Pending(type, s)
  <2>1. \A s \in Requests : Reached(work[s]) <= Reached(work[s])
    BY DEF Reached
  <2> QED BY <1>1, <1>2, <1>4, <2>1, SameChannel
<1>6. WorkOK(r)' /\ RequestOK(r)' /\ LoadStep(r)
  BY <1>1, <1>2, Issued
<1>7. ASSUME NEW s \in Requests, s # r PROVE WorkOK(s)' /\ RequestOK(s)' /\ LoadStep(s)
  BY <1>1, <1>2, <1>5, <1>7 DEF IInv, WorkOK, RequestOK, LoadStep, Progress, Ended
<1>8. \A s \in Requests : WorkOK(s)' /\ RequestOK(s)' /\ LoadStep(s)
  BY <1>6, <1>7
<1> QED BY <1>1, <1>3, <1>5, <1>8 DEF IInv, AssertionsHold

(* The deferred calls of the owners.                                       *)
LEMMA DeferredStep ==
    ASSUME IInv, NEW r \in Requests, RemoveActive(r) \/ ClearRequest(r)
    PROVE  IInv' /\ \A s \in Requests : LoadStep(s)
<1> TypeOK /\ AssertionsHold
  BY DEF IInv
<1>1. /\ UNCHANGED <<owner, client, server, channel, work, pipe, wrote, m_requests, request, got, called>>
      /\ deferred' = deferred \ {r} /\ r \in deferred
      /\ \/ owner = "ResourceLoader" /\ held' = held \ {r} /\ crashed' = (r \notin held)
         \/ owner = "Autocomplete" /\ held' = {} /\ UNCHANGED crashed
  BY DEF RemoveActive, ClearRequest, serverVars
<1>2. ~(owner = "ResourceLoader" /\ r \notin held)
  BY <1>1 DEF IInv, RequestOK
<1>3. crashed' \in BOOLEAN /\ AssertionsHold'
  BY <1>1, <1>2 DEF TypeOK, AssertionsHold
<1>4. TypeOK'
  <2>1. held' \subseteq Requests /\ (owner = "Autocomplete" => Cardinality(held') <= 1)
    <3>1. Cardinality({}) <= 1
      BY FS_EmptySet
    <3>2. CASE owner = "ResourceLoader" /\ held' = held \ {r}
      BY <3>2 DEF TypeOK
    <3>3. CASE owner = "Autocomplete" /\ held' = {}
      BY <3>1, <3>3
    <3> QED BY <1>1, <3>2, <3>3
  <2> QED BY <1>1, <1>3, <2>1 DEF TypeOK
<1>5. /\ Ordered' /\ \A i \in 1 .. Len(channel') : MessageOK(i)'
      /\ \A type, s : Pending(type, s)' <=> Pending(type, s)
  <2>1. \A s \in Requests : Reached(work[s]) <= Reached(work[s])
    BY DEF Reached
  <2> QED BY <1>1, <2>1, SameChannel
<1>6. ASSUME NEW s \in Requests PROVE WorkOK(s)'
  BY <1>1, <1>5 DEF IInv, WorkOK
<1>7. ASSUME NEW s \in Requests PROVE RequestOK(s)'
  BY <1>1 DEF IInv, RequestOK, Ended
<1>8. \A s \in Requests : LoadStep(s)
  BY <1>1, QuietStep
<1> QED BY <1>1, <1>3, <1>4, <1>5, <1>6, <1>7, <1>8 DEF IInv

(* Autocomplete stops the request it has and makes another.                *)
LEMMA QueryStep ==
    ASSUME IInv, NEW r \in Requests, NEW asks \in BOOLEAN, query_autocomplete_engine(r, asks)
    PROVE  IInv' /\ \A s \in Requests : LoadStep(s)
<1> TypeOK /\ AssertionsHold
  BY DEF IInv
<1>1. /\ owner = "Autocomplete" /\ ~request[r].issued
      /\ crashed' = (\E s \in held : StopCrashes(s))
      /\ held' = (IF asks THEN {r} ELSE {})
      /\ m_requests' = (IF asks THEN m_requests \cup {r} ELSE m_requests)
      /\ UNCHANGED <<owner, client, server, channel, pipe, wrote, deferred, got, called>>
  BY DEF query_autocomplete_engine
<1>2. r \notin m_requests /\ r \notin held
  BY <1>1 DEF IInv, RequestOK
<1>3. ASSUME NEW t \in Request, NEW q, q = [t EXCEPT !.data = FALSE, !.read_stream = "none"]
      PROVE  /\ q \in Request /\ q.issued = t.issued /\ q.data = FALSE /\ q.read_stream = "none"
             /\ q.request_done = t.request_done /\ q.network_error = t.network_error
             /\ q.user_finish_called = t.user_finish_called
  BY <1>3, Zenon DEF Request
<1>4. ASSUME NEW s \in held
      PROVE  /\ s \in Requests /\ request'[s] \in Request
             /\ request'[s].issued = request[s].issued /\ request'[s].data = FALSE
             /\ request'[s].read_stream = "none"
             /\ request'[s].request_done = request[s].request_done
             /\ request'[s].network_error = request[s].network_error
             /\ request'[s].user_finish_called = request[s].user_finish_called
             /\ work'[s] = IF s \in m_requests THEN "gone" ELSE work[s]
  <2>1. s \in Requests /\ request[s] \in Request /\ s # r
    BY <1>2, OfOne DEF TypeOK
  <2>2. request'[s] = [request[s] EXCEPT !.data = FALSE, !.read_stream = "none"]
    BY <2>1, Zenon DEF query_autocomplete_engine
  <2>3. work'[s] = IF s \in m_requests THEN "gone" ELSE work[s]
    BY <2>1 DEF query_autocomplete_engine
  <2>4. /\ request'[s] \in Request
        /\ request'[s].issued = request[s].issued /\ request'[s].data = FALSE
        /\ request'[s].read_stream = "none"
        /\ request'[s].request_done = request[s].request_done
        /\ request'[s].network_error = request[s].network_error
        /\ request'[s].user_finish_called = request[s].user_finish_called
    BY <1>3, <2>1, <2>2, Zenon
  <2> QED BY <2>1, <2>3, <2>4, Zenon
<1>5. ASSUME NEW s \in Requests, s \notin held, s # r \/ ~asks
      PROVE  request'[s] = request[s] /\ work'[s] = work[s]
  BY <1>5 DEF query_autocomplete_engine
<1>6. asks => /\ request'[r] = NewRequest
              /\ work'[r] = IF client = "open" /\ server = "alive" THEN "asked" ELSE work[r]
  BY <1>2 DEF query_autocomplete_engine
<1>7. ASSUME NEW s \in Requests PROVE request'[s] \in Request /\ work'[s] \in Work
  <2>1. request[s] \in Request /\ work[s] \in Work
    BY OfOne
  <2>2. CASE s \in held
    BY <1>4, <2>1, <2>2 DEF Work
  <2>3. CASE s = r /\ asks
    BY <1>6, <2>1, <2>3, New DEF Work
  <2>4. CASE s \notin held /\ (s # r \/ ~asks)
    BY <1>5, <2>1, <2>4
  <2> QED BY <1>2, <2>2, <2>3, <2>4
<1>8. AssertionsHold' /\ crashed' \in BOOLEAN
  <2>1. client # "open" => server = "died"
    BY DEF IInv
  <2>2. server \in {"alive", "died"}
    BY DEF TypeOK
  <2>3. ASSUME NEW s, StopCrashes(s) PROVE server = "died"
    BY <2>1, <2>2, <2>3 DEF StopCrashes
  <2> QED BY <1>1, <2>3 DEF AssertionsHold
<1>9. TypeOK'
  <2>1. /\ request' = [s \in Requests |-> request'[s]] /\ work' = [s \in Requests |-> work'[s]]
    BY DEF query_autocomplete_engine
  <2>2. request' \in [Requests -> Request] /\ work' \in [Requests -> Work]
    BY <1>7, <2>1
  <2>3. held' \subseteq Requests /\ m_requests' \subseteq Requests
    BY <1>1 DEF TypeOK
  <2>4. Cardinality(held') <= 1
    <3>1. Cardinality({}) = 0 /\ Cardinality({r}) = 1
      BY FS_EmptySet, FS_Singleton
    <3> QED BY <1>1, <3>1
  <2> QED BY <1>1, <1>8, <2>2, <2>3, <2>4 DEF TypeOK
<1>10. /\ Ordered' /\ \A i \in 1 .. Len(channel') : MessageOK(i)'
       /\ \A type, s : Pending(type, s)' <=> Pending(type, s)
  <2>1. ASSUME NEW s \in Requests, s \in m_requests
        PROVE  /\ s \in m_requests' /\ Reached(work[s]) <= Reached(work'[s])
               /\ request[s].read_stream = "none" => request'[s].read_stream = "none"
               /\ request'[s].data =>
                      /\ request[s].data
                      /\ request'[s].read_stream = "none" => request[s].read_stream = "none"
                      /\ called'[s] = "none" => called[s] = "none"
    <3>1. CASE s \in held
      <4>1. work'[s] = "gone"
        BY <1>4, <2>1, <3>1
      <4>2. Reached(work[s]) <= Reached(work'[s])
        BY <4>1 DEF Reached
      <4> QED BY <1>1, <1>4, <2>1, <3>1, <4>2
    <3>2. CASE s \notin held
      <4>1. request'[s] = request[s] /\ work'[s] = work[s]
        BY <1>2, <1>5, <2>1, <3>2
      <4>2. Reached(work[s]) <= Reached(work'[s])
        BY <4>1 DEF Reached
      <4> QED BY <1>1, <2>1, <4>1, <4>2
    <3> QED BY <3>1, <3>2
  <2> QED BY <1>1, <2>1, SameChannel
<1>11. ASSUME NEW s \in held PROVE WorkOK(s)' /\ RequestOK(s)' /\ LoadStep(s)
  <2>1. s \in Requests /\ s # r /\ RequestOK(s) /\ WorkOK(s)
    BY <1>2 DEF IInv, TypeOK
  <2>2. request[s].issued
    BY <2>1 DEF RequestOK
  <2>3. /\ work'[s] \notin {"asked", "started", "headers"}
        /\ work[s] = "gone" => work'[s] = "gone"
        /\ s \in m_requests' <=> s \in m_requests
    BY <1>1, <1>4, <2>1 DEF WorkOK
  <2>4. WorkOK(s)'
    BY <2>3 DEF WorkOK
  <2>5. RequestOK(s)'
    BY <1>1, <1>4, <2>1, <2>2, <2>3 DEF RequestOK, Ended
  <2>6. LoadStep(s)
    BY <1>1, <1>4, <2>2 DEF LoadStep, Progress, Ended
  <2> QED BY <2>4, <2>5, <2>6
<1>12. ASSUME NEW s \in Requests, s \notin held, s # r \/ ~asks
       PROVE  WorkOK(s)' /\ RequestOK(s)' /\ LoadStep(s)
  <2>1. request'[s] = request[s] /\ work'[s] = work[s]
    BY <1>5, <1>12
  <2>2. s \in m_requests' <=> s \in m_requests
    BY <1>1, <1>12
  <2>3. s \notin held'
    BY <1>1, <1>12
  <2>4. WorkOK(s) /\ RequestOK(s)
    BY DEF IInv
  <2> QED BY <1>1, <1>10, <2>1, <2>2, <2>3, <2>4
          DEF WorkOK, RequestOK, LoadStep, Progress, Ended
<1>13. asks => WorkOK(r)' /\ RequestOK(r)' /\ LoadStep(r)
  BY <1>1, <1>6, Issued
<1>14. \A s \in Requests : WorkOK(s)' /\ RequestOK(s)' /\ LoadStep(s)
  BY <1>11, <1>12, <1>13
<1> QED BY <1>1, <1>8, <1>9, <1>10, <1>14 DEF IInv

-----------------------------------------------------------------------------
(* Initially nothing is asked for.                                         *)
LEMMA Initially == Init => IInv
<1> SUFFICES ASSUME Init PROVE IInv
  OBVIOUS
<1>1. /\ NotIssued \in Request /\ NotIssued.issued = FALSE /\ NotIssued.data = FALSE
      /\ NotIssued.read_stream = "none" /\ NotIssued.request_done = FALSE
      /\ NotIssued.user_finish_called = FALSE
  BY Zenon DEF NotIssued, Request
<1>2. 0 \in 0 .. MaxData /\ Cardinality({}) = 0
  BY RequestClientAssumption, FS_EmptySet
<1>3. TypeOK
  <2>1. held = {} /\ Cardinality(held) <= 1
    BY <1>2 DEF Init
  <2>2. /\ channel \in Seq(Message) /\ request \in [Requests -> Request]
        /\ work \in [Requests -> Work]
    BY <1>1 DEF Init, Work
  <2>3. /\ pipe \in [Requests -> 0 .. MaxData] /\ wrote \in [Requests -> 0 .. MaxData]
        /\ got \in [Requests -> 0 .. MaxData]
    BY <1>2 DEF Init
  <2> QED BY <2>1, <2>2, <2>3 DEF Init, TypeOK
<1>4. ASSUME NEW r \in Requests
      PROVE  /\ request[r] = NotIssued /\ called[r] = "none" /\ work[r] = "none"
             /\ got[r] = 0 /\ pipe[r] = 0 /\ wrote[r] = 0
  BY DEF Init
<1>5. ASSUME NEW r \in Requests PROVE WorkOK(r) /\ RequestOK(r)
  <2>1. m_requests = {} /\ held = {} /\ deferred = {}
    BY DEF Init
  <2> QED BY <1>1, <1>4, <2>1 DEF WorkOK, RequestOK, Ended
<1> QED BY <1>3, <1>5 DEF Init, IInv, AssertionsHold, Ordered

(* Every step keeps the invariant and does with each load what             *)
(* LoadCallbacks lets it do.                                               *)
LEMMA StepKeeps ==
    ASSUME IInv, [Next]_vars PROVE IInv' /\ \A r \in Requests : LoadStep(r)
<1>1. CASE UNCHANGED vars
  <2>1. UNCHANGED <<request, got, called>>
    BY <1>1 DEF vars
  <2>2. \A r \in Requests : LoadStep(r)
    BY <2>1, QuietStep
  <2>3. TypeOK' /\ AssertionsHold' /\ (client # "open" => server = "died")' /\ Ordered'
    BY <1>1 DEF vars, IInv, TypeOK, AssertionsHold, Ordered
  <2>4. ASSUME NEW i \in 1..Len(channel) PROVE MessageOK(i)'
    <3>1. MessageOK(i)
      BY DEF IInv
    <3> QED BY <1>1, <3>1 DEF vars, MessageOK, Pending, Before
  <2>5. ASSUME NEW r \in Requests PROVE WorkOK(r)' /\ RequestOK(r)'
    <3>1. WorkOK(r) /\ RequestOK(r)
      BY DEF IInv
    <3>2. WorkOK(r)'
      BY <1>1, <3>1 DEF vars, WorkOK, Pending, Before
    <3>3. RequestOK(r)'
      BY <1>1, <3>1 DEF vars, RequestOK, Ended
    <3> QED BY <3>2, <3>3
  <2>6. channel' = channel
    BY <1>1 DEF vars
  <2> QED BY <2>2, <2>3, <2>4, <2>5, <2>6 DEF IInv
<1>2. ASSUME NEW r \in Requests, Serve(r) PROVE IInv' /\ \A s \in Requests : LoadStep(s)
  <2>1. \A s \in Requests : LoadStep(s)
    BY <1>2, QuietStep DEF Serve, ServerUnchanged, inform_client_request_started,
       transfer_headers_to_client_if_needed, write_queued_bytes_without_blocking,
       handle_complete_state, handle_error_state, request_complete
  <2>2. CASE inform_client_request_started(r)
    BY <2>1, <2>2, SendStep DEF inform_client_request_started, Work
  <2>3. CASE transfer_headers_to_client_if_needed(r)
    BY <2>1, <2>3, SendStep DEF transfer_headers_to_client_if_needed, Work
  <2>4. CASE handle_complete_state(r)
    BY <2>1, <2>4, SendStep DEF handle_complete_state, Work
  <2>5. CASE handle_error_state(r)
    BY <2>1, <2>5, SendStep DEF handle_error_state, Work
  <2> QED BY <1>2, <2>1, <2>2, <2>3, <2>4, <2>5, WriteStep, GoneStep DEF Serve
<1>3. ASSUME handle_message PROVE IInv' /\ \A r \in Requests : LoadStep(r)
  <2>1. PICK m : m = Head(channel)
    OBVIOUS
  <2>2. /\ client = "open" /\ channel # << >> /\ channel' = Tail(channel)
        /\ UNCHANGED <<owner, client, server, work, pipe, wrote, held, got>>
        /\ \/ m.type = "started" /\ request_started(m.id)
           \/ m.type = "headers" /\ headers_became_available(m.id)
           \/ m.type \in {"finished", "failed"} /\ request_finished(m.id, m.type = "failed")
    BY <1>3, <2>1 DEF handle_message
  <2>3. CASE m.type = "started" /\ request_started(m.id)
    BY <2>1, <2>2, <2>3, StartedStep
  <2>4. CASE m.type = "headers" /\ headers_became_available(m.id)
    BY <2>1, <2>2, <2>4, HeadersStep
  <2>5. CASE m.type \in {"finished", "failed"} /\ request_finished(m.id, m.type = "failed")
    BY <2>1, <2>2, <2>5, FinishedStep
  <2> QED BY <2>2, <2>3, <2>4, <2>5
<1>4. CASE ServerDies
  <2>1. UNCHANGED <<request, got, called>>
    BY <1>4 DEF ServerDies
  <2> QED BY <1>4, <2>1, DeathStep, QuietStep
<1> QED BY <1>1, <1>2, <1>3, <1>4, ActivationStep, LoadNew, DeferredStep, QueryStep, DieStep,
           ReplaceStep DEF Next

(* The variables have their types; the VERIFYs of Request::set_request_fd  *)
(* and of ResourceLoader::finish_network_request hold, and a stop brings   *)
(* the process down only if RequestServer had died; and an owner that is   *)
(* told of success has all the data, whichever of the two ways, messages   *)
(* and pipe, is the faster.                                                *)
THEOREM ClientIsSafe == Spec => []Inv
<1>1. IInv => Inv
  <2> SUFFICES ASSUME IInv PROVE Inv
    OBVIOUS
  <2>1. ASSUME NEW r \in Requests, called[r] = "complete" PROVE got[r] = wrote[r]
    <3>1. RequestOK(r) /\ got[r] \in Nat
      BY OfOne DEF IInv
    <3> QED BY <2>1, <3>1 DEF RequestOK
  <2> QED BY <2>1 DEF IInv, Inv, AllDataBeforeEnd
<1> QED BY <1>1, Initially, StepKeeps, PTL DEF Spec

(* RequestClient implements LoadCallbacks: the owner of a request hears    *)
(* the headers once, data while the load is under way, and the end once,   *)
(* after which nothing is called any more; a load that ends well has had   *)
(* its headers.                                                            *)
THEOREM ClientImplementsCallbacks == Spec => ImplementsCallbacks
<1> DEFINE progress ==
       [r \in Requests |-> CASE ~request[r].issued -> "none"
                             [] request[r].issued /\ Ended(r) -> called[r]
                             [] request[r].issued /\ ~Ended(r) /\ ~request[r].data -> "stopped"
                             [] request[r].issued /\ called[r] = "headers" /\ request[r].data -> "headers"
                             [] OTHER -> "started"]
<1>1. ASSUME NEW r \in Requests PROVE progress[r] = Progress(r)
  BY <1>1 DEF Progress, Ended
<1>2. Init => Callbacks!Init
  <2> SUFFICES ASSUME Init PROVE progress = [r \in Requests |-> "none"] /\ got = [r \in Requests |-> 0]
    BY DEF Callbacks!Init
  <2>1. ASSUME NEW r \in Requests PROVE ~request[r].issued
    BY DEF Init, NotIssued
  <2> QED BY <2>1 DEF Init
<1>3. IInv /\ [Next]_vars => [Callbacks!Next]_<<progress, got>>
  <2> SUFFICES ASSUME IInv, [Next]_vars PROVE Callbacks!Next
    OBVIOUS
  <2>1. \A r \in Requests : LoadStep(r)
    BY StepKeeps
  <2>2. ASSUME NEW r \in Requests PROVE progress'[r] = Progress(r)'
    BY <2>2 DEF Progress, Ended
  <2> HIDE DEF progress
  <2> QED BY <1>1, <2>1, <2>2
          DEF LoadStep, Callbacks!Next, Callbacks!Stays, Callbacks!Start, Callbacks!Headers,
              Callbacks!Data, Callbacks!Complete, Callbacks!Fail, Callbacks!Stop,
              Callbacks!Underway, progress
<1> QED BY <1>2, <1>3, Initially, StepKeeps, PTL DEF Spec, ImplementsCallbacks, Callbacks!Spec
=============================================================================
