------------------------- MODULE ImageDecoderProofs -------------------------
(***************************************************************************)
(* Theorems about ImageDecoder, for every number of clients and of images: *)
(* its safety invariant, that the background thread loses no wake-up, and  *)
(* that a promise is settled by the outcome of its own image.              *)
(***************************************************************************)
EXTENDS ImageDecoder, SequenceTheorems, TLAPS

(***************************************************************************)
(* The inductive invariant.  It follows one image on its way: asked for in *)
(* requests; then busy in the queue, taken by the thread or deferred to    *)
(* the main loop; then told in replies.                                    *)
(***************************************************************************)
Jobs(s) == {s[k][1] : k \in DOMAIN s}

Distinct(s) == \A j, k \in DOMAIN s : s[j][1] = s[k][1] => j = k

Asked(i) == i \in Range(requests[Owner[i]])

Busy(i) == i \in Range(s_all_actions) \cup Range(actions) \cup Jobs(deferred)

Told(kind, i) == <<kind, i>> \in Range(replies[Owner[i]])

(* An image is in one place at a time, and nowhere before it is asked for. *)
PlaceOK(i) ==
    /\ promise[i] = "none" =>
           /\ ~ Asked(i) /\ ~ Busy(i)
           /\ \A kind \in {"response", "did_decode", "did_fail"} : ~ Told(kind, i)
    /\ Asked(i) =>
           /\ ~ Busy(i)
           /\ \A kind \in {"response", "did_decode", "did_fail"} : ~ Told(kind, i)
           /\ server = "running" => promise[i] = "pending"
    /\ Busy(i) =>
           /\ ~ Told("did_decode", i) /\ ~ Told("did_fail", i)
           /\ promise[i] = "pending"
    /\ i \notin Range(s_all_actions) \cup Range(actions) \/ i \notin Jobs(deferred)

(* What is said of an image is what the decoder made of it.                *)
OutcomeOK(i) ==
    /\ <<i, TRUE>> \in Range(deferred) \/ Told("did_decode", i) => decoded[i] = "image"
    /\ i \in Jobs(deferred) => decoded[i] # "no"
    /\ Told("did_fail", i) => decoded[i] # "no" \/ i \in Invalid
    /\ promise[i] = "resolved" => decoded[i] = "image"
    /\ promise[i] = "rejected" /\ server = "running" => decoded[i] # "no" \/ i \in Invalid

(* JobsAreUnderWay for one image.                                          *)
JobOK(i) ==
    server = "running" =>
        /\ i \in m_pending_jobs => Busy(i) /\ Owner[i] \in s_connections
        /\ Busy(i) /\ i \notin m_pending_jobs => ~ is_open(Owner[i])

(* A client has at most one call under way, and no response but its own.   *)
ClientOK(c) ==
    /\ Len(requests[c]) <= 1
    /\ requests[c] # <<>> => client[c] \notin {"none", "open"}
    /\ \A i \in Range(requests[c]) : Owner[i] = c /\ (client[c] = "blocked" => waiting[c] = i)
    /\ \A m \in Range(replies[c]) :
           /\ Owner[m[2]] = c
           /\ m[1] = "response" => /\ client[c] # "open"
                                   /\ client[c] = "blocked" => waiting[c] = m[2]
    /\ waiting[c] # None => Owner[waiting[c]] = c
    /\ client[c] = "none" => \A i \in Of(c) : promise[i] = "none"
    /\ client[c] \in {"closed", "dead"} => server # "running"

(* The two threads of the process.  Its last connection is gone before the *)
(* flag that stops the thread is stored.                                   *)
ThreadsOK ==
    /\ Distinct(deferred)
    /\ should_run <=> quitting = "no"
    /\ quitting # "no" => s_connections = {}
    /\ dying # None => dying \in s_connections
    /\ s_background_thread \in {"action", "on_error"} => actions # <<>>
    /\ s_background_thread = "on_error" => decoded[Head(actions)] # "no"
    /\ server # "running" => s_all_actions = <<>> /\ actions = <<>> /\ deferred = <<>>

(* About to wait is as good as waiting: the mutex is held in between.      *)
SleepOK ==
    s_background_thread = "sleep" \/ (s_background_thread = "waiting" /\ ~ woken) =>
        /\ s_all_actions = <<>>
        /\ should_run \/ quitting = "stored"

IInv ==
    /\ TypeOK
    /\ ThreadsOK
    /\ \A i \in Images : PlaceOK(i) /\ OutcomeOK(i) /\ JobOK(i)
    /\ \A c \in Clients : ClientOK(c)

-----------------------------------------------------------------------------
(* Sequences: what is put in, taken out and joined.                        *)
LEMMA Put ==
    ASSUME NEW S, NEW s \in Seq(S), NEW a \in S
    PROVE  /\ Append(s, a) \in Seq(S) /\ Len(Append(s, a)) = Len(s) + 1
           /\ Range(Append(s, a)) = Range(s) \cup {a}
           /\ IsInjective(s) /\ a \notin Range(s) => IsInjective(Append(s, a))
<1>1. /\ Append(s, a) \in Seq(S) /\ Len(Append(s, a)) = Len(s) + 1
      /\ \A k \in 1 .. Len(s) : Append(s, a)[k] = s[k]
      /\ Append(s, a)[Len(s) + 1] = a
  BY AppendProperties
<1>2. /\ Range(s) = {s[k] : k \in 1 .. Len(s)} /\ Len(s) \in Nat /\ DOMAIN s = 1 .. Len(s)
      /\ DOMAIN Append(s, a) = 1 .. Len(s) + 1
  BY <1>1, LenProperties DEF Range
<1>3. \A x : x \in Range(Append(s, a)) <=> x \in Range(s) \/ x = a
  BY <1>1, <1>2 DEF Range
<1> QED BY <1>1, <1>2, <1>3 DEF IsInjective

(* The first element is taken from a sequence.                             *)
LEMMA Take ==
    ASSUME NEW S, NEW s \in Seq(S), s # <<>>
    PROVE  /\ Head(s) \in S /\ Tail(s) \in Seq(S) /\ Len(Tail(s)) = Len(s) - 1
           /\ Head(s) \in Range(s) /\ Head(s) = s[1] /\ 1 \in DOMAIN s
           /\ Range(Tail(s)) \subseteq Range(s)
           /\ Range(s) = Range(Tail(s)) \cup {Head(s)}
           /\ IsInjective(s) => IsInjective(Tail(s)) /\ Head(s) \notin Range(Tail(s))
<1>1. /\ Head(s) \in S /\ Tail(s) \in Seq(S) /\ Len(Tail(s)) = Len(s) - 1
      /\ \A k \in 1 .. Len(Tail(s)) : Tail(s)[k] = s[k + 1]
  BY HeadTailProperties
<1>2. /\ Len(s) \in Nat /\ Len(s) # 0 /\ DOMAIN s = 1 .. Len(s) /\ Head(s) = s[1]
      /\ DOMAIN Tail(s) = 1 .. Len(s) - 1
  BY <1>1, LenProperties, EmptySeq
<1>3. 1 \in DOMAIN s /\ \A k \in 1 .. Len(s) - 1 : k + 1 \in DOMAIN s
  BY <1>2
<1>4. \A x : x \in Range(Tail(s)) => x \in Range(s)
  BY <1>1, <1>2, <1>3 DEF Range
<1>5. \A x \in Range(s) : x = Head(s) \/ x \in Range(Tail(s))
  <2> SUFFICES ASSUME NEW k \in 1 .. Len(s), k # 1 PROVE s[k] \in Range(Tail(s))
    BY <1>2 DEF Range
  <2>1. k - 1 \in 1 .. Len(s) - 1 /\ s[k] = Tail(s)[k - 1]
    BY <1>1, <1>2
  <2> QED BY <1>2, <2>1 DEF Range
<1>6. Head(s) \in Range(s)
  BY <1>2, <1>3 DEF Range
<1>7. ASSUME IsInjective(s) PROVE IsInjective(Tail(s)) /\ Head(s) \notin Range(Tail(s))
  BY <1>1, <1>2, <1>7 DEF IsInjective, Range
<1> QED BY <1>1, <1>2, <1>3, <1>4, <1>5, <1>6, <1>7

(* Two sequences are joined.                                               *)
LEMMA Join ==
    ASSUME NEW S, NEW s \in Seq(S), NEW t \in Seq(S)
    PROVE  /\ s \o t \in Seq(S) /\ Range(s \o t) = Range(s) \cup Range(t)
           /\ IsInjective(s \o t) <=>
                  IsInjective(s) /\ IsInjective(t) /\ Range(s) \cap Range(t) = {}
<1>1. /\ s \o t \in Seq(S) /\ Len(s \o t) = Len(s) + Len(t)
      /\ \A i \in 1 .. Len(s) + Len(t) : (s \o t)[i] =
             IF i <= Len(s) THEN s[i] ELSE t[i - Len(s)]
  BY ConcatProperties
<1>2. /\ Len(s) \in Nat /\ DOMAIN s = 1 .. Len(s) /\ Len(t) \in Nat /\ DOMAIN t = 1 .. Len(t)
      /\ DOMAIN (s \o t) = 1 .. Len(s) + Len(t)
  BY <1>1, LenProperties
<1>3. Range(s \o t) = Range(s) \cup Range(t)
  BY RangeConcatenation
<1>a. /\ \A k \in 1 .. Len(s) : k \in DOMAIN (s \o t) /\ (s \o t)[k] = s[k]
      /\ \A k \in 1 .. Len(t) : k + Len(s) \in DOMAIN (s \o t) /\ (s \o t)[k + Len(s)] = t[k]
  BY <1>1, <1>2
<1>4. ASSUME IsInjective(s \o t)
      PROVE  IsInjective(s) /\ IsInjective(t) /\ Range(s) \cap Range(t) = {}
  <2>1. IsInjective(s)
    BY <1>2, <1>4, <1>a DEF IsInjective
  <2>2. IsInjective(t)
    <3> SUFFICES ASSUME NEW j \in 1 .. Len(t), NEW k \in 1 .. Len(t), t[j] = t[k] PROVE j = k
      BY <1>2 DEF IsInjective
    <3>1. j + Len(s) = k + Len(s)
      BY <1>4, <1>a DEF IsInjective
    <3> QED BY <3>1, <1>2
  <2>3. ASSUME NEW j \in 1 .. Len(s), NEW k \in 1 .. Len(t), s[j] = t[k] PROVE FALSE
    <3>1. j = k + Len(s)
      BY <1>4, <1>a, <2>3 DEF IsInjective
    <3> QED BY <3>1, <1>2
  <2> QED BY <1>2, <2>1, <2>2, <2>3 DEF Range
<1>5. ASSUME IsInjective(s), IsInjective(t), Range(s) \cap Range(t) = {}
      PROVE  IsInjective(s \o t)
  <2> SUFFICES ASSUME NEW j \in 1 .. Len(s) + Len(t), NEW k \in 1 .. Len(s) + Len(t),
                      (s \o t)[j] = (s \o t)[k]
               PROVE  j = k
    BY <1>2 DEF IsInjective
  <2>1. CASE j <= Len(s) /\ k <= Len(s)
    BY <2>1, <1>1, <1>2, <1>5 DEF IsInjective
  <2>2. CASE j > Len(s) /\ k > Len(s)
    <3>1. j - Len(s) \in 1 .. Len(t) /\ k - Len(s) \in 1 .. Len(t) /\ t[j - Len(s)] = t[k - Len(s)]
      BY <2>2, <1>1, <1>2
    <3>2. j - Len(s) = k - Len(s)
      BY <3>1, <1>2, <1>5 DEF IsInjective
    <3> QED BY <3>2, <1>2
  <2>3. ASSUME NEW x \in 1 .. Len(s) + Len(t), NEW y \in 1 .. Len(s) + Len(t),
               x <= Len(s), y > Len(s)
        PROVE  (s \o t)[x] # (s \o t)[y]
    <3>1. x \in 1 .. Len(s) /\ y - Len(s) \in 1 .. Len(t)
          /\ (s \o t)[x] = s[x] /\ (s \o t)[y] = t[y - Len(s)]
      BY <2>3, <1>1, <1>2
    <3>2. s[x] \in Range(s) /\ t[y - Len(s)] \in Range(t)
      BY <3>1, <1>2 DEF Range
    <3> QED BY <3>1, <3>2, <1>5
  <2> QED BY <2>1, <2>2, <2>3, <1>2
<1> QED BY <1>1, <1>3, <1>4, <1>5

(* One element is taken from between the others.                           *)
LEMMA Drop ==
    ASSUME NEW S, NEW s \in Seq(S), NEW k \in DOMAIN s, IsInjective(s)
    PROVE  /\ RemoveAt(s, k) \in Seq(S) /\ IsInjective(RemoveAt(s, k))
           /\ Range(RemoveAt(s, k)) \subseteq Range(s)
           /\ s[k] \notin Range(RemoveAt(s, k))
<1> DEFINE a == SubSeq(s, 1, k - 1)
           b == SubSeq(s, k + 1, Len(s))
<1>1. Len(s) \in Nat /\ DOMAIN s = 1 .. Len(s) /\ k \in 1 .. Len(s) /\ \A n \in 1 .. Len(s) : s[n] \in S
  BY LenProperties, ElementOfSeq
<1>2. /\ a \in Seq(S) /\ Len(a) = k - 1 /\ \A n \in 1 .. k - 1 : a[n] = s[n]
  BY <1>1, SubSeqProperties
<1>3. /\ b \in Seq(S) /\ Len(b) = Len(s) - k /\ \A n \in 1 .. Len(s) - k : b[n] = s[k + n]
  <2>1. /\ b \in Seq(S) /\ Len(b) = IF k + 1 <= Len(s) THEN Len(s) - (k + 1) + 1 ELSE 0
        /\ \A n \in 1 .. Len(s) - (k + 1) + 1 : b[n] = s[k + 1 + n - 1]
    BY <1>1, SubSeqProperties
  <2> QED BY SMTT(30), <1>1, <2>1
<1>4. RemoveAt(s, k) = a \o b
  BY DEF RemoveAt
<1> HIDE DEF a, b
<1>5. DOMAIN a = 1 .. k - 1 /\ DOMAIN b = 1 .. Len(s) - k
  BY <1>2, <1>3, LenProperties
<1>6. IsInjective(a)
  BY <1>1, <1>2, <1>5 DEF IsInjective
<1>7. IsInjective(b)
  <2> SUFFICES ASSUME NEW m \in 1 .. Len(s) - k, NEW n \in 1 .. Len(s) - k, b[m] = b[n] PROVE m = n
    BY <1>5 DEF IsInjective
  <2>1. k + m \in DOMAIN s /\ k + n \in DOMAIN s /\ s[k + m] = s[k + n]
    BY <1>1, <1>3
  <2>2. k + m = k + n
    BY <2>1 DEF IsInjective
  <2> QED BY <1>1, <2>2
<1>8. \A x \in Range(a) : \E n \in 1 .. Len(s) : n < k /\ s[n] = x
  BY <1>1, <1>2, <1>5 DEF Range
<1>9. \A x \in Range(b) : \E n \in 1 .. Len(s) : n > k /\ s[n] = x
  <2> SUFFICES ASSUME NEW m \in 1 .. Len(s) - k
               PROVE  \E n \in 1 .. Len(s) : n > k /\ s[n] = b[m]
    BY <1>5 DEF Range
  <2>1. k + m \in 1 .. Len(s) /\ k + m > k /\ s[k + m] = b[m]
    BY <1>1, <1>3
  <2> QED BY <2>1
<1>10. Range(a) \cap Range(b) = {}
  <2> SUFFICES ASSUME NEW x \in Range(a), x \in Range(b) PROVE FALSE
    OBVIOUS
  <2>1. PICK m \in 1 .. Len(s) : m < k /\ s[m] = x
    BY <1>8
  <2>2. PICK n \in 1 .. Len(s) : n > k /\ s[n] = x
    BY <1>9
  <2> QED BY <1>1, <2>1, <2>2 DEF IsInjective
<1>11. \A x \in Range(a) \cup Range(b) : x \in Range(s) /\ x # s[k]
  <2> SUFFICES ASSUME NEW x, NEW n \in 1 .. Len(s), n # k, s[n] = x
               PROVE  x \in Range(s) /\ x # s[k]
    BY <1>1, <1>8, <1>9
  <2> QED BY <1>1 DEF IsInjective, Range
<1> QED BY SMTT(30), <1>2, <1>3, <1>4, <1>6, <1>7, <1>10, <1>11, Join

(* The same for callbacks deferred to the main loop.                       *)
LEMMA PutJob ==
    ASSUME NEW s \in Seq(Images \X BOOLEAN), NEW e \in Images \X BOOLEAN,
           Distinct(s), e[1] \notin Jobs(s), NEW t, t = Append(s, e)
    PROVE  /\ t \in Seq(Images \X BOOLEAN) /\ Distinct(t) /\ IsInjective(t)
           /\ Jobs(t) = Jobs(s) \cup {e[1]}
           /\ \A p : p \in Range(t) => p \in Range(s) \/ p = e
<1>3. /\ t \in Seq(Images \X BOOLEAN) /\ Len(t) = Len(s) + 1
      /\ \A k \in 1 .. Len(s) : t[k] = s[k]
      /\ t[Len(s) + 1] = e
  BY AppendProperties
<1>4. /\ Len(s) \in Nat /\ DOMAIN s = 1 .. Len(s) /\ DOMAIN t = 1 .. Len(s) + 1
  BY <1>3, LenProperties
<1>5. Distinct(t)
  BY <1>3, <1>4 DEF Distinct, Jobs
<1>6. Jobs(t) = Jobs(s) \cup {e[1]}
  <2>1. Jobs(t) = {t[k][1] : k \in 1 .. Len(s) + 1} /\ Jobs(s) = {s[k][1] : k \in 1 .. Len(s)}
    BY <1>4 DEF Jobs
  <2>2. \A k \in 1 .. Len(s) + 1 : k \in 1 .. Len(s) \/ k = Len(s) + 1
    BY <1>4
  <2>3. \A x \in Jobs(t) : x \in Jobs(s) \/ x = e[1]
    BY <1>3, <2>1, <2>2
  <2>4. \A x \in Jobs(s) : x \in Jobs(t)
    BY <1>3, <1>4, <2>1
  <2>5. e[1] \in Jobs(t)
    BY <1>3, <1>4, <2>1
  <2> QED BY <2>3, <2>4, <2>5
<1>7. \A p : p \in Range(t) => p \in Range(s) \/ p = e
  BY Put
<1>8. IsInjective(t)
  BY <1>5 DEF Distinct, IsInjective
<1> QED BY <1>3, <1>5, <1>6, <1>7, <1>8

(* The first deferred callback is taken.                                   *)
LEMMA TakeJob ==
    ASSUME NEW s \in Seq(Images \X BOOLEAN), Distinct(s), s # <<>>
    PROVE  /\ Tail(s) \in Seq(Images \X BOOLEAN) /\ Distinct(Tail(s)) /\ IsInjective(Tail(s))
           /\ Head(s)[1] \in Images /\ Head(s)[1] \in Jobs(s)
           /\ Head(s)[2] \in BOOLEAN /\ <<Head(s)[1], Head(s)[2]>> \in Range(s)
           /\ Jobs(Tail(s)) = Jobs(s) \ {Head(s)[1]}
           /\ Range(Tail(s)) \subseteq Range(s)
<1> DEFINE e == Head(s)
<1>1. /\ e \in Images \X BOOLEAN /\ Tail(s) \in Seq(Images \X BOOLEAN) /\ e = s[1] /\ e \in Range(s)
      /\ Range(Tail(s)) \subseteq Range(s) /\ 1 \in DOMAIN s
  BY Take
<1>2. e = <<e[1], e[2]>> /\ e[1] \in Images /\ e[2] \in BOOLEAN
  BY <1>1
<1>3. /\ Len(s) \in Nat /\ Len(s) # 0 /\ DOMAIN s = 1 .. Len(s) /\ DOMAIN Tail(s) = 1 .. Len(s) - 1
      /\ \A k \in 1 .. Len(s) - 1 : Tail(s)[k] = s[k + 1]
  BY HeadTailProperties, LenProperties, EmptySeq
<1> HIDE DEF e
<1>4. Distinct(Tail(s))
  BY <1>3 DEF Distinct
<1>5. IsInjective(Tail(s))
  BY <1>4 DEF Distinct, IsInjective
<1>6. e[1] \in Jobs(s)
  BY <1>1 DEF Jobs
<1>7. \A x \in Jobs(Tail(s)) : x \in Jobs(s) /\ x # e[1]
  BY <1>1, <1>3 DEF Jobs, Distinct
<1>8. ASSUME NEW k \in 1 .. Len(s), s[k][1] # e[1] PROVE s[k][1] \in Jobs(Tail(s))
  <2>1. k - 1 \in 1 .. Len(s) - 1 /\ Tail(s)[k - 1] = s[k]
    BY <1>1, <1>3, <1>8
  <2> QED BY <1>3, <2>1 DEF Jobs
<1>9. Jobs(Tail(s)) = Jobs(s) \ {e[1]}
  BY ZenonT(30), <1>3, <1>7, <1>8 DEF Jobs
<1> QED BY <1>1, <1>2, <1>4, <1>5, <1>6, <1>9 DEF e

-----------------------------------------------------------------------------
(* SleepsOnlyWhenIdle, for every number of clients and jobs: s_mutex keeps *)
(* enqueue_work() and quit_background_thread() out between the test of the *)
(* inner loop and the wait.                                                *)
THEOREM NoWakeupIsLost == Spec => []SleepsOnlyWhenIdle
<1>1. Init => SleepOK
  BY DEF Init, BackgroundInit, SleepOK
<1>2. SleepOK /\ [Next]_vars => SleepOK'
  <2> SUFFICES ASSUME SleepOK, [Next]_vars PROVE SleepOK'
    OBVIOUS
  <2> USE DEF SleepOK
  <2>1. CASE UNCHANGED backgroundVars
    BY <2>1 DEF backgroundVars
  <2>2. ASSUME NEW how, Gone(how) PROVE SleepOK'
    BY <2>2 DEF Gone
  <2>3. CASE ThreadSteps
    BY <2>3 DEF ThreadSteps, ThreadNext, ThreadLock, ThreadIdle, ThreadTakes, ThreadWaits,
                ThreadWakes, ThreadStartsAction, ThreadLoops
  <2>4. ASSUME NEW c \in Clients, server_decode_image(c) PROVE SleepOK'
    <3>1. CASE UNCHANGED backgroundVars
      BY <2>1, <3>1
    <3>2. ASSUME NEW a, enqueue_work(a) PROVE SleepOK'
      BY <3>2 DEF enqueue_work, broadcast, s_mutex_is_free
    <3> QED BY <2>4, <3>1, <3>2 DEF server_decode_image
  <2>5. CASE die_clears
    <3>1. CASE StoreShouldRun
      BY <3>1 DEF StoreShouldRun
    <3> QED BY <2>1, <2>2, <2>5, <3>1 DEF die_clears
  <2>6. CASE quit_broadcasts
    BY <2>6 DEF quit_broadcasts, BroadcastQuit, broadcast, s_mutex_is_free
  <2>7. ASSUME NEW ok \in BOOLEAN, decode(ok) PROVE SleepOK'
    BY <2>7 DEF decode, ActionReturns
  <2>8. CASE on_error_here
    BY <2>8 DEF on_error_here, ActionReturns
  <2>9. CASE quit_joins \/ DataRace \/ Crash
    BY <2>2, <2>9 DEF quit_joins, DataRace, Crash
  <2>10. CASE MainThread
    BY <2>10, <2>1, <2>4, <2>5, <2>6, <2>9 DEF MainThread, die, on_complete_or_error
  <2>11. CASE Background
    BY <2>11, <2>3, <2>7, <2>8 DEF Background
  <2>12. CASE Environment
    BY <2>12, <2>1, <2>9 DEF Environment, connect_new_client, set_client, client_exits, decode_image
  <2>13. ASSUME NEW c \in Clients, ClientLoop(c) PROVE SleepOK'
    BY <2>13, <2>1 DEF ClientLoop, decode_image_returns, decode_image_fails, did_decode_or_fail,
                       client_die
  <2> QED BY <2>1, <2>10, <2>11, <2>12, <2>13 DEF Next, vars
<1>3. SleepOK => SleepsOnlyWhenIdle
  BY DEF SleepOK, SleepsOnlyWhenIdle
<1> QED BY <1>1, <1>2, <1>3, PTL DEF Spec

-----------------------------------------------------------------------------
ClientStates == {"none", "open", "blocked", "closed", "dead", "replaced", "gone"}
Kinds == {"response", "did_decode", "did_fail"}

ClientTypes ==
    /\ replies \in [Clients -> Seq(Messages)]
    /\ client \in [Clients -> ClientStates]
    /\ waiting \in [Clients -> Images \cup {None}]
    /\ m_pending_decoded_images \subseteq Images
    /\ promise \in [Images -> {"none", "pending", "resolved", "rejected"}]

(* What settles the promise of an image.                                   *)
SettledRight(i) ==
    \/ promise'[i] \in {"resolved", "rejected"} /\ Told("did_decode", i)
    \/ promise'[i] = "rejected" /\ (Told("did_fail", i) \/ server # "running")

(* Steps of the clients that ask for nothing: messages are handled, and    *)
(* promises settled.                                                       *)
LEMMA ClientSide ==
    ASSUME IInv, UNCHANGED <<backgroundVars, serverVars, requests>>, ClientTypes',
           \A c \in Clients :
               IsInjective(replies'[c]) /\ Range(replies'[c]) \subseteq Range(replies[c]),
           \A i \in Images : promise'[i] = promise[i] \/ SettledRight(i),
           \A c \in Clients : ClientOK(c)'
    PROVE  IInv'
<1> USE ImageDecoderAssumption
<1>1. TypeOK'
  BY DEF IInv, TypeOK, ClientTypes, ClientStates, backgroundVars, serverVars
<1>2. ThreadsOK'
  BY DEF IInv, ThreadsOK, backgroundVars, serverVars
<1>3. ASSUME NEW i \in Images PROVE PlaceOK(i)' /\ OutcomeOK(i)' /\ JobOK(i)'
  <2>1. /\ Asked(i)' <=> Asked(i)
        /\ Busy(i)' <=> Busy(i)
        /\ \A kind : Told(kind, i)' => Told(kind, i)
        /\ UNCHANGED <<s_all_actions, actions, deferred, server, decoded, m_pending_jobs,
                       s_connections, dying>>
    BY DEF Asked, Busy, Told, backgroundVars, serverVars
  <2>2. /\ PlaceOK(i) /\ OutcomeOK(i) /\ JobOK(i) /\ (promise'[i] = promise[i] \/ SettledRight(i))
        /\ server # "running" => ~ Busy(i)
    BY DEF IInv, ThreadsOK, Busy, Range, Jobs
  <2>3. PlaceOK(i)'
    BY <2>1, <2>2 DEF PlaceOK, SettledRight
  <2>4. OutcomeOK(i)'
    BY <2>1, <2>2 DEF OutcomeOK, SettledRight
  <2>5. JobOK(i)'
    BY <2>1, <2>2 DEF JobOK, is_open
  <2> QED BY <2>3, <2>4, <2>5
<1> QED BY <1>1, <1>2, <1>3 DEF IInv

(* What the type invariant says of one client.                             *)
LEMMA OfClient ==
    ASSUME IInv, NEW c \in Clients
    PROVE  /\ replies[c] \in Seq(Messages) /\ IsInjective(replies[c])
           /\ requests[c] \in Seq(Images)
           /\ client[c] \in ClientStates /\ waiting[c] \in Images \cup {None}
           /\ \A m \in Range(replies[c]) :
                  m[1] \in Kinds /\ m[2] \in Images /\ m = <<m[1], m[2]>> /\ Owner[m[2]] = c
           /\ ClientOK(c) /\ ClientTypes
<1>1. /\ replies[c] \in Seq(Messages) /\ IsInjective(replies[c]) /\ requests[c] \in Seq(Images)
      /\ client[c] \in ClientStates /\ waiting[c] \in Images \cup {None} /\ ClientTypes
  BY DEF IInv, TypeOK, ClientTypes, ClientStates
<1>2. Range(replies[c]) \subseteq Messages
  BY <1>1, RangeOfSeq
<1>3. ClientOK(c)
  BY DEF IInv
<1> QED BY <1>1, <1>2, <1>3 DEF Messages, Kinds, ClientOK

(* A message in a client's channel is about an image of the client.        *)
LEMMA InChannel ==
    ASSUME IInv, NEW c \in Clients, NEW kind, NEW i, <<kind, i>> \in Range(replies[c])
    PROVE  kind \in Kinds /\ i \in Images /\ Owner[i] = c /\ Told(kind, i)
BY OfClient DEF Told

(* Channels that only lose messages.                                       *)
ChannelsShrink ==
    /\ replies' \in [Clients -> Seq(Messages)]
    /\ \A c \in Clients :
           IsInjective(replies'[c]) /\ Range(replies'[c]) \subseteq Range(replies[c])

(* A channel is thrown away.                                               *)
LEMMA Emptied ==
    ASSUME IInv, NEW c \in Clients, replies' = [replies EXCEPT ![c] = <<>>]
    PROVE  ChannelsShrink /\ replies'[c] = <<>> /\ Range(replies'[c]) = {}
<1>1. /\ <<>> \in Seq(Messages) /\ Range(<<>>) = {} /\ IsInjective(<<>>)
  BY EmptySeq DEF Range, IsInjective
<1>2. \A d \in Clients : replies'[d] = IF d = c THEN <<>> ELSE replies[d]
  BY DEF IInv, TypeOK
<1> QED BY <1>1, <1>2 DEF IInv, TypeOK, ChannelsShrink

(* The other clients do not notice a step of one client.                   *)
LEMMA OtherClient ==
    ASSUME IInv, ChannelsShrink, UNCHANGED <<requests, server>>, NEW d \in Clients,
           client'[d] = client[d], waiting'[d] = waiting[d],
           \A i \in Of(d) : promise'[i] = promise[i]
    PROVE  ClientOK(d)'
<1>1. ClientOK(d) /\ Range(replies'[d]) \subseteq Range(replies[d])
  BY OfClient DEF ChannelsShrink
<1> QED BY <1>1 DEF ClientOK, Of

(* Client::die() rejects what is pending.                                  *)
LEMMA ClientDies ==
    ASSUME IInv, NEW c \in Clients, client_die(c)
    PROVE  IInv'
<1>1. /\ ChannelsShrink /\ Range(replies'[c]) = {}
      /\ UNCHANGED <<backgroundVars, serverVars, waiting, requests>>
  BY Emptied DEF client_die
<1>2. /\ client' = [client EXCEPT ![c] = "dead"]
      /\ m_pending_decoded_images' = m_pending_decoded_images \ Of(c)
      /\ promise' = [i \in Images |-> IF i \in m_pending_decoded_images \cap Of(c) THEN "rejected"
                                                                                 ELSE promise[i]]
      /\ server # "running"
      /\ client[c] # "none"
  BY OfClient DEF client_die, Settle, ClientOK
<1>3. ClientTypes'
  BY <1>1, <1>2, OfClient DEF ClientTypes, ClientStates, ChannelsShrink
<1>4. \A i \in Images : promise'[i] = promise[i] \/ SettledRight(i)
  BY <1>2 DEF SettledRight
<1>5. ASSUME NEW d \in Clients PROVE ClientOK(d)'
  <2>1. CASE d = c
    <3>1. ClientOK(c) /\ client'[c] = "dead" /\ requests' = requests /\ server' = server
      BY <1>1, <1>2, OfClient DEF serverVars, ClientTypes
    <3> QED BY <2>1, <3>1, <1>1, <1>2 DEF ClientOK
  <2>2. CASE d # c
    BY <2>2, <1>1, <1>2, OtherClient, OfClient DEF Of, serverVars, ClientTypes
  <2> QED BY <2>1, <2>2
<1> QED BY <1>1, <1>3, <1>4, <1>5, ClientSide DEF ChannelsShrink

(* A client is replaced, or its process ends.                              *)
LEMMA ClientLeaves ==
    ASSUME IInv, NEW c \in Clients, set_client(c) \/ client_exits(c)
    PROVE  IInv'
<1>1. /\ ChannelsShrink /\ Range(replies'[c]) = {}
      /\ UNCHANGED <<backgroundVars, serverVars, promise, requests>>
  BY Emptied DEF set_client, client_exits
<1>2. /\ \E what \in {"replaced", "gone"} : client' = [client EXCEPT ![c] = what]
      /\ waiting' = waiting \/ waiting' = [waiting EXCEPT ![c] = None]
      /\ m_pending_decoded_images' = m_pending_decoded_images \ Of(c)
      /\ client[c] # "none"
  BY DEF set_client, client_exits
<1>3. ClientTypes'
  <2>1. ClientTypes
    BY OfClient
  <2>2. client' \in [Clients -> ClientStates]
    BY <1>2, <2>1 DEF ClientTypes, ClientStates
  <2>3. waiting' \in [Clients -> Images \cup {None}]
    BY <1>2, <2>1 DEF ClientTypes
  <2> QED BY <1>1, <1>2, <2>1, <2>2, <2>3 DEF ClientTypes, ChannelsShrink
<1>4. \A i \in Images : promise'[i] = promise[i] \/ SettledRight(i)
  BY <1>1
<1>5. ASSUME NEW d \in Clients PROVE ClientOK(d)'
  <2>1. CASE d = c
    <3>1. ClientOK(c) /\ client'[c] \in {"replaced", "gone"} /\ UNCHANGED <<requests, server, promise>>
      BY <1>1, <1>2, OfClient DEF serverVars, ClientTypes
    <3>2. waiting'[c] \in {waiting[c], None}
      BY <1>2, OfClient DEF ClientTypes
    <3> QED BY <2>1, <3>1, <3>2, <1>1, <1>2 DEF ClientOK
  <2>2. CASE d # c
    BY <2>2, <1>1, <1>2, OtherClient, OfClient DEF Of, serverVars, ClientTypes
  <2> QED BY <2>1, <2>2
<1> QED BY <1>1, <1>3, <1>4, <1>5, ClientSide DEF ChannelsShrink

(* An outcome is handled.                                                  *)
LEMMA OutcomeHandled ==
    ASSUME IInv, NEW c \in Clients, did_decode_or_fail(c)
    PROVE  IInv'
<1> DEFINE m == Head(replies[c])
           i == m[2]
<1>1. /\ replies[c] # <<>> /\ replies' = [replies EXCEPT ![c] = Tail(replies[c])]
      /\ client[c] = "open"
      /\ UNCHANGED <<backgroundVars, serverVars, client, waiting, requests>>
  BY DEF did_decode_or_fail
<1>2. /\ m \in Range(replies[c]) /\ Tail(replies[c]) \in Seq(Messages)
      /\ IsInjective(Tail(replies[c])) /\ Range(Tail(replies[c])) \subseteq Range(replies[c])
  BY <1>1, Take, OfClient
<1>3. /\ i \in Images /\ Owner[i] = c /\ m[1] \in Kinds /\ m = <<m[1], i>> /\ Told(m[1], i)
      /\ m[1] # "response"
  BY <1>1, <1>2, OfClient DEF Told, ClientOK
<1>4. PICK how \in IF m[1] = "did_decode" THEN {"resolved", "rejected"} ELSE {"rejected"} :
          Settle({i} \cap m_pending_decoded_images, how)
  BY DEF did_decode_or_fail
<1>5. /\ m_pending_decoded_images' = m_pending_decoded_images \ {i}
      /\ promise' = [j \in Images |-> IF j \in {i} \cap m_pending_decoded_images THEN how
                                                                              ELSE promise[j]]
  BY <1>4 DEF did_decode_or_fail, Settle
<1>6. \/ Told("did_decode", i) /\ how \in {"resolved", "rejected"}
      \/ Told("did_fail", i) /\ how = "rejected"
  BY <1>3, <1>4 DEF Kinds
<1> HIDE DEF m
<1>7. ChannelsShrink
  <2>1. \A d \in Clients : replies'[d] = IF d = c THEN Tail(replies[c]) ELSE replies[d]
    BY <1>1 DEF IInv, TypeOK
  <2> QED BY <1>1, <1>2, <2>1 DEF IInv, TypeOK, ChannelsShrink
<1>8. ClientTypes'
  BY <1>1, <1>5, <1>6, <1>7, OfClient DEF ClientTypes, ChannelsShrink
<1>9. \A j \in Images : promise'[j] = promise[j] \/ SettledRight(j)
  BY <1>5, <1>6 DEF SettledRight
<1>10. ASSUME NEW d \in Clients PROVE ClientOK(d)'
  <2>1. ClientOK(d) /\ ClientOK(c) /\ Range(replies'[d]) \subseteq Range(replies[d]) /\ server' = server
    BY <1>1, <1>7, OfClient DEF ChannelsShrink, serverVars
  <2>2. \A j \in Of(d) : client[d] = "none" => promise'[j] = promise[j]
    BY <1>1, <1>3, <1>5 DEF Of
  <2> QED BY <1>1, <2>1, <2>2 DEF ClientOK, Of
<1> QED BY <1>1, <1>7, <1>8, <1>9, <1>10, ClientSide DEF ChannelsShrink

(* The synchronous call returns with its response.                         *)
LEMMA CallReturns ==
    ASSUME IInv, NEW c \in Clients, decode_image_returns(c)
    PROVE  IInv'
<1>1. /\ client[c] = "blocked"
      /\ m_pending_decoded_images' = m_pending_decoded_images \cup {waiting[c]}
      /\ waiting' = [waiting EXCEPT ![c] = None]
      /\ client' = [client EXCEPT ![c] = "open"]
      /\ UNCHANGED <<backgroundVars, serverVars, promise, requests>>
  BY DEF decode_image_returns
<1>2. PICK k \in DOMAIN replies[c] :
          /\ replies[c][k] = <<"response", waiting[c]>>
          /\ replies' = [replies EXCEPT ![c] = RemoveAt(replies[c], k)]
  BY DEF decode_image_returns
<1> DEFINE rest == RemoveAt(replies[c], k)
<1>3. /\ rest \in Seq(Messages) /\ IsInjective(rest) /\ Range(rest) \subseteq Range(replies[c])
      /\ <<"response", waiting[c]>> \notin Range(rest)
      /\ <<"response", waiting[c]>> \in Range(replies[c])
  <2>1. replies[c] \in Seq(Messages) /\ IsInjective(replies[c])
    BY OfClient
  <2>2. <<"response", waiting[c]>> \in Range(replies[c])
    BY <1>2 DEF Range
  <2> QED BY ZenonT(30), <1>2, <2>1, <2>2, Drop
<1> HIDE DEF rest
<1>4. \A d \in Clients : replies'[d] = IF d = c THEN rest ELSE replies[d]
  BY <1>2 DEF IInv, TypeOK, rest
<1>5. ChannelsShrink
  <2>1. replies' \in [Clients -> Seq(Messages)]
    BY <1>2, <1>3 DEF IInv, TypeOK, rest
  <2> QED BY <1>3, <1>4, <2>1 DEF IInv, TypeOK, ChannelsShrink
<1>6. waiting[c] \in Images /\ Told("response", waiting[c])
  BY <1>3, InChannel
<1>7. ClientTypes'
  BY <1>1, <1>5, <1>6, OfClient DEF ClientTypes, ClientStates, ChannelsShrink
<1>8. ASSUME NEW d \in Clients PROVE ClientOK(d)'
  <2>1. CASE d = c
    <3>1. /\ ClientOK(c) /\ client'[c] = "open" /\ waiting'[c] = None
          /\ UNCHANGED <<requests, server, promise>>
      BY <1>1, OfClient DEF serverVars, ClientTypes
    <3>2. requests[c] = <<>>
      <4> SUFFICES ASSUME requests[c] # <<>> PROVE FALSE
        OBVIOUS
      <4>1. Head(requests[c]) \in Range(requests[c]) /\ Head(requests[c]) \in Images
        BY Take, OfClient
      <4>2. Head(requests[c]) = waiting[c] /\ Owner[waiting[c]] = c
        BY <1>1, <3>1, <4>1 DEF ClientOK
      <4>3. PlaceOK(waiting[c]) /\ Asked(waiting[c])
        BY <1>6, <4>1, <4>2 DEF IInv, Asked
      <4> QED BY <1>6, <4>3 DEF PlaceOK
    <3>3. \A m \in Range(replies'[c]) : Owner[m[2]] = c /\ m[1] # "response"
      <4> SUFFICES ASSUME NEW m \in Range(rest) PROVE Owner[m[2]] = c /\ m[1] # "response"
        BY <1>4
      <4>1. /\ m \in Range(replies[c]) /\ Owner[m[2]] = c /\ m = <<m[1], m[2]>>
            /\ m[1] = "response" => waiting[c] = m[2]
        BY <1>1, <1>3, <3>1, OfClient DEF ClientOK
      <4> QED BY <1>3, <4>1
    <3> QED BY <2>1, <3>1, <3>2, <3>3 DEF ClientOK, Range
  <2>2. CASE d # c
    BY <2>2, <1>1, <1>5, OtherClient, OfClient DEF Of, serverVars, ClientTypes
  <2> QED BY <2>1, <2>2
<1> QED BY <1>1, <1>5, <1>7, <1>8, ClientSide DEF ChannelsShrink

(* The process is gone while the call waits.                               *)
LEMMA CallFails ==
    ASSUME IInv, NEW c \in Clients, decode_image_fails(c)
    PROVE  IInv'
<1>1. /\ client[c] = "blocked" /\ server # "running"
      /\ replies' = [replies EXCEPT ![c] = <<>>]
      /\ waiting' = [waiting EXCEPT ![c] = None]
      /\ client' = [client EXCEPT ![c] = "closed"]
      /\ UNCHANGED <<backgroundVars, serverVars, requests>>
  BY DEF decode_image_fails
<1>2. PICK n \in 0 .. Len(replies[c]) :
         LET handled == SubSeq(replies[c], 1, n)
             resolved == Outcome(handled, "did_decode")
             rejected == Outcome(handled, "did_fail")
         IN  /\ promise' = [i \in Images |->
                              IF i \in resolved THEN "resolved"
                              ELSE IF i \in rejected \cup {waiting[c]} THEN "rejected"
                              ELSE promise[i]]
             /\ m_pending_decoded_images' = m_pending_decoded_images \ (resolved \cup rejected)
  BY DEF decode_image_fails
<1> DEFINE handled == SubSeq(replies[c], 1, n)
           resolved == Outcome(handled, "did_decode")
           rejected == Outcome(handled, "did_fail")
<1>3. \A k \in DOMAIN handled : handled[k] \in Range(replies[c])
  <2>1. /\ replies[c] \in Seq(Messages) /\ Len(replies[c]) \in Nat
        /\ DOMAIN replies[c] = 1 .. Len(replies[c])
        /\ \A k \in 1 .. Len(replies[c]) : replies[c][k] \in Messages
    BY OfClient, LenProperties, ElementOfSeq
  <2>2. /\ handled \in Seq(Messages) /\ Len(handled) = IF 1 <= n THEN n ELSE 0
        /\ \A k \in 1 .. n : handled[k] = replies[c][k]
    <3>1. /\ \A k \in 1 .. n : replies[c][k] \in Messages /\ 1 + k - 1 = k
          /\ n \in Int /\ n - 1 + 1 = n
      BY <2>1
    <3> QED BY <3>1, SubSeqProperties
  <2>3. DOMAIN handled = 1 .. n
    BY <2>1, <2>2, LenProperties
  <2> QED BY <2>1, <2>2, <2>3 DEF Range
<1>6. /\ m_pending_decoded_images' = m_pending_decoded_images \ (resolved \cup rejected)
      /\ promise' = [i \in Images |-> IF i \in resolved THEN "resolved"
                                      ELSE IF i \in rejected \cup {waiting[c]} THEN "rejected"
                                      ELSE promise[i]]
  BY <1>2
<1> HIDE DEF handled
<1>4. ASSUME NEW i \in resolved PROVE i \in Images /\ Owner[i] = c /\ Told("did_decode", i)
  <2>1. <<"did_decode", i>> \in Range(replies[c])
    BY <1>3, <1>4 DEF Outcome
  <2> QED BY <2>1, InChannel
<1>5. ASSUME NEW i \in rejected PROVE i \in Images /\ Owner[i] = c
  <2>1. <<"did_fail", i>> \in Range(replies[c])
    BY <1>3, <1>5 DEF Outcome
  <2> QED BY <2>1, InChannel
<1> HIDE DEF resolved, rejected
<1>7. ChannelsShrink /\ Range(replies'[c]) = {}
  BY <1>1, Emptied
<1>8. ClientTypes'
  <2>1. client' \in [Clients -> ClientStates] /\ waiting' \in [Clients -> Images \cup {None}]
    BY <1>1, OfClient DEF ClientTypes, ClientStates
  <2>2. promise' \in [Images -> {"none", "pending", "resolved", "rejected"}]
    BY <1>6, OfClient DEF ClientTypes
  <2> QED BY <1>6, <1>7, <2>1, <2>2, OfClient DEF ClientTypes, ChannelsShrink
<1>9. \A i \in Images : promise'[i] = promise[i] \/ SettledRight(i)
  BY <1>1, <1>4, <1>6 DEF SettledRight
<1>10. ASSUME NEW d \in Clients PROVE ClientOK(d)'
  <2>1. CASE d = c
    <3>1. ClientOK(c) /\ client'[c] = "closed" /\ UNCHANGED <<requests, server>>
      BY <1>1, OfClient DEF serverVars, ClientTypes
    <3> QED BY <2>1, <3>1, <1>1, <1>7 DEF ClientOK
  <2>2. CASE d # c
    <3>1. client'[d] = client[d] /\ waiting'[d] = waiting[d] /\ UNCHANGED <<requests, server>>
      BY <2>2, <1>1, OfClient DEF ClientTypes, serverVars
    <3>2. ClientOK(d) /\ Range(replies'[d]) \subseteq Range(replies[d])
      BY <1>7, OfClient DEF ChannelsShrink
    <3>3. waiting[c] \notin Of(d) \/ client[d] # "none"
      <4> SUFFICES ASSUME waiting[c] \in Of(d), client[d] = "none" PROVE FALSE
        OBVIOUS
      <4>1. waiting[c] # None /\ ClientOK(c)
        BY ImageDecoderAssumption, OfClient DEF Of
      <4> QED BY <2>2, <4>1 DEF ClientOK, Of
    <3>4. \A i \in Of(d) : client[d] = "none" => promise'[i] = promise[i]
      BY <1>4, <1>5, <1>6, <2>2, <3>3 DEF Of
    <3> QED BY <3>1, <3>2, <3>4 DEF ClientOK, Of
  <2> QED BY <2>1, <2>2
<1> QED BY <1>1, <1>7, <1>8, <1>9, <1>10, ClientSide DEF ChannelsShrink

(* A client asks, or is told at once that it cannot.                       *)
LEMMA ClientAsks ==
    ASSUME IInv, NEW i \in Images, decode_image(i)
    PROVE  IInv'
<1> DEFINE c == Owner[i]
<1> USE ImageDecoderAssumption
<1>1. /\ promise[i] = "none" /\ c \in Clients
      /\ UNCHANGED <<backgroundVars, serverVars, m_pending_decoded_images, replies>>
  BY DEF decode_image
<1>2. ClientOK(c) /\ ClientTypes /\ PlaceOK(i) /\ ChannelsShrink
  BY <1>1, OfClient DEF IInv, TypeOK, ChannelsShrink
<1>3. CASE /\ client[c] \in {"closed", "dead"} /\ Settle({i}, "rejected")
           /\ UNCHANGED <<requests, waiting, client>>
  <2>1. promise' = [j \in Images |-> IF j = i THEN "rejected" ELSE promise[j]]
    BY <1>3 DEF Settle
  <2>2. server # "running" /\ server' = server
    BY <1>1, <1>2, <1>3 DEF ClientOK, serverVars
  <2>3. ClientTypes'
    BY <1>1, <1>2, <1>3, <2>1 DEF ClientTypes
  <2>4. \A j \in Images : promise'[j] = promise[j] \/ SettledRight(j)
    BY <2>1, <2>2 DEF SettledRight
  <2>5. ASSUME NEW d \in Clients PROVE ClientOK(d)'
    <3>1. ClientOK(d) /\ \A j \in Of(d) : client[d] = "none" => promise'[j] = promise[j]
      BY <1>1, <1>3, <2>1, OfClient DEF Of
    <3> QED BY <1>1, <1>3, <2>2, <3>1 DEF ClientOK, Of
  <2> QED BY <1>1, <1>2, <1>3, <2>3, <2>4, <2>5, ClientSide DEF ChannelsShrink
<1>4. CASE /\ client[c] = "open"
           /\ requests' = [requests EXCEPT ![c] = Append(requests[c], i)]
           /\ waiting' = [waiting EXCEPT ![c] = i]
           /\ client' = [client EXCEPT ![c] = "blocked"]
           /\ Settle({i}, "pending")
  <2>1. promise' = [j \in Images |-> IF j = i THEN "pending" ELSE promise[j]]
    BY <1>4 DEF Settle
  <2>2. requests[c] = <<>> /\ requests \in [Clients -> Seq(Images)]
    BY <1>2, <1>4 DEF ClientOK, IInv, TypeOK
  <2>a. requests[c] \in Seq(Images) /\ Range(requests[c]) = {} /\ Len(requests[c]) = 0
    BY <1>1, <2>2, EmptySeq DEF Range
  <2> DEFINE one == Append(requests[c], i)
  <2>3. one \in Seq(Images) /\ Range(one) = {i} /\ Len(one) = 1
    BY <2>a, Put
  <2>4. requests' = [requests EXCEPT ![c] = one]
    BY <1>4, <2>2
  <2> HIDE DEF one, c
  <2>5. /\ requests' \in [Clients -> Seq(Images)] /\ requests'[c] = one
        /\ \A d \in Clients \ {c} : requests'[d] = requests[d]
    BY <1>1, <2>2, <2>3, <2>4
  <2>6. /\ client' \in [Clients -> ClientStates] /\ client'[c] = "blocked"
        /\ \A d \in Clients \ {c} : client'[d] = client[d]
        /\ waiting' \in [Clients -> Images \cup {None}] /\ waiting'[c] = i
        /\ \A d \in Clients \ {c} : waiting'[d] = waiting[d]
    BY <1>1, <1>2, <1>4 DEF ClientTypes, ClientStates
  <2>7. promise' \in [Images -> {"none", "pending", "resolved", "rejected"}]
    BY <1>2, <2>1 DEF ClientTypes
  <2>8. TypeOK'
    BY <1>1, <2>5, <2>6, <2>7 DEF IInv, TypeOK, ClientStates, backgroundVars, serverVars
  <2>9. ThreadsOK'
    BY <1>1 DEF IInv, ThreadsOK, backgroundVars, serverVars
  <2>10. ASSUME NEW j \in Images PROVE PlaceOK(j)' /\ OutcomeOK(j)' /\ JobOK(j)'
    <3>1. /\ j # i => (Asked(j)' <=> Asked(j))
          /\ Busy(j)' <=> Busy(j)
          /\ \A kind : Told(kind, j)' <=> Told(kind, j)
          /\ UNCHANGED <<s_all_actions, actions, deferred, server, decoded, m_pending_jobs,
                         s_connections, dying>>
          /\ promise'[j] = IF j = i THEN "pending" ELSE promise[j]
      <4>1. j # i => (Asked(j)' <=> Asked(j))
        <5> SUFFICES ASSUME j # i PROVE Asked(j)' <=> Asked(j)
          OBVIOUS
        <5>1. Owner[j] \in Clients
          OBVIOUS
        <5>2. CASE Owner[j] = c
          BY <2>a, <2>3, <2>5, <5>2 DEF Asked
        <5>3. CASE Owner[j] # c
          BY <2>5, <5>1, <5>3 DEF Asked
        <5> QED BY <5>2, <5>3
      <4> QED BY <4>1, <1>1, <2>1 DEF Busy, Told, backgroundVars, serverVars
    <3>2. PlaceOK(j) /\ OutcomeOK(j) /\ JobOK(j)
      BY DEF IInv
    <3>3. PlaceOK(j)'
      BY <1>1, <3>1, <3>2 DEF PlaceOK
    <3>4. OutcomeOK(j)'
      BY <3>1, <3>2 DEF OutcomeOK
    <3>5. JobOK(j)'
      BY <3>1, <3>2 DEF JobOK, is_open
    <3> QED BY <3>3, <3>4, <3>5
  <2>11. ASSUME NEW d \in Clients PROVE ClientOK(d)'
    <3>1. ClientOK(d) /\ UNCHANGED <<replies, server>>
      BY <1>1, OfClient DEF serverVars
    <3>2. CASE d = c
      <4>1. \A m \in Range(replies[c]) : m[1] # "response"
        BY <1>1, <1>4, OfClient DEF ClientOK, c
      <4>2. Owner[i] = c /\ one # <<>>
        BY <2>3, EmptySeq DEF c
      <4>3. /\ requests'[d] = one /\ client'[d] = "blocked" /\ waiting'[d] = i
            /\ replies'[d] = replies[c] /\ Owner[i] = d
        BY <3>1, <3>2, <4>2, <2>5, <2>6
      <4>4. \A m \in Range(replies[c]) : Owner[m[2]] = d
        BY <3>1, <3>2 DEF ClientOK
      <4> QED BY <4>1, <4>3, <4>4, <2>3 DEF ClientOK
    <3>3. CASE d # c
      <4>1. \A j \in Of(d) : promise'[j] = promise[j]
        BY <2>1, <3>3 DEF Of, c
      <4> QED BY ZenonT(30), <3>1, <3>3, <4>1, <2>5, <2>6 DEF ClientOK, Of
    <3> QED BY <3>2, <3>3
  <2> QED BY <2>8, <2>9, <2>10, <2>11 DEF IInv
<1> QED BY <1>3, <1>4 DEF decode_image

(* A client is connected: it has asked for nothing.                        *)
LEMMA ClientConnects ==
    ASSUME IInv, NEW c \in Clients, connect_new_client(c)
    PROVE  IInv'
<1> USE ImageDecoderAssumption
<1>1. /\ server = "running" /\ dying = None /\ quitting = "no" /\ client[c] = "none"
      /\ s_connections' = s_connections \cup {c}
      /\ client' = [client EXCEPT ![c] = "open"]
      /\ UNCHANGED <<backgroundVars, server, m_pending_jobs, m_canceled, deferred, dying,
                     decoded, waiting, m_pending_decoded_images, promise, wires>>
  BY DEF connect_new_client, InLoop
<1>2. TypeOK'
  BY <1>1 DEF IInv, TypeOK, backgroundVars, wires
<1>3. ThreadsOK'
  BY <1>1 DEF IInv, ThreadsOK, backgroundVars
<1>4. ASSUME NEW j \in Images PROVE PlaceOK(j)' /\ OutcomeOK(j)' /\ JobOK(j)'
  <2>1. PlaceOK(j) /\ OutcomeOK(j) /\ JobOK(j) /\ ClientOK(c)
    BY DEF IInv
  <2>2. /\ Asked(j)' <=> Asked(j)
        /\ Busy(j)' <=> Busy(j)
        /\ \A kind : Told(kind, j)' <=> Told(kind, j)
    BY <1>1 DEF Busy, Told, Asked, backgroundVars, wires
  <2>3. PlaceOK(j)'
    BY <1>1, <2>1, <2>2 DEF PlaceOK, backgroundVars
  <2>4. OutcomeOK(j)'
    BY <1>1, <2>1, <2>2 DEF OutcomeOK
  <2>5. Owner[j] = c => promise[j] = "none"
    BY <1>1, <2>1 DEF ClientOK, Of
  <2>6. JobOK(j)'
    BY <1>1, <2>1, <2>2, <2>5 DEF JobOK, is_open, PlaceOK
  <2> QED BY <2>3, <2>4, <2>6
<1>5. ASSUME NEW d \in Clients PROVE ClientOK(d)'
  <2>1. ClientOK(d) /\ client'[d] = IF d = c THEN "open" ELSE client[d]
    BY <1>1, OfClient DEF ClientTypes
  <2>2. CASE d = c
    <3>1. ASSUME NEW m \in Range(replies[c]) PROVE FALSE
      <4>1. m[1] \in Kinds /\ m[2] \in Images /\ m = <<m[1], m[2]>> /\ Owner[m[2]] = c
        BY OfClient
      <4>2. Told(m[1], m[2]) /\ promise[m[2]] = "none" /\ PlaceOK(m[2])
        BY <1>1, <2>1, <2>2, <4>1 DEF Told, ClientOK, Of, IInv
      <4> QED BY <4>1, <4>2 DEF PlaceOK, Kinds
    <3>2. replies' = replies /\ requests' = requests /\ UNCHANGED <<waiting, promise, server>>
      BY <1>1 DEF wires
    <3> QED BY <1>1, <2>1, <2>2, <3>1, <3>2 DEF ClientOK, Range
  <2>3. CASE d # c
    BY <1>1, <2>1, <2>3 DEF ClientOK, wires
  <2> QED BY <2>2, <2>3
<1> QED BY <1>2, <1>3, <1>4, <1>5 DEF IInv

(* Steps of the process leave the clients' invariant alone if they only    *)
(* clear requests and send what the clients expect.                        *)
LEMMA ServerSide ==
    ASSUME IInv, UNCHANGED clientVars, server' = server \/ server' # "running",
           \A c \in Clients : requests'[c] = requests[c] \/ requests'[c] = <<>>,
           \A c \in Clients : \A m \in Range(replies'[c]) :
               \/ m \in Range(replies[c])
               \/ /\ Owner[m[2]] = c
                  /\ m[1] = "response" => /\ client[c] # "open"
                                          /\ client[c] = "blocked" => waiting[c] = m[2]
    PROVE  \A c \in Clients : ClientOK(c)'
<1> SUFFICES ASSUME NEW c \in Clients PROVE ClientOK(c)'
  OBVIOUS
<1>1. ClientOK(c) /\ UNCHANGED <<client, waiting, promise>>
  BY DEF IInv, clientVars
<1>2. Len(<<>>) = 0 /\ Range(<<>>) = {}
  BY EmptySeq DEF Range
<1>3. /\ Len(requests'[c]) <= 1 /\ (requests'[c] # <<>> => client[c] \notin {"none", "open"})
      /\ \A i \in Range(requests'[c]) : Owner[i] = c /\ (client[c] = "blocked" => waiting[c] = i)
  BY <1>1, <1>2 DEF ClientOK
<1> QED BY <1>1, <1>3 DEF ClientOK

(* The process ends: nothing is left in it.                                *)
LEMMA ProcessGone ==
    ASSUME IInv, NEW how \in {"exited", "crashed"}, Gone(how)
    PROVE  IInv'
<1> USE ImageDecoderAssumption
<1>1. /\ server' = how /\ s_connections' = {} /\ m_pending_jobs' = {} /\ m_canceled' = {}
      /\ deferred' = <<>> /\ dying' = None /\ requests' = [c \in Clients |-> <<>>]
      /\ s_background_thread' = "none" /\ should_run' = TRUE /\ s_all_actions' = <<>>
      /\ actions' = <<>> /\ woken' = FALSE /\ quitting' = "no"
      /\ UNCHANGED <<decoded, replies, clientVars>>
  BY DEF Gone
<1>2. /\ \A S : <<>> \in Seq(S)
      /\ Range(<<>>) = {} /\ Jobs(<<>>) = {} /\ IsInjective(<<>>) /\ Distinct(<<>>)
  BY EmptySeq DEF Range, Jobs, IsInjective, Distinct
<1>3. IsInjective(<<>> \o <<>>)
  BY <1>2, Join
<1>4. TypeOK'
  BY <1>1, <1>2, <1>3 DEF IInv, TypeOK, ThreadStates, clientVars
<1>5. ThreadsOK'
  BY <1>1, <1>2 DEF ThreadsOK
<1>6. ASSUME NEW j \in Images PROVE PlaceOK(j)' /\ OutcomeOK(j)' /\ JobOK(j)'
  <2>1. PlaceOK(j) /\ OutcomeOK(j) /\ Owner[j] \in Clients
    BY DEF IInv
  <2>2. /\ ~ Asked(j)' /\ ~ Busy(j)' /\ j \notin Jobs(deferred') /\ <<j, TRUE>> \notin Range(deferred')
        /\ \A kind : Told(kind, j)' <=> Told(kind, j)
    BY <1>1, <1>2, <2>1 DEF Busy, Told, Asked
  <2>3. UNCHANGED <<decoded, promise>> /\ server' # "running"
    BY <1>1 DEF clientVars
  <2>4. PlaceOK(j)'
    BY <2>1, <2>2, <2>3 DEF PlaceOK
  <2>5. OutcomeOK(j)'
    BY <2>1, <2>2, <2>3 DEF OutcomeOK
  <2>6. JobOK(j)'
    BY <2>3 DEF JobOK
  <2> QED BY <2>4, <2>5, <2>6
<1>7. \A c \in Clients : ClientOK(c)'
  BY <1>1, ServerSide
<1> QED BY <1>4, <1>5, <1>6, <1>7 DEF IInv

(* The thread waits, takes the queue over, or passes over what it took:    *)
(* then no connection is left that keeps a job.                            *)
LEMMA ThreadStep ==
    ASSUME IInv, ThreadSteps
    PROVE  IInv'
<1> USE ImageDecoderAssumption
<1> DEFINE work == Range(s_all_actions) \cup Range(actions)
<1>1. /\ server = "running" /\ UNCHANGED <<serverVars, clientVars, wires>>
      /\ UNCHANGED <<should_run, quitting>>
      /\ ThreadNext
  BY DEF ThreadSteps, ThreadNext, ThreadLock, ThreadIdle, ThreadTakes, ThreadWaits,
         ThreadWakes, ThreadStartsAction, ThreadLoops
<1>2. /\ s_all_actions \in Seq(Images) /\ actions \in Seq(Images)
      /\ IsInjective(s_all_actions) /\ IsInjective(actions)
      /\ Range(s_all_actions) \cap Range(actions) = {}
      /\ <<>> \in Seq(Images) /\ Range(<<>>) = {} /\ IsInjective(<<>>)
      /\ woken \in BOOLEAN /\ s_background_thread \in ThreadStates
  <2>1. /\ s_all_actions \in Seq(Images) /\ actions \in Seq(Images)
        /\ IsInjective(s_all_actions \o actions)
        /\ woken \in BOOLEAN /\ s_background_thread \in ThreadStates
    BY DEF IInv, TypeOK
  <2>2. <<>> \in Seq(Images) /\ Range(<<>>) = {} /\ IsInjective(<<>>)
    BY EmptySeq DEF Range, IsInjective
  <2> QED BY <2>1, <2>2, Join
<1>3. /\ s_all_actions' \in Seq(Images) /\ actions' \in Seq(Images)
      /\ IsInjective(s_all_actions' \o actions')
      /\ work' \subseteq work
      /\ work' = work \/ m_pending_jobs = {}
  <2>1. CASE UNCHANGED <<s_all_actions, actions>>
    BY <2>1, <1>2, Join
  <2>2. CASE actions' = actions \o s_all_actions /\ s_all_actions' = <<>>
    <3>1. /\ actions' \in Seq(Images) /\ Range(actions') = work /\ IsInjective(actions')
      BY <1>2, <2>2, Join
    <3> QED BY <1>2, <2>2, <3>1, Join
  <2>3. CASE /\ s_background_thread = "run" /\ actions # <<>> /\ ~ should_run
             /\ actions' = Tail(actions) /\ UNCHANGED s_all_actions
    <3>1. /\ actions' \in Seq(Images) /\ Range(actions') \subseteq Range(actions)
          /\ IsInjective(actions')
      BY <1>2, <2>3, Take
    <3>2. s_connections = {}
      BY <2>3 DEF IInv, ThreadsOK
    <3>3. \A i \in m_pending_jobs : i \in Images /\ JobOK(i)
      BY DEF IInv, TypeOK, JobOK
    <3>4. m_pending_jobs = {}
      BY <1>1, <3>2, <3>3 DEF JobOK
    <3>a. /\ s_all_actions' \in Seq(Images) /\ IsInjective(s_all_actions')
          /\ Range(s_all_actions') \cap Range(actions') = {}
      BY <1>2, <2>3, <3>1
    <3>5. IsInjective(s_all_actions' \o actions')
      BY <3>1, <3>a, Join
    <3> QED BY <1>2, <2>3, <3>1, <3>4, <3>5
  <2> QED BY <1>1, <2>1, <2>2, <2>3
          DEF ThreadNext, ThreadLock, ThreadIdle, ThreadTakes, ThreadWaits,
              ThreadWakes, ThreadStartsAction, ThreadLoops
<1>4. /\ woken' \in BOOLEAN
      /\ s_background_thread' \in ThreadStates \ {"on_error"}
      /\ s_background_thread' = "action" => actions' # <<>>
  BY <1>1, <1>2 DEF ThreadNext, ThreadLock, ThreadIdle, ThreadTakes, ThreadWaits,
              ThreadWakes, ThreadStartsAction, ThreadLoops, ThreadStates
<1>5. TypeOK'
  BY <1>1, <1>3, <1>4 DEF IInv, TypeOK, serverVars, clientVars, wires
<1>6. ThreadsOK'
  BY <1>1, <1>4 DEF IInv, ThreadsOK, serverVars, clientVars, wires
<1>7. ASSUME NEW j \in Images PROVE PlaceOK(j)' /\ OutcomeOK(j)' /\ JobOK(j)'
  <2>1. PlaceOK(j) /\ OutcomeOK(j) /\ JobOK(j)
    BY DEF IInv
  <2>2. /\ Asked(j)' <=> Asked(j)
        /\ \A kind : Told(kind, j)' <=> Told(kind, j)
        /\ UNCHANGED <<promise, server, deferred, decoded, m_pending_jobs, s_connections, dying>>
    BY <1>1 DEF Told, Asked, serverVars, clientVars, wires
  <2>3. /\ Busy(j) <=> (j \in work \/ j \in Jobs(deferred))
        /\ Busy(j)' <=> (j \in work' \/ j \in Jobs(deferred))
        /\ j \in work <=> (j \in Range(s_all_actions) \cup Range(actions))
        /\ j \in work' <=> (j \in Range(s_all_actions)' \cup Range(actions)')
    BY <2>2 DEF Busy
  <2> HIDE DEF work
  <2>4. PlaceOK(j)'
    BY <1>3, <2>1, <2>2, <2>3 DEF PlaceOK
  <2>5. OutcomeOK(j)'
    BY <2>1, <2>2 DEF OutcomeOK
  <2>6. JobOK(j)'
    BY <1>3, <2>1, <2>2, <2>3 DEF JobOK, is_open
  <2> QED BY <2>4, <2>5, <2>6
<1>8. \A c \in Clients : ClientOK(c)'
  BY <1>1, ServerSide DEF serverVars, wires
<1> QED BY <1>5, <1>6, <1>7, <1>8 DEF IInv

(* A message is sent, or dropped: the channel of its client gets it once.  *)
LEMMA Replied ==
    ASSUME IInv, NEW i \in Images, NEW kinds \in Seq(Kinds), IsInjective(kinds),
           \A kind \in Range(kinds) : ~ Told(kind, i), Reply(i, kinds)
    PROVE  /\ replies' \in [Clients -> Seq(Messages)]
           /\ \A c \in Clients : IsInjective(replies'[c])
           /\ \A c \in Clients : \A m \in Range(replies'[c]) :
                  \/ m \in Range(replies[c])
                  \/ c = Owner[i] /\ m[2] = i /\ m[1] \in Range(kinds)
           /\ \A j \in Images : \A kind : Told(kind, j)' =>
                  Told(kind, j) \/ (j = i /\ kind \in Range(kinds))
<1> USE ImageDecoderAssumption
<1> DEFINE c == Owner[i]
           new == [k \in DOMAIN kinds |-> <<kinds[k], i>>]
<1>1. /\ c \in Clients /\ replies[c] \in Seq(Messages) /\ IsInjective(replies[c])
      /\ replies \in [Clients -> Seq(Messages)] /\ \A d \in Clients : IsInjective(replies[d])
  BY OfClient DEF IInv, TypeOK
<1>2. /\ Len(kinds) \in Nat /\ DOMAIN kinds = 1 .. Len(kinds) /\ \A k \in 1 .. Len(kinds) : kinds[k] \in Kinds
  BY LenProperties, ElementOfSeq
<1>3. /\ new \in Seq(Messages) /\ IsInjective(new)
      /\ \A m \in Range(new) : m[2] = i /\ m[1] \in Range(kinds) /\ m = <<m[1], i>>
  <2>1. \A k \in 1 .. Len(kinds) : <<kinds[k], i>> \in Messages
    BY <1>2 DEF Messages, Kinds
  <2>2. new \in [1 .. Len(kinds) -> Messages]
    BY <1>2, <2>1
  <2>3. new \in Seq(Messages)
    BY <1>2, <2>2, SeqDef
  <2>4. IsInjective(new)
    BY DEF IsInjective
  <2>5. \A m \in Range(new) : m[2] = i /\ m[1] \in Range(kinds) /\ m = <<m[1], i>>
    BY DEF Range
  <2> QED BY <2>3, <2>4, <2>5
<1>4. Range(replies[c]) \cap Range(new) = {}
  <2> SUFFICES ASSUME NEW m \in Range(new), m \in Range(replies[c]) PROVE FALSE
    OBVIOUS
  <2>1. m[1] \in Range(kinds) /\ <<m[1], i>> \in Range(replies[c])
    BY <1>3
  <2> QED BY <2>1 DEF Told
<1> HIDE DEF new
<1> DEFINE sent == replies[c] \o new
<1>5. /\ sent \in Seq(Messages) /\ IsInjective(sent)
      /\ Range(sent) = Range(replies[c]) \cup Range(new)
  BY <1>1, <1>3, <1>4, Join
<1>6. replies' = [replies EXCEPT ![c] = IF is_open(c) THEN sent ELSE replies[c]]
  BY DEF Reply, new
<1> HIDE DEF sent
<1>7. /\ replies' \in [Clients -> Seq(Messages)]
      /\ replies'[c] = sent \/ replies'[c] = replies[c]
      /\ \A d \in Clients \ {c} : replies'[d] = replies[d]
  BY <1>1, <1>5, <1>6
<1>8. \A d \in Clients : IsInjective(replies'[d])
  BY <1>1, <1>5, <1>7
<1>9. \A d \in Clients : \A m \in Range(replies'[d]) :
          m \in Range(replies[d]) \/ (d = c /\ m[2] = i /\ m[1] \in Range(kinds) /\ m = <<m[1], i>>)
  <2> SUFFICES ASSUME NEW d \in Clients, NEW m \in Range(replies'[d]), m \notin Range(replies[d])
               PROVE  d = c /\ m[2] = i /\ m[1] \in Range(kinds) /\ m = <<m[1], i>>
    OBVIOUS
  <2>1. d = c /\ m \in Range(new)
    BY <1>5, <1>7
  <2> QED BY <1>3, <2>1
<1>10. ASSUME NEW j \in Images, NEW kind, Told(kind, j)'
       PROVE  Told(kind, j) \/ (j = i /\ kind \in Range(kinds))
  <2>1. <<kind, j>> \in Range(replies'[Owner[j]]) /\ Owner[j] \in Clients
    BY <1>10 DEF Told
  <2> QED BY <1>9, <2>1 DEF Told
<1> QED BY <1>7, <1>8, <1>9, <1>10

(* One kind of message.                                                    *)
LEMMA OneKind ==
    ASSUME NEW kind \in Kinds
    PROVE  <<kind>> \in Seq(Kinds) /\ IsInjective(<<kind>>) /\ Range(<<kind>>) = {kind}
BY DEF IsInjective, Range

(* A failure and the response.                                             *)
LEMMA TwoKinds ==
    /\ <<"did_fail", "response">> \in Seq(Kinds) /\ IsInjective(<<"did_fail", "response">>)
    /\ Range(<<"did_fail", "response">>) = {"did_fail", "response"}
BY DEF IsInjective, Range, Kinds

(* Replied, for one kind of message.                                       *)
LEMMA RepliedOne ==
    ASSUME IInv, NEW i \in Images, NEW kind \in Kinds, ~ Told(kind, i), Reply(i, <<kind>>)
    PROVE  /\ replies' \in [Clients -> Seq(Messages)]
           /\ \A c \in Clients : IsInjective(replies'[c])
           /\ \A c \in Clients : \A m \in Range(replies'[c]) :
                  m \in Range(replies[c]) \/ (c = Owner[i] /\ m[2] = i /\ m[1] = kind)
           /\ \A j \in Images : \A k : Told(k, j)' => Told(k, j) \/ (j = i /\ k = kind)
<1> DEFINE kinds == <<kind>>
<1>1. /\ kinds \in Seq(Kinds) /\ IsInjective(kinds) /\ Reply(i, kinds)
      /\ Range(kinds) = {kind}
  BY OneKind
<1>2. /\ \A k \in Range(kinds) : ~ Told(k, i)
      /\ \A k : k \in Range(kinds) <=> k = kind
  BY <1>1
<1> HIDE DEF kinds
<1>3. /\ replies' \in [Clients -> Seq(Messages)]
      /\ \A c \in Clients : IsInjective(replies'[c])
      /\ \A c \in Clients : \A m \in Range(replies'[c]) :
             \/ m \in Range(replies[c])
             \/ c = Owner[i] /\ m[2] = i /\ m[1] \in Range(kinds)
      /\ \A j \in Images : \A k : Told(k, j)' =>
             Told(k, j) \/ (j = i /\ k \in Range(kinds))
  BY <1>1, <1>2, Replied
<1> QED BY <1>2, <1>3

(* The main loop runs the callback of a job.                               *)
LEMMA CallbackRuns ==
    ASSUME IInv, on_complete_or_error
    PROVE  IInv'
<1> USE ImageDecoderAssumption
<1> DEFINE i == Head(deferred)[1]
           kind == IF Head(deferred)[2] THEN "did_decode" ELSE "did_fail"
<1>1. /\ server = "running" /\ deferred # <<>> /\ deferred' = Tail(deferred)
      /\ Reply(i, <<kind>>) /\ m_pending_jobs' = m_pending_jobs \ {i}
      /\ UNCHANGED <<backgroundVars, server, s_connections, m_canceled, dying, decoded,
                     requests, clientVars>>
  BY DEF on_complete_or_error, InLoop
<1>2. /\ deferred' \in Seq(Images \X BOOLEAN) /\ Distinct(deferred') /\ IsInjective(deferred')
      /\ i \in Images /\ i \in Jobs(deferred) /\ Jobs(deferred') = Jobs(deferred) \ {i}
      /\ Range(deferred') \subseteq Range(deferred)
      /\ <<i, Head(deferred)[2]>> \in Range(deferred) /\ Head(deferred)[2] \in BOOLEAN
  BY <1>1, TakeJob DEF IInv, TypeOK, ThreadsOK
<1>3. /\ kind \in {"did_decode", "did_fail"} /\ kind \in Kinds
      /\ kind = "did_decode" => <<i, TRUE>> \in Range(deferred)
  BY <1>2 DEF Kinds
<1> HIDE DEF i, kind
<1>4. PlaceOK(i) /\ OutcomeOK(i) /\ Busy(i)
  BY <1>2 DEF IInv, Busy
<1>5. ~ Told(kind, i)
  BY <1>3, <1>4 DEF PlaceOK
<1>7. /\ replies' \in [Clients -> Seq(Messages)]
      /\ \A c \in Clients : IsInjective(replies'[c])
      /\ \A c \in Clients : \A m \in Range(replies'[c]) :
             m \in Range(replies[c]) \/ (c = Owner[i] /\ m[2] = i /\ m[1] = kind)
      /\ \A j \in Images : \A k : Told(k, j)' => Told(k, j) \/ (j = i /\ k = kind)
  BY <1>1, <1>2, <1>3, <1>5, RepliedOne
<1>8. TypeOK'
  BY <1>1, <1>2, <1>7 DEF IInv, TypeOK, backgroundVars, clientVars
<1>9. ThreadsOK'
  BY <1>1, <1>2 DEF IInv, ThreadsOK, backgroundVars
<1>10. ASSUME NEW j \in Images PROVE PlaceOK(j)' /\ OutcomeOK(j)' /\ JobOK(j)'
  <2>1. PlaceOK(j) /\ OutcomeOK(j) /\ JobOK(j)
    BY DEF IInv
  <2>2. /\ Asked(j)' <=> Asked(j)
        /\ \A k : Told(k, j)' => Told(k, j) \/ (j = i /\ k = kind)
        /\ UNCHANGED <<promise, server, decoded, s_connections, dying, s_all_actions, actions>>
    BY <1>1, <1>7 DEF Asked, backgroundVars, clientVars
  <2>3. /\ Busy(j) <=> (j \in Range(s_all_actions) \cup Range(actions) \/ j \in Jobs(deferred))
        /\ Busy(j)' <=> (j \in Range(s_all_actions) \cup Range(actions)
                             \/ (j \in Jobs(deferred) /\ j # i))
        /\ j = i => ~ Busy(j)'
        /\ j # i => (Busy(j)' <=> Busy(j))
    BY <1>2, <1>4, <2>2 DEF Busy, PlaceOK
  <2>4. PlaceOK(j)'
    BY <1>2, <1>3, <1>4, <2>1, <2>2, <2>3 DEF PlaceOK
  <2>5. OutcomeOK(j)'
    BY <1>2, <1>3, <1>4, <2>1, <2>2 DEF OutcomeOK
  <2>6. JobOK(j)'
    BY <1>1, <2>1, <2>2, <2>3 DEF JobOK, is_open
  <2> QED BY <2>4, <2>5, <2>6
<1>11. \A c \in Clients : ClientOK(c)'
  <2>1. \A c \in Clients : \A m \in Range(replies'[c]) :
            m \in Range(replies[c]) \/ (Owner[m[2]] = c /\ m[1] # "response")
    BY <1>3, <1>7
  <2> QED BY <1>1, <2>1, ServerSide
<1> QED BY <1>8, <1>9, <1>10, <1>11 DEF IInv

(* The thread decodes an image.                                            *)
LEMMA ThreadDecodes ==
    ASSUME IInv, NEW ok \in BOOLEAN, decode(ok)
    PROVE  IInv'
<1> USE ImageDecoderAssumption
<1> DEFINE i == Head(actions)
<1>1. /\ server = "running" /\ s_background_thread = "action"
      /\ decoded' = [decoded EXCEPT ![i] = IF ok THEN "image" ELSE "error"]
      /\ \/ /\ s_background_thread' = "on_error"
            /\ UNCHANGED <<actions, deferred>>
         \/ /\ deferred' = Append(deferred, <<i, ok>>)
            /\ s_background_thread' = "run"
            /\ actions' = Tail(actions)
      /\ UNCHANGED <<should_run, s_all_actions, woken, quitting>>
      /\ UNCHANGED <<server, s_connections, m_pending_jobs, m_canceled, dying, clientVars, wires>>
  BY DEF decode, ActionReturns, Running
<1>2. /\ s_all_actions \in Seq(Images) /\ actions \in Seq(Images) /\ actions # <<>>
      /\ IsInjective(s_all_actions) /\ IsInjective(actions)
      /\ IsInjective(s_all_actions \o actions)
      /\ Range(s_all_actions) \cap Range(actions) = {}
      /\ deferred \in Seq(Images \X BOOLEAN) /\ Distinct(deferred)
      /\ decoded \in [Images -> {"no", "image", "error"}]
  <2>1. /\ s_all_actions \in Seq(Images) /\ actions \in Seq(Images) /\ actions # <<>>
        /\ IsInjective(s_all_actions \o actions)
        /\ deferred \in Seq(Images \X BOOLEAN) /\ Distinct(deferred)
        /\ decoded \in [Images -> {"no", "image", "error"}]
    BY <1>1 DEF IInv, TypeOK, ThreadsOK
  <2> QED BY <2>1, Join
<1>3. /\ i \in Images /\ i \in Range(actions) /\ Tail(actions) \in Seq(Images)
      /\ IsInjective(Tail(actions)) /\ i \notin Range(Tail(actions))
      /\ Range(actions) = Range(Tail(actions)) \cup {i}
  BY <1>2, Take
<1> HIDE DEF i
<1>4. PlaceOK(i) /\ OutcomeOK(i) /\ Busy(i) /\ i \notin Jobs(deferred)
  BY <1>3 DEF IInv, Busy, PlaceOK
<1>5. /\ decoded' \in [Images -> {"no", "image", "error"}]
      /\ decoded'[i] # "no" /\ (ok => decoded'[i] = "image")
      /\ \A j \in Images \ {i} : decoded'[j] = decoded[j]
  BY <1>1, <1>2, <1>3
<1> DEFINE work == Range(s_all_actions) \cup Range(actions)
<1>6. /\ actions' \in Seq(Images) /\ IsInjective(s_all_actions' \o actions')
      /\ deferred' \in Seq(Images \X BOOLEAN) /\ Distinct(deferred') /\ IsInjective(deferred')
      /\ s_background_thread' = "on_error" => actions' # <<>> /\ Head(actions') = i
      /\ \A p : p \in Range(deferred') => p \in Range(deferred) \/ p = <<i, ok>>
      /\ \A j \in Images : \/ (j \in work' <=> j \in work) /\ (j \in Jobs(deferred') <=> j \in Jobs(deferred))
                           \/ j = i /\ j \notin work' /\ j \in Jobs(deferred')
  <2>1. CASE UNCHANGED <<actions, deferred>>
    BY <1>1, <1>2, <2>1 DEF IInv, TypeOK, i
  <2>2. CASE /\ deferred' = Append(deferred, <<i, ok>>) /\ actions' = Tail(actions)
             /\ s_background_thread' = "run"
    <3>1. /\ deferred' \in Seq(Images \X BOOLEAN) /\ Distinct(deferred') /\ IsInjective(deferred')
          /\ Jobs(deferred') = Jobs(deferred) \cup {i}
          /\ \A p : p \in Range(deferred') => p \in Range(deferred) \/ p = <<i, ok>>
      <4> DEFINE e == <<i, ok>>
      <4>1. e \in Images \X BOOLEAN /\ e[1] = i /\ deferred' = Append(deferred, e)
        BY <1>3, <2>2
      <4> HIDE DEF e
      <4>2. /\ deferred' \in Seq(Images \X BOOLEAN) /\ Distinct(deferred') /\ IsInjective(deferred')
            /\ Jobs(deferred') = Jobs(deferred) \cup {e[1]}
            /\ \A p : p \in Range(deferred') => p \in Range(deferred) \/ p = e
        BY <1>2, <1>4, <4>1, PutJob
      <4> QED BY <4>1, <4>2 DEF e
    <3>2. /\ s_all_actions' = s_all_actions /\ Range(s_all_actions) \cap Range(Tail(actions)) = {}
      BY <1>1, <1>2, <1>3
    <3>a. /\ s_all_actions' \in Seq(Images) /\ actions' \in Seq(Images)
          /\ IsInjective(s_all_actions') /\ IsInjective(actions')
          /\ Range(s_all_actions') \cap Range(actions') = {}
      BY <1>2, <1>3, <2>2, <3>2
    <3>3. IsInjective(s_all_actions' \o actions')
      BY <3>a, Join
    <3>4. Range(actions') = Range(actions) \ {i} /\ i \notin Range(s_all_actions')
      BY <1>2, <1>3, <2>2, <3>2
    <3> QED BY <1>3, <2>2, <3>1, <3>2, <3>3, <3>4
  <2> QED BY <1>1, <2>1, <2>2
<1>7. TypeOK'
  BY <1>1, <1>5, <1>6 DEF IInv, TypeOK, ThreadStates, clientVars, wires
<1>8. ThreadsOK'
  BY <1>1, <1>5, <1>6 DEF IInv, ThreadsOK
<1>9. ASSUME NEW j \in Images PROVE PlaceOK(j)' /\ OutcomeOK(j)' /\ JobOK(j)'
  <2>1. PlaceOK(j) /\ OutcomeOK(j) /\ JobOK(j)
    BY DEF IInv
  <2>2. /\ Asked(j)' <=> Asked(j)
        /\ \A k : Told(k, j)' <=> Told(k, j)
        /\ UNCHANGED <<promise, server, s_connections, dying, m_pending_jobs>>
    BY <1>1 DEF Asked, Told, clientVars, wires
  <2>3. /\ Busy(j) <=> (j \in work \/ j \in Jobs(deferred))
        /\ Busy(j)' <=> (j \in work' \/ j \in Jobs(deferred'))
        /\ j \in work <=> (j \in Range(s_all_actions) \cup Range(actions))
        /\ j \in work' <=> (j \in Range(s_all_actions)' \cup Range(actions)')
    BY DEF Busy
  <2> HIDE DEF work
  <2>4. Busy(j)' <=> Busy(j)
    BY <1>4, <1>6, <2>3
  <2>5. PlaceOK(j)'
    BY <1>6, <2>1, <2>2, <2>3, <2>4 DEF PlaceOK
  <2>6. <<j, TRUE>> \in Range(deferred') => <<j, TRUE>> \in Range(deferred) \/ (j = i /\ ok)
    BY <1>6
  <2>7. OutcomeOK(j)'
    <3>1. CASE j = i
      <4>1. /\ ~ Told("did_decode", j) /\ ~ Told("did_fail", j) /\ promise[j] = "pending"
            /\ <<j, TRUE>> \notin Range(deferred)
        <5>1. ~ Told("did_decode", j) /\ ~ Told("did_fail", j) /\ promise[j] = "pending"
          BY <1>4, <3>1 DEF PlaceOK
        <5>2. ASSUME <<i, TRUE>> \in Range(deferred) PROVE i \in Jobs(deferred)
          <6>1. PICK k \in DOMAIN deferred : deferred[k] = <<i, TRUE>>
            BY <5>2 DEF Range
          <6>2. deferred[k][1] = i
            BY <6>1
          <6> QED BY <6>2 DEF Jobs
        <5> QED BY <1>4, <3>1, <5>1, <5>2
      <4> QED BY <4>1, <1>5, <2>2, <2>6, <3>1 DEF OutcomeOK
    <3>2. CASE j # i
      BY <1>5, <1>6, <2>1, <2>2, <2>6, <3>2 DEF OutcomeOK
    <3> QED BY <3>1, <3>2
  <2>8. JobOK(j)'
    BY <2>1, <2>2, <2>4 DEF JobOK, is_open
  <2> QED BY <2>5, <2>7, <2>8
<1>10. \A c \in Clients : ClientOK(c)'
  BY <1>1, ServerSide DEF wires
<1> QED BY <1>7, <1>8, <1>9, <1>10 DEF IInv

(* The error callback of a cancelled job, on the background thread.        *)
LEMMA ErrorCallbackRuns ==
    ASSUME IInv, on_error_here
    PROVE  IInv'
<1> USE ImageDecoderAssumption
<1> DEFINE i == Head(actions)
<1>1. /\ server = "running" /\ s_background_thread = "on_error" /\ s_background_thread' = "run"
      /\ Reply(i, <<"did_fail">>) /\ m_pending_jobs' = m_pending_jobs \ {i}
      /\ actions' = Tail(actions)
      /\ UNCHANGED <<should_run, s_all_actions, woken, quitting>>
      /\ UNCHANGED <<server, s_connections, m_canceled, deferred, dying, decoded, requests,
                     clientVars>>
  BY DEF on_error_here, ActionReturns, Running
<1>2. /\ s_all_actions \in Seq(Images) /\ actions \in Seq(Images) /\ actions # <<>>
      /\ IsInjective(s_all_actions) /\ IsInjective(actions)
      /\ Range(s_all_actions) \cap Range(actions) = {}
      /\ decoded[i] # "no"
  <2>1. /\ s_all_actions \in Seq(Images) /\ actions \in Seq(Images) /\ actions # <<>>
        /\ IsInjective(s_all_actions \o actions) /\ decoded[i] # "no"
    BY <1>1 DEF IInv, TypeOK, ThreadsOK
  <2> QED BY <2>1, Join
<1>3. /\ i \in Images /\ i \in Range(actions) /\ actions' \in Seq(Images)
      /\ IsInjective(actions') /\ Range(actions') = Range(actions) \ {i}
  <2>1. /\ i \in Images /\ i \in Range(actions) /\ Tail(actions) \in Seq(Images)
        /\ IsInjective(Tail(actions)) /\ i \notin Range(Tail(actions))
        /\ Range(actions) = Range(Tail(actions)) \cup {i}
    BY <1>2, Take
  <2> QED BY <1>1, <2>1
<1> HIDE DEF i
<1>4. PlaceOK(i) /\ Busy(i) /\ i \notin Jobs(deferred) /\ i \notin Range(s_all_actions)
  BY <1>2, <1>3 DEF IInv, Busy, PlaceOK
<1>5. ~ Told("did_fail", i) /\ "did_fail" \in Kinds
  BY <1>4 DEF PlaceOK, Kinds
<1>6. /\ replies' \in [Clients -> Seq(Messages)]
      /\ \A c \in Clients : IsInjective(replies'[c])
      /\ \A c \in Clients : \A m \in Range(replies'[c]) :
             m \in Range(replies[c]) \/ (c = Owner[i] /\ m[2] = i /\ m[1] = "did_fail")
      /\ \A j \in Images : \A k : Told(k, j)' => Told(k, j) \/ (j = i /\ k = "did_fail")
  BY <1>1, <1>3, <1>5, RepliedOne
<1>7. IsInjective(s_all_actions' \o actions')
  <2>1. /\ s_all_actions' \in Seq(Images) /\ IsInjective(s_all_actions')
        /\ Range(s_all_actions') \cap Range(actions') = {}
    BY <1>1, <1>2, <1>3
  <2> QED BY <1>3, <2>1, Join
<1>8. TypeOK'
  BY <1>1, <1>3, <1>6, <1>7 DEF IInv, TypeOK, ThreadStates, clientVars
<1>9. ThreadsOK'
  BY <1>1 DEF IInv, ThreadsOK
<1>10. ASSUME NEW j \in Images PROVE PlaceOK(j)' /\ OutcomeOK(j)' /\ JobOK(j)'
  <2>1. PlaceOK(j) /\ OutcomeOK(j) /\ JobOK(j)
    BY DEF IInv
  <2>2. /\ Asked(j)' <=> Asked(j)
        /\ \A k : Told(k, j)' => Told(k, j) \/ (j = i /\ k = "did_fail")
        /\ UNCHANGED <<promise, server, decoded, s_connections, dying, s_all_actions, deferred>>
    BY <1>1, <1>6 DEF Asked, clientVars
  <2>3. /\ Busy(j)' <=> (Busy(j) /\ j # i)
        /\ j \in Range(actions') => j \in Range(actions)
    BY <1>3, <1>4, <2>2 DEF Busy
  <2>4. PlaceOK(j)'
    BY <1>4, <2>1, <2>2, <2>3 DEF PlaceOK
  <2>5. OutcomeOK(j)'
    BY <1>2, <2>1, <2>2 DEF OutcomeOK, i
  <2>6. JobOK(j)'
    BY <1>1, <2>1, <2>2, <2>3 DEF JobOK, is_open
  <2> QED BY <2>4, <2>5, <2>6
<1>11. \A c \in Clients : ClientOK(c)'
  <2>1. \A c \in Clients : \A m \in Range(replies'[c]) :
            m \in Range(replies[c]) \/ (Owner[m[2]] = c /\ m[1] # "response")
    BY <1>6
  <2> QED BY <1>1, <2>1, ServerSide
<1> QED BY <1>8, <1>9, <1>10, <1>11 DEF IInv

(* A peer is gone: its jobs are cancelled.                                 *)
LEMMA ConnectionDies ==
    ASSUME IInv, NEW c \in Clients, die(c)
    PROVE  IInv'
<1> USE ImageDecoderAssumption
<1>1. /\ server = "running" /\ c \in s_connections
      /\ m_canceled' = m_canceled \cup (m_pending_jobs \cap Of(c)) /\ dying' = c
      /\ dying = None
      /\ UNCHANGED <<backgroundVars, server, s_connections, m_pending_jobs, deferred, decoded,
                     wires, clientVars>>
  BY DEF die, InLoop
<1>2. TypeOK'
  BY <1>1 DEF IInv, TypeOK, backgroundVars, wires, clientVars
<1>3. ThreadsOK'
  BY <1>1 DEF IInv, ThreadsOK, backgroundVars
<1>4. ASSUME NEW j \in Images PROVE PlaceOK(j)' /\ OutcomeOK(j)' /\ JobOK(j)'
  <2>1. PlaceOK(j) /\ OutcomeOK(j) /\ JobOK(j)
    BY DEF IInv
  <2>2. /\ Asked(j)' <=> Asked(j)
        /\ Busy(j)' <=> Busy(j)
        /\ \A kind : Told(kind, j)' <=> Told(kind, j)
        /\ UNCHANGED <<promise, s_all_actions, actions>>
    BY <1>1 DEF Busy, Told, Asked, backgroundVars, wires, clientVars
  <2>3. PlaceOK(j)'
    BY <1>1, <2>1, <2>2 DEF PlaceOK
  <2>4. OutcomeOK(j)'
    BY <1>1, <2>1, <2>2 DEF OutcomeOK
  <2>5. is_open(Owner[j])' => is_open(Owner[j])
    BY <1>1 DEF is_open
  <2>6. JobOK(j)'
    BY <1>1, <2>1, <2>2, <2>5 DEF JobOK
  <2> QED BY <2>3, <2>4, <2>6
<1>5. \A d \in Clients : ClientOK(d)'
  BY <1>1, ServerSide DEF wires
<1> QED BY <1>2, <1>3, <1>4, <1>5 DEF IInv

(* Its connection and its jobs are dropped; the last one ends the process, *)
(* or starts to.                                                           *)
LEMMA ConnectionCleared ==
    ASSUME IInv, die_clears
    PROVE  IInv'
<1> USE ImageDecoderAssumption
<1>1. CASE Gone("exited")
  BY <1>1, ProcessGone
<1>2. CASE /\ m_pending_jobs' = m_pending_jobs \ Of(dying)
           /\ s_connections' = s_connections \ {dying}
           /\ dying' = None
           /\ requests' = [requests EXCEPT ![dying] = <<>>]
           /\ IF s_connections = {dying} THEN StoreShouldRun ELSE UNCHANGED backgroundVars
           /\ UNCHANGED <<server, m_canceled, deferred, decoded, replies, clientVars>>
  <2>1. server = "running" /\ dying # None /\ dying \in Clients /\ dying \in s_connections
    BY DEF die_clears, IInv, TypeOK, ThreadsOK
  <2>2. /\ UNCHANGED <<s_background_thread, s_all_actions, actions, woken>>
        /\ UNCHANGED <<should_run, quitting>> \/ (should_run' = FALSE /\ quitting' = "stored" /\ s_connections' = {})
    BY <1>2 DEF StoreShouldRun, backgroundVars
  <2>3. /\ requests' \in [Clients -> Seq(Images)]
        /\ \A d \in Clients : requests'[d] = IF d = dying THEN <<>> ELSE requests[d]
    <3>1. <<>> \in Seq(Images) /\ requests \in [Clients -> Seq(Images)]
      BY EmptySeq DEF IInv, TypeOK
    <3> QED BY <1>2, <2>1, <3>1
  <2>4. TypeOK'
    <3>1. should_run' \in BOOLEAN /\ quitting' \in {"no", "stored", "broadcast"}
      BY <2>2 DEF IInv, TypeOK
    <3>2. m_pending_jobs' \subseteq Images /\ s_connections' \subseteq Clients
      BY <1>2 DEF IInv, TypeOK
    <3> QED BY <1>2, <2>2, <2>3, <3>1, <3>2 DEF IInv, TypeOK, clientVars
  <2>5. ThreadsOK'
    <3>1. quitting = "no" /\ should_run
      BY <2>1 DEF IInv, ThreadsOK
    <3>2. should_run' <=> quitting' = "no"
      BY <2>2, <3>1
    <3> QED BY <1>2, <2>1, <2>2, <3>1, <3>2 DEF IInv, ThreadsOK
  <2>6. ASSUME NEW j \in Images PROVE PlaceOK(j)' /\ OutcomeOK(j)' /\ JobOK(j)'
    <3>1. PlaceOK(j) /\ OutcomeOK(j) /\ JobOK(j) /\ Owner[j] \in Clients
      BY DEF IInv
    <3>2. /\ Asked(j)' => Asked(j)
          /\ Busy(j)' <=> Busy(j)
          /\ \A kind : Told(kind, j)' <=> Told(kind, j)
          /\ UNCHANGED <<promise, s_all_actions, actions>>
      BY <1>2, <2>2, <2>3, <3>1 DEF Busy, Told, Asked, clientVars, Range
    <3>3. PlaceOK(j)'
      BY <1>2, <3>1, <3>2 DEF PlaceOK
    <3>4. OutcomeOK(j)'
      BY <1>2, <3>1, <3>2 DEF OutcomeOK
    <3>5. JobOK(j)'
      BY <1>2, <2>1, <3>1, <3>2 DEF JobOK, is_open, Of
    <3> QED BY <3>3, <3>4, <3>5
  <2>7. \A d \in Clients : ClientOK(d)'
    BY <1>2, <2>3, ServerSide
  <2> QED BY <2>4, <2>5, <2>6, <2>7 DEF IInv
<1> QED BY <1>1, <1>2 DEF die_clears

(* quit_background_thread() broadcasts.                                    *)
LEMMA QuitBroadcast ==
    ASSUME IInv, quit_broadcasts
    PROVE  IInv'
<1> USE ImageDecoderAssumption
<1>1. /\ quitting = "stored" /\ quitting' = "broadcast"
      /\ woken' = (s_background_thread = "waiting" \/ woken)
      /\ UNCHANGED <<s_background_thread, should_run, s_all_actions, actions>>
      /\ UNCHANGED <<serverVars, clientVars, wires>>
  BY DEF quit_broadcasts, BroadcastQuit, broadcast
<1>2. TypeOK'
  BY <1>1 DEF IInv, TypeOK, serverVars, clientVars, wires
<1>3. ThreadsOK'
  BY <1>1 DEF IInv, ThreadsOK, serverVars
<1>4. ASSUME NEW j \in Images PROVE PlaceOK(j)' /\ OutcomeOK(j)' /\ JobOK(j)'
  <2>1. PlaceOK(j) /\ OutcomeOK(j) /\ JobOK(j)
    BY DEF IInv
  <2>2. UNCHANGED <<s_all_actions, actions, serverVars, clientVars, wires>>
    BY <1>1
  <2> QED BY <2>1, <2>2 DEF PlaceOK, OutcomeOK, JobOK, is_open, Busy, Told, Asked, serverVars,
                            clientVars, wires
<1>5. \A d \in Clients : ClientOK(d)'
  BY <1>1, ServerSide DEF serverVars, wires
<1> QED BY <1>2, <1>3, <1>4, <1>5 DEF IInv

(* The process handles a call: a job is enqueued, or the failure is told   *)
(* before the response.                                                    *)
LEMMA CallHandled ==
    ASSUME IInv, NEW c \in Clients, server_decode_image(c)
    PROVE  IInv'
<1> USE ImageDecoderAssumption
<1> DEFINE i == Head(requests[c])
<1>1. /\ server = "running" /\ dying = None /\ quitting = "no" /\ c \in s_connections
      /\ requests[c] # <<>>
      /\ requests' = [requests EXCEPT ![c] = Tail(requests[c])]
      /\ UNCHANGED <<server, s_connections, m_canceled, deferred, dying, decoded, clientVars>>
      /\ \/ /\ i \in Invalid /\ Reply(i, <<"did_fail", "response">>)
            /\ UNCHANGED <<backgroundVars, m_pending_jobs>>
         \/ /\ enqueue_work(i) /\ m_pending_jobs' = m_pending_jobs \cup {i}
            /\ Reply(i, <<"response">>)
  BY DEF server_decode_image, InLoop
<1>2. /\ i \in Images /\ i \in Range(requests[c])
      /\ Tail(requests[c]) = <<>>
  <2>1. requests[c] \in Seq(Images) /\ Len(requests[c]) <= 1 /\ Len(requests[c]) \in Nat
    BY OfClient, LenProperties DEF ClientOK
  <2>2. /\ i \in Images /\ i \in Range(requests[c])
        /\ Tail(requests[c]) \in Seq(Images) /\ Len(Tail(requests[c])) = Len(requests[c]) - 1
    BY <1>1, <2>1, Take
  <2>3. Len(Tail(requests[c])) \in Nat
    BY <2>2, LenProperties
  <2>a. \A m, n \in Nat : m <= 1 /\ n = m - 1 => n = 0
    OBVIOUS
  <2>4. Len(Tail(requests[c])) = 0
    BY ONLY <2>1, <2>2, <2>3, <2>a
  <2> QED BY <2>2, <2>4, EmptySeq
<1> HIDE DEF i
<1>3. /\ requests' \in [Clients -> Seq(Images)] /\ requests'[c] = <<>>
      /\ \A d \in Clients \ {c} : requests'[d] = requests[d]
      /\ <<>> \in Seq(Images) /\ Range(<<>>) = {}
  <2>1. <<>> \in Seq(Images) /\ Range(<<>>) = {} /\ requests \in [Clients -> Seq(Images)]
    BY EmptySeq DEF IInv, TypeOK, Range
  <2> QED BY <1>1, <1>2, <2>1
<1>4. /\ Owner[i] = c /\ client[c] # "open" /\ (client[c] = "blocked" => waiting[c] = i)
      /\ Asked(i) /\ PlaceOK(i) /\ ~ Busy(i) /\ promise[i] = "pending"
      /\ \A kind \in Kinds : ~ Told(kind, i)
  <2>1. Owner[i] = c /\ client[c] # "open" /\ (client[c] = "blocked" => waiting[c] = i)
    BY ZenonT(30), <1>1, <1>2, OfClient DEF ClientOK
  <2>2. Asked(i) /\ PlaceOK(i)
    BY <1>2, <2>1 DEF Asked, IInv
  <2> QED BY <1>1, <2>1, <2>2 DEF PlaceOK, Kinds
<1>5. /\ replies' \in [Clients -> Seq(Messages)]
      /\ \A d \in Clients : IsInjective(replies'[d])
      /\ \A d \in Clients : \A m \in Range(replies'[d]) :
             m \in Range(replies[d]) \/ (d = c /\ m[2] = i)
      /\ \A j \in Images : \A kind : Told(kind, j)' =>
             \/ Told(kind, j)
             \/ j = i /\ (kind = "response" \/ (kind = "did_fail" /\ i \in Invalid))
  <2>1. CASE i \in Invalid /\ Reply(i, <<"did_fail", "response">>)
    <3> DEFINE kinds == <<"did_fail", "response">>
    <3>1. /\ kinds \in Seq(Kinds) /\ IsInjective(kinds) /\ Reply(i, kinds)
          /\ Range(kinds) = {"did_fail", "response"}
      BY <2>1, TwoKinds
    <3> HIDE DEF kinds
    <3>2. \A kind \in Range(kinds) : ~ Told(kind, i)
      BY <3>1, <1>4 DEF Kinds
    <3>3. /\ replies' \in [Clients -> Seq(Messages)]
          /\ \A d \in Clients : IsInjective(replies'[d])
          /\ \A d \in Clients : \A m \in Range(replies'[d]) :
                 m \in Range(replies[d]) \/ (d = Owner[i] /\ m[2] = i /\ m[1] \in Range(kinds))
          /\ \A j \in Images : \A kind : Told(kind, j)' =>
                 Told(kind, j) \/ (j = i /\ kind \in Range(kinds))
      BY <1>2, <3>1, <3>2, Replied
    <3> QED BY <1>4, <2>1, <3>1, <3>3
  <2>2. CASE Reply(i, <<"response">>)
    <3>1. "response" \in Kinds /\ ~ Told("response", i)
      BY <1>4 DEF Kinds
    <3>2. /\ replies' \in [Clients -> Seq(Messages)]
          /\ \A d \in Clients : IsInjective(replies'[d])
          /\ \A d \in Clients : \A m \in Range(replies'[d]) :
                 m \in Range(replies[d]) \/ (d = Owner[i] /\ m[2] = i /\ m[1] = "response")
          /\ \A j \in Images : \A k : Told(k, j)' => Told(k, j) \/ (j = i /\ k = "response")
      BY <1>2, <2>2, <3>1, RepliedOne
    <3> QED BY <1>4, <3>2
  <2> QED BY <1>1, <2>1, <2>2
<1>6. /\ s_all_actions' \in Seq(Images) /\ actions' = actions
      /\ IsInjective(s_all_actions' \o actions')
      /\ UNCHANGED <<should_run, quitting>> /\ woken' \in BOOLEAN
      /\ s_background_thread' \in ThreadStates
      /\ s_background_thread' \in {"action", "on_error"} => s_background_thread' = s_background_thread
      /\ m_pending_jobs' \subseteq Images
      /\ \/ Range(s_all_actions') = Range(s_all_actions) /\ m_pending_jobs' = m_pending_jobs
         \/ /\ Range(s_all_actions') = Range(s_all_actions) \cup {i}
            /\ m_pending_jobs' = m_pending_jobs \cup {i}
  <2>1. /\ s_all_actions \in Seq(Images) /\ actions \in Seq(Images)
        /\ IsInjective(s_all_actions \o actions) /\ woken \in BOOLEAN
        /\ s_background_thread \in ThreadStates /\ m_pending_jobs \subseteq Images
    BY DEF IInv, TypeOK
  <2>2. CASE UNCHANGED <<backgroundVars, m_pending_jobs>>
    BY <2>1, <2>2 DEF backgroundVars
  <2>3. CASE enqueue_work(i) /\ m_pending_jobs' = m_pending_jobs \cup {i}
    <3>1. /\ s_all_actions' = Append(s_all_actions, i)
          /\ s_background_thread' = IF s_background_thread = "none" THEN "run" ELSE s_background_thread
          /\ woken' = (s_background_thread = "waiting" \/ woken)
          /\ UNCHANGED <<should_run, actions, quitting>>
      BY <2>3 DEF enqueue_work, broadcast
    <3>2. /\ IsInjective(s_all_actions) /\ IsInjective(actions)
          /\ Range(s_all_actions) \cap Range(actions) = {}
      BY <2>1, Join
    <3>3. i \notin Range(s_all_actions) /\ i \notin Range(actions)
      BY <1>4 DEF Busy
    <3>4. /\ s_all_actions' \in Seq(Images) /\ IsInjective(s_all_actions')
          /\ Range(s_all_actions') = Range(s_all_actions) \cup {i}
      BY <1>2, <2>1, <3>1, <3>2, <3>3, Put
    <3>5. Range(s_all_actions') \cap Range(actions) = {}
      BY <3>2, <3>3, <3>4
    <3>6. IsInjective(s_all_actions' \o actions)
      BY <2>1, <3>2, <3>4, <3>5, Join
    <3>7. woken' \in BOOLEAN
      BY <3>1
    <3>8. /\ s_background_thread' \in ThreadStates
          /\ s_background_thread' \in {"action", "on_error"} => s_background_thread' = s_background_thread
      BY <2>1, <3>1 DEF ThreadStates
    <3> QED BY <1>2, <2>1, <2>3, <3>1, <3>4, <3>6, <3>7, <3>8
  <2> QED BY <1>1, <2>2, <2>3
<1>7. TypeOK'
  BY <1>1, <1>3, <1>5, <1>6 DEF IInv, TypeOK, clientVars
<1>8. ThreadsOK'
  BY <1>1, <1>6 DEF IInv, ThreadsOK
<1>9. ASSUME NEW j \in Images PROVE PlaceOK(j)' /\ OutcomeOK(j)' /\ JobOK(j)'
  <2>1. PlaceOK(j) /\ OutcomeOK(j) /\ JobOK(j) /\ Owner[j] \in Clients
    BY DEF IInv
  <2>2. /\ UNCHANGED <<promise, server, decoded, s_connections, dying, actions, deferred>>
        /\ \A kind : Told(kind, j)' =>
               \/ Told(kind, j)
               \/ j = i /\ (kind = "response" \/ (kind = "did_fail" /\ i \in Invalid))
    BY <1>1, <1>5, <1>6 DEF clientVars
  <2>3. Asked(j)' => Asked(j) /\ j # i
    BY <1>3, <1>4, <2>1 DEF Asked
  <2>4. CASE j # i
    <3>1. /\ Busy(j)' <=> Busy(j)
          /\ j \in Range(s_all_actions') <=> j \in Range(s_all_actions)
          /\ j \in m_pending_jobs' <=> j \in m_pending_jobs
      BY <1>6, <2>2, <2>4 DEF Busy
    <3>2. PlaceOK(j)'
      BY <2>1, <2>2, <2>3, <2>4, <3>1 DEF PlaceOK
    <3>3. OutcomeOK(j)'
      BY <2>1, <2>2, <2>4 DEF OutcomeOK
    <3>4. JobOK(j)'
      BY <2>1, <2>2, <3>1 DEF JobOK, is_open
    <3> QED BY <3>2, <3>3, <3>4
  <2>5. CASE j = i
    <3>1. /\ ~ Told("did_decode", j)' /\ (Told("did_fail", j)' => j \in Invalid)
          /\ ~ Asked(j)' /\ j \notin Jobs(deferred) /\ promise[j] = "pending"
          /\ j \notin Range(actions)
      BY <1>4, <2>2, <2>3, <2>5 DEF Busy, Kinds
    <3>2. /\ Busy(j)' <=> j \in Range(s_all_actions')
          /\ j \notin Range(s_all_actions) /\ j \notin m_pending_jobs
      <4>1. j \notin m_pending_jobs
        BY <1>1, <1>4, <2>1, <2>5 DEF JobOK
      <4> QED BY <1>4, <2>2, <2>5, <3>1, <4>1 DEF Busy
    <3>3. Busy(j)' <=> j \in m_pending_jobs'
      BY <1>6, <2>5, <3>2
    <3>4. Busy(j)' => ~ Told("did_fail", j)'
      <4>1. CASE Reply(i, <<"response">>)
        <5>1. "response" \in Kinds /\ ~ Told("response", i) /\ ~ Told("did_fail", j)
          BY <1>4, <2>5 DEF Kinds
        <5>2. \A k : Told(k, j)' => Told(k, j) \/ k = "response"
          BY <1>2, <4>1, <5>1, RepliedOne
        <5> QED BY <5>1, <5>2
      <4>2. CASE UNCHANGED <<backgroundVars, m_pending_jobs>>
        BY <3>2, <4>2 DEF backgroundVars
      <4> QED BY <1>1, <4>1, <4>2
    <3>5. PlaceOK(j)'
      BY <2>2, <3>1, <3>2, <3>4 DEF PlaceOK
    <3>6. OutcomeOK(j)'
      BY <2>1, <2>2, <3>1 DEF OutcomeOK
    <3>7. JobOK(j)'
      BY <1>1, <1>4, <2>2, <2>5, <3>3 DEF JobOK
    <3> QED BY <3>5, <3>6, <3>7
  <2> QED BY <2>4, <2>5
<1>10. \A d \in Clients : ClientOK(d)'
  <2>1. \A d \in Clients : requests'[d] = requests[d] \/ requests'[d] = <<>>
    BY <1>3
  <2>2. \A d \in Clients : \A m \in Range(replies'[d]) :
            \/ m \in Range(replies[d])
            \/ Owner[m[2]] = d /\ client[d] # "open" /\ (client[d] = "blocked" => waiting[d] = m[2])
    BY <1>4, <1>5
  <2> QED BY <1>1, <2>1, <2>2, ServerSide
<1> QED BY <1>7, <1>8, <1>9, <1>10 DEF IInv

-----------------------------------------------------------------------------
(* The invariant holds at the start.                                       *)
LEMMA Initially == Init => IInv
<1> SUFFICES ASSUME Init PROVE IInv
  OBVIOUS
<1> USE ImageDecoderAssumption
<1>1. /\ \A S : <<>> \in Seq(S)
      /\ Range(<<>>) = {} /\ Jobs(<<>>) = {} /\ IsInjective(<<>>) /\ Distinct(<<>>) /\ Len(<<>>) = 0
  BY EmptySeq DEF Range, Jobs, IsInjective, Distinct
<1>2. IsInjective(<<>> \o <<>>)
  BY <1>1, Join
<1>3. TypeOK
  <2>1. client \in [Clients -> {"none", "open", "blocked", "closed", "dead", "replaced", "gone"}]
    BY DEF Init
  <2> QED BY <1>1, <1>2, <2>1 DEF Init, BackgroundInit, TypeOK, ThreadStates
<1>4. ThreadsOK
  BY <1>1 DEF Init, BackgroundInit, ThreadsOK
<1>5. ASSUME NEW i \in Images PROVE PlaceOK(i) /\ OutcomeOK(i) /\ JobOK(i)
  <2>1. /\ ~ Asked(i) /\ ~ Busy(i) /\ promise[i] = "none" /\ m_pending_jobs = {}
        /\ \A kind : ~ Told(kind, i)
        /\ i \notin Jobs(deferred) /\ <<i, TRUE>> \notin Range(deferred)
    <3>1. Owner[i] \in Clients
      OBVIOUS
    <3> QED BY <1>1, <3>1 DEF Init, BackgroundInit, Asked, Busy, Told
  <2> QED BY <2>1 DEF PlaceOK, OutcomeOK, JobOK
<1>6. ASSUME NEW c \in Clients PROVE ClientOK(c)
  BY <1>1 DEF Init, ClientOK, Of
<1> QED BY <1>3, <1>4, <1>5, <1>6 DEF IInv

(* Every step preserves it.                                                *)
LEMMA Preserved == IInv /\ [Next]_vars => IInv'
<1> SUFFICES ASSUME IInv, [Next]_vars PROVE IInv'
  OBVIOUS
<1>1. CASE MainThread
  <2>1. CASE quit_joins
    BY <2>1, ProcessGone DEF quit_joins
  <2> QED BY <1>1, <2>1, CallHandled, ConnectionDies, CallbackRuns, ConnectionCleared, QuitBroadcast
          DEF MainThread
<1>2. CASE Background
  BY <1>2, ThreadStep, ThreadDecodes, ErrorCallbackRuns DEF Background
<1>3. ASSUME NEW c \in Clients, ClientLoop(c) PROVE IInv'
  BY <1>3, CallReturns, CallFails, OutcomeHandled, ClientDies DEF ClientLoop
<1>4. CASE Environment
  <2>1. CASE DataRace \/ Crash
    BY <2>1, ProcessGone DEF DataRace, Crash
  <2> QED BY <1>4, <2>1, ClientConnects, ClientLeaves, ClientAsks DEF Environment
<1>5. CASE UNCHANGED vars
  <2> USE DEF vars, backgroundVars, serverVars, clientVars, wires
  <2>1. TypeOK' /\ ThreadsOK'
    BY <1>5 DEF IInv, TypeOK, ThreadsOK
  <2>2. \A i \in Images : PlaceOK(i)' /\ OutcomeOK(i)' /\ JobOK(i)'
    BY <1>5 DEF IInv, PlaceOK, OutcomeOK, JobOK, Asked, Busy, Told, is_open
  <2>3. \A c \in Clients : ClientOK(c)'
    BY <1>5 DEF IInv, ClientOK
  <2> QED BY <2>1, <2>2, <2>3 DEF IInv
<1> QED BY <1>1, <1>2, <1>3, <1>4, <1>5 DEF Next

(* Inv, for every number of clients and images: no job is enqueued, run or *)
(* answered twice, and the jobs of a connection are those under way,       *)
(* however the two threads, the clients and the crashes interleave.        *)
THEOREM JobsAreKept == Spec => []Inv
<1>1. IInv => Inv
  <2> SUFFICES ASSUME IInv, server = "running" PROVE JobsAreUnderWay
    BY DEF IInv, Inv, JobsAreUnderWay
  <2> DEFINE underWay == Range(s_all_actions) \cup Range(actions) \cup Jobs(deferred)
  <2>1. \A i \in Images : Busy(i) <=> i \in underWay
    BY DEF Busy
  <2>2. underWay \subseteq Images
    <3>1. /\ s_all_actions \in Seq(Images) /\ actions \in Seq(Images)
          /\ deferred \in Seq(Images \X BOOLEAN)
      BY DEF IInv, TypeOK
    <3>2. Range(s_all_actions) \subseteq Images /\ Range(actions) \subseteq Images
      BY <3>1, RangeOfSeq
    <3>3. \A k \in DOMAIN deferred : deferred[k] \in Images \X BOOLEAN
      BY <3>1, ElementOfSeq, LenProperties
    <3>4. Jobs(deferred) \subseteq Images
      BY <3>3 DEF Jobs
    <3> QED BY <3>2, <3>4
  <2>3. m_pending_jobs \subseteq Images /\ \A i \in Images : JobOK(i)
    BY DEF IInv, TypeOK
  <2> HIDE DEF underWay
  <2>4. /\ m_pending_jobs \subseteq underWay
        /\ \A i \in underWay \ m_pending_jobs : ~ is_open(Owner[i])
        /\ \A i \in m_pending_jobs : Owner[i] \in s_connections
    BY <2>1, <2>2, <2>3 DEF JobOK
  <2> QED BY <2>4 DEF JobsAreUnderWay, underWay, Jobs
<1> QED BY <1>1, Initially, Preserved, PTL DEF Spec

(* OwnOutcome, for every number of clients and images.                     *)
THEOREM PromisesAreKept == Spec => []OwnOutcome
<1>1. IInv => OwnOutcome
  BY DEF IInv, OutcomeOK, OwnOutcome
<1> QED BY <1>1, Initially, Preserved, PTL DEF Spec

=============================================================================
