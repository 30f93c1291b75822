------------------------------ MODULE Resolver ------------------------------
(***************************************************************************)
(* LibDNS' Resolver, as RequestServer uses it: on one thread, for A and    *)
(* AAAA records together, without local DNSSEC validation.  A cache of     *)
(* results by name, the lookups under way by the id of their query, a      *)
(* retry timer for each, promises that remember one pair of callbacks, and *)
(* a socket to a DNS server whose answers are lost, late or duplicated.    *)
(***************************************************************************)
EXTENDS Naturals, Sequences

CONSTANTS
    Names,      \* host names
    Literals,   \* the names that are addresses, and localhost
    Ids,        \* ids of queries (16 bits in the code)
    Callers,    \* calls of lookup() by requests, one each
    Hosts,      \* the names that each of them may look up
    None,       \* no name, no id, no caller
    Faults      \* what can go wrong, a subset of FaultKinds

FaultKinds == {"loss", "duplicate", "close", "create", "system", "write"}

ASSUME ResolverAssumption ==
    /\ Literals \subseteq Names
    /\ Hosts \in [Callers -> SUBSET Names]
    /\ None \notin Names \cup Ids \cup Callers
    /\ Faults \subseteq FaultKinds

DesiredTypes == {"A", "AAAA"}
MaxRepeats == 5

VARIABLES
    cache,      \* m_cache: a LookupResult for each name in it
    pending,    \* m_pending_lookups: a PendingLookup for each id in it
    socket,     \* m_socket: "none" (never made, reset or closed) or "open"
    network,    \* queries whose answers are still to come
    lost,       \* history: queries whose answers were waited for and will never come
    drawn,      \* history: the draws of an id, for a name, by a call of lookup()
    promise,    \* the promise that each call of lookup() constructs
    asked,      \* the name that each caller has looked up
    heard       \* the outcomes that the callbacks of each caller were given

vars == <<cache, pending, socket, network, lost, drawn, promise, asked, heard>>

(* A record knows which name the answer that brought it was about; ttl 0   *)
(* is "forever", any other ttl "fresh" until it has passed.                *)
Record == [type : DesiredTypes, about : Names, life : {"fresh", "expired", "forever"}]
LookupResult == [valid : BOOLEAN, done : BOOLEAN, id : Ids, records : SUBSET Record]
PendingLookup ==
    [name : Names, promise : Callers, running : BOOLEAN, times_repeated : 0 .. MaxRepeats]
Query == [id : Ids, name : Names]
Draw == [id : Ids, name : Names, by : Callers]

(* What a promise was settled with: for a result, the records in it at the *)
(* time the callbacks run, whatever their types.                           *)
Address == [about : Names, life : {"fresh", "expired", "forever"}]
Outcome == [kind : {"resolved", "rejected"}, records : SUBSET Address]
Unsettled == [kind |-> "pending", records |-> {}]
Unmade == [kind |-> "none", records |-> {}]
Promise == [outcome : Outcome \cup {Unsettled, Unmade}, handler : Callers \cup {None}]
Settled(o) == o.kind \in {"resolved", "rejected"}

TypeOK ==
    /\ DOMAIN cache \subseteq Names
    /\ \A n \in DOMAIN cache : cache[n] \in LookupResult
    /\ DOMAIN pending \subseteq Ids
    /\ \A i \in DOMAIN pending : pending[i] \in PendingLookup
    /\ socket \in {"none", "open"}
    /\ network \in SUBSET Query
    /\ lost \in SUBSET Query
    /\ drawn \in SUBSET Draw
    /\ promise \in [Callers -> Promise]
    /\ asked \in [Callers -> Names \cup {None}]
    /\ heard \in [Callers -> Seq(Outcome)]

Init ==
    /\ cache = [n \in {} |-> Unmade]
    /\ pending = [i \in {} |-> Unmade]
    /\ socket = "none"
    /\ network = {}
    /\ lost = {}
    /\ drawn = {}
    /\ promise = [c \in Callers |-> [outcome |-> Unmade, handler |-> None]]
    /\ asked = [c \in Callers |-> None]
    /\ heard = [c \in Callers |-> <<>>]

Put(f, k, v) == [x \in DOMAIN f \cup {k} |-> IF x = k THEN v ELSE f[x]]
Without(f, ks) == [x \in DOMAIN f \ ks |-> f[x]]

-----------------------------------------------------------------------------
(***************************************************************************)
(* LookupResult                                                            *)
(***************************************************************************)

(* A result that waits for its records; its id is to be set.               *)
NewResult == [valid |-> FALSE, done |-> FALSE, id |-> CHOOSE i \in Ids : TRUE, records |-> {}]

\* mutant: records are kept until the last of them has expired
check_expiration_All(result) ==
    IF result.valid /\ \A r \in result.records : r.life = "expired"
    THEN [result EXCEPT !.records = {}, !.valid = ~result.done]
    ELSE result

check_expiration(result) ==
    LET kept == {r \in result.records : r.life # "expired"}
    IN  IF result.valid
        THEN [result EXCEPT !.records = kept, !.valid = ~(kept = {} /\ result.done)]
        ELSE result

\* mutant: a result that is still waited for is removed
can_be_removed_Undone(result) == ~result.valid

can_be_removed(result) == ~result.valid /\ result.done

has_record_of_type(result, type) == \E r \in result.records : r.type = type

\* mutant: the result keeps the id that it was made with
set_id_Never(result, id) == result

set_id(result, id) == [result EXCEPT !.id = id]

(* add_record for each record of an answer, and finished_request.          *)
WithAnswers(result, records) ==
    [result EXCEPT !.valid = @ \/ records # {}, !.records = @ \cup records, !.done = TRUE]

-----------------------------------------------------------------------------
(***************************************************************************)
(* Promises.  A promise calls the callbacks it has when it is settled, and *)
(* when_rejected and when_resolved replace them, and call them at once if  *)
(* it has been.                                                            *)
(***************************************************************************)

Resolved(records) ==
    [kind |-> "resolved", records |-> {[about |-> r.about, life |-> r.life] : r \in records}]
Rejected == [kind |-> "rejected", records |-> {}]

(* What x is called with when p is settled with o and then given the       *)
(* callbacks of c, by when its outcome is now.                             *)
\* mutant: the callbacks that are replaced are called again
Calls_Again(p, o, now, c, x) ==
    (IF x = promise[p].handler /\ Settled(now) THEN <<now>> ELSE <<>>)
    \o (IF x = c /\ Settled(now) THEN <<now>> ELSE <<>>)

\* mutant: callbacks that come after the outcome are not called
Calls_Late(p, o, now, c, x) ==
    IF x = promise[p].handler /\ Settled(o) THEN <<o>> ELSE <<>>

Calls(p, o, now, c, x) ==
    (IF x = promise[p].handler /\ Settled(o) THEN <<o>> ELSE <<>>)
    \o (IF x = c /\ Settled(now) THEN <<now>> ELSE <<>>)

(* p is settled with o, unless o is Unsettled, and then given callbacks by *)
(* c, unless c is None.                                                    *)
SettleAndAttach(p, o, c) ==
    LET now == IF Settled(o) \/ promise[p].outcome = Unmade THEN o ELSE promise[p].outcome
    IN  /\ promise' = [promise EXCEPT ![p] =
               [outcome |-> now, handler |-> IF c = None THEN @.handler ELSE c]]
        /\ heard' = [x \in Callers |-> heard[x] \o Calls(p, o, now, c, x)]

-----------------------------------------------------------------------------
(***************************************************************************)
(* lookup()                                                                *)
(***************************************************************************)

flush_cache ==
    LET checked == [n \in DOMAIN cache |-> check_expiration(cache[n])]
    IN  Without(checked, {n \in DOMAIN cache : can_be_removed(checked[n])})

lookup_in_cache(results, n) ==
    n \in DOMAIN results /\ \A t \in DesiredTypes : has_record_of_type(results[n], t)

(* has_connection makes a socket if there is none that is open.            *)
has_connection == socket' = "open"
no_connection == socket = "none" /\ "create" \in Faults /\ socket' = "none"

(* What an address stands for, and what the system's resolver finds: some  *)
(* records, which never expire and are not put in the cache.               *)
OwnRecords(n) == [type : DesiredTypes, about : {n}, life : {"forever"}]

(* The id of a query: that of the cached result, that of the lookup that   *)
(* is repeated, or one that no lookup under way has.  A lookup that is     *)
(* over may have had it: its late answers, and its result in the cache,    *)
(* still do.                                                               *)
QueryIds(results, n, repeating) ==
    IF n \in DOMAIN results THEN {results[n].id}
    ELSE IF repeating # None THEN {repeating}
    ELSE Ids \ DOMAIN pending

(* The query is written.  If that fails the promise is rejected, and the   *)
(* lookup stays, with its timer at rest.                                   *)
SendQuery(lookups, results, p, n, repeating, c) ==
    \E id \in QueryIds(results, n, repeating), written \in BOOLEAN :
        LET result == IF n \in DOMAIN results THEN results[n]
                      ELSE NewResult
            lookup == IF repeating = None
                      THEN [name |-> n, promise |-> p, running |-> FALSE, times_repeated |-> 0]
                      ELSE [lookups[repeating] EXCEPT
                               !.times_repeated = @ + IF n \in DOMAIN results THEN 0 ELSE 1]
        IN  /\ written \/ "write" \in Faults
            /\ cache' = Put(results, n, set_id(result, id))
            /\ pending' = Put(lookups, id, [lookup EXCEPT !.running = written])
            /\ network' = IF written THEN network \cup {[id |-> id, name |-> n]} ELSE network
            /\ drawn' = drawn \cup {[id |-> id, name |-> n, by |-> p]}
            /\ UNCHANGED lost
            /\ SettleAndAttach(p, IF written THEN Unsettled ELSE Rejected, c)

(* lookup(): called by c, or by the timer of the lookup with the id        *)
(* repeating; p is the promise it settles or returns.  A lookup of n that  *)
(* is under way is found by the id in the cached result, and its promise   *)
(* returned instead.                                                       *)
lookup(lookups, p, n, repeating, c) ==
    LET results == flush_cache
        Answer(o) == /\ SettleAndAttach(p, o, c)
                     /\ cache' = results
                     /\ pending' = lookups
                     /\ UNCHANGED <<network, lost, drawn>>
        timed_out == repeating # None /\ lookups[repeating].times_repeated >= MaxRepeats
        known == n \in Literals \/ lookup_in_cache(results, n)
        underway == n \in DOMAIN results /\ results[n].id \in DOMAIN lookups
        done == n \in DOMAIN results /\ results[n].done
    IN  \/ /\ timed_out
           /\ SettleAndAttach(p, Rejected, c)
           /\ cache' = results
           /\ pending' = Without(lookups, {repeating})
           /\ UNCHANGED <<socket, network, lost, drawn>>
        \/ /\ ~timed_out /\ known
           /\ Answer(Resolved(IF n \in Literals THEN OwnRecords(n) ELSE results[n].records))
           /\ UNCHANGED socket
        \/ /\ ~timed_out /\ ~known /\ no_connection
           /\ \/ Answer(Resolved(OwnRecords(n)))
              \/ "system" \in Faults /\ Answer(Rejected)
        \/ /\ ~timed_out /\ ~known /\ has_connection
           /\ \/ /\ underway
                 /\ SettleAndAttach(lookups[results[n].id].promise, Unsettled, c)
                 /\ cache' = results
                 /\ pending' = lookups
                 /\ UNCHANGED <<network, lost, drawn>>
              \/ ~underway /\ done /\ Answer(Resolved(results[n].records))
              \/ ~underway /\ ~done /\ SendQuery(lookups, results, p, n, repeating, c)

-----------------------------------------------------------------------------
(***************************************************************************)
(* Actions                                                                 *)
(***************************************************************************)

(* A request looks up its host, and hands over its callbacks.                *)
Ask(c, n) ==
    /\ asked[c] = None
    /\ asked' = [asked EXCEPT ![c] = n]
    /\ lookup(pending, c, n, None, c)

(* repeat_timer: single-shot, one second after the query was written.      *)
Timeout(i) ==
    /\ i \in DOMAIN pending
    /\ pending[i].running
    /\ lookup([pending EXCEPT ![i].running = FALSE],
              pending[i].promise, pending[i].name, i, None)
    /\ UNCHANGED asked

(* process_incoming_messages, for one message: an answer with records of   *)
(* some types, or of none.  It is matched by its id alone.  The result is  *)
(* gone if it was purged from the cache.                                   *)
process_incoming_messages(q) ==
    /\ q \in network
    /\ \/ network' = network \ {q}
       \/ "duplicate" \in Faults /\ UNCHANGED network
    /\ \E types \in SUBSET DesiredTypes, life \in {"fresh", "forever"} :
        LET answers == [type : types, about : {q.name}, life : {life}]
            l == pending[q.id]
            result == WithAnswers(cache[l.name], answers)
        IN  IF q.id \in DOMAIN pending /\ l.name \in DOMAIN cache
            THEN /\ cache' = [cache EXCEPT ![l.name] = result]
                 /\ pending' = Without(pending, {q.id})
                 /\ SettleAndAttach(l.promise, Resolved(result.records), None)
            ELSE UNCHANGED <<cache, pending, promise, heard>>
    /\ UNCHANGED <<socket, lost, drawn, asked>>

(* The queries that the lookup of their id is waiting for.                 *)
WaitedFor(queries) ==
    {q \in queries : q.id \in DOMAIN pending /\ q.name = pending[q.id].name}

(* A query or its answer is lost.                                          *)
Lose(q) ==
    /\ "loss" \in Faults
    /\ q \in network
    /\ network' = network \ {q}
    /\ lost' = lost \cup WaitedFor({q})
    /\ UNCHANGED <<cache, pending, socket, drawn, promise, asked, heard>>

(* The server closes the connection, or reset_connection drops the socket: *)
(* what was sent to it is lost.                                            *)
reset_connection ==
    /\ "close" \in Faults
    /\ socket = "open"
    /\ socket' = "none"
    /\ network' = {}
    /\ lost' = lost \cup WaitedFor(network)
    /\ UNCHANGED <<cache, pending, drawn, promise, asked, heard>>

(* The time to live of the records of a name has passed.                   *)
Expire(n) ==
    /\ n \in DOMAIN cache
    /\ \E r \in cache[n].records :
        /\ r.life = "fresh"
        /\ cache' = [cache EXCEPT ![n].records = (@ \ {r}) \cup {[r EXCEPT !.life = "expired"]}]
    /\ UNCHANGED <<pending, socket, network, lost, drawn, promise, asked, heard>>

Next ==
    \/ \E c \in Callers : \E n \in Hosts[c] : Ask(c, n)
    \/ \E i \in Ids : Timeout(i)
    \/ \E q \in Query : process_incoming_messages(q) \/ Lose(q)
    \/ reset_connection
    \/ \E n \in Names : Expire(n)

Spec == Init /\ [][Next]_vars

(* poll() reports a socket with something to read, and timers that are due.*)
Fairness ==
    /\ \A i \in Ids : WF_vars(Timeout(i))
    /\ \A q \in Query : WF_vars(process_incoming_messages(q))

FairSpec == Spec /\ Fairness

-----------------------------------------------------------------------------
(***************************************************************************)
(* Properties                                                              *)
(***************************************************************************)

(* A result is waiting for its answer exactly while the lookup with its id *)
(* is under way, for its name: neither flush_cache nor an answer leaves    *)
(* one without the other, so that the weak pointer of a lookup is good and *)
(* "something has gone wrong" in lookup() does not happen.                 *)
LookupsMatchResults ==
    /\ \A n \in DOMAIN cache : ~cache[n].done =>
           cache[n].id \in DOMAIN pending /\ pending[cache[n].id].name = n
    /\ \A i \in DOMAIN pending :
           LET n == pending[i].name
           IN  n \in DOMAIN cache /\ ~cache[n].done /\ cache[n].id = i

(* The variables have their types, and lookups match results.              *)
Inv == TypeOK /\ LookupsMatchResults

(* The id i has been drawn for a query about n.                            *)
StoodFor(i, n) == \E d \in drawn : d.id = i /\ d.name = n

(* An id has been drawn for n and once more, for any name.                 *)
SharesItsId(n) == \E d, e \in drawn : d # e /\ d.id = e.id /\ d.name = n

(* The callbacks of a request run once at most, however often an answer    *)
(* comes and the lookup is repeated: a request that has gone on from its   *)
(* lookup is not sent back.  The code does not keep this up when an id     *)
(* comes up again: a query that could not be written rejects its promise   *)
(* and leaves its lookup, which a late answer to an earlier query of that  *)
(* id then resolves.                                                       *)
CalledOnce == \A c \in Callers : Len(heard[c]) <= 1 \/ SharesItsId(asked[c])

(* What a request is told is about the host it asked for, or about one     *)
(* whose query has had the same id as a query about its own.  The code     *)
(* goes by ids alone, that of a message and that of a result in the cache, *)
(* and draws them from 16 random bits, minus those of the lookups under    *)
(* way: so two hosts can be taken for each other, but only these two.      *)
AnswersAreAboutTheName ==
    \A c \in Callers : \A k \in DOMAIN heard[c] : \A r \in heard[c][k].records :
        r.about = asked[c] \/ \E i \in Ids : StoodFor(i, r.about) /\ StoodFor(i, asked[c])

(* No request is told of a record whose time has passed, whether the       *)
(* result comes from the cache, from a lookup that others started or from  *)
(* the timer.                                                              *)
AnswersAreCurrent ==
    \A c \in Callers : \A k \in DOMAIN heard[c] :
        \A r \in heard[c][k].records : r.life # "expired"

(* A caller whose callbacks another caller's have replaced.                *)
Displaced(c) == \A p \in Callers : promise[p].handler # c

(* A caller that waits for an answer that will not come.                   *)
Forsaken(c) ==
    \E q \in lost : /\ q.id \in DOMAIN pending /\ q.name = pending[q.id].name
                    /\ promise[pending[q.id].promise].handler = c

(* A request that asks is told something, unless its callbacks have been   *)
(* replaced or its answer lost.                                            *)
CallerHears ==
    \A c \in Callers :
        asked[c] # None ~> heard[c] # <<>> \/ Displaced(c) \/ Forsaken(c)

=============================================================================
