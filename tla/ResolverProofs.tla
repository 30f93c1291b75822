--------------------------- MODULE ResolverProofs ---------------------------
(***************************************************************************)
(* Theorems about Resolver, for any number of names, ids and callers and   *)
(* for all faults, whichever ids are drawn: lookups match results, no      *)
(* request is told of what has expired, and the two things that an id that *)
(* comes up again can do to a request are done to no other: to be called   *)
(* back twice, and to be told of another host.                             *)
(***************************************************************************)
EXTENDS Resolver, SequenceTheorems, TLAPS

(***************************************************************************)
(* The inductive invariant, first the part about lookups and results.      *)
(***************************************************************************)

(* A result that is not done has nothing in it, nor has one that is not    *)
(* valid.                                                                  *)
ResultOK(result) == (~ result.done => ~ result.valid) /\ (~ result.valid => result.records = {})

(* A lookup under way has never been repeated: lookup() finds it under way *)
(* each time its timer calls.                                              *)
LookupOK(l) == l.times_repeated = 0 /\ l.name \notin Literals

Base ==
    /\ Inv
    /\ \A n \in DOMAIN cache : ResultOK(cache[n])
    /\ \A i \in DOMAIN pending : LookupOK(pending[i])

(***************************************************************************)
(* The part about ids, of which D is the history of draws.                 *)
(***************************************************************************)

(* In D the id i has stood for n, or has come up twice, or n shares its id.*)
Stood(D, i, n) == \E d \in D : d.id = i /\ d.name = n
Twice(D, i) == \E d, e \in D : d # e /\ d.id = i /\ e.id = i
Shares(D, n) == \E d, e \in D : d # e /\ d.id = e.id /\ d.name = n

(* Records that a caller of n may be told of, and those that have come in  *)
(* under i.                                                                *)
RightFor(D, records, n) ==
    \A r \in records :
        /\ r.about = n \/ \E i \in Ids : Stood(D, i, r.about) /\ Stood(D, i, n)
        /\ r.life # "expired"
Under(D, records, i) == \A r \in records : Stood(D, i, r.about) /\ r.life # "expired"

(* Messages, and results with their records, are of ids that were drawn    *)
(* for them; and whoever has drawn one has asked.                          *)
IdsOK ==
    /\ \A n \in DOMAIN cache :
           /\ Stood(drawn, cache[n].id, n)
           /\ \A r \in cache[n].records : Stood(drawn, cache[n].id, r.about)
    /\ \A q \in network : Stood(drawn, q.id, q.name)
    /\ socket = "none" => network = {}
    /\ \A d \in drawn : asked[d.by] # None

(* The lookup with id i has a promise of its own, whose callbacks are of a *)
(* caller whose name i has stood for.  The timer finds it unsettled, and   *)
(* so do answers, unless i has come up before.                             *)
PendingOK(i) ==
    LET p == pending[i].promise
    IN  /\ asked[p] # None
        /\ promise[p].outcome # Unmade
        /\ Under(drawn, promise[p].outcome.records, i)
        /\ \A j \in DOMAIN pending : pending[j].promise = p => j = i
        /\ pending[i].running => promise[p].outcome = Unsettled
        /\ \A q \in network : q.id = i => promise[p].outcome = Unsettled \/ Twice(drawn, i)
        /\ \A c \in Callers : promise[p].handler = c => Stood(drawn, i, asked[c])

(* A caller has callbacks with one promise at most.                        *)
CallerOK(c) ==
    /\ Len(heard[c]) <= 1 \/ Shares(drawn, asked[c])
    /\ \A k \in DOMAIN heard[c] : RightFor(drawn, heard[c][k].records, asked[c])
    /\ asked[c] = None =>
           heard[c] = <<>> /\ promise[c].outcome = Unmade /\ promise[c].handler = None
    /\ \A p \in Callers : promise[p].handler = c =>
           /\ asked[c] # None
           /\ ~ Settled(promise[p].outcome) => heard[c] = <<>>
           /\ \A q \in Callers : promise[q].handler = c => q = p

IInv ==
    /\ Base
    /\ IdsOK
    /\ \A i \in DOMAIN pending : PendingOK(i)
    /\ \A c \in Callers : CallerOK(c)

-----------------------------------------------------------------------------
(* What the history of draws says. *)

(* It only grows, and then says no less.                                   *)
LEMMA DrawsGrow ==
    ASSUME NEW D, NEW E, D \subseteq E
    PROVE  /\ \A i, n : Stood(D, i, n) => Stood(E, i, n)
           /\ \A i : Twice(D, i) => Twice(E, i)
           /\ \A n : Shares(D, n) => Shares(E, n)
           /\ \A rs, n : RightFor(D, rs, n) => RightFor(E, rs, n)
           /\ \A rs, i : Under(D, rs, i) => Under(E, rs, i)
<1>1. \A i, n : Stood(D, i, n) => Stood(E, i, n)
    BY DEF Stood
<1>2. \A i : Twice(D, i) => Twice(E, i)
    BY DEF Twice
<1>3. \A n : Shares(D, n) => Shares(E, n)
    BY DEF Shares
<1>4. \A rs, n : RightFor(D, rs, n) => RightFor(E, rs, n)
    BY <1>1 DEF RightFor
<1>5. \A rs, i : Under(D, rs, i) => Under(E, rs, i)
    BY <1>1 DEF Under
<1> QED BY <1>1, <1>2, <1>3, <1>4, <1>5

(* What comes in under i may be told to those whose name i has stood for,  *)
(* and when i has come up twice each of them shares its id.                *)
LEMMA DrawsMean ==
    ASSUME NEW D
    PROVE  /\ \A i \in Ids : \A rs, n : Under(D, rs, i) /\ Stood(D, i, n) => RightFor(D, rs, n)
           /\ \A i, n : Stood(D, i, n) /\ Twice(D, i) => Shares(D, n)
           /\ \A n : RightFor(D, {}, n)
           /\ \A i : Under(D, {}, i)
<1>1. ASSUME NEW i \in Ids, NEW rs, NEW n, Under(D, rs, i), Stood(D, i, n)
      PROVE  RightFor(D, rs, n)
    BY <1>1 DEF Under, RightFor
<1>2. ASSUME NEW i, NEW n, Stood(D, i, n), Twice(D, i) PROVE Shares(D, n)
    BY <1>2 DEF Stood, Twice, Shares
<1>3. \A n : RightFor(D, {}, n)
    BY DEF RightFor
<1>4. \A i : Under(D, {}, i)
    BY DEF Under
<1> QED BY <1>1, <1>2, <1>3, <1>4

-----------------------------------------------------------------------------
(* What the operators of Resolver do. *)

(* What flush_cache leaves: every result that is not done, and of the      *)
(* others what has not expired.                                            *)
Flushed(results) ==
    /\ DOMAIN results \subseteq DOMAIN cache
    /\ \A n \in DOMAIN cache : ~ cache[n].done => n \in DOMAIN results
    /\ \A n \in DOMAIN results :
           /\ results[n] \in LookupResult
           /\ results[n].id = cache[n].id
           /\ results[n].done <=> cache[n].done
           /\ results[n].records \subseteq cache[n].records
           /\ \A r \in results[n].records : r.life # "expired"
           /\ ResultOK(results[n])

(* check_expiration() on one result.                                       *)
LEMMA Expiration ==
    ASSUME NEW a \in LookupResult, ResultOK(a), NEW b, b = check_expiration(a)
    PROVE  /\ b \in LookupResult /\ b.id = a.id /\ (b.done <=> a.done)
           /\ b.records \subseteq a.records
           /\ \A r \in b.records : r.life # "expired"
           /\ ResultOK(b)
<1> DEFINE kept == {r \in a.records : r.life # "expired"}
<1>1. a.valid \in BOOLEAN /\ a.done \in BOOLEAN /\ a.id \in Ids /\ a.records \subseteq Record
    BY Zenon DEF LookupResult
<1>2. CASE a.valid
    <2>1. b = [a EXCEPT !.records = kept, !.valid = ~ (kept = {} /\ a.done)]
        BY <1>2 DEF check_expiration
    <2>2. b.id = a.id /\ b.done = a.done /\ b.records = kept /\ b.valid = (~ (kept = {} /\ a.done))
        <3>2. PICK y \in BOOLEAN : y = (~ (kept = {} /\ a.done))
            BY Zenon
        <3> HIDE DEF kept
        <3>3. b = [a EXCEPT !.records = kept, !.valid = y]
            BY <2>1, <3>2
        <3>4. b.id = a.id /\ b.done = a.done /\ b.records = kept /\ b.valid = y
            BY <3>3, Zenon DEF LookupResult
        <3> QED BY <3>2, <3>4, Zenon
    <2>3. b \in LookupResult
        <3>1. ASSUME NEW x \in SUBSET Record, NEW y \in BOOLEAN, NEW s \in LookupResult, NEW t,
                     t = [s EXCEPT !.records = x, !.valid = y]
              PROVE  t \in LookupResult
            BY <3>1, Zenon DEF LookupResult
        <3>2. kept \in SUBSET Record /\ (~ (kept = {} /\ a.done)) \in BOOLEAN
            BY <1>1
        <3> QED BY <2>1, <3>1, <3>2
    <2>4. a.done
        BY <1>1, <1>2 DEF ResultOK
    <2>5. b.valid <=> kept # {}
        BY <2>2, <2>4
    <2> QED BY <1>1, <2>2, <2>3, <2>4, <2>5, Zenon DEF ResultOK
<1>3. CASE ~ a.valid
    <2>1. b = a /\ a.records = {}
        BY <1>3 DEF check_expiration, ResultOK
    <2> QED BY <2>1
<1> QED BY <1>2, <1>3

(* flush_cache on all of them.                                             *)
LEMMA Flush ==
    ASSUME Base, NEW results, results = flush_cache
    PROVE  Flushed(results)
<1> DEFINE checked == [n \in DOMAIN cache |-> check_expiration(cache[n])]
           gone == {n \in DOMAIN cache : can_be_removed(checked[n])}
<1>1. results = [n \in DOMAIN cache \ gone |-> checked[n]]
    BY DEF flush_cache, Without
<1>2. ASSUME NEW n \in DOMAIN cache
      PROVE  /\ checked[n] \in LookupResult /\ checked[n].id = cache[n].id
             /\ (checked[n].done <=> cache[n].done)
             /\ checked[n].records \subseteq cache[n].records
             /\ \A r \in checked[n].records : r.life # "expired"
             /\ ResultOK(checked[n])
    <2>1. PICK a \in LookupResult : a = cache[n] /\ ResultOK(a)
        BY DEF Base, Inv, TypeOK
    <2>2. PICK b : b = check_expiration(a)
        BY Zenon
    <2>3. b = checked[n]
        BY <2>1, <2>2
    <2> HIDE DEF checked
    <2> QED BY <2>1, <2>2, <2>3, Expiration
<1>3. ASSUME NEW n \in DOMAIN cache, ~ cache[n].done PROVE n \notin gone
    BY <1>2, <1>3 DEF can_be_removed
<1> HIDE DEF checked, gone
<1>4. \A n \in DOMAIN results : n \in DOMAIN cache /\ results[n] = checked[n]
    BY <1>1
<1>5. DOMAIN results = DOMAIN cache \ gone
    BY <1>1
<1> QED BY <1>2, <1>3, <1>4, <1>5 DEF Flushed

(* The outcomes that are settled are those of results and of errors.       *)
LEMMA Outcomes ==
    /\ \A o \in Outcome : Settled(o) /\ o # Unmade /\ o # Unsettled
    /\ ~ Settled(Unsettled) /\ ~ Settled(Unmade) /\ Unsettled # Unmade
    /\ \A o \in Outcome \cup {Unsettled, Unmade} : Settled(o) => o \in Outcome
    /\ Rejected \in Outcome /\ Rejected.records = {}
    /\ Unsettled.records = {} /\ Unmade.records = {}
<1>1. \A o \in Outcome : Settled(o)
    BY DEF Outcome, Settled
<1>2. ~ Settled(Unsettled) /\ ~ Settled(Unmade)
    BY DEF Settled, Unsettled, Unmade
<1>3. Unsettled.kind = "pending" /\ Unmade.kind = "none"
    BY DEF Unsettled, Unmade
<1>4. Rejected \in Outcome /\ Rejected.records = {} /\ Unsettled.records = {} /\ Unmade.records = {}
    BY DEF Rejected, Outcome, Unsettled, Unmade
<1> QED BY <1>1, <1>2, <1>3, <1>4

(* A result, as a promise is settled with it, tells of its records.        *)
LEMMA ResolvedIs ==
    ASSUME NEW records \in SUBSET Record
    PROVE  /\ Resolved(records) \in Outcome
           /\ \A a \in Resolved(records).records :
                  \E r \in records : a.about = r.about /\ a.life = r.life
<1> DEFINE as == {[about |-> r.about, life |-> r.life] : r \in records}
<1>1. as \in SUBSET Address
    BY DEF Record, Address
<1>2. Resolved(records) = [kind |-> "resolved", records |-> as]
    BY DEF Resolved
<1>3. Resolved(records).records = as
    BY <1>2
<1>4. Resolved(records) \in Outcome
    <2>1. ASSUME NEW x \in SUBSET Address PROVE [kind |-> "resolved", records |-> x] \in Outcome
        BY DEF Outcome
    <2> HIDE DEF as
    <2> QED BY <1>1, <1>2, <2>1, Zenon
<1>5. \A a \in as : \E r \in records : a.about = r.about /\ a.life = r.life
    OBVIOUS
<1> HIDE DEF as
<1> QED BY <1>3, <1>4, <1>5

(* The records of an address, or from the system's resolver.               *)
LEMMA OwnRecordsAre ==
    ASSUME NEW n \in Names
    PROVE  /\ OwnRecords(n) \in SUBSET Record
           /\ \A r \in OwnRecords(n) : r.about = n /\ r.life # "expired"
BY DEF OwnRecords, Record

(* The outcome and the callbacks of a promise, after SettleAndAttach.      *)
LEMMA SettleTypes ==
    ASSUME TypeOK, NEW p \in Callers, NEW o \in Outcome \cup {Unsettled}, NEW c \in Callers \cup {None},
           SettleAndAttach(p, o, c)
    PROVE  promise' \in [Callers -> Promise] /\ heard' \in [Callers -> Seq(Outcome)]
<1> DEFINE now == IF Settled(o) \/ promise[p].outcome = Unmade THEN o ELSE promise[p].outcome
           h == IF c = None THEN promise[p].handler ELSE c
<1>1. promise[p] \in Promise /\ promise \in [Callers -> Promise] /\ heard \in [Callers -> Seq(Outcome)]
    BY DEF TypeOK
<1>2. promise[p].outcome \in Outcome \cup {Unsettled, Unmade} /\ promise[p].handler \in Callers \cup {None}
    BY <1>1 DEF Promise
<1>3. now \in Outcome \cup {Unsettled, Unmade} /\ h \in Callers \cup {None}
    BY <1>2
<1>4. promise' = [promise EXCEPT ![p] = [outcome |-> now, handler |-> h]]
    BY DEF SettleAndAttach
<1>5. heard' = [x \in Callers |-> heard[x] \o Calls(p, o, now, c, x)]
    BY DEF SettleAndAttach
<1> HIDE DEF now, h
<1>6. [outcome |-> now, handler |-> h] \in Promise
    BY <1>3 DEF Promise
<1>7. promise' \in [Callers -> Promise]
    BY <1>1, <1>4, <1>6
<1>8. \A x \in Callers : Calls(p, o, now, c, x) \in Seq(Outcome)
    BY <1>3, Outcomes DEF Calls
<1> QED BY <1>1, <1>5, <1>7, <1>8

-----------------------------------------------------------------------------
(* lookup(), case by case. *)

(* The lookups under way, of which a timer may have fired.                 *)
Same(lookups) ==
    /\ DOMAIN lookups = DOMAIN pending
    /\ \A i \in DOMAIN pending :
           /\ lookups[i] \in PendingLookup
           /\ lookups[i].name = pending[i].name /\ lookups[i].promise = pending[i].promise
           /\ lookups[i].times_repeated = pending[i].times_repeated
           /\ lookups[i].running => pending[i].running

(* The outcomes of a lookup of n that is over at once.                     *)
AtOnce(o, results, n) ==
    \/ o = Rejected
    \/ o = Resolved(OwnRecords(n))
    \/ n \in DOMAIN results /\ o = Resolved(results[n].records)

(* A caller is told at once, joins the lookup that is under way for n, or  *)
(* starts one under the id.                                                *)
Answered(c, n, results, o) ==
    /\ AtOnce(o, results, n)
    /\ SettleAndAttach(c, o, c)
    /\ cache' = results
    /\ UNCHANGED <<pending, network, lost, drawn>>
    /\ socket' \in {socket, "open"}

Joined(c, n, results, i) ==
    /\ n \in DOMAIN results /\ results[n].id = i /\ i \in DOMAIN pending
    /\ SettleAndAttach(pending[i].promise, Unsettled, c)
    /\ cache' = results
    /\ UNCHANGED <<pending, network, lost, drawn>>
    /\ socket' = "open"

Started(c, n, results, i, written) ==
    /\ n \notin DOMAIN results /\ n \notin Literals
    /\ i \in Ids \ DOMAIN pending
    /\ cache' = Put(results, n, [valid |-> FALSE, done |-> FALSE, id |-> i, records |-> {}])
    /\ pending' = Put(pending, i, [name |-> n, promise |-> c, running |-> written,
                                   times_repeated |-> 0])
    /\ network' = IF written THEN network \cup {[id |-> i, name |-> n]} ELSE network
    /\ drawn' = drawn \cup {[id |-> i, name |-> n, by |-> c]}
    /\ UNCHANGED lost
    /\ SettleAndAttach(c, IF written THEN Unsettled ELSE Rejected, c)
    /\ socket' = "open"

(* Those are all the cases of lookup() by a caller: a result that is not   *)
(* done has its lookup under way.                                          *)
LEMMA AskDoes ==
    ASSUME Base, NEW c \in Callers, NEW n \in Names, lookup(pending, c, n, None, c),
           NEW results, results = flush_cache
    PROVE  \/ \E o \in Outcome : Answered(c, n, results, o)
           \/ \E i \in Ids : Joined(c, n, results, i)
           \/ \E i \in Ids, written \in BOOLEAN : Started(c, n, results, i, written)
<1> DEFINE known == n \in Literals \/ lookup_in_cache(results, n)
           underway == n \in DOMAIN results /\ results[n].id \in DOMAIN pending
           done == n \in DOMAIN results /\ results[n].done
           Answer(o) == /\ SettleAndAttach(c, o, c)
                        /\ cache' = results
                        /\ pending' = pending
                        /\ UNCHANGED <<network, lost, drawn>>
<1>1. Flushed(results)
    BY Flush
<1>2. n \in DOMAIN results => results[n].records \in SUBSET Record /\ results[n].id \in Ids
    BY <1>1 DEF Flushed, LookupResult
<1>3. OwnRecords(n) \in SUBSET Record
    BY OwnRecordsAre
<1>4. \/ known /\ Answer(Resolved(IF n \in Literals THEN OwnRecords(n) ELSE results[n].records))
         /\ UNCHANGED socket
      \/ no_connection /\ (Answer(Resolved(OwnRecords(n))) \/ Answer(Rejected))
      \/ /\ ~ known /\ has_connection
         /\ \/ /\ underway
               /\ SettleAndAttach(pending[results[n].id].promise, Unsettled, c)
               /\ cache' = results
               /\ pending' = pending
               /\ UNCHANGED <<network, lost, drawn>>
            \/ done /\ Answer(Resolved(results[n].records))
            \/ ~ underway /\ ~ done /\ SendQuery(pending, results, c, n, None, c)
    BY Zenon DEF lookup
<1>5. ASSUME NEW o \in Outcome, AtOnce(o, results, n), Answer(o), socket' \in {socket, "open"}
      PROVE  \E oo \in Outcome : Answered(c, n, results, oo)
    BY <1>5, Zenon DEF Answered
<1>6. CASE known /\ Answer(Resolved(IF n \in Literals THEN OwnRecords(n) ELSE results[n].records))
           /\ UNCHANGED socket
    <2>1. PICK rs \in SUBSET Record : /\ rs = (IF n \in Literals THEN OwnRecords(n) ELSE results[n].records)
                                      /\ n \in Literals \/ n \in DOMAIN results
        BY <1>2, <1>3, <1>6, Zenon DEF lookup_in_cache
    <2>2. Answer(Resolved(rs)) /\ AtOnce(Resolved(rs), results, n)
        BY <1>6, <2>1, Zenon DEF AtOnce
    <2>3. Resolved(rs) \in Outcome
        BY ResolvedIs
    <2> QED BY <1>5, <1>6, <2>2, <2>3
<1>7. CASE no_connection /\ (Answer(Resolved(OwnRecords(n))) \/ Answer(Rejected))
    <2>1. socket' \in {socket, "open"}
        BY <1>7 DEF no_connection
    <2>2. Resolved(OwnRecords(n)) \in Outcome /\ AtOnce(Resolved(OwnRecords(n)), results, n)
        BY <1>3, ResolvedIs DEF AtOnce
    <2>3. Rejected \in Outcome /\ AtOnce(Rejected, results, n)
        BY Outcomes DEF AtOnce
    <2> QED BY <1>5, <1>7, <2>1, <2>2, <2>3
<1>8. CASE /\ underway
           /\ SettleAndAttach(pending[results[n].id].promise, Unsettled, c)
           /\ cache' = results
           /\ pending' = pending
           /\ UNCHANGED <<network, lost, drawn>>
           /\ has_connection
    <2>1. Joined(c, n, results, results[n].id)
        BY <1>8 DEF Joined, has_connection
    <2> QED BY <1>2, <1>8, <2>1, Zenon
<1>9. CASE done /\ Answer(Resolved(results[n].records)) /\ has_connection
    <2>1. PICK rs \in SUBSET Record : rs = results[n].records
        BY <1>2, <1>9
    <2>2. Resolved(rs) \in Outcome /\ AtOnce(Resolved(rs), results, n) /\ Answer(Resolved(rs))
        BY <1>9, <2>1, ResolvedIs DEF AtOnce
    <2>3. socket' \in {socket, "open"}
        BY <1>9 DEF has_connection
    <2> QED BY <1>5, <2>2, <2>3
<1>10. CASE ~ known /\ ~ underway /\ ~ done /\ SendQuery(pending, results, c, n, None, c) /\ has_connection
    <2>1. n \notin DOMAIN results
        BY <1>1, <1>10 DEF Flushed, Base, Inv, LookupsMatchResults
    <2>2. PICK i \in QueryIds(results, n, None), written \in BOOLEAN :
             LET l == [name |-> n, promise |-> c, running |-> FALSE, times_repeated |-> 0]
             IN  /\ cache' = Put(results, n, set_id(NewResult, i))
                 /\ pending' = Put(pending, i, [l EXCEPT !.running = written])
                 /\ network' = IF written THEN network \cup {[id |-> i, name |-> n]} ELSE network
                 /\ drawn' = drawn \cup {[id |-> i, name |-> n, by |-> c]}
                 /\ UNCHANGED lost
                 /\ SettleAndAttach(c, IF written THEN Unsettled ELSE Rejected, c)
        BY <1>10, <2>1, Zenon DEF SendQuery
    <2>3. i \in Ids \ DOMAIN pending
        BY <2>1, <2>2 DEF QueryIds
    <2>4. set_id(NewResult, i) = [valid |-> FALSE, done |-> FALSE, id |-> i, records |-> {}]
        <3>1. ASSUME NEW x, NEW y, NEW z
              PROVE  [[valid |-> x, done |-> y, id |-> z, records |-> {}] EXCEPT !.id = i]
                         = [valid |-> x, done |-> y, id |-> i, records |-> {}]
            OBVIOUS
        <3> QED BY <3>1, Zenon DEF set_id, NewResult
    <2>5. [[name |-> n, promise |-> c, running |-> FALSE, times_repeated |-> 0] EXCEPT !.running = written]
              = [name |-> n, promise |-> c, running |-> written, times_repeated |-> 0]
        OBVIOUS
    <2>6. cache' = Put(results, n, [valid |-> FALSE, done |-> FALSE, id |-> i, records |-> {}])
        BY <2>2, <2>4, Zenon
    <2>7. pending' = Put(pending, i, [name |-> n, promise |-> c, running |-> written,
                                   times_repeated |-> 0])
        BY <2>2, <2>5, Zenon
    <2>8. Started(c, n, results, i, written)
        BY <1>10, <2>1, <2>2, <2>3, <2>6, <2>7, Zenon DEF Started, has_connection
    <2> QED BY <2>3, <2>8
<1> HIDE DEF Answer, known, underway, done
<1> QED BY <1>4, <1>6, <1>7, <1>8, <1>9, <1>10, Zenon

(* A timer finds the lookup under way, or tells its callers if there is no *)
(* connection.                                                             *)
GaveUp(i, results, o) ==
    /\ AtOnce(o, results, pending[i].name) /\ o \in {Rejected, Resolved(OwnRecords(pending[i].name))}
    /\ socket = "none" /\ socket' = "none"
    /\ SettleAndAttach(pending[i].promise, o, None)

WaitsOn(i) ==
    /\ socket' = "open"
    /\ SettleAndAttach(pending[i].promise, Unsettled, None)

(* Those are all the cases of lookup() by a timer.                         *)
LEMMA TimeoutDoes ==
    ASSUME Base, NEW i \in Ids, Timeout(i), NEW results, results = flush_cache
    PROVE  /\ i \in DOMAIN pending /\ pending[i].running
           /\ Same(pending') /\ ~ pending'[i].running
           /\ cache' = results /\ UNCHANGED <<network, lost, drawn, asked>>
           /\ (\E o \in Outcome : GaveUp(i, results, o)) \/ WaitsOn(i)
<1>1. i \in DOMAIN pending /\ pending[i].running /\ UNCHANGED asked
    BY DEF Timeout
<1>2. PICK L : L = [pending EXCEPT ![i].running = FALSE]
    BY Zenon
<1>3. PICK l \in PendingLookup : l = pending[i]
    BY <1>1 DEF Base, Inv, TypeOK
<1>4. PICK m : m = [l EXCEPT !.running = FALSE]
    BY Zenon
<1>5. /\ m \in PendingLookup /\ m.name = l.name /\ m.promise = l.promise
      /\ m.times_repeated = l.times_repeated /\ m.running = FALSE
    BY <1>4, Zenon DEF PendingLookup
<1>6. L = [pending EXCEPT ![i] = m]
    BY <1>2, <1>3, <1>4
<1>7. /\ DOMAIN L = DOMAIN pending /\ L[i] = m
      /\ \A j \in DOMAIN pending : j # i => L[j] = pending[j]
    BY <1>1, <1>6
<1>8. Same(L) /\ ~ L[i].running
    BY <1>1, <1>3, <1>5, <1>7 DEF Same, Base, Inv, TypeOK
<1>9. PICK n \in Names, p \in Callers : n = pending[i].name /\ p = pending[i].promise
    BY <1>3 DEF PendingLookup
<1>10. lookup(L, p, n, i, None)
    BY <1>2, <1>9, Zenon DEF Timeout
<1>11. Flushed(results)
    BY Flush
<1>12. /\ n \in DOMAIN cache /\ ~ cache[n].done /\ cache[n].id = i /\ n \notin Literals
       /\ L[i].times_repeated = 0
    BY <1>1, <1>3, <1>5, <1>7, <1>9 DEF Base, Inv, LookupsMatchResults, LookupOK
<1>13. /\ n \in DOMAIN results /\ ~ results[n].done /\ results[n].id = i /\ results[n].records = {}
    BY <1>11, <1>12 DEF Flushed, ResultOK
<1>14. ~ lookup_in_cache(results, n)
    BY <1>13 DEF lookup_in_cache, has_record_of_type, DesiredTypes
<1>15. ~ (i # None /\ L[i].times_repeated >= MaxRepeats)
    BY <1>12 DEF MaxRepeats
<1>16. /\ cache' = results /\ pending' = L /\ UNCHANGED <<network, lost, drawn>>
       /\ \/ no_connection /\ (SettleAndAttach(p, Resolved(OwnRecords(n)), None) \/ SettleAndAttach(p, Rejected, None))
          \/ has_connection /\ SettleAndAttach(L[i].promise, Unsettled, None)
    BY <1>1, <1>7, <1>10, <1>12, <1>13, <1>14, <1>15, Zenon DEF lookup
<1>17. L[i].promise = p
    BY <1>3, <1>5, <1>7, <1>9
<1>18. (\E o \in Outcome : GaveUp(i, results, o)) \/ WaitsOn(i)
    <2>1. CASE has_connection /\ SettleAndAttach(L[i].promise, Unsettled, None)
        BY <1>9, <1>17, <2>1, Zenon DEF WaitsOn, has_connection
    <2>2. PICK o1 \in Outcome, o2 \in Outcome : o1 = Resolved(OwnRecords(n)) /\ o2 = Rejected
        BY OwnRecordsAre, ResolvedIs, Outcomes
    <2>3. CASE no_connection /\ SettleAndAttach(p, Resolved(OwnRecords(n)), None)
        <3>1. GaveUp(i, results, o1)
            BY <1>9, <2>2, <2>3, Zenon DEF GaveUp, AtOnce, no_connection
        <3> QED BY <3>1
    <2>4. CASE no_connection /\ SettleAndAttach(p, Rejected, None)
        <3>1. GaveUp(i, results, o2)
            BY <1>9, <2>2, <2>4, Zenon DEF GaveUp, AtOnce, no_connection
        <3> QED BY <3>1
    <2> QED BY <1>16, <2>1, <2>3, <2>4
<1> QED BY <1>1, <1>8, <1>16, <1>18

-----------------------------------------------------------------------------
(* Lookups match results, whichever ids are drawn. *)

(* A lookup() that starts nothing: the cache is flushed, and a timer may   *)
(* have fired.                                                             *)
LEMMA KeepBase ==
    ASSUME Base, NEW results, Flushed(results), cache' = results, Same(pending'),
           UNCHANGED <<network, lost, drawn>>, socket' \in {"none", "open"},
           promise' \in [Callers -> Promise], heard' \in [Callers -> Seq(Outcome)],
           asked' \in [Callers -> Names \cup {None}]
    PROVE  Base'
<1>1. TypeOK'
    BY DEF Base, Inv, TypeOK, Flushed, Same
<1>2. LookupsMatchResults'
    <2>1. ASSUME NEW m \in DOMAIN cache', ~ cache'[m].done
          PROVE  cache'[m].id \in DOMAIN pending' /\ pending'[cache'[m].id].name = m
        <3>1. m \in DOMAIN cache /\ ~ cache[m].done /\ cache'[m].id = cache[m].id
            BY <2>1 DEF Flushed
        <3> QED BY <3>1 DEF Base, Inv, LookupsMatchResults, Same
    <2>2. ASSUME NEW j \in DOMAIN pending', NEW m, m = pending'[j].name
          PROVE  m \in DOMAIN cache' /\ ~ cache'[m].done /\ cache'[m].id = j
        <3>1. m = pending[j].name /\ j \in DOMAIN pending
            BY <2>2 DEF Same
        <3>2. m \in DOMAIN cache /\ ~ cache[m].done /\ cache[m].id = j
            BY <3>1 DEF Base, Inv, LookupsMatchResults
        <3> QED BY <3>2 DEF Flushed
    <2> QED BY <2>1, <2>2 DEF LookupsMatchResults
<1>3. (\A n \in DOMAIN cache : ResultOK(cache[n]))'
    BY DEF Flushed, ResultOK
<1>4. (\A i \in DOMAIN pending : LookupOK(pending[i]))'
    BY DEF Base, Same, LookupOK
<1> QED BY <1>1, <1>2, <1>3, <1>4 DEF Base, Inv

(* A lookup() that starts one keeps Base: its id is that of no other.      *)
LEMMA StartBase ==
    ASSUME Base, NEW c \in Callers, NEW n \in Names, NEW results, Flushed(results),
           NEW i \in Ids, NEW written \in BOOLEAN, Started(c, n, results, i, written),
           asked' \in [Callers -> Names \cup {None}]
    PROVE  Base'
<1>1. PICK a : a = [valid |-> FALSE, done |-> FALSE, id |-> i, records |-> {}]
    BY Zenon
<1>2. a \in LookupResult /\ a.id = i /\ ~ a.done /\ ~ a.valid /\ a.records = {}
    BY <1>1, Zenon DEF LookupResult
<1>3. PICK l : l = [name |-> n, promise |-> c, running |-> written, times_repeated |-> 0]
    BY Zenon
<1>4. l \in PendingLookup /\ l.name = n /\ l.times_repeated = 0
    BY <1>3 DEF PendingLookup, MaxRepeats
<1>5. /\ cache' = Put(results, n, a) /\ pending' = Put(pending, i, l)
      /\ n \notin DOMAIN results /\ n \notin Literals /\ i \notin DOMAIN pending
      /\ drawn' = drawn \cup {[id |-> i, name |-> n, by |-> c]} /\ lost' = lost /\ socket' = "open"
    BY <1>1, <1>3, Zenon DEF Started
<1>6. /\ DOMAIN cache' = DOMAIN results \cup {n} /\ cache'[n] = a
      /\ \A m \in DOMAIN results : cache'[m] = results[m]
    BY <1>5 DEF Put
<1>7. /\ DOMAIN pending' = DOMAIN pending \cup {i} /\ pending'[i] = l
      /\ \A j \in DOMAIN pending : pending'[j] = pending[j]
    BY <1>5 DEF Put
<1>8. network' \in SUBSET Query
    <2>1. [id |-> i, name |-> n] \in Query /\ network \in SUBSET Query
        BY DEF Query, Base, Inv, TypeOK
    <2> QED BY <2>1, Zenon DEF Started
<1>9. promise' \in [Callers -> Promise] /\ heard' \in [Callers -> Seq(Outcome)]
    <2>1. PICK o \in Outcome \cup {Unsettled} : o = (IF written THEN Unsettled ELSE Rejected)
        BY Outcomes
    <2>2. SettleAndAttach(c, o, c)
        BY <2>1, Zenon DEF Started
    <2> QED BY <2>2, SettleTypes DEF Base, Inv
<1>10. TypeOK'
    <2>1. DOMAIN cache' \subseteq Names /\ \A m \in DOMAIN cache' : cache'[m] \in LookupResult
        BY <1>2, <1>6 DEF Flushed, Base, Inv, TypeOK
    <2>2. DOMAIN pending' \subseteq Ids /\ \A j \in DOMAIN pending' : pending'[j] \in PendingLookup
        BY <1>4, <1>7 DEF Base, Inv, TypeOK
    <2>3. drawn' \in SUBSET Draw
        <3>1. [id |-> i, name |-> n, by |-> c] \in Draw
            BY DEF Draw
        <3> QED BY <1>5, <3>1 DEF Base, Inv, TypeOK
    <2> QED BY <1>5, <1>8, <1>9, <2>1, <2>2, <2>3 DEF Base, Inv, TypeOK
<1>11. LookupsMatchResults'
    <2>1. ASSUME NEW m \in DOMAIN cache', ~ cache'[m].done
          PROVE  cache'[m].id \in DOMAIN pending' /\ pending'[cache'[m].id].name = m
        <3>1. CASE m = n
            BY <1>2, <1>4, <1>6, <1>7, <3>1
        <3>2. CASE m \in DOMAIN results
            BY <1>6, <1>7, <2>1, <3>2 DEF Flushed, Base, Inv, LookupsMatchResults
        <3> QED BY <1>6, <3>1, <3>2
    <2>2. ASSUME NEW j \in DOMAIN pending', NEW m, m = pending'[j].name
          PROVE  m \in DOMAIN cache' /\ ~ cache'[m].done /\ cache'[m].id = j
        <3>1. CASE j = i
            BY <1>2, <1>4, <1>6, <1>7, <2>2, <3>1
        <3>2. CASE j \in DOMAIN pending
            <4>1. m \in DOMAIN cache /\ ~ cache[m].done /\ cache[m].id = j
                BY <1>5, <1>7, <2>2, <3>2 DEF Base, Inv, LookupsMatchResults
            <4>2. m \in DOMAIN results
                BY <4>1 DEF Flushed
            <4> QED BY <1>6, <4>1, <4>2 DEF Flushed
        <3> QED BY <1>7, <3>1, <3>2
    <2> QED BY <2>1, <2>2 DEF LookupsMatchResults
<1>12. (\A m \in DOMAIN cache : ResultOK(cache[m]))'
    BY <1>2, <1>6 DEF Flushed, ResultOK
<1>13. (\A j \in DOMAIN pending : LookupOK(pending[j]))'
    BY <1>4, <1>5, <1>7 DEF Base, LookupOK
<1> QED BY <1>10, <1>11, <1>12, <1>13 DEF Base, Inv

(* What the answer to the query q does: it is matched by its id.           *)
Matched(q, result, o) ==
    /\ q.id \in DOMAIN pending /\ pending[q.id].name \in DOMAIN cache
    /\ cache' = [cache EXCEPT ![pending[q.id].name] = result]
    /\ pending' = Without(pending, {q.id})
    /\ SettleAndAttach(pending[q.id].promise, o, None)
    /\ result \in LookupResult /\ o \in Outcome
    /\ result.done /\ result.id = q.id /\ ResultOK(result)
    /\ \A r \in result.records : r.about = q.name /\ r.life # "expired"
    /\ \A r \in o.records : r.about = q.name /\ r.life # "expired"

(* Either that, or nothing.                                                *)
LEMMA AnswerDoes ==
    ASSUME Base, NEW q \in Query, process_incoming_messages(q)
    PROVE  \/ \E result, o : Matched(q, result, o)
           \/ UNCHANGED <<cache, pending, promise, heard>>
<1>1. PICK types \in SUBSET DesiredTypes, life \in {"fresh", "forever"} :
        LET answers == [type : types, about : {q.name}, life : {life}]
            l == pending[q.id]
            result == WithAnswers(cache[l.name], answers)
        IN  IF q.id \in DOMAIN pending /\ l.name \in DOMAIN cache
            THEN /\ cache' = [cache EXCEPT ![l.name] = result]
                 /\ pending' = Without(pending, {q.id})
                 /\ SettleAndAttach(l.promise, Resolved(result.records), None)
            ELSE UNCHANGED <<cache, pending, promise, heard>>
    BY Zenon DEF process_incoming_messages
<1>2. CASE ~ (q.id \in DOMAIN pending /\ pending[q.id].name \in DOMAIN cache)
    BY <1>1, <1>2, Zenon
<1>3. CASE q.id \in DOMAIN pending /\ pending[q.id].name \in DOMAIN cache
    <2>1. PICK answers : answers = [type : types, about : {q.name}, life : {life}]
        BY Zenon
    <2>2. answers \in SUBSET Record /\ \A r \in answers : r.about = q.name /\ r.life # "expired"
        BY <2>1 DEF Record, Query
    <2>3. PICK a \in LookupResult : a = cache[pending[q.id].name]
        BY <1>3 DEF Base, Inv, TypeOK
    <2>4. ~ a.done /\ ~ a.valid /\ a.records = {} /\ a.id = q.id
        BY <1>3, <2>3 DEF Base, Inv, LookupsMatchResults, ResultOK
    <2>5. PICK result : result = WithAnswers(a, answers)
        BY Zenon
    <2>6. PICK v \in BOOLEAN : v = (a.valid \/ answers # {})
        BY Zenon
    <2>7. result = [a EXCEPT !.valid = v, !.records = a.records \cup answers, !.done = TRUE]
        BY <2>5, <2>6 DEF WithAnswers
    <2>8. /\ result.valid = v /\ result.records = a.records \cup answers /\ result.done = TRUE
          /\ result.id = a.id
        BY <2>7, Zenon DEF LookupResult
    <2>9. result \in LookupResult
        <3>1. PICK rs \in SUBSET Record : rs = a.records \cup answers
            BY <2>2, <2>4
        <3>2. result = [a EXCEPT !.valid = v, !.records = rs, !.done = TRUE]
            BY <2>7, <3>1
        <3> QED BY <3>2, Zenon DEF LookupResult
    <2>10. result.records = answers
        BY <2>4, <2>8
    <2>11. PICK o : o = Resolved(result.records)
        BY Zenon
    <2>12. o \in Outcome /\ \A r \in o.records : r.about = q.name /\ r.life # "expired"
        BY <2>2, <2>10, <2>11, ResolvedIs
    <2>13. ResultOK(result)
        BY <2>4, <2>6, <2>8, <2>10, Zenon DEF ResultOK
    <2>14. /\ cache' = [cache EXCEPT ![pending[q.id].name] = result]
           /\ pending' = Without(pending, {q.id})
           /\ SettleAndAttach(pending[q.id].promise, o, None)
        BY <1>1, <1>3, <2>1, <2>3, <2>5, <2>11, Zenon
    <2>15. Matched(q, result, o)
        BY <1>3, <2>2, <2>4, <2>8, <2>9, <2>10, <2>12, <2>13, <2>14, Zenon DEF Matched
    <2> QED BY <2>15
<1> QED BY <1>2, <1>3

(* An answer that is matched keeps Base.                                   *)
LEMMA AnswerBase ==
    ASSUME Base, NEW q \in Query, NEW result, NEW o, Matched(q, result, o),
           network' \in SUBSET network, UNCHANGED <<socket, lost, drawn, asked>>
    PROVE  Base'
<1>1. PICK i \in Ids, n \in Names, p \in Callers :
          i = q.id /\ n = pending[i].name /\ p = pending[i].promise
    BY DEF Query, Matched, Base, Inv, TypeOK, PendingLookup
<1>2. /\ i \in DOMAIN pending /\ n \in DOMAIN cache
      /\ cache' = [cache EXCEPT ![n] = result] /\ pending' = Without(pending, {i})
      /\ SettleAndAttach(p, o, None)
      /\ result \in LookupResult /\ o \in Outcome /\ result.done /\ ResultOK(result)
    BY <1>1, Zenon DEF Matched
<1>3. promise' \in [Callers -> Promise] /\ heard' \in [Callers -> Seq(Outcome)]
    BY <1>2, SettleTypes DEF Base, Inv
<1>4. /\ DOMAIN cache' = DOMAIN cache /\ cache'[n] = result
      /\ \A m \in DOMAIN cache : m # n => cache'[m] = cache[m]
    BY <1>2
<1>5. DOMAIN pending' = DOMAIN pending \ {i} /\ \A j \in DOMAIN pending' : pending'[j] = pending[j]
    BY <1>2 DEF Without
<1>6. TypeOK'
    BY <1>2, <1>3, <1>4, <1>5 DEF Base, Inv, TypeOK
<1>7. LookupsMatchResults'
    <2>1. ASSUME NEW m \in DOMAIN cache', ~ cache'[m].done
          PROVE  cache'[m].id \in DOMAIN pending' /\ pending'[cache'[m].id].name = m
        <3>1. m # n /\ m \in DOMAIN cache /\ cache'[m] = cache[m]
            BY <1>2, <1>4, <2>1
        <3>2. cache[m].id \in DOMAIN pending /\ pending[cache[m].id].name = m
            BY <2>1, <3>1 DEF Base, Inv, LookupsMatchResults
        <3> QED BY <1>1, <1>5, <3>1, <3>2
    <2>2. ASSUME NEW j \in DOMAIN pending', NEW m, m = pending'[j].name
          PROVE  m \in DOMAIN cache' /\ ~ cache'[m].done /\ cache'[m].id = j
        <3>1. j # i /\ j \in DOMAIN pending /\ m = pending[j].name
            BY <1>5, <2>2
        <3>2. m \in DOMAIN cache /\ ~ cache[m].done /\ cache[m].id = j
            BY <3>1 DEF Base, Inv, LookupsMatchResults
        <3>3. m # n
            BY <1>1, <1>2, <3>1, <3>2 DEF Base, Inv, LookupsMatchResults
        <3> QED BY <1>4, <3>2, <3>3
    <2> QED BY <2>1, <2>2 DEF LookupsMatchResults
<1>8. (\A m \in DOMAIN cache : ResultOK(cache[m]))'
    BY <1>2, <1>4 DEF Base, ResultOK
<1>9. (\A j \in DOMAIN pending : LookupOK(pending[j]))'
    BY <1>5 DEF Base, LookupOK
<1> QED BY <1>6, <1>7, <1>8, <1>9 DEF Base, Inv

(* What the passing of a time to live does.                                *)
Aged(n, result) ==
    /\ n \in DOMAIN cache
    /\ cache' = [cache EXCEPT ![n] = result]
    /\ result \in LookupResult
    /\ result.id = cache[n].id /\ (result.done <=> cache[n].done) /\ ResultOK(result)
    /\ \A r \in result.records : \E s \in cache[n].records : r.about = s.about
    /\ UNCHANGED <<pending, socket, network, lost, drawn, promise, asked, heard>>

(* Only records expire; the result is valid until the next flush.          *)
LEMMA ExpireDoes ==
    ASSUME Base, NEW n \in Names, Expire(n)
    PROVE  \E result : Aged(n, result)
<1>1. n \in DOMAIN cache /\ UNCHANGED <<pending, socket, network, lost, drawn, promise, asked, heard>>
    BY DEF Expire
<1>2. PICK r \in cache[n].records :
          cache' = [cache EXCEPT ![n].records = (@ \ {r}) \cup {[r EXCEPT !.life = "expired"]}]
    BY DEF Expire
<1>3. PICK a \in LookupResult : a = cache[n] /\ ResultOK(a)
    BY <1>1 DEF Base, Inv, TypeOK
<1>4. PICK e : e = [r EXCEPT !.life = "expired"]
    BY Zenon
<1>5. r \in Record /\ a.records \in SUBSET Record
    BY <1>2, <1>3 DEF LookupResult
<1>6. e \in Record /\ e.about = r.about
    BY <1>4, <1>5 DEF Record
<1>7. PICK rs \in SUBSET Record : rs = (a.records \ {r}) \cup {e}
    BY <1>5, <1>6
<1>8. PICK b : b = [a EXCEPT !.records = rs]
    BY Zenon
<1>9. b \in LookupResult /\ b.records = rs /\ b.id = a.id /\ b.done = a.done /\ b.valid = a.valid
    BY <1>8, Zenon DEF LookupResult
<1>10. a.valid
    BY <1>2, <1>3 DEF ResultOK
<1>11. ResultOK(b)
    BY <1>3, <1>9, <1>10, Zenon DEF ResultOK
<1>12. cache' = [cache EXCEPT ![n] = b]
    BY <1>2, <1>3, <1>4, <1>7, <1>8
<1>13. \A s \in b.records : \E t \in cache[n].records : s.about = t.about
    BY <1>2, <1>3, <1>6, <1>7, <1>9
<1>14. Aged(n, b)
    BY <1>1, <1>3, <1>9, <1>11, <1>12, <1>13, Zenon DEF Aged
<1> QED BY <1>14

(* The passing of time keeps Base.                                         *)
LEMMA ExpireBase ==
    ASSUME Base, NEW n \in Names, NEW result, Aged(n, result)
    PROVE  Base'
<1>1. /\ DOMAIN cache' = DOMAIN cache /\ cache'[n] = result
      /\ \A m \in DOMAIN cache : m # n => cache'[m] = cache[m]
    BY DEF Aged
<1>2. TypeOK'
    BY <1>1 DEF Aged, Base, Inv, TypeOK
<1>3. LookupsMatchResults'
    BY <1>1 DEF Aged, Base, Inv, LookupsMatchResults
<1>4. (\A m \in DOMAIN cache : ResultOK(cache[m]))'
    BY <1>1 DEF Aged, Base, ResultOK
<1>5. (\A j \in DOMAIN pending : LookupOK(pending[j]))'
    BY DEF Aged, Base, LookupOK
<1> QED BY <1>2, <1>3, <1>4, <1>5 DEF Base, Inv

(* What is lost on the way, or with the connection, was no lookup's state. *)
LEMMA LoseBase ==
    ASSUME Base, network' \in SUBSET network, lost' \in SUBSET Query, socket' \in {"none", "open"},
           UNCHANGED <<cache, pending, drawn, promise, asked, heard>>
    PROVE  Base'
BY DEF Base, Inv, TypeOK, LookupsMatchResults, ResultOK, LookupOK

(* Every step keeps Base.                                                  *)
LEMMA BaseStep == Base /\ [Next]_vars => Base'
<1> SUFFICES ASSUME Base, [Next]_vars PROVE Base'
    OBVIOUS
<1>1. PICK results : results = flush_cache
    BY Zenon
<1>2. Flushed(results)
    BY <1>1, Flush
<1>3. TypeOK
    BY DEF Base, Inv
<1>4. ASSUME NEW c \in Callers, NEW n \in Hosts[c], Ask(c, n) PROVE Base'
    <2>1. n \in Names /\ lookup(pending, c, n, None, c) /\ asked' \in [Callers -> Names \cup {None}]
        BY <1>3, <1>4, ResolverAssumption DEF Ask, TypeOK
    <2>2. Same(pending)
        BY <1>3 DEF Same, TypeOK
    <2>3. ASSUME NEW o \in Outcome, Answered(c, n, results, o) PROVE Base'
        <3>1. promise' \in [Callers -> Promise] /\ heard' \in [Callers -> Seq(Outcome)]
            BY <1>3, <2>3, SettleTypes DEF Answered
        <3>2. /\ cache' = results /\ Same(pending') /\ UNCHANGED <<network, lost, drawn>>
              /\ socket' \in {"none", "open"}
            BY <1>3, <2>2, <2>3 DEF Answered, TypeOK
        <3> QED BY <1>2, <2>1, <3>1, <3>2, KeepBase
    <2>4. ASSUME NEW i \in Ids, Joined(c, n, results, i) PROVE Base'
        <3>1. PICK p \in Callers : p = pending[i].promise
            BY <1>3, <2>4 DEF Joined, TypeOK, PendingLookup
        <3>2. SettleAndAttach(p, Unsettled, c)
            BY <2>4, <3>1 DEF Joined
        <3>3. promise' \in [Callers -> Promise] /\ heard' \in [Callers -> Seq(Outcome)]
            BY <1>3, <3>2, SettleTypes
        <3>4. /\ cache' = results /\ Same(pending') /\ UNCHANGED <<network, lost, drawn>>
              /\ socket' \in {"none", "open"}
            BY <2>2, <2>4 DEF Joined
        <3> QED BY <1>2, <2>1, <3>3, <3>4, KeepBase
    <2>5. ASSUME NEW i \in Ids, NEW written \in BOOLEAN, Started(c, n, results, i, written) PROVE Base'
        BY <1>2, <2>1, <2>5, StartBase
    <2> QED BY <1>1, <2>1, <2>3, <2>4, <2>5, AskDoes
<1>5. ASSUME NEW i \in Ids, Timeout(i) PROVE Base'
    <2>1. /\ i \in DOMAIN pending
          /\ Same(pending')
          /\ cache' = results /\ UNCHANGED <<network, lost, drawn, asked>>
          /\ (\E o \in Outcome : GaveUp(i, results, o)) \/ WaitsOn(i)
        BY <1>1, <1>5, TimeoutDoes
    <2>2. PICK p \in Callers : p = pending[i].promise
        BY <1>3, <2>1 DEF TypeOK, PendingLookup
    <2>3. PICK o \in Outcome \cup {Unsettled} : SettleAndAttach(p, o, None)
        BY <2>1, <2>2 DEF GaveUp, WaitsOn
    <2>4. promise' \in [Callers -> Promise] /\ heard' \in [Callers -> Seq(Outcome)]
        BY <1>3, <2>3, SettleTypes
    <2>5. socket' \in {"none", "open"} /\ asked' \in [Callers -> Names \cup {None}]
        BY <1>3, <2>1 DEF GaveUp, WaitsOn, TypeOK
    <2> QED BY <1>2, <2>1, <2>4, <2>5, KeepBase
<1>6. ASSUME NEW q \in Query, process_incoming_messages(q) PROVE Base'
    <2>1. network' \in SUBSET network /\ UNCHANGED <<socket, lost, drawn, asked>>
        BY <1>6 DEF process_incoming_messages
    <2>2. CASE UNCHANGED <<cache, pending, promise, heard>>
        BY <1>3, <2>1, <2>2, LoseBase DEF TypeOK
    <2>3. ASSUME NEW result, NEW o, Matched(q, result, o) PROVE Base'
        BY <2>1, <2>3, AnswerBase
    <2> QED BY <1>6, <2>2, <2>3, AnswerDoes
<1>7. ASSUME NEW q \in Query, Lose(q) PROVE Base'
    BY <1>3, <1>7, LoseBase DEF Lose, WaitedFor, TypeOK
<1>8. CASE reset_connection
    BY <1>3, <1>8, LoseBase DEF reset_connection, WaitedFor, TypeOK
<1>9. ASSUME NEW n \in Names, Expire(n) PROVE Base'
    BY <1>9, ExpireDoes, ExpireBase
<1>10. CASE UNCHANGED vars
    BY <1>3, <1>10, LoseBase DEF vars, TypeOK
<1> QED BY <1>4, <1>5, <1>6, <1>7, <1>8, <1>9, <1>10 DEF Next

(* Nothing is in the cache at first.                                       *)
LEMMA BaseInit == Init => Base
<1> SUFFICES ASSUME Init PROVE Base
    OBVIOUS
<1>1. DOMAIN cache = {} /\ DOMAIN pending = {} /\ network = {}
    BY DEF Init
<1>2. promise \in [Callers -> Promise]
    BY DEF Init, Promise
<1>3. TypeOK
    BY <1>1, <1>2 DEF Init, TypeOK
<1> QED BY <1>1, <1>3 DEF Base, Inv, LookupsMatchResults

(* A result is waiting for its answer exactly while the lookup with its id *)
(* is under way, for any callers, names, ids and faults, ids drawn twice   *)
(* included: the branch of lookup() where "something has gone wrong" is    *)
(* never taken, and the weak pointer of a lookup is good.                  *)
THEOREM LookupsAndResultsMatch == Spec => []Inv
<1>1. Base => Inv
    BY DEF Base
<1> QED BY <1>1, BaseInit, BaseStep, PTL DEF Spec

-----------------------------------------------------------------------------
(* Callbacks. *)

(* The promises after p has got the outcome o and the callbacks of h.      *)
Becomes(p, o, h) ==
    \A x \in Callers :
        /\ promise'[x].outcome = IF x = p THEN o ELSE promise[x].outcome
        /\ promise'[x].handler = IF x = p THEN h ELSE promise[x].handler

(* What Calls gives, for the two callers that it may concern.              *)
LEMMA CallsAre ==
    ASSUME NEW p, NEW o, NEW now, NEW c, NEW x
    PROVE  /\ ~ (x = promise[p].handler /\ Settled(o)) /\ ~ (x = c /\ Settled(now)) =>
                  Calls(p, o, now, c, x) = <<>>
           /\ ~ (x = promise[p].handler /\ Settled(o)) /\ (x = c /\ Settled(now)) =>
                  Calls(p, o, now, c, x) = <<now>>
           /\ (x = promise[p].handler /\ Settled(o)) /\ ~ (x = c /\ Settled(now)) =>
                  Calls(p, o, now, c, x) = <<o>>
<1>1. <<now>> \in Seq({now, o}) /\ <<o>> \in Seq({now, o}) /\ <<>> \in Seq({now, o})
    OBVIOUS
<1>2. /\ <<>> \o <<>> = <<>> /\ <<>> \o <<now>> = <<now>> /\ <<o>> \o <<>> = <<o>>
    BY <1>1, ConcatEmptySeq
<1> DEFINE A == x = promise[p].handler /\ Settled(o)
           B == x = c /\ Settled(now)
<1>3. Calls(p, o, now, c, x) = (IF A THEN <<o>> ELSE <<>>) \o (IF B THEN <<now>> ELSE <<>>)
    BY Zenon DEF Calls
<1> HIDE DEF A, B
<1>4. /\ ~ A /\ ~ B => Calls(p, o, now, c, x) = <<>>
      /\ ~ A /\ B => Calls(p, o, now, c, x) = <<now>>
      /\ A /\ ~ B => Calls(p, o, now, c, x) = <<o>>
    BY <1>2, <1>3
<1> QED BY <1>4, Zenon DEF A, B

(* A promise that its caller has just made.                                *)
LEMMA SettleOwn ==
    ASSUME TypeOK, \A x \in Callers : CallerOK(x), NEW c \in Callers, asked[c] = None,
           NEW n \in Names, asked' = [asked EXCEPT ![c] = n],
           NEW o \in Outcome \cup {Unsettled}, SettleAndAttach(c, o, c),
           drawn \subseteq drawn', RightFor(drawn', o.records, n)
    PROVE  Becomes(c, o, c) /\ \A x \in Callers : CallerOK(x)'
<1>1. /\ promise \in [Callers -> Promise] /\ heard \in [Callers -> Seq(Outcome)]
      /\ asked \in [Callers -> Names \cup {None}]
    BY DEF TypeOK
<1>2. /\ heard[c] = <<>> /\ promise[c].outcome = Unmade /\ promise[c].handler = None
      /\ \A p \in Callers : promise[p].handler # c
    BY DEF CallerOK
<1>3. c # None /\ n # None
    BY ResolverAssumption
<1>4. promise' = [promise EXCEPT ![c] = [outcome |-> o, handler |-> c]]
    BY <1>2, <1>3 DEF SettleAndAttach
<1>5. Becomes(c, o, c)
    BY <1>1, <1>4 DEF Becomes
<1>6. \A x \in Callers : x # None
    BY ResolverAssumption
<1>7. \A x \in Callers : heard'[x] = heard[x] \o Calls(c, o, o, c, x)
    BY <1>2 DEF SettleAndAttach
<1>8. ASSUME NEW x \in Callers, x # c PROVE heard'[x] = heard[x]
    <2>1. Calls(c, o, o, c, x) = <<>>
        BY <1>2, <1>6, <1>8, CallsAre
    <2> QED BY <1>1, <1>7, <2>1, ConcatEmptySeq
<1>9. heard'[c] = IF Settled(o) THEN <<o>> ELSE <<>>
    <2>1. Calls(c, o, o, c, c) = IF Settled(o) THEN <<o>> ELSE <<>>
        BY <1>2, <1>3, CallsAre
    <2> QED BY <1>2, <1>7, <2>1
<1>10. asked'[c] = n /\ \A x \in Callers : x # c => asked'[x] = asked[x]
    BY <1>1
<1>11. CallerOK(c)'
    <2>1. /\ Len(heard'[c]) <= 1 /\ \A k \in DOMAIN heard'[c] : heard'[c][k] = o
          /\ ~ Settled(o) => heard'[c] = <<>>
        BY <1>9
    <2>2. promise'[c].outcome = o
        BY <1>5 DEF Becomes
    <2>3. \A p \in Callers : promise'[p].handler = c => p = c
        BY <1>2, <1>5 DEF Becomes
    <2> QED BY <1>3, <1>10, <2>1, <2>2, <2>3 DEF CallerOK
<1>12. ASSUME NEW x \in Callers, x # c PROVE CallerOK(x)'
    <2>1. CallerOK(x) /\ heard'[x] = heard[x] /\ asked'[x] = asked[x]
        BY <1>8, <1>10, <1>12
    <2>2. promise'[x].outcome = promise[x].outcome /\ promise'[x].handler = promise[x].handler
        BY <1>5, <1>12 DEF Becomes
    <2>3. \A p \in Callers : promise'[p].handler = x =>
              p # c /\ promise[p].handler = x /\ promise'[p].outcome = promise[p].outcome
        BY <1>5, <1>12 DEF Becomes
    <2>4. /\ Len(heard'[x]) <= 1 \/ Shares(drawn', asked'[x])
          /\ \A k \in DOMAIN heard'[x] : RightFor(drawn', heard'[x][k].records, asked'[x])
        BY <2>1, DrawsGrow DEF CallerOK
    <2> QED BY <2>1, <2>2, <2>3, <2>4 DEF CallerOK
<1> QED BY <1>5, <1>11, <1>12

(* The promise of a lookup that a caller joins: the callbacks of another   *)
(* may be replaced.                                                        *)
LEMMA SettleJoin ==
    ASSUME TypeOK, \A x \in Callers : CallerOK(x), NEW c \in Callers, asked[c] = None,
           NEW n \in Names, asked' = [asked EXCEPT ![c] = n],
           NEW p \in Callers, promise[p].outcome # Unmade, asked[p] # None,
           RightFor(drawn, promise[p].outcome.records, n), UNCHANGED drawn,
           SettleAndAttach(p, Unsettled, c)
    PROVE  Becomes(p, promise[p].outcome, c) /\ \A x \in Callers : CallerOK(x)'
<1>1. /\ promise \in [Callers -> Promise] /\ heard \in [Callers -> Seq(Outcome)]
      /\ asked \in [Callers -> Names \cup {None}]
    BY DEF TypeOK
<1>2. /\ heard[c] = <<>> /\ promise[c].outcome = Unmade /\ promise[c].handler = None
      /\ \A q \in Callers : promise[q].handler # c
    BY DEF CallerOK
<1>3. c # None /\ n # None /\ p # c
    BY ResolverAssumption
<1>4. PICK now : now = promise[p].outcome
    BY Zenon
<1>5. promise' = [promise EXCEPT ![p] = [outcome |-> now, handler |-> c]]
    BY <1>3, <1>4, Outcomes DEF SettleAndAttach
<1>6. Becomes(p, now, c)
    BY <1>1, <1>5 DEF Becomes
<1>7. \A x \in Callers : heard'[x] = heard[x] \o Calls(p, Unsettled, now, c, x)
    BY <1>4, Outcomes DEF SettleAndAttach
<1>8. ASSUME NEW x \in Callers, x # c PROVE heard'[x] = heard[x]
    <2>1. Calls(p, Unsettled, now, c, x) = <<>>
        BY <1>8, Outcomes, CallsAre
    <2> QED BY <1>1, <1>7, <2>1, ConcatEmptySeq
<1>9. heard'[c] = IF Settled(now) THEN <<now>> ELSE <<>>
    <2>1. Calls(p, Unsettled, now, c, c) = IF Settled(now) THEN <<now>> ELSE <<>>
        BY Outcomes, CallsAre
    <2> QED BY <1>2, <1>7, <2>1
<1>10. asked'[c] = n /\ \A x \in Callers : x # c => asked'[x] = asked[x]
    BY <1>1
<1>11. RightFor(drawn, now.records, n)
    BY <1>4
<1>12. CallerOK(c)'
    <2>1. /\ Len(heard'[c]) <= 1 /\ \A k \in DOMAIN heard'[c] : heard'[c][k] = now
          /\ ~ Settled(now) => heard'[c] = <<>>
        BY <1>9
    <2>2. promise'[c].outcome = Unmade /\ promise'[p].outcome = now
        BY <1>2, <1>3, <1>6 DEF Becomes
    <2>3. \A q \in Callers : promise'[q].handler = c => q = p
        BY <1>2, <1>6 DEF Becomes
    <2> QED BY <1>3, <1>10, <1>11, <2>1, <2>2, <2>3 DEF CallerOK
<1>13. ASSUME NEW x \in Callers, x # c PROVE CallerOK(x)'
    <2>1. CallerOK(x) /\ heard'[x] = heard[x] /\ asked'[x] = asked[x]
        BY <1>8, <1>10, <1>13
    <2>2. promise'[x].outcome = promise[x].outcome
        BY <1>4, <1>6 DEF Becomes
    <2>3. asked[x] = None => promise'[x].handler = promise[x].handler
        BY <1>3, <1>6 DEF Becomes
    <2>4. \A q \in Callers : promise'[q].handler = x =>
              q # p /\ promise[q].handler = x /\ promise'[q].outcome = promise[q].outcome
        BY <1>6, <1>13 DEF Becomes
    <2> QED BY <2>1, <2>2, <2>3, <2>4 DEF CallerOK
<1> QED BY <1>4, <1>6, <1>12, <1>13

(* The promise of a lookup that is over.  If it was settled before, those  *)
(* it calls again share their ids.                                         *)
LEMMA SettlePending ==
    ASSUME TypeOK, \A x \in Callers : CallerOK(x), UNCHANGED <<asked, drawn>>,
           NEW p \in Callers, promise[p].outcome # Unmade, asked[p] # None,
           \A x \in Callers : promise[p].handler = x =>
               promise[p].outcome = Unsettled \/ Shares(drawn, asked[x]),
           NEW o \in Outcome,
           \A x \in Callers : promise[p].handler = x => RightFor(drawn, o.records, asked[x]),
           SettleAndAttach(p, o, None)
    PROVE  Becomes(p, o, promise[p].handler) /\ \A x \in Callers : CallerOK(x)'
<1>1. promise \in [Callers -> Promise] /\ heard \in [Callers -> Seq(Outcome)]
    BY DEF TypeOK
<1>2. PICK h : h = promise[p].handler
    BY Zenon
<1>3. Settled(o)
    BY Outcomes
<1>4. promise' = [promise EXCEPT ![p] = [outcome |-> o, handler |-> h]]
    BY <1>2, <1>3 DEF SettleAndAttach
<1>5. Becomes(p, o, h)
    BY <1>1, <1>4 DEF Becomes
<1>6. \A x \in Callers : x # None
    BY ResolverAssumption
<1>7. \A x \in Callers : heard'[x] = heard[x] \o Calls(p, o, o, None, x)
    BY <1>3 DEF SettleAndAttach
<1>8. ASSUME NEW x \in Callers, x # h PROVE heard'[x] = heard[x]
    <2>1. Calls(p, o, o, None, x) = <<>>
        BY <1>2, <1>6, <1>8, CallsAre
    <2> QED BY <1>1, <1>7, <2>1, ConcatEmptySeq
<1>9. ASSUME NEW x \in Callers, x = h PROVE heard'[x] = heard[x] \o <<o>>
    <2>1. Calls(p, o, o, None, x) = <<o>>
        BY <1>2, <1>3, <1>6, <1>9, CallsAre
    <2> QED BY <1>7, <2>1
<1>10. ASSUME NEW x \in Callers, x = h
       PROVE  /\ Len(heard'[x]) <= 1 \/ Shares(drawn', asked'[x])
              /\ \A k \in DOMAIN heard'[x] : RightFor(drawn', heard'[x][k].records, asked'[x])
    <2>1. asked'[x] = asked[x] /\ drawn' = drawn /\ heard[x] \in Seq(Outcome) /\ CallerOK(x)
        BY <1>1
    <2>2. Len(heard'[x]) <= 1 \/ Shares(drawn, asked[x])
        <3>1. CASE promise[p].outcome = Unsettled
            <4>1. heard[x] = <<>>
                BY <1>2, <1>10, <2>1, <3>1, Outcomes DEF CallerOK
            <4>2. heard'[x] = <<o>>
                BY <1>9, <1>10, <4>1
            <4> QED BY <4>2
        <3>2. CASE Shares(drawn, asked[x])
            BY <3>2
        <3> QED BY <1>2, <1>10, <3>1, <3>2
    <2>3. ASSUME NEW k \in DOMAIN heard'[x] PROVE RightFor(drawn, heard'[x][k].records, asked[x])
        <3>1. heard'[x][k] = o \/ (k \in DOMAIN heard[x] /\ heard'[x][k] = heard[x][k])
            BY <1>9, <1>10, <2>1
        <3> QED BY <1>2, <1>10, <2>1, <3>1 DEF CallerOK
    <2> QED BY <2>1, <2>2, <2>3
<1>11. ASSUME NEW x \in Callers PROVE CallerOK(x)'
    <2>2. \A q \in Callers : promise'[q].handler = promise[q].handler
        BY <1>2, <1>5 DEF Becomes
    <2>3. asked[x] = None => promise'[x].outcome = promise[x].outcome
        BY <1>5 DEF Becomes
    <2>4. \A q \in Callers : ~ Settled(promise'[q].outcome) =>
              q # p /\ promise'[q].outcome = promise[q].outcome
        BY <1>3, <1>5 DEF Becomes
    <2>5. CASE x = h
        <3>1. asked[x] # None /\ \A q \in Callers : promise'[q].handler = x => q = p
            BY <1>2, <2>2, <2>5 DEF CallerOK
        <3> QED BY <1>3, <1>10, <2>4, <2>5, <3>1 DEF CallerOK
    <2>6. CASE x # h
        BY <1>8, <2>2, <2>3, <2>4, <2>6 DEF CallerOK
    <2> QED BY <2>5, <2>6
<1> QED BY <1>2, <1>5, <1>11

(* A timer that finds the lookup under way does nothing to its promise.    *)
LEMMA SettleNothing ==
    ASSUME TypeOK, \A x \in Callers : CallerOK(x), UNCHANGED <<asked, drawn>>,
           NEW p \in Callers, promise[p].outcome # Unmade, SettleAndAttach(p, Unsettled, None)
    PROVE  Becomes(p, promise[p].outcome, promise[p].handler) /\ \A x \in Callers : CallerOK(x)'
<1>1. promise \in [Callers -> Promise] /\ heard \in [Callers -> Seq(Outcome)]
    BY DEF TypeOK
<1>2. PICK h, o : h = promise[p].handler /\ o = promise[p].outcome
    BY Zenon
<1>3. promise' = [promise EXCEPT ![p] = [outcome |-> o, handler |-> h]]
    BY <1>2, Outcomes DEF SettleAndAttach
<1>4. Becomes(p, o, h)
    BY <1>1, <1>3 DEF Becomes
<1>5. \A x \in Callers : x # None
    BY ResolverAssumption
<1>6. \A x \in Callers : heard'[x] = heard[x] \o Calls(p, Unsettled, o, None, x)
    BY <1>2, Outcomes DEF SettleAndAttach
<1>7. ASSUME NEW x \in Callers PROVE heard'[x] = heard[x]
    <2>1. Calls(p, Unsettled, o, None, x) = <<>>
        BY <1>5, Outcomes, CallsAre
    <2> QED BY <1>1, <1>6, <2>1, ConcatEmptySeq
<1>8. \A x \in Callers : /\ promise'[x].handler = promise[x].handler
                         /\ promise'[x].outcome = promise[x].outcome
    BY <1>2, <1>4 DEF Becomes
<1>9. \A x \in Callers : CallerOK(x)'
    BY <1>7, <1>8 DEF CallerOK
<1> QED BY <1>2, <1>4, <1>9

-----------------------------------------------------------------------------
(* What callers are told, and how often. *)

(* The flushed cache keeps what is known of ids.                           *)
LEMMA FlushIds ==
    ASSUME TypeOK, IdsOK, NEW results, Flushed(results), cache' = results,
           UNCHANGED <<network, drawn>>, socket' = "none" => socket = "none",
           \A x \in Callers : asked[x] # None => asked'[x] # None
    PROVE  IdsOK'
<1>1. ASSUME NEW n \in DOMAIN results
      PROVE  n \in DOMAIN cache /\ results[n].id = cache[n].id /\ results[n].records \subseteq cache[n].records
    BY DEF Flushed
<1>2. \A d \in drawn : asked'[d.by] # None
    BY DEF IdsOK, TypeOK, Draw
<1> QED BY <1>1, <1>2 DEF IdsOK

(* An outcome at once is right for the name.                               *)
LEMMA AtOnceIsRight ==
    ASSUME IdsOK, NEW results, Flushed(results), NEW n \in Names, NEW o, AtOnce(o, results, n)
    PROVE  RightFor(drawn, o.records, n)
<1>1. CASE o = Rejected
    BY <1>1, Outcomes, DrawsMean
<1>2. CASE o = Resolved(OwnRecords(n))
    BY <1>2, OwnRecordsAre, ResolvedIs DEF RightFor
<1>3. CASE n \in DOMAIN results /\ o = Resolved(results[n].records)
    <2>1. PICK rs \in SUBSET Record, i \in Ids : rs = results[n].records /\ i = results[n].id
        BY <1>3 DEF Flushed, LookupResult
    <2>2. Stood(drawn, i, n) /\ \A r \in rs : Stood(drawn, i, r.about) /\ r.life # "expired"
        BY <1>3, <2>1 DEF Flushed, IdsOK
    <2>3. Under(drawn, o.records, i)
        BY <1>3, <2>1, <2>2, ResolvedIs DEF Under
    <2> QED BY <2>2, <2>3, DrawsMean
<1> QED BY <1>1, <1>2, <1>3 DEF AtOnce

(* What lookup() by a caller keeps.                                        *)
LEMMA AskStep ==
    ASSUME IInv, NEW c \in Callers, NEW n \in Hosts[c], Ask(c, n)
    PROVE  /\ IdsOK'
           /\ \A i \in DOMAIN pending' : PendingOK(i)'
           /\ \A x \in Callers : CallerOK(x)'
<1>1. PICK results : results = flush_cache
    BY Zenon
<1>2. Flushed(results)
    BY <1>1, Flush DEF IInv
<1>3. TypeOK /\ IdsOK /\ Base /\ (\A x \in Callers : CallerOK(x))
    BY DEF IInv, Base, Inv
<1>4. /\ n \in Names /\ lookup(pending, c, n, None, c)
      /\ asked[c] = None /\ asked' = [asked EXCEPT ![c] = n]
    BY <1>3, ResolverAssumption DEF Ask, TypeOK
<1>5. /\ asked'[c] = n /\ \A x \in Callers : x # c => asked'[x] = asked[x]
      /\ \A x \in Callers : asked[x] # None => asked'[x] # None
    BY <1>3, <1>4 DEF TypeOK
<1>6. ASSUME NEW j \in DOMAIN pending
      PROVE  /\ pending[j].promise \in Callers \ {c} /\ PendingOK(j)
             /\ \A x \in Callers : promise[pending[j].promise].handler = x => x # c
             /\ pending[j].name \in Names
    <2>1. PendingOK(j) /\ pending[j].promise \in Callers /\ pending[j].name \in Names
        BY <1>3 DEF IInv, TypeOK, PendingLookup
    <2>2. asked[pending[j].promise] # None
        BY <2>1 DEF PendingOK
    <2> QED BY <1>3, <1>4, <2>1, <2>2 DEF CallerOK
<1>7. ASSUME NEW o \in Outcome, Answered(c, n, results, o)
      PROVE  /\ IdsOK'
             /\ \A i \in DOMAIN pending' : PendingOK(i)'
             /\ \A x \in Callers : CallerOK(x)'
    <2>1. RightFor(drawn, o.records, n) /\ drawn' = drawn
        BY <1>2, <1>3, <1>4, <1>7, AtOnceIsRight DEF Answered
    <2>2. Becomes(c, o, c) /\ \A x \in Callers : CallerOK(x)'
        BY <1>3, <1>4, <1>7, <2>1, SettleOwn DEF Answered
    <2>3. IdsOK'
        BY <1>2, <1>3, <1>5, <1>7, FlushIds DEF Answered
    <2>4. ASSUME NEW j \in DOMAIN pending PROVE PendingOK(j)'
        <3>1. pending' = pending /\ network' = network
            BY <1>7 DEF Answered
        <3>2. PICK p \in Callers \ {c} : p = pending[j].promise
            BY <1>6
        <3>3. /\ promise'[p].outcome = promise[p].outcome /\ promise'[p].handler = promise[p].handler
              /\ asked'[p] = asked[p]
            BY <1>5, <2>2, <3>2 DEF Becomes
        <3> QED BY <1>5, <1>6, <2>1, <3>1, <3>2, <3>3 DEF PendingOK
    <2> QED BY <1>7, <2>2, <2>3, <2>4 DEF Answered
<1>8. ASSUME NEW i \in Ids, Joined(c, n, results, i)
      PROVE  /\ IdsOK'
             /\ \A j \in DOMAIN pending' : PendingOK(j)'
             /\ \A x \in Callers : CallerOK(x)'
    <2>1. i \in DOMAIN pending /\ pending' = pending /\ network' = network /\ drawn' = drawn
        BY <1>8 DEF Joined
    <2>2. Stood(drawn, i, n)
        BY <1>2, <1>3, <1>8 DEF Joined, Flushed, IdsOK
    <2>3. PICK p \in Callers \ {c} : p = pending[i].promise
        BY <1>6, <2>1
    <2>4. /\ promise[p].outcome # Unmade /\ asked[p] # None
          /\ Under(drawn, promise[p].outcome.records, i) /\ SettleAndAttach(p, Unsettled, c)
        BY <1>6, <1>8, <2>1, <2>3 DEF PendingOK, Joined
    <2>10. RightFor(drawn, promise[p].outcome.records, n)
        BY <2>2, <2>4, DrawsMean
    <2>5. Becomes(p, promise[p].outcome, c) /\ \A x \in Callers : CallerOK(x)'
        BY <1>3, <1>4, <2>1, <2>4, <2>10, SettleJoin
    <2>6. IdsOK'
        BY <1>2, <1>3, <1>5, <1>8, FlushIds DEF Joined
    <2>7. ASSUME NEW j \in DOMAIN pending PROVE PendingOK(j)'
        <3>1. PICK pj \in Callers \ {c} : pj = pending[j].promise
            BY <1>6
        <3>2. promise'[pj].outcome = promise[pj].outcome /\ asked'[pj] = asked[pj]
            BY <1>5, <2>5, <3>1 DEF Becomes
        <3>3. CASE j = i
            <4>1. promise'[pj].handler = c
                BY <2>3, <2>5, <3>1, <3>3 DEF Becomes
            <4> QED BY <1>5, <1>6, <2>1, <2>2, <3>1, <3>2, <3>3, <4>1 DEF PendingOK
        <3>4. CASE j # i
            <4>1. pj # p
                BY <1>6, <2>1, <2>3, <3>1, <3>4 DEF PendingOK
            <4>2. promise'[pj].handler = promise[pj].handler
                BY <2>5, <4>1 DEF Becomes
            <4> QED BY <1>5, <1>6, <2>1, <3>1, <3>2, <4>2 DEF PendingOK
        <3> QED BY <3>3, <3>4
    <2> QED BY <2>1, <2>5, <2>6, <2>7
<1>9. ASSUME NEW i \in Ids, NEW written \in BOOLEAN, Started(c, n, results, i, written)
      PROVE  /\ IdsOK'
             /\ \A j \in DOMAIN pending' : PendingOK(j)'
             /\ \A x \in Callers : CallerOK(x)'
    <2>1. PICK a : a = [valid |-> FALSE, done |-> FALSE, id |-> i, records |-> {}]
        BY Zenon
    <2>2. a.id = i /\ a.records = {}
        BY <2>1, Zenon
    <2>3. PICK l : l = [name |-> n, promise |-> c, running |-> written, times_repeated |-> 0]
        BY Zenon
    <2>4. l.name = n /\ l.promise = c /\ (l.running <=> written)
        BY <2>3
    <2>5. PICK qn \in Query : qn = [id |-> i, name |-> n]
        BY <1>4 DEF Query
    <2>6. qn.id = i /\ qn.name = n
        BY <2>5
    <2>18. PICK dn \in Draw : dn = [id |-> i, name |-> n, by |-> c]
        BY <1>4 DEF Draw
    <2>19. dn.id = i /\ dn.name = n /\ dn.by = c
        BY <2>18
    <2>7. /\ cache' = Put(results, n, a) /\ pending' = Put(pending, i, l)
          /\ n \notin DOMAIN results /\ i \notin DOMAIN pending
          /\ drawn' = drawn \cup {dn} /\ socket' = "open"
          /\ network' = IF written THEN network \cup {qn} ELSE network
        BY <1>9, <2>1, <2>3, <2>5, <2>18, Zenon DEF Started
    <2>20. drawn \subseteq drawn' /\ Stood(drawn', i, n)
        BY <2>7, <2>19 DEF Stood
    <2>21. dn \notin drawn
        BY <1>3, <1>4, <2>19 DEF IdsOK
    <2>8. /\ DOMAIN cache' = DOMAIN results \cup {n} /\ cache'[n] = a
          /\ \A m \in DOMAIN results : cache'[m] = results[m]
        BY <2>7 DEF Put
    <2>9. /\ DOMAIN pending' = DOMAIN pending \cup {i} /\ pending'[i] = l
          /\ \A j \in DOMAIN pending : pending'[j] = pending[j]
        BY <2>7 DEF Put
    <2>10. PICK o \in Outcome \cup {Unsettled} : o = (IF written THEN Unsettled ELSE Rejected)
        BY Outcomes
    <2>11. SettleAndAttach(c, o, c)
        BY <1>9, <2>10, Zenon DEF Started
    <2>12. o.records = {} /\ o # Unmade
        BY <2>10, Outcomes
    <2>22. RightFor(drawn', o.records, n) /\ Under(drawn', o.records, i)
        BY <2>12, DrawsMean
    <2>13. Becomes(c, o, c) /\ \A x \in Callers : CallerOK(x)'
        BY <1>3, <1>4, <2>11, <2>20, <2>22, SettleOwn
    <2>14. \A q \in network' : (q = qn /\ written) \/ (q \in network /\ Stood(drawn, q.id, q.name))
        BY <1>3, <2>7 DEF IdsOK
    <2>15. IdsOK'
        <3>1. ASSUME NEW m \in DOMAIN results
              PROVE  /\ m # n /\ m \in DOMAIN cache /\ cache'[m].id = cache[m].id
                     /\ cache'[m].records \subseteq cache[m].records
            BY <1>2, <2>7, <2>8 DEF Flushed
        <3>2. \A q \in network' : Stood(drawn', q.id, q.name)
            BY <2>6, <2>14, <2>20, DrawsGrow
        <3>3. ASSUME NEW m \in DOMAIN cache'
              PROVE  /\ Stood(drawn', cache'[m].id, m)
                     /\ \A r \in cache'[m].records : Stood(drawn', cache'[m].id, r.about)
            <4>1. CASE m = n
                BY <2>2, <2>8, <2>20, <4>1
            <4>2. CASE m \in DOMAIN results
                <5>1. /\ Stood(drawn, cache'[m].id, m)
                      /\ \A r \in cache'[m].records : Stood(drawn, cache'[m].id, r.about)
                    BY <1>3, <3>1, <4>2 DEF IdsOK
                <5> QED BY <2>20, <5>1, DrawsGrow
            <4> QED BY <2>8, <4>1, <4>2
        <3>4. \A d \in drawn' : asked'[d.by] # None
            <4>1. \A d \in drawn : d.by \in Callers /\ asked[d.by] # None
                BY <1>3 DEF IdsOK, TypeOK, Draw
            <4>2. asked'[dn.by] # None
                BY <1>4, <1>5, <2>19, ResolverAssumption
            <4> QED BY <1>5, <2>7, <4>1, <4>2
        <3> QED BY <2>7, <3>2, <3>3, <3>4 DEF IdsOK
    <2>16. ASSUME NEW j \in DOMAIN pending PROVE PendingOK(j)'
        <3>1. PICK pj \in Callers \ {c} : pj = pending[j].promise
            BY <1>6
        <3>2. /\ promise'[pj].outcome = promise[pj].outcome /\ asked'[pj] = asked[pj]
              /\ promise'[pj].handler = promise[pj].handler
            BY <1>5, <2>13, <3>1 DEF Becomes
        <3>3. pending'[j] = pending[j] /\ j # i
            BY <2>7, <2>9
        <3>4. \A k \in DOMAIN pending' : pending'[k].promise = pj => k \in DOMAIN pending /\ pending[k].promise = pj
            BY <2>4, <2>9, <3>1
        <3>5. \A q \in network' : q.id = j => q \in network
            BY <2>6, <2>14, <3>3
        <3>6. /\ Under(drawn', promise[pj].outcome.records, j)
              /\ Twice(drawn, j) => Twice(drawn', j)
              /\ \A x \in Callers : promise[pj].handler = x => Stood(drawn', j, asked[x])
            BY <1>6, <2>20, <3>1, DrawsGrow DEF PendingOK
        <3>7. \A x \in Callers : promise[pj].handler = x => x # c
            BY <1>6, <3>1
        <3> QED BY <1>5, <1>6, <3>1, <3>2, <3>3, <3>4, <3>5, <3>6, <3>7 DEF PendingOK
    <2>17. PendingOK(i)'
        <3>1. promise'[c].outcome = o /\ promise'[c].handler = c
            BY <2>13 DEF Becomes
        <3>2. \A j \in DOMAIN pending' : pending'[j].promise = c => j = i
            BY <1>6, <2>9
        <3>3. ASSUME NEW q \in network', q.id = i, ~ written PROVE Twice(drawn', i)
            <4>1. PICK d \in drawn : d.id = i
                BY <2>14, <3>3 DEF Stood
            <4> QED BY <2>7, <2>19, <2>21, <4>1 DEF Twice
        <3>4. asked'[c] # None
            BY <1>4, <1>5, ResolverAssumption
        <3> QED BY <1>5, <2>4, <2>9, <2>10, <2>12, <2>20, <2>22, <3>1, <3>2, <3>3, <3>4 DEF PendingOK
    <2> QED BY <2>9, <2>13, <2>15, <2>16, <2>17
<1> QED BY <1>1, <1>3, <1>4, <1>7, <1>8, <1>9, AskDoes

(* What lookup() by a timer keeps: it settles the promise only when there  *)
(* is no socket, and then no answer is to come.                            *)
LEMMA TimeoutStep ==
    ASSUME IInv, NEW i \in Ids, Timeout(i)
    PROVE  /\ IdsOK'
           /\ \A j \in DOMAIN pending' : PendingOK(j)'
           /\ \A x \in Callers : CallerOK(x)'
<1>1. PICK results : results = flush_cache
    BY Zenon
<1>2. Flushed(results)
    BY <1>1, Flush DEF IInv
<1>3. TypeOK /\ IdsOK /\ Base /\ (\A x \in Callers : CallerOK(x))
    BY DEF IInv, Base, Inv
<1>4. /\ i \in DOMAIN pending /\ pending[i].running
      /\ Same(pending') /\ ~ pending'[i].running
      /\ cache' = results /\ UNCHANGED <<network, lost, drawn, asked>>
      /\ (\E o \in Outcome : GaveUp(i, results, o)) \/ WaitsOn(i)
    BY <1>1, <1>3, TimeoutDoes
<1>5. PICK p \in Callers, n \in Names : p = pending[i].promise /\ n = pending[i].name
    BY <1>3, <1>4 DEF TypeOK, PendingLookup
<1>6. /\ promise[p].outcome = Unsettled /\ asked[p] # None /\ promise[p].outcome # Unmade
      /\ \A x \in Callers : promise[p].handler = x => Stood(drawn, i, asked[x])
    BY <1>4, <1>5 DEF IInv, PendingOK
<1>12. Stood(drawn, i, n)
    BY <1>3, <1>4, <1>5 DEF Base, Inv, LookupsMatchResults, IdsOK
<1>7. IdsOK'
    BY <1>2, <1>3, <1>4, FlushIds DEF GaveUp, WaitsOn
<1>8. ASSUME NEW o \in Outcome \cup {Unsettled}, Becomes(p, o, promise[p].handler),
             o = Unsettled \/ network = {}, Under(drawn, o.records, i), NEW j \in DOMAIN pending
      PROVE  PendingOK(j)'
    <2>1. PICK pj \in Callers : pj = pending[j].promise
        BY <1>3 DEF TypeOK, PendingLookup
    <2>2. /\ pending'[j].promise = pj /\ pending'[j].name = pending[j].name
          /\ pending'[j].running => pending[j].running
          /\ DOMAIN pending' = DOMAIN pending
          /\ \A k \in DOMAIN pending : pending'[k].promise = pending[k].promise
        BY <1>4, <2>1 DEF Same
    <2>3. PendingOK(j)
        BY DEF IInv
    <2>4. promise'[pj].handler = promise[pj].handler /\ o # Unmade
        BY <1>8, Outcomes DEF Becomes
    <2>5. CASE j = i
        <3>1. promise'[pj].outcome = o
            BY <1>5, <1>8, <2>1, <2>5 DEF Becomes
        <3> QED BY <1>4, <1>8, <2>1, <2>2, <2>3, <2>4, <2>5, <3>1 DEF PendingOK
    <2>6. CASE j # i
        <3>1. pj # p
            BY <1>4, <1>5, <2>1, <2>3, <2>6 DEF PendingOK
        <3>2. promise'[pj].outcome = promise[pj].outcome
            BY <1>8, <3>1 DEF Becomes
        <3> QED BY <1>4, <2>1, <2>2, <2>3, <2>4, <3>2 DEF PendingOK
    <2> QED BY <2>5, <2>6
<1>9. DOMAIN pending' = DOMAIN pending
    BY <1>4 DEF Same
<1>10. ASSUME NEW o \in Outcome, GaveUp(i, results, o)
       PROVE  /\ \A j \in DOMAIN pending' : PendingOK(j)'
              /\ \A x \in Callers : CallerOK(x)'
    <2>1. network = {}
        BY <1>3, <1>10 DEF GaveUp, IdsOK
    <2>2. AtOnce(o, results, n) /\ SettleAndAttach(p, o, None)
        BY <1>5, <1>10 DEF GaveUp
    <2>3. Under(drawn, o.records, i)
        <3>1. CASE o = Rejected
            BY <3>1, Outcomes, DrawsMean
        <3>2. CASE o = Resolved(OwnRecords(n))
            BY <1>12, <3>2, OwnRecordsAre, ResolvedIs DEF Under
        <3> QED BY <1>5, <1>10, <3>1, <3>2 DEF GaveUp
    <2>5. \A x \in Callers : promise[p].handler = x => RightFor(drawn, o.records, asked[x])
        BY <1>6, <2>3, DrawsMean
    <2>4. Becomes(p, o, promise[p].handler) /\ \A x \in Callers : CallerOK(x)'
        BY <1>3, <1>4, <1>6, <2>2, <2>5, SettlePending
    <2> QED BY <1>8, <1>9, <2>1, <2>3, <2>4
<1>11. CASE WaitsOn(i)
    <2>1. SettleAndAttach(p, Unsettled, None)
        BY <1>5, <1>11 DEF WaitsOn
    <2>2. Becomes(p, promise[p].outcome, promise[p].handler) /\ \A x \in Callers : CallerOK(x)'
        BY <1>3, <1>4, <1>6, <2>1, SettleNothing
    <2>3. Becomes(p, Unsettled, promise[p].handler)
        BY <1>6, <2>2
    <2>4. Under(drawn, Unsettled.records, i)
        BY Outcomes, DrawsMean
    <2> QED BY <1>7, <1>8, <1>9, <2>2, <2>3, <2>4
<1> QED BY <1>4, <1>7, <1>10, <1>11

(* What an answer keeps: the lookup that it is matched with has an id that *)
(* has stood for its name, and its promise is unsettled unless that id has *)
(* come up twice.                                                          *)
LEMMA AnswerStep ==
    ASSUME IInv, NEW q \in Query, process_incoming_messages(q)
    PROVE  /\ IdsOK'
           /\ \A j \in DOMAIN pending' : PendingOK(j)'
           /\ \A x \in Callers : CallerOK(x)'
<1>1. TypeOK /\ IdsOK /\ Base /\ (\A x \in Callers : CallerOK(x))
    BY DEF IInv, Base, Inv
<1>2. q \in network /\ network' \in SUBSET network /\ UNCHANGED <<socket, lost, drawn, asked>>
    BY DEF process_incoming_messages
<1>3. CASE UNCHANGED <<cache, pending, promise, heard>>
    <2>1. IdsOK'
        BY <1>1, <1>2, <1>3 DEF IdsOK
    <2>2. \A j \in DOMAIN pending' : PendingOK(j)'
        BY <1>2, <1>3 DEF IInv, PendingOK
    <2>3. \A x \in Callers : CallerOK(x)'
        BY <1>1, <1>2, <1>3 DEF CallerOK
    <2> QED BY <2>1, <2>2, <2>3
<1>4. ASSUME NEW result, NEW o, Matched(q, result, o)
      PROVE  /\ IdsOK'
             /\ \A j \in DOMAIN pending' : PendingOK(j)'
             /\ \A x \in Callers : CallerOK(x)'
    <2>1. PICK i \in Ids, n \in Names, p \in Callers :
              i = q.id /\ n = pending[i].name /\ p = pending[i].promise
        BY <1>1, <1>4 DEF Query, Matched, TypeOK, PendingLookup
    <2>2. /\ i \in DOMAIN pending /\ n \in DOMAIN cache
          /\ cache' = [cache EXCEPT ![n] = result] /\ pending' = Without(pending, {i})
          /\ SettleAndAttach(p, o, None)
          /\ result \in LookupResult /\ o \in Outcome /\ result.id = i
          /\ \A r \in result.records : r.about = q.name
          /\ \A r \in o.records : r.about = q.name /\ r.life # "expired"
        BY <1>4, <2>1, Zenon DEF Matched
    <2>3. cache[n].id = i
        BY <1>1, <2>1, <2>2 DEF Base, Inv, LookupsMatchResults
    <2>4. Stood(drawn, i, q.name)
        BY <1>1, <1>2, <2>1 DEF IdsOK
    <2>5. /\ promise[p].outcome # Unmade /\ asked[p] # None
          /\ promise[p].outcome = Unsettled \/ Twice(drawn, i)
          /\ \A x \in Callers : promise[p].handler = x => Stood(drawn, i, asked[x])
        BY <1>2, <2>1, <2>2 DEF IInv, PendingOK
    <2>11. \A x \in Callers : promise[p].handler = x =>
               promise[p].outcome = Unsettled \/ Shares(drawn, asked[x])
        BY <2>5, DrawsMean
    <2>12. Under(drawn, o.records, i)
        BY <2>2, <2>4 DEF Under
    <2>13. \A x \in Callers : promise[p].handler = x => RightFor(drawn, o.records, asked[x])
        BY <2>5, <2>12, DrawsMean
    <2>6. Becomes(p, o, promise[p].handler) /\ \A x \in Callers : CallerOK(x)'
        BY <1>1, <1>2, <2>2, <2>5, <2>11, <2>13, SettlePending
    <2>7. /\ DOMAIN cache' = DOMAIN cache /\ cache'[n] = result
          /\ \A m \in DOMAIN cache : m # n => cache'[m] = cache[m]
        BY <2>2
    <2>8. IdsOK'
        <3>1. \A m \in DOMAIN cache : cache'[m].id = cache[m].id
            BY <2>2, <2>3, <2>7
        <3>2. \A m \in DOMAIN cache : \A r \in cache'[m].records : Stood(drawn, cache[m].id, r.about)
            BY <1>1, <2>2, <2>3, <2>4, <2>7 DEF IdsOK
        <3> QED BY <1>1, <1>2, <2>7, <3>1, <3>2 DEF IdsOK
    <2>9. DOMAIN pending' = DOMAIN pending \ {i} /\ \A j \in DOMAIN pending' : pending'[j] = pending[j]
        BY <2>2 DEF Without
    <2>10. ASSUME NEW j \in DOMAIN pending' PROVE PendingOK(j)'
        <3>1. PICK pj \in Callers : pj = pending[j].promise
            BY <1>1, <2>9 DEF TypeOK, PendingLookup
        <3>2. PendingOK(j) /\ j # i /\ pending'[j] = pending[j] /\ j \in DOMAIN pending
            BY <2>9 DEF IInv
        <3>3. pj # p
            BY <2>1, <2>2, <3>1, <3>2 DEF PendingOK
        <3>4. promise'[pj].outcome = promise[pj].outcome /\ promise'[pj].handler = promise[pj].handler
            BY <2>6, <3>3 DEF Becomes
        <3> QED BY <1>2, <2>9, <3>1, <3>2, <3>4 DEF PendingOK
    <2> QED BY <2>6, <2>8, <2>10
<1> QED BY <1>1, <1>3, <1>4, AnswerDoes

(* What is lost, or ages, is not what callers have been told.              *)
LEMMA OtherSteps ==
    ASSUME IInv, UNCHANGED <<pending, drawn, promise, asked, heard>>,
           network' \in SUBSET network, socket' = "none" => network' = {},
           UNCHANGED cache \/ \E n \in Names : \E result : Aged(n, result)
    PROVE  /\ IdsOK'
           /\ \A j \in DOMAIN pending' : PendingOK(j)'
           /\ \A x \in Callers : CallerOK(x)'
<1>1. /\ DOMAIN cache' = DOMAIN cache
      /\ \A m \in DOMAIN cache :
             /\ cache'[m].id = cache[m].id
             /\ \A r \in cache'[m].records : \E s \in cache[m].records : r.about = s.about
    <2>1. CASE UNCHANGED cache
        BY <2>1
    <2>2. ASSUME NEW n \in Names, NEW result, Aged(n, result)
          PROVE  /\ DOMAIN cache' = DOMAIN cache
                 /\ \A m \in DOMAIN cache :
                        /\ cache'[m].id = cache[m].id
                        /\ \A r \in cache'[m].records : \E s \in cache[m].records : r.about = s.about
        <3>1. /\ DOMAIN cache' = DOMAIN cache /\ cache'[n] = result
              /\ \A m \in DOMAIN cache : m # n => cache'[m] = cache[m]
            BY <2>2 DEF Aged
        <3> QED BY <2>2, <3>1 DEF Aged
    <2> QED BY <2>1, <2>2
<1>2. IdsOK'
    BY <1>1 DEF IInv, IdsOK
<1>3. \A j \in DOMAIN pending' : PendingOK(j)'
    BY DEF IInv, PendingOK
<1>4. \A x \in Callers : CallerOK(x)'
    BY DEF IInv, CallerOK
<1> QED BY <1>2, <1>3, <1>4

(* Every step keeps the invariant.                                         *)
LEMMA Inductive == IInv /\ [Next]_vars => IInv'
<1> SUFFICES ASSUME IInv, [Next]_vars PROVE IInv'
    OBVIOUS
<1>1. Base'
    BY BaseStep DEF IInv
<1> DEFINE Rest == /\ IdsOK
                   /\ \A j \in DOMAIN pending : PendingOK(j)
                   /\ \A x \in Callers : CallerOK(x)
<1>2. TypeOK /\ IdsOK
    BY DEF IInv, Base, Inv
<1>3. ASSUME NEW c \in Callers, NEW n \in Hosts[c], Ask(c, n) PROVE Rest'
    BY <1>3, AskStep
<1>4. ASSUME NEW i \in Ids, Timeout(i) PROVE Rest'
    BY <1>4, TimeoutStep
<1>5. ASSUME NEW q \in Query, process_incoming_messages(q) PROVE Rest'
    BY <1>5, AnswerStep
<1>6. ASSUME NEW q \in Query, Lose(q) PROVE Rest'
    <2>1. /\ UNCHANGED <<pending, drawn, promise, asked, heard>> /\ UNCHANGED cache
          /\ network' \in SUBSET network /\ (socket' = "none" => network' = {})
        BY <1>2, <1>6 DEF Lose, IdsOK
    <2> QED BY <2>1, OtherSteps
<1>7. ASSUME reset_connection PROVE Rest'
    <2>1. /\ UNCHANGED <<pending, drawn, promise, asked, heard>> /\ UNCHANGED cache
          /\ network' \in SUBSET network /\ (socket' = "none" => network' = {})
        BY <1>2, <1>7 DEF reset_connection
    <2> QED BY <2>1, OtherSteps
<1>8. ASSUME NEW n \in Names, Expire(n) PROVE Rest'
    <2>1. PICK result : Aged(n, result)
        BY <1>8, ExpireDoes DEF IInv
    <2>2. /\ UNCHANGED <<pending, drawn, promise, asked, heard>>
          /\ network' \in SUBSET network /\ (socket' = "none" => network' = {})
        BY <1>2, <2>1 DEF Aged, IdsOK
    <2> QED BY <2>1, <2>2, OtherSteps
<1>9. ASSUME UNCHANGED vars PROVE Rest'
    <2>1. /\ UNCHANGED <<pending, drawn, promise, asked, heard>> /\ UNCHANGED cache
          /\ network' \in SUBSET network /\ (socket' = "none" => network' = {})
        BY <1>2, <1>9 DEF vars, IdsOK
    <2> QED BY <2>1, OtherSteps
<1>10. Rest'
    <2> HIDE DEF Rest
    <2> QED BY <1>3, <1>4, <1>5, <1>6, <1>7, <1>8, <1>9 DEF Next
<1> QED BY <1>1, <1>10 DEF IInv

(* Nobody has asked at first.                                              *)
LEMMA Initially == Init => IInv
<1> SUFFICES ASSUME Init PROVE IInv
    OBVIOUS
<1>1. DOMAIN cache = {} /\ DOMAIN pending = {} /\ network = {}
    BY DEF Init
<1>2. ASSUME NEW c \in Callers
      PROVE  /\ heard[c] = <<>> /\ promise[c].outcome = Unmade /\ promise[c].handler = None
             /\ asked[c] = None
    BY DEF Init
<1>3. \A c \in Callers : c # None
    BY ResolverAssumption
<1>4. ASSUME NEW c \in Callers PROVE CallerOK(c)
    <2>1. Len(heard[c]) <= 1 /\ DOMAIN heard[c] = {}
        BY <1>2
    <2>2. \A p \in Callers : promise[p].handler # c
        BY <1>2, <1>3
    <2> QED BY <1>2, <2>1, <2>2 DEF CallerOK
<1>5. IdsOK
    <2>1. drawn = {}
        BY DEF Init
    <2> QED BY <1>1, <2>1 DEF IdsOK
<1> QED BY <1>1, <1>4, <1>5, BaseInit DEF IInv

(* The callbacks of a request run once at most, unless the id of a query   *)
(* about its host has been drawn for another query too: an answer that     *)
(* comes again finds its lookup gone, a timer settles a promise only when  *)
(* no answer can come any more, and only an id that has come up before can *)
(* bring an answer to a lookup whose query was not written.                *)
THEOREM CalledBackOnce == Spec => []CalledOnce
<1>1. IInv => CalledOnce
    BY DEF IInv, CallerOK, CalledOnce, Shares, SharesItsId
<1>2. IInv /\ [Next]_vars => IInv'
    BY Inductive
<1> QED BY <1>1, <1>2, Initially, PTL DEF Spec

(* What a request is told is about the host it asked for, or about a host  *)
(* whose query has had an id that a query about its own has had too,       *)
(* whichever ids come up: whether it comes from the cache, from a lookup   *)
(* that it joined, from a late answer, or from the system's resolver.      *)
THEOREM ConfusedOnlyByIds == Spec => []AnswersAreAboutTheName
<1>1. IInv => AnswersAreAboutTheName
    BY DEF IInv, CallerOK, RightFor, Stood, StoodFor, AnswersAreAboutTheName
<1>2. IInv /\ [Next]_vars => IInv'
    BY Inductive
<1> QED BY <1>1, <1>2, Initially, PTL DEF Spec

(* No request is told of a record that has expired, whichever way it is    *)
(* told and whichever ids come up.                                         *)
THEOREM ToldWhatIsCurrent == Spec => []AnswersAreCurrent
<1>1. IInv => AnswersAreCurrent
    BY DEF IInv, CallerOK, RightFor, AnswersAreCurrent
<1>2. IInv /\ [Next]_vars => IInv'
    BY Inductive
<1> QED BY <1>1, <1>2, Initially, PTL DEF Spec

=============================================================================
