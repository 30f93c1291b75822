--------------------------- MODULE CacheLifetime ---------------------------
(***************************************************************************)
(* How long a stored response may be used: the freshness rules of          *)
(* Libraries/LibHTTP/Cache/Utilities.cpp, over the life of one key of the  *)
(* disk cache.                                                             *)
(*                                                                         *)
(* A header field is the number it parses to, Absent, or Invalid when it   *)
(* is there but does not parse.  Cache-Control is split: `directives' are  *)
(* the words cache_control->contains() looks for, max_age and swr the      *)
(* arguments extract_cache_control_directive finds.  Time is in seconds.   *)
(***************************************************************************)
EXTENDS Integers

CONSTANTS
    Responses,      \* what the origin may answer, Date and Age aside
    Updates,        \* the same for a 304
    Ages,           \* how old an answer may be when it is sent
    Start,          \* the time of the first request
    MaxTime         \* bound on the clock

Absent == -1
Invalid == -2

Fields == Nat \cup {Absent, Invalid}
Parses(v) == v >= 0

Directives == { "no-store", "no-cache", "must-revalidate", "public", "private" }

Headers == [ status : Nat, directives : SUBSET Directives, max_age : Fields,
             swr : Fields, expires : Fields, last_modified : Fields,
             etag : BOOLEAN, date : Fields, age : Fields ]

ASSUME LifetimeAssumption ==
    /\ Responses \subseteq Headers
    /\ Updates \subseteq Headers
    /\ Ages \subseteq Nat
    /\ Start \in Nat
    /\ MaxTime \in Nat

-----------------------------------------------------------------------------
(* The functions of Utilities.cpp.                                         *)

is_heuristically_cacheable_status(status) ==
    status \in {200, 203, 204, 206, 300, 301, 308, 404, 405, 410, 414, 501}

is_cacheable(h) ==
    /\ h.status >= 200
    /\ h.status # 206
    /\ "no-store" \notin h.directives
    /\ \/ h.directives \cap {"public", "private"} # {}
       \/ h.expires # Absent
       \/ h.max_age # Absent
       \/ is_heuristically_cacheable_status(h.status)

Larger(x, y) == IF x >= y THEN x ELSE y

calculate_heuristic_freshness_lifetime(h, t) ==
    IF Parses(h.last_modified) /\ t > h.last_modified THEN (t - h.last_modified) \div 10 ELSE 0

calculate_freshness_lifetime(h, t) ==
    IF Parses(h.max_age) THEN h.max_age
    ELSE IF Parses(h.expires)
         THEN h.expires - (IF Parses(h.date) THEN h.date ELSE t)
    ELSE IF is_heuristically_cacheable_status(h.status) \/ "public" \in h.directives
         THEN calculate_heuristic_freshness_lifetime(h, t)
    ELSE 0

\* mutant: the Age field is not read
age_value_Unread(h) == 0

age_value(h) == IF Parses(h.age) THEN h.age ELSE 0

\* mutant: the time the answer took is not counted
calculate_age_NoDelay(h, requestTime, responseTime, t) ==
    LET date_value == IF Parses(h.date) THEN h.date ELSE t
        apparent_age == Larger(0, responseTime - date_value)
    IN  Larger(apparent_age, age_value(h)) + (t - responseTime)

calculate_age(h, requestTime, responseTime, t) ==
    LET date_value == IF Parses(h.date) THEN h.date ELSE t
        apparent_age == Larger(0, responseTime - date_value)
        corrected_age_value == age_value(h) + (responseTime - requestTime)
    IN  Larger(apparent_age, corrected_age_value) + (t - responseTime)

calculate_stale_while_revalidate_lifetime(h, freshness) ==
    IF Parses(h.swr) THEN freshness + h.swr ELSE 0

(* A response can be revalidated if it has a field to ask about.           *)
revalidation_status(h, kind) ==
    IF h.last_modified # Absent \/ h.etag THEN kind ELSE "Expired"

\* mutant: the operands of the second comparison are swapped
cache_lifetime_status_Swapped(h, freshness, age) ==
    IF "no-cache" \in h.directives THEN revalidation_status(h, "MustRevalidate")
    ELSE IF freshness > age THEN "Fresh"
    ELSE IF age > calculate_stale_while_revalidate_lifetime(h, freshness)
         THEN revalidation_status(h, "StaleWhileRevalidate")
    ELSE IF "must-revalidate" \in h.directives THEN revalidation_status(h, "MustRevalidate")
    ELSE "Expired"

cache_lifetime_status(h, freshness, age) ==
    IF "no-cache" \in h.directives THEN revalidation_status(h, "MustRevalidate")
    ELSE IF freshness > age THEN "Fresh"
    ELSE IF calculate_stale_while_revalidate_lifetime(h, freshness) > age
         THEN revalidation_status(h, "StaleWhileRevalidate")
    ELSE IF "must-revalidate" \in h.directives THEN revalidation_status(h, "MustRevalidate")
    ELSE "Expired"

(* What the status functions make of a response at time t.                 *)
StatusAt(h, requestTime, responseTime, t) ==
    cache_lifetime_status(h, calculate_freshness_lifetime(h, t),
                          calculate_age(h, requestTime, responseTime, t))

(* RevalidationAttributes::create finds something to send.                 *)
HasRevalidationAttributes(h) == h.etag \/ Parses(h.last_modified)

(* update_header_fields: the fields the update has replace the stored ones, *)
(* Cache-Control as a whole.                                               *)
HasCacheControl(h) == h.directives # {} \/ h.max_age # Absent \/ h.swr # Absent

update_header_fields(h, update) ==
    LET Updated(new, old) == IF new # Absent THEN new ELSE old
        control == IF HasCacheControl(update) THEN update ELSE h
    IN  [ status |-> h.status,
          directives |-> control.directives,
          max_age |-> control.max_age,
          swr |-> control.swr,
          expires |-> Updated(update.expires, h.expires),
          last_modified |-> Updated(update.last_modified, h.last_modified),
          etag |-> h.etag \/ update.etag,
          date |-> Updated(update.date, h.date),
          age |-> Updated(update.age, h.age) ]

-----------------------------------------------------------------------------
(* One key over time.                                                      *)
VARIABLES
    now,            \* UnixDateTime::now()
    stored,         \* CacheIndex::Entry: the response headers, NoResponse if there is
    request_time,   \* no row, and the times of the row
    response_time,
    asking,         \* what the request under way is for
    asked,          \* when it was made
    born            \* when the origin made, or last confirmed, what is stored

vars == <<now, stored, request_time, response_time, asking, asked, born>>

(* The row and the request under way have their types.                     *)
TypeOK ==
    /\ now \in Nat
    /\ stored \in Headers
    /\ request_time \in Nat
    /\ response_time \in Nat
    /\ asking \in {"nothing", "response", "revalidation"}
    /\ asked \in Nat
    /\ born \in Int

NoResponse == [ status |-> 0, directives |-> {}, max_age |-> Absent, swr |-> Absent,
                expires |-> Absent, last_modified |-> Absent, etag |-> FALSE,
                date |-> Absent, age |-> Absent ]

isStored == stored # NoResponse

Init ==
    /\ now = Start
    /\ stored = NoResponse
    /\ request_time = 0
    /\ response_time = 0
    /\ asking = "nothing"
    /\ asked = 0
    /\ born = 0

Status == StatusAt(stored, request_time, response_time, now)

Tick ==
    /\ now < MaxTime
    /\ now' = now + 1
    /\ UNCHANGED <<stored, request_time, response_time, asking, asked, born>>

row == <<stored, request_time, response_time, born>>

(* CacheIndex::create_entry                                                *)
CreateRow(h, requestTime, responseTime, b) ==
    /\ stored' = h
    /\ request_time' = requestTime
    /\ response_time' = responseTime
    /\ born' = b

remove_entry == CreateRow(NoResponse, 0, 0, 0)

Ask(kind) == asking' = kind /\ asked' = now

Answered == asking' = "nothing" /\ asked' = 0

(* open_entry, by a request that reads; if it gets nothing it fetches.     *)
open_entry ==
    /\ asking = "nothing"
    /\ \/ ~isStored /\ Ask("response") /\ UNCHANGED row
       \/ isStored /\ Status = "Fresh" /\ UNCHANGED <<row, asking, asked>>
       \/ isStored /\ Status = "Expired" /\ Ask("response") /\ remove_entry
       \/ /\ isStored /\ Status \in {"MustRevalidate", "StaleWhileRevalidate"}
          /\ Ask("revalidation")
          /\ UNCHANGED row
    /\ UNCHANGED now

(* What the origin sends at time t, when it is `a' old already: with or    *)
(* without Date, with Age if it comes from a cache on the way.             *)
Sent(h, t, a) ==
    { [h EXCEPT !.date = d, !.age = IF a = 0 THEN Absent ELSE a] : d \in {Absent, t} }

(* write_status_and_reason and flush: a response comes in, and is stored   *)
(* if it may be.  It takes the place of one that was to be revalidated.    *)
store_response ==
    /\ asking # "nothing"
    /\ \E h \in Responses, t \in asked..now, a \in Ages : \E r \in Sent(h, t, a) :
         IF is_cacheable(r) /\ StatusAt(r, asked, now, now) # "Expired"
         THEN CreateRow(r, asked, now, t - a)
         ELSE remove_entry
    /\ Answered
    /\ UNCHANGED now

(* 304: the headers are brought up to date, the times of the row are not.  *)
revalidation_succeeded ==
    /\ asking = "revalidation"
    /\ \E h \in Updates, t \in asked..now, a \in Ages : \E r \in Sent(h, t, a) :
         CreateRow(update_header_fields(stored, r), request_time, response_time, t - a)
    /\ Answered
    /\ UNCHANGED now

(* A failed transfer is no 304: the stored response goes.                  *)
request_fails ==
    /\ asking # "nothing"
    /\ remove_entry
    /\ Answered
    /\ UNCHANGED now

Next ==
    \/ Tick
    \/ open_entry
    \/ store_response
    \/ revalidation_succeeded
    \/ request_fails

Spec == Init /\ [][Next]_vars

-----------------------------------------------------------------------------
(* A response that calculate_age and calculate_freshness_lifetime call     *)
(* fresh is younger than its max-age: whatever time it spent on the way,   *)
(* in other caches or in this one, and however often it was revalidated.   *)
FreshIsYoung ==
    isStored /\ Status = "Fresh" /\ Parses(stored.max_age) => now - born < stored.max_age

(* Why it is: the times of the row never run ahead of the clock or of the  *)
(* request under way, and the Age field makes up for what happened to the  *)
(* response before that request.                                           *)
TimesAreOrdered ==
    /\ asked <= now
    /\ asking = "revalidation" => isStored
    /\ isStored => /\ request_time <= response_time
                   /\ response_time <= now
                   /\ asking # "nothing" => response_time <= asked
                   /\ request_time <= born + age_value(stored)

Rank(s) == CASE s = "Fresh" -> 0 [] s = "StaleWhileRevalidate" -> 1
             [] s = "MustRevalidate" -> 2 [] s = "Expired" -> 3

(* cache_lifetime_status only gets worse as time passes, although the      *)
(* heuristic lifetime grows with it: no stale response turns fresh again   *)
(* without an answer of the origin.                                        *)
StatusOnlyDecays ==
    [][isStored /\ UNCHANGED row => Rank(Status') >= Rank(Status)]_vars

(* The variables have their types, and the times of the row are in order.  *)
Inv == TypeOK /\ TimesAreOrdered

(* Request::handle_fetch_state VERIFYs that a response it revalidates has  *)
(* an attribute to send.  It need not have: cache_lifetime_status counts   *)
(* on a Last-Modified that is there, and RevalidationAttributes::create    *)
(* finds nothing in one that does not parse.                               *)
RevalidationHasAttributes == asking = "revalidation" => HasRevalidationAttributes(stored)

=============================================================================
