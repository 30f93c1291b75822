------------------------ MODULE CacheLifetimeProofs ------------------------
(* Theorems about CacheLifetime, for every set of responses and ages.      *)
EXTENDS CacheLifetime, TLAPS

(* The operators are numbers, fields and headers.                          *)
LEMMA UpdateType ==
    ASSUME NEW h \in Headers, NEW u \in Headers
    PROVE  update_header_fields(h, u) \in Headers
BY DEF update_header_fields, HasCacheControl, Headers, Fields, Absent, Invalid

(* What the origin sends, Date and Age filled in, is a set of headers.     *)
LEMMA SentType ==
    ASSUME NEW h \in Headers, NEW t \in Nat, NEW a \in Nat, NEW r \in Sent(h, t, a)
    PROVE  r \in Headers /\ (r.age = a \/ (a = 0 /\ r.age = Absent))
BY DEF Sent, Headers, Fields, Absent, Invalid

(* The row that stands for no response has the type of a row.              *)
LEMMA NoResponseType == NoResponse \in Headers
BY DEF NoResponse, Headers, Fields, Absent, Invalid

(* An update that does not say how old it is leaves the Age field alone.   *)
LEMMA UpdateAge ==
    ASSUME NEW h \in Headers, NEW u \in Headers, NEW a \in Nat,
           u.age = a \/ (a = 0 /\ u.age = Absent)
    PROVE  age_value(update_header_fields(h, u)) >= a
BY DEF update_header_fields, HasCacheControl, age_value, Parses, Headers, Fields, Absent, Invalid

(* The times of a stored response stay in order, for every response, Age,  *)
(* delay and revalidation: the times of the row are those of the first     *)
(* request, which a 304 leaves alone, and the Age field, which it renews,  *)
(* makes up for how old the response was by then.                          *)
THEOREM Invariance == Spec => []Inv
<1>1. Init => Inv
  BY LifetimeAssumption, NoResponseType
  DEF Init, Inv, TypeOK, TimesAreOrdered, isStored
<1>2. Inv /\ [Next]_vars => Inv'
  <2> SUFFICES ASSUME Inv, [Next]_vars PROVE Inv'
    OBVIOUS
  <2> USE LifetimeAssumption DEF Inv, TypeOK, TimesAreOrdered, isStored
  <2>1. CASE Tick
    BY <2>1 DEF Tick
  <2>2. CASE open_entry
    BY <2>2, NoResponseType DEF open_entry, Ask, row, remove_entry, CreateRow
  <2>3. CASE store_response
    <3> PICK h \in Responses, t \in asked..now, a \in Ages : \E r \in Sent(h, t, a) :
          CreateRow(r, asked, now, t - a) \/ remove_entry
      BY <2>3 DEF store_response
    <3> PICK r \in Sent(h, t, a) : CreateRow(r, asked, now, t - a) \/ remove_entry
      OBVIOUS
    <3>1. /\ t \in Nat /\ a \in Nat /\ asked <= t
          /\ r \in Headers /\ (r.age = a \/ (a = 0 /\ r.age = Absent))
      BY SentType
    <3>2. age_value(r) = a
      BY <3>1 DEF age_value, Parses, Absent
    <3>3. asked' = 0 /\ now' = now /\ asking' = "nothing"
      BY <2>3 DEF store_response, Answered
    <3>4. CASE CreateRow(r, asked, now, t - a)
      BY <3>1, <3>2, <3>3, <3>4 DEF CreateRow
    <3>5. CASE remove_entry
      BY <3>3, <3>5, NoResponseType DEF remove_entry, CreateRow
    <3> QED BY <3>4, <3>5
  <2>4. CASE revalidation_succeeded
    <3> PICK h \in Updates, t \in asked..now, a \in Ages : \E r \in Sent(h, t, a) :
          CreateRow(update_header_fields(stored, r), request_time, response_time, t - a)
      BY <2>4 DEF revalidation_succeeded
    <3> PICK r \in Sent(h, t, a) :
          CreateRow(update_header_fields(stored, r), request_time, response_time, t - a)
      OBVIOUS
    <3>1. /\ t \in Nat /\ a \in Nat /\ asked <= t
          /\ r \in Headers /\ (r.age = a \/ (a = 0 /\ r.age = Absent))
      BY SentType
    <3>2. update_header_fields(stored, r) \in Headers
      BY <3>1, UpdateType
    <3>3. age_value(update_header_fields(stored, r)) >= a
      BY <3>1, UpdateAge
    <3>4. age_value(update_header_fields(stored, r)) \in Nat
      BY <3>2 DEF age_value, Parses, Headers, Fields, Absent, Invalid
    <3>5. asked' = 0 /\ now' = now /\ asking' = "nothing" /\ asking = "revalidation"
      BY <2>4 DEF revalidation_succeeded, Answered
    <3> QED BY <3>1, <3>2, <3>3, <3>4, <3>5 DEF CreateRow
  <2>5. CASE request_fails
    BY <2>5, NoResponseType DEF request_fails, Answered, remove_entry, CreateRow
  <2>6. CASE UNCHANGED vars
    BY <2>6 DEF vars
  <2> QED BY <2>1, <2>2, <2>3, <2>4, <2>5, <2>6 DEF Next
<1> QED BY <1>1, <1>2, PTL DEF Spec

(* FreshIsYoung, for every max-age, Age and delay.                         *)
THEOREM FreshnessIsSound == Spec => []FreshIsYoung
<1>1. Inv => FreshIsYoung
  <2> SUFFICES ASSUME Inv, isStored, Status = "Fresh", Parses(stored.max_age)
               PROVE  now - born < stored.max_age
    BY DEF FreshIsYoung
  <2> DEFINE age == calculate_age(stored, request_time, response_time, now)
  <2>1. stored.max_age \in Nat /\ age_value(stored) \in Nat /\ stored.date \in Int
    BY DEF Inv, TypeOK, Headers, Fields, Parses, age_value, Absent, Invalid
  <2>2. stored.max_age > age
    BY DEF Status, StatusAt, cache_lifetime_status, calculate_freshness_lifetime,
           revalidation_status
  <2>3. age \in Int /\ age >= age_value(stored) - request_time + now
    BY <2>1 DEF Inv, TypeOK, calculate_age, Larger, Parses
  <2> HIDE DEF age
  <2> QED BY <2>1, <2>2, <2>3 DEF Inv, TypeOK, TimesAreOrdered
<1> QED BY <1>1, Invariance, PTL

(* In a second the freshness lifetime of a response grows by one second at *)
(* most, and its age by exactly one.                                       *)
LEMMA LifetimeGrowsSlowly ==
    ASSUME NEW h \in Headers, NEW t \in Nat
    PROVE  /\ calculate_freshness_lifetime(h, t) \in Int
           /\ calculate_freshness_lifetime(h, t + 1) \in Int
           /\ calculate_freshness_lifetime(h, t + 1) <= calculate_freshness_lifetime(h, t) + 1
<1>1. /\ h.max_age \in Int /\ h.expires \in Int /\ h.date \in Int /\ h.last_modified \in Int
  BY DEF Headers, Fields, Absent, Invalid
<1> DEFINE H(s) == calculate_heuristic_freshness_lifetime(h, s)
<1>2. H(t) \in Int /\ H(t + 1) \in Int /\ H(t + 1) <= H(t) + 1
  BY <1>1, Z3 DEF calculate_heuristic_freshness_lifetime, Parses
<1> QED BY <1>1, <1>2 DEF calculate_freshness_lifetime, Parses

(* In a second calculate_age grows by a second, with or without a Date.    *)
LEMMA AgeGrowsSteadily ==
    ASSUME NEW h \in Headers, NEW rq \in Nat, NEW rs \in Nat, NEW t \in Nat, rs <= t
    PROVE  /\ calculate_age(h, rq, rs, t) \in Int
           /\ calculate_age(h, rq, rs, t + 1) = calculate_age(h, rq, rs, t) + 1
<1>1. h.date \in Int /\ h.age \in Int
  BY DEF Headers, Fields, Absent, Invalid
<1> QED BY <1>1 DEF calculate_age, age_value, Larger, Parses

(* Hence its status does not get better.                                   *)
LEMMA StatusDecaysInASecond ==
    ASSUME NEW h \in Headers, NEW rq \in Nat, NEW rs \in Nat, NEW t \in Nat, rs <= t
    PROVE  Rank(StatusAt(h, rq, rs, t + 1)) >= Rank(StatusAt(h, rq, rs, t))
<1> DEFINE F(s) == calculate_freshness_lifetime(h, s)
           A(s) == calculate_age(h, rq, rs, s)
           W(s) == calculate_stale_while_revalidate_lifetime(h, F(s))
<1>1. /\ F(t) \in Int /\ F(t + 1) \in Int /\ F(t + 1) <= F(t) + 1
      /\ A(t) \in Int /\ A(t + 1) = A(t) + 1
  BY LifetimeGrowsSlowly, AgeGrowsSteadily
<1>2. F(t + 1) > A(t + 1) => F(t) > A(t)
  BY <1>1
<1>3. W(t + 1) > A(t + 1) => W(t) > A(t) \/ F(t) > A(t)
  <2>1. h.swr \in Int
    BY DEF Headers, Fields, Absent, Invalid
  <2> QED BY <1>1, <2>1 DEF calculate_stale_while_revalidate_lifetime, Parses
<1> DEFINE S(s) == cache_lifetime_status(h, F(s), A(s))
<1> HIDE DEF F, A
<1>4. Rank(S(t + 1)) >= Rank(S(t))
  BY <1>2, <1>3 DEF cache_lifetime_status, revalidation_status, Rank
<1> QED BY <1>4 DEF F, A, StatusAt

(* StatusOnlyDecays, for every response.                                   *)
THEOREM Decay == Spec => StatusOnlyDecays
<1>1. Inv /\ [Next]_vars /\ isStored /\ UNCHANGED row => Rank(Status') >= Rank(Status)
  <2> SUFFICES ASSUME Inv, [Next]_vars, isStored, UNCHANGED row
               PROVE  Rank(Status') >= Rank(Status)
    OBVIOUS
  <2>1. now' = now \/ now' = now + 1
    BY DEF Next, Tick, open_entry, store_response, revalidation_succeeded, request_fails, vars
  <2>2. Status' = StatusAt(stored, request_time, response_time, now')
    BY DEF row, Status
  <2>3. CASE now' = now
    <3>1. Status' = Status
      BY <2>2, <2>3 DEF Status
    <3>2. Rank(Status) \in Int
      BY DEF Rank, Status, StatusAt, cache_lifetime_status, revalidation_status
    <3> QED BY <3>1, <3>2
  <2>4. CASE now' = now + 1
    BY <2>2, <2>4, StatusDecaysInASecond DEF Inv, TypeOK, TimesAreOrdered, Status
  <2> QED BY <2>1, <2>3, <2>4
<1> QED BY <1>1, Invariance, PTL DEF Spec, StatusOnlyDecays

=============================================================================
