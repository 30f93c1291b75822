-------------------------- MODULE MCCacheLifetime --------------------------
(* An instance of CacheLifetime for TLC.  The clock starts late enough for *)
(* a Last-Modified date to give a heuristic lifetime of some seconds.      *)
EXTENDS CacheLifetime

(* l: max-age and Expires; v: Last-Modified and ETag                       *)
Response(status, directives, l, swr, v) ==
    [ status |-> status, directives |-> directives, max_age |-> l[1], swr |-> swr,
      expires |-> l[2], last_modified |-> v[1], etag |-> v[2],
      date |-> Absent, age |-> Absent ]

MCResponses ==
    { Response(200, ds, l, s, v) :
        ds \in {{}, {"no-cache"}, {"must-revalidate"}},
        l \in {<<Absent, Absent>>, <<2, Absent>>, <<Absent, 33>>},
        s \in {Absent, 2},
        v \in {<<Absent, FALSE>>, <<Absent, TRUE>>, <<Invalid, FALSE>>, <<12, FALSE>>} }
    \cup { Response(302, ds, <<Absent, Absent>>, Absent, <<12, FALSE>>) :
             ds \in {{}, {"public"}, {"public", "no-store"}} }

MCUpdates == { Response(304, {}, l, Absent, <<Absent, FALSE>>) :
                 l \in {<<Absent, Absent>>, <<2, Absent>>} }
=============================================================================
