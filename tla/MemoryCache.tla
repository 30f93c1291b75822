---------------------------- MODULE MemoryCache ----------------------------
(***************************************************************************)
(* LibHTTP's MemoryCache, seen from one key: the fetches of one URL with   *)
(* one method in one network partition.  A response is stored in two       *)
(* steps: its status and headers when they have arrived (a pending entry), *)
(* its body when the body's stream is closed (a complete entry).  A fetch  *)
(* stands for the status and headers of its response.                      *)
(***************************************************************************)
EXTENDS Naturals

CONSTANTS
    Fetches,    \* the fetches of the URL
    Cacheable,  \* those whose status and headers pass is_cacheable
    None        \* no fetch

ASSUME MemoryCacheAssumption ==
    /\ Cacheable \subseteq Fetches
    /\ None \notin Fetches

VARIABLES
    m_pending_entries,  \* the fetch whose headers are stored, or None
    m_complete_entries  \* at most one entry: the headers, and whose body it has

Entry == [headers : Fetches, body : Fetches, size : Nat]

MemoryCacheInit ==
    /\ m_pending_entries = None
    /\ m_complete_entries = {}

(* A second response for the key replaces the pending entry of the first.  *)
create_entry(f) ==
    /\ m_pending_entries' = IF f \in Cacheable THEN f ELSE m_pending_entries
    /\ UNCHANGED m_complete_entries

(* Only the key says which entry is meant.                                 *)
finalize_entry(f, size) ==
    /\ m_pending_entries' = None
    /\ m_complete_entries' =
           IF m_pending_entries = None
           THEN m_complete_entries
           ELSE {[headers |-> m_pending_entries, body |-> f, size |-> size]}

open_entry == m_complete_entries
=============================================================================
