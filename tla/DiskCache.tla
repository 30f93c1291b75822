----------------------------- MODULE DiskCache -----------------------------
(***************************************************************************)
(* HTTP::DiskCache with its CacheIndex and its CacheEntry objects          *)
(* (Libraries/LibHTTP/Cache).                                              *)
(*                                                                         *)
(* A cache key has at most one row in the index and one file on disk.      *)
(* m_open_cache_entries holds the entries that are open, each with a weak  *)
(* pointer to the request that opened it; a request has at most one of     *)
(* them, so the entry is named by its request: `entry[r]'.  The entry      *)
(* belongs to the cache, not to the request: it stays open when the        *)
(* request is destroyed, unless something closes it.                       *)
(***************************************************************************)
EXTENDS EventLoop

CONSTANTS
    Keys,           \* cache keys: url and method
    Key,            \* the key of each request
    Cacheable,      \* requests for which is_cacheable(method, headers) holds
    Faults          \* what may go wrong in a run (see AllFaults)

(* Failures of the environment, each named for what it does:               *)
(*   disk     a file of the cache cannot be created, opened or written     *)
(*   pipe     the pipe to the client cannot be created                     *)
(*   hangup   the client closes its end of the pipe                        *)
(*   dns      a host name does not resolve                                 *)
(*   shared_lookup  a host is looked up while it is being looked up        *)
(*   curl     curl has no memory for another handle                        *)
(*   network  a transfer fails                                             *)
(*   stop     a client stops a request                                     *)
(*   disconnect  a client goes away                                        *)
(*   clear    the user clears the cache                                    *)
(*   crash    the process dies, and is started again                       *)
AllFaults == { "disk", "pipe", "hangup", "dns", "shared_lookup", "curl", "network",
               "stop", "disconnect", "clear", "crash" }

ASSUME CacheAssumption ==
    /\ Key \in [Requests -> Keys]
    /\ Cacheable \subseteq Requests
    /\ Faults \subseteq AllFaults

Rows == { "absent",     \* the index has no row for the key
          "truncated",  \* it has one, for a response that was cut short
          "whole" }     \* it has one, for an entire response

Files == { "absent",
           "unsealed",  \* a writer is open: all or some of it is still in a buffer
           "headless",  \* lacks the header a reader validates first
           "short",     \* has the header, not all of the data and footer
           "sealed" }   \* everything the writer was given, footer included

(* RevalidationType of the reader, with the readers that were opened with  *)
(* OpenMode::Revalidate under a name of their own.                         *)
Readers == { "reader", "must_revalidate", "stale_while_revalidate", "background" }

Entries == Readers \cup { "none", "writer" }

VARIABLES
    index,          \* CacheIndex: the row of each key
    file,           \* the file of each key
    entry,          \* m_open_cache_entries: the open entry of each request
    marked,         \* requests whose entry is m_marked_for_deletion
    headed,         \* requests whose writer has written the header
    waiting         \* m_requests_waiting_completion

cacheVars == <<index, file, entry, marked, headed, waiting>>

CacheTypeOK ==
    /\ index \in [Keys -> Rows]
    /\ file \in [Keys -> Files]
    /\ entry \in [Requests -> Entries]
    /\ marked \in SUBSET Requests
    /\ headed \in SUBSET Requests
    /\ waiting \in [Keys -> Seq(Requests)]

(* A process starts on what an earlier one has stored.                     *)
CacheInit ==
    /\ \E stored \in SUBSET Keys :
         /\ index = [k \in Keys |-> IF k \in stored THEN "whole" ELSE "absent"]
         /\ file = [k \in Keys |-> IF k \in stored THEN "sealed" ELSE "absent"]
    /\ entry = [r \in Requests |-> "none"]
    /\ marked = {}
    /\ headed = {}
    /\ waiting = [k \in Keys |-> << >>]

OpenEntries(k) == {r \in Requests : Key[r] = k /\ entry[r] # "none"}

(* check_if_cache_has_open_entry: must r wait for an entry of its key?     *)
(* `locking' are the requests that are alive and revalidating.             *)
\* mutant: readers are never in the way
check_if_cache_has_open_entry_NoReaders(r, checkReaderEntries, locking) ==
    \E o \in OpenEntries(Key[r]) : entry[o] = "writer" \/ o \in locking

check_if_cache_has_open_entry(r, checkReaderEntries, locking) ==
    \E o \in OpenEntries(Key[r]) :
        entry[o] = "writer" \/ checkReaderEntries \/ o \in locking

(* What open_entry may answer, and what it leaves of the row and the file. *)
(* The status of a stored response depends on its headers and the time, so *)
(* each status may be found (CacheLifetime.tla computes it).               *)
\* mutant: the row and the file are mixed up
Opened_Swapped(answer, row, f) == [answer |-> answer, row |-> f, file |-> row]

Opened(answer, row, f) == [answer |-> answer, row |-> row, file |-> f]

(* A reader that must revalidate locks the key: it checks once more, now   *)
(* for readers too.                                                        *)
\* mutant: the second check is missing
OpenToRevalidate_NoCheck(r, locking) == "must_revalidate"

OpenToRevalidate(r, locking) ==
    IF check_if_cache_has_open_entry(r, TRUE, locking) THEN "blocked" ELSE "must_revalidate"

(* CacheEntryReader::create opens the file and validates its header.       *)
CanCreateReader(k) == file[k] \in {"sealed", "short"}

open_entry(r, revalidate, locking) ==
    LET k == Key[r]
        Unchanged(answer) == Opened(answer, index[k], file[k])
        CreateReader ==
            {Unchanged(IF revalidate THEN "none" ELSE "reader"),              \* Fresh
             Opened("none", "absent", "absent"),                              \* Expired
             Unchanged(IF revalidate THEN "background"
                       ELSE OpenToRevalidate(r, locking)),                    \* MustRevalidate
             Unchanged(IF revalidate THEN "background"
                       ELSE "stale_while_revalidate")}                        \* StaleWhileRevalidate
    IN  IF r \notin Cacheable THEN {Unchanged("none")}
        ELSE IF check_if_cache_has_open_entry(r, revalidate, locking)
             THEN {Unchanged("blocked")}
        ELSE IF index[k] = "absent" THEN {Unchanged("none")}
        ELSE (IF CanCreateReader(k) THEN CreateReader
              ELSE {Opened("none", "absent", "absent")})
             \cup (IF "disk" \in Faults THEN {Opened("none", "absent", file[k])} ELSE {})

(* What create_entry may answer.                                           *)
\* mutant: CheckReaderEntries::No
create_entry_BesideReaders(r, locking) ==
    IF r \notin Cacheable THEN {"none"}
    ELSE IF check_if_cache_has_open_entry(r, FALSE, locking) THEN {"blocked"}
    ELSE {"writer"}

create_entry(r, locking) ==
    IF r \notin Cacheable THEN {"none"}
    ELSE IF check_if_cache_has_open_entry(r, TRUE, locking) THEN {"blocked"}
    ELSE {"writer"} \cup (IF "disk" \in Faults THEN {"none"} ELSE {})

(* r is put on the waiting list of its key.                                *)
Wait(r) == waiting' = [waiting EXCEPT ![Key[r]] = Append(@, r)]

(* CacheEntry::remove: the file and the row go, whoever has them open.     *)
remove(k) ==
    /\ index' = [index EXCEPT ![k] = "absent"]
    /\ file' = [file EXCEPT ![k] = "absent"]

IsLastOpenEntry(r) == OpenEntries(Key[r]) = {r}

(* cache_entry_closed: the turn that resumes the waiting requests, if r has *)
(* the last open entry of the key and someone waits.                       *)
\* mutant: only the first waiting request is resumed
Resumption_FirstOnly(r) ==
    IF IsLastOpenEntry(r) /\ waiting[Key[r]] # << >>
    THEN << <<Call("unblock", Head(waiting[Key[r]]))>> >>
    ELSE << >>

Resumption(r) ==
    LET pending == waiting[Key[r]]
    IN  IF IsLastOpenEntry(r) /\ pending # << >>
        THEN << [i \in 1..Len(pending) |-> Call("unblock", pending[i])] >>
        ELSE << >>

(* close_and_destroy_cache_entry: the entry of r goes, or is replaced by   *)
(* the one r opens next (`successor').  The resumption it gives rise to is *)
(* queued by the caller.                                                   *)
CloseEntry(r, successor) ==
    /\ entry' = [entry EXCEPT ![r] = successor]
    /\ marked' = marked \ {r}
    /\ headed' = headed \ {r}
    /\ waiting' = IF IsLastOpenEntry(r)
                  THEN [waiting EXCEPT ![Key[r]] = << >>] ELSE waiting

(* remove_entries_accessed_since: the rows of `ks' go; open entries of     *)
(* those keys are marked, and find out when they next touch their file.    *)
remove_entries_accessed_since(ks) ==
    /\ ks \subseteq {k \in Keys : index[k] # "absent"}
    /\ index' = [k \in Keys |-> IF k \in ks THEN "absent" ELSE index[k]]
    /\ file' = [k \in Keys |-> IF k \in ks THEN "absent" ELSE file[k]]
    /\ marked' = marked \cup UNION {OpenEntries(k) : k \in ks}
    /\ UNCHANGED <<entry, headed, waiting>>

=============================================================================
