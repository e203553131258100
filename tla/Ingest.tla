------------------------------- MODULE Ingest --------------------------------
(****************************************************************************)
(* Ingest requests of one user: the quota gate of api/routes/ingest.py       *)
(* (services/quota.py), the content-hash dedup of ingest/utils.py and the    *)
(* two commits every adapter makes, the source row first and its file_path   *)
(* after the content has been extracted and written.  The locks the quota    *)
(* checks take (an advisory lock, the usage row FOR UPDATE) are of the       *)
(* transaction: the first commit releases them.                              *)
(* What happens to a source afterwards is CompilePipeline's subject.         *)
(****************************************************************************)
EXTENDS Integers, FiniteSets

CONSTANTS
    None,
    Ids,           \* source ids (a uuid is never given twice)
    Contents,      \* payloads, told apart by their hash
    Requests,      \* ingest requests the gateway serves at the same time
    MaxSources,    \* plan.max_sources; 0 without a plan or a limit
    MaxStorage,    \* plan.max_storage_bytes, every content being one byte
    Backfilled,    \* the user was there when the migration made usage rows
    Events         \* which of EventKinds may happen

(* "crash": the process of a request dies.  "write": the raw storage fails.   *)
(* "extract": the adapter fails before it creates a row.  "delete": the user *)
(* deletes a source.                                                         *)
EventKinds == {"crash", "write", "extract", "delete"}

ASSUME SourcesAssumption == MaxSources \in Nat /\ MaxStorage \in Nat \ {0}
ASSUME BackfillAssumption == Backfilled \in BOOLEAN
ASSUME EventAssumption == Events \subseteq EventKinds
ASSUME NoneAssumption == None \notin Ids \cup Requests \cup Contents /\ None \notin Nat

VARIABLES
    minted,      \* ids given out so far
    source,      \* Source rows, by id
    lock,        \* the request whose transaction holds the user's quota locks
    usage,       \* StorageUsage.total_bytes, None without a row
    request,     \* what each request has come to
    answered,    \* ids of sources the user was told of
    deleted      \* ids of sources the user has deleted

vars == <<minted, source, lock, usage, request, answered, deleted>>

-----------------------------------------------------------------------------
(* A source row: its content hash, and whether file_path is set. *)
Row == [content : Contents, file : BOOLEAN]

ASSUME RowAssumption == None \notin Row

(* idle; dedup: past the quota check; zombie: has selected a row without     *)
(* file_path; insert: is to create a row; write: has created it; save: has   *)
(* written the files; charge: has its source.                                *)
PC == {"idle", "dedup", "zombie", "insert", "write", "save", "charge"}

Request == [pc : PC, content : Contents \cup {None}, id : Ids \cup {None}]

Idle == [pc |-> "idle", content |-> None, id |-> None]

TypeOK ==
    /\ minted \subseteq Ids
    /\ source \in [minted -> Row \cup {None}]
    /\ lock \in Requests \cup {None}
    /\ usage \in Nat \cup {None}
    /\ request \in [Requests -> Request]
    /\ answered \subseteq minted
    /\ deleted \subseteq minted

Rows == {i \in minted : source[i] # None}

Init ==
    /\ minted = {}
    /\ source = [i \in {} |-> None]
    /\ lock = None
    /\ usage = IF Backfilled THEN 0 ELSE None
    /\ request = [q \in Requests |-> Idle]
    /\ answered = {}
    /\ deleted = {}

-----------------------------------------------------------------------------
(* Mutant of Locking: no lock is taken. *)
NoLocking == FALSE

(* check_source_quota takes the advisory lock, reserve_storage the usage row *)
(* where there is one.                                                       *)
Locking == MaxSources # 0 \/ usage # None

(* check_source_quota: with the lock, count. *)
check_source_quota ==
    MaxSources # 0 => lock = None /\ Cardinality(Rows) < MaxSources

(* reserve_storage: with the row locked, reject when already over the limit; *)
(* nothing is reserved, and without a row there is no limit.                 *)
check_storage_quota == usage # None => lock = None /\ usage < MaxStorage

(* The rest of a request that ends here, by its commit or its rollback. *)
Release(q) == lock' = IF lock = q THEN None ELSE lock

End(q) == /\ request' = [request EXCEPT ![q] = Idle]
          /\ Release(q)

(* A request of a user with a plan for content c passes the quota checks (or *)
(* is answered with 429, which changes nothing); its adapter fetches c.      *)
StartIngest(q, c) ==
    /\ request[q].pc = "idle"
    /\ check_source_quota
    /\ check_storage_quota
    /\ lock' = IF Locking THEN q ELSE lock
    /\ request' = [request EXCEPT ![q] = [pc |-> "dedup", content |-> c, id |-> None]]
    /\ UNCHANGED <<minted, source, usage, answered, deleted>>

Matches(c) == {i \in Rows : source[i].content = c}

(* Mutant of DedupMiss: the row without file_path is left alone. *)
DedupMissKeeps(q) ==
    /\ request[q].pc = "dedup"
    /\ \A i \in Matches(request[q].content) : ~source[i].file
    /\ request' = [request EXCEPT ![q] = [@ EXCEPT !.pc = "insert"]]
    /\ UNCHANGED <<minted, source, lock, usage, answered, deleted>>

(* find_source_by_hash finds nothing. *)
DedupMiss(q) ==
    /\ request[q].pc = "dedup"
    /\ Matches(request[q].content) = {}
    /\ request' = [request EXCEPT ![q] = [@ EXCEPT !.pc = "insert"]]
    /\ UNCHANGED <<minted, source, lock, usage, answered, deleted>>

(* One row: the source if it has its file, a zombie otherwise. *)
DedupFinds(q) ==
    /\ request[q].pc = "dedup"
    /\ \E i \in Ids :
         /\ Matches(request[q].content) = {i}
         /\ request' = [request EXCEPT ![q] =
                [@ EXCEPT !.pc = IF source[i].file THEN "charge" ELSE "zombie",
                          !.id = i]]
    /\ UNCHANGED <<minted, source, lock, usage, answered, deleted>>

(* Several rows: scalar_one_or_none raises. *)
DedupRaises(q) ==
    /\ request[q].pc = "dedup"
    /\ Cardinality(Matches(request[q].content)) > 1
    /\ End(q)
    /\ UNCHANGED <<minted, source, usage, answered, deleted>>

(* The zombie is deleted and the deletion committed. *)
DeleteZombie(q) ==
    LET i == request[q].id IN
    /\ request[q].pc = "zombie"
    /\ source' = [source EXCEPT ![i] = None]
    /\ request' = [request EXCEPT ![q] = [@ EXCEPT !.pc = "insert", !.id = None]]
    /\ Release(q)
    /\ UNCHANGED <<minted, usage, answered, deleted>>

(* The adapter finds nothing to extract. *)
ExtractFails(q) ==
    /\ "extract" \in Events
    /\ request[q].pc = "insert"
    /\ End(q)
    /\ UNCHANGED <<minted, source, usage, answered, deleted>>

(* The row is created and committed without its file_path. *)
InsertSource(q) ==
    /\ request[q].pc = "insert"
    /\ \E i \in Ids \ minted :
         /\ minted' = minted \cup {i}
         /\ source' = [j \in minted' |->
                IF j = i THEN [content |-> request[q].content, file |-> FALSE]
                ELSE source[j]]
         /\ request' = [request EXCEPT ![q] = [@ EXCEPT !.pc = "write", !.id = i]]
    /\ Release(q)
    /\ UNCHANGED <<usage, answered, deleted>>

(* Extraction (docling-serve for a PDF, up to minutes) and the files. *)
WriteFiles(q) ==
    /\ request[q].pc = "write"
    /\ request' = [request EXCEPT ![q] = [@ EXCEPT !.pc = "save"]]
    /\ UNCHANGED <<minted, source, lock, usage, answered, deleted>>

(* The write fails: the row stays, FAILED and without file_path. *)
WriteFails(q) ==
    /\ "write" \in Events
    /\ request[q].pc = "write"
    /\ End(q)
    /\ UNCHANGED <<minted, source, usage, answered, deleted>>

(* The second commit sets file_path and clean_text. *)
SaveSource(q) ==
    LET i == request[q].id IN
    /\ request[q].pc = "save"
    /\ source[i] # None
    /\ source' = [source EXCEPT ![i] = [@ EXCEPT !.file = TRUE]]
    /\ request' = [request EXCEPT ![q] = [@ EXCEPT !.pc = "charge"]]
    /\ UNCHANGED <<minted, lock, usage, answered, deleted>>

(* The row is gone: the UPDATE matches none, StaleDataError. *)
SaveFails(q) ==
    /\ request[q].pc = "save"
    /\ source[request[q].id] = None
    /\ End(q)
    /\ UNCHANGED <<minted, source, usage, answered, deleted>>

(* commit_storage: an UPDATE, which needs a row to update. *)
commit_storage(n) == IF usage = None THEN None ELSE usage + n

(* The compile is scheduled, the bytes are counted in the usage row, and the *)
(* response is sent.                                                         *)
Answer(q) ==
    /\ request[q].pc = "charge"
    /\ usage # None => lock \in {None, q}
    /\ usage' = commit_storage(1)
    /\ answered' = answered \cup {request[q].id}
    /\ End(q)
    /\ UNCHANGED <<minted, source, deleted>>

(* The process dies, or the client's disconnect cancels the request. *)
Crash(q) ==
    /\ "crash" \in Events
    /\ request[q].pc # "idle"
    /\ End(q)
    /\ UNCHANGED <<minted, source, usage, answered, deleted>>

(* delete_source: usage is not given back. *)
delete_source(i) ==
    /\ "delete" \in Events
    /\ i \in Rows
    /\ source' = [source EXCEPT ![i] = None]
    /\ deleted' = deleted \cup {i}
    /\ UNCHANGED <<minted, lock, usage, request, answered>>

-----------------------------------------------------------------------------
Progress(q) ==
    \/ DedupMiss(q) \/ DedupFinds(q) \/ DedupRaises(q) \/ DeleteZombie(q)
    \/ ExtractFails(q) \/ InsertSource(q) \/ WriteFiles(q) \/ WriteFails(q)
    \/ SaveSource(q) \/ SaveFails(q) \/ Answer(q)

Next ==
    \/ \E q \in Requests, c \in Contents : StartIngest(q, c)
    \/ \E q \in Requests : Progress(q) \/ Crash(q)
    \/ \E i \in minted : delete_source(i)

Spec == Init /\ [][Next]_vars

-----------------------------------------------------------------------------
Quiet == \A q \in Requests : request[q].pc = "idle"

(* find_source_by_hash: a user has one source row per content. *)
UniqueContent == \A c \in Contents : Cardinality(Matches(c)) <= 1

(* check_source_quota: the lock makes the count valid until the row is       *)
(* inserted, except where the deletion of a zombie released it in between;   *)
(* the plan's limit is exceeded by no more rows than have been deleted.      *)
QuotaHeld ==
    MaxSources # 0 =>
       Cardinality(Rows) <= MaxSources + Cardinality(minted \ Rows)

(* _check_source_dedup: a source the user was told of stays, with its file,  *)
(* until the user deletes it.                                                *)
AnsweredKept == \A i \in answered \ deleted : source[i] # None /\ source[i].file
=============================================================================
