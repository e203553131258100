----------------------------- MODULE FeedsProofs -----------------------------
(***************************************************************************)
(* Theorems of MCFeeds: ingest, the inbox, the migrations and the events,   *)
(* for every number of requests, contents, ids, processes, rows, replicas   *)
(* and sockets.                                                             *)
(***************************************************************************)
EXTENDS MCFeeds, TLAPS, FiniteSetTheorems, SequenceTheorems

-----------------------------------------------------------------------------
(* Ingest *)

(* What a request holds at each step. *)
RequestsOK ==
    \A a \in Requests :
        /\ request[a].pc # "idle" => request[a].content \in Contents
        /\ request[a].pc \in {"zombie", "write", "save", "charge"} => request[a].id \in minted

(* Requests that may insert a row without having counted the rows: the       *)
(* deletion of a zombie freed the lock, or will although the row is gone.    *)
Loose ==
    {a \in Requests : \/ request[a].pc = "insert" /\ lock # a
                      \/ request[a].pc = "zombie" /\ source[request[a].id] = None}

(* The request that has counted the rows and is to insert one. *)
Counting == lock # None /\ request[lock].pc \in {"dedup", "zombie", "insert"}

(* With a limit, whoever looks for the content has the lock; a loose request *)
(* is paid for by a row that was deleted, the counting one by the limit.     *)
QuotaInv ==
    MaxSources # 0 =>
        /\ \A a \in Requests : request[a].pc \in {"dedup", "zombie"} => lock = a
        /\ IsFiniteSet(Loose) /\ Cardinality(Loose) <= Cardinality(minted \ Rows)
        /\ Cardinality(Rows) + Cardinality(Loose) + (IF Counting THEN 1 ELSE 0)
              <= MaxSources + Cardinality(minted \ Rows)

(* Sources that are stored and of which no request is about to count. *)
Charging == {request[a].id : a \in {b \in Requests : request[b].pc = "charge"}}
Stored == {i \in Rows \ uncounted : source[i].file}
UsageInv ==
    Backfilled => usage \in Nat /\ Cardinality(Stored \ Charging) <= usage

(* No two requests for one content. *)
Apart == \A a, b \in Requests : request[a].content # None /\ request[a].content = request[b].content => a = b

(* While requests for one content never overlapped: what a request found,    *)
(* or made, is still so.                                                     *)
FoundOK(a) ==
    LET i == request[a].id
        x == request[a].content
    IN  /\ request[a].pc = "insert" => Matches(x) = {}
        /\ request[a].pc = "zombie" =>
              Matches(x) \subseteq {i} /\ (i \in Rows => source[i].content = x /\ ~source[i].file)
        /\ request[a].pc \in {"write", "save"} => (i \in Rows => source[i].content = x)
        /\ request[a].pc = "charge" =>
              \/ i \in Rows /\ source[i].content = x /\ source[i].file
              \/ i \in deleted

OneRow == \A i, j \in Rows : source[i].content = source[j].content => i = j

FoundInv == OneRow /\ AnsweredKept /\ \A a \in Requests : FoundOK(a)

DedupInv == ~overlapped => Apart /\ FoundInv

IngestTyped == TypeOK /\ IsFiniteSet(minted) /\ RequestsOK

IngestInv == IngestTyped /\ QuotaInv /\ UsageInv /\ DedupInv

-----------------------------------------------------------------------------
(* Migrations *)

Pages == [names : SUBSET OldNames, good : BOOLEAN, abs : BOOLEAN, missing : BOOLEAN, there : BOOLEAN]
Stage == [pc : {"down", "wait", "check", "read", "write", "record", "serving"},
          at : 1 .. 7, legacy : SUBSET OldQueries]

StagesTyped ==
    /\ postgres \in BOOLEAN /\ old \in [OldPages -> Pages] /\ raced \in BOOLEAN
    /\ proc \in [Processes -> Stage] /\ StartupTypeOK

(* A process at a version has every version before it on record; with        *)
(* PostgreSQL it has the lock; and it is the only one at its version, which  *)
(* is not on record yet, unless two processes raced.                         *)
Running == {p \in Processes : proc[p].pc \in {"read", "write", "record"}}
StagesInv ==
    /\ \A p \in Processes :
          /\ proc[p].pc \in {"check", "read", "write", "record", "serving"} =>
                \A k \in 1 .. (proc[p].at - 1) : Versions[k] \in applied
          /\ postgres /\ proc[p].pc \in {"check", "read", "write", "record"} => migrationLock = p
          /\ proc[p].pc = "serving" => proc[p].at = 7
          /\ proc[p].pc = "wait" => proc[p].at = 1
    /\ \A p \in Running : proc[p].at <= 6
    /\ ~raced => \A p \in Running :
          /\ Versions[proc[p].at] \notin applied
          /\ \A s \in Running : proc[s].at = proc[p].at => s = p

(* The work of each version, complete. *)
Threaded == \A x \in OldQueries : conv[x] >= 1
Repaired == \A x \in OldPages : old[x].good
Conceived == \A n \in OldNames : concept[n] = Cardinality({x \in OldPages : n \in old[x].names})
Relative == \A x \in OldPages : ~old[x].abs
Joined == \A x \in There, n \in OldNames : n \in old[x].names => <<x, n>> \in links
Cleaned == \A x \in There : ~old[x].missing

Worked(k) ==
    /\ k = 1 => Threaded
    /\ k = 2 => Repaired
    /\ k = 3 /\ ~raced => Conceived
    /\ k = 4 => Relative
    /\ k = 5 => Joined
    /\ k = 6 => Cleaned

(* The work of a version is complete once it is on record, or about to be;   *)
(* and what a process has read of the queries is what it will change.        *)
WorkInv ==
    /\ \A k \in 1 .. 6 : Versions[k] \in applied => Worked(k)
    /\ \A p \in Processes, k \in 1 .. 6 : proc[p].pc = "record" /\ proc[p].at = k => Worked(k)
    /\ \A p \in Processes : proc[p].pc = "write" /\ proc[p].at = 1 =>
          \A x \in OldQueries : /\ conv[x] = 0 => x \in proc[p].legacy
                                /\ ~raced /\ x \in proc[p].legacy => conv[x] = 0
    /\ ~raced => \A x \in OldQueries : conv[x] <= 1
    /\ ~raced => \A n \in OldNames : concept[n] # 0 =>
                    concept[n] = Cardinality({x \in OldPages : n \in old[x].names})
    /\ (\E x \in OldPages : ~old[x].there) => "concepts" \in applied

StartupInv == StagesTyped /\ StagesInv /\ WorkInv

-----------------------------------------------------------------------------
(* The inbox *)

Statuses == {"captured", "ingested", "discarded"}
CaptureRow == [key : Keys, status : Statuses, source : BOOLEAN]
Capturing == [pc : {"idle", "look", "mark"}, kind : {"none", "note", "feed", "history"},
              todo : SUBSET Keys, new : SUBSET Keys, entries : SUBSET Keys]
Triaging == [pc : {"idle"}] \cup [pc : {"ingest", "save"}, row : Nat]
               \cup [pc : {"discard"}, row : Nat, seen : Statuses]

InboxTyped ==
    /\ inbox \in Seq(CaptureRow) /\ published \in Seq(Keys)
    /\ feed \in [there : BOOLEAN, on : BOOLEAN, polled : Nat]
    /\ adapter \in [there : BOOLEAN, on : BOOLEAN, polled : 0 .. Day]
    /\ visited \in [Keys -> Nat] /\ clock \in 1 .. Day
    /\ writer \in [Writers -> Capturing] /\ \A w \in Writers : IsFiniteSet(writer[w].new)
    /\ triage \in [Triages -> Triaging]
    /\ dull \subseteq Keys /\ kept \subseteq Keys /\ listed \subseteq Keys
    /\ crossed \subseteq Keys /\ excused \subseteq Keys

(* What a writer is to add is not in the inbox and not another's to add,     *)
(* unless two writers crossed over it.                                       *)
NewOnce ==
    \A w \in Writers : \A k \in writer[w].new :
        k \in Captured \/ (\E s \in Writers \ {w} : k \in writer[s].new) => k \in crossed
OnceInv == CapturedOnce /\ NewOnce

(* What a poll of a feed listed is captured, or the poll is to do it. *)
FeedInv ==
    /\ FeedCaught
    /\ \A w \in Writers : writer[w].kind = "feed" =>
          writer[w].entries \ dull \subseteq writer[w].todo \cup writer[w].new \cup Captured

(* While a poll of the history runs, every page visited is captured or       *)
(* excused, or the poll is to capture it.                                    *)
Pending(w) == writer[w].todo \cup writer[w].new \cup Captured \cup excused
VisitInv ==
    /\ adapter.polled <= clock
    /\ \A w \in Writers : writer[w].pc = "mark" =>
          writer[w].kind = "history" /\ writer[w].todo = {} /\ writer[w].new = {}
    /\ Skew = 0 => VisitsKept
    /\ Skew = 0 => \A w \in Writers : writer[w].kind = "history" =>
          \A x \in Keys : visited[x] > 0 => x \in Pending(w)

(* A request to ingest or to discard has a row; a row's source is there. *)
RowInv ==
    /\ IngestedHasSource
    /\ \A i \in DOMAIN inbox : inbox[i].source => inbox[i].key \in kept
    /\ \A t \in Triages : triage[t].pc # "idle" => triage[t].row \in DOMAIN inbox

InboxInv == InboxTyped /\ OnceInv /\ FeedInv /\ VisitInv /\ RowInv

-----------------------------------------------------------------------------
(* Ingest: types *)

(* A request moves on; rows, lock and usage stay what they should be. *)
LEMMA MoveTyped ==
  ASSUME IngestTyped, NEW a \in Requests, NEW new \in Request,
         request' = [request EXCEPT ![a] = new],
         new.pc # "idle" => new.content \in Contents,
         new.pc \in {"zombie", "write", "save", "charge"} => new.id \in minted',
         minted \subseteq minted', minted' \subseteq Ids, IsFiniteSet(minted'),
         source' \in [minted' -> Row \cup {None}],
         lock' \in Requests \cup {None}, usage' \in Nat \cup {None},
         answered' \subseteq minted', UNCHANGED deleted
  PROVE  IngestTyped'
<1>1. /\ request' \in [Requests -> Request] /\ request'[a] = new
      /\ \A b \in Requests \ {a} : request'[b] = request[b]
  BY DEF IngestTyped, TypeOK
<1>2. TypeOK'
  BY <1>1 DEF IngestTyped, TypeOK
<1>3. RequestsOK'
  BY <1>1 DEF IngestTyped, RequestsOK
<1>4. QED
  BY <1>2, <1>3 DEF IngestTyped

(* A request that ends leaves rows, usage and lock of their types. *)
LEMMA EndTyped ==
  ASSUME IngestTyped, NEW a \in Requests, End(a), UNCHANGED <<minted, source, deleted>>,
         usage' \in Nat \cup {None}, answered' \subseteq minted
  PROVE  IngestTyped'
<1>1. Idle \in Request /\ Idle.pc = "idle"
  BY DEF Idle, Request, PC
<1>2. PICK new \in Request : new = Idle
  BY <1>1
<1>3. QED
  BY <1>1, <1>2, MoveTyped DEF End, Release, IngestTyped, TypeOK

(* The types of a step of the request. *)
LEMMA ProgressTyped ==
  ASSUME IngestTyped, NEW a \in Requests, Progress(a) \/ Crash(a)
  PROVE  IngestTyped'
<1>1. PICK old1 \in Request : old1 = request[a]
  BY DEF IngestTyped, TypeOK
<1>2. old1.pc # "idle" => old1.content \in Contents
  BY <1>1 DEF IngestTyped, RequestsOK
<1>3. old1.pc \in {"zombie", "write", "save", "charge"} => old1.id \in minted
  BY <1>1 DEF IngestTyped, RequestsOK
<1>4. CASE DedupMiss(a) \/ WriteFiles(a)
  <2>1. PICK pc \in {"insert", "save"} :
           /\ request' = [request EXCEPT ![a] = [old1 EXCEPT !.pc = pc]]
           /\ pc = "save" => old1.pc = "write"
    BY <1>1, <1>4 DEF DedupMiss, WriteFiles
  <2>2. PICK new : new = [old1 EXCEPT !.pc = pc]
    OBVIOUS
  <2>3. new \in Request /\ new.pc = pc /\ new.content = old1.content /\ new.id = old1.id
    BY <2>2 DEF Request, PC
  <2>4. old1.pc # "idle" /\ UNCHANGED <<minted, source, lock, usage, answered, deleted>>
    BY <1>1, <1>4 DEF DedupMiss, WriteFiles
  <2>5. QED
    BY <1>2, <1>3, <2>1, <2>2, <2>3, <2>4, MoveTyped DEF IngestTyped, TypeOK
<1>5. CASE DedupFinds(a)
  <2>1. PICK i \in Ids :
           /\ Matches(request[a].content) = {i}
           /\ request' = [request EXCEPT ![a] =
                 [old1 EXCEPT !.pc = IF source[i].file THEN "charge" ELSE "zombie", !.id = i]]
    BY <1>1, <1>5 DEF DedupFinds
  <2>2. PICK new : new = [old1 EXCEPT !.pc = IF source[i].file THEN "charge" ELSE "zombie", !.id = i]
    OBVIOUS
  <2>3. new \in Request /\ new.content = old1.content /\ new.id = i
    BY <2>2 DEF Request, PC
  <2>4. i \in minted
    BY <2>1 DEF Matches, Rows
  <2>5. old1.pc # "idle" /\ UNCHANGED <<minted, source, lock, usage, answered, deleted>>
    BY <1>1, <1>5 DEF DedupFinds
  <2>6. request' = [request EXCEPT ![a] = new]
    BY <2>1, <2>2
  <2>7. QED
    BY <1>2, <2>3, <2>4, <2>5, <2>6, MoveTyped DEF IngestTyped, TypeOK
<1>6. CASE DedupRaises(a) \/ ExtractFails(a) \/ WriteFails(a) \/ SaveFails(a) \/ Crash(a)
  BY <1>6, EndTyped DEF DedupRaises, ExtractFails, WriteFails, SaveFails, Crash, IngestTyped, TypeOK
<1>7. CASE Answer(a)
  BY <1>1, <1>3, <1>7, EndTyped DEF Answer, commit_storage, IngestTyped, TypeOK
<1>8. CASE DeleteZombie(a)
  <2>1. PICK new : new = [old1 EXCEPT !.pc = "insert", !.id = None]
    OBVIOUS
  <2>2. new \in Request /\ new.pc = "insert" /\ new.content = old1.content
    BY <2>1 DEF Request, PC
  <2>3. /\ old1.pc = "zombie" /\ request' = [request EXCEPT ![a] = new]
        /\ source' = [source EXCEPT ![old1.id] = None]
        /\ Release(a) /\ UNCHANGED <<minted, usage, answered, deleted>>
    BY <1>1, <1>8, <2>1 DEF DeleteZombie
  <2>4. source' \in [minted -> Row \cup {None}]
    BY <2>3 DEF IngestTyped, TypeOK
  <2>5. QED
    BY <1>2, <2>2, <2>3, <2>4, MoveTyped DEF Release, IngestTyped, TypeOK
<1>9. CASE InsertSource(a)
  <2>1. PICK i \in Ids \ minted :
           /\ minted' = minted \cup {i}
           /\ source' = [j \in minted' |-> IF j = i THEN [content |-> old1.content, file |-> FALSE] ELSE source[j]]
           /\ request' = [request EXCEPT ![a] = [old1 EXCEPT !.pc = "write", !.id = i]]
    BY <1>1, <1>9 DEF InsertSource
  <2>2. old1.pc = "insert" /\ Release(a) /\ UNCHANGED <<usage, answered, deleted>>
    BY <1>1, <1>9 DEF InsertSource
  <2>3. PICK new : new = [old1 EXCEPT !.pc = "write", !.id = i]
    OBVIOUS
  <2>4. new \in Request /\ new.pc = "write" /\ new.content = old1.content /\ new.id = i
    BY <2>3 DEF Request, PC
  <2>5. [content |-> old1.content, file |-> FALSE] \in Row
    BY <1>2, <2>2 DEF Row
  <2>6. source' \in [minted' -> Row \cup {None}]
    BY <2>1, <2>5 DEF IngestTyped, TypeOK
  <2>7. IsFiniteSet(minted')
    BY <2>1, FS_AddElement DEF IngestTyped
  <2>8. QED
    BY <1>2, <2>1, <2>2, <2>3, <2>4, <2>6, <2>7, MoveTyped DEF Release, IngestTyped, TypeOK
<1>10. CASE SaveSource(a)
  <2>1. PICK new : new = [old1 EXCEPT !.pc = "charge"]
    OBVIOUS
  <2>2. new \in Request /\ new.pc = "charge" /\ new.content = old1.content /\ new.id = old1.id
    BY <2>1 DEF Request, PC
  <2>3. /\ old1.pc = "save" /\ request' = [request EXCEPT ![a] = new] /\ source[old1.id] # None
        /\ source' = [source EXCEPT ![old1.id] = [source[old1.id] EXCEPT !.file = TRUE]]
        /\ UNCHANGED <<minted, lock, usage, answered, deleted>>
    BY <1>1, <1>10, <2>1 DEF SaveSource
  <2>4. source[old1.id] \in Row
    BY <1>3, <2>3 DEF IngestTyped, TypeOK
  <2>5. [source[old1.id] EXCEPT !.file = TRUE] \in Row
    BY <2>4 DEF Row
  <2>6. source' \in [minted -> Row \cup {None}]
    BY <1>3, <2>3, <2>5 DEF IngestTyped, TypeOK
  <2>7. QED
    BY <1>2, <1>3, <2>2, <2>3, <2>6, MoveTyped DEF IngestTyped, TypeOK
<1>11. QED
  BY <1>4, <1>5, <1>6, <1>7, <1>8, <1>9, <1>10 DEF Progress

(* The types of any step. *)
LEMMA IngestTypedKept == IngestTyped /\ IngestNext => IngestTyped'
<1> SUFFICES ASSUME IngestTyped, IngestNext
             PROVE  IngestTyped'
  OBVIOUS
<1>1. ASSUME NEW a \in Requests, NEW x \in Contents, StartIngest(a, x) PROVE IngestTyped'
  <2>1. PICK new : new = [pc |-> "dedup", content |-> x, id |-> None]
    OBVIOUS
  <2>2. new \in Request /\ new.pc = "dedup" /\ new.content = x
    BY <2>1 DEF Request, PC
  <2>3. /\ request' = [request EXCEPT ![a] = new] /\ lock' \in Requests \cup {None}
        /\ UNCHANGED <<minted, source, usage, answered, deleted>>
    BY <1>1, <2>1 DEF StartIngest, IngestTyped, TypeOK
  <2>4. QED
    BY <2>2, <2>3, MoveTyped DEF IngestTyped, TypeOK
<1>2. ASSUME NEW i \in minted, delete_source(i) PROVE IngestTyped'
  BY <1>2 DEF delete_source, IngestTyped, TypeOK, RequestsOK
<1>3. QED
  BY <1>1, <1>2, ProgressTyped DEF IngestNext

-----------------------------------------------------------------------------
(* Ingest: the limit on sources *)

(* An element more is at most one more to count. *)
LEMMA OneMore ==
  ASSUME NEW S, NEW x, IsFiniteSet(S)
  PROVE  IsFiniteSet(S \cup {x}) /\ Cardinality(S \cup {x}) <= Cardinality(S) + 1
<1>1. /\ IsFiniteSet(S \cup {x}) /\ Cardinality(S) \in Nat
      /\ Cardinality(S \cup {x}) = IF x \in S THEN Cardinality(S) ELSE Cardinality(S) + 1
  BY FS_AddElement, FS_CardinalityType
<1>2. QED
  BY <1>1

(* Everything counted is finite. *)
LEMMA IngestFinite ==
  ASSUME IngestTyped
  PROVE  /\ IsFiniteSet(Rows) /\ Cardinality(Rows) \in Nat
         /\ IsFiniteSet(minted \ Rows) /\ Cardinality(minted \ Rows) \in Nat
         /\ Rows \subseteq minted
<1>1. Rows \subseteq minted /\ minted \ Rows \subseteq minted
  BY DEF Rows
<1>2. QED
  BY <1>1, FS_Subset, FS_CardinalityType DEF IngestTyped

(* A step that leaves the rows where they are and looses no request. *)
LEMMA QuotaFrame ==
  ASSUME IngestTyped, QuotaInv, MaxSources # 0, minted' = minted, Rows' = Rows,
         Loose' \subseteq Loose, Counting' => Counting,
         \A a \in Requests : request'[a].pc \in {"dedup", "zombie"} => lock' = a
  PROVE  QuotaInv'
<1>1. IsFiniteSet(Loose') /\ Cardinality(Loose') <= Cardinality(Loose)
      /\ Cardinality(Loose') \in Nat /\ Cardinality(Loose) \in Nat
  BY FS_Subset, FS_CardinalityType DEF QuotaInv
<1>2. Cardinality(Rows') = Cardinality(Rows) /\ Cardinality((minted \ Rows)') = Cardinality(minted \ Rows)
  OBVIOUS
<1>3. (IF Counting' THEN 1 ELSE 0) <= (IF Counting THEN 1 ELSE 0)
  OBVIOUS
<1>4. QED
  BY <1>1, <1>2, <1>3, IngestFinite, SourcesAssumption DEF QuotaInv

(* A request ends, gives back the lock if it has it, and is loose no more. *)
LEMMA EndQuota ==
  ASSUME IngestTyped, QuotaInv, MaxSources # 0, NEW a \in Requests, End(a), UNCHANGED <<minted, source>>
  PROVE  QuotaInv'
<1>1. /\ request'[a] = Idle /\ \A b \in Requests \ {a} : request'[b] = request[b]
      /\ lock' = IF lock = a THEN None ELSE lock
  BY DEF End, Release, IngestTyped, TypeOK
<1>2. Rows' = Rows
  BY DEF Rows
<1>3. Loose' \subseteq Loose
  BY <1>1, NoneAssumption DEF Loose, Idle
<1>4. Counting' => Counting
  BY <1>1 DEF Counting, Idle, IngestTyped, TypeOK
<1>5. \A b \in Requests : request'[b].pc \in {"dedup", "zombie"} => lock' = b
  BY <1>1 DEF QuotaInv, Idle
<1>6. QED
  BY <1>2, <1>3, <1>4, <1>5, QuotaFrame

(* The request that starts has the lock to itself and counts. *)
LEMMA StartQuota ==
  ASSUME IngestTyped, QuotaInv, MaxSources # 0, NEW a \in Requests, NEW x \in Contents, StartIngest(a, x)
  PROVE  QuotaInv'
<1>1. /\ request[a].pc = "idle" /\ lock = None /\ lock' = a /\ Cardinality(Rows) < MaxSources
      /\ UNCHANGED <<minted, source>>
      /\ request'[a].pc = "dedup" /\ \A b \in Requests \ {a} : request'[b] = request[b]
  BY DEF StartIngest, check_source_quota, Locking, IngestTyped, TypeOK
<1>2. Rows' = Rows
  BY <1>1 DEF Rows
<1>3. Loose' \subseteq Loose
  BY <1>1, NoneAssumption DEF Loose
<1>4. IsFiniteSet(Loose') /\ Cardinality(Loose') <= Cardinality(Loose)
      /\ Cardinality(Loose') \in Nat /\ Cardinality(Loose) \in Nat
  BY <1>3, FS_Subset, FS_CardinalityType DEF QuotaInv
<1>5. \A b \in Requests : request'[b].pc \in {"dedup", "zombie"} => lock' = b
  BY <1>1, NoneAssumption DEF QuotaInv
<1>6. Counting' /\ Cardinality(Rows') = Cardinality(Rows)
      /\ Cardinality((minted \ Rows)') = Cardinality(minted \ Rows)
  BY <1>1, <1>2, NoneAssumption DEF Counting
<1>7. QED
  BY <1>1, <1>4, <1>5, <1>6, IngestFinite, SourcesAssumption DEF QuotaInv

(* The lookup, and the two commits that change no row's being there. *)
LEMMA MoveQuota ==
  ASSUME IngestTyped, QuotaInv, MaxSources # 0, NEW a \in Requests,
         DedupMiss(a) \/ DedupFinds(a) \/ WriteFiles(a) \/ SaveSource(a)
  PROVE  QuotaInv'
<1>1. UNCHANGED <<minted, lock>> /\ \A b \in Requests \ {a} : request'[b] = request[b]
  BY DEF DedupMiss, DedupFinds, WriteFiles, SaveSource, IngestTyped, TypeOK
<1>2. Rows' = Rows /\ \A i \in minted : source'[i] = None <=> source[i] = None
  <2>1. CASE SaveSource(a)
    <3>1. PICK i \in minted : i = request[a].id
      BY <2>1 DEF SaveSource, IngestTyped, RequestsOK
    <3>2. source[i] # None /\ source' = [source EXCEPT ![i] = [source[i] EXCEPT !.file = TRUE]]
      BY <2>1, <3>1 DEF SaveSource
    <3>3. source'[i] \in Row
      BY <3>2 DEF IngestTyped, TypeOK, Row
    <3>4. source'[i] # None
      BY <3>3, RowAssumption
    <3>5. QED
      BY <1>1, <3>2, <3>4 DEF Rows, IngestTyped, TypeOK
  <2>2. CASE UNCHANGED source
    BY <1>1, <2>2 DEF Rows
  <2>3. QED
    BY <2>1, <2>2 DEF DedupMiss, DedupFinds, WriteFiles
<1>3. /\ request'[a].pc = "insert" => request[a].pc = "dedup"
      /\ request'[a].pc = "zombie" => request[a].pc = "dedup" /\ request'[a].id \in Rows
      /\ request'[a].pc # "dedup"
  <2>1. PICK o \in Request : o = request[a]
    BY DEF IngestTyped, TypeOK
  <2>2. CASE DedupMiss(a) \/ WriteFiles(a) \/ SaveSource(a)
    BY <2>1, <2>2 DEF DedupMiss, WriteFiles, SaveSource, IngestTyped, TypeOK, Request
  <2>3. CASE DedupFinds(a)
    <3>1. PICK i \in Rows : request'[a] = [o EXCEPT !.pc = IF source[i].file THEN "charge" ELSE "zombie", !.id = i]
      BY <2>1, <2>3 DEF DedupFinds, IngestTyped, TypeOK, Matches
    <3>2. o.pc = "dedup"
      BY <2>1, <2>3 DEF DedupFinds
    <3>3. request'[a].pc \in {"charge", "zombie"} /\ request'[a].id = i
      BY <3>1 DEF Request
    <3>4. QED
      BY <2>1, <3>2, <3>3
  <2>4. QED
    BY <2>2, <2>3
<1>4. Loose' \subseteq Loose
  BY <1>1, <1>2, <1>3 DEF Loose, Rows, QuotaInv, IngestTyped, RequestsOK
<1>5. Counting' => Counting
  BY <1>1, <1>3 DEF Counting, IngestTyped, TypeOK
<1>6. \A b \in Requests : request'[b].pc \in {"dedup", "zombie"} => lock' = b
  BY <1>1, <1>3 DEF QuotaInv
<1>7. QED
  BY <1>1, <1>2, <1>4, <1>5, <1>6, QuotaFrame

(* A row goes. Whoever is loosed by it is paid for by it. *)
LEMMA RowGone ==
  ASSUME IngestTyped, QuotaInv, MaxSources # 0, NEW i \in Rows, Rows' = Rows \ {i}, UNCHANGED minted,
         NEW a, Loose' \subseteq Loose \cup {a}, Counting' => Counting,
         \A b \in Requests : request'[b].pc \in {"dedup", "zombie"} => lock' = b
  PROVE  QuotaInv'
<1>1. IsFiniteSet(Loose) /\ Cardinality(Loose) \in Nat
  BY FS_CardinalityType DEF QuotaInv
<1>2. /\ IsFiniteSet(Loose \cup {a}) /\ Cardinality(Loose \cup {a}) \in Nat
      /\ Cardinality(Loose \cup {a}) <= Cardinality(Loose) + 1
  BY <1>1, FS_AddElement, FS_CardinalityType
<1>3. IsFiniteSet(Loose') /\ Cardinality(Loose') <= Cardinality(Loose) + 1 /\ Cardinality(Loose') \in Nat
  BY <1>1, <1>2, FS_Subset, FS_CardinalityType
<1>4. Cardinality(Rows') = Cardinality(Rows) - 1
  BY IngestFinite, FS_RemoveElement
<1>5. (minted \ Rows)' = (minted \ Rows) \cup {i} /\ i \notin minted \ Rows
  BY IngestFinite
<1>6. Cardinality((minted \ Rows)') = Cardinality(minted \ Rows) + 1
  BY <1>5, IngestFinite, FS_AddElement
<1>7. (IF Counting' THEN 1 ELSE 0) <= (IF Counting THEN 1 ELSE 0)
  OBVIOUS
<1>8. QED
  BY <1>1, <1>3, <1>4, <1>6, <1>7, IngestFinite, SourcesAssumption DEF QuotaInv

(* The zombie is deleted, unless it was gone already, and the lock with it. *)
LEMMA ZombieQuota ==
  ASSUME IngestTyped, QuotaInv, MaxSources # 0, NEW a \in Requests, DeleteZombie(a)
  PROVE  QuotaInv'
<1>1. PICK i \in minted : i = request[a].id
  BY DEF DeleteZombie, IngestTyped, RequestsOK
<1>2. PICK o \in Request : o = request[a]
  BY DEF IngestTyped, TypeOK
<1>3. /\ o.pc = "zombie" /\ source' = [source EXCEPT ![i] = None] /\ UNCHANGED minted
      /\ request'[a] = [o EXCEPT !.pc = "insert", !.id = None]
      /\ \A b \in Requests \ {a} : request'[b] = request[b]
  BY <1>1, <1>2 DEF DeleteZombie, IngestTyped, TypeOK
<1>4. lock = a /\ lock' = None /\ request'[a].pc = "insert"
  <2>1. lock = a
    BY <1>2, <1>3 DEF QuotaInv
  <2>2. lock' = None
    BY <2>1 DEF DeleteZombie, Release
  <2>3. request'[a].pc = "insert"
    BY <1>2, <1>3 DEF Request
  <2> QED
    BY <2>1, <2>2, <2>3
<1>5. Rows' = Rows \ {i}
  BY <1>1, <1>3 DEF Rows, IngestTyped, TypeOK
<1>6. \A b \in Requests \ {a} : request[b].pc \notin {"dedup", "zombie"}
  BY <1>4 DEF QuotaInv
<1>7. Loose' \subseteq Loose \cup {a} /\ ~Counting'
  BY <1>3, <1>4, <1>6 DEF Loose, Counting
<1>8. \A b \in Requests : request'[b].pc \in {"dedup", "zombie"} => lock' = b
  BY <1>3, <1>4, <1>6
<1>9. CASE i \in Rows
  BY <1>3, <1>5, <1>7, <1>8, <1>9, RowGone
<1>10. CASE i \notin Rows
  <2>1. a \in Loose /\ Rows' = Rows
    BY <1>1, <1>2, <1>3, <1>5, <1>10 DEF Loose, Rows
  <2>2. QED
    BY <1>3, <1>7, <1>8, <2>1, QuotaFrame
<1>11. QED
  BY <1>9, <1>10

(* The user deletes a row; a request that had found it a zombie is loosed. *)
LEMMA DeleteQuota ==
  ASSUME IngestTyped, QuotaInv, MaxSources # 0, NEW i \in minted, delete_source(i)
  PROVE  QuotaInv'
<1>1. i \in Rows /\ source' = [source EXCEPT ![i] = None] /\ UNCHANGED <<minted, lock, request>>
  BY DEF delete_source
<1>2. Rows' = Rows \ {i}
  BY <1>1 DEF Rows, IngestTyped, TypeOK
<1>3. Counting' => Counting
  BY <1>1 DEF Counting
<1>4. \A b \in Requests : request'[b].pc \in {"dedup", "zombie"} => lock' = b
  BY <1>1 DEF QuotaInv
<1>5. Loose' \subseteq Loose \cup {lock}
  BY <1>1 DEF Loose, QuotaInv, IngestTyped, TypeOK
<1>6. PICK a : a = lock
  OBVIOUS
<1>7. QED
  BY <1>1, <1>2, <1>3, <1>4, <1>5, <1>6, RowGone

(* A row more, for the request that counted or for a loose one. *)
LEMMA InsertQuota ==
  ASSUME IngestTyped, QuotaInv, MaxSources # 0, NEW a \in Requests, InsertSource(a)
  PROVE  QuotaInv'
<1>1. PICK o \in Request : o = request[a]
  BY DEF IngestTyped, TypeOK
<1>2. PICK i \in Ids \ minted :
         /\ minted' = minted \cup {i}
         /\ source' = [j \in minted' |-> IF j = i THEN [content |-> o.content, file |-> FALSE] ELSE source[j]]
         /\ request' = [request EXCEPT ![a] = [o EXCEPT !.pc = "write", !.id = i]]
  BY <1>1 DEF InsertSource
<1>3. o.pc = "insert" /\ Release(a) /\ o.content \in Contents
  BY <1>1 DEF InsertSource, IngestTyped, RequestsOK
<1>4. request'[a].pc = "write" /\ \A b \in Requests \ {a} : request'[b] = request[b]
  BY <1>2 DEF IngestTyped, TypeOK, Request
<1>5. [content |-> o.content, file |-> FALSE] # None
  <2>1. [content |-> o.content, file |-> FALSE] \in Row
    BY <1>3 DEF Row
  <2>2. QED
    BY <2>1, RowAssumption
<1>6. Rows' = Rows \cup {i} /\ i \notin Rows /\ (minted \ Rows)' = minted \ Rows
  BY <1>2, <1>5 DEF Rows
<1>7. /\ Cardinality(Rows') = Cardinality(Rows) + 1
      /\ Cardinality((minted \ Rows)') = Cardinality(minted \ Rows)
  BY <1>6, IngestFinite, FS_AddElement
<1>8. IsFiniteSet(Loose) /\ Cardinality(Loose) \in Nat
  BY FS_CardinalityType DEF QuotaInv
<1>9. \A b \in Requests \ {a} : request'[b].pc = "zombie" => source'[request'[b].id] = source[request[b].id]
  BY <1>2, <1>4 DEF IngestTyped, RequestsOK
<1>10. \A b \in Requests : request'[b].pc \in {"dedup", "zombie"} => lock' = b
  BY <1>3, <1>4 DEF Release, QuotaInv
<1>11. CASE lock = a
  <2>1. lock' = None /\ Counting /\ ~Counting'
    BY <1>1, <1>3, <1>11, NoneAssumption DEF Release, Counting
  <2>2. Loose' \subseteq Loose
    BY <1>4, <1>9, <1>11 DEF Loose
  <2>3. IsFiniteSet(Loose') /\ Cardinality(Loose') <= Cardinality(Loose) /\ Cardinality(Loose') \in Nat
    BY <1>8, <2>2, FS_Subset, FS_CardinalityType
  <2>4. QED
    BY <1>7, <1>8, <1>10, <2>1, <2>3, IngestFinite, SourcesAssumption DEF QuotaInv
<1>12. CASE lock # a
  <2>1. lock' = lock /\ (Counting' => Counting)
    BY <1>3, <1>4, <1>12 DEF Release, Counting, IngestTyped, TypeOK
  <2>2. a \in Loose /\ Loose' \subseteq Loose \ {a}
    BY <1>1, <1>3, <1>4, <1>9, <1>12, <2>1 DEF Loose
  <2>3. IsFiniteSet(Loose \ {a}) /\ Cardinality(Loose \ {a}) = Cardinality(Loose) - 1
    BY <1>8, <2>2, FS_RemoveElement
  <2>4. IsFiniteSet(Loose') /\ Cardinality(Loose') <= Cardinality(Loose) - 1 /\ Cardinality(Loose') \in Nat
    BY <2>2, <2>3, FS_Subset, FS_CardinalityType
  <2>5. (IF Counting' THEN 1 ELSE 0) <= (IF Counting THEN 1 ELSE 0)
    BY <2>1
  <2>6. QED
    BY <1>7, <1>8, <1>10, <2>4, <2>5, IngestFinite, SourcesAssumption DEF QuotaInv
<1>13. QED
  BY <1>11, <1>12

(* No step of an ingest exceeds the limit by more than was deleted. *)
LEMMA QuotaKept == IngestTyped /\ QuotaInv /\ IngestNext => QuotaInv'
<1> SUFFICES ASSUME IngestTyped, QuotaInv, IngestNext, MaxSources # 0
             PROVE  QuotaInv'
  BY DEF QuotaInv
<1>1. ASSUME NEW a \in Requests, DedupRaises(a) \/ ExtractFails(a) \/ WriteFails(a) \/ SaveFails(a)
                                \/ Answer(a) \/ Crash(a)
      PROVE  QuotaInv'
  BY <1>1, EndQuota DEF DedupRaises, ExtractFails, WriteFails, SaveFails, Answer, Crash
<1>2. QED
  BY <1>1, StartQuota, MoveQuota, ZombieQuota, InsertQuota, DeleteQuota DEF IngestNext, Progress

-----------------------------------------------------------------------------
(* Ingest: the usage counted *)

(* Finitely many sources are stored. *)
LEMMA StoredFinite ==
  ASSUME IngestTyped
  PROVE  IsFiniteSet(Stored \ Charging) /\ Cardinality(Stored \ Charging) \in Nat
<1>1. Stored \ Charging \subseteq minted
  BY DEF Stored, Rows
<1>2. QED
  BY <1>1, FS_Subset, FS_CardinalityType DEF IngestTyped

(* Nothing that is stored and uncounted appears, and usage is unchanged. *)
LEMMA UsageFrame ==
  ASSUME IngestTyped, UsageInv, UNCHANGED usage, Stored' \ Charging' \subseteq Stored \ Charging
  PROVE  UsageInv'
<1>1. IsFiniteSet(Stored' \ Charging') /\ Cardinality(Stored' \ Charging') <= Cardinality(Stored \ Charging)
      /\ Cardinality(Stored' \ Charging') \in Nat
  BY StoredFinite, FS_Subset, FS_CardinalityType
<1>2. QED
  BY <1>1, StoredFinite DEF UsageInv

(* A request that is not about to count moves on, and no source is completed. *)
LEMMA StillCharging ==
  ASSUME IngestTyped, NEW a \in Requests, request[a].pc # "charge",
         \A b \in Requests \ {a} : request'[b] = request[b]
  PROVE  Charging \subseteq Charging'
  BY DEF Charging

(* Every step of an ingest leaves the usage no lower than what is counted. *)
LEMMA UsageKept == IngestTyped /\ UsageInv /\ IngestNext => UsageInv'
<1> SUFFICES ASSUME IngestTyped, UsageInv, IngestNext
             PROVE  UsageInv'
  OBVIOUS
<1>1. ASSUME NEW a \in Requests, UNCHANGED <<usage, minted, source, uncounted>>, request[a].pc # "charge",
             \A b \in Requests \ {a} : request'[b] = request[b]
      PROVE  UsageInv'
  <2>1. Stored' = Stored
    BY <1>1 DEF Stored, Rows
  <2>2. QED
    BY <1>1, <2>1, StillCharging, UsageFrame
<1>2. ASSUME NEW a \in Requests, UNCHANGED uncounted,
             \/ \E x \in Contents : StartIngest(a, x)
             \/ DedupMiss(a) \/ DedupFinds(a) \/ DedupRaises(a) \/ ExtractFails(a)
             \/ WriteFiles(a) \/ WriteFails(a) \/ SaveFails(a)
      PROVE  UsageInv'
  BY <1>1, <1>2 DEF StartIngest, DedupMiss, DedupFinds, DedupRaises, ExtractFails, WriteFiles, WriteFails,
     SaveFails, End, IngestTyped, TypeOK
<1>3. ASSUME NEW a \in Requests, DeleteZombie(a), UNCHANGED uncounted PROVE UsageInv'
  <2>1. request[a].pc # "charge" /\ (\A b \in Requests \ {a} : request'[b] = request[b]) /\ UNCHANGED usage
    BY <1>3 DEF DeleteZombie, IngestTyped, TypeOK
  <2>2. Stored' \subseteq Stored
    BY <1>3 DEF DeleteZombie, Stored, Rows, IngestTyped, TypeOK
  <2>3. QED
    BY <2>1, <2>2, StillCharging, UsageFrame
<1>4. ASSUME NEW a \in Requests, InsertSource(a), UNCHANGED uncounted PROVE UsageInv'
  <2>1. request[a].pc # "charge" /\ (\A b \in Requests \ {a} : request'[b] = request[b]) /\ UNCHANGED usage
    BY <1>4 DEF InsertSource, IngestTyped, TypeOK
  <2>2. PICK i \in Ids \ minted :
           /\ minted' = minted \cup {i}
           /\ source' = [j \in minted' |->
                  IF j = i THEN [content |-> request[a].content, file |-> FALSE] ELSE source[j]]
    BY <1>4 DEF InsertSource
  <2>3. Stored' \subseteq Stored
    BY <1>4, <2>2 DEF Stored, Rows
  <2>4. QED
    BY <2>1, <2>3, StillCharging, UsageFrame
<1>5. ASSUME NEW a \in Requests, SaveSource(a), UNCHANGED uncounted PROVE UsageInv'
  <2>1. PICK i \in minted : i = request[a].id
    BY <1>5 DEF SaveSource, IngestTyped, RequestsOK
  <2>2. request[a].pc = "save" /\ (\A b \in Requests \ {a} : request'[b] = request[b])
        /\ UNCHANGED <<usage, minted>> /\ request'[a].pc = "charge" /\ request'[a].id = i
    BY <1>5, <2>1 DEF SaveSource, IngestTyped, TypeOK, Request
  <2>3. source[i] # None /\ source' = [source EXCEPT ![i] = [source[i] EXCEPT !.file = TRUE]]
    BY <1>5, <2>1 DEF SaveSource
  <2>4. Stored' \subseteq Stored \cup {i}
    BY <1>5, <2>2, <2>3 DEF Stored, Rows, IngestTyped, TypeOK
  <2>5. i \in Charging'
    BY <2>2 DEF Charging
  <2>6. QED
    BY <2>2, <2>4, <2>5, StillCharging, UsageFrame
<1>6. ASSUME NEW a \in Requests, Answer(a), UNCHANGED uncounted PROVE UsageInv'
  <2>1. PICK i \in minted : i = request[a].id
    BY <1>6 DEF Answer, IngestTyped, RequestsOK
  <2>2. Stored' = Stored /\ Charging \subseteq Charging' \cup {i}
    BY <1>6, <2>1 DEF Answer, End, Stored, Rows, Charging, IngestTyped, TypeOK
  <2>3. PICK S : S = Stored \ Charging
    OBVIOUS
  <2>4. IsFiniteSet(S \cup {i}) /\ Cardinality(S \cup {i}) <= Cardinality(S) + 1
    <3>1. IsFiniteSet(S) /\ Cardinality(S) \in Nat
      BY <2>3, StoredFinite
    <3>2. QED
      BY <3>1, OneMore
  <2>5. Cardinality(Stored' \ Charging') <= Cardinality(Stored \ Charging) + 1
        /\ Cardinality(Stored' \ Charging') \in Nat
    <3>1. Stored' \ Charging' \subseteq S \cup {i}
      BY <2>2, <2>3
    <3>2. IsFiniteSet(Stored' \ Charging') /\ Cardinality(Stored' \ Charging') <= Cardinality(S \cup {i})
      BY <2>4, <3>1, FS_Subset
    <3>3. QED
      BY <2>3, <2>4, <3>2, StoredFinite, FS_CardinalityType
  <2>6. Backfilled => usage' = usage + 1
    BY <1>6, NoneAssumption DEF Answer, commit_storage, UsageInv
  <2>7. QED
    BY <2>5, <2>6, StoredFinite DEF UsageInv
<1>7. ASSUME NEW a \in Requests, Crash(a),
             uncounted' = IF request[a].pc = "charge" THEN uncounted \cup {request[a].id} ELSE uncounted
      PROVE  UsageInv'
  <2>1. /\ UNCHANGED <<minted, source, usage>>
        /\ \A b \in Requests \ {a} : request'[b] = request[b]
    BY <1>7 DEF Crash, End, IngestTyped, TypeOK
  <2>2. CASE request[a].pc # "charge"
    BY <1>1, <1>7, <2>1, <2>2
  <2>3. CASE request[a].pc = "charge"
    <3>1. Charging \subseteq Charging' \cup {request[a].id}
      BY <2>1 DEF Charging
    <3>2. Stored' \subseteq Stored \ {request[a].id}
      BY <1>7, <2>1, <2>3 DEF Stored, Rows
    <3>3. QED
      BY <2>1, <3>1, <3>2, UsageFrame
  <2>4. QED
    BY <2>2, <2>3
<1>8. ASSUME NEW i \in minted, delete_source(i), UNCHANGED uncounted PROVE UsageInv'
  <2>1. UNCHANGED <<usage, request>> /\ Charging' = Charging
    BY <1>8 DEF delete_source, Charging
  <2>2. Stored' \subseteq Stored
    BY <1>8 DEF delete_source, Stored, Rows, IngestTyped, TypeOK
  <2>3. QED
    BY <2>1, <2>2, UsageFrame
<1>9. QED
  BY <1>2, <1>3, <1>4, <1>5, <1>6, <1>7, <1>8 DEF IngestNext, Progress

-----------------------------------------------------------------------------
(* Ingest: one source of one content *)

(* What is said of a request whose own state, and whose row, do not change   *)
(* stays true, as long as nobody adds a row of its content.                  *)
LEMMA SameFound ==
  ASSUME NEW b \in Requests, FoundOK(b), request'[b] = request[b], deleted \subseteq deleted',
         \A i \in Rows' : source'[i].content = request[b].content => i \in Rows /\ source[i].content = source'[i].content,
         request[b].id \in Rows' => /\ request[b].id \in Rows
                                    /\ source'[request[b].id].content = source[request[b].id].content,
         request[b].pc = "zombie" /\ request[b].id \in Rows' => ~source'[request[b].id].file,
         request[b].pc = "charge" /\ request[b].id \notin deleted' =>
            request[b].id \in Rows' /\ source'[request[b].id].file
  PROVE  FoundOK(b)'
<1>1. Matches(request[b].content)' \subseteq Matches(request[b].content)
  BY DEF Matches
<1>2. QED
  BY <1>1 DEF FoundOK

(* A step that changes no row. *)
LEMMA NoRowChanges ==
  ASSUME FoundInv, NEW a \in Requests, UNCHANGED <<minted, source, deleted>>,
         \A b \in Requests \ {a} : request'[b] = request[b], FoundOK(a)', AnsweredKept'
  PROVE  FoundInv'
<1>1. Rows' = Rows
  BY DEF Rows
<1>2. OneRow'
  BY <1>1 DEF FoundInv, OneRow
<1>3. ASSUME NEW b \in Requests \ {a} PROVE FoundOK(b)'
  <2>1. FoundOK(b) /\ request'[b] = request[b]
    BY DEF FoundInv
  <2>2. QED
    BY <1>1, <2>1 DEF FoundOK, Matches
<1>4. QED
  BY <1>2, <1>3 DEF FoundInv

(* A request that ends, or waits. *)
LEMMA EndFound ==
  ASSUME IngestTyped, FoundInv, NEW a \in Requests, UNCHANGED <<minted, source, deleted>>,
         \A b \in Requests \ {a} : request'[b] = request[b],
         request'[a].pc \in {"idle", "dedup"}, AnsweredKept'
  PROVE  FoundInv'
<1>1. FoundOK(a)'
  BY DEF FoundOK
<1>2. QED
  BY <1>1, NoRowChanges

(* A request that looks its content up. *)
LEMMA DedupFound ==
  ASSUME IngestTyped, FoundInv, NEW a \in Requests, DedupMiss(a) \/ DedupFinds(a)
  PROVE  FoundInv'
<1>1. PICK o \in Request : o = request[a]
  BY DEF IngestTyped, TypeOK
<1>2. UNCHANGED <<minted, source, deleted, answered>> /\ \A b \in Requests \ {a} : request'[b] = request[b]
  BY DEF DedupMiss, DedupFinds, IngestTyped, TypeOK
<1>3. AnsweredKept'
  BY <1>2 DEF FoundInv, AnsweredKept
<1>4. Rows' = Rows /\ Matches(o.content)' = Matches(o.content)
  BY <1>2 DEF Rows, Matches
<1>5. FoundOK(a)'
  <2>1. CASE DedupMiss(a)
    <3>1. request'[a].pc = "insert" /\ request'[a].content = o.content /\ Matches(o.content) = {}
      BY <1>1, <2>1 DEF DedupMiss, IngestTyped, TypeOK, Request
    <3>2. QED
      BY <1>4, <3>1 DEF FoundOK
  <2>2. CASE DedupFinds(a)
    <3>1. PICK i \in Ids :
             /\ Matches(o.content) = {i}
             /\ request'[a] = [o EXCEPT !.pc = IF source[i].file THEN "charge" ELSE "zombie", !.id = i]
      BY <1>1, <2>2 DEF DedupFinds, IngestTyped, TypeOK
    <3>2. i \in Rows /\ source[i].content = o.content
      BY <3>1 DEF Matches
    <3>3. request'[a].content = o.content /\ request'[a].id = i
      BY <3>1 DEF Request
    <3>4. CASE source[i].file
      <4>1. request'[a].pc = "charge"
        BY <3>1, <3>4 DEF Request
      <4>2. QED
        BY <1>2, <1>4, <3>2, <3>3, <3>4, <4>1 DEF FoundOK
    <3>5. CASE ~source[i].file
      <4>1. request'[a].pc = "zombie"
        BY <3>1, <3>5 DEF Request
      <4>2. QED
        BY <1>2, <1>4, <3>1, <3>2, <3>3, <3>5, <4>1 DEF FoundOK
    <3>6. QED
      BY <3>4, <3>5
  <2>3. QED
    BY <2>1, <2>2
<1>6. QED
  BY <1>2, <1>3, <1>5, NoRowChanges

(* A zombie is deleted: nobody was told of it, and no other request has it. *)
LEMMA ZombieFound ==
  ASSUME IngestTyped, FoundInv, NEW a \in Requests, DeleteZombie(a)
  PROVE  FoundInv'
<1>1. PICK o \in Request : o = request[a]
  BY DEF IngestTyped, TypeOK
<1>2. PICK i \in minted : i = o.id
  BY <1>1 DEF DeleteZombie, IngestTyped, RequestsOK
<1>3. /\ o.pc = "zombie" /\ source' = [source EXCEPT ![i] = None] /\ UNCHANGED <<minted, deleted, answered>>
      /\ request'[a] = [o EXCEPT !.pc = "insert", !.id = None]
      /\ \A b \in Requests \ {a} : request'[b] = request[b]
  BY <1>1, <1>2 DEF DeleteZombie, IngestTyped, TypeOK
<1>4. /\ Rows' = Rows \ {i} /\ \A j \in minted \ {i} : source'[j] = source[j]
  BY <1>3 DEF Rows, IngestTyped, TypeOK
<1>5. FoundOK(a) /\ Matches(o.content) \subseteq {i} /\ (i \in Rows => ~source[i].file)
  BY <1>1, <1>2, <1>3 DEF FoundInv, FoundOK
<1>6. OneRow'
  BY <1>4 DEF FoundInv, OneRow, Rows
<1>7. AnsweredKept'
  BY <1>2, <1>3, <1>4, <1>5 DEF FoundInv, AnsweredKept, Rows, IngestTyped, TypeOK
<1>8. FoundOK(a)'
  <2>1. request'[a].pc = "insert" /\ request'[a].content = o.content
    BY <1>3 DEF Request
  <2>2. Matches(o.content)' = {}
    BY <1>4, <1>5 DEF Matches, Rows
  <2>3. QED
    BY <2>1, <2>2 DEF FoundOK
<1>9. ASSUME NEW b \in Requests \ {a} PROVE FoundOK(b)'
  <2>1. FoundOK(b) /\ request'[b] = request[b]
    BY <1>3 DEF FoundInv
  <2>2. \A j \in Rows' : j \in Rows /\ source'[j] = source[j]
    BY <1>4 DEF Rows
  <2>3. request[b].pc = "charge" /\ request[b].id \notin deleted' =>
            request[b].id \in Rows' /\ source'[request[b].id].file
    BY <1>3, <1>4, <1>5, <2>1, <2>2 DEF FoundOK
  <2>4. request[b].pc = "zombie" /\ request[b].id \in Rows' => ~source'[request[b].id].file
    BY <2>1, <2>2 DEF FoundOK
  <2>5. QED
    BY <1>3, <2>1, <2>2, <2>3, <2>4, SameFound
<1>10. QED
  BY <1>6, <1>7, <1>8, <1>9 DEF FoundInv

(* A row is added: there is none of its content, and no other request for it. *)
LEMMA InsertFound ==
  ASSUME IngestTyped, FoundInv, Apart, NEW a \in Requests, InsertSource(a)
  PROVE  FoundInv'
<1>1. PICK o \in Request : o = request[a]
  BY DEF IngestTyped, TypeOK
<1>2. o.pc = "insert" /\ o.content \in Contents /\ UNCHANGED <<answered, deleted>>
  BY <1>1 DEF InsertSource, IngestTyped, RequestsOK
<1>3. PICK i \in Ids \ minted :
         /\ minted' = minted \cup {i}
         /\ source' = [j \in minted' |-> IF j = i THEN [content |-> o.content, file |-> FALSE] ELSE source[j]]
         /\ request' = [request EXCEPT ![a] = [o EXCEPT !.pc = "write", !.id = i]]
  BY <1>1 DEF InsertSource
<1>4. /\ source'[i].content = o.content /\ \A j \in minted : source'[j] = source[j]
      /\ Rows' \subseteq Rows \cup {i} /\ Rows \subseteq Rows'
  BY <1>3 DEF Rows
<1>5. Matches(o.content) = {}
  BY <1>1, <1>2 DEF FoundInv, FoundOK
<1>6. OneRow'
  BY <1>3, <1>4, <1>5 DEF FoundInv, OneRow, Matches, Rows
<1>7. AnsweredKept'
  BY <1>2, <1>4 DEF FoundInv, AnsweredKept, IngestTyped, TypeOK
<1>8. FoundOK(a)'
  <2>1. request'[a].pc = "write" /\ request'[a].content = o.content /\ request'[a].id = i
    BY <1>3 DEF IngestTyped, TypeOK, Request
  <2>2. QED
    BY <1>4, <2>1 DEF FoundOK
<1>9. ASSUME NEW b \in Requests \ {a} PROVE FoundOK(b)'
  <2>1. FoundOK(b) /\ request'[b] = request[b]
    BY <1>3 DEF FoundInv, IngestTyped, TypeOK
  <2>2. CASE request[b].pc \in {"idle", "dedup"}
    BY <2>1, <2>2 DEF FoundOK
  <2>3. CASE request[b].pc \notin {"idle", "dedup"}
    <3>1. request[b].content \in Contents /\ request[b].content # o.content
      BY <1>1, <1>2, <2>3, NoneAssumption DEF Apart, IngestTyped, RequestsOK
    <3>2. \A j \in Rows' : source'[j].content = request[b].content => j \in Rows /\ source[j].content = source'[j].content
      BY <1>4, <3>1 DEF Rows
    <3>3. CASE request[b].pc = "insert"
      <4>1. Matches(request[b].content)' = {}
        BY <2>1, <3>2, <3>3 DEF FoundOK, Matches
      <4>2. QED
        BY <2>1, <3>3, <4>1 DEF FoundOK
    <3>4. CASE request[b].pc # "insert"
      <4>1. request[b].id \in minted
        BY <2>3, <3>4 DEF IngestTyped, TypeOK, Request, PC, RequestsOK
      <4>2. request[b].id # i
        BY <1>3, <4>1
      <4>3. /\ request[b].id \in Rows' <=> request[b].id \in Rows
            /\ source'[request[b].id] = source[request[b].id]
        BY <1>4, <4>1, <4>2
      <4>4. /\ request[b].pc = "zombie" /\ request[b].id \in Rows' => ~source'[request[b].id].file
            /\ request[b].pc = "charge" /\ request[b].id \notin deleted' =>
                  request[b].id \in Rows' /\ source'[request[b].id].file
        BY <1>2, <2>1, <4>3 DEF FoundOK
      <4>5. QED
        BY <1>2, <2>1, <3>2, <4>3, <4>4, SameFound
    <3>5. QED
      BY <3>3, <3>4
  <2>4. QED
    BY <2>2, <2>3
<1>10. QED
  BY <1>6, <1>7, <1>8, <1>9 DEF FoundInv

(* The row gets its file: who found it without one would be for its content. *)
LEMMA SaveFound ==
  ASSUME IngestTyped, FoundInv, Apart, NEW a \in Requests, SaveSource(a)
  PROVE  FoundInv'
<1>1. PICK o \in Request : o = request[a]
  BY DEF IngestTyped, TypeOK
<1>2. PICK i \in minted : i = o.id
  BY <1>1 DEF SaveSource, IngestTyped, RequestsOK
<1>3. /\ o.pc = "save" /\ source[i] # None /\ UNCHANGED <<minted, deleted, answered>>
      /\ source' = [source EXCEPT ![i] = [source[i] EXCEPT !.file = TRUE]]
      /\ request'[a] = [o EXCEPT !.pc = "charge"]
      /\ \A b \in Requests \ {a} : request'[b] = request[b]
  BY <1>1, <1>2 DEF SaveSource, IngestTyped, TypeOK
<1>4. /\ source[i] \in Row /\ source'[i] = [source[i] EXCEPT !.file = TRUE]
      /\ \A j \in minted \ {i} : source'[j] = source[j]
  BY <1>3 DEF IngestTyped, TypeOK
<1>5. source'[i].file = TRUE /\ source'[i].content = source[i].content /\ source'[i] \in Row
  BY <1>4 DEF Row
<1>6. Rows' = Rows /\ i \in Rows
  <2>1. source'[i] # None
    BY <1>5, RowAssumption
  <2>2. QED
    BY <1>3, <1>4, <2>1 DEF Rows
<1>7. \A j \in Rows : source'[j].content = source[j].content
  BY <1>4, <1>5 DEF Rows
<1>8. OneRow'
  BY <1>6, <1>7 DEF FoundInv, OneRow
<1>9. AnsweredKept'
  <2> SUFFICES ASSUME NEW j \in answered \ deleted
               PROVE  source'[j] # None /\ source'[j].file
    BY <1>3 DEF AnsweredKept
  <2>1. source[j] # None /\ source[j].file /\ j \in minted
    BY DEF FoundInv, AnsweredKept, IngestTyped, TypeOK
  <2>2. CASE j = i
    BY <1>5, <2>2, RowAssumption
  <2>3. CASE j # i
    BY <1>4, <2>1, <2>3
  <2>4. QED
    BY <2>2, <2>3
<1>10. source[i].content = o.content /\ o.content \in Contents
  BY <1>1, <1>2, <1>3, <1>6 DEF FoundInv, FoundOK, IngestTyped, RequestsOK
<1>11. FoundOK(a)'
  <2>1. request'[a].pc = "charge" /\ request'[a].content = o.content /\ request'[a].id = i
    BY <1>2, <1>3 DEF Request
  <2>2. QED
    BY <1>5, <1>6, <1>7, <1>10, <2>1 DEF FoundOK
<1>12. ASSUME NEW b \in Requests \ {a} PROVE FoundOK(b)'
  <2>1. FoundOK(b) /\ request'[b] = request[b]
    BY <1>3 DEF FoundInv
  <2>2. request[b].pc = "zombie" /\ request[b].id \in Rows' => ~source'[request[b].id].file
    <3>1. SUFFICES ASSUME request[b].pc = "zombie", request[b].id \in Rows
                   PROVE  ~source'[request[b].id].file
      BY <1>6
    <3>2. ~source[request[b].id].file /\ source[request[b].id].content = request[b].content
      BY <2>1, <3>1 DEF FoundOK
    <3>3. request[b].content \in Contents
      BY <3>1 DEF IngestTyped, RequestsOK
    <3>4. request[b].id # i
      BY <1>1, <1>10, <3>2, <3>3, NoneAssumption DEF Apart
    <3>5. QED
      BY <1>4, <3>1, <3>2, <3>4 DEF Rows
  <2>3. request[b].pc = "charge" /\ request[b].id \notin deleted' =>
            request[b].id \in Rows' /\ source'[request[b].id].file
    <3>1. SUFFICES ASSUME request[b].pc = "charge", request[b].id \notin deleted
                   PROVE  request[b].id \in Rows /\ source'[request[b].id].file
      BY <1>3, <1>6
    <3>2. request[b].id \in Rows /\ source[request[b].id].file
      BY <2>1, <3>1 DEF FoundOK
    <3>3. CASE request[b].id = i
      BY <1>5, <3>2, <3>3
    <3>4. CASE request[b].id # i
      BY <1>4, <3>2, <3>4 DEF Rows
    <3>5. QED
      BY <3>3, <3>4
  <2>4. QED
    BY <1>3, <1>6, <1>7, <2>1, <2>2, <2>3, SameFound
<1>13. QED
  BY <1>8, <1>9, <1>11, <1>12 DEF FoundInv

(* The user deletes a row, which nobody is promised any more. *)
LEMMA DeleteFound ==
  ASSUME IngestTyped, FoundInv, NEW i \in minted, delete_source(i)
  PROVE  FoundInv'
<1>1. /\ i \in Rows /\ source' = [source EXCEPT ![i] = None] /\ deleted' = deleted \cup {i}
      /\ UNCHANGED <<minted, request, answered>>
  BY DEF delete_source
<1>2. Rows' = Rows \ {i} /\ \A j \in minted \ {i} : source'[j] = source[j]
  BY <1>1 DEF Rows, IngestTyped, TypeOK
<1>3. OneRow'
  BY <1>2 DEF FoundInv, OneRow, Rows
<1>4. AnsweredKept'
  BY <1>1, <1>2 DEF FoundInv, AnsweredKept, IngestTyped, TypeOK
<1>5. ASSUME NEW b \in Requests PROVE FoundOK(b)'
  <2>1. FoundOK(b) /\ request'[b] = request[b]
    BY <1>1 DEF FoundInv
  <2>2. \A j \in Rows' : j \in Rows /\ source'[j] = source[j]
    BY <1>2 DEF Rows
  <2>3. request[b].pc = "charge" /\ request[b].id \notin deleted' =>
            request[b].id \in Rows' /\ source'[request[b].id].file
    BY <1>1, <1>2, <2>1, <2>2 DEF FoundOK
  <2>4. request[b].pc = "zombie" /\ request[b].id \in Rows' => ~source'[request[b].id].file
    BY <2>1, <2>2 DEF FoundOK
  <2>5. QED
    BY <1>1, <2>1, <2>2, <2>3, <2>4, SameFound
<1>6. QED
  BY <1>3, <1>4, <1>5 DEF FoundInv

(* Any step, while requests for one content do not overlap. *)
LEMMA FoundKept == IngestTyped /\ FoundInv /\ Apart /\ IngestNext => FoundInv'
<1> SUFFICES ASSUME IngestTyped, FoundInv, Apart, IngestNext
             PROVE  FoundInv'
  OBVIOUS
<1>1. ASSUME NEW a \in Requests, UNCHANGED <<minted, source, deleted, answered>>,
             \A b \in Requests \ {a} : request'[b] = request[b], request'[a].pc \in {"idle", "dedup"}
      PROVE  FoundInv'
  <2>1. AnsweredKept'
    BY <1>1 DEF FoundInv, AnsweredKept
  <2>2. QED
    BY <1>1, <2>1, EndFound
<1>2. ASSUME NEW a \in Requests,
             \/ \E x \in Contents : StartIngest(a, x)
             \/ DedupRaises(a) \/ ExtractFails(a) \/ WriteFails(a) \/ SaveFails(a) \/ Crash(a)
      PROVE  FoundInv'
  <2>1. UNCHANGED <<minted, source, deleted, answered>> /\ \A b \in Requests \ {a} : request'[b] = request[b]
    BY <1>2 DEF StartIngest, DedupRaises, ExtractFails, WriteFails, SaveFails, Crash, End, IngestTyped, TypeOK
  <2>2. request'[a].pc \in {"idle", "dedup"}
    BY <1>2 DEF StartIngest, DedupRaises, ExtractFails, WriteFails, SaveFails, Crash, End, Idle, IngestTyped, TypeOK
  <2>3. QED
    BY <1>1, <2>1, <2>2
<1>3. ASSUME NEW a \in Requests, WriteFiles(a) PROVE FoundInv'
  <2>1. PICK o \in Request : o = request[a]
    BY DEF IngestTyped, TypeOK
  <2>2. /\ UNCHANGED <<minted, source, deleted, answered>> /\ \A b \in Requests \ {a} : request'[b] = request[b]
        /\ o.pc = "write" /\ request'[a] = [o EXCEPT !.pc = "save"]
    BY <1>3, <2>1 DEF WriteFiles, IngestTyped, TypeOK
  <2>3. request'[a].pc = "save" /\ request'[a].content = o.content /\ request'[a].id = o.id
    BY <2>2 DEF Request
  <2>4. FoundOK(a)'
    BY <2>1, <2>2, <2>3 DEF FoundInv, FoundOK, Rows
  <2>5. AnsweredKept'
    BY <2>2 DEF FoundInv, AnsweredKept
  <2>6. QED
    BY <2>2, <2>4, <2>5, NoRowChanges
<1>4. ASSUME NEW a \in Requests, Answer(a) PROVE FoundInv'
  <2>1. /\ UNCHANGED <<minted, source, deleted>> /\ \A b \in Requests \ {a} : request'[b] = request[b]
        /\ request'[a].pc = "idle" /\ request[a].pc = "charge" /\ answered' = answered \cup {request[a].id}
    BY <1>4 DEF Answer, End, Idle, IngestTyped, TypeOK
  <2>2. request[a].id \in deleted \/ (source[request[a].id] # None /\ source[request[a].id].file)
    BY <2>1 DEF FoundInv, FoundOK, Rows
  <2>3. AnsweredKept'
    BY <2>1, <2>2 DEF FoundInv, AnsweredKept
  <2>4. QED
    BY <2>1, <2>3, EndFound
<1>5. QED
  BY <1>2, <1>3, <1>4, DedupFound, ZombieFound, InsertFound, SaveFound, DeleteFound DEF IngestNext, Progress

(* Every step of an ingest keeps one row per content while requests are apart. *)
LEMMA DedupKept == IngestTyped /\ DedupInv /\ IngestNext => DedupInv'
<1> SUFFICES ASSUME IngestTyped, DedupInv, IngestNext, ~overlapped'
             PROVE  Apart' /\ FoundInv'
  BY DEF DedupInv
<1>1. ~overlapped /\ ~Overlap'
  BY DEF IngestNext
<1>2. Apart'
  BY <1>1 DEF Overlap, Apart
<1>3. QED
  BY <1>1, <1>2, FoundKept DEF DedupInv

-----------------------------------------------------------------------------
(* Ingest: the theorems *)

(* At first nothing is stored and no request is under way. *)
LEMMA InitIngest == Init /\ overlapped = FALSE /\ uncounted = {} => IngestInv
<1> SUFFICES ASSUME Init, overlapped = FALSE, uncounted = {}
             PROVE  IngestInv
  OBVIOUS
<1>1. minted = {} /\ Rows = {} /\ minted \ Rows = {} /\ \A a \in Requests : request[a] = Idle
  BY DEF Init, Rows
<1>2. Idle \in Request /\ Idle.pc = "idle" /\ Idle.content = None
  BY DEF Idle, Request, PC
<1>3. IngestTyped
  <2>1. source \in [minted -> Row \cup {None}]
    BY <1>1 DEF Init
  <2>2. request \in [Requests -> Request]
    BY <1>1, <1>2 DEF Init
  <2>3. usage \in Nat \cup {None}
    BY DEF Init
  <2>4. QED
    BY <1>1, <1>2, <2>1, <2>2, <2>3, FS_EmptySet DEF IngestTyped, TypeOK, RequestsOK, Init
<1>4. QuotaInv
  <2>1. Loose = {} /\ ~Counting
    BY <1>1, <1>2 DEF Loose, Counting, Init
  <2>2. QED
    BY <1>1, <1>2, <2>1, FS_EmptySet, SourcesAssumption DEF QuotaInv
<1>5. UsageInv
  <2>1. Stored \ Charging = {}
    BY <1>1 DEF Stored
  <2>2. QED
    BY <2>1, FS_EmptySet DEF UsageInv, Init
<1>6. DedupInv
  BY <1>1, <1>2 DEF DedupInv, FoundInv, Apart, OneRow, AnsweredKept, FoundOK, Init
<1>7. QED
  BY <1>3, <1>4, <1>5, <1>6 DEF IngestInv

(* What the ingest invariants say holds throughout. *)
LEMMA IngestAlways == FeedsSpec => []IngestInv
<1>1. FeedsInit => IngestInv
  BY InitIngest DEF FeedsInit
<1>2. IngestInv /\ [FeedsNext]_feedsVars => IngestInv'
  <2>1. ASSUME IngestInv, IngestNext PROVE IngestInv'
    BY <2>1, IngestTypedKept, QuotaKept, UsageKept, DedupKept DEF IngestInv
  <2>2. ASSUME IngestInv, UNCHANGED ingestVars PROVE IngestInv'
    <3>1. IngestTyped' /\ Rows' = Rows
      BY <2>2 DEF IngestInv, IngestTyped, TypeOK, RequestsOK, Rows, ingestVars, vars
    <3>2. QuotaInv'
      BY <2>2 DEF IngestInv, QuotaInv, Loose, Counting, Rows, ingestVars, vars
    <3>3. UsageInv'
      BY <2>2 DEF IngestInv, UsageInv, Stored, Charging, Rows, ingestVars, vars
    <3>4. DedupInv'
      BY <2>2 DEF IngestInv, DedupInv, Apart, FoundInv, OneRow, AnsweredKept, FoundOK, Matches, Rows, ingestVars, vars
    <3>5. QED
      BY <3>1, <3>2, <3>3, <3>4 DEF IngestInv
  <2>3. QED
    BY <2>1, <2>2 DEF FeedsNext, feedsVars
<1>3. QED
  BY <1>1, <1>2, PTL DEF FeedsSpec

(* ingest/utils.py, ingest/service.py: while no two requests for one content   *)
(* overlap, a user has one source row per content, and a source the user was   *)
(* told of stays with its file until the user deletes it, through crashes,     *)
(* failed writes and zombies deleted on the way.                               *)
THEOREM ContentAlwaysOnce == FeedsSpec => []ContentOnce
<1>1. IngestInv => ContentOnce
  <2> SUFFICES ASSUME IngestInv, ~overlapped, NEW x \in Contents
               PROVE  Cardinality(Matches(x)) <= 1
    BY DEF ContentOnce, UniqueApart, AnsweredApart, IngestInv, IngestTyped, DedupInv, FoundInv, UniqueContent
  <2>1. \A i, j \in Matches(x) : i = j
    BY DEF IngestInv, DedupInv, FoundInv, OneRow, Matches
  <2>2. CASE Matches(x) = {}
    BY <2>2, FS_EmptySet
  <2>3. ASSUME NEW i \in Matches(x) PROVE Cardinality(Matches(x)) <= 1
    <3>1. Matches(x) = {i}
      BY <2>1
    <3>2. Cardinality({i}) = 1
      BY FS_Singleton
    <3>3. QED
      BY <3>1, <3>2
  <2>4. QED
    BY <2>2, <2>3
<1>2. QED
  BY <1>1, IngestAlways, PTL

(* services/quota.py: the plan's limit is exceeded by no more rows than were   *)
(* deleted, and, for a user who has a usage row, the usage counted covers      *)
(* every source stored but those whose request died before counting.           *)
THEOREM UsageAlwaysTrue == ASSUME Backfilled PROVE FeedsSpec => []UsageTrue
<1>1. IngestInv => UsageTrue
  <2> SUFFICES ASSUME IngestInv
               PROVE  QuotaHeld /\ UsageCoversAll
    BY DEF UsageTrue
  <2>1. QuotaHeld
    <3>1. MaxSources # 0 => Cardinality(Loose) \in Nat
      BY FS_CardinalityType DEF IngestInv, QuotaInv
    <3>2. QED
      BY <3>1, IngestFinite, SourcesAssumption DEF IngestInv, QuotaInv, QuotaHeld
  <2>2. UsageCoversAll
    <3> SUFFICES ASSUME Quiet
                 PROVE  Cardinality({i \in Rows \ uncounted : source[i].file}) <= IF usage = None THEN 0 ELSE usage
      BY DEF UsageCoversAll
    <3>1. Charging = {}
      BY DEF Charging, Quiet
    <3>2. Stored \ Charging = {i \in Rows \ uncounted : source[i].file}
      BY <3>1 DEF Stored
    <3>3. usage \in Nat /\ Cardinality(Stored \ Charging) <= usage
      BY DEF IngestInv, UsageInv
    <3>4. QED
      BY <3>2, <3>3, NoneAssumption
  <2>3. QED
    BY <2>1, <2>2
<1>2. QED
  BY <1>1, IngestAlways, PTL

-----------------------------------------------------------------------------
(* Migrations: stages *)

(* There are six versions, each with a name of its own. *)
LEMMA VersionFacts ==
  /\ Len(Versions) = 6
  /\ Versions[1] = "conversations" /\ Versions[2] = "repair" /\ Versions[3] = "concepts"
  /\ Versions[4] = "paths" /\ Versions[5] = "join" /\ Versions[6] = "orphans"
  /\ \A j, k \in 1 .. 6 : Versions[j] = Versions[k] => j = k
<1>1. /\ Len(Versions) = 6
      /\ Versions[1] = "conversations" /\ Versions[2] = "repair" /\ Versions[3] = "concepts"
      /\ Versions[4] = "paths" /\ Versions[5] = "join" /\ Versions[6] = "orphans"
  BY DEF Versions
<1>2. \A j \in 1 .. 6 : j = 1 \/ j = 2 \/ j = 3 \/ j = 4 \/ j = 5 \/ j = 6
  OBVIOUS
<1>3. QED
  BY <1>1, <1>2

(* A process moves on, and what is said of it and of the others holds. *)
LEMMA StageMoves ==
  ASSUME StagesTyped, StagesInv, NEW p \in Processes, NEW new \in Stage,
         proc' = [proc EXCEPT ![p] = new], UNCHANGED postgres,
         applied \subseteq applied', raced' \in BOOLEAN, raced => raced',
         new.pc \in {"check", "read", "write", "record", "serving"} =>
            \A k \in 1 .. (new.at - 1) : Versions[k] \in applied',
         postgres /\ new.pc \in {"check", "read", "write", "record"} => migrationLock' = p,
         new.pc = "serving" => new.at = 7,
         new.pc = "wait" => new.at = 1,
         new.pc \in {"read", "write", "record"} =>
            /\ new.at <= 6
            /\ ~raced' => /\ Versions[new.at] \notin applied'
                          /\ \A b \in Running \ {p} : proc[b].at # new.at,
         \A b \in Processes \ {p} :
            postgres /\ proc[b].pc \in {"check", "read", "write", "record"} => migrationLock' = b,
         ~raced' => \A b \in Running \ {p} : Versions[proc[b].at] \notin applied'
  PROVE  StagesInv' /\ proc' \in [Processes -> Stage]
<1>1. /\ proc' \in [Processes -> Stage] /\ proc'[p] = new
      /\ \A b \in Processes \ {p} : proc'[b] = proc[b]
  BY DEF StagesTyped
<1>2. ASSUME NEW b \in Processes
      PROVE  /\ proc'[b].pc \in {"check", "read", "write", "record", "serving"} =>
                \A k \in 1 .. (proc'[b].at - 1) : Versions[k] \in applied'
             /\ postgres' /\ proc'[b].pc \in {"check", "read", "write", "record"} => migrationLock' = b
             /\ proc'[b].pc = "serving" => proc'[b].at = 7
             /\ proc'[b].pc = "wait" => proc'[b].at = 1
  <2>1. CASE b = p
    BY <1>1, <2>1
  <2>2. CASE b # p
    BY <1>1, <2>2 DEF StagesInv
  <2>3. QED
    BY <2>1, <2>2
<1>3. \A b \in Running' : b = p \/ b \in Running \ {p}
  BY <1>1 DEF Running
<1>4. \A b \in Running' : proc'[b].at <= 6
  BY <1>1, <1>3 DEF StagesInv, Running
<1>5. ASSUME ~raced', NEW b \in Running' PROVE Versions[proc'[b].at] \notin applied'
  BY <1>1, <1>3, <1>5 DEF Running
<1>6. ASSUME ~raced', NEW b \in Running', NEW s \in Running', proc'[s].at = proc'[b].at PROVE s = b
  BY <1>1, <1>3, <1>6 DEF StagesInv, Running
<1>7. QED
  BY <1>1, <1>2, <1>4, <1>5, <1>6 DEF StagesInv

(* The steps that change no data. *)
LEMMA QuietStages ==
  ASSUME StagesTyped, StagesInv, NEW p \in Processes,
         StartProcess(p) \/ TakeLock(p) \/ NextVersion(p) \/ ReadLegacy(p) \/ Serve(p) \/ StopProcess(p)
  PROVE  StagesTyped' /\ StagesInv'
<1>1. PICK o \in Stage : o = proc[p]
  BY DEF StagesTyped
<1>2. UNCHANGED <<postgres, old, conv, concept, links, applied>>
  BY DEF StartProcess, TakeLock, NextVersion, ReadLegacy, Serve, StopProcess, startupData
<1>3. raced' \in BOOLEAN /\ (raced => raced') /\ migrationLock' \in Processes \cup {NoProcess}
  BY DEF StartProcess, TakeLock, NextVersion, ReadLegacy, Serve, StopProcess, StagesTyped, StartupTypeOK
<1>4. ASSUME NEW new \in Stage, proc' = [proc EXCEPT ![p] = new], StagesInv' PROVE StagesTyped' /\ StagesInv'
  BY <1>2, <1>3, <1>4 DEF StagesTyped, StartupTypeOK, Stage
<1>5. \A b \in Running : b \in Processes /\ proc[b].pc \in {"read", "write", "record"}
  BY DEF Running
<1>a. \A b \in Processes : postgres /\ proc[b].pc \in {"check", "read", "write", "record"} => migrationLock = b
  BY DEF StagesInv
<1>b. ~raced' => \A b \in Running \ {p} : Versions[proc[b].at] \notin applied'
  BY <1>2, <1>3 DEF StagesInv
<1>6. CASE StartProcess(p)
  <2>1. PICK new : new = [Down EXCEPT !.pc = "wait"]
    OBVIOUS
  <2>2. new \in Stage /\ new.pc = "wait" /\ new.at = 1
    BY <2>1 DEF Down, Stage
  <2>3. proc' = [proc EXCEPT ![p] = new] /\ UNCHANGED <<migrationLock, raced>>
    BY <1>6, <2>1 DEF StartProcess
  <2>4. QED
    BY <1>2, <1>3, <1>4, <1>5, <2>2, <2>3, <1>a, <1>b, StageMoves
<1>7. CASE TakeLock(p)
  <2>1. PICK new : new = [o EXCEPT !.pc = "check"]
    OBVIOUS
  <2>2. new \in Stage /\ new.pc = "check" /\ new.at = 1
    BY <1>1, <1>7, <2>1 DEF TakeLock, Stage, StagesInv
  <2>3. /\ proc' = [proc EXCEPT ![p] = new] /\ UNCHANGED raced
        /\ postgres => migrationLock = NoProcess /\ migrationLock' = p
    BY <1>1, <1>7, <2>1 DEF TakeLock
  <2>4. \A b \in Processes \ {p} :
           postgres /\ proc[b].pc \in {"check", "read", "write", "record"} => migrationLock' = b
    BY <2>3, StartupAssumption DEF StagesInv, NoProcess
  <2>5. \A k \in 1 .. (new.at - 1) : Versions[k] \in applied'
    BY <2>2
  <2>6. StagesInv'
    BY <1>2, <1>3, <2>2, <2>3, <2>4, <2>5, <1>b, StageMoves
  <2>7. QED
    BY <1>4, <2>2, <2>3, <2>6
<1>8. CASE NextVersion(p)
  <2>1. PICK n \in 1 .. 7 : n = o.at
    BY DEF Stage
  <2>2. /\ o.pc = "check" /\ n <= 6 /\ UNCHANGED migrationLock
        /\ Versions[n] \in applied => proc' = [proc EXCEPT ![p] = [o EXCEPT !.at = n + 1]]
        /\ Versions[n] \notin applied => proc' = [proc EXCEPT ![p] = [o EXCEPT !.pc = "read"]]
    <3>1. o.pc = "check" /\ n <= 6 /\ UNCHANGED migrationLock
      BY <1>1, <1>8, <2>1, VersionFacts DEF NextVersion
    <3>2. CASE Versions[n] \in applied
      BY <1>1, <1>8, <2>1, <3>1, <3>2 DEF NextVersion
    <3>3. CASE Versions[n] \notin applied
      BY <1>1, <1>8, <2>1, <3>1, <3>3 DEF NextVersion
    <3>4. QED
      BY <3>1, <3>2, <3>3
  <2>3. \A k \in 1 .. (n - 1) : Versions[k] \in applied
    BY <1>1, <2>1, <2>2 DEF StagesInv
  <2>4. postgres => migrationLock = p
    BY <1>1, <2>2 DEF StagesInv
  <2>5. CASE Versions[n] \in applied
    <3>1. PICK new : new = [o EXCEPT !.at = n + 1]
      OBVIOUS
    <3>2. new \in Stage /\ new.pc = "check" /\ new.at = n + 1
      BY <2>1, <2>2, <3>1 DEF Stage
    <3>3. proc' = [proc EXCEPT ![p] = new] /\ \A k \in 1 .. (new.at - 1) : Versions[k] \in applied
      BY <2>2, <2>3, <2>5, <3>1, <3>2
    <3>4. QED
      BY <1>2, <1>3, <1>4, <1>5, <2>2, <2>4, <3>2, <3>3, <1>a, <1>b, StageMoves
  <2>6. CASE Versions[n] \notin applied
    <3>1. PICK new : new = [o EXCEPT !.pc = "read"]
      OBVIOUS
    <3>2. new \in Stage /\ new.pc = "read" /\ new.at = n
      BY <2>1, <2>2, <3>1 DEF Stage
    <3>3. proc' = [proc EXCEPT ![p] = new]
      BY <2>2, <2>6, <3>1
    <3>4. ~raced' => \A b \in Running \ {p} : proc[b].at # n
      <4>1. ASSUME NEW b \in Running \ {p}, proc[b].at = n PROVE raced'
        <5>1. ~postgres
          BY <1>5, <2>4, <4>1 DEF StagesInv
        <5>2. QED
          BY <1>1, <1>5, <1>8, <2>1, <4>1, <5>1 DEF NextVersion
      <4>2. QED
        BY <4>1
    <3>5. QED
      <4>1. StagesInv'
        BY <1>2, <1>3, <2>2, <2>3, <2>4, <2>6, <3>2, <3>3, <3>4, <1>a, <1>b, StageMoves
      <4>2. QED
        BY <1>4, <3>2, <3>3, <4>1
  <2>7. QED
    BY <2>5, <2>6
<1>9. CASE ReadLegacy(p)
  <2>1. PICK new : new = [o EXCEPT !.pc = "write", !.legacy = {x \in OldQueries : conv[x] = 0}]
    OBVIOUS
  <2>2. new \in Stage /\ new.pc = "write" /\ new.at = o.at
    BY <2>1 DEF Stage
  <2>3. proc' = [proc EXCEPT ![p] = new] /\ UNCHANGED <<migrationLock, raced>> /\ p \in Running
    BY <1>1, <1>9, <2>1 DEF ReadLegacy, Running
  <2>4. QED
    <3>1. /\ o.at <= 6 /\ \A k \in 1 .. (o.at - 1) : Versions[k] \in applied
          /\ ~raced => Versions[o.at] \notin applied /\ \A b \in Running \ {p} : proc[b].at # o.at
          /\ postgres => migrationLock = p
      BY <1>1, <1>5, <2>3 DEF StagesInv
    <3>2. QED
      BY <1>2, <1>3, <1>4, <2>2, <2>3, <3>1, <1>a, <1>b, StageMoves
<1>10. CASE Serve(p)
  <2>1. PICK new : new = [o EXCEPT !.pc = "serving"]
    OBVIOUS
  <2>2. new \in Stage /\ new.pc = "serving" /\ new.at = o.at
    BY <2>1 DEF Stage
  <2>3. /\ proc' = [proc EXCEPT ![p] = new] /\ UNCHANGED raced /\ o.pc = "check" /\ o.at = 7
        /\ migrationLock' = IF migrationLock = p THEN NoProcess ELSE migrationLock
    BY <1>1, <1>10, <2>1, VersionFacts DEF Serve, Stage
  <2>4. QED
    <3>1. \A k \in 1 .. (o.at - 1) : Versions[k] \in applied
      BY <1>1, <2>3 DEF StagesInv
    <3>2. QED
      BY <1>2, <1>3, <1>4, <2>2, <2>3, <3>1, <1>a, <1>b, StageMoves
<1>11. CASE StopProcess(p)
  <2>1. PICK new : new = Down
    OBVIOUS
  <2>2. new \in Stage /\ new.pc = "down"
    BY <2>1 DEF Down, Stage
  <2>3. /\ proc' = [proc EXCEPT ![p] = new] /\ UNCHANGED raced
        /\ migrationLock' = IF migrationLock = p THEN NoProcess ELSE migrationLock
    BY <1>11, <2>1 DEF StopProcess
  <2>4. QED
    BY <1>2, <1>3, <1>4, <1>5, <2>2, <2>3, <1>a, <1>b, StageMoves
<1>12. QED
  BY <1>6, <1>7, <1>8, <1>9, <1>10, <1>11

WriteStep(p) ==
    \/ BackfillConversations(p) \/ RepairArrays(p) \/ BackfillConcepts(p)
    \/ RelativePaths(p) \/ BackfillLinks(p) \/ CleanupOrphans(p)

(* A count of pages is one of at most all of them. *)
LEMMA PagesCounted ==
  ASSUME NEW S, S \subseteq OldPages
  PROVE  Cardinality(S) \in 0 .. Cardinality(OldPages)
<1>1. IsFiniteSet(S) /\ Cardinality(S) <= Cardinality(OldPages)
  BY StartupAssumption, FS_Subset
<1>2. Cardinality(S) \in Nat /\ Cardinality(OldPages) \in Nat
  BY <1>1, StartupAssumption, FS_CardinalityType
<1>3. QED
  BY <1>1, <1>2

(* A migration is run: its process is to record it. *)
LEMMA WriteStages ==
  ASSUME StagesTyped, StagesInv, NEW p \in Processes, WriteStep(p)
  PROVE  /\ StagesTyped' /\ StagesInv'
         /\ proc[p].pc = "write" /\ proc' = [proc EXCEPT ![p].pc = "record"]
         /\ UNCHANGED <<postgres, applied, migrationLock, raced>>
<1>1. PICK o \in Stage : o = proc[p]
  BY DEF StagesTyped
<1>2. /\ proc[p].pc = "write" /\ proc' = [proc EXCEPT ![p].pc = "record"]
      /\ UNCHANGED <<postgres, applied, migrationLock, raced>>
  BY DEF WriteStep, BackfillConversations, RepairArrays, BackfillConcepts, RelativePaths, BackfillLinks,
     CleanupOrphans, Writes, Done
<1>3. PICK new : new = [o EXCEPT !.pc = "record"]
  OBVIOUS
<1>4. new \in Stage /\ new.pc = "record" /\ new.at = o.at /\ proc' = [proc EXCEPT ![p] = new]
  BY <1>1, <1>2, <1>3 DEF Stage
<1>5. p \in Running /\ \A b \in Running : b \in Processes
  BY <1>2 DEF Running
<1>6. /\ o.at <= 6 /\ \A k \in 1 .. (o.at - 1) : Versions[k] \in applied
      /\ ~raced => Versions[o.at] \notin applied /\ \A b \in Running \ {p} : proc[b].at # o.at
      /\ postgres => migrationLock = p
  BY <1>1, <1>2, <1>5 DEF StagesInv
<1>7. \A b \in Processes : postgres /\ proc[b].pc \in {"check", "read", "write", "record"} => migrationLock = b
  BY DEF StagesInv
<1>8. ~raced' => \A b \in Running \ {p} : Versions[proc[b].at] \notin applied'
  BY <1>2 DEF StagesInv
<1>9. StagesInv' /\ proc' \in [Processes -> Stage]
  <2>1. /\ applied \subseteq applied' /\ raced' \in BOOLEAN /\ (raced => raced')
        /\ UNCHANGED <<postgres, migrationLock>>
    BY <1>2 DEF StagesTyped
  <2>2. /\ \A k \in 1 .. (new.at - 1) : Versions[k] \in applied'
        /\ ~raced' => Versions[new.at] \notin applied' /\ \A b \in Running \ {p} : proc[b].at # new.at
    BY <1>2, <1>4, <1>6
  <2>3. QED
    BY <1>4, <1>6, <1>7, <1>8, <2>1, <2>2, StageMoves
<1>10. old' \in [OldPages -> Pages]
  <2>1. \A x \in OldPages : old[x] \in Pages
    BY DEF StagesTyped
  <2>2. CASE RepairArrays(p)
    BY <2>1, <2>2 DEF RepairArrays, Pages
  <2>3. CASE RelativePaths(p)
    BY <2>1, <2>3 DEF RelativePaths, Pages
  <2>4. CASE CleanupOrphans(p)
    BY <2>1, <2>4 DEF CleanupOrphans, Pages
  <2>5. CASE UNCHANGED old
    BY <2>5 DEF StagesTyped
  <2>6. QED
    BY <2>2, <2>3, <2>4, <2>5 DEF WriteStep, BackfillConversations, BackfillConcepts, BackfillLinks
<1>11. conv' \in [OldQueries -> Nat]
  BY DEF WriteStep, BackfillConversations, RepairArrays, BackfillConcepts, RelativePaths, BackfillLinks,
     CleanupOrphans, StagesTyped, StartupTypeOK
<1>12. concept' \in [OldNames -> 0 .. Cardinality(OldPages)]
  <2>1. \A n \in OldNames : Cardinality({x \in OldPages : n \in Parsed(x)}) \in 0 .. Cardinality(OldPages)
    BY PagesCounted
  <2>2. CASE concept' = [n \in OldNames |-> Cardinality({x \in OldPages : n \in Parsed(x)})]
    BY <2>1, <2>2
  <2>3. CASE UNCHANGED concept
    BY <2>3 DEF StagesTyped, StartupTypeOK
  <2>4. QED
    BY <2>2, <2>3 DEF WriteStep, BackfillConversations, RepairArrays, BackfillConcepts, RelativePaths,
       BackfillLinks, CleanupOrphans
<1>13. links' \subseteq OldPages \X OldNames
  BY DEF WriteStep, BackfillConversations, RepairArrays, BackfillConcepts, RelativePaths, BackfillLinks,
     CleanupOrphans, StagesTyped, StartupTypeOK
<1>14. StagesTyped'
  BY <1>2, <1>9, <1>10, <1>11, <1>12, <1>13 DEF StagesTyped, StartupTypeOK, Stage
<1>15. QED
  BY <1>2, <1>9, <1>14

(* A migration is recorded, and is nobody else's. *)
LEMMA RecordStages ==
  ASSUME StagesTyped, StagesInv, NEW p \in Processes, RecordMigration(p)
  PROVE  StagesTyped' /\ StagesInv'
<1>1. PICK o \in Stage : o = proc[p]
  BY DEF StagesTyped
<1>2. PICK n \in 1 .. 6 : n = o.at
  BY <1>1 DEF RecordMigration, StagesInv, Running, Stage
<1>3. PICK new : new = [o EXCEPT !.pc = "check", !.at = n + 1]
  OBVIOUS
<1>4. /\ o.pc = "record" /\ applied' = applied \cup {Versions[n]} /\ proc' = [proc EXCEPT ![p] = new]
      /\ UNCHANGED <<postgres, old, conv, concept, links, migrationLock, raced>>
  BY <1>1, <1>2, <1>3 DEF RecordMigration
<1>5. new \in Stage /\ new.pc = "check" /\ new.at = n + 1
  <2>1. n + 1 \in 1 .. 7
    OBVIOUS
  <2>2. QED
    BY <1>3, <2>1 DEF Stage
<1>6. p \in Running /\ \A b \in Running : b \in Processes /\ proc[b].at \in 1 .. 6
  BY <1>1, <1>4 DEF Running, StagesInv, StagesTyped, Stage
<1>7. \A k \in 1 .. (new.at - 1) : Versions[k] \in applied'
  BY <1>1, <1>2, <1>4, <1>5 DEF StagesInv
<1>8. \A b \in Processes : postgres /\ proc[b].pc \in {"check", "read", "write", "record"} => migrationLock = b
  BY DEF StagesInv
<1>9. ~raced' => \A b \in Running \ {p} : Versions[proc[b].at] \notin applied'
  BY <1>1, <1>2, <1>4, <1>6, VersionFacts DEF StagesInv
<1>10. StagesInv' /\ proc' \in [Processes -> Stage]
  BY <1>1, <1>4, <1>5, <1>7, <1>8, <1>9, StageMoves DEF StagesTyped
<1>11. StagesTyped'
  BY <1>4, <1>10 DEF StagesTyped, StartupTypeOK, Stage
<1>12. QED
  BY <1>10, <1>11

-----------------------------------------------------------------------------
(* Migrations: the work *)

(* What is complete stays so while pages only get repaired or removed, and   *)
(* conversations and links are added.                                        *)
LEMMA WorkStays ==
  ASSUME StagesTyped, NEW k \in 1 .. 6, Worked(k),
         \A x \in OldPages : /\ old'[x].names = old[x].names /\ old'[x].missing = old[x].missing
                             /\ old[x].good => old'[x].good
                             /\ old'[x].abs => old[x].abs
                             /\ old'[x].there => old[x].there,
         \A x \in OldQueries : conv[x] >= 1 => conv'[x] >= 1,
         links \subseteq links', UNCHANGED concept, raced => raced'
  PROVE  Worked(k)'
<1>1. There' \subseteq There
  BY DEF There
<1>2. \A n : {x \in OldPages : n \in old'[x].names} = {x \in OldPages : n \in old[x].names}
  OBVIOUS
<1>3. Threaded => Threaded'
  BY DEF Threaded
<1>4. Repaired => Repaired'
  BY DEF Repaired
<1>5. Conceived => Conceived'
  BY <1>2 DEF Conceived
<1>6. Relative => Relative'
  BY DEF Relative
<1>7. Joined => Joined'
  BY <1>1 DEF Joined, There
<1>8. Cleaned => Cleaned'
  BY <1>1 DEF Cleaned, There
<1>9. QED
  BY <1>3, <1>4, <1>5, <1>6, <1>7, <1>8 DEF Worked

(* A process moves on and no data changes. *)
LEMMA QuietWork ==
  ASSUME StagesTyped, WorkInv, NEW p \in Processes, NEW new, proc' = [proc EXCEPT ![p] = new],
         UNCHANGED <<old, conv, concept, links>>, applied \subseteq applied', raced => raced',
         \A k \in 1 .. 6 : Versions[k] \in applied' => Versions[k] \in applied \/ Worked(k),
         new.pc # "record",
         new.pc = "write" => new.legacy = {x \in OldQueries : conv[x] = 0}
  PROVE  WorkInv'
<1>1. proc'[p] = new /\ \A b \in Processes \ {p} : proc'[b] = proc[b]
  BY DEF StagesTyped
<1>2. ASSUME NEW k \in 1 .. 6, Worked(k) PROVE Worked(k)'
  BY <1>2, WorkStays
<1>3. ASSUME NEW b \in Processes, NEW k \in 1 .. 6, proc'[b].pc = "record", proc'[b].at = k
      PROVE  Worked(k)'
  <2>1. b # p /\ proc'[b] = proc[b]
    BY <1>1, <1>3
  <2>2. Worked(k)
    BY <1>3, <2>1 DEF WorkInv
  <2>3. QED
    BY <1>2, <2>2
<1>4. ASSUME NEW k \in 1 .. 6, Versions[k] \in applied' PROVE Worked(k)'
  BY <1>2, <1>4 DEF WorkInv
<1>5. ASSUME NEW b \in Processes, proc'[b].pc = "write", proc'[b].at = 1, NEW x \in OldQueries
      PROVE  /\ conv'[x] = 0 => x \in proc'[b].legacy
             /\ ~raced' /\ x \in proc'[b].legacy => conv'[x] = 0
  BY <1>1, <1>5 DEF WorkInv
<1>6. ~raced' => \A x \in OldQueries : conv'[x] <= 1
  BY DEF WorkInv
<1>7. ASSUME ~raced', NEW n \in OldNames, concept'[n] # 0
      PROVE  concept'[n] = Cardinality({x \in OldPages : n \in old'[x].names})
  BY <1>7 DEF WorkInv
<1>8. (\E x \in OldPages : ~old'[x].there) => "concepts" \in applied'
  BY DEF WorkInv
<1>9. QED
  BY <1>3, <1>4, <1>5, <1>6, <1>7, <1>8 DEF WorkInv

(* A migration is run: its work is complete, and the others' stays so. *)
LEMMA WriteWork ==
  ASSUME StagesTyped, WorkInv, NEW p \in Processes, proc[p].pc = "write",
         proc' = [proc EXCEPT ![p].pc = "record"], UNCHANGED <<applied, raced>>,
         \A k \in 1 .. 6 : Worked(k) => Worked(k)',
         \A k \in 1 .. 6 : proc[p].at = k => Worked(k)',
         \A b \in Processes \ {p} : proc[b].pc = "write" /\ proc[b].at = 1 =>
            \A x \in OldQueries : /\ conv'[x] = 0 => conv[x] = 0
                                  /\ ~raced /\ conv[x] = 0 => conv'[x] = 0,
         ~raced => \A x \in OldQueries : conv'[x] <= 1,
         ~raced => \A n \in OldNames : concept'[n] # 0 =>
                      concept'[n] = Cardinality({x \in OldPages : n \in old'[x].names}),
         (\E x \in OldPages : ~old'[x].there) => "concepts" \in applied
  PROVE  WorkInv'
<1>1. proc'[p].at = proc[p].at /\ proc'[p].pc = "record" /\ \A b \in Processes \ {p} : proc'[b] = proc[b]
  BY DEF StagesTyped, Stage
<1>2. ASSUME NEW b \in Processes, NEW k \in 1 .. 6, proc'[b].pc = "record", proc'[b].at = k
      PROVE  Worked(k)'
  <2>1. CASE b = p
    BY <1>1, <1>2, <2>1
  <2>2. CASE b # p
    <3>1. Worked(k)
      BY <1>1, <1>2, <2>2 DEF WorkInv
    <3>2. QED
      BY <3>1
  <2>3. QED
    BY <2>1, <2>2
<1>3. ASSUME NEW k \in 1 .. 6, Versions[k] \in applied' PROVE Worked(k)'
  BY <1>3 DEF WorkInv
<1>4. ASSUME NEW b \in Processes, proc'[b].pc = "write", proc'[b].at = 1, NEW x \in OldQueries
      PROVE  /\ conv'[x] = 0 => x \in proc'[b].legacy
             /\ ~raced' /\ x \in proc'[b].legacy => conv'[x] = 0
  BY <1>1, <1>4 DEF WorkInv
<1>5. QED
  BY <1>2, <1>3, <1>4 DEF WorkInv

(* A process that runs the k-th version has what the versions before it did, *)
(* and, unless processes raced, is alone at it.                              *)
LEMMA AtVersion ==
  ASSUME StagesTyped, StagesInv, WorkInv, NEW p \in Processes, NEW k \in 1 .. 6, Writes(p, Versions[k])
  PROVE  /\ proc[p].at = k /\ \A j \in 1 .. (k - 1) : Versions[j] \in applied /\ Worked(j)
         /\ ~raced => Versions[k] \notin applied /\ \A b \in Processes \ {p} : proc[b].pc = "write" => proc[b].at # k
<1>1. PICK n \in 1 .. 7 : n = proc[p].at
  BY DEF StagesTyped, Stage
<1>2. p \in Running /\ n <= 6 /\ proc[p].pc = "write" /\ Versions[n] = Versions[k]
  BY <1>1 DEF Writes, Running, StagesInv
<1>3. n = k
  BY <1>1, <1>2, VersionFacts
<1>4. \A j \in 1 .. (k - 1) : Versions[j] \in applied
  BY <1>1, <1>2, <1>3 DEF StagesInv
<1>5. ASSUME NEW j \in 1 .. (k - 1) PROVE Worked(j)
  <2>1. j \in 1 .. 6 /\ Versions[j] \in applied
    BY <1>4, <1>5
  <2> QED
    BY <2>1 DEF WorkInv
<1>6. ~raced => Versions[k] \notin applied
  BY <1>1, <1>2, <1>3 DEF StagesInv
<1>7. ASSUME ~raced, NEW b \in Processes \ {p}, proc[b].pc = "write" PROVE proc[b].at # k
  BY <1>1, <1>2, <1>3, <1>7 DEF StagesInv, Running
<1>8. QED
  BY <1>1, <1>3, <1>4, <1>5, <1>6, <1>7

(* Each migration completes its own work and leaves the others' complete. *)
LEMMA WriteStepWork ==
  ASSUME StagesTyped, StagesInv, WorkInv, NEW p \in Processes, WriteStep(p)
  PROVE  WorkInv'
<1>1. /\ proc[p].pc = "write" /\ proc' = [proc EXCEPT ![p].pc = "record"]
      /\ UNCHANGED <<applied, raced>>
  BY WriteStages
<1>2. /\ ~raced => \A x \in OldQueries : conv[x] <= 1
      /\ ~raced => \A n \in OldNames : concept[n] # 0 =>
                      concept[n] = Cardinality({x \in OldPages : n \in old[x].names})
      /\ (\E x \in OldPages : ~old[x].there) => "concepts" \in applied
  BY DEF WorkInv
<1>a. \A x \in OldPages : old[x] \in Pages
  BY DEF StagesTyped
<1>3. CASE BackfillConversations(p)
  <2>1. Writes(p, Versions[1])
    BY <1>3, VersionFacts DEF BackfillConversations
  <2>2. proc[p].at = 1 /\ (~raced => \A b \in Processes \ {p} : proc[b].pc = "write" => proc[b].at # 1)
    BY <2>1, AtVersion
  <2>3. \A x \in OldQueries : conv[x] \in Nat /\ conv'[x] = IF x \in proc[p].legacy THEN conv[x] + 1 ELSE conv[x]
    BY <1>3 DEF BackfillConversations, StagesTyped, StartupTypeOK
  <2>4. \A x \in OldQueries : /\ conv[x] = 0 => x \in proc[p].legacy
                              /\ ~raced /\ x \in proc[p].legacy => conv[x] = 0
    BY <1>1, <2>2 DEF WorkInv
  <2>5. UNCHANGED <<old, concept, links>>
    BY <1>3 DEF BackfillConversations
  <2>6. \A x \in OldQueries : conv[x] >= 1 => conv'[x] >= 1
    BY <2>3
  <2>7. ASSUME NEW k \in 1 .. 6, Worked(k) PROVE Worked(k)'
    BY <1>1, <2>5, <2>6, <2>7, WorkStays
  <2>8. Threaded'
    BY <2>3, <2>4 DEF Threaded
  <2>9. ASSUME NEW k \in 1 .. 6, proc[p].at = k PROVE Worked(k)'
    BY <2>2, <2>8, <2>9 DEF Worked
  <2>10. \A b \in Processes \ {p} : proc[b].pc = "write" /\ proc[b].at = 1 =>
            \A x \in OldQueries : /\ conv'[x] = 0 => conv[x] = 0
                                  /\ ~raced /\ conv[x] = 0 => conv'[x] = 0
    BY <2>2, <2>3
  <2>11. ~raced => \A x \in OldQueries : conv'[x] <= 1
    BY <1>2, <2>3, <2>4
  <2>12. QED
    BY <1>1, <1>2, <2>5, <2>7, <2>9, <2>10, <2>11, WriteWork
<1>4. CASE RepairArrays(p)
  <2>1. Writes(p, Versions[2])
    BY <1>4, VersionFacts DEF RepairArrays
  <2>2. proc[p].at = 2
    BY <2>1, AtVersion
  <2>3. /\ \A x \in OldPages : old'[x] = [old[x] EXCEPT !.good = TRUE]
        /\ UNCHANGED <<conv, concept, links>>
    BY <1>4 DEF RepairArrays
  <2>4. \A x \in OldPages : /\ old'[x].names = old[x].names /\ old'[x].missing = old[x].missing
                            /\ old'[x].good /\ old'[x].abs = old[x].abs /\ old'[x].there = old[x].there
    BY <2>3, <1>a DEF Pages
  <2>5. ASSUME NEW k \in 1 .. 6, Worked(k) PROVE Worked(k)'
    BY <1>1, <2>3, <2>4, <2>5, WorkStays
  <2>6. ASSUME NEW k \in 1 .. 6, proc[p].at = k PROVE Worked(k)'
    BY <2>2, <2>4, <2>6 DEF Worked, Repaired
  <2>7. \A n : {x \in OldPages : n \in old'[x].names} = {x \in OldPages : n \in old[x].names}
    BY <2>4
  <2>8. QED
    BY <1>1, <1>2, <2>3, <2>4, <2>5, <2>6, <2>7, WriteWork
<1>5. CASE BackfillConcepts(p)
  <2>1. Writes(p, Versions[3])
    BY <1>5, VersionFacts DEF BackfillConcepts
  <2>2. proc[p].at = 3 /\ Worked(2) /\ (~raced => "concepts" \notin applied)
    BY <2>1, AtVersion, VersionFacts
  <2>3. UNCHANGED <<old, conv, links>>
    BY <1>5 DEF BackfillConcepts
  <2>4. ~raced => \A x \in OldPages : Parsed(x) = old[x].names
    BY <1>2, <2>2 DEF Worked, Repaired, Parsed
  <2>5. ~raced => Conceived'
    <3> SUFFICES ASSUME ~raced, NEW n \in OldNames
                 PROVE  concept'[n] = Cardinality({x \in OldPages : n \in old[x].names})
      BY <2>3 DEF Conceived
    <3>1. {x \in OldPages : n \in Parsed(x)} = {x \in OldPages : n \in old[x].names}
      BY <2>4
    <3>2. CASE \A x \in OldPages : Parsed(x) = {}
      <4>1. {x \in OldPages : n \in old[x].names} = {}
        BY <2>4, <3>2
      <4>2. concept'[n] = concept[n]
        BY <1>5, <3>2 DEF BackfillConcepts
      <4>3. CASE concept[n] = 0
        BY <4>1, <4>2, <4>3, FS_EmptySet
      <4>4. CASE concept[n] # 0
        BY <1>2, <4>2, <4>4
      <4>5. QED
        BY <4>3, <4>4
    <3>3. CASE ~\A x \in OldPages : Parsed(x) = {}
      BY <1>5, <3>1, <3>3 DEF BackfillConcepts
    <3>4. QED
      BY <3>2, <3>3
  <2>6. Worked(3)'
    BY <1>1, <2>5 DEF Worked
  <2>7. ASSUME NEW k \in 1 .. 6, Worked(k) PROVE Worked(k)'
    <3>1. CASE k = 3
      BY <2>6, <3>1
    <3>2. CASE k # 3
      BY <2>3, <2>7, <3>2 DEF Worked, Threaded, Repaired, Relative, Joined, Cleaned, There
    <3>3. QED
      BY <3>1, <3>2
  <2>8. ASSUME NEW k \in 1 .. 6, proc[p].at = k PROVE Worked(k)'
    BY <2>2, <2>6, <2>8
  <2>9. ~raced => \A n \in OldNames : concept'[n] # 0 =>
                      concept'[n] = Cardinality({x \in OldPages : n \in old'[x].names})
    BY <2>5 DEF Conceived
  <2>10. QED
    BY <1>1, <1>2, <2>3, <2>7, <2>8, <2>9, WriteWork
<1>6. CASE RelativePaths(p)
  <2>1. Writes(p, Versions[4])
    BY <1>6, VersionFacts DEF RelativePaths
  <2>2. proc[p].at = 4
    BY <2>1, AtVersion
  <2>3. /\ \A x \in OldPages : old'[x] = [old[x] EXCEPT !.abs = FALSE]
        /\ UNCHANGED <<conv, concept, links>>
    BY <1>6 DEF RelativePaths
  <2>4. \A x \in OldPages : /\ old'[x].names = old[x].names /\ old'[x].missing = old[x].missing
                            /\ old'[x].good = old[x].good /\ ~old'[x].abs /\ old'[x].there = old[x].there
    BY <2>3, <1>a DEF Pages
  <2>5. ASSUME NEW k \in 1 .. 6, Worked(k) PROVE Worked(k)'
    BY <1>1, <2>3, <2>4, <2>5, WorkStays
  <2>6. ASSUME NEW k \in 1 .. 6, proc[p].at = k PROVE Worked(k)'
    BY <2>2, <2>4, <2>6 DEF Worked, Relative
  <2>7. \A n : {x \in OldPages : n \in old'[x].names} = {x \in OldPages : n \in old[x].names}
    BY <2>4
  <2>8. QED
    BY <1>1, <1>2, <2>3, <2>4, <2>5, <2>6, <2>7, WriteWork
<1>7. CASE BackfillLinks(p)
  <2>1. Writes(p, Versions[5])
    BY <1>7, VersionFacts DEF BackfillLinks
  <2>2. proc[p].at = 5 /\ Worked(2)
    BY <2>1, AtVersion
  <2>3. UNCHANGED <<old, conv, concept>> /\ links \subseteq links'
    BY <1>7 DEF BackfillLinks
  <2>4. ASSUME NEW k \in 1 .. 6, Worked(k) PROVE Worked(k)'
    BY <1>1, <2>3, <2>4, WorkStays
  <2>5. Joined'
    <3> SUFFICES ASSUME NEW x \in There, NEW n \in OldNames, n \in old[x].names
                 PROVE  <<x, n>> \in links'
      BY <2>3 DEF Joined, There
    <3>1. n \in Parsed(x)
      BY <2>2 DEF Worked, Repaired, There, Parsed
    <3>2. QED
      BY <1>7, <3>1 DEF BackfillLinks, There
  <2>6. ASSUME NEW k \in 1 .. 6, proc[p].at = k PROVE Worked(k)'
    BY <2>2, <2>5, <2>6 DEF Worked
  <2>7. QED
    BY <1>1, <1>2, <2>3, <2>4, <2>6, WriteWork
<1>8. CASE CleanupOrphans(p)
  <2>1. Writes(p, Versions[6])
    BY <1>8, VersionFacts DEF CleanupOrphans
  <2>2. proc[p].at = 6 /\ "concepts" \in applied
    BY <2>1, AtVersion, VersionFacts
  <2>3. /\ \A x \in OldPages : old'[x] = [old[x] EXCEPT !.there = old[x].there /\ x \notin Orphans]
        /\ UNCHANGED <<conv, concept, links>>
    BY <1>8 DEF CleanupOrphans
  <2>4. \A x \in OldPages : /\ old'[x].names = old[x].names /\ old'[x].missing = old[x].missing
                            /\ old'[x].good = old[x].good /\ old'[x].abs = old[x].abs
                            /\ old'[x].there = (old[x].there /\ x \notin Orphans)
    BY <2>3, <1>a DEF Pages
  <2>5. ASSUME NEW k \in 1 .. 6, Worked(k) PROVE Worked(k)'
    BY <1>1, <2>3, <2>4, <2>5, WorkStays
  <2>6. Cleaned'
    BY <2>4 DEF Cleaned, There, Orphans
  <2>7. ASSUME NEW k \in 1 .. 6, proc[p].at = k PROVE Worked(k)'
    BY <2>2, <2>6, <2>7 DEF Worked
  <2>8. \A n : {x \in OldPages : n \in old'[x].names} = {x \in OldPages : n \in old[x].names}
    BY <2>4
  <2>9. QED
    BY <1>1, <1>2, <2>2, <2>3, <2>5, <2>7, <2>8, WriteWork
<1>9. QED
  BY <1>3, <1>4, <1>5, <1>6, <1>7, <1>8 DEF WriteStep

(* Every other step of a start leaves the data alone. *)
LEMMA QuietStepWork ==
  ASSUME StagesTyped, StagesInv, WorkInv, NEW p \in Processes,
         \/ StartProcess(p) \/ TakeLock(p) \/ NextVersion(p) \/ ReadLegacy(p) \/ Serve(p) \/ StopProcess(p)
         \/ RecordMigration(p)
  PROVE  WorkInv'
<1>1. PICK o \in Stage : o = proc[p]
  BY DEF StagesTyped
<1>2. UNCHANGED <<old, conv, concept, links>> /\ applied \subseteq applied' /\ (raced => raced')
  <2>1. CASE RecordMigration(p)
    BY <2>1 DEF RecordMigration
  <2>2. CASE NextVersion(p)
    BY <2>2 DEF NextVersion, startupData
  <2>3. CASE StartProcess(p) \/ TakeLock(p) \/ ReadLegacy(p) \/ Serve(p) \/ StopProcess(p)
    BY <2>3 DEF StartProcess, TakeLock, ReadLegacy, Serve, StopProcess, startupData
  <2>4. QED
    BY <2>1, <2>2, <2>3
<1>3. \A k \in 1 .. 6 : Versions[k] \in applied' => Versions[k] \in applied \/ Worked(k)
  <2>1. CASE RecordMigration(p)
    <3>1. PICK n \in 1 .. 6 : n = proc[p].at
      BY <2>1 DEF RecordMigration, StagesInv, Running, StagesTyped, Stage
    <3>2. applied' = applied \cup {Versions[n]} /\ Worked(n)
      BY <2>1, <3>1 DEF RecordMigration, WorkInv
    <3>3. QED
      BY <3>2, VersionFacts
  <2>2. CASE ~RecordMigration(p)
    <3>1. UNCHANGED applied
      BY <2>2 DEF StartProcess, TakeLock, NextVersion, ReadLegacy, Serve, StopProcess, startupData
    <3>2. QED
      BY <3>1
  <2>3. QED
    BY <2>1, <2>2
<1>4. PICK new : /\ proc' = [proc EXCEPT ![p] = new] /\ new.pc # "record"
                 /\ new.pc = "write" => new.legacy = {x \in OldQueries : conv[x] = 0}
  <2>1. CASE StartProcess(p)
    <3>1. [Down EXCEPT !.pc = "wait"].pc = "wait"
      BY DEF Down
    <3>2. QED
      BY <2>1, <3>1 DEF StartProcess
  <2>2. CASE TakeLock(p)
    <3>1. [o EXCEPT !.pc = "check"].pc = "check" /\ proc' = [proc EXCEPT ![p] = [o EXCEPT !.pc = "check"]]
      BY <1>1, <2>2 DEF TakeLock, Stage
    <3>2. QED
      BY <3>1
  <2>3. CASE NextVersion(p)
    <3>1. [o EXCEPT !.pc = "read"].pc = "read" /\ [o EXCEPT !.at = proc[p].at + 1].pc = o.pc /\ o.pc = "check"
      BY <1>1, <2>3 DEF NextVersion, Stage
    <3>2. CASE Versions[proc[p].at] \in applied
      <4>1. proc' = [proc EXCEPT ![p] = [o EXCEPT !.at = proc[p].at + 1]]
        BY <1>1, <2>3, <3>2 DEF NextVersion
      <4>2. QED
        BY <3>1, <4>1
    <3>3. CASE Versions[proc[p].at] \notin applied
      <4>1. proc' = [proc EXCEPT ![p] = [o EXCEPT !.pc = "read"]]
        BY <1>1, <2>3, <3>3 DEF NextVersion
      <4>2. QED
        BY <3>1, <4>1
    <3>4. QED
      BY <3>2, <3>3
  <2>4. CASE ReadLegacy(p)
    <3>1. PICK S : S = {x \in OldQueries : conv[x] = 0}
      OBVIOUS
    <3>2. PICK new : new = [o EXCEPT !.pc = "write", !.legacy = S]
      OBVIOUS
    <3>3. proc' = [proc EXCEPT ![p] = new]
      BY <1>1, <2>4, <3>1, <3>2 DEF ReadLegacy
    <3>4. new.pc = "write" /\ new.legacy = S
      BY <3>2 DEF Stage
    <3>5. QED
      BY <3>1, <3>3, <3>4
  <2>5. CASE Serve(p)
    <3>1. [o EXCEPT !.pc = "serving"].pc = "serving" /\ proc' = [proc EXCEPT ![p] = [o EXCEPT !.pc = "serving"]]
      BY <1>1, <2>5 DEF Serve, Stage
    <3>2. QED
      BY <3>1
  <2>6. CASE StopProcess(p)
    <3>1. Down.pc = "down"
      BY DEF Down
    <3>2. QED
      BY <2>6, <3>1 DEF StopProcess
  <2>7. CASE RecordMigration(p)
    <3>1. PICK new : new = [o EXCEPT !.pc = "check", !.at = proc[p].at + 1]
      OBVIOUS
    <3>2. proc' = [proc EXCEPT ![p] = new]
      BY <1>1, <2>7, <3>1 DEF RecordMigration
    <3>3. new.pc = "check"
      BY <3>1 DEF Stage
    <3>4. QED
      BY <3>2, <3>3
  <2>8. QED
    BY <2>1, <2>2, <2>3, <2>4, <2>5, <2>6, <2>7
<1>5. QED
  BY <1>2, <1>3, <1>4, QuietWork

(* The invariant of the migrations holds always. *)
LEMMA StartupAlways == FeedsSpec => []StartupInv
<1>1. FeedsInit => StartupInv
  <2> SUFFICES ASSUME StartupInit
               PROVE  StartupInv
    BY DEF FeedsInit
  <2>1. Down \in Stage /\ Down.pc = "down" /\ Down.at = 1
    BY DEF Down, Stage
  <2>2. \A p \in Processes : proc[p] = Down
    BY DEF StartupInit
  <2>3. Cardinality(OldPages) \in Nat
    BY StartupAssumption, FS_CardinalityType
  <2>4. old \in [OldPages -> Pages] /\ \A x \in OldPages : old[x].there
    BY DEF StartupInit, Pages
  <2>5. conv \in [OldQueries -> Nat] /\ concept \in [OldNames -> 0 .. Cardinality(OldPages)]
    BY <2>3 DEF StartupInit
  <2>6. StagesTyped
    BY <2>1, <2>2, <2>4, <2>5 DEF StartupInit, StagesTyped, StartupTypeOK, Stage
  <2>7. StagesInv
    BY <2>1, <2>2 DEF StartupInit, StagesInv, Running
  <2>8. WorkInv
    BY <2>1, <2>2, <2>4 DEF StartupInit, WorkInv
  <2>9. QED
    BY <2>6, <2>7, <2>8 DEF StartupInv
<1>2. StartupInv /\ [FeedsNext]_feedsVars => StartupInv'
  <2> SUFFICES ASSUME StartupInv, [FeedsNext]_feedsVars
               PROVE  StartupInv'
    OBVIOUS
  <2>1. CASE StartupNext
    <3>1. PICK p \in Processes :
             \/ StartProcess(p) \/ TakeLock(p) \/ NextVersion(p) \/ ReadLegacy(p) \/ Serve(p) \/ StopProcess(p)
             \/ RecordMigration(p) \/ WriteStep(p)
      BY <2>1 DEF StartupNext, WriteStep
    <3>2. CASE WriteStep(p)
      BY <3>2, WriteStages, WriteStepWork DEF StartupInv
    <3>3. CASE RecordMigration(p)
      BY <3>3, RecordStages, QuietStepWork DEF StartupInv
    <3>4. CASE StartProcess(p) \/ TakeLock(p) \/ NextVersion(p) \/ ReadLegacy(p) \/ Serve(p) \/ StopProcess(p)
      BY <3>4, QuietStages, QuietStepWork DEF StartupInv
    <3>5. QED
      BY <3>1, <3>2, <3>3, <3>4
  <2>2. CASE UNCHANGED startupVars
    <3>1. StagesTyped'
      BY <2>2 DEF StartupInv, StagesTyped, StartupTypeOK, startupVars
    <3>2. StagesInv'
      BY <2>2 DEF StartupInv, StagesInv, Running, startupVars
    <3>3. WorkInv'
      BY <2>2 DEF StartupInv, WorkInv, Worked, Threaded, Repaired, Conceived, Relative, Joined, Cleaned, There,
         startupVars
    <3>4. QED
      BY <3>1, <3>2, <3>3 DEF StartupInv
  <2>3. QED
    BY <2>1, <2>2 DEF FeedsNext, feedsVars
<1>3. QED
  BY <1>1, <1>2, PTL DEF FeedsSpec

(* database.py: a migration on record is one whose work is in the database,    *)
(* through crashes between the work and its record and through restarts of     *)
(* several processes; a query from before conversations gets one conversation, *)
(* and only one unless two processes raced on SQLite.                          *)
THEOREM MigrationsAlwaysSound == FeedsSpec => []MigrationsSound
<1>1. StartupInv => MigrationsSound
  <2> SUFFICES ASSUME StartupInv
               PROVE  OneConversation /\ RecordedIsDone
    BY DEF MigrationsSound, StartupInv, StagesTyped
  <2>1. \A k \in 1 .. 6 : Versions[k] \in applied => Worked(k)
    BY DEF StartupInv, WorkInv
  <2>2. /\ "conversations" \in applied => Worked(1)
        /\ "repair" \in applied => Worked(2)
        /\ "concepts" \in applied => Worked(3)
        /\ "paths" \in applied => Worked(4)
        /\ "join" \in applied => Worked(5)
        /\ "orphans" \in applied => Worked(6)
    BY <2>1, VersionFacts
  <2>3. RecordedIsDone
    BY <2>2 DEF RecordedIsDone, Worked, Repaired, Conceived, Relative, Joined, Cleaned
  <2>4. ASSUME NEW p \in Processes, proc[p].pc = "serving" PROVE Threaded
    <3>1. Versions[1] \in applied
      BY <2>4 DEF StartupInv, StagesInv
    <3>2. QED
      BY <2>1, <3>1 DEF Worked
  <2>5. OneConversation
    BY <2>4 DEF OneConversation, Threaded, StartupInv, WorkInv
  <2>6. QED
    BY <2>3, <2>5
<1>2. QED
  BY <1>1, StartupAlways, PTL

-----------------------------------------------------------------------------
(* The inbox: its rows *)

(* The rows made for a finite set of items: one for each. *)
LEMMA RowsMade ==
  ASSUME NEW ks, ks \subseteq Keys, IsFiniteSet(ks)
  PROVE  /\ NewRows(ks) \in Seq(CaptureRow) /\ Len(NewRows(ks)) = Cardinality(ks) /\ Cardinality(ks) \in Nat
         /\ \A i \in 1 .. Cardinality(ks) :
               NewRows(ks)[i].key \in ks /\ NewRows(ks)[i].status = "captured" /\ NewRows(ks)[i].source = FALSE
         /\ \A i, j \in 1 .. Cardinality(ks) : NewRows(ks)[i].key = NewRows(ks)[j].key => i = j
         /\ \A k \in ks : \E i \in 1 .. Cardinality(ks) : NewRows(ks)[i].key = k
<1>1. PICK n \in Nat : n = Cardinality(ks)
  BY FS_CardinalityType
<1>2. \E f \in [1 .. n -> ks] : IsInjective(f)
  <2>1. ExistsBijection(1 .. n, ks)
    BY <1>1, FS_CardinalityType
  <2>2. QED
    BY <2>1 DEF ExistsBijection, Bijection, Injection
<1>3. PICK f \in [1 .. n -> ks] : f = SetToSeq(ks) /\ IsInjective(f)
  BY <1>1, <1>2 DEF SetToSeq
<1>4. f \in Surjection(1 .. n, ks)
  <2>1. IsFiniteSet(1 .. n) /\ Cardinality(1 .. n) = n
    BY FS_Interval
  <2>2. f \in Injection(1 .. n, ks)
    BY <1>3 DEF Injection
  <2>3. QED
    BY <1>1, <2>1, <2>2, FS_Injection
<1>5. NewRows(ks) = [i \in 1 .. n |-> [key |-> f[i], status |-> "captured", source |-> FALSE]]
  BY <1>1, <1>3 DEF NewRows
<1>6. \A i \in 1 .. n : f[i] \in Keys
  OBVIOUS
<1>7. NewRows(ks) \in Seq(CaptureRow) /\ Len(NewRows(ks)) = n
  BY <1>5, <1>6 DEF CaptureRow, Statuses
<1>8. \A k \in ks : \E i \in 1 .. n : f[i] = k
  BY <1>4 DEF Surjection
<1>9. \A i, j \in 1 .. n : f[i] = f[j] => i = j
  BY <1>3 DEF IsInjective
<1>10. \A i \in 1 .. n : /\ NewRows(ks)[i].key = f[i] /\ NewRows(ks)[i].status = "captured"
                         /\ NewRows(ks)[i].source = FALSE
  BY <1>5
<1>11. QED
  BY <1>1, <1>7, <1>8, <1>9, <1>10

(* A writer commits: what it was to add is in the inbox, and what was there  *)
(* stays where it was.                                                       *)
LEMMA InboxGrows ==
  ASSUME InboxTyped, NEW ks, ks \subseteq Keys, IsFiniteSet(ks), inbox' = inbox \o NewRows(ks)
  PROVE  /\ inbox' \in Seq(CaptureRow) /\ Captured' = Captured \cup ks
         /\ DOMAIN inbox \subseteq DOMAIN inbox' /\ \A i \in DOMAIN inbox : inbox'[i] = inbox[i]
         /\ \A i \in DOMAIN inbox' \ DOMAIN inbox :
               inbox'[i].key \in ks /\ inbox'[i].status = "captured" /\ ~inbox'[i].source
         /\ \A i, j \in DOMAIN inbox' \ DOMAIN inbox : inbox'[i].key = inbox'[j].key => i = j
<1>1. PICK new \in Seq(CaptureRow) : new = NewRows(ks)
  BY RowsMade
<1>2. PICK n \in Nat : n = Cardinality(ks) /\ Len(new) = n
  BY <1>1, RowsMade
<1>3. PICK l \in Nat : l = Len(inbox)
  BY DEF InboxTyped
<1>4. /\ inbox' \in Seq(CaptureRow) /\ DOMAIN inbox = 1 .. l /\ DOMAIN inbox' = 1 .. (l + n)
      /\ \A i \in 1 .. l : inbox'[i] = inbox[i]
      /\ \A i \in 1 .. n : inbox'[l + i] = new[i]
  BY <1>1, <1>2, <1>3 DEF InboxTyped
<1>a. /\ \A i \in 1 .. n : new[i].key \in ks /\ new[i].status = "captured" /\ new[i].source = FALSE
      /\ \A i, j \in 1 .. n : new[i].key = new[j].key => i = j
      /\ \A k \in ks : \E i \in 1 .. n : new[i].key = k
  <2>1. /\ \A i \in 1 .. n : /\ NewRows(ks)[i].key \in ks /\ NewRows(ks)[i].status = "captured"
                             /\ NewRows(ks)[i].source = FALSE
        /\ \A i, j \in 1 .. n : NewRows(ks)[i].key = NewRows(ks)[j].key => i = j
        /\ \A k \in ks : \E i \in 1 .. n : NewRows(ks)[i].key = k
    <3>1. /\ \A i \in 1 .. Cardinality(ks) : /\ NewRows(ks)[i].key \in ks /\ NewRows(ks)[i].status = "captured"
                                            /\ NewRows(ks)[i].source = FALSE
          /\ \A i, j \in 1 .. Cardinality(ks) : NewRows(ks)[i].key = NewRows(ks)[j].key => i = j
          /\ \A k \in ks : \E i \in 1 .. Cardinality(ks) : NewRows(ks)[i].key = k
      BY RowsMade, Zenon
    <3>2. QED
      BY <1>2, <3>1, Zenon
  <2>2. QED
    BY <1>1, <2>1
<1>5. \A i \in DOMAIN inbox' \ DOMAIN inbox : i - l \in 1 .. n /\ inbox'[i] = new[i - l]
  <2> SUFFICES ASSUME NEW i \in DOMAIN inbox' \ DOMAIN inbox
               PROVE  i - l \in 1 .. n /\ inbox'[i] = new[i - l]
    OBVIOUS
  <2>1. i \in Int /\ i - l \in 1 .. n /\ l + (i - l) = i
    BY <1>4
  <2>2. QED
    BY <1>4, <2>1
<1>6. \A i \in DOMAIN inbox' \ DOMAIN inbox :
         inbox'[i].key \in ks /\ inbox'[i].status = "captured" /\ ~inbox'[i].source
  <2> SUFFICES ASSUME NEW i \in DOMAIN inbox' \ DOMAIN inbox
               PROVE  inbox'[i].key \in ks /\ inbox'[i].status = "captured" /\ ~inbox'[i].source
    OBVIOUS
  <2>1. PICK j \in 1 .. n : inbox'[i] = new[j]
    BY <1>5
  <2> QED
    BY <2>1, <1>a
<1>7. ASSUME NEW i \in DOMAIN inbox' \ DOMAIN inbox, NEW j \in DOMAIN inbox' \ DOMAIN inbox,
             inbox'[i].key = inbox'[j].key
      PROVE  i = j
  <2>1. PICK a, b \in 1 .. n : a = i - l /\ b = j - l /\ inbox'[i] = new[a] /\ inbox'[j] = new[b]
    BY <1>5
  <2>2. a = b
    <3>1. new[a].key = new[b].key
      BY <1>7, <2>1
    <3>2. QED
      BY <1>a, <3>1
  <2>3. QED
    BY <1>4, <2>1, <2>2
<1>8. \A k \in ks : k \in Captured'
  <2> SUFFICES ASSUME NEW k \in ks
               PROVE  k \in Captured'
    OBVIOUS
  <2>1. PICK i \in 1 .. n : new[i].key = k
    BY <1>a
  <2>2. PICK j \in 1 .. (l + n) : j = l + i
    OBVIOUS
  <2>3. inbox'[j] = new[i] /\ j \in DOMAIN inbox'
    BY <1>4, <2>2
  <2>4. QED
    BY <2>1, <2>3 DEF Captured
<1>9. Captured \subseteq Captured'
  BY <1>4 DEF Captured
<1>10. Captured' \subseteq Captured \cup ks
  BY <1>4, <1>6 DEF Captured
<1>11. QED
  BY <1>4, <1>6, <1>7, <1>8, <1>9, <1>10

(* The document's entries are items. *)
LEMMA EntriesTyped ==
  ASSUME InboxTyped
  PROVE  FeedEntries \subseteq Keys
<1>1. PICK l \in Nat : l = Len(published)
  BY DEF InboxTyped
<1>2. MaxEntries \in Nat
  BY CaptureAssumption
<1>3. Min({MaxEntries, l}) \in {MaxEntries, l} /\ Min({MaxEntries, l}) <= l
  <2>1. \E x \in {MaxEntries, l} : \A y \in {MaxEntries, l} : x <= y
    BY <1>2
  <2>2. QED
    BY <1>2, <2>1 DEF Min
<1>4. PICK n \in 0 .. l : n = Min({MaxEntries, l})
  BY <1>2, <1>3
<1>5. PICK s : s = SubSeq(published, 1, n)
  OBVIOUS
<1>6. \A i \in DOMAIN s : s[i] \in Keys
  <2>1. \A i \in 1 .. n : published[i] \in Keys
    BY <1>1 DEF InboxTyped
  <2>2. s \in Seq(Keys)
    BY <1>5, <2>1, SubSeqProperties
  <2>3. QED
    BY <2>2
<1>7. FeedEntries = {s[i] : i \in DOMAIN s}
  BY <1>1, <1>4, <1>5 DEF FeedEntries, ToSet
<1>8. QED
  BY <1>6, <1>7

-----------------------------------------------------------------------------
(* The inbox: writers *)

(* A writer moves on: what holds of the others still does. *)
LEMMA WriterMoves ==
  ASSUME InboxTyped, NEW w \in Writers, NEW new \in Capturing, IsFiniteSet(new.new),
         writer' = [writer EXCEPT ![w] = new]
  PROVE  /\ writer' \in [Writers -> Capturing] /\ \A s \in Writers : IsFiniteSet(writer'[s].new)
         /\ writer'[w] = new /\ \A s \in Writers \ {w} : writer'[s] = writer[s]
<1>1. /\ writer' \in [Writers -> Capturing] /\ writer'[w] = new
      /\ \A s \in Writers \ {w} : writer'[s] = writer[s]
  BY DEF InboxTyped
<1>2. ASSUME NEW s \in Writers PROVE IsFiniteSet(writer'[s].new)
  <2>1. CASE s = w
    BY <1>1, <2>1
  <2>2. CASE s # w
    BY <1>1, <2>2 DEF InboxTyped
  <2>3. QED
    BY <2>1, <2>2
<1>3. QED
  BY <1>1, <1>2

(* A writer that takes up new items adds none that others have, but for crossed ones. *)
LEMMA OnceMoves ==
  ASSUME InboxTyped, OnceInv, NEW w \in Writers, NEW new \in Capturing, IsFiniteSet(new.new),
         writer' = [writer EXCEPT ![w] = new], CapturedOnce', crossed \subseteq crossed',
         \A k \in new.new : k \in Captured' \/ (\E s \in Writers \ {w} : k \in writer[s].new) => k \in crossed',
         \A s \in Writers \ {w} : \A k \in writer[s].new : k \in Captured' \/ k \in new.new => k \in crossed'
  PROVE  OnceInv'
<1>1. writer'[w] = new /\ \A s \in Writers \ {w} : writer'[s] = writer[s]
  BY WriterMoves
<1>2. ASSUME NEW s \in Writers, NEW k \in writer'[s].new,
             k \in Captured' \/ \E z \in Writers \ {s} : k \in writer'[z].new
      PROVE  k \in crossed'
  <2>1. CASE s = w
    BY <1>1, <1>2, <2>1
  <2>2. CASE s # w
    BY <1>1, <1>2, <2>2 DEF OnceInv, NewOnce
  <2>3. QED
    BY <2>1, <2>2
<1>3. QED
  BY <1>2 DEF OnceInv, NewOnce

(* A writer that moves on loses no entry of the feed it polls. *)
LEMMA FeedMoves ==
  ASSUME InboxTyped, FeedInv, NEW w \in Writers, NEW new \in Capturing, IsFiniteSet(new.new),
         writer' = [writer EXCEPT ![w] = new], Captured \subseteq Captured', UNCHANGED dull,
         listed' \ dull \subseteq Captured',
         new.kind = "feed" => new.entries \ dull \subseteq new.todo \cup new.new \cup Captured'
  PROVE  FeedInv'
<1>1. writer'[w] = new /\ \A s \in Writers \ {w} : writer'[s] = writer[s]
  BY WriterMoves
<1>2. ASSUME NEW s \in Writers, writer'[s].kind = "feed"
      PROVE  writer'[s].entries \ dull \subseteq writer'[s].todo \cup writer'[s].new \cup Captured'
  <2>1. CASE s = w
    BY <1>1, <1>2, <2>1
  <2>2. CASE s # w
    BY <1>1, <1>2, <2>2 DEF FeedInv
  <2>3. QED
    BY <2>1, <2>2
<1>3. QED
  BY <1>2 DEF FeedInv, FeedCaught

(* A writer that moves on loses no visit the cursor has passed. *)
LEMMA VisitMoves ==
  ASSUME InboxTyped, VisitInv, NEW w \in Writers, NEW new \in Capturing, IsFiniteSet(new.new),
         writer' = [writer EXCEPT ![w] = new], Captured \subseteq Captured', excused \subseteq excused',
         UNCHANGED <<visited, clock>>, adapter'.polled <= clock,
         new.pc = "mark" => new.kind = "history" /\ new.todo = {} /\ new.new = {},
         Skew = 0 => \A x \in Keys : 0 < visited[x] /\ visited[x] < adapter'.polled => x \in Captured' \cup excused',
         Skew = 0 /\ new.kind = "history" =>
            \A x \in Keys : visited[x] > 0 => x \in new.todo \cup new.new \cup Captured' \cup excused'
  PROVE  VisitInv'
<1>1. writer'[w] = new /\ \A s \in Writers \ {w} : writer'[s] = writer[s]
  BY WriterMoves
<1>2. \A s \in Writers : writer'[s].pc = "mark" =>
          writer'[s].kind = "history" /\ writer'[s].todo = {} /\ writer'[s].new = {}
  BY <1>1 DEF VisitInv
<1>3. ASSUME Skew = 0, NEW s \in Writers, writer'[s].kind = "history", NEW x \in Keys, visited'[x] > 0
      PROVE  x \in Pending(s)'
  <2>1. CASE s = w
    BY <1>1, <1>3, <2>1 DEF Pending
  <2>2. CASE s # w
    <3>1. x \in Pending(s)
      BY <1>1, <1>3, <2>2 DEF VisitInv
    <3>2. QED
      BY <1>1, <2>2, <3>1 DEF Pending
  <2>3. QED
    BY <2>1, <2>2
<1>4. Skew = 0 => VisitsKept'
  BY DEF VisitsKept
<1>5. QED
  BY <1>2, <1>3, <1>4 DEF VisitInv

(* A request or a poll begins. *)
LEMMA BeginInv ==
  ASSUME InboxInv, NEW w \in Writers, NEW kind \in {"note", "feed", "history"},
         NEW items \in SUBSET Keys, NEW entries \in SUBSET Keys,
         Begin(w, kind, items, entries), excused \subseteq excused', excused' \subseteq Keys,
         kind = "feed" => entries \ dull \subseteq items,
         Skew = 0 /\ kind = "history" => \A x \in Keys : visited[x] > 0 => x \in items \cup Captured \cup excused'
  PROVE  InboxInv'
<1>1. PICK new : new = [pc |-> "look", kind |-> kind, todo |-> items, new |-> {}, entries |-> entries]
  OBVIOUS
<1>2. /\ new \in Capturing /\ new.pc = "look" /\ new.kind = kind /\ new.todo = items /\ new.new = {}
      /\ new.entries = entries
  BY <1>1 DEF Capturing
<1>3. IsFiniteSet(new.new)
  BY <1>2, FS_EmptySet
<1>4. /\ writer' = [writer EXCEPT ![w] = new]
      /\ UNCHANGED <<inbox, feed, dull, published, adapter, visited, clock, triage, kept, listed, crossed>>
  BY <1>1 DEF Begin
<1>5. UNCHANGED Captured
  BY <1>4 DEF Captured
<1>6. InboxTyped'
  BY <1>2, <1>3, <1>4, WriterMoves DEF InboxInv, InboxTyped
<1>7. OnceInv'
  <2>1. CapturedOnce'
    BY <1>4 DEF InboxInv, OnceInv, CapturedOnce
  <2>2. \A s \in Writers \ {w} : \A k \in writer[s].new : k \in Captured' \/ k \in new.new => k \in crossed'
    BY <1>2, <1>4, <1>5 DEF InboxInv, OnceInv, NewOnce
  <2>3. QED
    BY <1>2, <1>3, <1>4, <1>5, <2>1, <2>2, OnceMoves DEF InboxInv
<1>8. FeedInv'
  <2>1. listed' \ dull \subseteq Captured'
    BY <1>4, <1>5 DEF InboxInv, FeedInv, FeedCaught
  <2>2. QED
    BY <1>2, <1>3, <1>4, <1>5, <2>1, FeedMoves DEF InboxInv
<1>9. VisitInv'
  <2>1. adapter'.polled <= clock
    BY <1>4 DEF InboxInv, VisitInv
  <2>2. Skew = 0 => \A x \in Keys : 0 < visited[x] /\ visited[x] < adapter'.polled => x \in Captured' \cup excused'
    BY <1>4, <1>5 DEF InboxInv, VisitInv, VisitsKept
  <2>3. QED
    BY <1>2, <1>3, <1>4, <1>5, <2>1, <2>2, VisitMoves DEF InboxInv
<1>10. RowInv'
  BY <1>4 DEF InboxInv, RowInv, IngestedHasSource
<1>11. QED
  BY <1>6, <1>7, <1>8, <1>9, <1>10 DEF InboxInv

(* The three kinds of request. *)
LEMMA BeginsInv ==
  ASSUME InboxInv, NEW w \in Writers,
         \/ \E k \in Keys : create_capture(w, k)
         \/ \E asked \in BOOLEAN : poll_feed(w, asked) \/ poll(w, asked)
  PROVE  InboxInv'
<1>1. ASSUME NEW k \in Keys, create_capture(w, k) PROVE InboxInv'
  <2>1. Begin(w, "note", {k}, {}) /\ UNCHANGED excused
    BY <1>1 DEF create_capture
  <2>2. excused' \subseteq Keys
    BY <2>1 DEF InboxInv, InboxTyped
  <2>3. QED
    BY <2>1, <2>2, BeginInv
<1>2. ASSUME NEW asked \in BOOLEAN, poll_feed(w, asked) PROVE InboxInv'
  <2>1. PICK es \in SUBSET Keys : es = FeedEntries
    BY EntriesTyped DEF InboxInv
  <2>2. PICK ds \in SUBSET Keys : ds = dull
    BY DEF InboxInv, InboxTyped
  <2>3. Begin(w, "feed", es \ ds, es) /\ UNCHANGED excused
    BY <1>2, <2>1, <2>2 DEF poll_feed
  <2>4. excused' \subseteq Keys
    BY <2>3 DEF InboxInv, InboxTyped
  <2>5. es \ dull \subseteq es \ ds
    BY <2>2
  <2>6. QED
    BY <2>3, <2>4, <2>5, BeginInv
<1>3. ASSUME NEW asked \in BOOLEAN, poll(w, asked) PROVE InboxInv'
  <2>1. Unread \in SUBSET Keys
    BY DEF Unread
  <2>2. PICK read \in SUBSET Keys :
           /\ read \subseteq Unread /\ Begin(w, "history", read \ dull, {})
           /\ excused' = excused \cup ((Unread \ read) \cup (read \cap dull))
    BY <1>3, <2>1 DEF poll, Newest
  <2>3. PICK items \in SUBSET Keys : items = read \ dull
    OBVIOUS
  <2>4. excused \subseteq excused' /\ excused' \subseteq Keys
    BY <2>1, <2>2 DEF InboxInv, InboxTyped
  <2>5. ASSUME Skew = 0, NEW x \in Keys, visited[x] > 0 PROVE x \in items \cup Captured \cup excused'
    <3>1. CASE x \in Unread
      BY <2>2, <2>3, <3>1
    <3>2. CASE x \notin Unread
      <4>1. adapter.polled \in Nat /\ visited[x] \in Nat
        BY DEF InboxInv, InboxTyped
      <4>2. visited[x] < adapter.polled
        BY <2>5, <3>2, <4>1 DEF Unread
      <4>3. x \in Captured \cup excused
        BY <2>5, <4>1, <4>2 DEF InboxInv, VisitInv, VisitsKept
      <4>4. QED
        BY <2>4, <4>3
    <3>3. QED
      BY <3>1, <3>2
  <2>6. Begin(w, "history", items, {})
    BY <2>2, <2>3
  <2>7. QED
    BY <2>4, <2>5, <2>6, BeginInv
<1>4. QED
  BY <1>1, <1>2, <1>3

(* A writer looks one item up. *)
LEMMA ExamineInv ==
  ASSUME InboxInv, NEW w \in Writers, NEW k \in Keys, Examine(w, k)
  PROVE  InboxInv'
<1>1. PICK o \in Capturing : o = writer[w]
  BY DEF InboxInv, InboxTyped
<1>2. PICK fresh \in SUBSET Keys : fresh = IF k \in Captured THEN o.new ELSE o.new \cup {k}
  BY <1>1 DEF Capturing
<1>3. PICK new : new = [o EXCEPT !.todo = o.todo \ {k}, !.new = fresh]
  OBVIOUS
<1>4. /\ new \in Capturing /\ new.pc = o.pc /\ new.kind = o.kind /\ new.todo = o.todo \ {k} /\ new.new = fresh
      /\ new.entries = o.entries
  BY <1>1, <1>3 DEF Capturing
<1>5. IsFiniteSet(new.new)
  <2>1. IsFiniteSet(o.new)
    BY <1>1 DEF InboxInv, InboxTyped
  <2>2. IsFiniteSet(o.new \cup {k})
    BY <2>1, FS_AddElement
  <2>3. QED
    BY <1>2, <1>4, <2>1, <2>2
<1>6. /\ writer' = [writer EXCEPT ![w] = new] /\ o.pc = "look" /\ k \in o.todo
      /\ UNCHANGED <<inbox, feed, dull, published, adapter, visited, clock, triage, kept, listed, excused>>
  BY <1>1, <1>2, <1>3 DEF Examine, captureStored
<1>7. crossed' = IF k \notin Captured /\ \E s \in Writers : k \in writer[s].new THEN crossed \cup {k} ELSE crossed
  BY DEF Examine
<1>8. UNCHANGED Captured
  BY <1>6 DEF Captured
<1>9. InboxTyped'
  <2>1. crossed' \subseteq Keys
    BY <1>7 DEF InboxInv, InboxTyped
  <2>2. QED
    BY <1>4, <1>5, <1>6, <2>1, WriterMoves DEF InboxInv, InboxTyped
<1>10. OnceInv'
  <2>1. CapturedOnce' /\ crossed \subseteq crossed'
    BY <1>6, <1>7 DEF InboxInv, OnceInv, CapturedOnce
  <2>2. \A s \in Writers : \A x \in writer[s].new :
           x \in Captured \/ (\E z \in Writers \ {s} : x \in writer[z].new) => x \in crossed
    BY DEF InboxInv, OnceInv, NewOnce
  <2>3. ASSUME NEW x \in new.new, x \in Captured' \/ \E s \in Writers \ {w} : x \in writer[s].new
        PROVE  x \in crossed'
    <3>1. CASE x \in o.new
      BY <1>1, <1>8, <2>1, <2>2, <2>3, <3>1
    <3>2. CASE x = k /\ k \notin Captured
      BY <1>7, <1>8, <2>3, <3>2
    <3>3. QED
      BY <1>2, <1>4, <2>3, <3>1, <3>2
  <2>4. ASSUME NEW s \in Writers \ {w}, NEW x \in writer[s].new, x \in Captured' \/ x \in new.new
        PROVE  x \in crossed'
    <3>1. CASE x \in Captured \/ x \in o.new
      BY <1>1, <2>1, <2>2, <3>1
    <3>2. CASE x = k /\ k \notin Captured
      BY <1>7, <3>2
    <3>3. QED
      BY <1>2, <1>4, <1>8, <2>4, <3>1, <3>2
  <2>5. QED
    BY <1>4, <1>5, <1>6, <2>1, <2>3, <2>4, OnceMoves DEF InboxInv
<1>11. o.todo \cup o.new \cup Captured \subseteq new.todo \cup new.new \cup Captured
  BY <1>2, <1>4
<1>12. FeedInv'
  <2>1. listed' \ dull \subseteq Captured'
    BY <1>6, <1>8 DEF InboxInv, FeedInv, FeedCaught
  <2>2. new.kind = "feed" => new.entries \ dull \subseteq new.todo \cup new.new \cup Captured'
    BY <1>1, <1>4, <1>8, <1>11 DEF InboxInv, FeedInv
  <2>3. QED
    BY <1>4, <1>5, <1>6, <1>8, <2>1, <2>2, FeedMoves DEF InboxInv
<1>13. VisitInv'
  <2>1. adapter'.polled <= clock
    BY <1>6 DEF InboxInv, VisitInv
  <2>2. Skew = 0 => \A x \in Keys : 0 < visited[x] /\ visited[x] < adapter'.polled => x \in Captured' \cup excused'
    BY <1>6, <1>8 DEF InboxInv, VisitInv, VisitsKept
  <2>3. ASSUME Skew = 0, new.kind = "history", NEW x \in Keys, visited[x] > 0
        PROVE  x \in new.todo \cup new.new \cup Captured' \cup excused'
    <3>1. x \in Pending(w)
      BY <1>1, <1>4, <2>3 DEF InboxInv, VisitInv
    <3>2. QED
      BY <1>1, <1>6, <1>8, <1>11, <3>1 DEF Pending
  <2>4. QED
    BY <1>4, <1>5, <1>6, <1>8, <2>1, <2>2, <2>3, VisitMoves DEF InboxInv
<1>14. RowInv'
  BY <1>6 DEF InboxInv, RowInv, IngestedHasSource
<1>15. QED
  BY <1>9, <1>10, <1>12, <1>13, <1>14 DEF InboxInv

(* Nothing of the writer's is left to do. *)
LEMMA FreeFacts ==
  /\ Free \in Capturing /\ Free.pc = "idle" /\ Free.kind = "none" /\ Free.new = {} /\ IsFiniteSet(Free.new)
<1>1. Free \in Capturing /\ Free.pc = "idle" /\ Free.kind = "none" /\ Free.new = {}
  BY DEF Free, Capturing
<1>2. QED
  BY <1>1, FS_EmptySet

(* A writer commits what it is to add. *)
LEMMA CommitInv ==
  ASSUME InboxInv, NEW w \in Writers, SaveItems(w) \/ SaveFeed(w)
  PROVE  InboxInv'
<1>1. PICK o \in Capturing : o = writer[w]
  BY DEF InboxInv, InboxTyped
<1>2. o.new \subseteq Keys /\ IsFiniteSet(o.new)
  BY <1>1 DEF InboxInv, InboxTyped, Capturing
<1>3. PICK new \in Capturing :
         /\ writer' = [writer EXCEPT ![w] = new] /\ new.new = {} /\ new.kind # "feed"
         /\ new.pc = "mark" => new.kind = "history" /\ new.todo = {}
         /\ new.kind = "history" => o.kind = "history"
  <2>1. CASE writer' = [writer EXCEPT ![w] = Free]
    BY <2>1, FreeFacts
  <2>2. CASE SaveItems(w) /\ PollsHistory(w)
    <3>1. PICK new : new = [o EXCEPT !.pc = "mark", !.new = {}]
      OBVIOUS
    <3>2. /\ new \in Capturing /\ new.new = {} /\ new.pc = "mark" /\ new.kind = "history" /\ new.todo = {}
          /\ o.kind = "history"
      BY <1>1, <2>2, <3>1 DEF Capturing, SaveItems, PollsHistory
    <3>3. writer' = [writer EXCEPT ![w] = new]
      BY <1>1, <2>2, <3>1 DEF SaveItems
    <3>4. QED
      BY <3>2, <3>3
  <2>3. QED
    BY <2>1, <2>2 DEF SaveItems, SaveFeed
<1>4. IsFiniteSet(new.new)
  BY <1>3, FS_EmptySet
<1>5. /\ o.todo = {} /\ inbox' = inbox \o NewRows(o.new)
      /\ UNCHANGED <<dull, published, adapter, visited, clock, triage, kept, crossed, excused>>
  BY <1>1 DEF SaveItems, SaveFeed, captureStored
<1>6. /\ inbox' \in Seq(CaptureRow) /\ Captured' = Captured \cup o.new
      /\ DOMAIN inbox \subseteq DOMAIN inbox' /\ \A i \in DOMAIN inbox : inbox'[i] = inbox[i]
      /\ \A i \in DOMAIN inbox' \ DOMAIN inbox :
            inbox'[i].key \in o.new /\ inbox'[i].status = "captured" /\ ~inbox'[i].source
      /\ \A i, j \in DOMAIN inbox' \ DOMAIN inbox : inbox'[i].key = inbox'[j].key => i = j
  BY <1>2, <1>5, InboxGrows DEF InboxInv
<1>7. \/ UNCHANGED <<feed, listed>>
      \/ /\ feed' = [feed EXCEPT !.polled = clock] /\ listed' = listed \cup o.entries /\ o.kind = "feed"
  BY <1>1 DEF SaveItems, SaveFeed, captureStored
<1>8. InboxTyped'
  <2>1. feed' \in [there : BOOLEAN, on : BOOLEAN, polled : Nat]
    <3>1. clock \in Nat /\ feed \in [there : BOOLEAN, on : BOOLEAN, polled : Nat]
      BY CaptureAssumption DEF InboxInv, InboxTyped
    <3>2. QED
      BY <1>7, <3>1
  <2>2. listed' \subseteq Keys
    BY <1>7 DEF InboxInv, InboxTyped, Capturing
  <2>3. QED
    BY <1>3, <1>4, <1>5, <1>6, <2>1, <2>2, WriterMoves DEF InboxInv, InboxTyped
<1>9. OnceInv'
  <2>1. \A k \in o.new : k \in Captured => k \in crossed
    BY <1>1 DEF InboxInv, OnceInv, NewOnce
  <2>2. ASSUME NEW i \in DOMAIN inbox', NEW j \in DOMAIN inbox', i # j, inbox'[i].key = inbox'[j].key
        PROVE  inbox'[i].key \in crossed
    <3>1. \A z \in DOMAIN inbox : inbox[z].key \in Captured
      BY DEF Captured
    <3>2. CASE i \in DOMAIN inbox /\ j \in DOMAIN inbox
      BY <1>6, <2>2, <3>2 DEF InboxInv, OnceInv, CapturedOnce
    <3>3. CASE i \notin DOMAIN inbox
      BY <1>6, <2>1, <2>2, <3>1, <3>3
    <3>4. CASE j \notin DOMAIN inbox
      BY <1>6, <2>1, <2>2, <3>1, <3>4
    <3>5. QED
      BY <3>2, <3>3, <3>4
  <2>3. CapturedOnce'
    BY <1>5, <2>2 DEF CapturedOnce
  <2>4. \A s \in Writers \ {w} : \A k \in writer[s].new : k \in Captured' \/ k \in new.new => k \in crossed'
    <3>1. \A s \in Writers \ {w} : \A k \in writer[s].new : k \in Captured \/ k \in writer[w].new => k \in crossed
      BY DEF InboxInv, OnceInv, NewOnce
    <3>2. QED
      BY <1>1, <1>3, <1>5, <1>6, <3>1
  <2>5. QED
    BY <1>3, <1>4, <1>5, <2>3, <2>4, OnceMoves DEF InboxInv
<1>10. FeedInv'
  <2>1. listed' \ dull \subseteq Captured'
    <3>1. listed \ dull \subseteq Captured
      BY DEF InboxInv, FeedInv, FeedCaught
    <3>2. o.kind = "feed" => o.entries \ dull \subseteq o.new \cup Captured
      BY <1>1, <1>5 DEF InboxInv, FeedInv
    <3>3. QED
      BY <1>6, <1>7, <3>1, <3>2
  <2>2. QED
    BY <1>3, <1>4, <1>5, <1>6, <2>1, FeedMoves DEF InboxInv
<1>11. VisitInv'
  <2>1. adapter'.polled <= clock
    BY <1>5 DEF InboxInv, VisitInv
  <2>2. Skew = 0 => \A x \in Keys : 0 < visited[x] /\ visited[x] < adapter'.polled => x \in Captured' \cup excused'
    BY <1>5, <1>6 DEF InboxInv, VisitInv, VisitsKept
  <2>3. ASSUME Skew = 0, new.kind = "history", NEW x \in Keys, visited[x] > 0
        PROVE  x \in new.todo \cup new.new \cup Captured' \cup excused'
    <3>1. x \in Pending(w)
      BY <1>1, <1>3, <2>3 DEF InboxInv, VisitInv
    <3>2. QED
      BY <1>1, <1>5, <1>6, <3>1 DEF Pending
  <2>4. QED
    BY <1>3, <1>4, <1>5, <1>6, <2>1, <2>2, <2>3, VisitMoves DEF InboxInv
<1>12. RowInv'
  <2>1. \A i \in DOMAIN inbox' : inbox'[i].status = "ingested" => inbox'[i].source /\ inbox'[i].key \in kept'
    BY <1>5, <1>6 DEF InboxInv, RowInv, IngestedHasSource
  <2>2. \A i \in DOMAIN inbox' : inbox'[i].source => inbox'[i].key \in kept'
    BY <1>5, <1>6 DEF InboxInv, RowInv
  <2>3. \A t \in Triages : triage'[t].pc # "idle" => triage'[t].row \in DOMAIN inbox'
    BY <1>5, <1>6 DEF InboxInv, RowInv
  <2>4. QED
    BY <2>1, <2>2, <2>3 DEF RowInv, IngestedHasSource
<1>13. QED
  BY <1>8, <1>9, <1>10, <1>11, <1>12 DEF InboxInv

(* A poll of the history is stamped, or a writer gives up. *)
LEMMA EndInv ==
  ASSUME InboxInv, NEW w \in Writers, MarkPolled(w) \/ GiveUp(w)
  PROVE  InboxInv'
<1>1. /\ writer' = [writer EXCEPT ![w] = Free]
      /\ UNCHANGED <<inbox, feed, dull, published, visited, clock, triage, kept, listed, crossed, excused>>
  BY DEF MarkPolled, GiveUp, captureStored
<1>2. UNCHANGED Captured
  BY <1>1 DEF Captured
<1>3. /\ adapter' \in [there : BOOLEAN, on : BOOLEAN, polled : 0 .. Day]
      /\ adapter' = adapter \/ (adapter'.polled = clock /\ MarkPolled(w))
  <2>1. CASE MarkPolled(w)
    <3>1. clock \in 0 .. Day /\ adapter \in [there : BOOLEAN, on : BOOLEAN, polled : 0 .. Day]
      BY CaptureAssumption DEF InboxInv, InboxTyped
    <3>2. QED
      BY <2>1, <3>1 DEF MarkPolled
  <2>2. CASE GiveUp(w)
    BY <2>2 DEF GiveUp, captureStored, InboxInv, InboxTyped
  <2>3. QED
    BY <2>1, <2>2
<1>4. InboxTyped'
  BY <1>1, <1>3, FreeFacts, WriterMoves DEF InboxInv, InboxTyped
<1>5. OnceInv'
  <2>1. CapturedOnce'
    BY <1>1 DEF InboxInv, OnceInv, CapturedOnce
  <2>2. \A s \in Writers \ {w} : \A k \in writer[s].new : k \in Captured' \/ k \in Free.new => k \in crossed'
    BY <1>1, <1>2, FreeFacts DEF InboxInv, OnceInv, NewOnce
  <2>3. QED
    BY <1>1, <1>2, <2>1, <2>2, FreeFacts, OnceMoves DEF InboxInv
<1>6. FeedInv'
  <2>1. listed' \ dull \subseteq Captured'
    BY <1>1, <1>2 DEF InboxInv, FeedInv, FeedCaught
  <2>2. QED
    BY <1>1, <1>2, <2>1, FreeFacts, FeedMoves DEF InboxInv
<1>7. VisitInv'
  <2>1. adapter'.polled <= clock
    BY <1>3, CaptureAssumption DEF InboxInv, InboxTyped, VisitInv
  <2>2. ASSUME Skew = 0, NEW x \in Keys, 0 < visited[x], visited[x] < adapter'.polled
        PROVE  x \in Captured' \cup excused'
    <3>1. CASE adapter' = adapter
      BY <1>1, <1>2, <2>2, <3>1 DEF InboxInv, VisitInv, VisitsKept
    <3>2. CASE MarkPolled(w)
      <4>1. writer[w].kind = "history" /\ writer[w].todo = {} /\ writer[w].new = {}
        BY <3>2 DEF MarkPolled, InboxInv, VisitInv
      <4>2. x \in Pending(w)
        BY <2>2, <4>1 DEF InboxInv, InboxTyped, VisitInv
      <4>3. QED
        BY <1>1, <1>2, <4>1, <4>2 DEF Pending
    <3>3. QED
      BY <1>3, <3>1, <3>2
  <2>3. QED
    BY <1>1, <1>2, <2>1, <2>2, FreeFacts, VisitMoves DEF InboxInv
<1>8. RowInv'
  BY <1>1 DEF InboxInv, RowInv, IngestedHasSource
<1>9. QED
  BY <1>4, <1>5, <1>6, <1>7, <1>8 DEF InboxInv

-----------------------------------------------------------------------------
(* The inbox: the world, its settings and triage *)

(* Nobody's writer and no row changes. *)
WorldStep ==
    \/ \E k \in Keys : PublishEntry(k) \/ VisitPage(k)
    \/ Wait \/ subscribe \/ toggle_feed \/ delete_feed \/ FetchFails
    \/ \E on \in BOOLEAN : configure_adapter(on)

(* What happens outside, and the settings of feeds and adapters, lose no item. *)
LEMMA WorldInv ==
  ASSUME InboxInv, WorldStep
  PROVE  InboxInv'
<1>1. UNCHANGED <<inbox, dull, writer, triage, kept, listed, crossed>>
  <2>1. ASSUME NEW k \in Keys, PublishEntry(k) \/ VisitPage(k)
        PROVE  UNCHANGED <<inbox, dull, writer, triage, kept, listed, crossed>>
    BY <2>1 DEF PublishEntry, VisitPage
  <2>2. CASE Wait \/ subscribe \/ delete_feed \/ FetchFails
    BY <2>2 DEF Wait, subscribe, delete_feed, FetchFails
  <2>3. CASE toggle_feed
    BY <2>3 DEF toggle_feed
  <2>4. ASSUME NEW on \in BOOLEAN, configure_adapter(on)
        PROVE  UNCHANGED <<inbox, dull, writer, triage, kept, listed, crossed>>
    BY <2>4 DEF configure_adapter
  <2>5. QED
    BY <2>1, <2>2, <2>3, <2>4 DEF WorldStep
<1>2. UNCHANGED Captured
  BY <1>1 DEF Captured
<1>3. \/ UNCHANGED <<adapter, visited, clock, excused>>
      \/ \E k \in Keys : VisitPage(k)
      \/ Wait
      \/ \E on \in BOOLEAN : configure_adapter(on)
  BY DEF WorldStep, PublishEntry, subscribe, toggle_feed, delete_feed, FetchFails
<1>4. InboxTyped'
  <2>1. published' \in Seq(Keys)
    <3>1. CASE UNCHANGED published
      BY <3>1 DEF InboxInv, InboxTyped
    <3>2. ASSUME NEW k \in Keys, PublishEntry(k) PROVE published' \in Seq(Keys)
      <4>1. published \in Seq(Keys) /\ <<k>> \in Seq(Keys)
        BY DEF InboxInv, InboxTyped
      <4>2. QED
        BY <3>2, <4>1 DEF PublishEntry
    <3>3. CASE toggle_feed
      BY <3>1, <3>3 DEF toggle_feed
    <3>4. CASE Wait \/ subscribe \/ delete_feed \/ FetchFails
      BY <3>1, <3>4 DEF Wait, subscribe, delete_feed, FetchFails
    <3>5. CASE \E k \in Keys : VisitPage(k)
      BY <3>1, <3>5 DEF VisitPage
    <3>6. ASSUME NEW on \in BOOLEAN, configure_adapter(on) PROVE published' \in Seq(Keys)
      BY <3>1, <3>6 DEF configure_adapter
    <3>7. QED
      BY <3>2, <3>3, <3>4, <3>5, <3>6 DEF WorldStep
  <2>2. feed' \in [there : BOOLEAN, on : BOOLEAN, polled : Nat]
    <3>1. clock \in Nat /\ feed \in [there : BOOLEAN, on : BOOLEAN, polled : Nat]
      BY CaptureAssumption DEF InboxInv, InboxTyped
    <3>3. CASE subscribe \/ delete_feed
      <4>1. /\ [there |-> TRUE, on |-> TRUE, polled |-> 0] \in [there : BOOLEAN, on : BOOLEAN, polled : Nat]
            /\ Absent \in [there : BOOLEAN, on : BOOLEAN, polled : Nat]
        BY DEF Absent
      <4>2. QED
        BY <3>3, <4>1 DEF subscribe, delete_feed
    <3>4. CASE FetchFails
      BY <3>1, <3>4 DEF FetchFails
    <3>5. CASE toggle_feed
      <4>1. PICK on \in BOOLEAN : on = ~feed.on
        OBVIOUS
      <4>2. feed' = [feed EXCEPT !.on = on]
        BY <3>5, <4>1 DEF toggle_feed
      <4>3. [feed EXCEPT !.on = on] \in [there : BOOLEAN, on : BOOLEAN, polled : Nat]
        BY <3>1
      <4>4. QED
        BY <4>2, <4>3
    <3>6. CASE (\E k \in Keys : PublishEntry(k) \/ VisitPage(k)) \/ Wait
      BY <3>1, <3>6 DEF PublishEntry, VisitPage, Wait
    <3>7. ASSUME NEW on \in BOOLEAN, configure_adapter(on) PROVE UNCHANGED feed
      BY <3>7 DEF configure_adapter
    <3>8. QED
      BY <3>1, <3>3, <3>4, <3>5, <3>6, <3>7 DEF WorldStep
  <2>3. /\ adapter' \in [there : BOOLEAN, on : BOOLEAN, polled : 0 .. Day]
        /\ visited' \in [Keys -> Nat] /\ clock' \in 1 .. Day /\ excused' \subseteq Keys
    <3>1. /\ adapter \in [there : BOOLEAN, on : BOOLEAN, polled : 0 .. Day] /\ visited \in [Keys -> Nat]
          /\ clock \in 1 .. Day /\ clock \in Nat /\ Day \in Nat /\ excused \subseteq Keys
      BY CaptureAssumption DEF InboxInv, InboxTyped
    <3>2. ASSUME NEW k \in Keys, VisitPage(k)
          PROVE  adapter' = adapter /\ clock' = clock /\ visited' \in [Keys -> Nat] /\ excused' \subseteq Keys
      BY <3>1, <3>2 DEF VisitPage
    <3>3. CASE Wait
      BY <3>1, <3>3 DEF Wait
    <3>4. ASSUME NEW on \in BOOLEAN, configure_adapter(on)
          PROVE  /\ adapter' \in [there : BOOLEAN, on : BOOLEAN, polled : 0 .. Day]
                 /\ UNCHANGED <<visited, clock, excused>>
      BY <3>1, <3>4 DEF configure_adapter
    <3>5. QED
      BY <1>3, <3>1, <3>2, <3>3, <3>4
  <2>4. QED
    BY <1>1, <2>1, <2>2, <2>3 DEF InboxInv, InboxTyped
<1>5. OnceInv'
  BY <1>1, <1>2 DEF InboxInv, OnceInv, CapturedOnce, NewOnce
<1>6. FeedInv'
  BY <1>1, <1>2 DEF InboxInv, FeedInv, FeedCaught
<1>7. VisitInv'
  <2>1. /\ adapter.polled \in Nat /\ clock \in Nat /\ adapter.polled <= clock
        /\ \A x \in Keys : visited[x] \in Nat
    BY CaptureAssumption DEF InboxInv, InboxTyped, VisitInv
  <2>2. \A s \in Writers : writer'[s].pc = "mark" =>
            writer'[s].kind = "history" /\ writer'[s].todo = {} /\ writer'[s].new = {}
    BY <1>1 DEF InboxInv, VisitInv
  <2>3. /\ Skew = 0 => \A x \in Keys : 0 < visited[x] /\ visited[x] < adapter.polled => x \in Captured \cup excused
        /\ Skew = 0 => \A w \in Writers : writer[w].kind = "history" =>
              \A x \in Keys : visited[x] > 0 => x \in writer[w].todo \cup writer[w].new \cup Captured \cup excused
    BY DEF InboxInv, VisitInv, VisitsKept, Pending
  <2>4. SUFFICES /\ adapter'.polled <= clock'
                 /\ Skew = 0 => \A x \in Keys :
                       0 < visited'[x] /\ visited'[x] < adapter'.polled => x \in Captured \cup excused'
                 /\ Skew = 0 => \A w \in Writers : writer[w].kind = "history" =>
                       \A x \in Keys : visited'[x] > 0 =>
                           x \in writer[w].todo \cup writer[w].new \cup Captured \cup excused'
    BY <1>1, <1>2, <2>2 DEF VisitInv, VisitsKept, Pending
  <2>5. CASE UNCHANGED <<adapter, visited, clock, excused>>
    BY <2>1, <2>3, <2>5
  <2>6. ASSUME NEW k \in Keys, VisitPage(k)
        PROVE  /\ adapter'.polled <= clock'
               /\ Skew = 0 => \A x \in Keys :
                     0 < visited'[x] /\ visited'[x] < adapter'.polled => x \in Captured \cup excused'
               /\ Skew = 0 => \A w \in Writers : writer[w].kind = "history" =>
                     \A x \in Keys : visited'[x] > 0 =>
                         x \in writer[w].todo \cup writer[w].new \cup Captured \cup excused'
    <3>1. /\ UNCHANGED <<adapter, clock>> /\ visited'[k] = clock /\ excused \ {k} \subseteq excused'
          /\ \A x \in Keys \ {k} : visited'[x] = visited[x]
          /\ (\E w \in Writers : writer[w].kind = "history") => excused' = excused \cup {k}
      BY <2>6 DEF VisitPage, PollsHistory, InboxInv, InboxTyped
    <3>2. ASSUME Skew = 0, NEW x \in Keys, 0 < visited'[x], visited'[x] < adapter'.polled
          PROVE  x \in Captured \cup excused'
      BY <2>1, <2>3, <3>1, <3>2
    <3>3. ASSUME Skew = 0, NEW w \in Writers, writer[w].kind = "history", NEW x \in Keys, visited'[x] > 0
          PROVE  x \in writer[w].todo \cup writer[w].new \cup Captured \cup excused'
      BY <2>3, <3>1, <3>3
    <3>4. QED
      BY <2>1, <3>1, <3>2, <3>3
  <2>7. CASE Wait
    BY <2>1, <2>3, <2>7 DEF Wait
  <2>8. ASSUME NEW on \in BOOLEAN, configure_adapter(on)
        PROVE  adapter'.polled = adapter.polled /\ UNCHANGED <<visited, clock, excused>>
    BY <2>8 DEF configure_adapter, InboxInv, InboxTyped
  <2>9. QED
    BY <1>3, <2>1, <2>3, <2>5, <2>6, <2>7, <2>8
<1>8. RowInv'
  BY <1>1 DEF InboxInv, RowInv, IngestedHasSource
<1>9. QED
  BY <1>4, <1>5, <1>6, <1>7, <1>8 DEF InboxInv

(* Rows keep their items while requests to ingest, discard or delete run. *)
LEMMA TriageInv ==
  ASSUME InboxInv, TriageNext
  PROVE  InboxInv'
<1>1. UNCHANGED <<feed, dull, published, adapter, visited, clock, writer, listed, crossed, excused>>
  <2>1. ASSUME NEW t \in Triages, NEW i \in 1 .. MaxCaptures, ingest_capture(t, i) \/ discard_capture(t, i)
        PROVE  UNCHANGED <<feed, dull, published, adapter, visited, clock, writer, listed, crossed, excused>>
    BY <2>1 DEF ingest_capture, discard_capture
  <2>2. ASSUME NEW t \in Triages, MakeSource(t) \/ SaveIngested(t) \/ SaveDiscarded(t)
        PROVE  UNCHANGED <<feed, dull, published, adapter, visited, clock, writer, listed, crossed, excused>>
    BY <2>2 DEF MakeSource, SaveIngested, SaveDiscarded
  <2>3. ASSUME NEW k \in Keys, DeleteSource(k)
        PROVE  UNCHANGED <<feed, dull, published, adapter, visited, clock, writer, listed, crossed, excused>>
    BY <2>3 DEF DeleteSource
  <2>4. QED
    BY <2>1, <2>2, <2>3 DEF TriageNext
<1>2. /\ inbox \in Seq(CaptureRow) /\ triage \in [Triages -> Triaging] /\ kept \subseteq Keys
      /\ \A i \in DOMAIN inbox : inbox[i] \in CaptureRow
      /\ \A i \in DOMAIN inbox : i \in Nat
  BY DEF InboxInv, InboxTyped
<1>3. /\ \A i \in DOMAIN inbox : inbox[i].status = "ingested" => inbox[i].source
      /\ \A i \in DOMAIN inbox : inbox[i].source => inbox[i].key \in kept
      /\ \A t \in Triages : triage[t].pc # "idle" => triage[t].row \in DOMAIN inbox
  BY DEF InboxInv, RowInv, IngestedHasSource
<1>4. SUFFICES /\ inbox' \in Seq(CaptureRow) /\ DOMAIN inbox' = DOMAIN inbox
               /\ \A i \in DOMAIN inbox :
                     /\ inbox'[i].key = inbox[i].key
                     /\ inbox'[i].status = "ingested" => inbox'[i].source
                     /\ inbox'[i].source => inbox'[i].key \in kept'
               /\ triage' \in [Triages -> Triaging] /\ kept' \subseteq Keys
               /\ \A t \in Triages : triage'[t].pc # "idle" => triage'[t].row \in DOMAIN inbox
  <2>1. UNCHANGED Captured
    BY <1>4 DEF Captured
  <2>2. InboxTyped'
    BY <1>1, <1>4 DEF InboxInv, InboxTyped
  <2>3. OnceInv'
    BY <1>1, <1>4, <2>1 DEF InboxInv, OnceInv, CapturedOnce, NewOnce
  <2>4. FeedInv'
    BY <1>1, <2>1 DEF InboxInv, FeedInv, FeedCaught
  <2>5. VisitInv'
    BY <1>1, <2>1 DEF InboxInv, VisitInv, VisitsKept, Pending
  <2>6. RowInv'
    BY <1>4 DEF RowInv, IngestedHasSource
  <2>7. QED
    BY <2>2, <2>3, <2>4, <2>5, <2>6 DEF InboxInv
<1>5. ASSUME NEW t \in Triages, NEW i \in DOMAIN inbox, NEW new \in Triaging,
             triage' = [triage EXCEPT ![t] = new], new.pc = "idle" \/ new.row = i
      PROVE  /\ triage' \in [Triages -> Triaging]
             /\ \A s \in Triages : triage'[s].pc # "idle" => triage'[s].row \in DOMAIN inbox
  BY <1>2, <1>3, <1>5
<1>6. ASSUME NEW t \in Triages, NEW i \in 1 .. MaxCaptures, ingest_capture(t, i)
      PROVE  /\ triage' \in [Triages -> Triaging] /\ UNCHANGED <<inbox, kept>>
             /\ \A s \in Triages : triage'[s].pc # "idle" => triage'[s].row \in DOMAIN inbox
  <2>1. [pc |-> "ingest", row |-> i] \in Triaging
    BY <1>6 DEF Triaging
  <2>2. i \in DOMAIN inbox /\ triage' = [triage EXCEPT ![t] = [pc |-> "ingest", row |-> i]] /\ UNCHANGED <<inbox, kept>>
    BY <1>6 DEF ingest_capture
  <2>3. QED
    BY <1>5, <2>1, <2>2
<1>7. ASSUME NEW t \in Triages, NEW i \in 1 .. MaxCaptures, discard_capture(t, i)
      PROVE  /\ triage' \in [Triages -> Triaging] /\ UNCHANGED <<inbox, kept>>
             /\ \A s \in Triages : triage'[s].pc # "idle" => triage'[s].row \in DOMAIN inbox
  <2>1. PICK st \in Statuses : i \in DOMAIN inbox /\ st = inbox[i].status
    BY <1>2, <1>7 DEF discard_capture, CaptureRow
  <2>2. [pc |-> "discard", row |-> i, seen |-> st] \in Triaging
    BY <1>7 DEF Triaging
  <2>3. triage' = [triage EXCEPT ![t] = [pc |-> "discard", row |-> i, seen |-> st]] /\ UNCHANGED <<inbox, kept>>
    BY <1>7, <2>1 DEF discard_capture
  <2>4. QED
    BY <1>5, <2>1, <2>2, <2>3
<1>8. ASSUME NEW t \in Triages, MakeSource(t)
      PROVE  /\ triage' \in [Triages -> Triaging] /\ UNCHANGED inbox /\ kept \subseteq kept' /\ kept' \subseteq Keys
             /\ \A s \in Triages : triage'[s].pc # "idle" => triage'[s].row \in DOMAIN inbox
  <2>1. PICK o \in Triaging : o = triage[t]
    BY <1>2
  <2>2. o.pc = "ingest" /\ o \in [pc : {"ingest", "save"}, row : Nat]
    BY <1>8, <2>1 DEF MakeSource, Triaging
  <2>3. PICK i \in DOMAIN inbox : i = o.row
    BY <1>3, <2>1, <2>2
  <2>4. PICK new : new = [o EXCEPT !.pc = "save"]
    OBVIOUS
  <2>5. new \in Triaging /\ new.row = i
    <3>1. new \in [pc : {"ingest", "save"}, row : Nat] /\ new.row = i
      BY <2>2, <2>3, <2>4
    <3>2. QED
      BY <3>1 DEF Triaging
  <2>6. triage' = [triage EXCEPT ![t] = new] /\ UNCHANGED inbox /\ kept' = kept \cup {inbox[i].key}
    BY <1>8, <2>1, <2>3, <2>4 DEF MakeSource
  <2>7. kept' \subseteq Keys
    BY <1>2, <2>6 DEF CaptureRow
  <2>8. QED
    BY <1>5, <2>5, <2>6, <2>7
<1>9. Untouched \in Triaging /\ Untouched.pc = "idle"
  BY DEF Untouched, Triaging
<1>10. ASSUME NEW i \in DOMAIN inbox, NEW new \in CaptureRow, inbox' = [inbox EXCEPT ![i] = new],
              new.key = inbox[i].key, new.status = "ingested" => new.source, new.source => new.key \in kept,
              UNCHANGED kept
       PROVE  /\ inbox' \in Seq(CaptureRow) /\ DOMAIN inbox' = DOMAIN inbox
              /\ \A j \in DOMAIN inbox :
                    /\ inbox'[j].key = inbox[j].key
                    /\ inbox'[j].status = "ingested" => inbox'[j].source
                    /\ inbox'[j].source => inbox'[j].key \in kept'
  BY <1>2, <1>3, <1>10
<1>11. ASSUME NEW t \in Triages, SaveIngested(t) \/ SaveDiscarded(t)
       PROVE  /\ triage' \in [Triages -> Triaging] /\ UNCHANGED kept
              /\ \A s \in Triages : triage'[s].pc # "idle" => triage'[s].row \in DOMAIN inbox
              /\ inbox' \in Seq(CaptureRow) /\ DOMAIN inbox' = DOMAIN inbox
              /\ \A j \in DOMAIN inbox :
                    /\ inbox'[j].key = inbox[j].key
                    /\ inbox'[j].status = "ingested" => inbox'[j].source
                    /\ inbox'[j].source => inbox'[j].key \in kept'
  <2>1. PICK i \in DOMAIN inbox : i = triage[t].row
    BY <1>3, <1>11 DEF SaveIngested, SaveDiscarded
  <2>2. PICK o \in CaptureRow : o = inbox[i]
    BY <1>2
  <2>3. triage' = [triage EXCEPT ![t] = Untouched] /\ UNCHANGED kept
    BY <1>11 DEF SaveIngested, SaveDiscarded
  <2>4. /\ triage' \in [Triages -> Triaging]
        /\ \A s \in Triages : triage'[s].pc # "idle" => triage'[s].row \in DOMAIN inbox
    BY <1>5, <1>9, <2>3
  <2>5. CASE UNCHANGED inbox
    BY <1>2, <1>3, <2>3, <2>4, <2>5
  <2>6. CASE SaveIngested(t) /\ o.key \in kept
    <3>1. PICK new : new = [o EXCEPT !.status = "ingested", !.source = TRUE]
      OBVIOUS
    <3>2. new \in CaptureRow /\ new.key = o.key /\ new.source
      BY <3>1 DEF CaptureRow, Statuses
    <3>3. inbox' = [inbox EXCEPT ![i] = new]
      BY <2>1, <2>2, <2>6, <3>1 DEF SaveIngested
    <3>4. QED
      BY <1>10, <2>2, <2>3, <2>4, <2>6, <3>2, <3>3
  <2>7. CASE SaveDiscarded(t) /\ triage[t].seen # "discarded"
    <3>1. PICK new : new = [o EXCEPT !.status = "discarded"]
      OBVIOUS
    <3>2. new \in CaptureRow /\ new.key = o.key /\ new.source = o.source /\ new.status = "discarded"
      BY <3>1 DEF CaptureRow, Statuses
    <3>3. inbox' = [inbox EXCEPT ![i] = new]
      BY <2>1, <2>2, <2>7, <3>1 DEF SaveDiscarded
    <3>4. QED
      BY <1>3, <1>10, <2>2, <2>3, <2>4, <3>2, <3>3
  <2>8. QED
    BY <1>11, <2>1, <2>2, <2>5, <2>6, <2>7 DEF SaveIngested, SaveDiscarded
<1>12. ASSUME NEW k \in Keys, DeleteSource(k)
       PROVE  /\ UNCHANGED <<inbox, triage>> /\ kept' \subseteq Keys
              /\ \A i \in DOMAIN inbox : inbox[i].source => inbox[i].key \in kept'
  BY <1>2, <1>3, <1>12 DEF DeleteSource
<1>13. QED
  BY <1>2, <1>3, <1>6, <1>7, <1>8, <1>11, <1>12 DEF TriageNext

(* The invariant of the inbox holds always. *)
LEMMA InboxAlways == FeedsSpec => []InboxInv
<1>1. FeedsInit => InboxInv
  <2> SUFFICES ASSUME CaptureInit
               PROVE  InboxInv
    BY DEF FeedsInit
  <2>1. Untouched \in Triaging /\ Untouched.pc = "idle"
    BY DEF Untouched, Triaging
  <2>2. InboxTyped
    <3>1. inbox \in Seq(CaptureRow) /\ published \in Seq(Keys)
      BY DEF CaptureInit
    <3>2. /\ feed \in [there : BOOLEAN, on : BOOLEAN, polled : Nat]
          /\ adapter \in [there : BOOLEAN, on : BOOLEAN, polled : 0 .. Day]
          /\ visited \in [Keys -> Nat] /\ clock \in 1 .. Day
      BY CaptureAssumption DEF CaptureInit, Absent
    <3>3. writer \in [Writers -> Capturing] /\ \A w \in Writers : IsFiniteSet(writer[w].new)
      BY FreeFacts DEF CaptureInit
    <3>4. triage \in [Triages -> Triaging]
      BY <2>1 DEF CaptureInit
    <3>5. QED
      BY <3>1, <3>2, <3>3, <3>4 DEF CaptureInit, InboxTyped
  <2>3. DOMAIN inbox = {} /\ Captured = {}
    BY DEF CaptureInit, Captured
  <2>4. \A w \in Writers : writer[w] = Free
    BY DEF CaptureInit
  <2>5. OnceInv
    BY <2>3, <2>4, FreeFacts DEF OnceInv, CapturedOnce, NewOnce
  <2>6. FeedInv
    BY <2>4, FreeFacts DEF FeedInv, FeedCaught, CaptureInit
  <2>7. VisitInv
    BY <2>4, FreeFacts DEF VisitInv, VisitsKept, CaptureInit, Absent
  <2>8. RowInv
    BY <2>1, <2>3 DEF RowInv, IngestedHasSource, CaptureInit
  <2>9. QED
    BY <2>2, <2>5, <2>6, <2>7, <2>8 DEF InboxInv
<1>2. InboxInv /\ [FeedsNext]_feedsVars => InboxInv'
  <2> SUFFICES ASSUME InboxInv, [FeedsNext]_feedsVars
               PROVE  InboxInv'
    OBVIOUS
  <2>1. CASE CapturePart
    <3>1. CASE WriterNext
      BY <3>1, BeginsInv, ExamineInv, CommitInv, EndInv DEF WriterNext
    <3>2. CASE FeedNext
      BY <3>2, BeginsInv, CommitInv, WorldInv DEF FeedNext, WorldStep
    <3>3. CASE HistoryNext
      BY <3>3, BeginsInv, EndInv, WorldInv DEF HistoryNext, WorldStep
    <3>4. CASE TriageNext
      BY <3>4, TriageInv
    <3>5. QED
      BY <2>1, <3>1, <3>2, <3>3, <3>4 DEF CapturePart
  <2>2. CASE UNCHANGED captureVars
    <3>1. UNCHANGED Captured
      BY <2>2 DEF Captured, captureVars
    <3>2. InboxTyped'
      BY <2>2 DEF InboxInv, InboxTyped, captureVars
    <3>3. OnceInv'
      BY <2>2, <3>1 DEF InboxInv, OnceInv, CapturedOnce, NewOnce, captureVars
    <3>4. FeedInv' /\ VisitInv'
      BY <2>2, <3>1 DEF InboxInv, FeedInv, FeedCaught, VisitInv, VisitsKept, Pending, captureVars
    <3>5. RowInv'
      BY <2>2 DEF InboxInv, RowInv, IngestedHasSource, captureVars
    <3>6. QED
      BY <3>2, <3>3, <3>4, <3>5 DEF InboxInv
  <2>3. QED
    BY <2>1, <2>2 DEF FeedsNext, feedsVars
<1>3. QED
  BY <1>1, <1>2, PTL DEF FeedsSpec

(* services/capture.py, services/ambient.py, services/rss.py: where local time *)
(* is UTC (Skew = 0), an item met by notes, feeds and the history is in the    *)
(* inbox once unless two writers crossed over it, what a successful poll       *)
(* listed or a poll of the history could read is there, and what counts as     *)
(* ingested has its source.                                                    *)
THEOREM InboxAlwaysSound == ASSUME Skew = 0 PROVE FeedsSpec => []InboxSound
<1>1. InboxInv => InboxSound
  <2> SUFFICES ASSUME InboxInv
               PROVE  CaptureTypeOK /\ CapturedOnce /\ FeedCaught /\ VisitsKept /\ IngestedHasSource
    BY DEF InboxSound
  <2>1. CaptureTypeOK
    <3>1. \A i \in DOMAIN inbox : inbox[i].key \in Keys /\ inbox[i].status \in {"captured", "ingested", "discarded"}
      <4>1. \A i \in DOMAIN inbox : inbox[i] \in CaptureRow
        BY DEF InboxInv, InboxTyped
      <4>2. QED
        BY <4>1 DEF CaptureRow, Statuses
    <3>2. \A w \in Writers : writer[w].todo \cup writer[w].new \subseteq Keys
      BY DEF InboxInv, InboxTyped, Capturing
    <3>3. feed.on \in BOOLEAN /\ adapter.polled \in 0 .. Day
      BY DEF InboxInv, InboxTyped
    <3>4. listed \cup crossed \cup excused \cup kept \subseteq Keys
      BY DEF InboxInv, InboxTyped
    <3>5. QED
      BY <3>1, <3>2, <3>3, <3>4 DEF CaptureTypeOK
  <2>2. QED
    BY <2>1 DEF InboxInv, OnceInv, FeedInv, VisitInv, RowInv
<1>2. QED
  BY <1>1, InboxAlways, PTL

-----------------------------------------------------------------------------
(* Events *)

SocketRow == [at : Replicas \cup {"nowhere", "gone"}, up : BOOLEAN, reg : BOOLEAN]
Walking == [on : {TRUE}, at : Replicas, event : EventIds, size : {Cardinality(x) : x \in SUBSET Sockets},
            base : SUBSET Sockets, sent : SUBSET Sockets, dead : SUBSET Sockets]

EventTyped ==
    /\ redis \in {"absent", "up", "down"}
    /\ listener \in [Replicas -> {"none", "starting", "live", "dead"}]
    /\ sock \in [Sockets -> SocketRow] /\ queue \in [Replicas -> Seq(EventIds)]
    /\ relay \in [Tasks -> Walking \cup {Still}]
    /\ emitted \in 0 .. MaxEvents /\ got \in [Sockets -> Seq(EventIds)]
    /\ owed \in [EventIds -> SUBSET Sockets]
    /\ sure \subseteq 1 .. emitted /\ unsure \subseteq 1 .. emitted
    /\ \A s \in Sockets : sock[s].reg => sock[s].at \in Replicas

(* A replica's queue holds, in the order they were published, events that    *)
(* Redis took, and nothing once its listener is gone.                        *)
QueueOK(a) ==
    /\ queue[a] # <<>> => listener[a] = "live"
    /\ \A i \in DOMAIN queue[a] : queue[a][i] \in sure \cup unsure
    /\ \A i, j \in DOMAIN queue[a] : i < j => queue[a][i] < queue[a][j]

(* A listener relays what came before all of its queue, an emitter what      *)
(* Redis did not take for sure.                                              *)
RelayOK(t) ==
    relay[t].on =>
        /\ relay[t].event <= emitted
        /\ t \in Replicas => /\ relay[t].at = t /\ relay[t].event \in sure \cup unsure
                             /\ \A i \in DOMAIN queue[t] : relay[t].event < queue[t][i]
        /\ t \in Emitters => relay[t].event \notin sure

SoleRelay ==
    \A t, k \in Emitters : relay[t].on /\ relay[k].on /\ relay[t].event = relay[k].event => t = k

(* What socket s has got of event e is behind all that is still to come from *)
(* Redis to its replica, and no relay will send it again.                    *)
GotPast(s, e) ==
    /\ e <= emitted /\ sock[s].at # "nowhere"
    /\ e \in sure /\ sock[s].at \in Replicas =>
          /\ \A j \in DOMAIN queue[sock[s].at] : e < queue[sock[s].at][j]
          /\ relay[sock[s].at].on => \/ e < relay[sock[s].at].event
                                     \/ e = relay[sock[s].at].event /\ s \in relay[sock[s].at].sent
    /\ e \notin sure \cup unsure =>
          \A t \in Emitters : relay[t].on /\ relay[t].event = e => s \in relay[t].sent

GotOK == \A s \in Sockets : \A i \in DOMAIN got[s] : GotPast(s, got[s][i])

(* What is owed to a socket is in the queue of its replica or in a relay     *)
(* that has not sent to it yet.                                              *)
Carries(t, e, s) ==
    relay[t].on /\ relay[t].at = sock[s].at /\ relay[t].event = e
        /\ s \in relay[t].base /\ s \notin relay[t].sent

Underway(e, s) ==
    /\ sock[s].up /\ sock[s].reg /\ sock[s].at \in Replicas
    /\ (\E i \in DOMAIN queue[sock[s].at] : queue[sock[s].at][i] = e) \/ \E t \in Tasks : Carries(t, e, s)

OwedOK == \A e \in EventIds : \A s \in owed[e] : Underway(e, s)

EventInv ==
    /\ EventTyped /\ (\A a \in Replicas : QueueOK(a)) /\ (\A t \in Tasks : RelayOK(t))
    /\ SoleRelay /\ GotOK /\ OwedOK /\ NoDoubles /\ InOrder

(* A relay that is on is in the midst of a walk. *)
LEMMA WalkTyped ==
  ASSUME EventTyped, NEW t \in Tasks
  PROVE  relay[t] \in Walking \cup {Still} /\ (relay[t].on => relay[t] \in Walking) /\ relay[t].on \in BOOLEAN
<1>1. relay[t] \in Walking \cup {Still}
  BY DEF EventTyped
<1>2. CASE relay[t] \in Walking
  <2>1. relay[t].on = TRUE
    BY <1>2 DEF Walking
  <2> QED
    BY <1>2, <2>1
<1>3. CASE relay[t] = Still
  BY <1>3 DEF Still
<1> QED
  BY <1>1, <1>2, <1>3

(* What a walk begins with. *)
LEMMA WalkBegins ==
  ASSUME EventTyped, NEW a \in Replicas, NEW e \in EventIds
  PROVE  /\ Walk(a, e) \in Walking \cup {Still}
         /\ Walk(a, e).on => /\ Walk(a, e).at = a /\ Walk(a, e).event = e
                             /\ Walk(a, e).base = Reg(a) /\ Walk(a, e).sent = {}
         /\ Reg(a) # {} => Walk(a, e).on
<1>1. Reg(a) \in SUBSET Sockets
  BY DEF Reg
<1>2. CASE Reg(a) = {}
  BY <1>2 DEF Walk, Still
<1>3. CASE Reg(a) # {}
  BY <1>1, <1>3 DEF Walk, Walking
<1> QED
  BY <1>2, <1>3

(* Nothing is under way at first. *)
LEMMA InitEvents == EventsInit => EventInv
<1> SUFFICES ASSUME EventsInit
             PROVE  EventInv
  OBVIOUS
<1>1. EventTyped
  <2>1. <<>> \in Seq(EventIds) /\ 0 \in 0 .. MaxEvents
    BY EventsAssumption
  <2>2. sock \in [Sockets -> SocketRow] /\ \A s \in Sockets : ~sock[s].reg
    BY DEF EventsInit, Off, SocketRow
  <2>3. relay \in [Tasks -> Walking \cup {Still}]
    BY DEF EventsInit
  <2> QED
    BY <2>1, <2>2, <2>3 DEF EventTyped, EventsInit
<1>2. /\ \A a \in Replicas : queue[a] = <<>>
      /\ \A t \in Tasks : ~relay[t].on
      /\ \A s \in Sockets : got[s] = <<>>
      /\ \A e \in EventIds : owed[e] = {}
  BY DEF EventsInit, Still
<1>3. (\A a \in Replicas : QueueOK(a)) /\ (\A t \in Tasks : RelayOK(t)) /\ SoleRelay
  BY <1>2 DEF QueueOK, RelayOK, SoleRelay, Tasks
<1>4. GotOK /\ OwedOK /\ NoDoubles /\ InOrder
  BY <1>2 DEF GotOK, OwedOK, NoDoubles, InOrder
<1> QED
  BY <1>1, <1>3, <1>4 DEF EventInv

(* Steps after which nothing that was sent can come again: queues get later  *)
(* events only, and a walk goes on, or begins with a later event.            *)
Onward ==
    /\ emitted' \in Nat /\ emitted <= emitted' /\ queue' \in [Replicas -> Seq(EventIds)]
    /\ \A s \in Sockets : sock[s].at = "nowhere" \/ sock'[s].at = sock[s].at \/ sock'[s].at = "gone"
    /\ \A e \in 1 .. emitted : (e \in sure' <=> e \in sure) /\ (e \in unsure' <=> e \in unsure)
    /\ \A a \in Replicas : \A j \in DOMAIN queue'[a] :
          queue'[a][j] > emitted \/ \E i \in DOMAIN queue[a] : queue'[a][j] = queue[a][i]
    /\ \A a \in Replicas : relay'[a].on =>
          \/ \E i \in DOMAIN queue[a] : relay'[a].event = queue[a][i]
          \/ relay[a].on /\ relay'[a].event = relay[a].event /\ relay[a].sent \subseteq relay'[a].sent
    /\ \A t \in Emitters : relay'[t].on =>
          \/ relay'[t].event > emitted
          \/ relay[t].on /\ relay'[t].event = relay[t].event /\ relay[t].sent \subseteq relay'[t].sent

(* What a socket has got stays behind what is to come. *)
LEMMA PastStays ==
  ASSUME EventTyped, Onward, NEW s \in Sockets, NEW e \in EventIds, GotPast(s, e)
  PROVE  GotPast(s, e)'
<1>1. e \in Nat /\ emitted \in Nat /\ emitted' \in Nat /\ e <= emitted' /\ e \in 1 .. emitted
  BY EventsAssumption DEF EventTyped, Onward, GotPast, EventIds
<1>2. sock'[s].at = sock[s].at \/ sock'[s].at = "gone"
  BY DEF Onward, GotPast
<1>3. sock'[s].at # "nowhere"
  BY <1>2 DEF GotPast
<1>4. (e \in sure' <=> e \in sure) /\ (e \in unsure' <=> e \in unsure)
  BY <1>1 DEF Onward
<1>5. ASSUME e \in sure', sock'[s].at \in Replicas
      PROVE  /\ \A j \in DOMAIN queue'[sock'[s].at] : e < queue'[sock'[s].at][j]
             /\ relay'[sock'[s].at].on => \/ e < relay'[sock'[s].at].event
                                          \/ e = relay'[sock'[s].at].event /\ s \in relay'[sock'[s].at].sent
  <2>1. PICK a \in Replicas : a = sock[s].at /\ a = sock'[s].at
    BY <1>2, <1>5, EventsAssumption
  <2>2. /\ \A j \in DOMAIN queue[a] : e < queue[a][j]
        /\ relay[a].on => e < relay[a].event \/ (e = relay[a].event /\ s \in relay[a].sent)
    BY <1>4, <1>5, <2>1 DEF GotPast
  <2>3. \A j \in DOMAIN queue'[a] : e < queue'[a][j]
    <3> SUFFICES ASSUME NEW j \in DOMAIN queue'[a] PROVE e < queue'[a][j]
      OBVIOUS
    <3>1. queue'[a][j] > emitted \/ \E i \in DOMAIN queue[a] : queue'[a][j] = queue[a][i]
      BY DEF Onward
    <3>2. CASE queue'[a][j] > emitted
      <4>1. queue'[a][j] \in EventIds
        BY DEF Onward
      <4> QED
        BY <1>1, <3>2, <4>1 DEF EventIds
    <3>3. CASE \E i \in DOMAIN queue[a] : queue'[a][j] = queue[a][i]
      BY <2>2, <3>3
    <3> QED
      BY <3>1, <3>2, <3>3
  <2>4. relay'[a].on => e < relay'[a].event \/ (e = relay'[a].event /\ s \in relay'[a].sent)
    BY <2>2 DEF Onward
  <2> QED
    BY <2>1, <2>3, <2>4
<1>6. ASSUME e \notin sure' \cup unsure', NEW t \in Emitters, relay'[t].on, relay'[t].event = e
      PROVE  s \in relay'[t].sent
  <2>1. ~(e > emitted)
    BY <1>1
  <2>2. relay[t].on /\ relay[t].event = e /\ relay[t].sent \subseteq relay'[t].sent
    BY <1>6, <2>1 DEF Onward
  <2> QED
    BY <1>4, <1>6, <2>2 DEF GotPast
<1> QED
  BY <1>1, <1>3, <1>5, <1>6 DEF GotPast

(* While no socket gets anything, what they have got stays in order. *)
LEMMA GotFrame ==
  ASSUME EventInv, Onward, UNCHANGED got
  PROVE  GotOK' /\ NoDoubles' /\ InOrder'
<1>1. ASSUME NEW s \in Sockets, NEW i \in DOMAIN got[s]
      PROVE  got[s][i] \in EventIds /\ GotPast(s, got[s][i]) /\ got[s][i] \in 1 .. emitted
  <2>1. got[s][i] \in EventIds /\ GotPast(s, got[s][i])
    BY DEF EventInv, EventTyped, GotOK
  <2> QED
    BY <2>1, EventsAssumption DEF GotPast, EventIds, EventInv, EventTyped
<1>2. GotOK'
  <2> SUFFICES ASSUME NEW s \in Sockets, NEW i \in DOMAIN got[s] PROVE GotPast(s, got[s][i])'
    BY DEF GotOK
  <2>1. PICK e \in EventIds : e = got[s][i] /\ GotPast(s, e)
    BY <1>1
  <2>2. GotPast(s, e)'
    BY <2>1, PastStays DEF EventInv
  <2> QED
    BY <2>1, <2>2 DEF GotPast
<1>3. NoDoubles'
  BY <1>1 DEF EventInv, NoDoubles, Onward
<1>4. InOrder'
  BY <1>1 DEF EventInv, InOrder, Onward
<1> QED
  BY <1>2, <1>3, <1>4

(* Steps that touch neither queues nor relays. *)
LEMMA EventFrame ==
  ASSUME EventInv, EventTyped', UNCHANGED <<queue, relay, emitted, got, sure, unsure>>,
         \A s \in Sockets : sock[s].at = "nowhere" \/ sock'[s].at = sock[s].at \/ sock'[s].at = "gone",
         \A a \in Replicas : queue[a] # <<>> => listener'[a] = "live",
         \A e \in EventIds : \A s \in owed'[e] : s \in owed[e] /\ sock'[s] = sock[s]
  PROVE  EventInv'
<1>1. Onward
  <2>1. emitted \in Nat
    BY EventsAssumption DEF EventInv, EventTyped
  <2> QED
    BY <2>1 DEF Onward, EventInv, EventTyped
<1>2. GotOK' /\ NoDoubles' /\ InOrder'
  BY <1>1, GotFrame
<1>3. (\A a \in Replicas : QueueOK(a)') /\ (\A t \in Tasks : RelayOK(t)') /\ SoleRelay'
  BY DEF EventInv, QueueOK, RelayOK, SoleRelay
<1>4. OwedOK'
  <2> SUFFICES ASSUME NEW e \in EventIds, NEW s \in owed'[e] PROVE Underway(e, s)'
    BY DEF OwedOK
  <2>1. s \in owed[e] /\ sock'[s] = sock[s] /\ Underway(e, s)
    BY DEF EventInv, OwedOK
  <2> QED
    BY <2>1 DEF Underway, Carries
<1> QED
  BY <1>2, <1>3, <1>4 DEF EventInv

(* A listener subscribes, or fails to. *)
LEMMA SubscribeKeeps ==
  ASSUME EventInv, NEW a \in Replicas, Subscribe(a)
  PROVE  EventInv'
<1>1. listener \in [Replicas -> {"none", "starting", "live", "dead"}] /\ listener[a] = "starting"
      /\ UNCHANGED <<redis, sock, queue, relay, emitted, got, owed, sure, unsure>>
  BY DEF EventInv, EventTyped, Subscribe
<1>2. PICK k \in {"live", "dead"} : listener' = [listener EXCEPT ![a] = k]
  BY DEF Subscribe
<1>3. EventTyped'
  BY <1>1, <1>2 DEF EventInv, EventTyped
<1>4. \A b \in Replicas : queue[b] # <<>> => listener'[b] = "live"
  BY <1>1, <1>2 DEF EventInv, QueueOK
<1> QED
  BY <1>1, <1>3, <1>4, EventFrame

(* Redis is back. *)
LEMMA RedisReturnsKeeps ==
  ASSUME EventInv, RedisReturns
  PROVE  EventInv'
<1>1. redis' = "up" /\ UNCHANGED <<listener, sock, queue, relay, emitted, got, owed, sure, unsure>>
  BY DEF RedisReturns
<1>2. EventTyped'
  BY <1>1 DEF EventInv, EventTyped
<1>3. \A b \in Replicas : queue[b] # <<>> => listener'[b] = "live"
  BY <1>1 DEF EventInv, QueueOK
<1> QED
  BY <1>1, <1>2, <1>3, EventFrame

(* A socket comes, breaks or leaves, and is owed nothing after that. *)
LEMMA SocketKeeps ==
  ASSUME EventInv, NEW s \in Sockets, NEW row \in SocketRow, sock' = [sock EXCEPT ![s] = row],
         row.reg => row.at \in Replicas, sock[s].at = "nowhere" \/ row.at = sock[s].at \/ row.at = "gone",
         (owed' = owed /\ ~sock[s].reg) \/ owed' = Forgiven({s}),
         UNCHANGED <<redis, listener, queue, relay, emitted, got, sure, unsure>>
  PROVE  EventInv'
<1>1. sock \in [Sockets -> SocketRow] /\ owed \in [EventIds -> SUBSET Sockets]
  BY DEF EventInv, EventTyped
<1>2. sock' \in [Sockets -> SocketRow] /\ sock'[s] = row /\ \A k \in Sockets \ {s} : sock'[k] = sock[k]
  BY <1>1
<1>3. ASSUME NEW e \in EventIds, NEW k \in owed'[e] PROVE k \in owed[e] /\ k # s /\ k \in Sockets
  <2>1. CASE owed' = owed /\ ~sock[s].reg
    BY <1>1, <2>1 DEF EventInv, OwedOK, Underway
  <2>2. CASE owed' = Forgiven({s})
    BY <1>1, <2>2 DEF Forgiven
  <2> QED
    BY <2>1, <2>2
<1>4. owed' \in [EventIds -> SUBSET Sockets]
  BY <1>1 DEF Forgiven
<1>5. EventTyped'
  BY <1>2, <1>4 DEF EventInv, EventTyped
<1>6. \A b \in Replicas : queue[b] # <<>> => listener'[b] = "live"
  BY DEF EventInv, QueueOK
<1>7. \A k \in Sockets : sock[k].at = "nowhere" \/ sock'[k].at = sock[k].at \/ sock'[k].at = "gone"
  BY <1>2
<1>8. \A e \in EventIds : \A k \in owed'[e] : k \in owed[e] /\ sock'[k] = sock[k]
  BY <1>2, <1>3
<1> QED
  BY <1>5, <1>6, <1>7, <1>8, EventFrame

(* connect, a broken connection and disconnect do so. *)
LEMMA SocketsKeep ==
  ASSUME EventInv, NEW s \in Sockets,
         Break(s) \/ disconnect(s) \/ \E a \in Replicas : connect(s, a)
  PROVE  EventInv'
<1>0. sock \in [Sockets -> SocketRow] /\ (sock[s].reg => sock[s].at \in Replicas)
  BY DEF EventInv, EventTyped
<1>1. CASE Break(s)
  <2>1. PICK row : row = [sock[s] EXCEPT !.up = FALSE]
    OBVIOUS
  <2>2. row \in SocketRow /\ row.at = sock[s].at /\ row.reg = sock[s].reg
    BY <1>0, <2>1 DEF SocketRow
  <2>3. sock' = [sock EXCEPT ![s] = row] /\ owed' = Forgiven({s})
        /\ UNCHANGED <<redis, listener, queue, relay, emitted, got, sure, unsure>>
    BY <1>1, <2>1 DEF Break
  <2> QED
    BY <1>0, <2>2, <2>3, SocketKeeps
<1>2. CASE disconnect(s)
  <2>1. Gone \in SocketRow /\ Gone.at = "gone" /\ ~Gone.reg
    BY DEF Gone, Off, SocketRow
  <2>2. sock' = [sock EXCEPT ![s] = Gone] /\ owed' = Forgiven({s})
        /\ UNCHANGED <<redis, listener, queue, relay, emitted, got, sure, unsure>>
    BY <1>2 DEF disconnect
  <2> QED
    BY <2>1, <2>2, SocketKeeps
<1>3. CASE \E a \in Replicas : connect(s, a)
  <2>1. PICK a \in Replicas : connect(s, a)
    BY <1>3
  <2>2. PICK row : row = [at |-> a, up |-> TRUE, reg |-> TRUE]
    OBVIOUS
  <2>3. row \in SocketRow /\ row.at = a
    BY <2>2 DEF SocketRow
  <2>4. sock' = [sock EXCEPT ![s] = row] /\ owed' = owed
        /\ UNCHANGED <<redis, listener, queue, relay, emitted, got, sure, unsure>>
    BY <2>1, <2>2 DEF connect
  <2>5. sock[s].at = "nowhere" /\ ~sock[s].reg
    BY <2>1 DEF connect, Off
  <2> QED
    BY <2>3, <2>4, <2>5, SocketKeeps
<1> QED
  BY <1>1, <1>2, <1>3

(* Redis fails: what was in the queues is lost, and owed no more. *)
LEMMA RedisFailsKeeps ==
  ASSUME EventInv, RedisFails
  PROVE  EventInv'
<1>0. /\ redis' = "down" /\ UNCHANGED <<sock, relay, emitted, got, sure, unsure>>
      /\ queue' = [a \in Replicas |-> <<>>] /\ queue \in [Replicas -> Seq(EventIds)]
      /\ owed \in [EventIds -> SUBSET Sockets] /\ emitted \in Nat
  BY EventsAssumption DEF EventInv, EventTyped, RedisFails
<1>1. listener' \in [Replicas -> {"none", "starting", "live", "dead"}]
  BY DEF EventInv, EventTyped, RedisFails
<1>2. ASSUME NEW e \in EventIds, NEW s \in owed'[e]
      PROVE  s \in owed[e] /\ \A a \in Replicas : s \in Reg(a) => \A i \in DOMAIN queue[a] : queue[a][i] # e
  <2>1. owed'[e] = IF \E a \in Replicas : Contains(queue[a], e)
                   THEN owed[e] \ UNION {Reg(a) : a \in {x \in Replicas : Contains(queue[x], e)}} ELSE owed[e]
    BY DEF RedisFails
  <2>2. s \in owed[e]
    BY <2>1
  <2>3. ASSUME NEW a \in Replicas, s \in Reg(a) PROVE ~Contains(queue[a], e)
    BY <1>2, <2>1, <2>3
  <2>4. ASSUME NEW a \in Replicas, NEW i \in DOMAIN queue[a], queue[a][i] = e PROVE Contains(queue[a], e)
    BY <1>0, <2>4 DEF Contains
  <2> QED
    BY <2>2, <2>3, <2>4
<1>3. owed' \in [EventIds -> SUBSET Sockets]
  <2>1. owed' = [e \in EventIds |-> owed'[e]]
    BY DEF RedisFails
  <2>2. \A e \in EventIds : owed'[e] \in SUBSET Sockets
    BY <1>0, <1>2
  <2> QED
    BY <2>1, <2>2
<1>4. queue' \in [Replicas -> Seq(EventIds)] /\ \A a \in Replicas : queue'[a] = <<>>
  BY <1>0
<1>5. EventTyped'
  BY <1>0, <1>1, <1>3, <1>4 DEF EventInv, EventTyped
<1>6. Onward
  BY <1>0, <1>4 DEF Onward
<1>7. GotOK' /\ NoDoubles' /\ InOrder'
  BY <1>0, <1>6, GotFrame
<1>8. (\A a \in Replicas : QueueOK(a)') /\ (\A t \in Tasks : RelayOK(t)') /\ SoleRelay'
  BY <1>0, <1>4 DEF EventInv, QueueOK, RelayOK, SoleRelay
<1>9. OwedOK'
  <2> SUFFICES ASSUME NEW e \in EventIds, NEW s \in owed'[e] PROVE Underway(e, s)'
    BY DEF OwedOK
  <2>1. s \in owed[e] /\ Underway(e, s) /\ s \in Sockets
    BY <1>0, <1>2 DEF EventInv, OwedOK
  <2>2. s \in Reg(sock[s].at) /\ sock[s].at \in Replicas
    BY <2>1 DEF Underway, Reg
  <2>3. \E t \in Tasks : Carries(t, e, s)
    BY <1>2, <2>1, <2>2 DEF Underway
  <2> QED
    BY <1>0, <2>1, <2>3 DEF Underway, Carries
<1> QED
  BY <1>5, <1>7, <1>8, <1>9 DEF EventInv

-----------------------------------------------------------------------------
(* A queue without its first event. *)
LEMMA TailOf ==
  ASSUME NEW S, NEW w \in Seq(S), w # <<>>
  PROVE  /\ Head(w) \in S /\ Head(w) = w[1] /\ 1 \in DOMAIN w /\ Tail(w) \in Seq(S)
         /\ \A i \in DOMAIN Tail(w) : i + 1 \in DOMAIN w /\ Tail(w)[i] = w[i + 1] /\ i \in Nat \ {0}
         /\ \A i \in DOMAIN w : i = 1 \/ (i - 1 \in DOMAIN Tail(w) /\ Tail(w)[i - 1] = w[i])
<1>1. Head(w) \in S /\ Tail(w) \in Seq(S) /\ Len(Tail(w)) = Len(w) - 1 /\ Len(w) \in Nat \ {0} /\ Head(w) = w[1]
  BY HeadTailProperties, EmptySeq
<1>2. DOMAIN w = 1 .. Len(w) /\ DOMAIN Tail(w) = 1 .. (Len(w) - 1)
  BY <1>1
<1>3. \A i \in 1 .. (Len(w) - 1) : Tail(w)[i] = w[i + 1]
  BY <1>1
<1>4. ASSUME NEW i \in DOMAIN w, i # 1 PROVE i - 1 \in DOMAIN Tail(w) /\ Tail(w)[i - 1] = w[i]
  <2>1. i \in Nat /\ i - 1 \in 1 .. (Len(w) - 1) /\ (i - 1) + 1 = i
    BY <1>1, <1>2, <1>4
  <2> QED
    BY <1>2, <1>3, <2>1
<1> QED
  BY <1>1, <1>2, <1>3, <1>4

(* A listener takes its next event. *)
LEMMA RelayKeeps ==
  ASSUME EventInv, NEW a \in Replicas, Relay(a)
  PROVE  EventInv'
<1>0. /\ EventTyped /\ queue \in [Replicas -> Seq(EventIds)] /\ relay \in [Tasks -> Walking \cup {Still}]
      /\ listener[a] = "live" /\ ~relay[a].on /\ queue[a] # <<>> /\ a \in Tasks /\ a \notin Emitters
      /\ UNCHANGED <<redis, listener, sock, emitted, got, owed, sure, unsure>> /\ emitted \in Nat
      /\ sure \subseteq 1 .. emitted /\ unsure \subseteq 1 .. emitted
  BY EventsAssumption DEF EventInv, EventTyped, Relay, Tasks
<1>1. PICK w \in Seq(EventIds) : w = queue[a] /\ w # <<>>
  BY <1>0
<1>2. PICK e \in EventIds : e = Head(w)
  BY <1>1, TailOf
<1>3. PICK new : new = Walk(a, e)
  OBVIOUS
<1>4. /\ new \in Walking \cup {Still} /\ (Reg(a) # {} => new.on)
      /\ new.on => new.at = a /\ new.event = e /\ new.base = Reg(a) /\ new.sent = {}
  BY <1>0, <1>3, WalkBegins
<1>5. /\ relay' = [relay EXCEPT ![a] = new] /\ queue' = [queue EXCEPT ![a] = Tail(w)]
  BY <1>1, <1>2, <1>3 DEF Relay
<1>6. /\ relay' \in [Tasks -> Walking \cup {Still}] /\ relay'[a] = new
      /\ \A t \in Tasks \ {a} : relay'[t] = relay[t]
  BY <1>0, <1>4, <1>5
<1>7. /\ queue' \in [Replicas -> Seq(EventIds)] /\ queue'[a] = Tail(w)
      /\ \A b \in Replicas \ {a} : queue'[b] = queue[b]
  BY <1>0, <1>1, <1>5, TailOf
<1>8. /\ w[1] = e /\ 1 \in DOMAIN w
      /\ \A i \in DOMAIN Tail(w) : i + 1 \in DOMAIN w /\ Tail(w)[i] = w[i + 1] /\ i \in Nat \ {0}
      /\ \A i \in DOMAIN w : i = 1 \/ (i - 1 \in DOMAIN Tail(w) /\ Tail(w)[i - 1] = w[i])
  BY <1>1, <1>2, TailOf
<1>9. /\ \A i \in DOMAIN w : w[i] \in sure \cup unsure
      /\ \A i, j \in DOMAIN w : i < j => w[i] < w[j]
  BY <1>1 DEF EventInv, QueueOK
<1>10. EventTyped'
  BY <1>0, <1>6, <1>7 DEF EventTyped
<1>11. Emitters \subseteq Tasks \ {a} /\ Replicas \subseteq Tasks
  BY <1>0 DEF Tasks
<1>12. Onward
  <2>1. \A b \in Replicas : \A j \in DOMAIN queue'[b] : \E i \in DOMAIN queue[b] : queue'[b][j] = queue[b][i]
    <3>1. \A j \in DOMAIN Tail(w) : j + 1 \in DOMAIN w /\ Tail(w)[j] = w[j + 1]
      BY <1>8
    <3>2. \A j \in DOMAIN queue'[a] : \E i \in DOMAIN queue[a] : queue'[a][j] = queue[a][i]
      BY <1>1, <1>7, <3>1
    <3> QED
      BY <1>7, <3>2
  <2>2. \A b \in Replicas : relay'[b].on =>
          \/ \E i \in DOMAIN queue[b] : relay'[b].event = queue[b][i]
          \/ relay[b].on /\ relay'[b].event = relay[b].event /\ relay[b].sent \subseteq relay'[b].sent
    <3> SUFFICES ASSUME NEW b \in Replicas, relay'[b].on
                 PROVE  \/ \E i \in DOMAIN queue[b] : relay'[b].event = queue[b][i]
                        \/ relay[b].on /\ relay'[b].event = relay[b].event /\ relay[b].sent \subseteq relay'[b].sent
      OBVIOUS
    <3>1. CASE b = a
      BY <1>1, <1>4, <1>6, <1>8, <3>1
    <3>2. CASE b # a
      BY <1>6, <1>11, <3>2
    <3> QED
      BY <3>1, <3>2
  <2>3. \A t \in Emitters : relay'[t] = relay[t]
    BY <1>6, <1>11
  <2> QED
    BY <1>0, <1>7, <2>1, <2>2, <2>3 DEF Onward
<1>13. GotOK' /\ NoDoubles' /\ InOrder'
  BY <1>0, <1>12, GotFrame
<1>14. ASSUME NEW b \in Replicas PROVE QueueOK(b)'
  <2>1. CASE b = a
    <3>1. \A i \in DOMAIN queue'[a] : queue'[a][i] \in sure \cup unsure
      BY <1>7, <1>8, <1>9
    <3>2. ASSUME NEW i \in DOMAIN Tail(w), NEW j \in DOMAIN Tail(w), i < j PROVE Tail(w)[i] < Tail(w)[j]
      <4>1. i + 1 \in DOMAIN w /\ j + 1 \in DOMAIN w /\ i + 1 < j + 1 /\ Tail(w)[i] = w[i + 1] /\ Tail(w)[j] = w[j + 1]
        BY <1>8, <3>2
      <4> QED
        BY <1>9, <4>1
    <3> QED
      BY <1>0, <1>7, <2>1, <3>1, <3>2 DEF QueueOK
  <2>2. CASE b # a
    BY <1>0, <1>7, <2>2 DEF EventInv, QueueOK
  <2> QED
    BY <2>1, <2>2
<1>15. ASSUME NEW t \in Tasks PROVE RelayOK(t)'
  <2>1. CASE t = a
    <3>1. \A i \in DOMAIN Tail(w) : e < Tail(w)[i]
      <4> SUFFICES ASSUME NEW i \in DOMAIN Tail(w) PROVE e < Tail(w)[i]
        OBVIOUS
      <4>1. i + 1 \in DOMAIN w /\ 1 < i + 1 /\ Tail(w)[i] = w[i + 1]
        BY <1>8
      <4> QED
        BY <1>8, <1>9, <4>1
    <3>2. e \in sure \cup unsure /\ e <= emitted
      <4>1. e \in sure \cup unsure
        BY <1>8, <1>9
      <4> QED
        BY <1>0, <4>1
    <3> QED
      BY ZenonT(60), <1>0, <1>4, <1>6, <1>7, <2>1, <3>1, <3>2 DEF RelayOK
  <2>2. CASE t # a
    BY <1>0, <1>6, <1>7, <2>2 DEF EventInv, RelayOK
  <2> QED
    BY <2>1, <2>2
<1>16. SoleRelay'
  BY <1>6, <1>11 DEF EventInv, SoleRelay
<1>17. OwedOK'
  <2> SUFFICES ASSUME NEW x \in EventIds, NEW s \in owed[x] PROVE Underway(x, s)'
    BY <1>0 DEF OwedOK
  <2>1. s \in Sockets /\ Underway(x, s)
    BY <1>0 DEF EventInv, EventTyped, OwedOK
  <2>2. CASE \E t \in Tasks : Carries(t, x, s)
    <3>1. PICK t \in Tasks : Carries(t, x, s)
      BY <2>2
    <3>2. t # a
      BY <1>0, <3>1 DEF Carries
    <3>3. Carries(t, x, s)'
      BY <1>0, <1>6, <3>1, <3>2 DEF Carries
    <3> QED
      BY <1>0, <2>1, <3>3 DEF Underway
  <2>3. CASE \E i \in DOMAIN queue[sock[s].at] : queue[sock[s].at][i] = x
    <3>1. PICK i \in DOMAIN queue[sock[s].at] : queue[sock[s].at][i] = x
      BY <2>3
    <3>2. CASE sock[s].at # a
      BY <1>0, <1>7, <2>1, <3>1, <3>2 DEF Underway
    <3>3. CASE sock[s].at = a /\ i # 1
      <4>1. i - 1 \in DOMAIN queue'[sock[s].at] /\ queue'[sock[s].at][i - 1] = x
        BY <1>1, <1>7, <1>8, <3>1, <3>3
      <4> QED
        BY <1>0, <2>1, <4>1 DEF Underway
    <3>4. CASE sock[s].at = a /\ i = 1
      <4>1. s \in Reg(a) /\ x = e
        BY <1>1, <1>8, <2>1, <3>1, <3>4 DEF Underway, Reg
      <4>2. Carries(a, x, s)'
        BY <1>0, <1>4, <1>6, <3>4, <4>1 DEF Carries
      <4> QED
        BY <1>0, <2>1, <4>2 DEF Underway
    <3> QED
      BY <3>2, <3>3, <3>4
  <2> QED
    BY <2>1, <2>2, <2>3 DEF Underway
<1> QED
  BY <1>10, <1>13, <1>14, <1>15, <1>16, <1>17 DEF EventInv

(* A relay that is over, or raised, leaves the others as they were. *)
LEMMA RelayStops ==
  ASSUME EventInv, NEW t \in Tasks, relay' = [relay EXCEPT ![t] = Still], EventTyped',
         UNCHANGED <<emitted, got, sure, unsure>>,
         \A s \in Sockets : sock'[s].at = sock[s].at,
         \A a \in Replicas : (queue'[a] = queue[a] /\ listener'[a] = listener[a]) \/ queue'[a] = <<>>
  PROVE  /\ \A a \in Replicas : QueueOK(a)'
         /\ \A k \in Tasks : RelayOK(k)'
         /\ SoleRelay' /\ GotOK' /\ NoDoubles' /\ InOrder'
<1>0. relay \in [Tasks -> Walking \cup {Still}] /\ emitted \in Nat /\ queue' \in [Replicas -> Seq(EventIds)]
  BY EventsAssumption DEF EventInv, EventTyped
<1>1. ~relay'[t].on /\ \A k \in Tasks \ {t} : relay'[k] = relay[k]
  BY <1>0 DEF Still
<1>2. \A k \in Tasks : relay'[k].on => relay'[k] = relay[k]
  BY <1>1
<1>3. Replicas \subseteq Tasks /\ Emitters \subseteq Tasks
  BY DEF Tasks
<1>4. \A a \in Replicas : QueueOK(a)'
  BY DEF EventInv, QueueOK
<1>5. \A k \in Tasks : RelayOK(k)'
  BY <1>2 DEF EventInv, RelayOK
<1>6. SoleRelay'
  BY <1>2, <1>3 DEF EventInv, SoleRelay
<1>7. Onward
  <2>1. \A a \in Replicas : \A j \in DOMAIN queue'[a] : \E i \in DOMAIN queue[a] : queue'[a][j] = queue[a][i]
    OBVIOUS
  <2> QED
    BY <1>0, <1>2, <1>3, <2>1 DEF Onward
<1> QED
  BY <1>4, <1>5, <1>6, <1>7, GotFrame

(* A relay is over, and the dead sockets are taken out. *)
LEMMA RelayEndsKeeps ==
  ASSUME EventInv, NEW t \in Tasks, RelayEnds(t)
  PROVE  EventInv'
<1>0. /\ relay \in [Tasks -> Walking \cup {Still}] /\ sock \in [Sockets -> SocketRow] /\ relay[t].on
      /\ relay' = [relay EXCEPT ![t] = Still] /\ owed \in [EventIds -> SUBSET Sockets]
      /\ relay[t].base \cap Reg(relay[t].at) \subseteq relay[t].sent
      /\ UNCHANGED <<redis, listener, queue, emitted, got, sure, unsure>>
  BY DEF EventInv, EventTyped, RelayEnds, Steady
<1>1. /\ sock' = [s \in Sockets |-> IF s \in relay[t].dead THEN [sock[s] EXCEPT !.reg = FALSE] ELSE sock[s]]
      /\ owed' = [e \in EventIds |-> owed[e] \ relay[t].dead]
  BY DEF RelayEnds
<1>2. ASSUME NEW s \in Sockets
      PROVE  /\ sock'[s] \in SocketRow /\ sock'[s].at = sock[s].at /\ (sock'[s].reg => sock[s].reg)
             /\ s \notin relay[t].dead => sock'[s] = sock[s]
  <2>1. CASE s \in relay[t].dead
    <3>1. sock[s] \in SocketRow /\ sock'[s] = [sock[s] EXCEPT !.reg = FALSE]
      BY <1>0, <1>1, <2>1
    <3> QED
      BY <2>1, <3>1 DEF SocketRow
  <2>2. CASE s \notin relay[t].dead
    BY <1>0, <1>1, <2>2
  <2> QED
    BY <2>1, <2>2
<1>3. sock' \in [Sockets -> SocketRow] /\ owed' \in [EventIds -> SUBSET Sockets]
  <2>1. sock' = [s \in Sockets |-> sock'[s]]
    BY <1>1
  <2>2. sock' \in [Sockets -> SocketRow]
    BY <1>2, <2>1
  <2> QED
    BY <1>0, <1>1, <2>2
<1>4. relay' \in [Tasks -> Walking \cup {Still}] /\ \A k \in Tasks \ {t} : relay'[k] = relay[k]
  BY <1>0
<1>5. EventTyped'
  BY <1>0, <1>2, <1>3, <1>4 DEF EventInv, EventTyped
<1>6. OwedOK'
  <2> SUFFICES ASSUME NEW e \in EventIds, NEW s \in owed'[e] PROVE Underway(e, s)'
    BY DEF OwedOK
  <2>1. s \in owed[e] /\ s \notin relay[t].dead /\ s \in Sockets
    BY <1>0, <1>1
  <2>2. sock'[s] = sock[s] /\ Underway(e, s)
    BY <1>2, <2>1 DEF EventInv, OwedOK
  <2>3. CASE \E i \in DOMAIN queue[sock[s].at] : queue[sock[s].at][i] = e
    BY <1>0, <2>2, <2>3 DEF Underway
  <2>4. CASE \E k \in Tasks : Carries(k, e, s)
    <3>1. PICK k \in Tasks : Carries(k, e, s)
      BY <2>4
    <3>2. k # t
      BY <1>0, <2>1, <2>2, <3>1 DEF Carries, Underway, Reg
    <3>3. Carries(k, e, s)'
      BY <1>4, <2>2, <3>1, <3>2 DEF Carries
    <3> QED
      BY <2>2, <3>3 DEF Underway
  <2> QED
    BY <2>2, <2>3, <2>4 DEF Underway
<1> QED
  BY <1>0, <1>2, <1>5, <1>6, RelayStops DEF EventInv

(* A relay raised: its sockets are owed neither its event nor, in a          *)
(* listener, what its queue held.                                            *)
LEMMA RelayRaisesKeeps ==
  ASSUME EventInv, NEW t \in Tasks, RelayRaises(t)
  PROVE  EventInv'
<1>0. /\ relay \in [Tasks -> Walking \cup {Still}] /\ relay[t].on /\ relay[t] \in Walking /\ RelayOK(t)
      /\ relay' = [relay EXCEPT ![t] = Still] /\ owed \in [EventIds -> SUBSET Sockets]
      /\ listener \in [Replicas -> {"none", "starting", "live", "dead"}] /\ queue \in [Replicas -> Seq(EventIds)]
      /\ UNCHANGED <<redis, sock, emitted, got, sure, unsure>>
  BY WalkTyped DEF EventInv, EventTyped, RelayRaises
<1>1. relay' \in [Tasks -> Walking \cup {Still}] /\ \A k \in Tasks \ {t} : relay'[k] = relay[k]
  BY <1>0
<1>2. PICK x \in EventIds, a \in Replicas : x = relay[t].event /\ a = relay[t].at
  BY <1>0 DEF Walking
<1>3. /\ listener' \in [Replicas -> {"none", "starting", "live", "dead"}] /\ queue' \in [Replicas -> Seq(EventIds)]
      /\ \A b \in Replicas : (queue'[b] = queue[b] /\ listener'[b] = listener[b]) \/ (queue'[b] = <<>> /\ b = a)
  <2>1. CASE t \in Replicas
    <3>1. t = a /\ listener' = [listener EXCEPT ![t] = "dead"] /\ queue' = [queue EXCEPT ![t] = <<>>]
      BY <1>0, <1>2, <2>1 DEF RelayRaises, RelayOK
    <3>2. <<>> \in Seq(EventIds)
      OBVIOUS
    <3> QED
      BY <1>0, <3>1, <3>2
  <2>2. CASE t \notin Replicas
    BY <1>0, <2>2 DEF RelayRaises
  <2> QED
    BY <2>1, <2>2
<1>4. /\ owed' \in [EventIds -> SUBSET Sockets]
      /\ \A e \in EventIds : owed'[e] \subseteq owed[e]
      /\ \A s \in owed'[x] : s \notin Reg(a)
      /\ \A e \in EventIds : queue'[a] # queue[a] =>
            \A s \in owed'[e] : s \in Reg(a) => \A i \in DOMAIN queue[a] : queue[a][i] # e
  <2>1. CASE t \in Replicas
    <3>1. t = a /\ owed' = [e \in EventIds |-> IF e = relay[t].event \/ Contains(queue[t], e)
                                          THEN owed[e] \ Reg(t) ELSE owed[e]]
      BY <1>0, <1>2, <2>1 DEF RelayRaises, RelayOK
    <3>2. \A e \in EventIds : owed'[e] = IF e = x \/ Contains(queue[a], e) THEN owed[e] \ Reg(a) ELSE owed[e]
      BY <1>2, <3>1
    <3>3. ASSUME NEW e \in EventIds, NEW i \in DOMAIN queue[a], queue[a][i] = e PROVE Contains(queue[a], e)
      BY <1>0, <3>3 DEF Contains
    <3>4. owed' \in [EventIds -> SUBSET Sockets]
      BY <1>0, <3>1
    <3> QED
      BY <3>2, <3>3, <3>4
  <2>2. CASE t \notin Replicas
    <3>1. owed' = [owed EXCEPT ![x] = owed[x] \ Reg(a)] /\ queue' = queue
      BY <1>0, <1>2, <2>2 DEF RelayRaises
    <3> QED
      BY <1>0, <3>1
  <2> QED
    BY <2>1, <2>2
<1>5. EventTyped'
  BY <1>0, <1>1, <1>3, <1>4 DEF EventInv, EventTyped
<1>6. OwedOK'
  <2> SUFFICES ASSUME NEW e \in EventIds, NEW s \in owed'[e] PROVE Underway(e, s)'
    BY DEF OwedOK
  <2>1. s \in owed[e] /\ s \in Sockets /\ Underway(e, s)
    BY <1>0, <1>4 DEF EventInv, OwedOK
  <2>2. CASE \E i \in DOMAIN queue[sock[s].at] : queue[sock[s].at][i] = e
    <3>1. PICK i \in DOMAIN queue[sock[s].at] : queue[sock[s].at][i] = e
      BY <2>2
    <3>2. sock[s].at = a => s \in Reg(a)
      BY <2>1 DEF Underway, Reg
    <3>3. queue'[sock[s].at] = queue[sock[s].at]
      BY <1>3, <1>4, <2>1, <3>1, <3>2 DEF Underway
    <3> QED
      BY <1>0, <2>1, <3>1, <3>3 DEF Underway
  <2>3. CASE \E k \in Tasks : Carries(k, e, s)
    <3>1. PICK k \in Tasks : Carries(k, e, s)
      BY <2>3
    <3>2. k # t
      BY <1>2, <1>4, <2>1, <3>1 DEF Carries, Underway, Reg
    <3>3. Carries(k, e, s)'
      BY <1>0, <1>1, <3>1, <3>2 DEF Carries
    <3> QED
      BY <1>0, <2>1, <3>3 DEF Underway
  <2> QED
    BY <2>1, <2>2, <2>3 DEF Underway
<1>7. \A b \in Replicas : (queue'[b] = queue[b] /\ listener'[b] = listener[b]) \/ queue'[b] = <<>>
  BY <1>3
<1> QED
  BY <1>0, <1>5, <1>6, <1>7, RelayStops DEF EventInv

-----------------------------------------------------------------------------
(* The queues with one more event where somebody listens. *)
Grown ==
    /\ queue' \in [Replicas -> Seq(EventIds)]
    /\ \A a \in Replicas : \A i \in DOMAIN queue[a] : i \in DOMAIN queue'[a] /\ queue'[a][i] = queue[a][i]
    /\ \A a \in Replicas : \A j \in DOMAIN queue'[a] :
          j \in DOMAIN queue[a] \/ (queue'[a][j] = emitted + 1 /\ j = Len(queue[a]) + 1 /\ listener[a] = "live")

(* That is what publishing does to the queues. *)
LEMMA PassGrows ==
  ASSUME EventInv, emitted < MaxEvents, queue' = Pass(emitted + 1)
  PROVE  Grown /\ \A a \in Listening : \E i \in DOMAIN queue'[a] : queue'[a][i] = emitted + 1
<1>0. queue \in [Replicas -> Seq(EventIds)] /\ emitted + 1 \in EventIds
  BY EventsAssumption DEF EventInv, EventTyped, EventIds
<1>1. ASSUME NEW w \in Seq(EventIds), NEW e \in EventIds
      PROVE  /\ Append(w, e) \in Seq(EventIds) /\ DOMAIN w = 1 .. Len(w) /\ Len(w) \in Nat
             /\ DOMAIN Append(w, e) = 1 .. (Len(w) + 1) /\ Append(w, e)[Len(w) + 1] = e
             /\ \A i \in 1 .. Len(w) : Append(w, e)[i] = w[i]
  BY AppendProperties
<1>2. ASSUME NEW a \in Replicas
      PROVE  /\ queue'[a] \in Seq(EventIds)
             /\ \A i \in DOMAIN queue[a] : i \in DOMAIN queue'[a] /\ queue'[a][i] = queue[a][i]
             /\ \A j \in DOMAIN queue'[a] :
                   j \in DOMAIN queue[a] \/ (queue'[a][j] = emitted + 1 /\ j = Len(queue[a]) + 1 /\ listener[a] = "live")
             /\ a \in Listening => \E i \in DOMAIN queue'[a] : queue'[a][i] = emitted + 1
  <2>1. CASE a \notin Listening
    BY <1>0, <2>1 DEF Pass
  <2>2. CASE a \in Listening
    <3>1. PICK w \in Seq(EventIds), e \in EventIds : w = queue[a] /\ e = emitted + 1
      BY <1>0
    <3>2. queue'[a] = Append(w, e) /\ listener[a] = "live"
      BY <2>2, <3>1 DEF Pass, Listening
    <3>3. /\ Append(w, e) \in Seq(EventIds) /\ DOMAIN w = 1 .. Len(w) /\ Len(w) \in Nat
          /\ DOMAIN Append(w, e) = 1 .. (Len(w) + 1) /\ Append(w, e)[Len(w) + 1] = e
          /\ \A i \in 1 .. Len(w) : Append(w, e)[i] = w[i]
      BY <1>1
    <3>4. \A j \in 1 .. (Len(w) + 1) : j \in 1 .. Len(w) \/ j = Len(w) + 1
      BY <3>3
    <3>5. \A i \in 1 .. Len(w) : i \in 1 .. (Len(w) + 1)
      BY <3>3
    <3> QED
      BY SMTT(40), <3>1, <3>2, <3>3, <3>4, <3>5
  <2> QED
    BY <2>1, <2>2
<1>3. queue' = [a \in Replicas |-> queue'[a]]
  BY DEF Pass
<1> QED
  BY <1>2, <1>3 DEF Grown, Listening

(* A new event is later than all that is under way. *)
LEMMA EmitMoves ==
  ASSUME EventInv, Grown, emitted < MaxEvents, emitted' = emitted + 1, NEW n \in Emitters, ~relay[n].on,
         NEW new \in Walking \cup {Still}, relay' = [relay EXCEPT ![n] = new],
         new.on => new.event = emitted + 1 /\ emitted + 1 \notin sure' /\ new.sent = {},
         sure \subseteq sure', unsure \subseteq unsure',
         sure' \subseteq sure \cup {emitted + 1}, unsure' \subseteq unsure \cup {emitted + 1},
         emitted + 1 \in sure' \cup unsure' \/ queue' = queue, UNCHANGED <<redis, listener, sock, got>>,
         owed' \in [EventIds -> SUBSET Sockets]
  PROVE  /\ EventTyped' /\ (\A a \in Replicas : QueueOK(a)')
         /\ \A k \in Tasks : RelayOK(k)'
         /\ SoleRelay' /\ GotOK' /\ NoDoubles' /\ InOrder'
<1>0. /\ relay \in [Tasks -> Walking \cup {Still}] /\ emitted \in Nat /\ emitted + 1 \in 1 .. MaxEvents
      /\ sure \subseteq 1 .. emitted /\ unsure \subseteq 1 .. emitted /\ queue \in [Replicas -> Seq(EventIds)]
      /\ n \in Tasks /\ n \notin Replicas
  BY EventsAssumption DEF EventInv, EventTyped, Tasks
<1>1. relay' \in [Tasks -> Walking \cup {Still}] /\ relay'[n] = new /\ \A k \in Tasks \ {n} : relay'[k] = relay[k]
  BY <1>0
<1>2. /\ sure' \subseteq 1 .. (emitted + 1) /\ unsure' \subseteq 1 .. (emitted + 1)
      /\ \A e \in 1 .. emitted : (e \in sure' <=> e \in sure) /\ (e \in unsure' <=> e \in unsure)
  <2>1. 1 .. emitted \subseteq 1 .. (emitted + 1) /\ emitted + 1 \in 1 .. (emitted + 1) /\ emitted + 1 \notin 1 .. emitted
    BY <1>0
  <2>2. sure' \subseteq 1 .. (emitted + 1) /\ unsure' \subseteq 1 .. (emitted + 1)
    BY <1>0, <2>1
  <2>3. \A e \in 1 .. emitted : e # emitted + 1
    BY <2>1
  <2> QED
    BY <2>2, <2>3
<1>3. EventTyped'
  BY <1>0, <1>1, <1>2 DEF EventInv, EventTyped, Grown
<1>4. ASSUME NEW a \in Replicas PROVE QueueOK(a)'
  <2>1. CASE queue'[a] = queue[a]
    BY <2>1 DEF EventInv, QueueOK
  <2>2. CASE queue'[a] # queue[a]
    <3>1. emitted + 1 \in sure' \cup unsure'
      BY <2>2
    <3>2. \A i \in DOMAIN queue[a] : queue[a][i] \in sure \cup unsure /\ queue[a][i] < emitted + 1
      <4>1. \A i \in DOMAIN queue[a] : queue[a][i] \in sure \cup unsure
        BY DEF EventInv, QueueOK
      <4>2. \A e \in sure \cup unsure : e < emitted + 1
        BY <1>0
      <4> QED
        BY <4>1, <4>2
    <3>3. DOMAIN queue[a] = 1 .. Len(queue[a]) /\ Len(queue[a]) \in Nat
      BY <1>0
    <3>4. \A i, j \in DOMAIN queue'[a] : i < j => queue'[a][i] < queue'[a][j]
      <4> SUFFICES ASSUME NEW i \in DOMAIN queue'[a], NEW j \in DOMAIN queue'[a], i < j
                   PROVE  queue'[a][i] < queue'[a][j]
        OBVIOUS
      <4>1. CASE j \in DOMAIN queue[a]
        <5>1. i \in DOMAIN queue[a]
          <6>1. i \in DOMAIN queue[a] \/ i = Len(queue[a]) + 1
            BY DEF Grown
          <6> QED
            BY <3>3, <4>1, <6>1
        <5> QED
          BY <4>1, <5>1 DEF EventInv, QueueOK, Grown
      <4>2. CASE j \notin DOMAIN queue[a]
        <5>1. queue'[a][j] = emitted + 1 /\ j = Len(queue[a]) + 1
          BY <4>2 DEF Grown
        <5>2. i \in DOMAIN queue[a]
          <6>1. i \in DOMAIN queue[a] \/ i = Len(queue[a]) + 1
            BY DEF Grown
          <6> QED
            BY <3>3, <5>1, <6>1
        <5>3. queue'[a][i] = queue[a][i]
          BY <5>2 DEF Grown
        <5> QED
          BY <3>2, <5>1, <5>2, <5>3
      <4> QED
        BY <4>1, <4>2
    <3>5. \A i \in DOMAIN queue'[a] : queue'[a][i] \in sure' \cup unsure'
      BY <3>1, <3>2 DEF Grown
    <3>6. queue'[a] # <<>> => listener[a] = "live"
      <4>1. CASE queue[a] # <<>>
        BY <4>1 DEF EventInv, QueueOK
      <4>2. CASE queue[a] = <<>>
        <5> SUFFICES ASSUME queue'[a] # <<>> PROVE listener[a] = "live"
          OBVIOUS
        <5>1. 1 \in DOMAIN queue'[a]
          BY EmptySeq DEF Grown
        <5>2. DOMAIN queue[a] = {}
          BY <4>2
        <5> QED
          BY <5>1, <5>2 DEF Grown
      <4> QED
        BY <4>1, <4>2
    <3> QED
      BY <3>4, <3>5, <3>6 DEF QueueOK
  <2> QED
    BY <2>1, <2>2
<1>5. \A k \in Tasks : relay[k].on => relay[k].event \in 1 .. emitted
  <2> SUFFICES ASSUME NEW k \in Tasks, relay[k].on PROVE relay[k].event \in 1 .. emitted
    OBVIOUS
  <2>1. relay[k] \in Walking
    BY WalkTyped DEF EventInv
  <2>2. relay[k].event \in EventIds
    BY <2>1 DEF Walking
  <2>3. relay[k].event <= emitted
    BY DEF EventInv, RelayOK
  <2> QED
    BY <1>0, <2>2, <2>3 DEF EventIds
<1>6. ASSUME NEW k \in Tasks PROVE RelayOK(k)'
  <2>1. CASE k = n
    BY <1>0, <1>1, <2>1 DEF RelayOK
  <2>2. CASE k # n
    <3> SUFFICES ASSUME relay[k].on PROVE RelayOK(k)'
      BY <1>1, <2>2 DEF RelayOK
    <3>1. relay'[k] = relay[k] /\ RelayOK(k) /\ relay[k].event \in 1 .. emitted
      BY <1>1, <1>5, <2>2 DEF EventInv
    <3>2. relay[k].event <= emitted' /\ relay[k].event < emitted + 1
      BY <1>0, <3>1
    <3>3. k \in Emitters => relay[k].event \notin sure'
      BY <1>2, <3>1 DEF RelayOK
    <3>4. k \in Replicas => relay[k].at = k /\ relay[k].event \in sure' \cup unsure'
      BY <3>1 DEF RelayOK
    <3>5. k \in Replicas => \A i \in DOMAIN queue'[k] : relay[k].event < queue'[k][i]
      <4> SUFFICES ASSUME k \in Replicas, NEW i \in DOMAIN queue'[k] PROVE relay[k].event < queue'[k][i]
        OBVIOUS
      <4>1. CASE i \in DOMAIN queue[k]
        BY <3>1, <4>1 DEF RelayOK, Grown
      <4>2. CASE i \notin DOMAIN queue[k]
        BY <3>2, <4>2 DEF Grown
      <4> QED
        BY <4>1, <4>2
    <3> QED
      BY <3>1, <3>2, <3>3, <3>4, <3>5 DEF RelayOK
  <2> QED
    BY <2>1, <2>2
<1>7. SoleRelay'
  <2> SUFFICES ASSUME NEW t \in Emitters, NEW k \in Emitters, relay'[t].on, relay'[k].on,
                      relay'[t].event = relay'[k].event
               PROVE  t = k
    BY DEF SoleRelay
  <2>1. t \in Tasks /\ k \in Tasks
    BY DEF Tasks
  <2>2. emitted + 1 \notin 1 .. emitted
    BY <1>0
  <2>3. CASE t # n /\ k # n
    BY <1>1, <2>1, <2>3 DEF EventInv, SoleRelay
  <2>4. CASE t = n /\ k # n
    BY <1>1, <1>5, <2>1, <2>2, <2>4
  <2>5. CASE t # n /\ k = n
    BY <1>1, <1>5, <2>1, <2>2, <2>5
  <2> QED
    BY <2>3, <2>4, <2>5
<1>8. Onward
  <2>1. \A a \in Replicas : \A j \in DOMAIN queue'[a] :
          queue'[a][j] > emitted \/ \E i \in DOMAIN queue[a] : queue'[a][j] = queue[a][i]
    <3>1. emitted + 1 > emitted
      BY <1>0
    <3> QED
      BY <3>1 DEF Grown
  <2>2. \A a \in Replicas : relay'[a] = relay[a]
    BY <1>0, <1>1 DEF Tasks
  <2>3. \A t \in Emitters : relay'[t].on => relay'[t].event > emitted \/ relay'[t] = relay[t]
    <3>1. emitted + 1 > emitted
      BY <1>0
    <3> QED
      BY <1>1, <3>1 DEF Tasks
  <2>4. emitted' \in Nat /\ emitted <= emitted'
    BY <1>0
  <2> QED
    BY <1>2, <2>1, <2>2, <2>3, <2>4 DEF Onward, Grown
<1> QED
  BY <1>3, <1>4, <1>6, <1>7, <1>8, GotFrame

(* Redis takes an event. *)
LEMMA PublishKeeps ==
  ASSUME EventInv, NEW n \in Emitters, Publish(n)
  PROVE  EventInv'
<1>0. /\ emitted < MaxEvents /\ ~relay[n].on /\ emitted' = emitted + 1 /\ queue' = Pass(emitted + 1)
      /\ owed' = [owed EXCEPT ![emitted + 1] = UNION {Reachable(x) : x \in Listening}]
      /\ sure' = sure \cup {emitted + 1} /\ UNCHANGED <<redis, listener, sock, relay, got, unsure>>
      /\ relay \in [Tasks -> Walking \cup {Still}] /\ owed \in [EventIds -> SUBSET Sockets] /\ n \in Tasks
      /\ emitted + 1 \in EventIds
  BY EventsAssumption DEF Publish, EventInv, EventTyped, Tasks, EventIds
<1>1. Grown /\ \A a \in Listening : \E i \in DOMAIN queue'[a] : queue'[a][i] = emitted + 1
  BY <1>0, PassGrows
<1>2. PICK out \in SUBSET Sockets : out = UNION {Reachable(x) : x \in Listening}
  BY DEF Reachable, Reg
<1>3. owed' \in [EventIds -> SUBSET Sockets] /\ owed'[emitted + 1] = out
      /\ \A e \in EventIds \ {emitted + 1} : owed'[e] = owed[e]
  BY <1>0, <1>2
<1>4. relay[n] \in Walking \cup {Still} /\ relay' = [relay EXCEPT ![n] = relay[n]]
  BY <1>0
<1>5. /\ EventTyped' /\ (\A a \in Replicas : QueueOK(a)') /\ \A k \in Tasks : RelayOK(k)'
      /\ SoleRelay' /\ GotOK' /\ NoDoubles' /\ InOrder'
  BY ZenonT(60), <1>0, <1>1, <1>3, <1>4, EmitMoves
<1>6. OwedOK'
  <2> SUFFICES ASSUME NEW e \in EventIds, NEW s \in owed'[e] PROVE Underway(e, s)'
    BY DEF OwedOK
  <2>1. CASE e = emitted + 1
    <3>1. PICK a \in Listening : s \in Reachable(a)
      BY <1>2, <1>3, <2>1
    <3>2. a \in Replicas /\ sock[s].up /\ sock[s].reg /\ sock[s].at = a
      BY <3>1 DEF Listening, Reachable, Reg
    <3> QED
      BY <1>0, <1>1, <2>1, <3>1, <3>2 DEF Underway
  <2>2. CASE e # emitted + 1
    <3>1. Underway(e, s)
      BY <1>3, <2>2 DEF EventInv, OwedOK
    <3>2. \A i \in DOMAIN queue[sock[s].at] : i \in DOMAIN queue'[sock[s].at]
              /\ queue'[sock[s].at][i] = queue[sock[s].at][i]
      BY <1>1, <3>1 DEF Grown, Underway
    <3> QED
      BY <1>0, <3>1, <3>2 DEF Underway, Carries
  <2> QED
    BY <2>1, <2>2
<1> QED
  BY <1>5, <1>6 DEF EventInv

(* An event goes to the sockets of the replica it arose in, and perhaps      *)
(* through Redis as well.                                                    *)
LEMMA PublishFailsKeeps ==
  ASSUME EventInv, NEW n \in Emitters, NEW a \in Replicas, NEW taken \in BOOLEAN, PublishFails(n, a, taken)
  PROVE  EventInv'
<1>0. /\ emitted < MaxEvents /\ ~relay[n].on /\ emitted' = emitted + 1
      /\ queue' = (IF taken THEN Pass(emitted + 1) ELSE queue)
      /\ owed' = [owed EXCEPT ![emitted + 1] = Reachable(a)] /\ relay' = [relay EXCEPT ![n] = Walk(a, emitted + 1)]
      /\ unsure' = (IF taken THEN unsure \cup {emitted + 1} ELSE unsure)
      /\ UNCHANGED <<redis, listener, sock, got, sure>>
      /\ relay \in [Tasks -> Walking \cup {Still}] /\ owed \in [EventIds -> SUBSET Sockets] /\ n \in Tasks
      /\ queue \in [Replicas -> Seq(EventIds)] /\ EventTyped
  BY DEF PublishFails, EventInv, EventTyped, Tasks
<1>1. emitted + 1 \in EventIds /\ emitted + 1 \notin sure
  BY <1>0, EventsAssumption DEF EventTyped, EventIds
<1>2. Grown
  <2>1. CASE taken
    BY <1>0, <2>1, PassGrows
  <2>2. CASE ~taken
    BY <1>0, <2>2 DEF Grown
  <2> QED
    BY <2>1, <2>2
<1>3. PICK new : new = Walk(a, emitted + 1)
  OBVIOUS
<1>4. /\ new \in Walking \cup {Still} /\ (Reg(a) # {} => new.on)
      /\ new.on => new.at = a /\ new.event = emitted + 1 /\ new.base = Reg(a) /\ new.sent = {}
  BY <1>0, <1>1, <1>3, WalkBegins
<1>5. Reachable(a) \in SUBSET Sockets
  BY DEF Reachable, Reg
<1>6. owed' \in [EventIds -> SUBSET Sockets] /\ owed'[emitted + 1] = Reachable(a)
      /\ \A e \in EventIds \ {emitted + 1} : owed'[e] = owed[e]
  BY <1>0, <1>1, <1>5
<1>7. relay' = [relay EXCEPT ![n] = new] /\ relay'[n] = new /\ \A k \in Tasks \ {n} : relay'[k] = relay[k]
  BY <1>0, <1>3
<1>8. /\ EventTyped' /\ (\A b \in Replicas : QueueOK(b)') /\ \A k \in Tasks : RelayOK(k)'
      /\ SoleRelay' /\ GotOK' /\ NoDoubles' /\ InOrder'
  <2>1. emitted + 1 \in sure' \cup unsure' \/ queue' = queue
    BY <1>0
  <2>2. unsure \subseteq unsure' /\ unsure' \subseteq unsure \cup {emitted + 1} /\ sure' = sure
    BY <1>0
  <2> QED
    <3>1. new.on => new.event = emitted + 1 /\ emitted + 1 \notin sure' /\ new.sent = {}
      BY <1>1, <1>4, <2>2
    <3>2. sure \subseteq sure' /\ sure' \subseteq sure \cup {emitted + 1}
      BY <2>2
    <3>3. UNCHANGED <<redis, listener, sock, got>> /\ emitted < MaxEvents /\ emitted' = emitted + 1 /\ ~relay[n].on
      BY <1>0
    <3> QED
      BY <1>2, <1>4, <1>6, <1>7, <2>1, <2>2, <3>1, <3>2, <3>3, EmitMoves
<1>9. OwedOK'
  <2> SUFFICES ASSUME NEW e \in EventIds, NEW s \in owed'[e] PROVE Underway(e, s)'
    BY DEF OwedOK
  <2>1. CASE e = emitted + 1
    <3>1. s \in Reg(a) /\ sock[s].up /\ sock[s].reg /\ sock[s].at = a
      BY <1>6, <2>1 DEF Reachable, Reg
    <3>2. Carries(n, e, s)'
      BY <1>0, <1>4, <1>7, <2>1, <3>1 DEF Carries
    <3> QED
      BY <1>0, <3>1, <3>2 DEF Underway
  <2>2. CASE e # emitted + 1
    <3>1. Underway(e, s)
      BY <1>6, <2>2 DEF EventInv, OwedOK
    <3>2. CASE \E i \in DOMAIN queue[sock[s].at] : queue[sock[s].at][i] = e
      <4>1. \A i \in DOMAIN queue[sock[s].at] : i \in DOMAIN queue'[sock[s].at]
              /\ queue'[sock[s].at][i] = queue[sock[s].at][i]
        BY <1>2, <3>1 DEF Grown, Underway
      <4> QED
        BY <1>0, <3>1, <3>2, <4>1 DEF Underway
    <3>3. CASE \E k \in Tasks : Carries(k, e, s)
      <4>1. PICK k \in Tasks : Carries(k, e, s)
        BY <3>3
      <4>2. k # n
        BY <1>0, <4>1 DEF Carries
      <4>3. Carries(k, e, s)'
        BY <1>0, <1>7, <4>1, <4>2 DEF Carries
      <4> QED
        BY <1>0, <3>1, <4>3 DEF Underway
    <3> QED
      BY <3>1, <3>2, <3>3 DEF Underway
  <2> QED
    BY <2>1, <2>2
<1> QED
  BY <1>8, <1>9 DEF EventInv

(* What a socket has got and is about to get from relay t: earlier ones of   *)
(* Redis are no later, and it is not the same event again.                   *)
LEMMA NextIsNew ==
  ASSUME EventInv, NEW t \in Tasks, relay[t].on, NEW s \in Reg(relay[t].at) \ relay[t].sent,
         NEW e \in EventIds, GotPast(s, e)
  PROVE  /\ e = relay[t].event => e \in unsure
         /\ e \in sure /\ relay[t].event \in sure => e <= relay[t].event
<1>1. RelayOK(t) /\ relay[t].event \in EventIds /\ sock[s].at = relay[t].at /\ relay[t].at \in Replicas
  <2>1. relay[t] \in Walking
    BY WalkTyped DEF EventInv
  <2> QED
    BY <2>1 DEF EventInv, Walking, Reg
<1>2. t \in Replicas \/ t \in Emitters
  BY DEF Tasks
<1>3. ASSUME e = relay[t].event, e \notin unsure PROVE FALSE
  <2>1. CASE e \in sure
    <3>1. t \in Replicas /\ sock[s].at = t
      BY <1>1, <1>2, <1>3, <2>1 DEF RelayOK
    <3>2. e < relay[t].event \/ s \in relay[t].sent
      BY <2>1, <3>1 DEF GotPast
    <3> QED
      BY <1>1, <1>3, <3>2 DEF EventIds
  <2>2. CASE e \notin sure
    <3>1. t \in Emitters
      BY <1>1, <1>2, <1>3, <2>2 DEF RelayOK
    <3> QED
      BY <1>3, <2>2, <3>1 DEF GotPast
  <2> QED
    BY <2>1, <2>2
<1>4. ASSUME e \in sure, relay[t].event \in sure PROVE e <= relay[t].event
  <2>1. t \in Replicas /\ sock[s].at = t
    BY <1>1, <1>2, <1>4 DEF RelayOK
  <2>2. e < relay[t].event \/ e = relay[t].event
    BY <1>4, <2>1 DEF GotPast
  <2> QED
    BY <1>1, <2>2 DEF EventIds
<1> QED
  BY <1>3, <1>4

(* One socket is sent to. *)
LEMMA SendKeeps ==
  ASSUME EventInv, NEW t \in Tasks, NEW s \in Sockets, SendText(t, s)
  PROVE  EventInv'
<1>0. /\ relay[t].on /\ s \in Reg(relay[t].at) /\ s \notin relay[t].sent /\ RelayOK(t) /\ EventTyped
      /\ relay \in [Tasks -> Walking \cup {Still}] /\ owed \in [EventIds -> SUBSET Sockets]
      /\ got \in [Sockets -> Seq(EventIds)] /\ queue \in [Replicas -> Seq(EventIds)]
      /\ UNCHANGED <<redis, listener, sock, queue, emitted, sure, unsure>> /\ emitted \in Nat
  BY EventsAssumption DEF SendText, Steady, EventInv, EventTyped
<1>1. PICK was \in Walking : was = relay[t]
  BY <1>0, WalkTyped
<1>2. PICK new : new = [was EXCEPT !.sent = was.sent \cup {s},
                                         !.dead = IF sock[s].up THEN was.dead ELSE was.dead \cup {s}]
  OBVIOUS
<1>3. /\ new \in Walking /\ new.on /\ new.at = was.at /\ new.event = was.event /\ new.base = was.base
      /\ new.sent = was.sent \cup {s}
  BY <1>1, <1>2 DEF Walking
<1>4. relay' = [relay EXCEPT ![t] = new]
  BY <1>0, <1>1, <1>2 DEF SendText
<1>5. /\ relay' \in [Tasks -> Walking \cup {Still}] /\ relay'[t] = new
      /\ \A k \in Tasks \ {t} : relay'[k] = relay[k]
  BY <1>0, <1>3, <1>4
<1>6. ASSUME NEW k \in Tasks
      PROVE  /\ relay'[k].on => /\ relay[k].on /\ relay'[k].at = relay[k].at /\ relay'[k].event = relay[k].event
                                /\ relay[k].sent \subseteq relay'[k].sent
             /\ k # t => relay'[k] = relay[k]
  BY <1>0, <1>1, <1>3, <1>5
<1>7. Replicas \subseteq Tasks /\ Emitters \subseteq Tasks /\ (t \in Replicas \/ t \in Emitters)
  BY DEF Tasks
<1>8. (\A a \in Replicas : QueueOK(a)') /\ (\A k \in Tasks : RelayOK(k)') /\ SoleRelay'
  <2>1. \A a \in Replicas : QueueOK(a)'
    BY <1>0 DEF EventInv, QueueOK
  <2>2. \A k \in Tasks : RelayOK(k)'
    BY <1>0, <1>6 DEF EventInv, RelayOK
  <2>3. SoleRelay'
    BY <1>6, <1>7 DEF EventInv, SoleRelay
  <2> QED
    BY <2>1, <2>2, <2>3
<1>9. Onward
  BY <1>0, <1>6, <1>7 DEF Onward
<1>10. PICK e \in EventIds : e = was.event /\ e <= emitted
  BY <1>0, <1>1 DEF Walking, RelayOK
<1>11. \A k \in Sockets \ {s} : \A x \in EventIds : \A n \in Tasks : Carries(n, x, k) => Carries(n, x, k)'
  <2> SUFFICES ASSUME NEW k \in Sockets \ {s}, NEW x \in EventIds, NEW n \in Tasks, Carries(n, x, k)
               PROVE  Carries(n, x, k)'
    OBVIOUS
  <2>1. CASE n = t
    BY <1>0, <1>1, <1>3, <1>5, <2>1 DEF Carries
  <2>2. CASE n # t
    BY <1>0, <1>5, <2>2 DEF Carries
  <2> QED
    BY <2>1, <2>2
<1>12. CASE ~sock[s].up
  <2>1. UNCHANGED <<got, owed>>
    BY <1>12 DEF SendText
  <2>2. EventTyped' /\ GotOK' /\ NoDoubles' /\ InOrder'
    BY <1>0, <1>5, <1>9, <2>1, GotFrame DEF EventTyped
  <2>3. OwedOK'
    <3> SUFFICES ASSUME NEW x \in EventIds, NEW k \in owed[x] PROVE Underway(x, k)'
      BY <2>1 DEF OwedOK
    <3>1. Underway(x, k) /\ k \in Sockets
      BY <1>0 DEF EventInv, OwedOK
    <3>2. k # s
      BY <1>12, <3>1 DEF Underway
    <3> QED
      BY <1>0, <1>11, <3>1, <3>2 DEF Underway
  <2> QED
    BY <1>8, <2>2, <2>3 DEF EventInv
<1>13. CASE sock[s].up
  <2>1. PICK w \in Seq(EventIds) : w = got[s]
    BY <1>0
  <2>2. got' = [got EXCEPT ![s] = Append(w, e)] /\ owed' = [owed EXCEPT ![e] = owed[e] \ {s}]
    BY <1>0, <1>1, <1>10, <1>13, <2>1 DEF SendText
  <2>3. /\ Append(w, e) \in Seq(EventIds) /\ DOMAIN w = 1 .. Len(w) /\ Len(w) \in Nat
        /\ DOMAIN Append(w, e) = 1 .. (Len(w) + 1) /\ Append(w, e)[Len(w) + 1] = e
        /\ \A i \in 1 .. Len(w) : Append(w, e)[i] = w[i]
    BY AppendProperties
  <2>4. /\ got' \in [Sockets -> Seq(EventIds)] /\ got'[s] = Append(w, e)
        /\ \A k \in Sockets \ {s} : got'[k] = got[k]
        /\ owed' \in [EventIds -> SUBSET Sockets] /\ owed'[e] = owed[e] \ {s}
        /\ \A x \in EventIds \ {e} : owed'[x] = owed[x]
    BY <1>0, <2>2, <2>3
  <2>5. EventTyped'
    BY <1>0, <1>5, <2>4 DEF EventTyped
  <2>6. ASSUME NEW j \in DOMAIN got'[s]
        PROVE  (j \in DOMAIN w /\ got'[s][j] = w[j]) \/ (j = Len(w) + 1 /\ got'[s][j] = e)
    <3>1. j \in 1 .. Len(w) \/ j = Len(w) + 1
      BY <2>3, <2>4
    <3> QED
      BY <2>3, <2>4, <3>1
  <2>7. \A i \in DOMAIN w : w[i] \in EventIds /\ GotPast(s, w[i])
    BY <2>1 DEF EventInv, GotOK
  <2>8. GotPast(s, e)'
    <3>1. sock[s].at = was.at /\ was.at \in Replicas /\ sock[s].at # "nowhere"
      BY <1>0, <1>1, EventsAssumption DEF Reg, Walking
    <3>2. ASSUME e \in sure
          PROVE  /\ \A j \in DOMAIN queue[sock[s].at] : e < queue[sock[s].at][j]
                 /\ e = relay'[sock[s].at].event /\ s \in relay'[sock[s].at].sent
      <4>1. t \in Replicas /\ sock[s].at = t
        BY <1>0, <1>1, <1>7, <1>10, <3>1, <3>2 DEF RelayOK
      <4> QED
        BY <1>0, <1>1, <1>3, <1>5, <1>10, <4>1 DEF RelayOK
    <3>3. ASSUME e \notin sure \cup unsure, NEW k \in Emitters, relay'[k].on, relay'[k].event = e
          PROVE  s \in relay'[k].sent
      <4>1. t \in Emitters
        BY <1>0, <1>1, <1>7, <1>10, <3>3 DEF RelayOK
      <4>2. relay[k].on /\ relay[k].event = relay[t].event
        BY <1>1, <1>6, <1>7, <1>10, <3>3
      <4>3. k = t
        BY <1>0, <4>1, <4>2 DEF EventInv, SoleRelay
      <4> QED
        BY <1>3, <1>5, <4>3
    <3> QED
      BY <1>0, <1>10, <3>1, <3>2, <3>3 DEF GotPast
  <2>9. GotOK'
    <3> SUFFICES ASSUME NEW k \in Sockets, NEW i \in DOMAIN got'[k] PROVE GotPast(k, got[k][i])'
      BY DEF GotOK
    <3>1. CASE k = s /\ got'[k][i] = e
      BY <2>8, <3>1 DEF GotPast
    <3>2. CASE ~(k = s /\ got'[k][i] = e)
      <4>1. PICK x \in EventIds : x = got'[k][i] /\ GotPast(k, x)
        <5>1. CASE k = s
          BY <2>6, <2>7, <3>2, <5>1
        <5>2. CASE k # s
          BY <1>0, <2>4, <5>2 DEF EventInv, GotOK
        <5> QED
          BY <5>1, <5>2
      <4>2. GotPast(k, x)'
        BY <1>0, <1>9, <4>1, PastStays
      <4> QED
        BY <4>1, <4>2 DEF GotPast
    <3> QED
      BY <3>1, <3>2
  <2>10. \A i \in DOMAIN w : (w[i] = e => e \in unsure) /\ (w[i] \in sure /\ e \in sure => w[i] <= e)
    <3> SUFFICES ASSUME NEW i \in DOMAIN w
                 PROVE  (w[i] = e => e \in unsure) /\ (w[i] \in sure /\ e \in sure => w[i] <= e)
      OBVIOUS
    <3>1. PICK x \in EventIds : x = w[i] /\ GotPast(s, x)
      BY <2>7
    <3>2. (x = relay[t].event => x \in unsure) /\ (x \in sure /\ relay[t].event \in sure => x <= relay[t].event)
      BY <1>0, <3>1, NextIsNew
    <3> QED
      BY <1>1, <1>10, <3>1, <3>2
  <2>11. NoDoubles'
    <3> SUFFICES ASSUME NEW k \in Sockets, NEW i \in DOMAIN got'[k], NEW j \in DOMAIN got'[k],
                        i # j, got'[k][i] = got'[k][j]
                 PROVE  got'[k][i] \in unsure
      BY <1>0 DEF NoDoubles
    <3>1. CASE k # s
      BY <2>4, <3>1 DEF EventInv, NoDoubles
    <3>2. CASE k = s
      <4>1. CASE i \in DOMAIN w /\ j \in DOMAIN w
        BY <2>1, <2>3, <2>4, <3>2, <4>1 DEF EventInv, NoDoubles
      <4>2. CASE ~(i \in DOMAIN w /\ j \in DOMAIN w)
        BY <2>6, <2>10, <3>2, <4>2
      <4> QED
        BY <4>1, <4>2
    <3> QED
      BY <3>1, <3>2
  <2>12. InOrder'
    <3> SUFFICES ASSUME NEW k \in Sockets, NEW i \in DOMAIN got'[k], NEW j \in DOMAIN got'[k],
                        i < j, got'[k][i] \in sure, got'[k][j] \in sure
                 PROVE  got'[k][i] <= got'[k][j]
      BY <1>0 DEF InOrder
    <3>1. CASE k # s
      BY <2>4, <3>1 DEF EventInv, InOrder
    <3>2. CASE k = s
      <4>1. CASE j \in DOMAIN w
        <5>1. i \in DOMAIN w
          BY <2>3, <2>6, <3>2, <4>1
        <5>2. got'[s][i] = w[i] /\ got'[s][j] = w[j]
          BY <2>3, <2>4, <4>1, <5>1
        <5> QED
          BY <2>1, <3>2, <4>1, <5>1, <5>2 DEF EventInv, InOrder
      <4>2. CASE j \notin DOMAIN w
        <5>1. j = Len(w) + 1 /\ got'[s][j] = e
          BY <2>6, <3>2, <4>2
        <5>2. i \in DOMAIN w /\ got'[s][i] = w[i]
          BY <2>3, <2>6, <3>2, <5>1
        <5> QED
          BY <2>10, <3>2, <5>1, <5>2
      <4> QED
        BY <4>1, <4>2
    <3> QED
      BY <3>1, <3>2
  <2>13. OwedOK'
    <3> SUFFICES ASSUME NEW x \in EventIds, NEW k \in owed'[x] PROVE Underway(x, k)'
      BY DEF OwedOK
    <3>1. k \in owed[x] /\ Underway(x, k) /\ k \in Sockets
      BY <1>0, <2>4 DEF EventInv, OwedOK
    <3>2. CASE k # s
      BY <1>0, <1>11, <3>1, <3>2 DEF Underway
    <3>3. CASE k = s
      <4>1. x # e
        BY <2>4, <3>3
      <4>2. \A n \in Tasks : Carries(n, x, k) => Carries(n, x, k)'
        <5> SUFFICES ASSUME NEW n \in Tasks, Carries(n, x, k) PROVE Carries(n, x, k)'
          OBVIOUS
        <5>1. n # t
          BY <1>1, <1>10, <4>1 DEF Carries
        <5> QED
          BY <1>0, <1>5, <5>1 DEF Carries
      <4> QED
        BY <1>0, <3>1, <4>2 DEF Underway
    <3> QED
      BY <3>2, <3>3
  <2> QED
    BY <1>8, <2>5, <2>9, <2>11, <2>12, <2>13 DEF EventInv
<1> QED
  BY <1>12, <1>13

(* Every step keeps EventInv. *)
LEMMA EventsInductive == EventInv /\ [EventsNext]_eventVars => EventInv'
<1> SUFFICES ASSUME EventInv, [EventsNext]_eventVars PROVE EventInv'
  OBVIOUS
<1>1. CASE UNCHANGED eventVars
  <2>1. UNCHANGED <<redis, listener, sock, queue, relay, emitted, got, owed, sure, unsure>>
    BY <1>1 DEF eventVars
  <2>2. EventTyped'
    BY <2>1 DEF EventInv, EventTyped
  <2>3. \A b \in Replicas : queue[b] # <<>> => listener'[b] = "live"
    BY <2>1 DEF EventInv, QueueOK
  <2> QED
    BY <2>1, <2>2, <2>3, EventFrame
<1>2. CASE RedisFails \/ RedisReturns
  BY <1>2, RedisFailsKeeps, RedisReturnsKeeps
<1>3. ASSUME NEW a \in Replicas, Subscribe(a) \/ Relay(a) PROVE EventInv'
  BY <1>3, SubscribeKeeps, RelayKeeps
<1>4. ASSUME NEW s \in Sockets, Break(s) \/ disconnect(s) \/ \E a \in Replicas : connect(s, a) PROVE EventInv'
  BY <1>4, SocketsKeep
<1>5. ASSUME NEW n \in Emitters, Publish(n) PROVE EventInv'
  BY <1>5, PublishKeeps
<1>6. ASSUME NEW n \in Emitters, NEW a \in Replicas, NEW taken \in BOOLEAN, PublishFails(n, a, taken)
      PROVE  EventInv'
  BY <1>6, PublishFailsKeeps
<1>7. ASSUME NEW t \in Tasks, RelayEnds(t) \/ RelayRaises(t) PROVE EventInv'
  BY <1>7, RelayEndsKeeps, RelayRaisesKeeps
<1>8. ASSUME NEW t \in Tasks, NEW s \in Sockets, SendText(t, s) PROVE EventInv'
  BY <1>8, SendKeeps
<1>9. CASE EventsNext
  BY <1>2, <1>3, <1>4, <1>5, <1>6, <1>7, <1>8, <1>9 DEF EventsNext
<1> QED
  BY <1>1, <1>9

(* api/routes/ws.py: for any replicas, sockets, emitters and events, whoever *)
(* comes and goes and however Redis and the listeners fail: once nothing is  *)
(* under way, an event has reached every socket it was for that stayed and   *)
(* whose relay did not fail; a socket receives it once unless Redis took it  *)
(* and did not say so; events that went through Redis come in order.         *)
THEOREM EventsAlwaysSound == FeedsSpec => []EventsSound
<1>1. FeedsInit => EventInv
  BY InitEvents DEF FeedsInit
<1>2. EventInv /\ [FeedsNext]_feedsVars => EventInv'
  <2> SUFFICES ASSUME EventInv, [FeedsNext]_feedsVars PROVE EventInv'
    OBVIOUS
  <2>1. [EventsNext]_eventVars
    BY DEF FeedsNext, feedsVars
  <2> QED
    BY <2>1, EventsInductive
<1>3. EventInv => EventsSound
  <2> SUFFICES ASSUME EventInv PROVE EventsTypeOK /\ EventsArrive /\ NoDoubles /\ InOrder
    BY DEF EventsSound
  <2>1. EventsTypeOK
    BY DEF EventInv, EventTyped, QueueOK, EventsTypeOK
  <2>2. EventsArrive
    <3> SUFFICES ASSUME \A t \in Tasks : ~relay[t].on, \A a \in Replicas : queue[a] = <<>>,
                        NEW e \in EventIds, NEW s \in owed[e]
                 PROVE  FALSE
      BY DEF EventsArrive
    <3>1. Underway(e, s)
      BY DEF EventInv, OwedOK
    <3>2. ~\E t \in Tasks : Carries(t, e, s)
      BY DEF Carries
    <3>3. queue[sock[s].at] = <<>>
      BY <3>1 DEF Underway
    <3> QED
      BY <3>1, <3>2, <3>3 DEF Underway
  <2> QED
    BY <2>1, <2>2 DEF EventInv
<1> QED
  BY <1>1, <1>2, <1>3, PTL DEF FeedsSpec
=============================================================================
