------------------------------ MODULE Startup ------------------------------
(***************************************************************************)
(* The data migrations that init_db (database.py) runs whenever a gateway  *)
(* or a stand-alone MCP server starts. A migration is one transaction and  *)
(* its record in migrationhistory another. On PostgreSQL an advisory lock  *)
(* surrounds them all; on SQLite nothing does.                             *)
(***************************************************************************)
EXTENDS Naturals, Sequences, FiniteSets, SequencesExt

CONSTANTS Processes, OldQueries, OldPages, OldNames

ASSUME StartupAssumption == "nobody" \notin Processes /\ IsFiniteSet(OldPages)

VARIABLES postgres,
          old,          \* Article rows: names listed, JSON well formed, path absolute, file missing, row there
          conv,         \* conversations made for each query that had none
          concept,      \* article_count of each Concept row, 0 without one
          links,        \* ArticleConcept rows
          applied,      \* migrationhistory
          proc,         \* where each process is in init_db
          migrationLock,
          raced         \* history: two processes ran one migration at once

startupVars == <<postgres, old, conv, concept, links, applied, proc, migrationLock, raced>>
startupData == <<old, conv, concept, links, applied>>

Down == [pc |-> "down", at |-> 1, legacy |-> {}]
NoProcess == "nobody"
There == {p \in OldPages : old[p].there}

StartupTypeOK ==
    /\ DOMAIN old = OldPages
    /\ conv \in [OldQueries -> Nat] /\ concept \in [OldNames -> 0 .. Cardinality(OldPages)]
    /\ links \subseteq OldPages \X OldNames
    /\ migrationLock \in Processes \cup {NoProcess}
    /\ \A p \in Processes : proc[p].pc \in {"down", "wait", "check", "read", "write", "record", "serving"}

StartupInit ==
    /\ postgres \in BOOLEAN
    /\ old \in [OldPages -> [names : SUBSET OldNames, good : BOOLEAN, abs : BOOLEAN, missing : BOOLEAN, there : {TRUE}]]
    /\ conv = [q \in OldQueries |-> 0] /\ concept = [n \in OldNames |-> 0] /\ links = {}
    /\ applied = {} /\ migrationLock = NoProcess /\ raced = FALSE
    /\ proc = [p \in Processes |-> Down]

----------------------------------------------------------------------------
(* Mutant of Versions: concepts are taken from the JSON before its repair. *)
VersionsUnrepaired == <<"conversations", "concepts", "repair", "paths", "join", "orphans">>

(* The migrations, in order. *)
Versions == <<"conversations", "repair", "concepts", "paths", "join", "orphans">>

(* init_db creates tables, columns and the development user, which finds     *)
(* nothing to do where they are.                                             *)
StartProcess(p) ==
    /\ proc[p].pc = "down"
    /\ proc' = [proc EXCEPT ![p] = [Down EXCEPT !.pc = "wait"]]
    /\ UNCHANGED <<postgres, startupData, migrationLock, raced>>

TakeLock(p) ==
    /\ proc[p].pc = "wait" /\ (postgres => migrationLock = NoProcess)
    /\ migrationLock' = IF postgres THEN p ELSE migrationLock
    /\ proc' = [proc EXCEPT ![p].pc = "check"]
    /\ UNCHANGED <<postgres, startupData, raced>>

(* _run_versioned_migrations: the next version, unless it is recorded. *)
NextVersion(p) ==
    /\ proc[p].pc = "check" /\ proc[p].at <= Len(Versions)
    /\ proc' = [proc EXCEPT ![p] =
          IF Versions[proc[p].at] \in applied THEN [@ EXCEPT !.at = proc[p].at + 1] ELSE [@ EXCEPT !.pc = "read"]]
    /\ raced' = (raced \/ (~postgres /\ \E r \in Processes \ {p} :
                            proc[r].pc \in {"read", "write", "record"} /\ proc[r].at = proc[p].at))
    /\ UNCHANGED <<postgres, startupData, migrationLock>>

(* The rows a migration is to change. *)
ReadLegacy(p) ==
    /\ proc[p].pc = "read"
    /\ proc' = [proc EXCEPT ![p] = [@ EXCEPT !.pc = "write", !.legacy = {q \in OldQueries : conv[q] = 0}]]
    /\ UNCHANGED <<postgres, startupData, migrationLock, raced>>

Writes(p, v) == proc[p].pc = "write" /\ Versions[proc[p].at] = v

(* The transaction ends, or raises, and the process with it. *)
Done(p) == proc' = [proc EXCEPT ![p].pc = "record"] /\ UNCHANGED <<postgres, applied, migrationLock, raced>>

(* _backfill_conversation_for_legacy_queries *)
BackfillConversations(p) ==
    /\ Writes(p, "conversations")
    /\ conv' = [q \in OldQueries |-> IF q \in proc[p].legacy THEN conv[q] + 1 ELSE conv[q]]
    /\ Done(p) /\ UNCHANGED <<old, concept, links>>

(* _repair_malformed_json_arrays *)
RepairArrays(p) ==
    /\ Writes(p, "repair")
    /\ old' = [x \in OldPages |-> [old[x] EXCEPT !.good = TRUE]]
    /\ Done(p) /\ UNCHANGED <<conv, concept, links>>

(* What json.loads gives: nothing of a malformed array. *)
Parsed(x) == IF old[x].there /\ old[x].good THEN old[x].names ELSE {}

(* _backfill_concepts_from_articles: rows, and the count of each. *)
BackfillConcepts(p) ==
    /\ Writes(p, "concepts")
    /\ concept' = IF \A x \in OldPages : Parsed(x) = {} THEN concept
                  ELSE [n \in OldNames |-> Cardinality({x \in OldPages : n \in Parsed(x)})]
    /\ Done(p) /\ UNCHANGED <<old, conv, links>>

(* _migrate_to_relative_paths *)
RelativePaths(p) ==
    /\ Writes(p, "paths")
    /\ old' = [x \in OldPages |-> [old[x] EXCEPT !.abs = FALSE]]
    /\ Done(p) /\ UNCHANGED <<conv, concept, links>>

(* _backfill_join_tables_from_json *)
BackfillLinks(p) ==
    /\ Writes(p, "join")
    /\ links' = links \cup {l \in OldPages \X OldNames : l[2] \in Parsed(l[1])}
    /\ Done(p) /\ UNCHANGED <<old, conv, concept>>

(* A path that is absolute still is resolved outside the wiki, which raises  *)
(* ValueError and counts as missing.                                         *)
Orphans == {x \in There : old[x].missing \/ old[x].abs}

(* PostgreSQL refuses to delete a page that has links to concepts. *)
Refused == postgres /\ \E x \in Orphans, n \in OldNames : <<x, n>> \in links

(* _cleanup_orphan_concept_rows: concept pages without their file go. *)
CleanupOrphans(p) ==
    /\ Writes(p, "orphans") /\ ~Refused
    /\ old' = [x \in OldPages |-> [old[x] EXCEPT !.there = @ /\ x \notin Orphans]]
    /\ Done(p) /\ UNCHANGED <<conv, concept, links>>

RecordMigration(p) ==
    /\ proc[p].pc = "record"
    /\ applied' = applied \cup {Versions[proc[p].at]}
    /\ proc' = [proc EXCEPT ![p] = [@ EXCEPT !.pc = "check", !.at = proc[p].at + 1]]
    /\ UNCHANGED <<postgres, old, conv, concept, links, migrationLock, raced>>

(* All are recorded: the lock is freed and requests are served. *)
Serve(p) ==
    /\ proc[p].pc = "check" /\ proc[p].at > Len(Versions)
    /\ proc' = [proc EXCEPT ![p].pc = "serving"]
    /\ migrationLock' = IF migrationLock = p THEN NoProcess ELSE migrationLock
    /\ UNCHANGED <<postgres, startupData, raced>>

(* The process stops, is killed, or dies of a migration that raises. *)
StopProcess(p) ==
    /\ proc[p].pc # "down"
    /\ proc' = [proc EXCEPT ![p] = Down]
    /\ migrationLock' = IF migrationLock = p THEN NoProcess ELSE migrationLock
    /\ UNCHANGED <<postgres, startupData, raced>>

StartupNext ==
    \E p \in Processes :
        \/ StartProcess(p) \/ TakeLock(p) \/ NextVersion(p) \/ ReadLegacy(p)
        \/ BackfillConversations(p) \/ RepairArrays(p) \/ BackfillConcepts(p)
        \/ RelativePaths(p) \/ BackfillLinks(p) \/ CleanupOrphans(p)
        \/ RecordMigration(p) \/ Serve(p) \/ StopProcess(p)

----------------------------------------------------------------------------
(* A query from before conversations gets one conversation, through any      *)
(* number of crashes and restarts, and only one unless two processes         *)
(* started together on SQLite; every server that serves has seen to it.      *)
OneConversation ==
    \A q \in OldQueries :
        /\ ~raced => conv[q] <= 1
        /\ (\E p \in Processes : proc[p].pc = "serving") => conv[q] >= 1

(* A migration on record is one whose work is in the database: no array is   *)
(* malformed, every name an article lists is a concept with its count and is *)
(* linked to the article, every path is relative. (Two processes that start  *)
(* together on SQLite may count anew after the orphans went.)                *)
RecordedIsDone ==
    /\ "repair" \in applied => \A x \in OldPages : old[x].good
    /\ "concepts" \in applied /\ ~raced =>
          \A n \in OldNames : concept[n] = Cardinality({x \in OldPages : n \in old[x].names})
    /\ "paths" \in applied => \A x \in OldPages : ~old[x].abs
    /\ "join" \in applied => \A x \in There, n \in OldNames : n \in old[x].names => <<x, n>> \in links
    /\ "orphans" \in applied => \A x \in There : ~old[x].missing
=============================================================================
