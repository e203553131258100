------------------------------- MODULE Admin -------------------------------
(***************************************************************************)
(* The administrator's view (services/admin.py): counts over all users,    *)
(* per user, by type and status, the sources that are stuck, and the       *)
(* retry of one. Rows change under it as the rest of the program does its  *)
(* work: sources are ingested, compiled, fail; a crash leaves one in       *)
(* processing.                                                             *)
(***************************************************************************)
EXTENDS Naturals, FiniteSets, Functions

CONSTANTS People,         \* users, the administrator among them
          Boss,
          MaxItems,       \* bound on sources
          LastMinute,     \* bound on the clock
          StuckAfter      \* threshold_minutes

ASSUME AdminAssumption == /\ Boss \in People /\ "none" \notin People /\ IsFiniteSet(People)
                          /\ {MaxItems, LastMinute, StuckAfter} \subseteq Nat

VARIABLES items,      \* Source rows, with the page type of the article made of each
          queued,     \* compile jobs queued: the source and the user they run for
          minute

adminVars == <<items, queued, minute>>

Nobody1 == "none"

Statuses == {"pending", "processing", "compiled", "failed"}

AdminTypeOK ==
    /\ \A s \in items : s.status \in Statuses /\ s.owner \in People /\ s.at <= minute
    /\ \A s, t \in items : s.id = t.id => s = t
    /\ \A q \in queued : q.source \in {s.id : s \in items} /\ q.user \in People

AdminInit == items = {} /\ queued = {} /\ minute = 0

----------------------------------------------------------------------------
ByStatus(S) == [st \in {s.status : s \in S} |-> Cardinality({s \in S : s.status = st})]

(* _get_compilation_health: the rate is of the sources that ended. *)
_get_compilation_health ==
    LET done == Cardinality({s \in items : s.status = "compiled"})
        ended == done + Cardinality({s \in items : s.status = "failed"})
    IN [queue |-> Cardinality(queued), rate |-> IF ended = 0 THEN <<>> ELSE <<done, ended>>]

_get_stuck_sources == {s \in items : s.status = "processing" /\ s.at + StuckAfter < minute}

get_stats ==
    [users |-> Cardinality(People), sources |-> Cardinality(items),
     articles |-> Cardinality({s \in items : s.page # Nobody1}), byStatus |-> ByStatus(items),
     stuck |-> {s.id : s \in _get_stuck_sources}, health |-> _get_compilation_health]

(* list_users and get_user_detail. *)
list_users ==
    [u \in People |-> [articles |-> Cardinality({s \in items : s.page = u}),
                       sources |-> Cardinality({s \in items : s.owner = u})]]
get_user_detail(u) ==
    [sources |-> Cardinality({s \in items : s.owner = u}), byStatus |-> ByStatus({s \in items : s.owner = u})]

----------------------------------------------------------------------------
Set(s, t) == items' = (items \ {s}) \cup {t}

(* The rest of the program, as far as the administrator sees it. *)
IngestItem(u, file) ==
    /\ Cardinality(items) < MaxItems
    /\ items' = items \cup {[id |-> Cardinality(items) + 1, owner |-> u, status |-> IF file THEN "pending" ELSE "processing",
                             at |-> minute, file |-> file, by |-> u, page |-> Nobody1]}
    /\ queued' = IF file THEN queued \cup {[source |-> Cardinality(items) + 1, user |-> u]} ELSE queued
    /\ UNCHANGED minute

RunItem(q) ==
    /\ \E s \in items : s.id = q.source /\ Set(s, [s EXCEPT !.status = "processing", !.by = q.user])
    /\ queued' = queued \ {q} /\ UNCHANGED minute

(* _upsert_article: a new article belongs to the user the job runs for, one  *)
(* compiled again to the owner of the source.                                *)
PageOwner(s) == IF s.page = Nobody1 THEN s.by ELSE s.owner

EndItem(s, status) ==
    /\ s.status = "processing" /\ s.file
    /\ Set(s, [s EXCEPT !.status = status, !.page = IF status = "compiled" THEN PageOwner(s) ELSE @])
    /\ UNCHANGED <<queued, minute>>

MinutePasses ==
    /\ minute < LastMinute /\ minute' = minute + 1
    /\ UNCHANGED <<items, queued>>

(* retry_stuck_source: any source with a file, stuck or not, is made pending *)
(* and compiled for the administrator, whoever owns it.                      *)
retry_stuck_source(s) ==
    /\ s.file
    /\ Set(s, [s EXCEPT !.status = "pending"])
    /\ queued' = queued \cup {[source |-> s.id, user |-> Boss]}
    /\ UNCHANGED minute

AdminNext ==
    \/ \E u \in People, file \in BOOLEAN : IngestItem(u, file)
    \/ \E q \in queued : RunItem(q)
    \/ \E s \in items : retry_stuck_source(s) \/ \E st \in {"compiled", "failed"} : EndItem(s, st)
    \/ MinutePasses

----------------------------------------------------------------------------
(* The totals are the sums over the users, by status too. *)
StatsAddUp ==
    /\ get_stats.sources = FoldFunction(+, 0, [u \in People |-> list_users[u].sources])
    /\ get_stats.articles = FoldFunction(+, 0, [u \in People |-> list_users[u].articles])
    /\ \A st \in Statuses :
          LET n(f) == IF st \in DOMAIN f THEN f[st] ELSE 0 IN
          n(get_stats.byStatus) = FoldFunction(+, 0, [u \in People |-> n(get_user_detail(u).byStatus)])

(* What is queued can run: a pending source has a file to read. *)
RetryRuns == \A q \in queued : \A s \in items : s.id = q.source => s.file
=============================================================================
