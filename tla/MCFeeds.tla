------------------------------ MODULE MCFeeds ------------------------------
(***************************************************************************)
(* Model checking of what comes into the system and goes out of it:        *)
(* ingest, the inbox of captures, the events for sockets, and the          *)
(* migrations of a start. They share no state, so each behaviour runs one  *)
(* of them (of the inbox, one channel at a time next to notes) while the   *)
(* others stay as they started.                                            *)
(***************************************************************************)
EXTENDS Ingest, Capture, LiveEvents, Startup, TLC

CONSTANTS i1, i2, i3, c, d, q, r, u, v, m

VARIABLES part,
          overlapped,   \* history: two requests ingested one content at once
          uncounted     \* history: sources whose request died between storing and counting

ingestVars == <<vars, overlapped, uncounted>>
feedsVars == <<ingestVars, captureVars, eventVars, startupVars, part>>

Parts == {"ingest", "feed", "history", "triage", "events", "startup"}

FeedsInit ==
    /\ part \in Parts
    /\ Init /\ overlapped = FALSE /\ uncounted = {}
    /\ CaptureInit /\ (part \notin {"feed", "history"} => dull = {})
    /\ EventsInit /\ (part # "events" => redis = "absent")
    /\ StartupInit /\ (part # "startup" => ~postgres /\ \A x \in OldPages : old[x].names = {} /\ old[x].good
                                              /\ old[x].abs /\ old[x].missing)

Overlap == \E a, b \in Requests : a # b /\ request[a].content # None /\ request[a].content = request[b].content

IngestNext ==
    /\ \/ /\ \/ \E a \in Requests, x \in Contents : StartIngest(a, x)
             \/ \E a \in Requests : Progress(a)
             \/ \E i \in minted : delete_source(i)
          /\ UNCHANGED uncounted
       \/ \E a \in Requests :
             /\ Crash(a)
             /\ uncounted' = IF request[a].pc = "charge" THEN uncounted \cup {request[a].id} ELSE uncounted
    /\ overlapped' = (overlapped \/ Overlap')

CapturePart ==
    \/ part \in {"feed", "history", "triage"} /\ WriterNext
    \/ part = "feed" /\ FeedNext
    \/ part = "history" /\ HistoryNext
    \/ part = "triage" /\ TriageNext

FeedsNext ==
    /\ \/ part = "ingest" /\ IngestNext /\ UNCHANGED <<captureVars, eventVars, startupVars>>
       \/ CapturePart /\ UNCHANGED <<ingestVars, eventVars, startupVars>>
       \/ part = "events" /\ EventsNext /\ UNCHANGED <<ingestVars, captureVars, startupVars>>
       \/ part = "startup" /\ StartupNext /\ UNCHANGED <<ingestVars, captureVars, eventVars>>
    /\ UNCHANGED part

FeedsSpec == FeedsInit /\ [][FeedsNext]_feedsVars

(* The components' sets share their model values. *)
Symmetry == Permutations({c, d}) \cup Permutations({q, r})

----------------------------------------------------------------------------
(* find_source_by_hash: see UniqueContent, while no two requests for one     *)
(* content overlapped.                                                       *)
UniqueApart == ~overlapped => UniqueContent

(* _check_source_dedup: see AnsweredKept, while no two requests for one      *)
(* content overlapped.                                                       *)
AnsweredApart == ~overlapped => AnsweredKept

(* commit_storage: with no request under way, the usage counted covers every *)
(* source stored, but for those whose request died between storing and       *)
(* counting them.                                                            *)
UsageCoversAll ==
    Quiet => Cardinality({i \in Rows \ uncounted : source[i].file}) <= IF usage = None THEN 0 ELSE usage

(* ingest/utils.py, ingest/service.py: see UniqueApart and AnsweredApart.    *)
ContentOnce == part = "ingest" => TypeOK /\ UniqueApart /\ AnsweredApart

(* services/quota.py: see QuotaHeld and UsageCoversAll.                      *)
UsageTrue == part = "ingest" => QuotaHeld /\ UsageCoversAll

(* services/capture.py, services/ambient.py: see CapturedOnce, FeedCaught,   *)
(* VisitsKept and IngestedHasSource. What was met is in the inbox once, and  *)
(* what left it is a source.                                                 *)
InboxSound ==
    part \in {"feed", "history", "triage"} =>
        CaptureTypeOK /\ CapturedOnce /\ FeedCaught /\ VisitsKept /\ IngestedHasSource

(* api/routes/ws.py: see EventsArrive, NoDoubles and InOrder.                *)
EventsSound == part = "events" => EventsTypeOK /\ EventsArrive /\ NoDoubles /\ InOrder

(* database.py: see OneConversation and RecordedIsDone.                      *)
MigrationsSound == part = "startup" => StartupTypeOK /\ OneConversation /\ RecordedIsDone
=============================================================================
