------------------------------ MODULE Capture ------------------------------
(***************************************************************************)
(* The inbox of captures of one user: services/capture.py, rss.py and      *)
(* ambient.py with the adapters ingest/adapters/rss.py and                 *)
(* browser_history.py. A writer looks every item up by its hash and adds   *)
(* what it does not find; there is no constraint behind the lookup.        *)
(***************************************************************************)
EXTENDS Naturals, Sequences, FiniteSets, FiniteSetsExt, SequencesExt

CONSTANTS Keys,         \* items told apart by their hash: of a note, a guid, a URL
          Writers,      \* requests and jobs that make captures
          Triages,      \* requests that ingest or discard one
          MaxEntries,   \* rss_max_entries_per_poll and browser_history_max_entries_per_poll
          Skew,         \* how far local time is behind UTC
          Day,          \* bound on the clock
          MaxCaptures   \* bound on captures

ASSUME CaptureAssumption == {MaxEntries, Skew, Day, MaxCaptures} \subseteq Nat /\ Day # 0

VARIABLES inbox,        \* CaptureSource rows, in the order they were made
          feed,         \* the RssFeed row
          dull,         \* entries without text, and URLs the adapter's patterns keep out
          published,    \* the feed's document, newest entry first
          adapter,      \* the AmbientAdapterSetting row
          visited,      \* the browser's history: last visit of a URL, 0 for none
          clock,
          writer, triage,
          kept,         \* keys that have a Source
          listed,       \* history: entries listed to polls that succeeded
          crossed,      \* history: keys two writers were adding at once
          excused       \* history: URLs passed over, or visited while a poll ran

captureVars == <<inbox, feed, dull, published, adapter, visited, clock, writer, triage, kept, listed, crossed, excused>>
captureStored == <<feed, dull, published, adapter, visited, clock, triage, kept>>

Absent == [there |-> FALSE, on |-> FALSE, polled |-> 0]
Free == [pc |-> "idle", kind |-> "none", todo |-> {}, new |-> {}, entries |-> {}]
Untouched == [pc |-> "idle"]
Captured == {inbox[i].key : i \in DOMAIN inbox}

CaptureTypeOK ==
    /\ \A i \in DOMAIN inbox : inbox[i].key \in Keys /\ inbox[i].status \in {"captured", "ingested", "discarded"}
    /\ feed.on \in BOOLEAN /\ adapter.polled \in 0 .. Day
    /\ \A w \in Writers : writer[w].todo \cup writer[w].new \subseteq Keys
    /\ listed \cup crossed \cup excused \cup kept \subseteq Keys

CaptureInit ==
    /\ inbox = <<>> /\ feed = Absent /\ dull \in SUBSET Keys /\ published = <<>> /\ adapter = Absent
    /\ visited = [u \in Keys |-> 0] /\ clock = 1
    /\ writer = [w \in Writers |-> Free]
    /\ triage = [t \in Triages |-> Untouched]
    /\ kept = {} /\ listed = {} /\ crossed = {} /\ excused = {}

----------------------------------------------------------------------------
(* What the world does (external): a publisher adds an entry, the user       *)
(* visits a page, time passes.                                               *)
PublishEntry(k) ==
    /\ ~Contains(published, k)
    /\ published' = <<k>> \o published
    /\ UNCHANGED <<inbox, feed, dull, adapter, visited, clock, writer, triage, kept, listed, crossed, excused>>

PollsHistory(w) == writer[w].kind = "history"

VisitPage(u) ==
    /\ visited[u] < clock
    /\ visited' = [visited EXCEPT ![u] = clock]
    /\ excused' = IF \E w \in Writers : PollsHistory(w) THEN excused \cup {u} ELSE excused \ {u}
    /\ UNCHANGED <<inbox, feed, dull, published, adapter, clock, writer, triage, kept, listed, crossed>>

Wait ==
    /\ clock < Day /\ clock' = clock + 1
    /\ UNCHANGED <<inbox, feed, dull, published, adapter, visited, writer, triage, kept, listed, crossed, excused>>

----------------------------------------------------------------------------
(* RssService.subscribe finds the row or makes it; toggle_feed; delete_feed. *)
subscribe ==
    /\ ~feed.there
    /\ feed' = [there |-> TRUE, on |-> TRUE, polled |-> 0]
    /\ UNCHANGED <<inbox, dull, published, adapter, visited, clock, writer, triage, kept, listed, crossed, excused>>

toggle_feed ==
    /\ feed.there
    /\ feed' = [feed EXCEPT !.on = ~@]
    /\ UNCHANGED <<inbox, dull, published, adapter, visited, clock, writer, triage, kept, listed, crossed, excused>>

delete_feed ==
    /\ feed.there
    /\ feed' = Absent
    /\ UNCHANGED <<inbox, dull, published, adapter, visited, clock, writer, triage, kept, listed, crossed, excused>>

(* AmbientService.configure_adapter: the row keeps its last_polled_at. *)
configure_adapter(on) ==
    /\ adapter.there => adapter.on # on
    /\ adapter' = [adapter EXCEPT !.there = TRUE, !.on = on]
    /\ UNCHANGED <<inbox, feed, dull, published, visited, clock, writer, triage, kept, listed, crossed, excused>>

----------------------------------------------------------------------------
Begin(w, kind, items, entries) ==
    /\ writer[w].pc = "idle"
    /\ writer' = [writer EXCEPT ![w] =
          [pc |-> "look", kind |-> kind, todo |-> items, new |-> {}, entries |-> entries]]
    /\ UNCHANGED <<inbox, feed, dull, published, adapter, visited, clock, triage, kept, listed, crossed>>

(* create_capture of a note, a link or a clipping. *)
create_capture(w, k) == Begin(w, "note", {k}, {}) /\ UNCHANGED excused

(* _parse_feed_entries: what the document lists, up to the limit. *)
FeedEntries == ToSet(SubSeq(published, 1, Min({MaxEntries, Len(published)})))

(* RssAdapter.poll_feed fetches the document of a feed, asked for by the     *)
(* user, or by poll_all_feeds if the feed is enabled. Entries without text   *)
(* are passed over.                                                          *)
poll_feed(w, asked) ==
    /\ feed.there /\ (asked \/ feed.on)
    /\ Begin(w, "feed", FeedEntries \ dull, FeedEntries)
    /\ UNCHANGED excused

(* The fetch fails, or the document cannot be parsed: only the row's stamp   *)
(* and message are saved.                                                    *)
FetchFails ==
    /\ feed.there /\ feed.polled # clock
    /\ feed' = [feed EXCEPT !.polled = clock]
    /\ UNCHANGED <<inbox, dull, published, adapter, visited, clock, writer, triage, kept, listed, crossed, excused>>

(* _read_chrome_history and _read_firefox_history: what was visited since    *)
(* the second of the last poll, a UTC time that timestamp() takes for local  *)
(* time.                                                                     *)
Unread ==
    {u \in Keys : visited[u] > 0 /\ (adapter.polled > 0 => visited[u] >= adapter.polled + Skew)}

(* The newest of them, up to the limit. *)
Newest(s) ==
    {r \in SUBSET s :
        /\ Cardinality(r) = Min({MaxEntries, Cardinality(s)})
        /\ \A u \in r, v \in s \ r : visited[u] >= visited[v]}

(* BrowserHistoryAdapter.poll copies the browser's database, reads it and    *)
(* keeps the URLs that match. A database that is not there, or that cannot   *)
(* be read, has no entries.                                                  *)
poll(w, asked) ==
    /\ adapter.there /\ (asked \/ adapter.on)
    /\ \E read \in Newest(Unread) \cup {{}} :
         /\ Begin(w, "history", read \ dull, {})
         /\ excused' = excused \cup ((Unread \ read) \cup (read \cap dull))

(* One item is looked up, in _save_captured_items, poll_feed or              *)
(* create_capture.                                                           *)
Examine(w, k) ==
    /\ writer[w].pc = "look" /\ k \in writer[w].todo
    /\ writer' = [writer EXCEPT ![w] =
          [@ EXCEPT !.todo = writer[w].todo \ {k},
                    !.new = IF k \in Captured THEN writer[w].new ELSE writer[w].new \cup {k}]]
    /\ crossed' = IF k \notin Captured /\ \E v \in Writers : k \in writer[v].new THEN crossed \cup {k} ELSE crossed
    /\ UNCHANGED <<inbox, captureStored, listed, excused>>

NewRows(ks) == [i \in 1 .. Cardinality(ks) |-> [key |-> SetToSeq(ks)[i], status |-> "captured", source |-> FALSE]]

Room(w) == Len(inbox) + Cardinality(writer[w].new) <= MaxCaptures

(* The commit of what a note or a poll of the history adds. *)
SaveItems(w) ==
    /\ writer[w].pc = "look" /\ writer[w].todo = {} /\ writer[w].kind # "feed" /\ Room(w)
    /\ inbox' = inbox \o NewRows(writer[w].new)
    /\ writer' = [writer EXCEPT ![w] = IF PollsHistory(w) THEN [@ EXCEPT !.pc = "mark", !.new = {}] ELSE Free]
    /\ UNCHANGED <<captureStored, listed, crossed, excused>>

(* A poll of a feed commits its captures with the row's stamp. *)
SaveFeed(w) ==
    /\ writer[w].pc = "look" /\ writer[w].todo = {} /\ writer[w].kind = "feed" /\ feed.there /\ Room(w)
    /\ inbox' = inbox \o NewRows(writer[w].new)
    /\ feed' = [feed EXCEPT !.polled = clock]
    /\ listed' = listed \cup writer[w].entries
    /\ writer' = [writer EXCEPT ![w] = Free]
    /\ UNCHANGED <<dull, published, adapter, visited, clock, triage, kept, crossed, excused>>

(* last_polled_at is now, in a commit of its own. *)
MarkPolled(w) ==
    /\ writer[w].pc = "mark"
    /\ adapter' = [adapter EXCEPT !.polled = clock]
    /\ writer' = [writer EXCEPT ![w] = Free]
    /\ UNCHANGED <<inbox, feed, dull, published, visited, clock, triage, kept, listed, crossed, excused>>

(* A writer dies, or fails: the update of a deleted feed rolls its captures  *)
(* back, and what a poll of the history had committed stays.                 *)
GiveUp(w) ==
    /\ writer[w].pc # "idle"
    /\ writer' = [writer EXCEPT ![w] = Free]
    /\ UNCHANGED <<inbox, captureStored, listed, crossed, excused>>

----------------------------------------------------------------------------
(* Mutant of ingest_capture: the row is marked when the work begins. *)
MarkFirst(t, i) ==
    /\ triage[t].pc = "idle" /\ i \in DOMAIN inbox /\ inbox[i].status # "ingested"
    /\ triage' = [triage EXCEPT ![t] = [pc |-> "ingest", row |-> i]]
    /\ inbox' = [inbox EXCEPT ![i].status = "ingested"]
    /\ UNCHANGED <<feed, dull, published, adapter, visited, clock, writer, kept, listed, crossed, excused>>

(* ingest_capture of a row that is not ingested; of one that is, it only     *)
(* answers.                                                                  *)
ingest_capture(t, i) ==
    /\ triage[t].pc = "idle" /\ i \in DOMAIN inbox /\ inbox[i].status # "ingested"
    /\ triage' = [triage EXCEPT ![t] = [pc |-> "ingest", row |-> i]]
    /\ UNCHANGED <<inbox, feed, dull, published, adapter, visited, clock, writer, kept, listed, crossed, excused>>

(* ingest_url or ingest_text commits the source, or finds the one there is. *)
MakeSource(t) ==
    /\ triage[t].pc = "ingest"
    /\ kept' = kept \cup {inbox[triage[t].row].key}
    /\ triage' = [triage EXCEPT ![t].pc = "save"]
    /\ UNCHANGED <<inbox, feed, dull, published, adapter, visited, clock, writer, listed, crossed, excused>>

(* The row is updated; the foreign key refuses a source that is gone. *)
SaveIngested(t) ==
    /\ triage[t].pc = "save"
    /\ inbox' = IF inbox[triage[t].row].key \notin kept THEN inbox
                ELSE [inbox EXCEPT ![triage[t].row] = [@ EXCEPT !.status = "ingested", !.source = TRUE]]
    /\ triage' = [triage EXCEPT ![t] = Untouched]
    /\ UNCHANGED <<feed, dull, published, adapter, visited, clock, writer, kept, listed, crossed, excused>>

(* discard_capture loads a row, of any status, and saves its own columns;    *)
(* a status that was "discarded" before is not written.                      *)
discard_capture(t, i) ==
    /\ triage[t].pc = "idle" /\ i \in DOMAIN inbox
    /\ triage' = [triage EXCEPT ![t] = [pc |-> "discard", row |-> i, seen |-> inbox[i].status]]
    /\ UNCHANGED <<inbox, feed, dull, published, adapter, visited, clock, writer, kept, listed, crossed, excused>>

SaveDiscarded(t) ==
    /\ triage[t].pc = "discard"
    /\ inbox' = IF triage[t].seen = "discarded" THEN inbox
                ELSE [inbox EXCEPT ![triage[t].row].status = "discarded"]
    /\ triage' = [triage EXCEPT ![t] = Untouched]
    /\ UNCHANGED <<feed, dull, published, adapter, visited, clock, writer, kept, listed, crossed, excused>>

(* delete_source: the database refuses while a capture refers to the row. *)
DeleteSource(k) ==
    /\ k \in kept /\ \A i \in DOMAIN inbox : inbox[i].key = k => ~inbox[i].source
    /\ kept' = kept \ {k}
    /\ UNCHANGED <<inbox, feed, dull, published, adapter, visited, clock, writer, triage, listed, crossed, excused>>

----------------------------------------------------------------------------
(* Notes and what every writer does. *)
WriterNext ==
    \E w \in Writers :
        \/ \E k \in Keys : create_capture(w, k) \/ Examine(w, k)
        \/ SaveItems(w) \/ GiveUp(w)

FeedNext ==
    \/ \E k \in Keys : PublishEntry(k)
    \/ subscribe \/ toggle_feed \/ delete_feed \/ FetchFails
    \/ \E w \in Writers : SaveFeed(w) \/ \E asked \in BOOLEAN : poll_feed(w, asked)

HistoryNext ==
    \/ \E u \in Keys : VisitPage(u)
    \/ Wait \/ \E on \in BOOLEAN : configure_adapter(on)
    \/ \E w \in Writers : MarkPolled(w) \/ \E asked \in BOOLEAN : poll(w, asked)

TriageNext ==
    \/ \E t \in Triages :
          \/ \E i \in 1 .. MaxCaptures : ingest_capture(t, i) \/ discard_capture(t, i)
          \/ MakeSource(t) \/ SaveIngested(t) \/ SaveDiscarded(t)
    \/ \E k \in Keys : DeleteSource(k)

----------------------------------------------------------------------------
(* An item is captured once, whichever of notes, feeds and the history it    *)
(* comes from, unless two writers were adding it at the same time.           *)
CapturedOnce ==
    \A i, j \in DOMAIN inbox : i # j /\ inbox[i].key = inbox[j].key => inbox[i].key \in crossed

(* Every entry with text that a successful poll of a feed listed is in the   *)
(* inbox, whatever was deleted, switched off or polled at the same time.     *)
FeedCaught == listed \ dull \subseteq Captured

(* A page visited before the last poll of the history is in the inbox,       *)
(* unless a poll passed over it (the limit, the patterns, an unreadable      *)
(* database) or it was visited while a poll was running.                     *)
VisitsKept == \A u \in Keys : 0 < visited[u] /\ visited[u] < adapter.polled => u \in Captured \cup excused

(* A capture that counts as ingested has its source, however requests to     *)
(* ingest, discard and delete overlap.                                       *)
IngestedHasSource ==
    \A i \in DOMAIN inbox : inbox[i].status = "ingested" => inbox[i].source /\ inbox[i].key \in kept
=============================================================================
