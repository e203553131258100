-------------------------------- MODULE Lint --------------------------------
(***************************************************************************)
(* engine/linter/, services/linter.py, services/contradiction.py and       *)
(* worker.lint_wiki: the lint runs of one user and what users do with      *)
(* their findings.                                                         *)
(*                                                                         *)
(* A run works in one transaction from its report row to its last finding: *)
(* until it commits, others see nothing of it, and a second run that wants *)
(* to insert a row with the same key waits for it and then fails.          *)
(***************************************************************************)
EXTENDS Naturals, FiniteSets, FiniteSetsExt, Functions

CONSTANTS LintPages,    \* the user's articles
          Pairs,        \* pairs of articles that share a concept
          Shared,       \* how many concepts each pair shares
          MaxPairs,     \* linter.max_contradiction_pairs_per_concept
          Clashes,      \* pairs of claims the LLM may report
          OneWay,       \* symmetric links that lack their inverse at first
          Claimless,    \* articles without claims
          Edited,       \* articles that are edited or recompiled meanwhile
          Flawed,       \* pages without concepts, long not reinforced, or with stale spans
          Lints,        \* lint jobs: POST /lint/run and the weekly cron
          Dismissals    \* requests to dismiss a finding

ASSUME LintAssumption ==
    /\ Pairs \subseteq SUBSET LintPages
    /\ \A p \in Pairs : Cardinality(p) = 2
    /\ Shared \in [Pairs -> Nat \ {0}]
    /\ OneWay \subseteq LintPages \X LintPages /\ Flawed \subseteq LintPages
    /\ IsFiniteSet(LintPages) /\ IsFiniteSet(Clashes)

VARIABLES stamp,        \* Article.updated_at, as a version
          cache,        \* LintPairCache rows
          link,         \* Backlink rows, by their primary key
          active,       \* ACTIVE Contradiction rows of each fingerprint
          closed,       \* Contradiction rows of another status
          forgotten,    \* DismissedFinding rows, by content_hash
          report,       \* LintReport rows and their findings
          lint,         \* control state and transaction of each run
          dismissal,    \* control state of each dismissal
          queued,       \* recompiles queued because of each pair
          overlapped,   \* history: two runs were under way at once
          reopened,     \* history: a closed contradiction was set ACTIVE again
          disturbed     \* history: dismissals crossed or hit a dismissed finding

lintVars == <<stamp, cache, link, active, closed, forgotten, report, lint, dismissal,
              queued, overlapped, reopened, disturbed>>

(* Bound: versions of an article, and rows of one fingerprint. *)
MaxStamp == 1
MaxRows == 2

Fingerprints == Pairs \X Clashes
Empty == [x \in {} |-> x]

(* A finding: its kind, the pages it is about, and what tells it from others *)
(* of that kind in the report.  content_hash has only the kind and the pages. *)
Finding(kind, of, what, n) == <<kind, of, what, n>>
content_hash(f) == <<f[1], f[2]>>

NotRun == [pc |-> "idle", concept |-> 0, loaded |-> Empty, seen |-> {}, known |-> {},
           asked |-> Empty, cache |-> Empty, link |-> {}, on |-> "none",
           found |-> {}, hidden |-> {}, make |-> {}]
NoReport == [status |-> "none", open |-> {}, gone |-> {}, total |-> 0, dismissed |-> 0]
NoDismissal == [pc |-> "idle", report |-> "none", finding |-> "none", counts |-> <<0, 0>>,
                add |-> FALSE]

LintTypeOK ==
    /\ stamp \in [LintPages -> 0 .. MaxStamp]
    /\ DOMAIN cache \subseteq Pairs
    /\ link \subseteq LintPages \X LintPages
    /\ active \in [Fingerprints -> 0 .. MaxRows]
    /\ closed \in [Fingerprints -> 0 .. MaxRows]
    /\ \A l \in Lints : report[l].status \in {"none", "IN_PROGRESS", "COMPLETE", "FAILED"}
    /\ \A l \in Lints : lint[l].pc \in {"idle", "begin", "pairs", "wait", "suppress", "records",
                                        "commit", "recompile", "end", "error", "done", "failed", "dead"}
    /\ queued \in [Pairs -> Nat]

LintInit ==
    /\ stamp = [a \in LintPages |-> 0]
    /\ cache = Empty
    /\ link = OneWay
    /\ active = [f \in Fingerprints |-> 0]
    /\ closed = [f \in Fingerprints |-> 0]
    /\ forgotten = {}
    /\ report = [l \in Lints |-> NoReport]
    /\ lint = [l \in Lints |-> NotRun]
    /\ dismissal = [d \in Dismissals |-> NoDismissal]
    /\ queued = [p \in Pairs |-> 0]
    /\ overlapped = FALSE /\ reopened = FALSE /\ disturbed = FALSE

----------------------------------------------------------------------------
Ended == {"idle", "done", "failed", "dead"}
InTransaction(l) == lint[l].pc \in {"pairs", "wait", "suppress", "records", "commit"}
Others(l) == {o \in Lints \ {l} : InTransaction(o)}

(* lint_wiki: a Job row RUNNING, committed, and then the run. *)
lint_wiki(l) ==
    /\ lint[l].pc = "idle"
    /\ lint' = [lint EXCEPT ![l].pc = "begin"]
    /\ overlapped' = (overlapped \/ \E o \in Lints \ {l} : lint[o].pc \notin Ended)
    /\ UNCHANGED <<stamp, cache, link, active, closed, forgotten, report, dismissal, queued,
                   reopened, disturbed>>

(* _check_in_progress: the user's reports that are IN_PROGRESS, as committed. *)
_check_in_progress == {o \in Lints : report[o].status = "IN_PROGRESS"}

(* _snapshot_existing_contradiction_hashes *)
KnownHashes == {content_hash(f) : f \in
                  {g \in UNION {report[o].open \cup report[o].gone : o \in Lints} :
                      g[1] = "contradiction"}}

(* _collect_work: the pairs of a concept, or a random sample of them.        *)
LastConcept == Max({Shared[p] : p \in Pairs})
_collect_work(c) ==
    LET pairs == {p \in Pairs : c <= Shared[p]}
    IN kSubset(Min({MaxPairs, Cardinality(pairs)}), pairs)

Start(l) ==
    [lint[l] EXCEPT !.seen = KnownHashes, !.loaded = stamp, !.pc = "pairs"]

(* Mutant of OpenReport: the new report is committed at once. *)
OpenAndCommit(l) ==
    /\ lint[l].pc = "begin"
    /\ lint' = [lint EXCEPT ![l] = [Start(l) EXCEPT !.known = forgotten]]
    /\ report' = [report EXCEPT ![l].status = "IN_PROGRESS"]
    /\ UNCHANGED <<stamp, cache, link, active, closed, forgotten, dismissal, queued,
                   overlapped, reopened, disturbed>>

(* run_lint up to the checks: the report is flushed, not committed.  A run   *)
(* that finds another's report in progress returns that one.                 *)
OpenReport(l) ==
    /\ lint[l].pc = "begin"
    /\ lint' = [lint EXCEPT ![l] =
           IF _check_in_progress # {} THEN [@ EXCEPT !.pc = "end"]
           ELSE [Start(l) EXCEPT !.known = forgotten]]
    /\ UNCHANGED <<stamp, cache, link, active, closed, forgotten, report, dismissal, queued,
                   overlapped, reopened, disturbed>>

----------------------------------------------------------------------------
(* Phase 1: contradictions. *)

(* The rows of a transaction, before those that are committed. *)
Merged(mine, rows) ==
    [x \in DOMAIN mine \cup DOMAIN rows |-> IF x \in DOMAIN mine THEN mine[x] ELSE rows[x]]

(* _check_pair_cache: the row, if the versions of both articles are the ones *)
(* it was made for.                                                          *)
_check_pair_cache(l, p) ==
    LET row == Merged(lint[l].cache, cache) IN
    IF p \in DOMAIN row /\ row[p].at = Restrict(lint[l].loaded, p) THEN {row[p].said} ELSE {}

(* _create_contradiction_backlink: both directions, unless linked already.   *)
_create_contradiction_backlink(l, p, said) ==
    IF said = {} THEN {}
    ELSE {e \in p \X p : e[1] # e[2]} \ (link \cup lint[l].link)

(* Open transactions that have inserted a row with a key this one needs.     *)
Held(l, keys, edges) ==
    {o \in Others(l) : keys \cap DOMAIN lint[o].cache # {} \/ edges \cap lint[o].link # {}}

(* The rows are inserted, or the insert waits for the one that holds a key.  *)
InsertOrWait(l, keys, edges, run) ==
    lint' = [lint EXCEPT ![l] =
        IF Held(l, keys, edges) = {} THEN [run EXCEPT !.link = @ \cup edges]
        ELSE [@ EXCEPT !.pc = "wait", !.on = CHOOSE o \in Held(l, keys, edges) : TRUE]]

Report(w, said) == {Finding("contradiction", w[1], c, w[2]) : c \in said}

(* detect_contradictions, one concept: the findings of its cached pairs are  *)
(* reported again, and the claims of the others are read, where both         *)
(* articles have some (_extract_claims).                                     *)
NextConcept(l, pairs) ==
    LET c == lint[l].concept + 1
        cached == {p \in pairs : _check_pair_cache(l, p) # {}}
        said(p) == CHOOSE x \in _check_pair_cache(l, p) : TRUE
        ask == {p \in pairs \ cached : p \cap Claimless = {}}
    IN
    /\ lint[l].pc = "pairs" /\ lint[l].asked = Empty /\ c <= LastConcept
    /\ pairs \in _collect_work(c)
    /\ InsertOrWait(l, {}, UNION {_create_contradiction_backlink(l, p, said(p)) : p \in cached},
           [lint[l] EXCEPT !.concept = c,
                           !.asked = [p \in ask |-> Restrict(stamp, p)],
                           !.found = @ \cup UNION {Report(<<p, c>>, said(p)) : p \in cached}])
    /\ UNCHANGED <<stamp, cache, link, active, closed, forgotten, report, dismissal, queued,
                   overlapped, reopened, disturbed>>

(* Mutant of _save_pair_cache: the row is stamped with the versions of now.  *)
StampNow(l, p, said) ==
    Merged([q \in {p} |-> [at |-> Restrict(stamp, p), said |-> said, of |-> lint[l].asked[p]]],
         lint[l].cache)

(* _save_pair_cache: the row is stamped with the versions the run loaded at  *)
(* its start; of, the versions whose claims were compared, is not stored.    *)
_save_pair_cache(l, p, said) ==
    Merged([q \in {p} |-> [at |-> Restrict(lint[l].loaded, p), said |-> said, of |-> lint[l].asked[p]]],
         lint[l].cache)

(* One LLM answer for a pair: what it says, or one that cannot be read.      *)
Unreadable == {"unreadable"}
Answers == (SUBSET Clashes) \cup {Unreadable}

(* _compare_article_pair: an answer that cannot be read is no contradiction. *)
_compare_article_pair(answer) == IF answer = Unreadable THEN {} ELSE answer

(* _run_batch: a second attempt when the first answer for the batch cannot   *)
(* be read, and then the pairs one by one.                                   *)
_run_batch(first, second, single) ==
    IF first # Unreadable THEN first
    ELSE IF second # Unreadable THEN second ELSE _compare_article_pair(single)

PairResults == {_run_batch(first, second, single) : first, second, single \in Answers}

(* _process_uncached_pairs: the result for a pair is cached and linked.      *)
ComparePair(l, p, said) ==
    /\ lint[l].pc = "pairs" /\ p \in DOMAIN lint[l].asked
    /\ InsertOrWait(l, {p}, _create_contradiction_backlink(l, p, said),
                    [lint[l] EXCEPT !.asked = Restrict(@, DOMAIN @ \ {p}),
                                    !.found = @ \cup Report(<<p, lint[l].concept>>, said),
                                    !.cache = _save_pair_cache(l, p, said)])
    /\ UNCHANGED <<stamp, cache, link, active, closed, forgotten, report, dismissal, queued,
                   overlapped, reopened, disturbed>>

(* The transaction that held the key has ended.  If it committed, or if the  *)
(* two wait for each other, the insert fails: the session is unusable, the   *)
(* report cannot be marked either, and nothing of the run is kept.           *)
Resume(l) ==
    LET o == lint[l].on IN
    /\ lint[l].pc = "wait"
    /\ \/ /\ InTransaction(o) /\ lint[o].pc = "wait" /\ lint[o].on = l
          /\ lint' = [lint EXCEPT ![l] = [NotRun EXCEPT !.pc = "error"]]
       \/ /\ ~InTransaction(o)
          /\ lint' = [lint EXCEPT ![l] = IF report[o].status # "none" THEN [NotRun EXCEPT !.pc = "error"]
                                         ELSE [@ EXCEPT !.pc = "pairs", !.on = "none"]]
    /\ UNCHANGED <<stamp, cache, link, active, closed, forgotten, report, dismissal, queued,
                   overlapped, reopened, disturbed>>

----------------------------------------------------------------------------
(* Phases 2 to 5: orphans, the backlink enforcer, stale articles and spans.  *)
detect_orphans(edges) ==
    {Finding("orphan", {a}, "orphan", 1) :
        a \in {b \in LintPages : ~\E e \in edges : b \in {e[1], e[2]}}}

(* ensure_bidirectional: the inverses that are missing.  Links of this model *)
(* are of symmetric kinds.                                                   *)
ensure_bidirectional(edges) == {<<e[2], e[1]>> : e \in edges} \ edges

(* Every page is checked, and the missing inverses are inserted. *)
CheckPages(l) ==
    LET edges == link \cup lint[l].link
        missing == ensure_bidirectional(edges)
        repaired == {Finding("structural", {e[2]}, "inverse", 1) : e \in missing}
        other == {Finding("structural", {a}, "page", 1) : a \in Flawed}
    IN
    /\ lint[l].pc = "pairs" /\ lint[l].concept = LastConcept /\ lint[l].asked = Empty
    /\ InsertOrWait(l, {}, missing,
                    [lint[l] EXCEPT !.pc = "suppress",
                         !.found = @ \cup detect_orphans(edges) \cup repaired \cup other])
    /\ UNCHANGED <<stamp, cache, link, active, closed, forgotten, report, dismissal, queued,
                   overlapped, reopened, disturbed>>

_apply_dismiss_suppression(l) ==
    /\ lint[l].pc = "suppress"
    /\ lint' = [lint EXCEPT ![l].pc = "records", ![l].hidden =
           {f \in lint[l].found : content_hash(f) \in forgotten}]
    /\ UNCHANGED <<stamp, cache, link, active, closed, forgotten, report, dismissal, queued,
                   overlapped, reopened, disturbed>>

Contradicting(l) == {f \in lint[l].found \ lint[l].hidden : f[1] = "contradiction"}

(* create_from_finding: a Contradiction row where no ACTIVE one has the      *)
(* fingerprint.                                                              *)
create_from_finding(l) ==
    {x \in {<<f[2], f[3]>> : f \in Contradicting(l)} : active[x] = 0}

Records(l) ==
    /\ lint[l].pc = "records"
    /\ lint' = [lint EXCEPT ![l].pc = "commit", ![l].make = create_from_finding(l)]
    /\ UNCHANGED <<stamp, cache, link, active, closed, forgotten, report, dismissal, queued,
                   overlapped, reopened, disturbed>>

(* _persist_and_finalize: the whole transaction is committed. *)
_persist_and_finalize(l) ==
    /\ lint[l].pc = "commit"
    /\ \A x \in lint[l].make : active[x] + closed[x] < MaxRows
    /\ cache' = Merged(lint[l].cache, cache)
    /\ link' = link \cup lint[l].link
    /\ active' = [x \in Fingerprints |-> active[x] + (IF x \in lint[l].make THEN 1 ELSE 0)]
    /\ LET open == lint[l].found \ lint[l].hidden IN
       report' = [report EXCEPT ![l] = [status |-> "COMPLETE", open |-> open, gone |-> lint[l].hidden,
                                        total |-> Cardinality(open),
                                        dismissed |-> Cardinality(lint[l].hidden)]]
    /\ lint' = [lint EXCEPT ![l].pc = "recompile"]
    /\ UNCHANGED <<stamp, closed, forgotten, dismissal, queued, overlapped, reopened, disturbed>>

(* Both articles of a pair the snapshot did not know are recompiled. *)
_queue_recompile_for_new_contradictions(l) ==
    /\ lint[l].pc = "recompile"
    /\ queued' = [p \in Pairs |->
           queued[p] + (IF \E f \in Contradicting(l) : f[2] = p /\ content_hash(f) \notin lint[l].seen
                        THEN 1 ELSE 0)]
    /\ lint' = [lint EXCEPT ![l] = [NotRun EXCEPT !.pc = "end"]]
    /\ UNCHANGED <<stamp, cache, link, active, closed, forgotten, report, dismissal, overlapped,
                   reopened, disturbed>>

(* run_lint's handler: the LLM or the daily spend limit raised.  The report  *)
(* is committed FAILED, and with it the cache and the links flushed so far.  *)
LintFails(l) ==
    /\ lint[l].pc = "pairs" /\ lint[l].asked # Empty
    /\ cache' = Merged(lint[l].cache, cache)
    /\ link' = link \cup lint[l].link
    /\ report' = [report EXCEPT ![l].status = "FAILED"]
    /\ lint' = [lint EXCEPT ![l] = [NotRun EXCEPT !.pc = "end"]]
    /\ UNCHANGED <<stamp, active, closed, forgotten, dismissal, queued, overlapped, reopened, disturbed>>

(* The Job row ends COMPLETE, also for a report that FAILED, or FAILED.      *)
EndJob(l) ==
    /\ lint[l].pc \in {"end", "error"}
    /\ lint' = [lint EXCEPT ![l].pc = IF @ = "end" THEN "done" ELSE "failed"]
    /\ UNCHANGED <<stamp, cache, link, active, closed, forgotten, report, dismissal, queued,
                   overlapped, reopened, disturbed>>

(* The process dies; the transaction is rolled back. *)
LintDies(l) ==
    /\ lint[l].pc \notin Ended
    /\ lint' = [lint EXCEPT ![l] = [NotRun EXCEPT !.pc = "dead"]]
    /\ UNCHANGED <<stamp, cache, link, active, closed, forgotten, report, dismissal, queued,
                   overlapped, reopened, disturbed>>

----------------------------------------------------------------------------
(* An article is edited or recompiled. *)
TouchPage(a) ==
    /\ a \in Edited /\ stamp[a] < MaxStamp
    /\ stamp' = [stamp EXCEPT ![a] = @ + 1]
    /\ UNCHANGED <<cache, link, active, closed, forgotten, report, lint, dismissal, queued,
                   overlapped, reopened, disturbed>>

(* dismiss_finding loads the finding, its report and the dismissal record. *)
LoadFinding(d, l, f) ==
    /\ dismissal[d].pc = "idle"
    /\ f \in report[l].open \cup report[l].gone
    /\ dismissal' = [dismissal EXCEPT ![d] =
           [pc |-> "write", report |-> l, finding |-> f,
            counts |-> <<report[l].total, report[l].dismissed>>,
            add |-> content_hash(f) \notin forgotten]]
    /\ disturbed' = (disturbed \/ f \in report[l].gone
                       \/ \E o \in Dismissals \ {d} : dismissal[o].pc = "write" /\ dismissal[o].report = l)
    /\ UNCHANGED <<stamp, cache, link, active, closed, forgotten, report, lint, queued, overlapped, reopened>>

(* The counts are written from the loaded ones; a dismissal record that was  *)
(* inserted meanwhile makes the whole request fail.                          *)
Counted(d) ==
    LET c == dismissal[d].counts IN <<IF c[1] = 0 THEN 0 ELSE c[1] - 1, c[2] + 1>>

dismiss_finding(d) ==
    LET l == dismissal[d].report  f == dismissal[d].finding IN
    /\ dismissal[d].pc = "write"
    /\ IF dismissal[d].add /\ content_hash(f) \in forgotten THEN UNCHANGED <<report, forgotten>>
       ELSE /\ report' = [report EXCEPT ![l].open = @ \ {f}, ![l].gone = @ \cup {f},
                                        ![l].total = Counted(d)[1], ![l].dismissed = Counted(d)[2]]
            /\ forgotten' = forgotten \cup {content_hash(f)}
    /\ dismissal' = [dismissal EXCEPT ![d] = [NoDismissal EXCEPT !.pc = "done"]]
    /\ UNCHANGED <<stamp, cache, link, active, closed, lint, queued, overlapped, reopened, disturbed>>

(* resolve_contradiction, to a status other than ACTIVE and back to it.      *)
CloseContradiction(x) ==
    /\ active[x] > 0
    /\ active' = [active EXCEPT ![x] = @ - 1]
    /\ closed' = [closed EXCEPT ![x] = @ + 1]
    /\ UNCHANGED <<stamp, cache, link, forgotten, report, lint, dismissal, queued, overlapped,
                   reopened, disturbed>>

ReopenContradiction(x) ==
    /\ closed[x] > 0
    /\ active' = [active EXCEPT ![x] = @ + 1]
    /\ closed' = [closed EXCEPT ![x] = @ - 1]
    /\ reopened' = TRUE
    /\ UNCHANGED <<stamp, cache, link, forgotten, report, lint, dismissal, queued, overlapped, disturbed>>

LintNext ==
    \/ \E l \in Lints :
          \/ lint_wiki(l)
          \/ OpenReport(l)
          \/ \E pairs \in SUBSET Pairs : NextConcept(l, pairs)
          \/ \E p \in DOMAIN lint[l].asked, said \in PairResults : ComparePair(l, p, said)
          \/ Resume(l) \/ CheckPages(l)
          \/ _apply_dismiss_suppression(l) \/ Records(l) \/ _persist_and_finalize(l)
          \/ _queue_recompile_for_new_contradictions(l)
          \/ LintFails(l) \/ EndJob(l) \/ LintDies(l)
    \/ \E a \in LintPages : TouchPage(a)
    \/ \E d \in Dismissals :
          \/ \E l \in Lints : \E f \in report[l].open \cup report[l].gone : LoadFinding(d, l, f)
          \/ dismiss_finding(d)
    \/ \E x \in Fingerprints : CloseContradiction(x) \/ ReopenContradiction(x)

----------------------------------------------------------------------------
(* A run that died leaves nothing behind that makes later runs return early: *)
(* run_lint answers any request with the report that is IN_PROGRESS.         *)
NoRunBlocked == \A l \in Lints : lint[l].pc = "dead" => report[l].status # "IN_PROGRESS"

(* The comment of _queue_recompile_for_new_contradictions: "This prevents    *)
(* recompile loops".  However often lint runs, also after failed runs, died  *)
(* ones and edits, one pair is recompiled once, unless two runs overlap.     *)
RecompileOnce == ~overlapped => \A p \in Pairs : queued[p] <= 1

(* A cached comparison that later runs will still use was made of the        *)
(* articles as they are.                                                     *)
CacheIsCurrent ==
    \A p \in DOMAIN cache : cache[p].at = Restrict(stamp, p) => cache[p].of = Restrict(stamp, p)

(* What a user dismissed before a run began is not reported as open by it,   *)
(* whatever the kind of the finding ("Persists across future lint runs").    *)
DismissalSticks ==
    \A l \in Lints : lint[l].pc = "recompile"
        => \A f \in lint[l].found \ lint[l].hidden : content_hash(f) \notin lint[l].known

(* A report's counts are those of its findings, unless dismissals of it      *)
(* crossed or repeated one another.                                          *)
CountsFindings ==
    ~disturbed => \A l \in Lints :
        report[l].status = "COMPLETE" =>
            /\ report[l].total = Cardinality(report[l].open)
            /\ report[l].dismissed = Cardinality(report[l].gone)

(* One pair of claims has one ACTIVE contradiction, however often it is      *)
(* found, unless runs overlap or a closed one is reopened.                   *)
OneActive == ~overlapped /\ ~reopened => \A x \in Fingerprints : active[x] <= 1
=============================================================================
