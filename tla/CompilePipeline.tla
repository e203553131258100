---------------------------- MODULE CompilePipeline ----------------------------
(****************************************************************************)
(* The compile pipeline of WikiMind: how a stored source becomes a wiki      *)
(* article (jobs/worker.py compile_source, engine/compiler.py save_article,  *)
(* jobs/background.py schedule_compile) and everything that can start,       *)
(* repeat or disturb a compile: ingest, POST /jobs/compile/{id}, the admin   *)
(* retry, source deletion, a crash, an ARQ job timeout and the start-up scan *)
(* main.py _reset_stuck_sources.                                             *)
(*                                                                           *)
(* A step is what happens between two points where another process can act: *)
(* a database commit, or an await on the LLM or on storage.  A run is one    *)
(* execution of compile_source.  It creates at most one Job row and at most  *)
(* one Article row, so a run also names the rows it creates.  The model has  *)
(* one user: every query of the pipeline is scoped by user_id.               *)
(****************************************************************************)
EXTENDS Naturals, FiniteSets

CONSTANTS
    None,             \* Python's None, SQL NULL, a file that does not exist
    Sources,          \* ids of Source rows
    Runs,             \* executions of compile_source; bounds how many happen
    Providers,        \* LLM providers the router may answer with
    Titles,           \* slugified titles the LLM may give an article
    Concepts,         \* first concept of a result: the directory of its file
    SlugMaxAttempts,  \* settings.compiler.slug_max_attempts
    Arq,              \* TRUE: redis_url is set, compiles run in ARQ workers;
                      \* FALSE: they are asyncio tasks of the gateway
    ForeignKeys,      \* TRUE on PostgreSQL; SQLite is used without the pragma
                      \* that makes it enforce foreign keys
    Events            \* which of the optional EventKinds may happen

(* "llm", "save", "post": the LLM call, a storage or database operation of   *)
(* the save, or the work after the job update raises.  "crash": a process    *)
(* dies.  "timeout": ARQ cancels a job after job_timeout.  "restart": a      *)
(* gateway worker starts.  "delete": a user deletes a source.  "manual":     *)
(* ingest with auto_compile off.                                             *)
EventKinds == {"llm", "save", "post", "crash", "timeout", "restart", "delete",
               "manual"}

ASSUME SlugAssumption == SlugMaxAttempts \in Nat
ASSUME ModeAssumption == Arq \in BOOLEAN /\ ForeignKeys \in BOOLEAN
ASSUME EventAssumption == Events \subseteq EventKinds

(* The candidate slugs of generate_unique_slug: <<t, 1>> is the base slug of *)
(* t and <<t, n>> is "t-n".  A wiki file is {concept}/{slug}.md.             *)
Slugs == Titles \X (1 .. SlugMaxAttempts)
Paths == Concepts \X Slugs

VARIABLES
    status,      \* Source.status; None before ingest, "deleted" after delete
    compiledAt,  \* Source.compiled_at is not NULL
    job,         \* Job.status of the row a run created
    run,         \* the local state of each execution
    article,     \* Article rows, by the run that inserted them
    link,        \* ArticleSource rows
    file,        \* wiki storage: which run last wrote each path
    claims,      \* CompiledClaim rows of an article: the runs that added them
    gateway      \* "up", or "starting": inside lifespan, before the reset scan

vars == <<status, compiledAt, job, run, article, link, file, claims, gateway>>

-----------------------------------------------------------------------------
(* Types *)

SourceStatus == {None, "pending", "processing", "compiled", "failed", "deleted"}

JobStatus == {None, "running", "complete", "failed"}

(* Where an execution is.  "idle": not scheduled yet; "queued": in the ARQ   *)
(* queue, or a created task that has not run; "done", "failed":              *)
(* compile_source returned, "failed" through its except clause; "dead": the  *)
(* process died or ARQ cancelled the coroutine.                              *)
Active == {"normalize", "llm", "save", "write", "unlink", "commit", "link",
           "index", "finish", "post", "error"}
PC == {"idle", "queued", "done", "failed", "dead"} \cup Active

Run == [pc       : PC,
        source   : Sources \cup {None},
        seen     : SourceStatus,             \* source_row.status as loaded
        doc      : BOOLEAN,                  \* doc passed by the ingest adapter
        provider : Providers \cup {None},    \* compiler._last_provider_used
        title    : Titles \cup {None},       \* result.title
        concept  : Concepts \cup {None},     \* result.concepts[0]
        existing : Runs \cup {None},         \* the row found, or None
        slug     : Slugs \cup {None},
        old      : Paths \cup {None}]        \* existing.file_path as loaded

(* An Article row. *)
Article == [slug : Slugs, provider : Providers, path : Paths,
            source : Sources,                \* the JSON source_ids column
            by : Runs]                       \* whose result its columns hold

ASSUME NoneAssumption ==
    /\ None \notin Sources \cup Runs \cup Providers \cup Titles \cup Concepts
    /\ None \notin Slugs \cup Paths
    /\ None \notin Article
    /\ None \notin {"pending", "processing", "compiled", "failed", "deleted",
                    "running", "complete"}

TypeOK ==
    /\ status \in [Sources -> SourceStatus]
    /\ compiledAt \in [Sources -> BOOLEAN]
    /\ job \in [Runs -> JobStatus]
    /\ run \in [Runs -> Run]
    /\ article \in [Runs -> Article \cup {None}]
    /\ link \subseteq (Runs \X Sources)
    /\ file \in [Paths -> Runs \cup {None}]
    /\ claims \in [Runs -> SUBSET Runs]
    /\ gateway \in {"up", "starting"}

-----------------------------------------------------------------------------
(* State functions *)

Exists(s) == status[s] \notin {None, "deleted"}
Articles == {a \in Runs : article[a] # None}
Path(r) == <<run[r].concept, run[r].slug>>

(* The row the save of r updates or inserts. *)
Target(r) == IF run[r].existing = None THEN r ELSE run[r].existing

(* r is scheduled or executing. *)
Busy(r) == run[r].pc \in Active \cup {"queued"}
BusyOn(s) == {r \in Runs : Busy(r) /\ run[r].source = s}

(* Mutant of RunningJobs: the query forgets the status filter. *)
AnyJobs(s) == {q \in Runs : run[q].source = s /\ job[q] # None}

(* What the error handler selects: every RUNNING job of the source, of any run. *)
RunningJobs(s) == {q \in Runs : run[q].source = s /\ job[q] = "running"}

IdleRun ==
    [pc |-> "idle", source |-> None, seen |-> None, doc |-> FALSE,
     provider |-> None, title |-> None, concept |-> None, existing |-> None,
     slug |-> None, old |-> None]

(* Local moves of an execution. *)
At(r, pc) == run[r].pc = pc
Goto(r, pc) == run' = [run EXCEPT ![r].pc = pc]
Fail(r) == Goto(r, "error")

stored == <<status, compiledAt, job, article, link, file, claims, gateway>>
wiki == <<article, link, file, claims>>

-----------------------------------------------------------------------------
Init ==
    /\ status = [s \in Sources |-> None]
    /\ compiledAt = [s \in Sources |-> FALSE]
    /\ job = [r \in Runs |-> None]
    /\ run = [r \in Runs |-> IdleRun]
    /\ article = [r \in Runs |-> None]
    /\ link = {}
    /\ file = [p \in Paths |-> None]
    /\ claims = [r \in Runs |-> {}]
    /\ gateway = "up"

-----------------------------------------------------------------------------
(* Requests.  A gateway that is starting serves nobody; with ARQ the other   *)
(* gunicorn workers go on serving.                                           *)

Serving == Arq \/ gateway = "up"

(* schedule_compile: enqueue_job, or create_task.  Only the in-process task  *)
(* receives the adapter's document.  Nothing looks for a run already busy.   *)
schedule_compile(r, s, doc) ==
    /\ At(r, "idle")
    /\ run' = [run EXCEPT ![r] = [IdleRun EXCEPT !.pc = "queued", !.source = s,
                                                 !.doc = doc /\ ~Arq]]

(* A new source, stored by its adapter with status PROCESSING, content and   *)
(* file, then scheduled.                                                     *)
IngestSource(s, r) ==
    /\ Serving /\ status[s] = None
    /\ status' = [status EXCEPT ![s] = "processing"]
    /\ schedule_compile(r, s, TRUE)
    /\ UNCHANGED <<compiledAt, job, wiki, gateway>>

(* The same with auto_compile off: PROCESSING, and nothing scheduled. *)
IngestOnly(s) ==
    /\ "manual" \in Events
    /\ Serving /\ status[s] = None
    /\ status' = [status EXCEPT ![s] = "processing"]
    /\ UNCHANGED <<compiledAt, job, run, wiki, gateway>>

(* Ingesting content that is already stored returns the stored source;       *)
(* _schedule_compile skips it when compiled_at is set.                       *)
ReingestSource(s, r) ==
    /\ Serving /\ Exists(s) /\ ~compiledAt[s]
    /\ schedule_compile(r, s, TRUE)
    /\ UNCHANGED stored

(* POST /jobs/compile/{source_id} *)
trigger_compile(s, r) ==
    /\ Serving /\ Exists(s)
    /\ schedule_compile(r, s, FALSE)
    /\ UNCHANGED stored

(* The admin console's retry, of any source with a file, stuck or not. *)
retry_stuck_source(s, r) ==
    /\ Serving /\ Exists(s)
    /\ status' = [status EXCEPT ![s] = "pending"]
    /\ schedule_compile(r, s, FALSE)
    /\ UNCHANGED <<compiledAt, job, wiki, gateway>>

(* Mutant of delete_source: the row goes whether or not it is linked. *)
delete_linked_source(s) ==
    /\ "delete" \in Events
    /\ Serving /\ Exists(s)
    /\ status' = [status EXCEPT ![s] = "deleted"]
    /\ UNCHANGED <<compiledAt, job, run, wiki, gateway>>

(* The foreign key of ArticleSource refuses the DELETE of a linked source,   *)
(* where foreign keys are enforced.                                          *)
delete_source(s) ==
    /\ "delete" \in Events
    /\ Serving /\ Exists(s)
    /\ ForeignKeys => \A a \in Runs : <<a, s>> \notin link
    /\ status' = [status EXCEPT ![s] = "deleted"]
    /\ UNCHANGED <<compiledAt, job, run, wiki, gateway>>

-----------------------------------------------------------------------------
(* compile_source, up to the save *)

(* Phase 1: the job row and PROCESSING are one commit. *)
StartRun(r) ==
    LET s == run[r].source IN
    /\ At(r, "queued")
    /\ IF Exists(s)
       THEN /\ status' = [status EXCEPT ![s] = "processing"]
            /\ job' = [job EXCEPT ![r] = "running"]
            /\ Goto(r, IF run[r].doc THEN "llm" ELSE "normalize")
       ELSE /\ Goto(r, "done")
            /\ UNCHANGED <<status, job>>
    /\ UNCHANGED <<compiledAt, wiki, gateway>>

(* Phase 2: a source deleted meanwhile ends the run by a plain return. *)
Normalize(r) ==
    /\ At(r, "normalize")
    /\ Goto(r, IF Exists(run[r].source) THEN "llm" ELSE "done")
    /\ UNCHANGED stored

(* Phase 3: the router answers with some provider and some result ... *)
Compile(r) ==
    /\ At(r, "llm")
    /\ \E p \in Providers, t \in Titles, c \in Concepts :
          run' = [run EXCEPT ![r] = [@ EXCEPT !.pc = "save", !.provider = p,
                                              !.title = t, !.concept = c]]
    /\ UNCHANGED stored

(* Mutant of CompileFails: "no result" is a plain return. *)
CompileGivesUp(r) ==
    /\ "llm" \in Events
    /\ At(r, "llm")
    /\ Goto(r, "done")
    /\ UNCHANGED stored

(* ... or every provider fails: "Compiler returned no result". *)
CompileFails(r) ==
    /\ "llm" \in Events
    /\ At(r, "llm")
    /\ Fail(r)
    /\ UNCHANGED stored

-----------------------------------------------------------------------------
(* save_article and _upsert_article, one database session *)

(* _find_article_for_source_and_provider: a join through ArticleSource. *)
Builds(r) == {a \in Articles : /\ <<a, run[r].source>> \in link
                               /\ article[a].provider = run[r].provider}

(* generate_unique_slug: the first candidate no article has, if any. *)
SlugTaken(slug) == \E a \in Articles : article[a].slug = slug

FreeSlug(t, slug) ==
    /\ slug \in {t} \X (1 .. SlugMaxAttempts)
    /\ ~SlugTaken(slug)
    /\ \A n \in 1 .. slug[2] - 1 : SlugTaken(<<t, n>>)

(* An earlier build of the provider is updated in place and keeps its slug. *)
SaveReplaces(r) ==
    /\ At(r, "save") /\ Exists(run[r].source)
    /\ \E a \in Builds(r) :
          run' = [run EXCEPT ![r] = [@ EXCEPT !.pc = "write", !.existing = a,
                                              !.slug = article[a].slug,
                                              !.old = article[a].path,
                                              !.seen = status[run[r].source]]]
    /\ UNCHANGED stored

(* Mutant of SaveCreates: the source is marked before its article exists. *)
SaveMarksFirst(r) ==
    /\ At(r, "save") /\ Exists(run[r].source)
    /\ Builds(r) = {}
    /\ \E slug \in Slugs :
          /\ FreeSlug(run[r].title, slug)
          /\ run' = [run EXCEPT ![r] = [@ EXCEPT !.pc = "write", !.slug = slug,
                                                 !.seen = status[run[r].source]]]
    /\ compiledAt' = [compiledAt EXCEPT ![run[r].source] = TRUE]
    /\ UNCHANGED <<status, job, wiki, gateway>>

(* Otherwise a slug is chosen now for a row that is inserted later. *)
SaveCreates(r) ==
    /\ At(r, "save") /\ Exists(run[r].source)
    /\ Builds(r) = {}
    /\ \E slug \in Slugs :
          /\ FreeSlug(run[r].title, slug)
          /\ run' = [run EXCEPT ![r] = [@ EXCEPT !.pc = "write", !.slug = slug,
                                                 !.seen = status[run[r].source]]]
    /\ UNCHANGED stored

(* The source disappeared, or slug_max_attempts candidates are all taken. *)
SaveRefused(r) ==
    /\ At(r, "save")
    /\ \/ ~Exists(run[r].source)
       \/ Builds(r) = {} /\ \A slug \in Slugs : ~FreeSlug(run[r].title, slug)
    /\ Fail(r)
    /\ UNCHANGED stored

(* Mutant of WriteFile: the old file is deleted even if it is the new one. *)
WriteThenUnlink(r) ==
    /\ At(r, "write")
    /\ file' = [file EXCEPT ![Path(r)] = r]
    /\ Goto(r, IF run[r].old # None THEN "unlink" ELSE "commit")
    /\ UNCHANGED <<status, compiledAt, job, article, link, claims, gateway>>

(* _write_article_file: before any row knows of the file. *)
WriteFile(r) ==
    /\ At(r, "write")
    /\ file' = [file EXCEPT ![Path(r)] = r]
    /\ Goto(r, IF run[r].old \notin {None, Path(r)} THEN "unlink" ELSE "commit")
    /\ UNCHANGED <<status, compiledAt, job, article, link, claims, gateway>>

(* "Delete old file only after new file is written successfully." *)
UnlinkOld(r) ==
    /\ At(r, "unlink")
    /\ file' = [file EXCEPT ![run[r].old] = None]
    /\ Goto(r, "commit")
    /\ UNCHANGED <<status, compiledAt, job, article, link, claims, gateway>>

(* Mutant of CommitRefused: no unique constraint on the slug. *)
CommitUnlessGone(r) == ~Exists(run[r].source)

(* The first commit of _upsert_article is refused when the source row is     *)
(* gone, or a new row's slug is taken (uq_article_user_slug).                *)
CommitRefused(r) ==
    \/ ~Exists(run[r].source)
    \/ run[r].existing = None /\ SlugTaken(run[r].slug)

(* file_path after the commit: left out of the UPDATE when it is the path    *)
(* that was loaded.                                                          *)
WrittenPath(r) ==
    IF Path(r) = run[r].old THEN article[Target(r)].path ELSE Path(r)

(* Mutant of CommitArticle: a replaced article keeps its old claims. *)
CommitKeepsClaims(r) ==
    LET s == run[r].source
        a == Target(r)
    IN
    /\ At(r, "commit")
    /\ ~CommitRefused(r)
    /\ article' = [article EXCEPT ![a] =
          [slug |-> run[r].slug, provider |-> run[r].provider,
           path |-> Path(r), source |-> s, by |-> r]]
    /\ link' = {l \in link : l[1] # a}
    /\ status' = [status EXCEPT ![s] = "compiled"]
    /\ compiledAt' = [compiledAt EXCEPT ![s] = TRUE]
    /\ Goto(r, "link")
    /\ UNCHANGED <<job, file, claims, gateway>>

(* The article's columns, its cleared relations and the source's COMPILED    *)
(* are one commit.  WrittenPath and seen: the ORM writes a column only when  *)
(* the value set differs from the value this session loaded.                 *)
CommitArticle(r) ==
    LET s == run[r].source
        a == Target(r)
    IN
    /\ At(r, "commit")
    /\ ~CommitRefused(r)
    /\ IF run[r].existing = None
       THEN article' = [article EXCEPT ![a] =
                          [slug |-> run[r].slug, provider |-> run[r].provider,
                           path |-> Path(r), source |-> s, by |-> r]]
       ELSE article' = [article EXCEPT ![a] = [@ EXCEPT !.by = r,
                                                        !.path = WrittenPath(r)]]
    /\ link' = {l \in link : l[1] # a}
    /\ claims' = [claims EXCEPT ![a] = {}]
    /\ status' = [status EXCEPT ![s] = IF run[r].seen = "compiled" THEN @
                                       ELSE "compiled"]
    /\ compiledAt' = [compiledAt EXCEPT ![s] = TRUE]
    /\ Goto(r, "link")
    /\ UNCHANGED <<job, file, gateway>>

(* Mutant of CommitFails: the constraint error is swallowed. *)
CommitIgnored(r) ==
    /\ At(r, "commit")
    /\ CommitRefused(r)
    /\ Goto(r, "finish")
    /\ UNCHANGED stored

(* The commit raises; the file has been written and the old one deleted.      *)
CommitFails(r) ==
    /\ At(r, "commit")
    /\ CommitRefused(r)
    /\ Fail(r)
    /\ UNCHANGED stored

(* The second commit inserts the ArticleSource row: a primary key, with a    *)
(* foreign key to the source.                                                *)
LinkRefused(r) ==
    \/ ForeignKeys /\ ~Exists(run[r].source)
    \/ <<Target(r), run[r].source>> \in link

(* The row is inserted and committed. *)
LinkArticle(r) ==
    /\ At(r, "link")
    /\ ~LinkRefused(r)
    /\ link' = link \cup {<<Target(r), run[r].source>>}
    /\ Goto(r, "index")
    /\ UNCHANGED <<status, compiledAt, job, article, file, claims, gateway>>

(* It is refused: the article stays committed, and the run fails. *)
LinkFails(r) ==
    /\ At(r, "link")
    /\ LinkRefused(r)
    /\ Fail(r)
    /\ UNCHANGED stored

(* Search index, backlinks, claims, confidence, taxonomy and index.md: of    *)
(* these commits the model keeps the claims.                                 *)
IndexArticle(r) ==
    /\ At(r, "index")
    /\ claims' = [claims EXCEPT ![Target(r)] = @ \cup {r}]
    /\ Goto(r, "finish")
    /\ UNCHANGED <<status, compiledAt, job, article, link, file, gateway>>

(* A storage or database error in any step of the save; after _persist_claims *)
(* the claims are there.                                                      *)
SaveFails(r) ==
    /\ "save" \in Events
    /\ run[r].pc \in {"save", "write", "unlink", "commit", "link", "index", "finish"}
    /\ \E persisted \in BOOLEAN :
          /\ persisted => At(r, "index")
          /\ claims' = IF persisted THEN [claims EXCEPT ![Target(r)] = @ \cup {r}]
                       ELSE claims
    /\ Fail(r)
    /\ UNCHANGED <<status, compiledAt, job, article, link, file, gateway>>

-----------------------------------------------------------------------------
(* The end of a run *)

(* Mutant of FinishJob: IngestStatus.COMPILED where JobStatus.COMPLETE belongs. *)
FinishWrongEnum(r) ==
    /\ At(r, "finish")
    /\ job' = [job EXCEPT ![r] = "compiled"]
    /\ Goto(r, "post")
    /\ UNCHANGED <<status, compiledAt, wiki, gateway>>

(* The job row of the run is marked COMPLETE.                                  *)
FinishJob(r) ==
    /\ At(r, "finish")
    /\ job' = [job EXCEPT ![r] = "complete"]
    /\ Goto(r, "post")
    /\ UNCHANGED <<status, compiledAt, wiki, gateway>>

(* Notification, embedding and sweep are still inside the try block. *)
PostCompile(r) ==
    /\ At(r, "post")
    /\ \/ Goto(r, "done")
       \/ "post" \in Events /\ Fail(r)
    /\ UNCHANGED stored

(* Mutant of HandleError: the job is marked and the source forgotten. *)
FailJobOnly(r) ==
    /\ At(r, "error")
    /\ job' = [q \in Runs |-> IF q \in RunningJobs(run[r].source) THEN "failed"
                              ELSE job[q]]
    /\ Goto(r, "failed")
    /\ UNCHANGED <<status, compiledAt, wiki, gateway>>

(* The except clause.  scalar_one_or_none raises on two RUNNING jobs, and    *)
(* the inner handler then drops the whole record, source included.           *)
HandleError(r) ==
    LET s == run[r].source
        found == RunningJobs(s)
    IN
    /\ At(r, "error")
    /\ IF Cardinality(found) <= 1
       THEN /\ status' = [status EXCEPT ![s] = IF Exists(s) THEN "failed" ELSE @]
            /\ job' = [q \in Runs |-> IF q \in found THEN "failed" ELSE job[q]]
       ELSE UNCHANGED <<status, job>>
    /\ Goto(r, "failed")
    /\ UNCHANGED <<compiledAt, wiki, gateway>>

-----------------------------------------------------------------------------
(* Processes dying and starting *)

(* In-process mode: a crash of the gateway takes every task with it. *)
GatewayCrash ==
    /\ "crash" \in Events /\ ~Arq /\ gateway = "up"
    /\ run' = [r \in Runs |-> IF Busy(r) THEN [run[r] EXCEPT !.pc = "dead"]
                              ELSE run[r]]
    /\ gateway' = "starting"
    /\ UNCHANGED <<status, compiledAt, job, wiki>>

(* ARQ mode: the queue outlives the worker and runs the job again. *)
WorkerCrash(r, q) ==
    /\ "crash" \in Events /\ Arq
    /\ run[r].pc \in Active /\ At(q, "idle")
    /\ run' = [run EXCEPT ![r] = [@ EXCEPT !.pc = "dead"],
                          ![q] = [IdleRun EXCEPT !.pc = "queued",
                                                 !.source = run[r].source]]
    /\ UNCHANGED stored

(* job_timeout: CancelledError is no Exception, so no handler records it. *)
JobTimeout(r) ==
    /\ "timeout" \in Events /\ Arq
    /\ run[r].pc \in Active
    /\ Goto(r, "dead")
    /\ UNCHANGED stored

(* gunicorn starts a gateway worker (deploy, max_requests recycling). *)
GatewayStart ==
    /\ "restart" \in Events /\ Arq /\ gateway = "up"
    /\ gateway' = "starting"
    /\ UNCHANGED <<status, compiledAt, job, run, wiki>>

(* Mutant of _reset_stuck_sources: the scan looks for PENDING sources. *)
reset_pending_sources ==
    /\ gateway = "starting"
    /\ status' = [s \in Sources |-> IF status[s] = "pending" THEN "failed"
                                    ELSE status[s]]
    /\ gateway' = "up"
    /\ UNCHANGED <<compiledAt, job, run, wiki>>

(* lifespan's scan: every PROCESSING source becomes FAILED; jobs stay. *)
_reset_stuck_sources ==
    /\ gateway = "starting"
    /\ status' = [s \in Sources |-> IF status[s] = "processing" THEN "failed"
                                    ELSE status[s]]
    /\ gateway' = "up"
    /\ UNCHANGED <<compiledAt, job, run, wiki>>

-----------------------------------------------------------------------------
Request ==
    \E s \in Sources :
       \/ IngestOnly(s)
       \/ delete_source(s)
       \/ \E r \in Runs : \/ IngestSource(s, r)
                          \/ ReingestSource(s, r)
                          \/ trigger_compile(s, r)
                          \/ retry_stuck_source(s, r)

(* One step of compile_source. *)
Step(r) ==
    \/ StartRun(r) \/ Normalize(r) \/ Compile(r) \/ CompileFails(r)
    \/ SaveReplaces(r) \/ SaveCreates(r) \/ SaveRefused(r)
    \/ WriteFile(r) \/ UnlinkOld(r) \/ CommitArticle(r) \/ CommitFails(r)
    \/ LinkArticle(r) \/ LinkFails(r) \/ IndexArticle(r) \/ SaveFails(r)
    \/ FinishJob(r) \/ PostCompile(r) \/ HandleError(r)

Process ==
    \/ GatewayCrash \/ GatewayStart \/ _reset_stuck_sources
    \/ \E r \in Runs : JobTimeout(r) \/ \E q \in Runs : WorkerCrash(r, q)

Next == Request \/ (\E r \in Runs : Step(r)) \/ Process

Spec == Init /\ [][Next]_vars

(* The event loop and the ARQ workers run what is scheduled, and lifespan    *)
(* finishes its scan; nothing obliges a user or a fault to act.              *)
Fairness ==
    /\ \A r \in Runs : WF_vars(Step(r))
    /\ WF_vars(_reset_stuck_sources)

FairSpec == Spec /\ Fairness

-----------------------------------------------------------------------------
(* Safety under every interleaving and every event *)

(* A source with compiled_at set has an article built from it.  ReingestSource *)
(* relies on it: _schedule_compile skips such a source for good, so a source   *)
(* marked without an article could never be compiled by ingesting it again.    *)
CompiledHasArticle ==
    \A s \in Sources :
       compiledAt[s] => \E a \in Articles : article[a].source = s

(* A job row is COMPLETE only after save_article wrote its article and marked  *)
(* its source, whatever other runs, the error handler of another run or the    *)
(* reset scan did meanwhile.                                                   *)
CompleteMeansSaved ==
    \A r \in Runs :
       job[r] = "complete" => /\ article[Target(r)] # None
                              /\ compiledAt[run[r].source]

(* A link row joins an article to the source it was built from, and, on        *)
(* PostgreSQL, that source still exists: no interleaving of delete_source with *)
(* the two commits of a save leaves a link behind.                             *)
LinkSound ==
    \A l \in link : /\ article[l[1]] # None
                    /\ article[l[1]].source = l[2]
                    /\ ForeignKeys => Exists(l[2])

(* The slug column decides the URL and the file name: two articles never share *)
(* one, although every run picks its slug long before it inserts the row.      *)
SlugsDistinct ==
    \A a, b \in Articles : article[a].slug = article[b].slug => a = b

(* COMPLETE is final: no later run of the same source, failing, takes back the *)
(* outcome of a job that succeeded.                                            *)
CompleteIsFinal ==
    [][\A r \in Runs : job[r] = "complete" => job'[r] = "complete"]_vars

(* The whole promise of the job rows, of which CompleteIsFinal is a part: what *)
(* a client that polls them sees is a behaviour of CompileJobs, however the    *)
(* runs of a source, their error handlers, crashes and timeouts interleave.    *)
Jobs == INSTANCE CompileJobs WITH asked <- [r \in Runs |-> run[r].source],
                                  built <- compiledAt
JobsKept == Jobs!Spec

(* The strengthening that makes the invariants above inductive: what each step *)
(* of a run has already established, and which rows it refers to.              *)
HasResult == {"save", "write", "unlink", "commit", "link", "index", "finish", "post"}
HasSlug == HasResult \ {"save"}
HasSaved == {"link", "index", "finish", "post"}

SavedBy(r) == /\ article[Target(r)] # None
              /\ article[Target(r)].source = run[r].source
              /\ compiledAt[run[r].source]

RunOK(r) ==
    /\ run[r].pc \in {"idle", "queued"} => job[r] = None /\ article[r] = None
    /\ ~At(r, "idle") => run[r].source # None
    /\ article[r] # None => article[r].source = run[r].source
    /\ run[r].pc \in HasResult => None \notin {run[r].provider, run[r].title,
                                               run[r].concept}
    /\ run[r].pc \in HasSlug => run[r].slug # None
    /\ At(r, "unlink") => run[r].old # None
    /\ run[r].existing # None => /\ article[run[r].existing] # None
                                 /\ article[run[r].existing].source = run[r].source
    /\ run[r].pc \in HasSaved \/ job[r] = "complete" => SavedBy(r)

RunInv == \A r \in Runs : RunOK(r)

-----------------------------------------------------------------------------
(* What holds when runs do not overlap and none is killed *)

Settled == \A r \in Runs : ~Busy(r)

(* Recompiling a source with the same provider replaces its article in place.  *)
OneArticlePerBuild ==
    \A a, b \in Articles :
       /\ article[a].source = article[b].source
       /\ article[a].provider = article[b].provider
       => a = b

(* The page a reader opens was written from the article's own source.          *)
ContentIsOwn ==
    Settled =>
       \A a \in Articles :
          file[article[a].path] # None =>
             run[file[article[a].path]].source = article[a].source

(* Row, file and claims of an article come from one and the same run, once     *)
(* that run has completed.                                                     *)
BuildIsWhole ==
    Settled =>
       \A a \in Articles :
          job[article[a].by] = "complete" =>
             /\ file[article[a].path] = article[a].by
             /\ claims[a] = {article[a].by}

(* What a save leaves: see the three properties above. *)
BuildSound == OneArticlePerBuild /\ ContentIsOwn /\ BuildIsWhole

(* A run that ended in its except clause has its failure on record: neither    *)
(* its job nor the spinner of its source is left running.                      *)
FailureRecorded ==
    \A r \in Runs : At(r, "failed") => job[r] # "running"

(* A job is FAILED only if its own run raised.                                 *)
FailedJobFailed ==
    \A r \in Runs : job[r] = "failed" => At(r, "failed")

(* PROCESSING means that a run is scheduled or executing. *)
SpinnerIsHonest ==
    \A s \in Sources : status[s] = "processing" => BusyOn(s) # {}

(* What compile_source's handlers record: see the three properties above. *)
StatusTrue == FailureRecorded /\ FailedJobFailed /\ SpinnerIsHonest

(* A source that is compiling is eventually compiled or failed. *)
SourceSettles ==
    \A s \in Sources : status[s] = "processing" ~> status[s] # "processing"
=============================================================================
