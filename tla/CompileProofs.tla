---------------------------- MODULE CompileProofs ----------------------------
(****************************************************************************)
(* Theorems of CompilePipeline. First for every set of sources, runs,        *)
(* providers, titles and concepts, in both deployment modes and under every  *)
(* event; then about the files and claims of an article and the rows a       *)
(* client polls, for the environments of MCCompileOverlap and                *)
(* MCCompilePipeline in which they hold.                                     *)
(****************************************************************************)
EXTENDS MCCompileOverlap, TLAPS, FiniteSetTheorems

-----------------------------------------------------------------------------
(* Type correctness *)

(* The initial state is well typed. *)
LEMMA InitTypeOK == Init => TypeOK
  BY DEF Init, TypeOK, IdleRun, Run, SourceStatus, JobStatus, PC

(* Setting the program counter of a run's record keeps it well typed. *)
LEMMA UpdatePC ==
  ASSUME NEW x \in Run, NEW v \in PC
  PROVE  [x EXCEPT !.pc = v] \in Run
  BY DEF Run

(* So does storing what the LLM answered ... *)
LEMMA UpdateResult ==
  ASSUME NEW x \in Run, NEW p \in Providers, NEW t \in Titles, NEW c \in Concepts
  PROVE  [x EXCEPT !.pc = "save", !.provider = p, !.title = t, !.concept = c] \in Run
  BY DEF Run, PC, Active

(* ... or the row and the paths a save has loaded ... *)
LEMMA UpdateReplace ==
  ASSUME NEW x \in Run, NEW a \in Runs, NEW slug \in Slugs, NEW old \in Paths,
         NEW seen \in SourceStatus
  PROVE  [x EXCEPT !.pc = "write", !.existing = a, !.slug = slug, !.old = old,
                   !.seen = seen] \in Run
  BY DEF Run, PC, Active

(* ... or the slug a save has chosen for a new article. *)
LEMMA UpdateCreate ==
  ASSUME NEW x \in Run, NEW slug \in Slugs, NEW seen \in SourceStatus
  PROVE  [x EXCEPT !.pc = "write", !.slug = slug, !.seen = seen] \in Run
  BY DEF Run, PC, Active

(* Replacing an article in place writes its result and maybe its path. *)
LEMMA UpdateArticle ==
  ASSUME NEW x \in Article, NEW r \in Runs, NEW p \in Paths
  PROVE  LET new == [x EXCEPT !.by = r, !.path = p]
         IN  new \in Article /\ new.source = x.source /\ new.slug = x.slug
  BY DEF Article

(* Moving an execution to another step keeps its record well typed. *)
LEMMA GotoType ==
  ASSUME TypeOK, NEW r \in Runs, NEW pc \in PC, Goto(r, pc)
  PROVE  run' \in [Runs -> Run]
  BY DEF TypeOK, Goto, Run

(* The exception edge of every step is such a move. *)
LEMMA FailType ==
  ASSUME TypeOK, NEW r \in Runs, Fail(r)
  PROVE  run' \in [Runs -> Run]
  BY GotoType DEF Fail, PC, Active

(* Scheduling a compile starts from a fresh record. *)
LEMMA ScheduleType ==
  ASSUME TypeOK, NEW r \in Runs, NEW s \in Sources, NEW doc \in BOOLEAN,
         schedule_compile(r, s, doc)
  PROVE  run' \in [Runs -> Run]
<1> DEFINE new == [IdleRun EXCEPT !.pc = "queued", !.source = s,
                                  !.doc = doc /\ ~Arq]
<1>1. new \in Run
  BY ModeAssumption DEF IdleRun, Run, PC, SourceStatus
<1>2. QED
  BY <1>1 DEF schedule_compile, TypeOK

(* Ingest, compile requests, the admin retry and deletion keep the types. *)
LEMMA RequestTypeOK == TypeOK /\ Request => TypeOK'
<1> SUFFICES ASSUME TypeOK, NEW s \in Sources,
                    \/ IngestOnly(s)
                    \/ delete_source(s)
                    \/ \E r \in Runs : \/ IngestSource(s, r)
                                       \/ ReingestSource(s, r)
                                       \/ trigger_compile(s, r)
                                       \/ retry_stuck_source(s, r)
             PROVE  TypeOK'
  BY DEF Request
<1>1. CASE IngestOnly(s)
  BY <1>1 DEF IngestOnly, TypeOK, SourceStatus, wiki
<1>2. CASE delete_source(s)
  BY <1>2 DEF delete_source, TypeOK, SourceStatus, wiki
<1>3. ASSUME NEW r \in Runs, IngestSource(s, r)
      PROVE  TypeOK'
  BY <1>3, ScheduleType DEF IngestSource, TypeOK, SourceStatus, wiki
<1>4. ASSUME NEW r \in Runs, ReingestSource(s, r)
      PROVE  TypeOK'
  BY <1>4, ScheduleType DEF ReingestSource, TypeOK, stored
<1>5. ASSUME NEW r \in Runs, trigger_compile(s, r)
      PROVE  TypeOK'
  BY <1>5, ScheduleType DEF trigger_compile, TypeOK, stored
<1>6. ASSUME NEW r \in Runs, retry_stuck_source(s, r)
      PROVE  TypeOK'
  BY <1>6, ScheduleType DEF retry_stuck_source, TypeOK, SourceStatus, wiki
<1>7. QED
  BY <1>1, <1>2, <1>3, <1>4, <1>5, <1>6

(* Every step of compile_source keeps the types; the steps of the save need    *)
(* what RunInv says of the run's local variables.                              *)
LEMMA StepTypeOK ==
  ASSUME TypeOK, RunInv, NEW r \in Runs, Step(r)
  PROVE  TypeOK'
<1> USE DEF At
<1>1. CASE StartRun(r)
  <2>1. run' \in [Runs -> Run]
    BY <1>1, GotoType DEF StartRun, PC, Active
  <2>2. QED
    BY <1>1, <2>1 DEF StartRun, TypeOK, SourceStatus, JobStatus, wiki
<1>2. CASE Normalize(r)
  <2>1. run' \in [Runs -> Run]
    BY <1>2, GotoType DEF Normalize, PC, Active
  <2>2. QED
    BY <1>2, <2>1 DEF Normalize, TypeOK, stored
<1>3. CASE Compile(r)
  <2>1. PICK p \in Providers, t \in Titles, c \in Concepts :
           run' = [run EXCEPT ![r] = [@ EXCEPT !.pc = "save", !.provider = p,
                                               !.title = t, !.concept = c]]
    BY <1>3 DEF Compile
  <2> DEFINE new == [run[r] EXCEPT !.pc = "save", !.provider = p, !.title = t,
                                   !.concept = c]
  <2>2. new \in Run
    BY UpdateResult DEF TypeOK
  <2>3. run' = [run EXCEPT ![r] = new]
    BY <2>1
  <2> HIDE DEF new
  <2>4. QED
    BY <1>3, <2>2, <2>3 DEF Compile, TypeOK, stored
<1>4. CASE CompileFails(r) \/ SaveRefused(r) \/ CommitFails(r) \/ LinkFails(r)
  <2>1. run' \in [Runs -> Run]
    BY <1>4, FailType DEF CompileFails, SaveRefused, CommitFails, LinkFails
  <2>2. QED
    BY <1>4, <2>1 DEF CompileFails, SaveRefused, CommitFails, LinkFails, TypeOK,
                      stored
<1>5. CASE SaveReplaces(r)
  <2>1. PICK a \in Builds(r) :
           run' = [run EXCEPT ![r] = [@ EXCEPT !.pc = "write", !.existing = a,
                                               !.slug = article[a].slug,
                                               !.old = article[a].path,
                                               !.seen = status[run[r].source]]]
    BY <1>5 DEF SaveReplaces
  <2> DEFINE new == [run[r] EXCEPT !.pc = "write", !.existing = a,
                                   !.slug = article[a].slug,
                                   !.old = article[a].path,
                                   !.seen = status[run[r].source]]
  <2>2. /\ a \in Runs /\ article[a].slug \in Slugs /\ article[a].path \in Paths
        /\ status[run[r].source] \in SourceStatus
    BY <1>5 DEF SaveReplaces, Builds, Articles, RunInv, RunOK, TypeOK, Run, Article
  <2>3. new \in Run
    BY <2>2, UpdateReplace DEF TypeOK
  <2>4. run' = [run EXCEPT ![r] = new]
    BY <2>1
  <2> HIDE DEF new
  <2>5. QED
    BY <1>5, <2>3, <2>4 DEF SaveReplaces, TypeOK, stored
<1>6. CASE SaveCreates(r)
  <2>1. PICK slug \in Slugs :
           run' = [run EXCEPT ![r] = [@ EXCEPT !.pc = "write", !.slug = slug,
                                               !.seen = status[run[r].source]]]
    BY <1>6 DEF SaveCreates
  <2> DEFINE new == [run[r] EXCEPT !.pc = "write", !.slug = slug,
                                   !.seen = status[run[r].source]]
  <2>2. status[run[r].source] \in SourceStatus
    BY <1>6 DEF SaveCreates, RunInv, RunOK, TypeOK, Run
  <2>3. new \in Run
    BY <2>2, UpdateCreate DEF TypeOK
  <2>4. run' = [run EXCEPT ![r] = new]
    BY <2>1
  <2> HIDE DEF new
  <2>5. QED
    BY <1>6, <2>3, <2>4 DEF SaveCreates, TypeOK, stored
<1>7. CASE WriteFile(r)
  <2>1. run' \in [Runs -> Run]
    BY <1>7, GotoType DEF WriteFile, PC, Active
  <2>2. QED
    BY <1>7, <2>1 DEF WriteFile, TypeOK
<1>8. CASE UnlinkOld(r)
  <2>1. run' \in [Runs -> Run]
    BY <1>8, GotoType DEF UnlinkOld, PC, Active
  <2>2. QED
    BY <1>8, <2>1 DEF UnlinkOld, TypeOK
<1>9. CASE CommitArticle(r)
  <2>1. run' \in [Runs -> Run]
    BY <1>9, GotoType DEF CommitArticle, PC, Active
  <2>2. /\ run[r].source \in Sources /\ run[r].slug \in Slugs
        /\ run[r].provider \in Providers /\ Path(r) \in Paths
    BY <1>9 DEF CommitArticle, RunInv, RunOK, TypeOK, Run, HasResult, HasSlug, Path, Paths
  <2>3. article' \in [Runs -> Article \cup {None}]
    <3>1. CASE run[r].existing = None
      BY <1>9, <2>2, <3>1 DEF CommitArticle, TypeOK, Article
    <3>2. CASE run[r].existing # None
      <4> DEFINE a == Target(r)
                 row == [article[a] EXCEPT !.by = r, !.path = WrittenPath(r)]
      <4>1. a \in Runs /\ article[a] \in Article
        BY <3>2 DEF RunInv, RunOK, Target, TypeOK, Run
      <4>2. article' = [article EXCEPT ![a] = row]
        BY <1>9, <3>2 DEF CommitArticle
      <4>3. WrittenPath(r) \in Paths
        BY <2>2, <4>1 DEF WrittenPath, Article
      <4>4. row \in Article
        BY <4>1, <4>3, UpdateArticle
      <4> HIDE DEF row
      <4>5. QED
        BY <4>1, <4>2, <4>4 DEF TypeOK
    <3>3. QED
      BY <3>1, <3>2
  <2>4. link' \subseteq (Runs \X Sources) /\ claims' \in [Runs -> SUBSET Runs]
    BY <1>9 DEF CommitArticle, TypeOK
  <2>5. status' \in [Sources -> SourceStatus] /\ compiledAt' \in [Sources -> BOOLEAN]
    BY <1>9 DEF CommitArticle, TypeOK, SourceStatus
  <2>6. QED
    BY <1>9, <2>1, <2>3, <2>4, <2>5 DEF CommitArticle, TypeOK
<1>10. CASE LinkArticle(r)
  <2>1. run' \in [Runs -> Run]
    BY <1>10, GotoType DEF LinkArticle, PC, Active
  <2>2. Target(r) \in Runs /\ run[r].source \in Sources
    BY <1>10 DEF LinkArticle, RunInv, RunOK, Target, TypeOK, Run
  <2>3. QED
    BY <1>10, <2>1, <2>2 DEF LinkArticle, TypeOK
<1>11. CASE IndexArticle(r)
  <2>1. run' \in [Runs -> Run]
    BY <1>11, GotoType DEF IndexArticle, PC, Active
  <2>2. QED
    BY <1>11, <2>1 DEF IndexArticle, TypeOK
<1>12. CASE SaveFails(r)
  <2>1. run' \in [Runs -> Run]
    BY <1>12, FailType DEF SaveFails
  <2>2. claims' \in [Runs -> SUBSET Runs]
    <3>1. \/ claims' = [claims EXCEPT ![Target(r)] = @ \cup {r}]
          \/ claims' = claims
      BY <1>12 DEF SaveFails
    <3>2. QED
      BY <3>1 DEF TypeOK
  <2>3. QED
    BY <1>12, <2>1, <2>2 DEF SaveFails, TypeOK
<1>13. CASE FinishJob(r)
  <2>1. run' \in [Runs -> Run]
    BY <1>13, GotoType DEF FinishJob, PC, Active
  <2>2. QED
    BY <1>13, <2>1 DEF FinishJob, TypeOK, JobStatus, wiki
<1>14. CASE PostCompile(r)
  <2>1. run' \in [Runs -> Run]
    BY <1>14, GotoType, FailType DEF PostCompile, PC, Active
  <2>2. QED
    BY <1>14, <2>1 DEF PostCompile, TypeOK, stored
<1>15. CASE HandleError(r)
  <2>1. run' \in [Runs -> Run]
    BY <1>15, GotoType DEF HandleError, PC, Active
  <2>2. status' \in [Sources -> SourceStatus] /\ job' \in [Runs -> JobStatus]
    BY <1>15 DEF HandleError, TypeOK, SourceStatus, JobStatus
  <2>3. QED
    BY <1>15, <2>1, <2>2 DEF HandleError, TypeOK, wiki
<1>16. QED
  BY <1>1, <1>2, <1>3, <1>4, <1>5, <1>6, <1>7, <1>8, <1>9, <1>10, <1>11, <1>12,
     <1>13, <1>14, <1>15 DEF Step

(* Crashes, cancellations, restarts and the reset scan keep the types. *)
LEMMA ProcessTypeOK == TypeOK /\ RunInv /\ Process => TypeOK'
<1> SUFFICES ASSUME TypeOK, RunInv, Process
             PROVE  TypeOK'
  OBVIOUS
<1>1. CASE GatewayCrash
  <2>1. run' \in [Runs -> Run]
    <3> SUFFICES ASSUME NEW r \in Runs
                 PROVE  run'[r] \in Run
      BY <1>1 DEF GatewayCrash, TypeOK
    <3>1. [run[r] EXCEPT !.pc = "dead"] \in Run
      BY UpdatePC DEF TypeOK, PC
    <3>2. QED
      BY <1>1, <3>1, Zenon DEF GatewayCrash, TypeOK
  <2>2. QED
    BY <1>1, <2>1 DEF GatewayCrash, TypeOK, wiki
<1>2. CASE GatewayStart
  BY <1>2 DEF GatewayStart, TypeOK, wiki
<1>3. CASE _reset_stuck_sources
  BY <1>3 DEF _reset_stuck_sources, TypeOK, SourceStatus, wiki
<1>4. ASSUME NEW r \in Runs, JobTimeout(r)
      PROVE  TypeOK'
  BY <1>4, GotoType DEF JobTimeout, PC, TypeOK, stored
<1>5. ASSUME NEW r \in Runs, NEW q \in Runs, WorkerCrash(r, q)
      PROVE  TypeOK'
  <2> DEFINE dead == [run[r] EXCEPT !.pc = "dead"]
             retry == [IdleRun EXCEPT !.pc = "queued", !.source = run[r].source]
  <2>1. run' = [[run EXCEPT ![r] = dead] EXCEPT ![q] = retry]
    BY <1>5 DEF WorkerCrash
  <2>2. dead \in Run
    BY UpdatePC DEF TypeOK, PC
  <2>3. retry \in Run
    BY DEF TypeOK, IdleRun, Run, PC, SourceStatus
  <2> HIDE DEF dead, retry
  <2>4. run' \in [Runs -> Run]
    BY <2>1, <2>2, <2>3 DEF TypeOK
  <2>5. QED
    BY <1>5, <2>4 DEF WorkerCrash, TypeOK, stored
<1>6. QED
  BY <1>1, <1>2, <1>3, <1>4, <1>5 DEF Process

-----------------------------------------------------------------------------
(* The strengthening: what each step of a run has established *)

(* No run has established anything, and no row exists, at the start. *)
LEMMA InitRunInv == Init => RunInv
  BY NoneAssumption
     DEF Init, RunInv, RunOK, IdleRun, At, HasResult, HasSlug, HasSaved

(* A step that moves one run, inserts no article and completes no other job    *)
(* keeps RunInv, if the step reached requires no more than the step left.      *)
LEMMA MoveKeepsRunInv ==
  ASSUME TypeOK, RunInv, NEW r \in Runs, NEW pc \in PC \ {"idle", "queued"},
         Goto(r, pc), ~At(r, "idle"),
         article' = article, compiledAt' = compiledAt,
         pc \in HasResult => run[r].pc \in HasResult,
         pc \in HasSlug => run[r].pc \in HasSlug,
         pc = "unlink" => run[r].old # None,
         pc \in HasSaved \/ job'[r] = "complete"
            => run[r].pc \in HasSaved \/ job[r] = "complete",
         \A q \in Runs \ {r} : \/ job'[q] = job[q]
                               \/ job[q] # None /\ job'[q] # "complete"
  PROVE  RunInv'
<1> SUFFICES ASSUME NEW q \in Runs
             PROVE  RunOK(q)'
  BY DEF RunInv
<1>1. RunOK(q) /\ RunOK(r)
  BY DEF RunInv
<1>2. /\ run'[q].pc = IF q = r THEN pc ELSE run[q].pc
      /\ run'[q].source = run[q].source /\ run'[q].provider = run[q].provider
      /\ run'[q].title = run[q].title /\ run'[q].concept = run[q].concept
      /\ run'[q].existing = run[q].existing /\ run'[q].slug = run[q].slug
      /\ run'[q].old = run[q].old
  BY DEF Goto, TypeOK, Run
<1>3. SavedBy(q)' <=> SavedBy(q)
  BY <1>2 DEF SavedBy, Target
<1>4. CASE q = r
  BY <1>1, <1>2, <1>3, <1>4 DEF RunOK, At
<1>5. CASE q # r
  BY <1>1, <1>2, <1>3, <1>5 DEF RunOK, At
<1>6. QED
  BY <1>4, <1>5

(* Nothing RunInv speaks of changes: the scan, a restart, a deletion. *)
LEMMA FrameRunInv ==
  ASSUME RunInv, UNCHANGED <<run, job, article, compiledAt>>
  PROVE  RunInv'
  BY DEF RunInv, RunOK, SavedBy, Target, At

(* A fresh record has established nothing yet. *)
LEMMA ScheduleKeepsRunInv ==
  ASSUME TypeOK, RunInv, NEW r \in Runs, NEW s \in Sources, NEW doc \in BOOLEAN,
         schedule_compile(r, s, doc), UNCHANGED <<job, article, compiledAt>>
  PROVE  RunInv'
<1> DEFINE new == [IdleRun EXCEPT !.pc = "queued", !.source = s,
                                  !.doc = doc /\ ~Arq]
<1> SUFFICES ASSUME NEW q \in Runs
             PROVE  RunOK(q)'
  BY DEF RunInv
<1>1. run' = [run EXCEPT ![r] = new] /\ At(r, "idle")
  BY DEF schedule_compile
<1>2. new.pc = "queued" /\ new.source = s /\ new.existing = None
  BY DEF IdleRun
<1>3. RunOK(q) /\ RunOK(r)
  BY DEF RunInv
<1> HIDE DEF new
<1>4. CASE q = r
  <2>1. run'[q] = new /\ job'[q] = None /\ article'[q] = None
    BY <1>1, <1>3, <1>4 DEF TypeOK, RunOK, At
  <2>2. QED
    BY <2>1, <1>2, NoneAssumption DEF RunOK, At, HasResult, HasSlug, HasSaved
<1>5. CASE q # r
  <2>1. run'[q] = run[q]
    BY <1>1, <1>5 DEF TypeOK
  <2>2. QED
    BY <2>1, <1>3 DEF RunOK, SavedBy, Target, At
<1>6. QED
  BY <1>4, <1>5

(* Requests schedule fresh runs, or leave runs and articles alone. *)
LEMMA RequestRunInv == TypeOK /\ RunInv /\ Request => RunInv'
<1> SUFFICES ASSUME TypeOK, RunInv, NEW s \in Sources,
                    \/ IngestOnly(s)
                    \/ delete_source(s)
                    \/ \E r \in Runs : \/ IngestSource(s, r)
                                       \/ ReingestSource(s, r)
                                       \/ trigger_compile(s, r)
                                       \/ retry_stuck_source(s, r)
             PROVE  RunInv'
  BY DEF Request
<1>1. CASE IngestOnly(s) \/ delete_source(s)
  BY <1>1, FrameRunInv DEF IngestOnly, delete_source, wiki
<1>2. ASSUME NEW r \in Runs,
             \/ IngestSource(s, r) \/ ReingestSource(s, r)
             \/ trigger_compile(s, r) \/ retry_stuck_source(s, r)
      PROVE  RunInv'
  <2>1. UNCHANGED <<job, article, compiledAt>>
    BY <1>2 DEF IngestSource, ReingestSource, trigger_compile, retry_stuck_source,
                stored, wiki
  <2>2. schedule_compile(r, s, TRUE) \/ schedule_compile(r, s, FALSE)
    BY <1>2 DEF IngestSource, ReingestSource, trigger_compile, retry_stuck_source
  <2>3. QED
    BY <2>1, <2>2, ScheduleKeepsRunInv
<1>3. QED
  BY <1>1, <1>2

(* Compile, SaveReplaces and SaveCreates rewrite one run's record and nothing  *)
(* else: RunInv holds of the others, and of that run if the new record says so. *)
LEMMA RecordKeepsRunInv ==
  ASSUME TypeOK, RunInv, NEW r \in Runs, NEW new \in Run,
         run' = [run EXCEPT ![r] = new],
         UNCHANGED <<job, article, compiledAt>>,
         RunOK(r)'
  PROVE  RunInv'
<1> SUFFICES ASSUME NEW q \in Runs, q # r
             PROVE  RunOK(q)'
  BY DEF RunInv
<1>1. run'[q] = run[q] /\ RunOK(q)
  BY DEF TypeOK, RunInv
<1>2. QED
  BY <1>1 DEF RunOK, SavedBy, Target, At

(* What the first commit of _upsert_article does to the table: one row is      *)
(* written, it belongs to the run's source, and a replaced row keeps its slug. *)
LEMMA CommitRow ==
  ASSUME TypeOK, RunInv, NEW r \in Runs, CommitArticle(r)
  PROVE  LET a == Target(r)
         IN  /\ a \in Runs
             /\ article'[a] # None /\ article'[a].source = run[r].source
             /\ article'[a].slug = IF run[r].existing = None THEN run[r].slug
                                   ELSE article[a].slug
             /\ \A b \in Runs \ {a} : article'[b] = article[b]
<1>1. PICK a \in Runs : a = Target(r)
  BY DEF Target, TypeOK, Run
<1>2. RunOK(r) /\ run[r].source \in Sources /\ run[r].pc = "commit"
  BY DEF RunInv, RunOK, CommitArticle, TypeOK, Run, At
<1>3. CASE run[r].existing = None
  <2> DEFINE row == [slug |-> run[r].slug, provider |-> run[r].provider,
                     path |-> Path(r), source |-> run[r].source, by |-> r]
  <2>1. article' = [article EXCEPT ![a] = row]
    BY <1>1, <1>3 DEF CommitArticle
  <2>2. row.source = run[r].source /\ row.slug = run[r].slug
    OBVIOUS
  <2>3. row # None
    BY <1>2, NoneAssumption
       DEF Article, RunOK, TypeOK, Run, HasResult, HasSlug, Path, Paths
  <2> HIDE DEF row
  <2>4. QED
    BY <1>1, <1>3, <2>1, <2>2, <2>3 DEF TypeOK
<1>4. CASE run[r].existing # None
  <2>1. article[a] \in Article /\ article[a].source = run[r].source
    BY <1>1, <1>2, <1>4 DEF RunOK, Target, TypeOK
  <2> DEFINE row == [article[a] EXCEPT !.by = r, !.path = WrittenPath(r)]
  <2>2. article' = [article EXCEPT ![a] = row]
    BY <1>1, <1>4 DEF CommitArticle
  <2>3. WrittenPath(r) \in Paths
    BY <1>1, <1>2, <2>1
       DEF RunOK, TypeOK, Run, HasResult, HasSlug, Path, Paths, WrittenPath, Article
  <2>4. /\ row \in Article /\ row.source = article[a].source
        /\ row.slug = article[a].slug
    BY <2>1, <2>3, UpdateArticle
  <2> HIDE DEF row
  <2>5. QED
    BY <1>1, <1>4, <2>1, <2>2, <2>4, NoneAssumption DEF TypeOK
<1>5. QED
  BY <1>3, <1>4

(* Every step of compile_source establishes what the next one relies on. *)
LEMMA StepRunInv ==
  ASSUME TypeOK, TypeOK', RunInv, LinkSound, NEW r \in Runs, Step(r)
  PROVE  RunInv'
<1> USE DEF At
<1>1. CASE StartRun(r)
  BY <1>1, MoveKeepsRunInv, NoneAssumption
     DEF StartRun, TypeOK, wiki, PC, Active, HasResult, HasSlug, HasSaved
<1>2. CASE Normalize(r)
  BY <1>2, MoveKeepsRunInv
     DEF Normalize, stored, PC, Active, HasResult, HasSlug, HasSaved
<1>3. CASE Compile(r)
  <2>1. PICK p \in Providers, t \in Titles, c \in Concepts :
           run' = [run EXCEPT ![r] = [@ EXCEPT !.pc = "save", !.provider = p,
                                               !.title = t, !.concept = c]]
    BY <1>3 DEF Compile
  <2> DEFINE new == [run[r] EXCEPT !.pc = "save", !.provider = p, !.title = t,
                                   !.concept = c]
  <2>2. new \in Run
    BY UpdateResult DEF TypeOK
  <2>3. /\ new.pc = "save" /\ new.provider = p /\ new.title = t /\ new.concept = c
        /\ new.source = run[r].source /\ new.existing = run[r].existing
    BY DEF TypeOK, Run
  <2>4. run' = [run EXCEPT ![r] = new]
    BY <2>1
  <2> HIDE DEF new
  <2>5. run'[r] = new /\ RunOK(r) /\ UNCHANGED <<job, article, compiledAt>>
    BY <1>3, <2>4 DEF Compile, TypeOK, RunInv, stored
  <2>6. RunOK(r)'
    BY <1>3, <2>3, <2>5, NoneAssumption
       DEF RunOK, Compile, SavedBy, Target, HasSlug, HasResult, HasSaved
  <2>7. QED
    BY <2>2, <2>4, <2>5, <2>6, RecordKeepsRunInv
<1>4. CASE CompileFails(r) \/ SaveRefused(r) \/ CommitFails(r) \/ LinkFails(r)
  BY <1>4, MoveKeepsRunInv
     DEF CompileFails, SaveRefused, CommitFails, LinkFails, Fail, stored, PC,
         Active, HasResult, HasSlug, HasSaved
<1>5. CASE SaveReplaces(r)
  <2>1. PICK a \in Builds(r) :
           run' = [run EXCEPT ![r] = [@ EXCEPT !.pc = "write", !.existing = a,
                                               !.slug = article[a].slug,
                                               !.old = article[a].path,
                                               !.seen = status[run[r].source]]]
    BY <1>5 DEF SaveReplaces
  <2> DEFINE new == [run[r] EXCEPT !.pc = "write", !.existing = a,
                                   !.slug = article[a].slug,
                                   !.old = article[a].path,
                                   !.seen = status[run[r].source]]
  <2>2. /\ a \in Runs /\ article[a].slug \in Slugs /\ article[a].path \in Paths
        /\ status[run[r].source] \in SourceStatus
    BY <1>5 DEF SaveReplaces, Builds, Articles, RunInv, RunOK, TypeOK, Run, Article
  <2>3. new \in Run
    BY <2>2, UpdateReplace DEF TypeOK
  <2>4. /\ new.pc = "write" /\ new.existing = a /\ new.slug = article[a].slug
        /\ new.source = run[r].source /\ new.provider = run[r].provider
        /\ new.title = run[r].title /\ new.concept = run[r].concept
    BY DEF TypeOK, Run
  <2>5. run' = [run EXCEPT ![r] = new]
    BY <2>1
  <2> HIDE DEF new
  <2>6. run'[r] = new /\ RunOK(r) /\ UNCHANGED <<job, article, compiledAt>>
    BY <1>5, <2>5 DEF SaveReplaces, TypeOK, RunInv, stored
  <2>7. article[a] # None /\ article[a].source = run[r].source
    BY DEF Builds, Articles, LinkSound
  <2>8. RunOK(r)'
    BY <1>5, <2>2, <2>4, <2>6, <2>7, NoneAssumption
       DEF RunOK, SaveReplaces, SavedBy, Target, HasSlug, HasResult, HasSaved
  <2>9. QED
    BY <2>3, <2>5, <2>6, <2>8, RecordKeepsRunInv
<1>6. CASE SaveCreates(r)
  <2>1. PICK slug \in Slugs :
           run' = [run EXCEPT ![r] = [@ EXCEPT !.pc = "write", !.slug = slug,
                                               !.seen = status[run[r].source]]]
    BY <1>6 DEF SaveCreates
  <2> DEFINE new == [run[r] EXCEPT !.pc = "write", !.slug = slug,
                                   !.seen = status[run[r].source]]
  <2>2. status[run[r].source] \in SourceStatus
    BY <1>6 DEF SaveCreates, RunInv, RunOK, TypeOK, Run
  <2>3. new \in Run
    BY <2>2, UpdateCreate DEF TypeOK
  <2>4. /\ new.pc = "write" /\ new.slug = slug /\ new.existing = run[r].existing
        /\ new.source = run[r].source /\ new.provider = run[r].provider
        /\ new.title = run[r].title /\ new.concept = run[r].concept
    BY DEF TypeOK, Run
  <2>5. run' = [run EXCEPT ![r] = new]
    BY <2>1
  <2> HIDE DEF new
  <2>6. run'[r] = new /\ RunOK(r) /\ UNCHANGED <<job, article, compiledAt>>
    BY <1>6, <2>5 DEF SaveCreates, TypeOK, RunInv, stored
  <2>7. RunOK(r)'
    BY <1>6, <2>4, <2>6, NoneAssumption
       DEF RunOK, SaveCreates, SavedBy, Target, HasSlug, HasResult, HasSaved
  <2>8. QED
    BY <2>3, <2>5, <2>6, <2>7, RecordKeepsRunInv
<1>7. CASE WriteFile(r)
  BY <1>7, MoveKeepsRunInv
     DEF WriteFile, PC, Active, HasResult, HasSlug, HasSaved
<1>8. CASE UnlinkOld(r)
  BY <1>8, MoveKeepsRunInv
     DEF UnlinkOld, PC, Active, HasResult, HasSlug, HasSaved
<1>9. CASE CommitArticle(r)
  <2>1. PICK a \in Runs : a = Target(r)
    BY DEF Target, TypeOK, Run
  <2>2. RunOK(r) /\ run[r].source \in Sources
    BY <1>9 DEF RunInv, RunOK, CommitArticle, TypeOK, Run
  <2>3. /\ article'[a] # None /\ article'[a].source = run[r].source
        /\ \A b \in Runs \ {a} : article'[b] = article[b]
    BY <1>9, <2>1, CommitRow
  <2>4. /\ compiledAt'[run[r].source]
        /\ \A s \in Sources : compiledAt[s] => compiledAt'[s]
    BY <1>9, <2>2 DEF CommitArticle, TypeOK
  <2>5. \A q \in Runs : /\ run'[q].pc = IF q = r THEN "link" ELSE run[q].pc
                        /\ run'[q].source = run[q].source
                        /\ run'[q].provider = run[q].provider
                        /\ run'[q].title = run[q].title
                        /\ run'[q].concept = run[q].concept
                        /\ run'[q].existing = run[q].existing
                        /\ run'[q].slug = run[q].slug
                        /\ run'[q].old = run[q].old
    BY <1>9 DEF CommitArticle, Goto, TypeOK, Run
  <2>6. \A b \in Runs : article[b] # None =>
                           article'[b] # None /\ article'[b].source = article[b].source
    <3>1. article[a] # None => article[a].source = run[r].source
      BY <2>1, <2>2 DEF RunOK, Target
    <3>2. QED
      BY <2>3, <3>1
  <2>7. job' = job /\ RunOK(r)
    BY <1>9, <2>2 DEF CommitArticle
  <2>8. RunOK(r)'
    <3>1. SavedBy(r)'
      BY <2>1, <2>3, <2>4, <2>5 DEF SavedBy, Target
    <3>2. article'[r] # None => article'[r].source = run'[r].source
      BY <2>2, <2>3, <2>5 DEF RunOK
    <3>3. run'[r].existing # None => /\ article'[run'[r].existing] # None
                                     /\ article'[run'[r].existing].source = run'[r].source
      BY <2>2, <2>5, <2>6 DEF RunOK, TypeOK, Run
    <3>4. QED
      BY <1>9, <2>2, <2>5, <2>7, <3>1, <3>2, <3>3
         DEF RunOK, CommitArticle, HasResult, HasSlug
  <2>9. ASSUME NEW q \in Runs, q # r
        PROVE  RunOK(q)'
    <3>1. RunOK(q)
      BY DEF RunInv
    <3>2. run[q].source # None /\ SavedBy(q) => SavedBy(q)'
      <4>1. Target(q) \in Runs /\ Target(q)' = Target(q)
        BY <2>5 DEF Target, TypeOK, Run
      <4>2. QED
        BY <2>4, <2>5, <2>6, <4>1 DEF SavedBy, TypeOK, Run
    <3>3. article'[q] # None => article'[q].source = run'[q].source
      BY <2>1, <2>2, <2>3, <2>5, <2>6, <2>9, <3>1 DEF RunOK, Target
    <3>4. run'[q].existing # None => /\ article'[run'[q].existing] # None
                                     /\ article'[run'[q].existing].source = run'[q].source
      BY <2>5, <2>6, <3>1 DEF RunOK, TypeOK, Run
    <3>5. run'[q].pc \in {"idle", "queued"} => job'[q] = None /\ article'[q] = None
      BY <2>1, <2>2, <2>3, <2>5, <2>7, <2>9, <3>1 DEF RunOK, Target
    <3>6. run[q].pc \in HasSaved \/ job[q] = "complete" => run[q].source # None
      BY <3>1, NoneAssumption DEF RunOK, HasSaved
    <3>7. QED
      BY <2>5, <2>7, <2>9, <3>1, <3>2, <3>3, <3>4, <3>5, <3>6 DEF RunOK
  <2>10. QED
    BY <2>8, <2>9 DEF RunInv
<1>10. CASE LinkArticle(r)
  BY <1>10, MoveKeepsRunInv
     DEF LinkArticle, PC, Active, HasResult, HasSlug, HasSaved
<1>11. CASE IndexArticle(r)
  BY <1>11, MoveKeepsRunInv
     DEF IndexArticle, PC, Active, HasResult, HasSlug, HasSaved
<1>12. CASE SaveFails(r)
  BY <1>12, MoveKeepsRunInv
     DEF SaveFails, Fail, PC, Active, HasResult, HasSlug, HasSaved
<1>13. CASE FinishJob(r)
  BY <1>13, MoveKeepsRunInv
     DEF FinishJob, TypeOK, wiki, PC, Active, HasResult, HasSlug, HasSaved
<1>14. CASE PostCompile(r)
  BY <1>14, MoveKeepsRunInv
     DEF PostCompile, Fail, stored, PC, Active, HasResult, HasSlug, HasSaved
<1>15. CASE HandleError(r)
  BY <1>15, MoveKeepsRunInv, NoneAssumption
     DEF HandleError, RunningJobs, TypeOK, wiki, PC, Active, HasResult, HasSlug,
         HasSaved
<1>16. QED
  BY <1>1, <1>2, <1>3, <1>4, <1>5, <1>6, <1>7, <1>8, <1>9, <1>10, <1>11, <1>12,
     <1>13, <1>14, <1>15 DEF Step

(* Dying and being scheduled again establish nothing and forget nothing. *)
LEMMA ProcessRunInv == TypeOK /\ RunInv /\ Process => RunInv'
<1> SUFFICES ASSUME TypeOK, RunInv, Process
             PROVE  RunInv'
  OBVIOUS
<1> USE DEF At
<1>1. CASE GatewayCrash
  <2> SUFFICES ASSUME NEW q \in Runs
               PROVE  RunOK(q)'
    BY DEF RunInv
  <2>1. RunOK(q) /\ UNCHANGED <<job, article, compiledAt>>
    BY <1>1 DEF RunInv, GatewayCrash, wiki
  <2>2. CASE Busy(q)
    <3> DEFINE dead == [run[q] EXCEPT !.pc = "dead"]
    <3>1. run'[q] = dead
      BY <1>1, <2>2 DEF GatewayCrash
    <3>2. /\ dead.pc = "dead" /\ dead.source = run[q].source
          /\ dead.existing = run[q].existing
      BY DEF TypeOK, Run
    <3> HIDE DEF dead
    <3>3. run[q].pc # "idle"
      BY <2>2 DEF Busy, Active
    <3>4. QED
      BY <2>1, <3>1, <3>2, <3>3
         DEF RunOK, SavedBy, Target, HasResult, HasSlug, HasSaved
  <2>3. CASE ~Busy(q)
    <3>1. run'[q] = run[q]
      BY <1>1, <2>3 DEF GatewayCrash
    <3>2. QED
      BY <2>1, <3>1 DEF RunOK, SavedBy, Target
  <2>4. QED
    BY <2>2, <2>3
<1>2. CASE GatewayStart
  BY <1>2, FrameRunInv DEF GatewayStart, wiki
<1>3. CASE _reset_stuck_sources
  BY <1>3, FrameRunInv DEF _reset_stuck_sources, wiki
<1>4. ASSUME NEW r \in Runs, JobTimeout(r)
      PROVE  RunInv'
  BY <1>4, MoveKeepsRunInv
     DEF JobTimeout, stored, PC, Active, HasResult, HasSlug, HasSaved
<1>5. ASSUME NEW r \in Runs, NEW q \in Runs, WorkerCrash(r, q)
      PROVE  RunInv'
  <2> DEFINE dead == [run[r] EXCEPT !.pc = "dead"]
             retry == [IdleRun EXCEPT !.pc = "queued", !.source = run[r].source]
  <2> SUFFICES ASSUME NEW x \in Runs
               PROVE  RunOK(x)'
    BY DEF RunInv
  <2>1. run' = [[run EXCEPT ![r] = dead] EXCEPT ![q] = retry] /\ r # q
    BY <1>5 DEF WorkerCrash, Active
  <2>2. dead.pc = "dead" /\ dead.source = run[r].source /\ dead.existing = run[r].existing
    BY DEF TypeOK, Run
  <2>3. retry.pc = "queued" /\ retry.source = run[r].source /\ retry.existing = None
    BY DEF IdleRun
  <2>4. RunOK(x) /\ RunOK(r) /\ UNCHANGED <<job, article, compiledAt>>
    BY <1>5 DEF RunInv, WorkerCrash, stored
  <2>5. run[r].pc # "idle" /\ run[q].pc = "idle"
    BY <1>5 DEF WorkerCrash, Active
  <2> HIDE DEF dead, retry
  <2>6. CASE x = q
    <3>1. run'[x] = retry
      BY <2>1, <2>6 DEF TypeOK
    <3>2. QED
      BY <2>3, <2>4, <2>5, <2>6, <3>1, NoneAssumption
         DEF RunOK, HasResult, HasSlug, HasSaved
  <2>7. CASE x = r
    <3>1. run'[x] = dead
      BY <2>1, <2>7 DEF TypeOK
    <3>2. QED
      BY <2>2, <2>4, <2>5, <2>7, <3>1
         DEF RunOK, SavedBy, Target, HasResult, HasSlug, HasSaved
  <2>8. CASE x # q /\ x # r
    <3>1. run'[x] = run[x]
      BY <2>1, <2>8, SMTT(30) DEF TypeOK
    <3>2. QED
      BY <2>4, <3>1 DEF RunOK, SavedBy, Target
  <2>9. QED
    BY <2>6, <2>7, <2>8
<1>6. QED
  BY <1>1, <1>2, <1>3, <1>4, <1>5 DEF Process

-----------------------------------------------------------------------------
(* The invariants of the rows *)

(* CommitArticle is the only step that touches an Article row or compiled_at. *)
LEMMA OnlyCommitWrites ==
  ASSUME NEW r \in Runs, Step(r), ~CommitArticle(r)
  PROVE  UNCHANGED <<article, compiledAt>>
  BY DEF Step, StartRun, Normalize, Compile, CompileFails, SaveReplaces, SaveCreates,
         SaveRefused, WriteFile, UnlinkOld, CommitFails, LinkArticle, LinkFails,
         IndexArticle, SaveFails, FinishJob, PostCompile, HandleError, stored, wiki

(* Neither a request nor a process event touches them, or a link. *)
LEMMA OthersWriteNothing ==
  ASSUME Request \/ Process
  PROVE  UNCHANGED <<article, compiledAt, link>>
<1>1. CASE Request
  BY <1>1 DEF Request, IngestOnly, delete_source, IngestSource, ReingestSource,
              trigger_compile, retry_stuck_source, stored, wiki
<1>2. CASE Process
  BY <1>2 DEF Process, GatewayCrash, GatewayStart, _reset_stuck_sources, JobTimeout,
              WorkerCrash, stored, wiki
<1>3. QED
  BY <1>1, <1>2

(* No step of a run and no process event removes a source. *)
LEMMA SourceStays ==
  ASSUME TypeOK, NEW s \in Sources, Exists(s), Process \/ \E r \in Runs : Step(r)
  PROVE  Exists(s)'
<1>1. ASSUME NEW r \in Runs, Step(r)
      PROVE  Exists(s)'
  <2>1. CASE StartRun(r)
    BY <2>1, NoneAssumption DEF StartRun, Exists, TypeOK
  <2>2. CASE CommitArticle(r)
    BY <2>2, NoneAssumption DEF CommitArticle, Exists, TypeOK
  <2>3. CASE HandleError(r)
    BY <2>3, NoneAssumption DEF HandleError, Exists, TypeOK
  <2>4. CASE status' = status
    BY <2>4, SMTT(30) DEF Exists
  <2>5. QED
    BY <1>1, <2>1, <2>2, <2>3, <2>4
       DEF Step, Normalize, Compile, CompileFails, SaveReplaces, SaveCreates,
           SaveRefused, WriteFile, UnlinkOld, CommitFails, LinkArticle, LinkFails,
           IndexArticle, SaveFails, FinishJob, PostCompile, stored
<1>2. CASE Process
  BY <1>2, NoneAssumption
     DEF Process, GatewayCrash, GatewayStart, _reset_stuck_sources, JobTimeout,
         WorkerCrash, stored, Exists, TypeOK
<1>3. QED
  BY <1>1, <1>2, SMTT(30)

(* A link survives only as long as its article's columns: the commit that      *)
(* rewrites an article removes its links first, and deletion is refused.       *)
LEMMA NextLinkSound == TypeOK /\ RunInv /\ LinkSound /\ Next => LinkSound'
<1> SUFFICES ASSUME TypeOK, RunInv, LinkSound, Next, NEW l \in link'
             PROVE  /\ article'[l[1]] # None
                    /\ article'[l[1]].source = l[2]
                    /\ ForeignKeys => Exists(l[2])'
  BY DEF LinkSound
<1>1. CASE Request
  <2>1. l \in link /\ UNCHANGED article
    BY <1>1, OthersWriteNothing
  <2>2. ForeignKeys => Exists(l[2])'
    <3> SUFFICES ASSUME ForeignKeys
                 PROVE  Exists(l[2])'
      OBVIOUS
    <3>1. Exists(l[2]) /\ l[2] \in Sources /\ l = <<l[1], l[2]>> /\ l[1] \in Runs
      BY <2>1 DEF LinkSound, TypeOK
    <3>2. PICK s \in Sources : \/ IngestOnly(s)
                               \/ delete_source(s)
                               \/ \E r \in Runs : \/ IngestSource(s, r)
                                                  \/ ReingestSource(s, r)
                                                  \/ trigger_compile(s, r)
                                                  \/ retry_stuck_source(s, r)
      BY <1>1 DEF Request
    <3>3. CASE delete_source(s)
      <4>1. <<l[1], l[2]>> \in link
        BY <2>1, <3>1
      <4>2. s # l[2]
        BY <3>1, <3>3, <4>1 DEF delete_source
      <4>3. QED
        BY <3>1, <3>3, <4>2 DEF delete_source, Exists, TypeOK
    <3>4. CASE ~delete_source(s)
      <4>1. \/ status' = status
            \/ status' = [status EXCEPT ![s] = "processing"]
            \/ status' = [status EXCEPT ![s] = "pending"]
        BY <3>2, <3>4 DEF IngestOnly, IngestSource, ReingestSource, trigger_compile,
                          retry_stuck_source, stored
      <4>2. QED
        BY <3>1, <4>1, NoneAssumption DEF Exists, TypeOK
    <3>5. QED
      BY <3>3, <3>4
  <2>3. QED
    BY <2>1, <2>2 DEF LinkSound
<1>2. CASE Process
  <2>1. l \in link /\ UNCHANGED article
    BY <1>2, OthersWriteNothing
  <2>2. QED
    BY <1>2, <2>1, SourceStays DEF LinkSound, TypeOK
<1>3. ASSUME NEW r \in Runs, Step(r)
      PROVE  /\ article'[l[1]] # None
             /\ article'[l[1]].source = l[2]
             /\ ForeignKeys => Exists(l[2])'
  <2>1. CASE CommitArticle(r)
    <3>1. l \in link /\ l[1] # Target(r) /\ l[1] \in Runs /\ l[2] \in Sources
      BY <2>1 DEF CommitArticle, TypeOK
    <3>2. article'[l[1]] = article[l[1]]
      BY <2>1, <3>1, CommitRow
    <3>3. QED
      BY <1>3, <3>1, <3>2, SourceStays DEF LinkSound
  <2>2. CASE LinkArticle(r)
    <3>1. /\ UNCHANGED <<article, status>> /\ SavedBy(r)
          /\ ForeignKeys => Exists(run[r].source)
      BY <2>2 DEF LinkArticle, LinkRefused, RunInv, RunOK, At, HasSaved
    <3>2. l \in link \/ l = <<Target(r), run[r].source>>
      BY <2>2 DEF LinkArticle
    <3>3. QED
      BY <3>1, <3>2 DEF LinkSound, SavedBy, Exists
  <2>3. CASE ~CommitArticle(r) /\ ~LinkArticle(r)
    <3>1. UNCHANGED article
      BY <1>3, <2>3, OnlyCommitWrites, Zenon
    <3>2. UNCHANGED link
      BY <1>3, <2>3
         DEF Step, StartRun, Normalize, Compile, CompileFails, SaveReplaces,
             SaveCreates, SaveRefused, WriteFile, UnlinkOld, CommitFails, LinkFails,
             IndexArticle, SaveFails, FinishJob, PostCompile, HandleError, stored,
             wiki
    <3>3. l \in link /\ l[2] \in Sources
      BY <3>2 DEF TypeOK
    <3>4. QED
      BY <1>3, <3>1, <3>3, SourceStays DEF LinkSound
  <2>4. QED
    BY <2>1, <2>2, <2>3
<1>4. QED
  BY <1>1, <1>2, <1>3 DEF Next

(* compiled_at is set by the commit that writes the article, and that article  *)
(* is never lost or given to another source.                                   *)
LEMMA NextCompiledHasArticle ==
  TypeOK /\ RunInv /\ CompiledHasArticle /\ Next => CompiledHasArticle'
<1> SUFFICES ASSUME TypeOK, RunInv, CompiledHasArticle, Next,
                    NEW s \in Sources, compiledAt'[s]
             PROVE  \E a \in Runs : article'[a] # None /\ article'[a].source = s
  BY DEF CompiledHasArticle, Articles
<1>1. ASSUME NEW r \in Runs, CommitArticle(r)
      PROVE  \E a \in Runs : article'[a] # None /\ article'[a].source = s
  <2>1. CASE s = run[r].source
    BY <1>1, <2>1, CommitRow
  <2>2. CASE s # run[r].source
    <3>1. compiledAt[s]
      BY <1>1, <2>2 DEF CommitArticle, TypeOK
    <3>2. PICK a \in Runs : article[a] # None /\ article[a].source = s
      BY <3>1 DEF CompiledHasArticle, Articles
    <3>3. a # Target(r)
      BY <2>2, <3>2 DEF RunInv, RunOK, Target
    <3>4. QED
      BY <1>1, <3>2, <3>3, CommitRow
  <2>3. QED
    BY <2>1, <2>2
<1>2. CASE UNCHANGED <<article, compiledAt>>
  BY <1>2 DEF CompiledHasArticle, Articles
<1>3. QED
  BY <1>1, <1>2, OnlyCommitWrites, OthersWriteNothing DEF Next

(* The unique constraint is checked at the insert, and a replaced article      *)
(* keeps the slug it has.                                                      *)
LEMMA NextSlugsDistinct ==
  TypeOK /\ RunInv /\ SlugsDistinct /\ Next => SlugsDistinct'
<1> SUFFICES ASSUME TypeOK, RunInv, SlugsDistinct, Next,
                    NEW a \in Runs, NEW b \in Runs,
                    article'[a] # None, article'[b] # None,
                    article'[a].slug = article'[b].slug
             PROVE  a = b
  BY DEF SlugsDistinct, Articles
<1>1. ASSUME NEW r \in Runs, CommitArticle(r)
      PROVE  a = b
  <2>1. CASE run[r].existing = None
    <3>1. \A c \in Runs : article[c] # None => article[c].slug # run[r].slug
      BY <1>1, <2>1 DEF CommitArticle, CommitRefused, SlugTaken, Articles
    <3>2. QED
      BY <1>1, <2>1, <3>1, CommitRow DEF SlugsDistinct, Articles
  <2>2. CASE run[r].existing # None
    <3>1. article[Target(r)] # None
      BY <2>2 DEF RunInv, RunOK, Target
    <3>2. QED
      BY <1>1, <2>2, <3>1, CommitRow DEF SlugsDistinct, Articles
  <2>3. QED
    BY <2>1, <2>2
<1>2. CASE UNCHANGED article
  BY <1>2 DEF SlugsDistinct, Articles
<1>3. QED
  BY <1>1, <1>2, OnlyCommitWrites, OthersWriteNothing DEF Next

-----------------------------------------------------------------------------
(* The inductive invariant and the theorems *)

IInv == TypeOK /\ RunInv /\ LinkSound /\ CompiledHasArticle /\ SlugsDistinct

(* The start satisfies it: there is no row yet. *)
LEMMA InitIInv == Init => IInv
<1>1. Init => LinkSound /\ CompiledHasArticle /\ SlugsDistinct
  BY DEF Init, LinkSound, CompiledHasArticle, SlugsDistinct, Articles
<1>2. QED
  BY <1>1, InitTypeOK, InitRunInv DEF IInv

(* Every step keeps it.  RunInv needs LinkSound for the row SaveReplaces loads, *)
(* and the other invariants need RunInv for what a commit writes.               *)
LEMMA NextIInv == IInv /\ [Next]_vars => IInv'
<1> SUFFICES ASSUME IInv, [Next]_vars
             PROVE  IInv'
  OBVIOUS
<1>1. CASE Next
  <2>1. TypeOK'
    BY <1>1, RequestTypeOK, StepTypeOK, ProcessTypeOK DEF IInv, Next
  <2>2. RunInv'
    BY <1>1, <2>1, RequestRunInv, StepRunInv, ProcessRunInv DEF IInv, Next
  <2>3. QED
    BY <1>1, <2>1, <2>2, NextLinkSound, NextCompiledHasArticle, NextSlugsDistinct
       DEF IInv
<1>2. CASE UNCHANGED vars
  BY <1>2 DEF vars, IInv, TypeOK, RunInv, RunOK, At, SavedBy, Target, LinkSound,
              Exists, CompiledHasArticle, Articles, SlugsDistinct
<1>3. QED
  BY <1>1, <1>2

(* Every reachable state satisfies the inductive invariant. *)
THEOREM Inductive == Spec => []IInv
  BY InitIInv, NextIInv, PTL DEF Spec

(* Every variable keeps its type, in every state of every behaviour.           *)
THEOREM TypeCorrect == Spec => []TypeOK
<1>1. IInv => TypeOK
  BY DEF IInv
<1>2. QED
  BY <1>1, Inductive, PTL

(* A source with compiled_at set has an article, so that the skip in            *)
(* _schedule_compile never leaves a source without one.                         *)
THEOREM CompiledSourcesHaveArticles == Spec => []CompiledHasArticle
<1>1. IInv => CompiledHasArticle
  BY DEF IInv
<1>2. QED
  BY <1>1, Inductive, PTL

(* A COMPLETE job saved its article and marked its source.                      *)
THEOREM CompleteJobsSaved == Spec => []CompleteMeansSaved
<1>1. IInv => CompleteMeansSaved
  BY DEF IInv, RunInv, RunOK, SavedBy, CompleteMeansSaved
<1>2. QED
  BY <1>1, Inductive, PTL

(* The link table never refers to a deleted source or to an article of another. *)
THEOREM LinksSound == Spec => []LinkSound
<1>1. IInv => LinkSound
  BY DEF IInv
<1>2. QED
  BY <1>1, Inductive, PTL

(* No two articles share a slug, however the runs that chose them interleave.   *)
THEOREM UniqueSlugs == Spec => []SlugsDistinct
<1>1. IInv => SlugsDistinct
  BY DEF IInv
<1>2. QED
  BY <1>1, Inductive, PTL

(* The steps that write a job row are the start, the end and the error handler. *)
LEMMA JobWriters ==
  ASSUME [Next]_vars
  PROVE  UNCHANGED job \/ \E q \in Runs : StartRun(q) \/ FinishJob(q) \/ HandleError(q)
<1>1. ASSUME Request \/ Process
      PROVE  UNCHANGED <<job>>
  BY <1>1 DEF Request, IngestOnly, delete_source, IngestSource, ReingestSource,
              trigger_compile, retry_stuck_source, Process, GatewayCrash, GatewayStart,
              _reset_stuck_sources, JobTimeout, WorkerCrash, stored, wiki
<1>2. ASSUME NEW r \in Runs, Step(r), ~StartRun(r), ~FinishJob(r), ~HandleError(r)
      PROVE  UNCHANGED <<job>>
  BY <1>2 DEF Step, Normalize, Compile, CompileFails, SaveReplaces, SaveCreates,
              SaveRefused, WriteFile, UnlinkOld, CommitArticle, CommitFails,
              LinkArticle, LinkFails, IndexArticle, SaveFails, PostCompile, stored, wiki
<1>3. QED
  BY <1>1, <1>2 DEF Next, vars

(* Only jobs still RUNNING are marked by an error handler, so a COMPLETE job    *)
(* stays COMPLETE in every step.                                                *)
LEMMA CompleteStays ==
  ASSUME IInv, [Next]_vars, NEW r \in Runs, job[r] = "complete"
  PROVE  job'[r] = "complete"
<1>1. CASE UNCHANGED job
  BY <1>1
<1>2. ASSUME NEW q \in Runs, StartRun(q)
      PROVE  job'[r] = "complete"
  <2>1. q # r
    BY <1>2, NoneAssumption DEF StartRun, At, IInv, RunInv, RunOK
  <2>2. QED
    BY <1>2, <2>1 DEF StartRun, IInv, TypeOK
<1>3. ASSUME NEW q \in Runs, FinishJob(q)
      PROVE  job'[r] = "complete"
  BY <1>3 DEF FinishJob, IInv, TypeOK
<1>4. ASSUME NEW q \in Runs, HandleError(q)
      PROVE  job'[r] = "complete"
  BY <1>4 DEF HandleError, RunningJobs
<1>5. QED
  BY <1>1, <1>2, <1>3, <1>4, JobWriters

(* COMPLETE is final, in every behaviour: a failing run of the same source      *)
(* never takes back the outcome of a job that succeeded.                        *)
THEOREM CompleteFinal == Spec => CompleteIsFinal
<1>1. IInv /\ [Next]_vars
         => [\A r \in Runs : job[r] = "complete" => job'[r] = "complete"]_vars
  BY CompleteStays
<1>2. QED
  BY <1>1, Inductive, PTL DEF Spec, CompleteIsFinal

-----------------------------------------------------------------------------
(* The pipeline implements CompileJobs *)

(* What the abstract steps ask for beyond IInv: a run nobody asked for has no   *)
(* source, and a run that executes has a job row.                               *)
StepInv == \A r \in Runs : /\ At(r, "idle") => run[r].source = None
                           /\ run[r].pc \in Active => job[r] # None

(* A local move changes the step of one run, and not its source. *)
LEMMA GotoMoves ==
  ASSUME TypeOK, NEW r \in Runs, NEW pc \in PC, Goto(r, pc)
  PROVE  /\ run'[r].pc = pc /\ run'[r].source = run[r].source
         /\ \A q \in Runs \ {r} : run'[q] = run[q]
  BY DEF TypeOK, Goto, Run

(* Every step of a run leaves the other runs alone, keeps the run's source,     *)
(* and lets it execute only if it already did or its job row appears.           *)
LEMMA StepMoves ==
  ASSUME TypeOK, NEW r \in Runs, Step(r)
  PROVE  /\ \A q \in Runs \ {r} : run'[q] = run[q]
         /\ run'[r].source = run[r].source
         /\ run[r].pc # "idle" /\ run'[r].pc # "idle"
         /\ run'[r].pc \in Active => run[r].pc \in Active \/ job'[r] = "running"
<1> USE DEF At, PC, Active
<1>1. CASE StartRun(r)
  <2>1. CASE Exists(run[r].source)
    <3>1. job'[r] = "running"
      BY <1>1, <2>1 DEF StartRun, TypeOK
    <3>2. PICK pc \in {"llm", "normalize"} : Goto(r, pc)
      BY <1>1, <2>1 DEF StartRun
    <3>3. QED
      BY <1>1, <3>1, <3>2, GotoMoves DEF StartRun
  <2>2. CASE ~Exists(run[r].source)
    BY <1>1, <2>2, GotoMoves DEF StartRun
  <2>3. QED
    BY <2>1, <2>2
<1>2. CASE Normalize(r)
  <2>1. PICK pc \in {"llm", "done"} : Goto(r, pc)
    BY <1>2 DEF Normalize
  <2>2. QED
    BY <1>2, <2>1, GotoMoves DEF Normalize
<1>3. CASE Compile(r)
  BY <1>3 DEF Compile, TypeOK, Run
<1>4. CASE SaveReplaces(r)
  BY <1>4 DEF SaveReplaces, TypeOK, Run
<1>5. CASE SaveCreates(r)
  BY <1>5 DEF SaveCreates, TypeOK, Run
<1>6. CASE WriteFile(r)
  <2>1. PICK pc \in {"unlink", "commit"} : Goto(r, pc)
    BY <1>6 DEF WriteFile
  <2>2. QED
    BY <1>6, <2>1, GotoMoves DEF WriteFile
<1>7. CASE \/ UnlinkOld(r) \/ CommitArticle(r) \/ LinkArticle(r) \/ IndexArticle(r)
           \/ FinishJob(r) \/ HandleError(r)
  BY <1>7, GotoMoves, SMTT(30)
     DEF UnlinkOld, CommitArticle, LinkArticle, IndexArticle, FinishJob, HandleError
<1>8. CASE \/ CompileFails(r) \/ SaveRefused(r) \/ CommitFails(r) \/ LinkFails(r)
           \/ SaveFails(r) \/ PostCompile(r)
  BY <1>8, GotoMoves
     DEF CompileFails, SaveRefused, CommitFails, LinkFails, SaveFails, PostCompile, Fail
<1>9. QED
  BY <1>1, <1>2, <1>3, <1>4, <1>5, <1>6, <1>7, <1>8 DEF Step

(* No step takes a job row away. *)
LEMMA JobStays ==
  ASSUME TypeOK, [Next]_vars, NEW r \in Runs, job[r] # None
  PROVE  job'[r] # None
<1>1. CASE UNCHANGED job
  BY <1>1
<1>2. ASSUME NEW q \in Runs, StartRun(q) \/ FinishJob(q) \/ HandleError(q)
      PROVE  job'[r] # None
  BY <1>2, NoneAssumption DEF StartRun, FinishJob, HandleError, TypeOK
<1>3. QED
  BY <1>1, <1>2, JobWriters

(* A process event leaves a run alone, ends it, or queues one nobody asked for. *)
LEMMA ProcessMoves ==
  ASSUME TypeOK, Process, NEW q \in Runs
  PROVE  \/ run'[q] = run[q]
         \/ run'[q].pc = "dead" /\ run'[q].source = run[q].source
         \/ At(q, "idle") /\ run'[q].pc = "queued"
<1>1. CASE GatewayCrash
  BY <1>1 DEF GatewayCrash, TypeOK, Run
<1>2. CASE GatewayStart \/ _reset_stuck_sources
  BY <1>2 DEF GatewayStart, _reset_stuck_sources
<1>3. ASSUME NEW r \in Runs, JobTimeout(r)
      PROVE  \/ run'[q] = run[q]
             \/ run'[q].pc = "dead" /\ run'[q].source = run[q].source
  BY <1>3 DEF JobTimeout, Goto, TypeOK, Run
<1>4. ASSUME NEW r \in Runs, NEW x \in Runs, WorkerCrash(r, x)
      PROVE  \/ run'[q] = run[q]
             \/ run'[q].pc = "dead" /\ run'[q].source = run[q].source
             \/ At(q, "idle") /\ run'[q].pc = "queued"
  BY <1>4 DEF WorkerCrash, TypeOK, Run, IdleRun, At
<1>5. QED
  BY <1>1, <1>2, <1>3, <1>4 DEF Process

(* Nobody has asked for anything at the start. *)
LEMMA InitStepInv == Init => StepInv
  BY DEF Init, StepInv, IdleRun, At, Active

(* Every step keeps it. *)
LEMMA NextStepInv == TypeOK /\ StepInv /\ [Next]_vars => StepInv'
<1> SUFFICES ASSUME TypeOK, StepInv, [Next]_vars, NEW q \in Runs
             PROVE  /\ run'[q].pc = "idle" => run'[q].source = None
                    /\ run'[q].pc \in Active => job'[q] # None
  BY DEF StepInv, At
<1>0. /\ run[q].pc = "idle" => run[q].source = None
      /\ run[q].pc \in Active => job[q] # None
      /\ job[q] # None => job'[q] # None
  BY JobStays DEF StepInv, At
<1>1. ASSUME NEW r \in Runs, Step(r)
      PROVE  /\ run'[q].pc = "idle" => run'[q].source = None
             /\ run'[q].pc \in Active => job'[q] # None
  <2>1. CASE q = r
    BY <1>0, <1>1, <2>1, StepMoves, NoneAssumption
  <2>2. CASE q # r
    BY <1>0, <1>1, <2>2, StepMoves
  <2>3. QED
    BY <2>1, <2>2
<1>2. ASSUME NEW s \in Sources, NEW r \in Runs, NEW doc \in BOOLEAN,
             schedule_compile(r, s, doc)
      PROVE  run'[q] = run[q] \/ run'[q].pc = "queued"
  BY <1>2 DEF schedule_compile, TypeOK, IdleRun
<1>3. CASE Request
  BY <1>0, <1>2, <1>3
     DEF Request, IngestOnly, delete_source, IngestSource, ReingestSource,
         trigger_compile, retry_stuck_source, stored, Active
<1>4. CASE Process
  BY <1>0, <1>4, ProcessMoves DEF Active
<1>5. CASE UNCHANGED vars
  BY <1>0, <1>5 DEF vars
<1>6. QED
  BY <1>1, <1>3, <1>4, <1>5 DEF Next

(* A scheduled compile is an abstract request. *)
LEMMA ScheduleAsks ==
  ASSUME TypeOK, StepInv, NEW r \in Runs, NEW s \in Sources, NEW doc \in BOOLEAN,
         schedule_compile(r, s, doc), UNCHANGED <<job, compiledAt>>
  PROVE  Jobs!Ask(r, s)
<1>1. run[r].source = None
  BY DEF schedule_compile, StepInv
<1>2. \A q \in Runs : run'[q].source = IF q = r THEN s ELSE run[q].source
  BY DEF schedule_compile, TypeOK, IdleRun
<1>3. QED
  BY <1>1, <1>2 DEF Jobs!Ask

(* Where neither rows nor sources of runs change, CompileJobs stutters. *)
LEMMA FrameJobs ==
  ASSUME UNCHANGED <<job, compiledAt>>, \A q \in Runs : run'[q].source = run[q].source
  PROVE  UNCHANGED Jobs!jobVars
  BY DEF Jobs!jobVars

(* Every step of a run is an abstract step of the same run, or stutters. *)
LEMMA StepImplements ==
  ASSUME IInv, StepInv, NEW r \in Runs, Step(r)
  PROVE  [Jobs!Next]_(Jobs!jobVars)
<1>1. /\ TypeOK /\ RunOK(r) /\ run[r].source \in Sources
      /\ \A q \in Runs : run'[q].source = run[q].source
  BY StepMoves DEF IInv, RunInv, RunOK, At, TypeOK, Run
<1>2. CASE StartRun(r)
  <2>1. CASE Exists(run[r].source)
    <3>1. Jobs!Begin(r)
      BY <1>1, <1>2, <2>1, NoneAssumption DEF StartRun, Jobs!Begin, RunOK, At
    <3>2. QED
      BY <3>1 DEF Jobs!Next
  <2>2. CASE ~Exists(run[r].source)
    BY <1>1, <1>2, <2>2, FrameJobs DEF StartRun
  <2>3. QED
    BY <2>1, <2>2
<1>3. CASE CommitArticle(r)
  <2>1. Jobs!Build(r)
    BY <1>1, <1>3 DEF CommitArticle, Jobs!Build, StepInv, Active, At
  <2>2. QED
    BY <2>1 DEF Jobs!Next
<1>4. CASE FinishJob(r)
  <2>1. Jobs!Complete(r)
    BY <1>1, <1>4 DEF FinishJob, Jobs!Complete, StepInv, Active, At, RunOK, HasSaved, SavedBy
  <2>2. QED
    BY <2>1 DEF Jobs!Next
<1>5. CASE HandleError(r)
  <2>1. CASE Cardinality(RunningJobs(run[r].source)) <= 1
    <3>1. Jobs!Fail(run[r].source)
      BY <1>1, <1>5, <2>1, SMTT(30) DEF HandleError, Jobs!Fail, RunningJobs
    <3>2. QED
      BY <1>1, <3>1 DEF Jobs!Next
  <2>2. CASE ~(Cardinality(RunningJobs(run[r].source)) <= 1)
    BY <1>1, <1>5, <2>2, FrameJobs DEF HandleError
  <2>3. QED
    BY <2>1, <2>2
<1>6. CASE ~StartRun(r) /\ ~CommitArticle(r) /\ ~FinishJob(r) /\ ~HandleError(r)
  <2>1. UNCHANGED <<job, compiledAt>>
    BY <1>6, OnlyCommitWrites
       DEF Step, Normalize, Compile, CompileFails, SaveReplaces, SaveCreates,
           SaveRefused, WriteFile, UnlinkOld, CommitFails, LinkArticle, LinkFails,
           IndexArticle, SaveFails, PostCompile, stored, wiki
  <2>2. QED
    BY <1>1, <2>1, FrameJobs
<1>7. QED
  BY <1>2, <1>3, <1>4, <1>5, <1>6

(* A request is an abstract request or stutters. *)
LEMMA RequestImplements ==
  ASSUME IInv, StepInv, Request
  PROVE  [Jobs!Next]_(Jobs!jobVars)
<1>1. TypeOK /\ UNCHANGED <<job, compiledAt>>
  BY OthersWriteNothing
     DEF IInv, Request, IngestOnly, delete_source, IngestSource, ReingestSource,
         trigger_compile, retry_stuck_source, stored, wiki
<1>2. ASSUME NEW s \in Sources, NEW r \in Runs, NEW doc \in BOOLEAN,
             schedule_compile(r, s, doc)
      PROVE  [Jobs!Next]_(Jobs!jobVars)
  BY <1>1, <1>2, ScheduleAsks DEF Jobs!Next
<1>3. ASSUME run' = run
      PROVE  [Jobs!Next]_(Jobs!jobVars)
  BY <1>1, <1>3, FrameJobs
<1>4. run' = run \/ \E s \in Sources, r \in Runs, doc \in BOOLEAN :
                       schedule_compile(r, s, doc)
  BY DEF Request, IngestOnly, delete_source, IngestSource, ReingestSource,
         trigger_compile, retry_stuck_source
<1>5. QED
  BY <1>2, <1>3, <1>4

(* A crash asks for the retry of what was running; the other process events     *)
(* stutter.                                                                     *)
LEMMA ProcessImplements ==
  ASSUME IInv, StepInv, Process
  PROVE  [Jobs!Next]_(Jobs!jobVars)
<1>1. TypeOK /\ UNCHANGED <<job, compiledAt>>
  BY DEF IInv, Process, GatewayCrash, GatewayStart, _reset_stuck_sources, JobTimeout,
         WorkerCrash, stored, wiki
<1>2. ASSUME NEW r \in Runs, NEW q \in Runs, WorkerCrash(r, q)
      PROVE  Jobs!Next
  <2>1. run[q].source = None /\ run[r].source \in Sources /\ r # q
    BY <1>1, <1>2 DEF WorkerCrash, StepInv, IInv, RunInv, RunOK, At, Active, TypeOK, Run
  <2>2. PICK s \in Sources : s = run[r].source
    BY <2>1
  <2>3. \A x \in Runs : run'[x].source = IF x = q THEN s ELSE run[x].source
    BY <1>1, <1>2, <2>2 DEF WorkerCrash, TypeOK, Run, IdleRun
  <2>4. Jobs!Ask(q, s)
    BY <1>1, <2>1, <2>3 DEF Jobs!Ask
  <2>5. QED
    BY <2>4 DEF Jobs!Next
<1>3. ASSUME \A r \in Runs, q \in Runs : ~WorkerCrash(r, q)
      PROVE  \A q \in Runs : run'[q].source = run[q].source
  BY <1>1, <1>3
     DEF Process, GatewayCrash, GatewayStart, _reset_stuck_sources, JobTimeout, Goto,
         TypeOK, Run
<1>4. QED
  BY <1>1, <1>2, <1>3, FrameJobs

(* What a client polling the Job rows sees is a behaviour of CompileJobs, for   *)
(* any number of sources and overlapping runs, in both deployment modes.        *)
THEOREM JobsImplemented == Spec => JobsKept
<1>1. Init => Jobs!Init
  BY DEF Init, Jobs!Init, IdleRun
<1>2. IInv /\ StepInv /\ [Next]_vars => [Jobs!Next]_(Jobs!jobVars)
  <2> SUFFICES ASSUME IInv, StepInv, [Next]_vars
               PROVE  [Jobs!Next]_(Jobs!jobVars)
    OBVIOUS
  <2>1. CASE UNCHANGED vars
    BY <2>1, FrameJobs DEF vars
  <2>2. QED
    BY <2>1, StepImplements, RequestImplements, ProcessImplements DEF Next
<1>3. IInv => TypeOK
  BY DEF IInv
<1>4. QED
  BY <1>1, <1>2, <1>3, InitStepInv, NextStepInv, Inductive, PTL
     DEF Spec, JobsKept, Jobs!Spec

-----------------------------------------------------------------------------
(* Files, when runs overlap *)

(* Before save_article looks for a row; inside _upsert_article before its     *)
(* first commit; and everything before that commit.                           *)
PreSave == {"idle", "queued", "normalize", "llm", "save"}
Saving == {"write", "unlink", "commit"}
PreCommit == PreSave \cup Saving

(* A run that replaces article a and had it for itself. *)
Alone(r) == run[r].pc \in Saving /\ run[r].existing \notin crossed \cup {None}

(* What a run knows of the rows and files it is about to change. *)
FilesOK(r) ==
    /\ run[r].pc \in PreCommit => article[r] = None
    /\ run[r].pc \in PreSave => run[r].existing = None
    /\ run[r].existing = None <=> run[r].old = None
    /\ run[r].pc \in Saving /\ run[r].existing # None
          => /\ run[r].slug = article[run[r].existing].slug
             /\ run[r].old[2] = run[r].slug
    /\ At(r, "unlink") => run[r].old # Path(r)
    /\ At(r, "commit") /\ run[r].existing = None
          => file[Path(r)] # None \/ SlugTaken(run[r].slug)
    /\ Alone(r) => /\ run[r].old = article[run[r].existing].path
                   /\ <<run[r].existing, run[r].source>> \in link
                   /\ Exists(run[r].source)
                   /\ ~At(r, "write") => file[Path(r)] # None

PathsOK == \A a \in Articles : article[a].path[2] = article[a].slug

(* A file is named after its article's slug, and slugs are distinct, so a run *)
(* can only delete the file of the article it replaces.                       *)
FileInv ==
    /\ \A r \in Runs : FilesOK(r)
    /\ PathsOK
    /\ Crossed \subseteq crossed
    /\ FilePresent

(* What the environment may do: a source may be deleted only where foreign     *)
(* keys protect the ones that have an article.                                 *)
Undisturbed == /\ Events \cap {"save", "crash", "timeout"} = {}
               /\ "delete" \in Events => ForeignKeys

(* Nothing is saved yet. *)
LEMMA InitFileInv == OverlapInit => FileInv
<1> SUFFICES ASSUME OverlapInit
             PROVE  FileInv
  OBVIOUS
<1>1. Articles = {} /\ crossed = {}
  BY DEF OverlapInit, Init, Articles
<1>2. ASSUME NEW r \in Runs
      PROVE  FilesOK(r)
  BY <1>1, <1>2 DEF OverlapInit, Init, FilesOK, IdleRun, Alone, PreCommit, PreSave, Saving, At
<1>3. Crossed = {}
  BY DEF OverlapInit, Init, Crossed, Replacing, IdleRun
<1>4. QED
  BY <1>1, <1>2, <1>3 DEF FileInv, PathsOK, FilePresent

(* The articles of two runs that replace at once are set apart. *)
LEMMA AloneTogether ==
  ASSUME FileInv, NEW q \in Runs, NEW r \in Runs, q # r,
         run[q].existing \in Runs, run[q].existing = run[r].existing,
         run[q].pc \in Saving, run[r].pc \in Saving
  PROVE  run[r].existing \in crossed
  BY DEF FileInv, Crossed, Replacing, Saving

(* A step outside the save. *)
Quiet(r) ==
    \/ run'[r] = run[r]
    \/ /\ run[r].pc \notin Saving /\ run'[r].pc \notin Saving
       /\ run'[r].pc \in PreCommit => run[r].pc \in PreCommit
       /\ run'[r].pc \in PreSave => run'[r].existing = None
       /\ run'[r].existing = None <=> run'[r].old = None

(* A run outside the save may move to another step outside it. *)
LEMMA QuietKeepsFiles ==
  ASSUME IInv, FileInv, UNCHANGED <<article, file>>, link \subseteq link',
         crossed' = crossed \cup Crossed',
         \A r \in Runs : Alone(r) => status'[run[r].source] \notin {None, "deleted"},
         \A r \in Runs : Quiet(r)
  PROVE  FileInv'
<1>1. Articles' = Articles /\ \A slug : SlugTaken(slug)' <=> SlugTaken(slug)
  BY DEF Articles, SlugTaken
<1>2. ASSUME NEW r \in Runs
      PROVE  FilesOK(r)'
  <2>1. CASE run'[r] = run[r]
    BY <2>1, <1>1 DEF FilesOK, FileInv, Path, At, Alone, Exists
  <2>2. CASE run'[r] # run[r]
    BY <2>2 DEF FilesOK, FileInv, At, Alone, PreCommit, Saving, Quiet
  <2>3. QED
    BY <2>1, <2>2
<1>3. PathsOK' /\ Crossed' \subseteq crossed'
  BY <1>1 DEF FileInv, PathsOK
<1>4. FilePresent'
  <2> SUFFICES ASSUME NEW a \in Articles, a \notin crossed, file[article[a].path] = None
               PROVE  \E r \in Runs : /\ run'[r].pc = "commit"
                                      /\ run'[r].existing = a
                                      /\ run'[r].old = article[a].path
    BY <1>1 DEF FilePresent, At
  <2>1. PICK r \in Runs : At(r, "commit") /\ run[r].existing = a
                           /\ run[r].old = article[a].path
    BY DEF FileInv, FilePresent
  <2>2. run'[r] = run[r]
    BY <2>1 DEF At, Saving, Quiet
  <2>3. QED
    BY <2>1, <2>2 DEF At
<1>5. QED
  BY <1>2, <1>3, <1>4 DEF FileInv

(* The source of a run that replaces an article is there. *)
LEMMA AloneSource ==
  ASSUME IInv, FileInv, NEW r \in Runs, Alone(r)
  PROVE  run[r].source \in Sources /\ Exists(run[r].source)
<1>1. ~At(r, "idle") /\ FilesOK(r) /\ RunOK(r) /\ TypeOK
  BY DEF Alone, Saving, At, FileInv, IInv, RunInv
<1>2. QED
  BY <1>1 DEF FilesOK, RunOK, TypeOK, Run

(* A new or repeated request schedules a fresh run; a deletion spares the      *)
(* sources that are linked.                                                    *)
LEMMA RequestKeepsFiles ==
  ASSUME Undisturbed, IInv, FileInv, Request, crossed' = crossed \cup Crossed'
  PROVE  FileInv'
<1> USE DEF At
<1>1. PICK s \in Sources :
         \/ IngestOnly(s)
         \/ delete_source(s)
         \/ \E r \in Runs : \/ IngestSource(s, r)
                            \/ ReingestSource(s, r)
                            \/ trigger_compile(s, r)
                            \/ retry_stuck_source(s, r)
  BY DEF Request
<1>2. UNCHANGED <<article, file, link>>
  BY <1>1 DEF IngestOnly, delete_source, IngestSource, ReingestSource,
              trigger_compile, retry_stuck_source, stored, wiki
<1>3. \A r \in Runs : Quiet(r)
  <2>1. CASE UNCHANGED run
    BY <2>1 DEF Quiet
  <2>2. ASSUME NEW r \in Runs, NEW doc \in BOOLEAN, schedule_compile(r, s, doc)
        PROVE  \A q \in Runs : Quiet(q)
    <3>1. PICK new : new = [IdleRun EXCEPT !.pc = "queued", !.source = s,
                                            !.doc = doc /\ ~Arq]
      OBVIOUS
    <3>2. new.pc = "queued" /\ new.existing = None /\ new.old = None
      BY <3>1 DEF IdleRun
    <3>3. run' = [run EXCEPT ![r] = new] /\ run[r].pc = "idle"
      BY <2>2, <3>1 DEF schedule_compile
    <3>4. QED
      BY <3>2, <3>3 DEF IInv, TypeOK, Saving, PreCommit, PreSave, Quiet
  <2>3. QED
    BY <1>1, <2>1, <2>2 DEF IngestOnly, delete_source, IngestSource, ReingestSource,
                            trigger_compile, retry_stuck_source, stored
<1>4. ASSUME NEW r \in Runs, Alone(r)
      PROVE  status'[run[r].source] \notin {None, "deleted"}
  <2>1. run[r].source \in Sources /\ status[run[r].source] \notin {None, "deleted"}
    BY <1>4, AloneSource DEF Exists
  <2>2. CASE delete_source(s)
    <3>1. <<run[r].existing, run[r].source>> \in link /\ run[r].existing \in Runs
      BY <1>4 DEF FileInv, FilesOK, Alone, IInv, TypeOK, Run
    <3>2. run[r].source # s
      BY <2>2, <3>1 DEF delete_source, Undisturbed
    <3>3. QED
      BY <2>1, <2>2, <3>2 DEF delete_source, IInv, TypeOK
  <2>3. CASE ~delete_source(s)
    <3>1. \/ status' = status
          \/ status' = [status EXCEPT ![s] = "processing"]
          \/ status' = [status EXCEPT ![s] = "pending"]
      BY <1>1, <2>3 DEF IngestOnly, IngestSource, ReingestSource,
                        trigger_compile, retry_stuck_source, stored
    <3>2. QED
      BY <2>1, <3>1, NoneAssumption DEF IInv, TypeOK
  <2>4. QED
    BY <2>2, <2>3
<1>5. QED
  BY <1>2, <1>3, <1>4, QuietKeepsFiles

(* Only the start-up scan is left of the process events, and it removes no     *)
(* source.                                                                     *)
LEMMA ProcessKeepsFiles ==
  ASSUME Undisturbed, IInv, FileInv, Process, crossed' = crossed \cup Crossed'
  PROVE  FileInv'
<1>1. GatewayStart \/ _reset_stuck_sources
  <2>1. "crash" \notin Events /\ "timeout" \notin Events
    BY DEF Undisturbed
  <2>2. ~GatewayCrash
    BY <2>1 DEF GatewayCrash
  <2>3. \A r, q \in Runs : ~JobTimeout(r) /\ ~WorkerCrash(r, q)
    BY <2>1 DEF WorkerCrash, JobTimeout
  <2>4. QED
    BY <2>2, <2>3 DEF Process
<1>2. UNCHANGED <<run, article, file, link>>
  BY <1>1 DEF GatewayStart, _reset_stuck_sources, wiki
<1>3. ASSUME NEW r \in Runs, Alone(r)
      PROVE  status'[run[r].source] \notin {None, "deleted"}
  <2>1. run[r].source \in Sources /\ status[run[r].source] \notin {None, "deleted"}
    BY <1>3, AloneSource DEF Exists
  <2>2. QED
    BY <1>1, <2>1, NoneAssumption DEF GatewayStart, _reset_stuck_sources
<1>4. QED
  BY <1>2, <1>3, QuietKeepsFiles DEF Quiet

(* A run that has a slug has a path to write to. *)
LEMMA PathTyped ==
  ASSUME IInv, NEW r \in Runs, run[r].pc \in HasSlug
  PROVE  Path(r) \in Paths /\ Path(r)[2] = run[r].slug
<1>1. run[r].slug \in Slugs /\ run[r].concept \in Concepts
  BY DEF IInv, TypeOK, Run, RunInv, RunOK, HasSlug, HasResult
<1>2. QED
  BY <1>1 DEF Path, Paths

(* What the record of a run that replaces an article refers to. *)
LEMMA ReplacesTyped ==
  ASSUME IInv, NEW r \in Runs, run[r].existing # None
  PROVE  run[r].existing \in Runs /\ article[run[r].existing] # None
         /\ article[run[r].existing] \in Article
  BY DEF IInv, TypeOK, Run, RunInv, RunOK

(* Moves from a step outside the save to another one. *)
LEMMA GotoQuiet ==
  ASSUME IInv, FileInv, NEW r \in Runs, NEW pc \in PC \ Saving, Goto(r, pc),
         run[r].pc \notin Saving,
         pc \in PreSave => run[r].pc \in PreSave,
         pc \in PreCommit => run[r].pc \in PreCommit
  PROVE  \A q \in Runs : Quiet(q)
<1>1. FilesOK(r) /\ run \in [Runs -> Run]
  BY DEF FileInv, IInv, TypeOK
<1>2. PICK new : new = [run[r] EXCEPT !.pc = pc]
  OBVIOUS
<1>3. new.pc = pc /\ new.existing = run[r].existing /\ new.old = run[r].old
  BY <1>1, <1>2 DEF Run
<1>4. run' = [run EXCEPT ![r] = new]
  BY <1>2 DEF Goto
<1>5. QED
  BY <1>1, <1>3, <1>4 DEF Quiet, FilesOK

(* The answer of the LLM is one. *)
LEMMA QuietCompile ==
  ASSUME IInv, FileInv, NEW r \in Runs, Compile(r)
  PROVE  \A q \in Runs : Quiet(q)
<1>1. PICK p \in Providers, t \in Titles, c \in Concepts :
         run' = [run EXCEPT ![r] = [@ EXCEPT !.pc = "save", !.provider = p,
                                             !.title = t, !.concept = c]]
  BY Zenon DEF Compile
<1>2. PICK new : new = [run[r] EXCEPT !.pc = "save", !.provider = p,
                                      !.title = t, !.concept = c]
  OBVIOUS
<1>3. run[r] \in Run /\ run[r].pc = "llm" /\ FilesOK(r)
  BY DEF IInv, TypeOK, Compile, FileInv, At
<1>4. new.pc = "save" /\ new.existing = run[r].existing /\ new.old = run[r].old
  BY <1>2, <1>3 DEF Run
<1>5. run' = [run EXCEPT ![r] = new] /\ run \in [Runs -> Run]
  BY <1>1, <1>2 DEF IInv, TypeOK
<1>6. QED
  BY <1>3, <1>4, <1>5 DEF Quiet, FilesOK, Saving, PreCommit, PreSave

(* The steps of a run outside the save. *)
QuietStep(r) ==
    \/ StartRun(r) \/ Normalize(r) \/ Compile(r) \/ CompileFails(r) \/ SaveRefused(r)
    \/ LinkArticle(r) \/ LinkFails(r) \/ IndexArticle(r)
    \/ FinishJob(r) \/ PostCompile(r) \/ HandleError(r)

(* None of them touches an article or a file, or takes a link away. *)
LEMMA QuietSteps ==
  ASSUME IInv, FileInv, NEW r \in Runs, QuietStep(r)
  PROVE  UNCHANGED <<article, file>> /\ link \subseteq link' /\ \A q \in Runs : Quiet(q)
<1>1. CASE ~Compile(r) /\ ~LinkArticle(r)
  <2>1. UNCHANGED <<article, file, link>>
    BY <1>1 DEF QuietStep, StartRun, Normalize, CompileFails, SaveRefused,
         LinkFails, IndexArticle, FinishJob, PostCompile, HandleError, stored, wiki
  <2>2. PICK pc \in PC \ Saving : /\ Goto(r, pc) /\ run[r].pc \notin Saving
                                  /\ pc \in PreSave => run[r].pc \in PreSave
                                  /\ pc \in PreCommit => run[r].pc \in PreCommit
    BY <1>1 DEF QuietStep, StartRun, Normalize, CompileFails, SaveRefused,
                LinkFails, IndexArticle, FinishJob, PostCompile, HandleError, Fail, PC,
                Active, Saving, PreSave, PreCommit, At
  <2>3. QED
    BY <2>1, <2>2, GotoQuiet
<1>2. CASE LinkArticle(r)
  <2>1. UNCHANGED <<article, file>> /\ link \subseteq link'
    BY <1>2 DEF LinkArticle
  <2>2. Goto(r, "index") /\ run[r].pc = "link"
    BY <1>2 DEF LinkArticle, At
  <2>3. \A q \in Runs : Quiet(q)
    BY <2>2, GotoQuiet DEF PC, Active, Saving, PreSave, PreCommit
  <2>4. QED
    BY <2>1, <2>3
<1>3. CASE Compile(r)
  <2>1. UNCHANGED stored
    BY <1>3, Zenon DEF Compile
  <2>2. QED
    BY <1>3, <2>1, QuietCompile DEF stored
<1>4. QED
  BY <1>1, <1>2, <1>3

(* No step of a run takes a source away from a run. *)
LEMMA StepSources ==
  ASSUME IInv, FileInv, NEW r \in Runs, Step(r), NEW q \in Runs, Alone(q)
  PROVE  status'[run[q].source] \notin {None, "deleted"}
<1>1. PICK s \in Sources : s = run[q].source /\ Exists(s)
  BY AloneSource
<1>2. Exists(s)'
  BY <1>1, SourceStays DEF IInv
<1>3. QED
  BY <1>1, <1>2 DEF Exists

(* A step of the save that neither commits nor deletes: only the run that      *)
(* takes it has something to show.                                             *)
LEMMA SaveStepKeepsFiles ==
  ASSUME IInv, FileInv, NEW r \in Runs, Step(r), crossed' = crossed \cup Crossed',
         UNCHANGED <<article, link>>, ~At(r, "commit"),
         \A p \in Paths : file[p] # None => file'[p] # None,
         FilesOK(r)'
  PROVE  FileInv'
<1>1. Articles' = Articles /\ \A slug : SlugTaken(slug)' <=> SlugTaken(slug)
  BY DEF Articles, SlugTaken
<1>0. \A q \in Runs \ {r} : run'[q] = run[q]
  BY StepMoves DEF IInv
<1>2. ASSUME NEW q \in Runs, q # r
      PROVE  FilesOK(q)'
  <2>1. run'[q] = run[q] /\ FilesOK(q) /\ Path(q)' = Path(q)
    BY <1>0, <1>2 DEF FileInv, Path
  <2>2. run[q].pc \in Saving => Path(q) \in Paths
    BY PathTyped DEF Saving, HasSlug, HasResult
  <2>3. Alone(q)' => Alone(q) /\ status'[run[q].source] \notin {None, "deleted"}
    BY <2>1, StepSources DEF Alone
  <2>4. QED
    BY <1>1, <2>1, <2>2, <2>3 DEF FilesOK, At, Exists, Saving, Alone
<1>3. PathsOK' /\ Crossed' \subseteq crossed'
  BY <1>1 DEF FileInv, PathsOK
<1>4. FilePresent'
  <2> SUFFICES ASSUME NEW a \in Articles, a \notin crossed, file'[article[a].path] = None
               PROVE  \E q \in Runs : /\ run'[q].pc = "commit"
                                      /\ run'[q].existing = a
                                      /\ run'[q].old = article[a].path
    BY <1>1 DEF FilePresent, At
  <2>1. article[a].path \in Paths
    BY DEF IInv, TypeOK, Articles, Article
  <2>2. PICK q \in Runs : At(q, "commit") /\ run[q].existing = a
                           /\ run[q].old = article[a].path
    BY <2>1 DEF FileInv, FilePresent
  <2>3. run'[q] = run[q]
    BY <1>0, <2>2
  <2>4. QED
    BY <2>2, <2>3 DEF At
<1>5. QED
  BY <1>2, <1>3, <1>4 DEF FileInv

(* Loading the row to replace. *)
LEMMA ReplaceKeepsFiles ==
  ASSUME IInv, FileInv, NEW r \in Runs, SaveReplaces(r), crossed' = crossed \cup Crossed'
  PROVE  FileInv'
<1>1. PICK a \in Builds(r) :
         run' = [run EXCEPT ![r] = [@ EXCEPT !.pc = "write", !.existing = a,
                                             !.slug = article[a].slug,
                                             !.old = article[a].path,
                                             !.seen = status[run[r].source]]]
  BY Zenon DEF SaveReplaces
<1>2. /\ a \in Runs /\ article[a] # None /\ article[a] \in Article
      /\ <<a, run[r].source>> \in link
      /\ article[a].path \in Paths /\ article[a].slug \in Slugs
      /\ article[a].path[2] = article[a].slug
  BY DEF Builds, Articles, IInv, TypeOK, Article, FileInv, PathsOK
<1>3. run[r] \in Run /\ run[r].pc = "save" /\ run \in [Runs -> Run] /\ FilesOK(r)
      /\ Exists(run[r].source)
  BY Zenon DEF IInv, TypeOK, SaveReplaces, FileInv, At
<1>4. PICK new : new = [run[r] EXCEPT !.pc = "write", !.existing = a,
                                      !.slug = article[a].slug,
                                      !.old = article[a].path,
                                      !.seen = status[run[r].source]]
  OBVIOUS
<1>5. /\ new.pc = "write" /\ new.existing = a /\ new.slug = article[a].slug
      /\ new.old = article[a].path /\ new.source = run[r].source
  BY <1>3, <1>4 DEF Run
<1>6. run' = [run EXCEPT ![r] = new]
  BY <1>1, <1>4
<1>7. UNCHANGED stored
  BY Zenon DEF SaveReplaces
<1>8. run'[r] = new
  BY <1>3, <1>6
<1>9. FilesOK(r)'
  <2>1. article'[r] = None
    BY <1>3, <1>7 DEF FilesOK, PreCommit, PreSave, stored
  <2>2. a # None /\ article[a].path # None
    BY <1>2, NoneAssumption
  <2>3. UNCHANGED <<article, link, status>>
    BY <1>7 DEF stored
  <2>4. QED
    BY <1>2, <1>3, <1>5, <1>8, <2>1, <2>2, <2>3
       DEF FilesOK, PreCommit, PreSave, Saving, At, Alone, Exists
<1>10. Step(r)
  BY DEF Step
<1>11. ~At(r, "commit")
  BY <1>3 DEF At
<1>12. UNCHANGED <<article, link, file>>
  BY <1>7 DEF stored
<1>13. QED
  BY <1>9, <1>10, <1>11, <1>12, SaveStepKeepsFiles

(* Choosing the slug of a new row. *)
LEMMA CreateKeepsFiles ==
  ASSUME IInv, FileInv, NEW r \in Runs, SaveCreates(r), crossed' = crossed \cup Crossed'
  PROVE  FileInv'
<1>1. PICK slug \in Slugs :
         run' = [run EXCEPT ![r] = [@ EXCEPT !.pc = "write", !.slug = slug,
                                             !.seen = status[run[r].source]]]
  BY Zenon DEF SaveCreates
<1>3. run[r] \in Run /\ run[r].pc = "save" /\ run \in [Runs -> Run] /\ FilesOK(r)
  BY Zenon DEF IInv, TypeOK, SaveCreates, FileInv, At
<1>4. PICK new : new = [run[r] EXCEPT !.pc = "write", !.slug = slug,
                                      !.seen = status[run[r].source]]
  OBVIOUS
<1>5. new.pc = "write" /\ new.existing = run[r].existing /\ new.old = run[r].old
  BY <1>3, <1>4 DEF Run
<1>6. run' = [run EXCEPT ![r] = new]
  BY <1>1, <1>4
<1>7. UNCHANGED stored
  BY Zenon DEF SaveCreates
<1>8. run'[r] = new
  BY <1>3, <1>6
<1>12. UNCHANGED <<article, link, file>>
  BY <1>7 DEF stored
<1>9. FilesOK(r)'
  <2>1. article[r] = None /\ run[r].existing = None /\ run[r].old = None
    BY <1>3 DEF FilesOK, PreCommit, PreSave
  <2>4. QED
    BY <1>5, <1>8, <1>12, <2>1
       DEF FilesOK, PreCommit, PreSave, Saving, At, Alone
<1>10. Step(r)
  BY DEF Step
<1>11. ~At(r, "commit")
  BY <1>3 DEF At
<1>13. QED
  BY <1>9, <1>10, <1>11, <1>12, SaveStepKeepsFiles

(* Writing the new file. *)
LEMMA WriteKeepsFiles ==
  ASSUME IInv, FileInv, NEW r \in Runs, WriteFile(r), crossed' = crossed \cup Crossed'
  PROVE  FileInv'
<1>1. run[r].pc = "write" /\ FilesOK(r) /\ run \in [Runs -> Run] /\ file \in [Paths -> Runs \cup {None}]
  BY DEF WriteFile, At, FileInv, IInv, TypeOK
<1>2. Path(r) \in Paths
  BY <1>1, PathTyped DEF HasSlug, HasResult
<1>3. PICK pc : /\ pc = (IF run[r].old \notin {None, Path(r)} THEN "unlink" ELSE "commit")
                /\ Goto(r, pc)
  BY DEF WriteFile
<1>4. /\ run'[r].pc = pc /\ run'[r].existing = run[r].existing /\ run'[r].old = run[r].old
      /\ run'[r].slug = run[r].slug /\ run'[r].source = run[r].source
      /\ run'[r].concept = run[r].concept
  BY <1>1, <1>3 DEF Goto, Run
<1>5. UNCHANGED <<article, link, status>> /\ file' = [file EXCEPT ![Path(r)] = r]
  BY DEF WriteFile
<1>6. file'[Path(r)] = r /\ r # None /\ Path(r)' = Path(r)
  BY <1>1, <1>2, <1>4, <1>5, NoneAssumption DEF Path
<1>7. \A p \in Paths : file[p] # None => file'[p] # None
  BY <1>1, <1>2, <1>5, <1>6
<1>8. FilesOK(r)'
  <2>1. pc \in {"unlink", "commit"} /\ (pc = "unlink" => run[r].old # Path(r))
    BY <1>3
  <2>2. Alone(r)' => Alone(r)
    BY <1>1, <1>4 DEF Alone, Saving
  <2>3. article'[r] = None
    BY <1>1, <1>5 DEF FilesOK, PreCommit, Saving
  <2>4. QED
    BY <1>1, <1>4, <1>5, <1>6, <2>1, <2>2, <2>3
       DEF FilesOK, PreCommit, PreSave, Saving, At, Exists
<1>10. Step(r)
  BY DEF Step
<1>11. ~At(r, "commit")
  BY <1>1 DEF At
<1>13. QED
  BY <1>5, <1>7, <1>8, <1>10, <1>11, SaveStepKeepsFiles

(* Deleting the old file, which can only be the article's own. *)
LEMMA UnlinkKeepsFiles ==
  ASSUME IInv, FileInv, NEW r \in Runs, UnlinkOld(r), crossed' = crossed \cup Crossed'
  PROVE  FileInv'
<1>1. run[r].pc = "unlink" /\ FilesOK(r) /\ run \in [Runs -> Run]
      /\ file \in [Paths -> Runs \cup {None}] /\ SlugsDistinct
  BY DEF UnlinkOld, At, FileInv, IInv, TypeOK
<1>2. run[r].old # None /\ run[r].existing # None /\ run[r].old \in Paths
  BY <1>1 DEF IInv, RunInv, RunOK, At, FilesOK, Run
<1>3. PICK a \in Runs : a = run[r].existing /\ article[a] # None
  BY <1>2, ReplacesTyped
<1>4. run[r].slug = article[a].slug /\ run[r].old[2] = article[a].slug
      /\ run[r].old # Path(r)
  BY <1>1, <1>2, <1>3 DEF FilesOK, At, Saving
<1>5. Step(r) /\ Goto(r, "commit") /\ UNCHANGED <<article, link, status>>
      /\ file' = [file EXCEPT ![run[r].old] = None]
  BY DEF UnlinkOld, Step
<1>6. /\ run'[r].pc = "commit" /\ run'[r].existing = run[r].existing
      /\ run'[r].old = run[r].old /\ run'[r].slug = run[r].slug
      /\ run'[r].source = run[r].source /\ run'[r].concept = run[r].concept
  BY <1>1, <1>5 DEF Goto, Run
<1>7. \A q \in Runs \ {r} : run'[q] = run[q]
  BY <1>5, StepMoves DEF IInv
<1>8. \A p \in Paths : p # run[r].old => file'[p] = file[p]
  BY <1>1, <1>5
<1>9. Articles' = Articles /\ \A slug : SlugTaken(slug)' <=> SlugTaken(slug)
  BY <1>5 DEF Articles, SlugTaken
<1>10. \A q \in Runs : run[q].pc \in Saving
                         => Path(q) \in Paths /\ Path(q)[2] = run[q].slug
  BY PathTyped DEF Saving, HasSlug, HasResult
<1>11. FilesOK(r)'
  <2>1. Path(r)' = Path(r) /\ Path(r) \in Paths
    BY <1>1, <1>6, <1>10 DEF Path, Saving
  <2>2. Alone(r)' => Alone(r)
    BY <1>1, <1>6 DEF Alone, Saving
  <2>3. article'[r] = None
    BY <1>1, <1>5 DEF FilesOK, PreCommit, Saving
  <2>4. file'[Path(r)] = file[Path(r)]
    BY <1>4, <1>8, <2>1
  <2>5. QED
    BY <1>1, <1>2, <1>5, <1>6, <2>1, <2>2, <2>3, <2>4
       DEF FilesOK, PreCommit, PreSave, Saving, At, Exists
<1>12. ASSUME NEW q \in Runs, q # r
       PROVE  FilesOK(q)'
  <2>1. run'[q] = run[q] /\ FilesOK(q) /\ Path(q)' = Path(q)
    BY <1>7, <1>12 DEF FileInv, Path
  <2>2. Alone(q)' => Alone(q) /\ status'[run[q].source] \notin {None, "deleted"}
    BY <1>5, <2>1, StepSources DEF Alone
  <2>3. CASE run[q].pc \in Saving /\ Path(q) = run[r].old
    <3>1. run[q].slug = article[a].slug
      BY <1>4, <1>10, <2>3
    <3>2. SlugTaken(run[q].slug)
      BY <1>3, <3>1 DEF SlugTaken, Articles
    <3>3. ~Alone(q)
      <4>1. SUFFICES ASSUME Alone(q)
                     PROVE  FALSE
        OBVIOUS
      <4>2. PICK b \in Runs : b = run[q].existing /\ article[b] # None /\ b \notin crossed
        BY <4>1, ReplacesTyped DEF Alone
      <4>3. article[b].slug = article[a].slug
        BY <2>1, <2>3, <3>1, <4>1, <4>2 DEF FilesOK, Alone
      <4>4. a = b
        BY <1>1, <1>3, <4>2, <4>3 DEF SlugsDistinct, Articles
      <4>5. run[r].pc \in Saving /\ run[q].existing = run[r].existing
            /\ run[q].existing \in Runs
        BY <1>1, <1>3, <4>2, <4>4 DEF Saving
      <4>6. QED
        BY <1>12, <2>3, <4>2, <4>5, AloneTogether
    <3>4. QED
      BY <1>5, <1>9, <2>1, <2>2, <2>3, <3>2, <3>3 DEF FilesOK, At
  <2>4. CASE ~(run[q].pc \in Saving /\ Path(q) = run[r].old)
    <3>1. run[q].pc \in Saving => file'[Path(q)] = file[Path(q)]
      BY <1>8, <1>10, <2>4
    <3>2. QED
      BY <1>5, <1>9, <2>1, <2>2, <3>1 DEF FilesOK, At, Exists, Saving, Alone
  <2>5. QED
    BY <2>3, <2>4
<1>13. PathsOK' /\ Crossed' \subseteq crossed'
  BY <1>5, <1>9 DEF FileInv, PathsOK
<1>14. FilePresent'
  <2> SUFFICES ASSUME NEW b \in Articles, b \notin crossed, file'[article[b].path] = None
               PROVE  \E q \in Runs : /\ run'[q].pc = "commit"
                                      /\ run'[q].existing = b
                                      /\ run'[q].old = article[b].path
    BY <1>5, <1>9 DEF FilePresent, At
  <2>1. article[b].path \in Paths /\ b \in Runs /\ article[b] # None
        /\ article[b].path[2] = article[b].slug
    BY DEF IInv, TypeOK, Articles, Article, FileInv, PathsOK
  <2>2. CASE article[b].path = run[r].old
    <3>1. a = b
      BY <1>1, <1>3, <1>4, <2>1, <2>2 DEF SlugsDistinct, Articles
    <3>2. QED
      BY <1>3, <1>6, <2>2, <3>1
  <2>3. CASE article[b].path # run[r].old
    <3>1. PICK q \in Runs : At(q, "commit") /\ run[q].existing = b
                             /\ run[q].old = article[b].path
      BY <1>8, <2>1, <2>3 DEF FileInv, FilePresent
    <3>2. run'[q] = run[q]
      BY <1>1, <1>7, <3>1 DEF At
    <3>3. QED
      BY <3>1, <3>2 DEF At
  <2>4. QED
    BY <2>2, <2>3
<1>15. QED
  BY <1>11, <1>12, <1>13, <1>14 DEF FileInv

(* A commit that is refused leaves the old row, whose file is still there      *)
(* unless another run replaced the article meanwhile.                          *)
LEMMA RefusedKeepsFiles ==
  ASSUME IInv, FileInv, NEW r \in Runs, CommitFails(r), crossed' = crossed \cup Crossed'
  PROVE  FileInv'
<1>1. run[r].pc = "commit" /\ FilesOK(r) /\ run \in [Runs -> Run] /\ CommitRefused(r)
  BY DEF CommitFails, At, FileInv, IInv, TypeOK
<1>2. Step(r) /\ Goto(r, "error") /\ UNCHANGED <<article, link, status, file>>
  BY DEF CommitFails, Step, Fail, stored
<1>3. /\ run'[r].pc = "error" /\ run'[r].existing = run[r].existing
      /\ run'[r].old = run[r].old
  BY <1>1, <1>2 DEF Goto, Run
<1>4. \A q \in Runs \ {r} : run'[q] = run[q]
  BY <1>2, StepMoves DEF IInv
<1>5. Articles' = Articles /\ \A slug : SlugTaken(slug)' <=> SlugTaken(slug)
  BY <1>2 DEF Articles, SlugTaken
<1>6. FilesOK(r)'
  BY <1>1, <1>3 DEF FilesOK, PreCommit, PreSave, Saving, At, Alone
<1>7. ASSUME NEW q \in Runs, q # r
      PROVE  FilesOK(q)'
  <2>1. run'[q] = run[q] /\ FilesOK(q) /\ Path(q)' = Path(q)
    BY <1>4, <1>7 DEF FileInv, Path
  <2>2. QED
    BY <1>2, <1>5, <2>1 DEF FilesOK, At, Exists, Alone
<1>8. PathsOK' /\ Crossed' \subseteq crossed'
  BY <1>2, <1>5 DEF FileInv, PathsOK
<1>9. FilePresent'
  <2> SUFFICES ASSUME NEW b \in Articles, b \notin crossed, file[article[b].path] = None
               PROVE  \E q \in Runs : /\ run'[q].pc = "commit"
                                      /\ run'[q].existing = b
                                      /\ run'[q].old = article[b].path
    BY <1>2, <1>5 DEF FilePresent, At
  <2>1. PICK q \in Runs : At(q, "commit") /\ run[q].existing = b
                           /\ run[q].old = article[b].path
    BY DEF FileInv, FilePresent
  <2>2. q # r
    <3>1. SUFFICES ASSUME q = r
                   PROVE  FALSE
      OBVIOUS
    <3>2. b # None /\ run[r].existing = b
      BY <2>1, <3>1, NoneAssumption DEF Articles
    <3>3. Alone(r)
      BY <1>1, <3>2 DEF Alone, Saving
    <3>4. QED
      BY <1>1, <3>2, <3>3 DEF FilesOK, CommitRefused
  <2>3. QED
    BY <1>4, <2>1, <2>2 DEF At
<1>10. QED
  BY <1>6, <1>7, <1>8, <1>9 DEF FileInv

(* The row a commit writes, column by column. *)
LEMMA CommitWrites ==
  ASSUME IInv, NEW r \in Runs, CommitArticle(r)
  PROVE  \E a \in Runs, row \in Article :
            /\ a = Target(r) /\ article' = [article EXCEPT ![a] = row]
            /\ row # None /\ row.by = r /\ row.source = run[r].source
            /\ run[r].existing = None =>
                  row.slug = run[r].slug /\ row.provider = run[r].provider
                  /\ row.path = Path(r)
            /\ run[r].existing # None =>
                  /\ article[a] \in Article /\ article[a] # None
                  /\ row.slug = article[a].slug
                  /\ row.provider = article[a].provider
                  /\ row.path = IF Path(r) = run[r].old THEN article[a].path ELSE Path(r)
<1>1. PICK a \in Runs : a = Target(r)
  BY DEF Target, IInv, TypeOK, Run
<1>2. RunOK(r) /\ run[r].source \in Sources /\ run[r].pc = "commit" /\ run[r] \in Run
      /\ TypeOK
  BY DEF IInv, RunInv, RunOK, CommitArticle, TypeOK, Run, At
<1>3. run[r].slug \in Slugs /\ run[r].provider \in Providers /\ Path(r) \in Paths
  BY <1>2, PathTyped DEF RunOK, Run, HasResult, HasSlug
<1>4. CASE run[r].existing = None
  <2>1. PICK row : row = [slug |-> run[r].slug, provider |-> run[r].provider,
                          path |-> Path(r), source |-> run[r].source, by |-> r]
    OBVIOUS
  <2>2. article' = [article EXCEPT ![a] = row]
    BY <1>1, <1>4, <2>1 DEF CommitArticle
  <2>3. row \in Article
    BY <1>2, <1>3, <2>1 DEF Article
  <2>4. row # None
    BY <2>3, NoneAssumption
  <2>5. row.by = r /\ row.source = run[r].source /\ row.slug = run[r].slug
        /\ row.provider = run[r].provider /\ row.path = Path(r)
    BY <2>1
  <2>6. QED
    BY <1>1, <1>4, <2>2, <2>3, <2>4, <2>5
<1>5. CASE run[r].existing # None
  <2>1. article[a] \in Article /\ article[a] # None /\ article[a].source = run[r].source
    BY <1>1, <1>2, <1>5 DEF RunOK, Target, TypeOK
  <2>2. PICK path \in Paths : path = WrittenPath(r)
                /\ path = IF Path(r) = run[r].old THEN article[a].path ELSE Path(r)
    BY <1>1, <1>3, <2>1 DEF WrittenPath, Article
  <2>3. PICK row : row = [article[a] EXCEPT !.by = r, !.path = path]
    OBVIOUS
  <2>4. article' = [article EXCEPT ![a] = row]
    BY <1>1, <1>5, <2>2, <2>3 DEF CommitArticle
  <2>5. row \in Article /\ row.by = r /\ row.path = path /\ row.source = article[a].source
        /\ row.slug = article[a].slug /\ row.provider = article[a].provider
    BY <2>1, <2>3 DEF Article
  <2>6. row # None
    BY <2>5, NoneAssumption
  <2>7. QED
    BY <1>1, <1>5, <2>1, <2>2, <2>4, <2>5, <2>6
<1>6. QED
  BY <1>4, <1>5

(* The first commit of a save: its file is there, and no other run that has    *)
(* its article for itself is touched.                                          *)
LEMMA CommitKeepsFiles ==
  ASSUME IInv, FileInv, NEW r \in Runs, CommitArticle(r), crossed' = crossed \cup Crossed'
  PROVE  FileInv'
<1>1. PICK a \in Runs, row \in Article :
            /\ a = Target(r) /\ article' = [article EXCEPT ![a] = row]
            /\ row # None
            /\ run[r].existing = None => row.slug = run[r].slug /\ row.path = Path(r)
            /\ run[r].existing # None =>
                  /\ article[a] # None
                  /\ row.slug = article[a].slug
                  /\ row.path = IF Path(r) = run[r].old THEN article[a].path ELSE Path(r)
  BY CommitWrites
<1>2. run[r].pc = "commit" /\ FilesOK(r) /\ run \in [Runs -> Run] /\ ~CommitRefused(r)
      /\ article \in [Runs -> Article \cup {None}]
  BY DEF CommitArticle, At, FileInv, IInv, TypeOK
<1>3. Step(r) /\ Goto(r, "link") /\ UNCHANGED file /\ link' = {l \in link : l[1] # a}
  BY <1>1 DEF CommitArticle, Step
<1>4. /\ run'[r].pc = "link" /\ run'[r].existing = run[r].existing
      /\ run'[r].old = run[r].old
  BY <1>2, <1>3 DEF Goto, Run
<1>5. \A q \in Runs \ {r} : run'[q] = run[q]
  BY <1>3, StepMoves DEF IInv
<1>6. /\ article'[a] = row
      /\ \A b \in Runs \ {a} : article'[b] = article[b]
  BY <1>1, <1>2
<1>7. a = IF run[r].existing = None THEN r ELSE run[r].existing
  BY <1>1 DEF Target
<1>8. run[r].existing = None => article[r] = None
  BY <1>2 DEF FilesOK, PreCommit, Saving
<1>9. \A b \in Runs : article[b] # None
                       => article'[b] # None /\ article'[b].slug = article[b].slug
  BY <1>1, <1>6, <1>7, <1>8
<1>10. \A slug : SlugTaken(slug) => SlugTaken(slug)'
  BY <1>9 DEF SlugTaken, Articles
<1>11. FilesOK(r)'
  BY <1>2, <1>4 DEF FilesOK, PreCommit, PreSave, Saving, At, Alone
<1>12. ASSUME NEW q \in Runs, q # r
       PROVE  FilesOK(q)'
  <2>1. run'[q] = run[q] /\ FilesOK(q) /\ Path(q)' = Path(q)
    BY <1>5, <1>12 DEF FileInv, Path
  <2>2. run[q].pc \in PreCommit => article'[q] = None
    BY <1>1, <1>6, <1>7, <1>12, <2>1 DEF FilesOK
  <2>3. run[q].existing # None => run[q].existing \in Runs /\ article[run[q].existing] # None
    BY ReplacesTyped
  <2>4. ASSUME Alone(q)
        PROVE  /\ run[q].existing # a
               /\ run[q].old = article'[run[q].existing].path
               /\ <<run[q].existing, run[q].source>> \in link'
               /\ status'[run[q].source] \notin {None, "deleted"}
    <3>1. run[q].existing \in Runs /\ article[run[q].existing] # None
          /\ run[q].existing \notin crossed /\ run[q].pc \in Saving
      BY <2>3, <2>4 DEF Alone
    <3>2. run[r].existing # run[q].existing
      BY <1>2, <1>12, <3>1, AloneTogether DEF Saving
    <3>3. run[q].existing # a
      BY <1>7, <1>8, <3>1, <3>2
    <3>4. /\ run[q].old = article[run[q].existing].path
          /\ <<run[q].existing, run[q].source>> \in link
      BY <2>1, <2>4 DEF FilesOK
    <3>5. QED
      BY <1>3, <1>6, <2>4, <3>1, <3>3, <3>4, StepSources
  <2>5. Alone(q)' => Alone(q)
    BY <2>1 DEF Alone
  <2>6. run[q].existing # None => article'[run[q].existing].slug = article[run[q].existing].slug
    BY <1>9, <2>3
  <2>7. QED
    BY <1>3, <1>10, <2>1, <2>2, <2>4, <2>5, <2>6 DEF FilesOK, At, Exists
<1>13. row.path[2] = row.slug
  <2>1. Path(r)[2] = run[r].slug
    BY <1>2, PathTyped DEF HasSlug, HasResult
  <2>2. CASE run[r].existing = None
    BY <1>1, <2>1, <2>2
  <2>3. CASE run[r].existing # None
    <3>1. article[a].path[2] = article[a].slug /\ run[r].slug = article[a].slug
      BY <1>1, <1>2, <1>7, <2>3 DEF FileInv, PathsOK, Articles, FilesOK, Saving
    <3>2. QED
      BY <1>1, <2>1, <2>3, <3>1
  <2>4. QED
    BY <2>2, <2>3
<1>14. PathsOK' /\ Crossed' \subseteq crossed'
  BY <1>6, <1>13 DEF FileInv, PathsOK, Articles
<1>15. a \notin crossed => file[row.path] # None
  <2>1. CASE run[r].existing = None
    BY <1>1, <1>2, <2>1 DEF FilesOK, At, CommitRefused
  <2>2. CASE run[r].existing # None /\ a \notin crossed
    <3>1. Alone(r)
      BY <1>2, <1>7, <2>2 DEF Alone, Saving
    <3>2. file[Path(r)] # None /\ run[r].old = article[a].path
      BY <1>2, <1>7, <2>2, <3>1 DEF FilesOK, At
    <3>3. QED
      BY <1>1, <2>2, <3>2
  <2>3. QED
    BY <2>1, <2>2
<1>16. FilePresent'
  <2> SUFFICES ASSUME NEW b \in Runs, article'[b] # None, b \notin crossed,
                      file[article'[b].path] = None
               PROVE  \E q \in Runs : /\ run'[q].pc = "commit"
                                      /\ run'[q].existing = b
                                      /\ run'[q].old = article'[b].path
    BY <1>3 DEF FilePresent, At, Articles
  <2>1. b # a
    BY <1>6, <1>15
  <2>2. b \in Articles /\ article'[b] = article[b]
    BY <1>6, <2>1 DEF Articles
  <2>3. PICK q \in Runs : At(q, "commit") /\ run[q].existing = b
                           /\ run[q].old = article[b].path
    BY <2>2 DEF FileInv, FilePresent
  <2>4. b # None
    BY NoneAssumption
  <2>5. q # r
    BY <1>7, <2>1, <2>3, <2>4
  <2>6. QED
    BY <1>5, <2>2, <2>3, <2>5 DEF At
<1>17. QED
  BY <1>11, <1>12, <1>14, <1>16 DEF FileInv

(* Every step keeps the files. *)
LEMMA NextFileInv ==
  ASSUME Undisturbed, IInv, FileInv, [OverlapNext]_<<vars, crossed>>
  PROVE  FileInv'
<1>1. CASE UNCHANGED <<vars, crossed>>
  <2>1. UNCHANGED <<status, run, article, link, file, crossed>>
    BY <1>1 DEF vars
  <2>2. Crossed' = Crossed
    BY <2>1 DEF Crossed, Replacing
  <2>3. \A r \in Runs : Quiet(r)
    BY <2>1 DEF Quiet
  <2>4. \A r \in Runs : Alone(r) => status'[run[r].source] \notin {None, "deleted"}
    BY <2>1, AloneSource DEF Exists
  <2>5. crossed' = crossed \cup Crossed'
    BY <2>1, <2>2 DEF FileInv
  <2>6. QED
    BY <2>1, <2>3, <2>4, <2>5, QuietKeepsFiles
<1>2. CASE OverlapNext
  <2>1. crossed' = crossed \cup Crossed'
    BY <1>2 DEF OverlapNext
  <2>2. ASSUME NEW r \in Runs, Step(r)
        PROVE  FileInv'
    <3>1. CASE QuietStep(r)
      <4>1. UNCHANGED <<article, file>> /\ link \subseteq link' /\ \A q \in Runs : Quiet(q)
        BY <3>1, QuietSteps
      <4>2. \A q \in Runs : Alone(q) => status'[run[q].source] \notin {None, "deleted"}
        BY <2>2, StepSources
      <4>3. QED
        BY <2>1, <4>1, <4>2, QuietKeepsFiles
    <3>2. CASE SaveReplaces(r)
      BY <2>1, <3>2, ReplaceKeepsFiles
    <3>3. CASE SaveCreates(r)
      BY <2>1, <3>3, CreateKeepsFiles
    <3>4. CASE WriteFile(r)
      BY <2>1, <3>4, WriteKeepsFiles
    <3>5. CASE UnlinkOld(r)
      BY <2>1, <3>5, UnlinkKeepsFiles
    <3>6. CASE CommitArticle(r)
      BY <2>1, <3>6, CommitKeepsFiles
    <3>7. CASE CommitFails(r)
      BY <2>1, <3>7, RefusedKeepsFiles
    <3>8. ~SaveFails(r)
      BY DEF SaveFails, Undisturbed
    <3>9. QED
      BY <2>2, <3>1, <3>2, <3>3, <3>4, <3>5, <3>6, <3>7, <3>8 DEF Step, QuietStep
  <2>3. QED
    BY <1>2, <2>1, <2>2, RequestKeepsFiles, ProcessKeepsFiles DEF OverlapNext, Next
<1>3. QED
  BY <1>1, <1>2

(* Where storage, processes and jobs do not fail, and foreign keys protect a   *)
(* linked source, the file of an article that no two runs replaced at once is  *)
(* there, or about to be replaced by a commit that cannot be refused.          *)
THEOREM FilesStay ==
  ASSUME Undisturbed
  PROVE  OverlapSpec => []FilePresent
<1>1. OverlapInit => IInv /\ FileInv
  BY InitIInv, InitFileInv DEF OverlapInit
<1>2. IInv /\ FileInv /\ [OverlapNext]_<<vars, crossed>> => IInv' /\ FileInv'
  <2> SUFFICES ASSUME IInv, FileInv, [OverlapNext]_<<vars, crossed>>
               PROVE  IInv' /\ FileInv'
    OBVIOUS
  <2>1. [Next]_vars
    BY DEF OverlapNext, vars
  <2>2. QED
    BY <2>1, NextIInv, NextFileInv
<1>3. FileInv => FilePresent
  BY DEF FileInv
<1>4. QED
  BY <1>1, <1>2, <1>3, PTL DEF OverlapSpec

-----------------------------------------------------------------------------
(* Runs one at a time *)

(* At most one run is scheduled or executing, and a source that a run was      *)
(* asked for was stored at some time.                                          *)
OneBusy == \A q, r \in Runs : Busy(q) /\ Busy(r) => q = r
Known == \A r \in Runs : ~At(r, "idle") => status[run[r].source] # None

SerialInv == IInv /\ OneBusy /\ Known

(* What one run's rows say. A job left RUNNING by a run that returned early    *)
(* belongs to a deleted source, which no run works on any more.                *)
StatusOK(r) ==
    /\ job[r] = "running" /\ ~Busy(r)
          => /\ status[run[r].source] = "deleted"
             /\ \A q \in Runs : Busy(q) => run[q].source # run[r].source
    /\ run[r].pc \in {"normalize", "llm", "save"} \cup Saving
          => status[run[r].source] # "compiled"
    /\ run[r].pc \in Saving => run[r].seen # "compiled"
    /\ run[r].pc \in HasSaved => status[run[r].source] # "processing"
    /\ run[r].pc \in {"post", "failed"} => job[r] # "running"
    /\ job[r] = "failed" => At(r, "failed")

StatusInv == (\A r \in Runs : StatusOK(r)) /\ SpinnerIsHonest

(* What one run knows of the rows, files and claims that are its own. *)
BuildOK(r) ==
    /\ run[r].pc \in PreCommit => article[r] = None
    /\ run[r].pc \in PreSave => run[r].existing = None
    /\ run[r].existing = None <=> run[r].old = None
    /\ run[r].pc \in Saving /\ run[r].existing # None
          => /\ run[r].slug = article[run[r].existing].slug
             /\ run[r].old = article[run[r].existing].path
             /\ <<run[r].existing, run[r].source>> \in link
             /\ Exists(run[r].source)
    /\ run[r].pc \in Saving /\ run[r].existing = None
          => /\ ~SlugTaken(run[r].slug)
             /\ \A a \in Articles : ~(/\ article[a].source = run[r].source
                                     /\ article[a].provider = run[r].provider)
    /\ At(r, "unlink") => run[r].old # Path(r)
    /\ run[r].pc \in {"unlink", "commit"} => file[Path(r)] = r
    /\ run[r].pc \in HasSaved => article[Target(r)].by = r
    /\ run[r].pc \in {"link", "index"} => claims[Target(r)] = {}
    /\ run[r].pc \in {"finish", "post"} => claims[Target(r)] = {r}
    /\ job[r] = "complete" => run[r].pc \in {"post", "error", "done", "failed"}

(* What one article's row, link, file and claims agree on. *)
ArticleOK(a) ==
    /\ article[a].path[2] = article[a].slug
    /\ run[article[a].by].pc \notin PreCommit
    /\ Target(article[a].by) = a
    /\ run[article[a].by].source = article[a].source
    /\ \/ file[article[a].path] = article[a].by
       \/ \E r \in Runs : run[r].pc \in {"unlink", "commit"} /\ run[r].existing = a
    /\ job[article[a].by] = "complete" => claims[a] = {article[a].by}
    /\ Exists(article[a].source) => \/ <<a, article[a].source>> \in link
                                    \/ \E r \in Runs : At(r, "link") /\ Target(r) = a

BuildInv == /\ \A r \in Runs : BuildOK(r)
            /\ \A a \in Articles : ArticleOK(a)
            /\ OneArticlePerBuild

(* Only a run that is scheduled or executing takes a step, and it stays its    *)
(* own run: the others neither move nor become busy.                           *)
LEMMA StepBusy ==
  ASSUME NEW r \in Runs, Step(r)
  PROVE  Busy(r)
<1>1. CASE Compile(r)
  <2>1. At(r, "llm")
    BY <1>1, Zenon DEF Compile
  <2>2. QED
    BY <2>1 DEF Busy, Active, At
<1>2. CASE SaveReplaces(r)
  <2>1. At(r, "save")
    BY <1>2, Zenon DEF SaveReplaces
  <2>2. QED
    BY <2>1 DEF Busy, Active, At
<1>3. CASE SaveCreates(r)
  <2>1. At(r, "save")
    BY <1>3, Zenon DEF SaveCreates
  <2>2. QED
    BY <2>1 DEF Busy, Active, At
<1>4. CASE SaveFails(r)
  BY <1>4 DEF SaveFails, Busy, Active
<1>5. CASE ~Compile(r) /\ ~SaveReplaces(r) /\ ~SaveCreates(r) /\ ~SaveFails(r)
  BY <1>5 DEF Step, StartRun, Normalize, CompileFails, SaveRefused, WriteFile, UnlinkOld,
     CommitArticle, CommitFails, LinkArticle, LinkFails, IndexArticle, FinishJob,
     PostCompile, HandleError, Busy, Active, At
<1>6. QED
  BY <1>1, <1>2, <1>3, <1>4, <1>5

(* Whoever may schedule a run found no other one busy. *)
LEMMA ScheduledAlone ==
  ASSUME SerialInv, NEW r \in Runs, NEW s \in Sources, NEW doc \in BOOLEAN,
         schedule_compile(r, s, doc), OneAtATime'
  PROVE  /\ \A q \in Runs : ~Busy(q)
         /\ \A q \in Runs \ {r} : run'[q] = run[q]
         /\ run[r].pc = "idle" /\ run'[r].pc = "queued" /\ run'[r].source = s
         /\ run'[r].existing = None /\ run'[r].old = None
<1>1. PICK new : new = [IdleRun EXCEPT !.pc = "queued", !.source = s, !.doc = doc /\ ~Arq]
  OBVIOUS
<1>2. new.pc = "queued" /\ new.source = s /\ new.existing = None /\ new.old = None
  BY <1>1 DEF IdleRun
<1>3. run' = [run EXCEPT ![r] = new] /\ run[r].pc = "idle" /\ run \in [Runs -> Run]
  BY <1>1 DEF schedule_compile, At, SerialInv, IInv, TypeOK
<1>4. run'[r] = new /\ \A q \in Runs \ {r} : run'[q] = run[q]
  BY <1>3
<1>5. ASSUME NEW q \in Runs, Busy(q)
      PROVE  FALSE
  <2>1. q # r
    BY <1>3, <1>5 DEF Busy, Active
  <2>2. {x \in Runs : Busy(x)'} = {q, r}
    <3>1. \A x \in Runs : Busy(x) => x = q
      BY <1>5 DEF SerialInv, OneBusy
    <3>2. QED
      BY <1>2, <1>4, <1>5, <2>1, <3>1 DEF Busy
  <2>3. {x \in Runs : Busy(x)}' = {q, r}
    BY <2>2
  <2>4. Cardinality({q}) = 1 /\ IsFiniteSet({q})
    BY FS_Singleton
  <2>5. Cardinality({q} \cup {r}) = 2
    <3>1. r \notin {q}
      BY <2>1
    <3>2. Cardinality({q} \cup {r}) = Cardinality({q}) + 1
      BY <2>4, <3>1, FS_AddElement
    <3> QED
      BY <2>4, <3>2
  <2>6. {q, r} = {q} \cup {r}
    OBVIOUS
  <2>7. QED
    BY <2>3, <2>5, <2>6 DEF OneAtATime
<1>6. QED
  BY <1>2, <1>3, <1>4, <1>5

(* The three outcomes of a request while runs come one at a time. *)
Stored(s) == /\ "manual" \in Events /\ status[s] = None /\ UNCHANGED run
             /\ status' = [status EXCEPT ![s] = "processing"]

Deleted(s) == /\ "delete" \in Events /\ Exists(s) /\ UNCHANGED run
              /\ ForeignKeys => \A a \in Runs : <<a, s>> \notin link
              /\ status' = [status EXCEPT ![s] = "deleted"]

Scheduled(s, r) ==
    /\ \A q \in Runs : ~Busy(q)
    /\ \A q \in Runs \ {r} : run'[q] = run[q]
    /\ run[r].pc = "idle" /\ run'[r].pc = "queued" /\ run'[r].source = s
    /\ run'[r].existing = None /\ run'[r].old = None
    /\ \/ status[s] = None /\ status' = [status EXCEPT ![s] = "processing"]
       \/ Exists(s) /\ status' = status
       \/ Exists(s) /\ status' = [status EXCEPT ![s] = "pending"]

(* A request has one of them and leaves everything else alone. *)
LEMMA SerialRequest ==
  ASSUME SerialInv, Request, OneAtATime'
  PROVE  /\ UNCHANGED <<job, article, link, file, claims>>
         /\ \E s \in Sources : Stored(s) \/ Deleted(s) \/ \E r \in Runs : Scheduled(s, r)
<1>1. PICK s \in Sources :
         \/ IngestOnly(s)
         \/ delete_source(s)
         \/ \E r \in Runs : \/ IngestSource(s, r)
                            \/ ReingestSource(s, r)
                            \/ trigger_compile(s, r)
                            \/ retry_stuck_source(s, r)
  BY DEF Request
<1>2. UNCHANGED <<job, article, link, file, claims>>
  BY <1>1 DEF IngestOnly, delete_source, IngestSource, ReingestSource,
              trigger_compile, retry_stuck_source, stored, wiki
<1>3. CASE IngestOnly(s)
  BY <1>2, <1>3 DEF IngestOnly, Stored
<1>4. CASE delete_source(s)
  BY <1>2, <1>4 DEF delete_source, Deleted
<1>5. ASSUME NEW r \in Runs, \/ IngestSource(s, r) \/ ReingestSource(s, r)
                             \/ trigger_compile(s, r) \/ retry_stuck_source(s, r)
      PROVE  Scheduled(s, r)
  <2>1. PICK doc \in BOOLEAN : schedule_compile(r, s, doc)
    BY <1>5 DEF IngestSource, ReingestSource, trigger_compile, retry_stuck_source
  <2>2. \/ status[s] = None /\ status' = [status EXCEPT ![s] = "processing"]
        \/ Exists(s) /\ status' = status
        \/ Exists(s) /\ status' = [status EXCEPT ![s] = "pending"]
    BY <1>5 DEF IngestSource, ReingestSource, trigger_compile, retry_stuck_source, stored
  <2>3. QED
    BY <2>1, <2>2, ScheduledAlone DEF Scheduled
<1>6. QED
  BY <1>1, <1>2, <1>3, <1>4, <1>5

(* The sources a step of r leaves alone, and those it cannot bring back. *)
LEMMA StepSourceRows ==
  ASSUME TypeOK, RunInv, NEW r \in Runs, Step(r), NEW s \in Sources
  PROVE  /\ s # run[r].source => status'[s] = status[s]
         /\ Exists(s) <=> Exists(s)'
         /\ status[s] # None => status'[s] # None
<1>1. CASE StartRun(r)
  BY <1>1, NoneAssumption DEF StartRun, Exists, TypeOK
<1>2. CASE CommitArticle(r)
  BY <1>2, NoneAssumption DEF CommitArticle, CommitRefused, Exists, TypeOK
<1>3. CASE HandleError(r)
  BY <1>3, NoneAssumption DEF HandleError, Exists, TypeOK
<1>4. CASE ~StartRun(r) /\ ~CommitArticle(r) /\ ~HandleError(r)
  <2>1. CASE Compile(r) \/ SaveReplaces(r) \/ SaveCreates(r)
    <3>1. UNCHANGED stored
      BY <2>1, Zenon DEF Compile, SaveReplaces, SaveCreates
    <3>2. QED
      BY <3>1 DEF stored, Exists
  <2>2. CASE ~Compile(r) /\ ~SaveReplaces(r) /\ ~SaveCreates(r)
    <3>1. \/ Normalize(r) \/ CompileFails(r) \/ SaveRefused(r) \/ WriteFile(r)
          \/ UnlinkOld(r) \/ CommitFails(r) \/ LinkArticle(r) \/ LinkFails(r)
          \/ IndexArticle(r) \/ SaveFails(r) \/ FinishJob(r) \/ PostCompile(r)
      BY <1>4, <2>2 DEF Step
    <3>2. UNCHANGED status
      BY <3>1 DEF Normalize, CompileFails, SaveRefused, WriteFile, UnlinkOld,
         CommitFails, LinkArticle, LinkFails, IndexArticle, SaveFails, FinishJob,
         PostCompile, stored
    <3>3. QED
      BY <3>2 DEF Exists
  <2>3. QED
    BY <2>1, <2>2
<1>5. QED
  BY <1>1, <1>2, <1>3, <1>4

(* No process dies and ARQ cancels no job. *)
Alive == Events \cap {"crash", "timeout"} = {}

(* What is left of the process events. *)
LEMMA AliveProcess ==
  ASSUME Alive, Process
  PROVE  /\ UNCHANGED <<run, job, article, link, file, claims>>
         /\ \A s \in Sources :
               \/ status'[s] = status[s]
               \/ status[s] = "processing" /\ status'[s] = "failed"
<1>1. "crash" \notin Events /\ "timeout" \notin Events
  BY DEF Alive
<1>2. ~GatewayCrash
  BY <1>1 DEF GatewayCrash
<1>3. \A r, q \in Runs : ~JobTimeout(r) /\ ~WorkerCrash(r, q)
  BY <1>1 DEF WorkerCrash, JobTimeout
<1>4. CASE GatewayStart
  BY <1>4 DEF GatewayStart, wiki
<1>5. CASE _reset_stuck_sources
  BY <1>5 DEF _reset_stuck_sources, wiki
<1>6. QED
  BY <1>2, <1>3, <1>4, <1>5 DEF Process

(* A run in the serial environment: the others are idle or over. *)
LEMMA StepAlone ==
  ASSUME SerialInv, NEW r \in Runs, Step(r)
  PROVE  /\ Busy(r) /\ \A q \in Runs \ {r} : ~Busy(q) /\ run'[q] = run[q]
         /\ run'[r].source = run[r].source /\ run[r].source \in Sources
         /\ run[r].pc # "idle" /\ run'[r].pc # "idle"
<1>1. Busy(r) /\ TypeOK /\ RunInv
  BY StepBusy DEF SerialInv, IInv
<1>2. \A q \in Runs \ {r} : ~Busy(q)
  BY <1>1 DEF SerialInv, OneBusy
<1>3. /\ \A q \in Runs \ {r} : run'[q] = run[q]
      /\ run'[r].source = run[r].source
      /\ run[r].pc # "idle" /\ run'[r].pc # "idle"
  BY <1>1, StepMoves
<1>4. run[r].source \in Sources
  BY <1>1, <1>3 DEF RunInv, RunOK, At, TypeOK, Run
<1>5. QED
  BY <1>1, <1>2, <1>3, <1>4

(* The serial environment stays serial, and no source becomes unknown. *)
LEMMA NextSerialInv ==
  ASSUME Alive, SerialInv, [SerialNext]_vars
  PROVE  SerialInv'
<1>1. CASE UNCHANGED vars
  <2>1. UNCHANGED <<run, status>>
    BY <1>1 DEF vars
  <2>2. IInv'
    BY <1>1, NextIInv DEF SerialInv
  <2>3. QED
    BY <2>1, <2>2 DEF SerialInv, OneBusy, Known, Busy, At
<1>2. CASE SerialNext
  <2>0. IInv'
    <3>1. Next
      BY <1>2 DEF SerialNext, Next
    <3>2. QED
      BY <3>1, NextIInv DEF SerialInv
  <2>1. ASSUME NEW r \in Runs, Step(r)
        PROVE  OneBusy' /\ Known'
    <3>1. \A q \in Runs \ {r} : ~Busy(q) /\ run'[q] = run[q]
      BY <2>1, StepAlone
    <3>2. OneBusy'
      BY <3>1 DEF OneBusy, Busy
    <3>3. ASSUME NEW q \in Runs, run'[q].pc # "idle"
          PROVE  status'[run'[q].source] # None
      <4>1. PICK s \in Sources : s = run[q].source /\ s = run'[q].source /\ status[s] # None
        BY <2>1, <3>1, <3>3, StepAlone
           DEF SerialInv, Known, At, IInv, RunInv, RunOK, TypeOK, Run
      <4>2. QED
        BY <2>1, <4>1, StepSourceRows DEF SerialInv, IInv
    <3>4. QED
      BY <3>2, <3>3 DEF Known, At
  <2>2. ASSUME Request, OneAtATime'
        PROVE  OneBusy' /\ Known'
    <3>1. PICK s \in Sources : Stored(s) \/ Deleted(s) \/ \E r \in Runs : Scheduled(s, r)
      BY <2>2, SerialRequest
    <3>2. status \in [Sources -> SourceStatus]
      BY DEF SerialInv, IInv, TypeOK
    <3>3. \A q \in Runs : run[q].pc # "idle" => run[q].source \in Sources
                                              /\ status[run[q].source] # None
      BY DEF SerialInv, Known, At, IInv, RunInv, RunOK, TypeOK, Run
    <3>4. CASE Stored(s) \/ Deleted(s)
      <4>1. UNCHANGED run /\ \A x \in Sources : status[x] # None => status'[x] # None
        BY <3>2, <3>4, NoneAssumption DEF Stored, Deleted
      <4>2. QED
        BY <3>3, <4>1 DEF SerialInv, OneBusy, Known, Busy, At
    <3>5. ASSUME NEW r \in Runs, Scheduled(s, r)
          PROVE  OneBusy' /\ Known'
      <4>1. \A x \in Sources : x = s \/ status[x] # None => status'[x] # None
        BY <3>2, <3>5, NoneAssumption DEF Scheduled, Exists
      <4>2. OneBusy'
        BY <3>5 DEF Scheduled, OneBusy, Busy
      <4>3. Known'
        BY <3>3, <3>5, <4>1 DEF Scheduled, Known, At
      <4>4. QED
        BY <4>2, <4>3
    <3>6. QED
      BY <3>1, <3>4, <3>5
  <2>3. ASSUME Process
        PROVE  OneBusy' /\ Known'
    <3>1. UNCHANGED run /\ \A x \in Sources : status[x] # None => status'[x] # None
      BY <2>3, AliveProcess, NoneAssumption
    <3>2. \A q \in Runs : run[q].pc # "idle" => run[q].source \in Sources
      BY DEF SerialInv, At, IInv, RunInv, RunOK, TypeOK, Run
    <3>3. QED
      BY <3>1, <3>2 DEF SerialInv, OneBusy, Known, Busy, At
  <2>4. QED
    BY <1>2, <2>0, <2>1, <2>2, <2>3 DEF SerialNext, SerialInv
<1>3. QED
  BY <1>1, <1>2

(* Nothing is scheduled yet. *)
LEMMA InitSerialInv == Init => SerialInv
<1> SUFFICES ASSUME Init
             PROVE  SerialInv
  OBVIOUS
<1>1. \A r \in Runs : run[r].pc = "idle"
  BY DEF Init, IdleRun
<1>2. QED
  BY <1>1, InitIInv DEF SerialInv, OneBusy, Known, Busy, Active, At

-----------------------------------------------------------------------------
(* What the rows of a run say *)

(* At first no run has begun and no source is compiling. *)
LEMMA InitStatusInv == Init => StatusInv
<1> SUFFICES ASSUME Init
             PROVE  StatusInv
  OBVIOUS
<1>1. \A r \in Runs : run[r].pc = "idle" /\ job[r] = None
  BY DEF Init, IdleRun
<1>2. \A s \in Sources : status[s] = None
  BY DEF Init
<1>3. \A r \in Runs : StatusOK(r)
  BY <1>1, NoneAssumption DEF StatusOK, Saving, HasSaved
<1>4. QED
  BY <1>2, <1>3, NoneAssumption DEF StatusInv, SpinnerIsHonest

(* The rows of the other runs, of which none is executing. *)
LEMMA OthersStatus ==
  ASSUME SerialInv, StatusInv, NEW r \in Runs, Step(r), NEW q \in Runs, q # r
  PROVE  StatusOK(q)' /\ q \notin RunningJobs(run[r].source)
<1>1. /\ Busy(r) /\ ~Busy(q) /\ run'[q] = run[q]
      /\ \A x \in Runs \ {r} : ~Busy(x) /\ run'[x] = run[x]
      /\ run'[r].source = run[r].source
  BY StepAlone
<1>2. StatusOK(q)
  BY DEF StatusInv
<1>3. q \notin RunningJobs(run[r].source)
  BY <1>1, <1>2 DEF StatusOK, RunningJobs
<1>4. job'[q] = job[q]
  <2>1. CASE HandleError(r)
    BY <1>3, <2>1 DEF HandleError
  <2>2. CASE StartRun(r) \/ FinishJob(r)
    BY <2>2 DEF StartRun, FinishJob, SerialInv, IInv, TypeOK
  <2>3. CASE Compile(r) \/ SaveReplaces(r) \/ SaveCreates(r)
    <3>1. UNCHANGED stored
      BY <2>3, Zenon DEF Compile, SaveReplaces, SaveCreates
    <3>2. QED
      BY <3>1 DEF stored
  <2>4. CASE \/ Normalize(r) \/ CompileFails(r) \/ SaveRefused(r) \/ WriteFile(r)
             \/ UnlinkOld(r) \/ CommitArticle(r) \/ CommitFails(r) \/ LinkArticle(r)
             \/ LinkFails(r) \/ IndexArticle(r) \/ SaveFails(r) \/ PostCompile(r)
    <3>1. UNCHANGED job
      BY <2>4 DEF Normalize, CompileFails, SaveRefused, WriteFile, UnlinkOld,
         CommitArticle, CommitFails, LinkArticle, LinkFails, IndexArticle, SaveFails,
         PostCompile, stored
    <3>2. QED
      BY <3>1
  <2>5. QED
    BY <2>1, <2>2, <2>3, <2>4 DEF Step
<1>5. job[q] = "running" => /\ status'[run[q].source] = "deleted"
                            /\ run[q].source # run[r].source
  <2>1. SUFFICES ASSUME job[q] = "running"
                 PROVE  /\ status'[run[q].source] = "deleted"
                        /\ run[q].source # run[r].source
    OBVIOUS
  <2>2. status[run[q].source] = "deleted" /\ run[q].source # run[r].source
    BY <1>1, <1>2, <2>1 DEF StatusOK
  <2>3. run[q].source \in Sources
    BY <2>1, NoneAssumption DEF SerialInv, IInv, RunInv, RunOK, At, TypeOK, Run
  <2>4. QED
    BY <2>2, <2>3, StepSourceRows DEF SerialInv, IInv
<1>6. \A x \in Runs : Busy(x)' => x = r
  BY <1>1 DEF Busy
<1>7. Busy(q)' <=> Busy(q)
  BY <1>1 DEF Busy
<1>8. run[q].pc \notin {"normalize", "llm", "save"} \cup Saving \cup HasSaved \cup {"post"}
  BY <1>1 DEF Busy, Active, Saving, HasSaved
<1>9. StatusOK(q)'
  BY <1>1, <1>2, <1>4, <1>5, <1>6, <1>7, <1>8 DEF StatusOK, At
<1>10. QED
  BY <1>3, <1>9

(* While r is executing, no other source is PROCESSING. *)
LEMMA StepKeepsStatus ==
  ASSUME SerialInv, StatusInv, NEW r \in Runs, Step(r), StatusOK(r)',
         Busy(r)' \/ status'[run[r].source] # "processing"
  PROVE  StatusInv'
<1>1. /\ Busy(r) /\ \A x \in Runs \ {r} : ~Busy(x) /\ run'[x] = run[x]
      /\ run'[r].source = run[r].source /\ run[r].source \in Sources
  BY StepAlone
<1>2. \A q \in Runs : StatusOK(q)'
  BY OthersStatus
<1>3. ASSUME NEW s \in Sources, status'[s] = "processing"
      PROVE  \E q \in Runs : Busy(q)' /\ run'[q].source = s
  <2>1. CASE s = run[r].source
    BY <1>1, <1>3, <2>1
  <2>2. CASE s # run[r].source
    <3>1. status[s] = "processing"
      BY <1>3, <2>2, StepSourceRows DEF SerialInv, IInv
    <3>2. PICK q \in Runs : Busy(q) /\ run[q].source = s
      BY <3>1 DEF StatusInv, SpinnerIsHonest, BusyOn
    <3>3. QED
      BY <1>1, <2>2, <3>2
  <2>3. QED
    BY <2>1, <2>2
<1>4. SpinnerIsHonest'
  BY <1>3 DEF SpinnerIsHonest, BusyOn
<1>5. QED
  BY <1>2, <1>4 DEF StatusInv

(* A step to a later point of the run, which writes neither row. *)
LEMMA MoveKeepsStatus ==
  ASSUME SerialInv, StatusInv, NEW r \in Runs, Step(r), UNCHANGED <<status, job>>,
         run'[r].pc \in Active,
         run'[r].pc \in {"normalize", "llm", "save"} \cup Saving
            => run[r].pc \in {"normalize", "llm", "save"} \cup Saving,
         run'[r].pc \in Saving => run'[r].seen # "compiled",
         run'[r].pc \in HasSaved => run[r].pc \in HasSaved /\ run'[r].pc # "post"
  PROVE  StatusInv'
<1>1. Busy(r)'
  BY DEF Busy
<1>2. StatusOK(r) /\ run'[r].source = run[r].source /\ Busy(r)
  BY StepAlone DEF StatusInv
<1>3. StatusOK(r)'
  BY <1>1, <1>2 DEF StatusOK, At, Active, HasSaved, Busy
<1>4. QED
  BY <1>1, <1>3, StepKeepsStatus

(* Every step of a run keeps the rows true. *)
LEMMA StepStatusInv ==
  ASSUME SerialInv, StatusInv, NEW r \in Runs, Step(r)
  PROVE  StatusInv'
<1> DEFINE s == run[r].source
<1>1. /\ TypeOK /\ StatusOK(r) /\ RunOK(r) /\ s \in Sources /\ Busy(r)
      /\ run \in [Runs -> Run] /\ run[r] \in Run
      /\ run'[r].source = s /\ \A q \in Runs \ {r} : ~Busy(q)
      /\ status \in [Sources -> SourceStatus] /\ status[s] # None
  BY StepAlone DEF SerialInv, IInv, StatusInv, RunInv, TypeOK, Known, At
<1> HIDE DEF s
<1>2. CASE StartRun(r)
  <2>1. job[r] = None /\ run[r].pc = "queued"
    BY <1>1, <1>2 DEF StartRun, At, RunOK
  <2>2. CASE Exists(s)
    <3>1. PICK pc \in {"llm", "normalize"} : Goto(r, pc)
      BY <1>2, <2>2 DEF StartRun, s
    <3>2. run'[r].pc = pc
      BY <1>1, <3>1 DEF Goto, Run
    <3>3. status'[s] = "processing" /\ job'[r] = "running"
      BY <1>1, <1>2, <2>2 DEF StartRun, s, TypeOK
    <3>4. StatusOK(r)'
      BY <1>1, <3>2, <3>3 DEF StatusOK, At, Busy, Active, Saving, HasSaved, s
    <3>5. QED
      BY <3>2, <3>4, StepKeepsStatus DEF Busy, Active
  <2>3. CASE ~Exists(s)
    <3>1. Goto(r, "done") /\ UNCHANGED <<status, job>>
      BY <1>2, <2>3 DEF StartRun, s
    <3>2. run'[r].pc = "done"
      BY <1>1, <3>1 DEF Goto, Run
    <3>3. StatusOK(r)'
      BY <2>1, <3>1, <3>2, NoneAssumption DEF StatusOK, At, Saving, HasSaved
    <3>4. status'[s] # "processing"
      BY <2>3, <3>1, NoneAssumption DEF Exists
    <3>5. QED
      BY <3>3, <3>4, StepKeepsStatus DEF s
  <2>4. QED
    BY <2>2, <2>3
<1>3. CASE Normalize(r)
  <2>1. UNCHANGED <<status, job>> /\ run[r].pc = "normalize"
    BY <1>3 DEF Normalize, stored, At
  <2>2. CASE Exists(s)
    <3>1. Goto(r, "llm")
      BY <1>3, <2>2 DEF Normalize, s
    <3>2. run'[r].pc = "llm"
      BY <1>1, <3>1 DEF Goto, Run
    <3>3. QED
      BY <2>1, <3>2, MoveKeepsStatus DEF Active, Saving, HasSaved
  <2>3. CASE ~Exists(s)
    <3>1. Goto(r, "done") /\ status[s] = "deleted"
      BY <1>1, <1>3, <2>3 DEF Normalize, s, Exists
    <3>2. run'[r].pc = "done"
      BY <1>1, <3>1 DEF Goto, Run
    <3>3. \A q \in Runs : ~Busy(q)'
      BY <1>1, <3>2, StepAlone DEF Busy, Active
    <3>4. job'[r] # "failed"
      BY <1>1, <2>1 DEF StatusOK, At
    <3>5. StatusOK(r)'
      BY <1>1, <2>1, <3>1, <3>2, <3>3, <3>4 DEF StatusOK, At, Saving, HasSaved, s
    <3>6. status'[s] # "processing"
      BY <2>1, <3>1
    <3>7. QED
      BY <3>5, <3>6, StepKeepsStatus DEF s
  <2>4. QED
    BY <2>2, <2>3
<1>4. CASE Compile(r)
  <2>1. UNCHANGED stored /\ At(r, "llm") /\ \E p \in Providers, t \in Titles, c \in Concepts :
           run' = [run EXCEPT ![r] = [@ EXCEPT !.pc = "save", !.provider = p,
                                               !.title = t, !.concept = c]]
    BY <1>4, Zenon DEF Compile
  <2>2. run'[r].pc = "save"
    BY <1>1, <2>1 DEF Run
  <2>3. QED
    BY <2>1, <2>2, MoveKeepsStatus DEF Active, Saving, HasSaved, stored, At
<1>5. CASE SaveReplaces(r) \/ SaveCreates(r)
  <2>1. UNCHANGED stored /\ At(r, "save")
    BY <1>5, Zenon DEF SaveReplaces, SaveCreates
  <2>2. run'[r].pc = "write" /\ run'[r].seen = status[s]
    <3>1. CASE SaveReplaces(r)
      <4>1. PICK a \in Builds(r) :
              run' = [run EXCEPT ![r] = [@ EXCEPT !.pc = "write", !.existing = a,
                                              !.slug = article[a].slug,
                                              !.old = article[a].path,
                                              !.seen = status[run[r].source]]]
        BY <3>1, Zenon DEF SaveReplaces
      <4>2. QED
        BY <1>1, <4>1 DEF Run, s
    <3>2. CASE SaveCreates(r)
      <4>1. PICK slug \in Slugs :
              run' = [run EXCEPT ![r] = [@ EXCEPT !.pc = "write", !.slug = slug,
                                              !.seen = status[run[r].source]]]
        BY <3>2, Zenon DEF SaveCreates
      <4>2. QED
        BY <1>1, <4>1 DEF Run, s
    <3>3. QED
      BY <1>5, <3>1, <3>2
  <2>3. status[s] # "compiled"
    BY <1>1, <2>1 DEF StatusOK, At, s
  <2>4. QED
    BY <2>1, <2>2, <2>3, MoveKeepsStatus DEF Active, Saving, HasSaved, stored, At
<1>6. CASE WriteFile(r) \/ UnlinkOld(r)
  <2>1. PICK pc \in {"unlink", "commit"} : Goto(r, pc)
    BY <1>6 DEF WriteFile, UnlinkOld
  <2>2. UNCHANGED <<status, job>> /\ run[r].pc \in Saving
    BY <1>6 DEF WriteFile, UnlinkOld, At, Saving
  <2>3. run'[r].pc = pc /\ run'[r].seen = run[r].seen
    BY <1>1, <2>1 DEF Goto, Run
  <2>4. run[r].seen # "compiled"
    BY <1>1, <2>2 DEF StatusOK
  <2>5. QED
    BY <2>2, <2>3, <2>4, MoveKeepsStatus DEF Active, Saving, HasSaved
<1>7. CASE CommitArticle(r)
  <2>1. run[r].pc = "commit" /\ Goto(r, "link") /\ UNCHANGED job
    BY <1>7 DEF CommitArticle, At
  <2>2. run[r].seen # "compiled"
    BY <1>1, <2>1 DEF StatusOK, Saving
  <2>3. status'[s] = "compiled"
    BY <1>1, <1>7, <2>2 DEF CommitArticle, s
  <2>4. run'[r].pc = "link"
    BY <1>1, <2>1 DEF Goto, Run
  <2>5. StatusOK(r)'
    BY <1>1, <2>1, <2>3, <2>4 DEF StatusOK, At, Busy, Active, Saving, HasSaved, s
  <2>6. QED
    BY <2>4, <2>5, StepKeepsStatus DEF Busy, Active
<1>8. CASE LinkArticle(r) \/ IndexArticle(r)
  <2>1. PICK pc \in {"index", "finish"} : Goto(r, pc)
    BY <1>8 DEF LinkArticle, IndexArticle
  <2>2. UNCHANGED <<status, job>> /\ run[r].pc \in HasSaved
    BY <1>8 DEF LinkArticle, IndexArticle, At, HasSaved
  <2>3. run'[r].pc = pc
    BY <1>1, <2>1 DEF Goto, Run
  <2>4. QED
    BY <2>2, <2>3, MoveKeepsStatus DEF Active, Saving, HasSaved
<1>9. ASSUME Goto(r, "error"), UNCHANGED <<status, job>>
      PROVE  StatusInv'
  <2>1. run'[r].pc = "error"
    BY <1>1, <1>9 DEF Goto, Run
  <2>2. QED
    BY <1>9, <2>1, MoveKeepsStatus DEF Active, Saving, HasSaved
<1>10. CASE CompileFails(r) \/ SaveRefused(r) \/ CommitFails(r) \/ LinkFails(r) \/ SaveFails(r)
  BY <1>9, <1>10 DEF CompileFails, SaveRefused, CommitFails, LinkFails, SaveFails, Fail, stored
<1>11. CASE FinishJob(r)
  <2>1. run[r].pc = "finish" /\ Goto(r, "post") /\ UNCHANGED status /\ job'[r] = "complete"
    BY <1>1, <1>11 DEF FinishJob, At, TypeOK
  <2>2. run'[r].pc = "post"
    BY <1>1, <2>1 DEF Goto, Run
  <2>3. StatusOK(r)'
    BY <1>1, <2>1, <2>2 DEF StatusOK, At, Busy, Active, Saving, HasSaved, s
  <2>4. QED
    BY <2>2, <2>3, StepKeepsStatus DEF Busy, Active
<1>12. CASE PostCompile(r)
  <2>1. run[r].pc = "post" /\ UNCHANGED <<status, job>>
        /\ (Goto(r, "done") \/ Goto(r, "error"))
    BY <1>12 DEF PostCompile, At, stored, Fail
  <2>2. CASE Goto(r, "done")
    <3>1. run'[r].pc = "done"
      BY <1>1, <2>2 DEF Goto, Run
    <3>2. job[r] # "running" /\ job[r] # "failed" /\ status[s] # "processing"
      BY <1>1, <2>1 DEF StatusOK, At, HasSaved, s
    <3>3. StatusOK(r)'
      BY <2>1, <3>1, <3>2 DEF StatusOK, At, Saving, HasSaved
    <3>4. QED
      BY <2>1, <3>2, <3>3, StepKeepsStatus DEF s
  <2>3. QED
    BY <1>9, <2>1, <2>2
<1>13. CASE HandleError(r)
  <2>1. PICK found : found = RunningJobs(s)
    OBVIOUS
  <2>2. found \subseteq {r} /\ (r \in found <=> job[r] = "running")
    BY <1>1, <2>1, OthersStatus DEF RunningJobs, s
  <2>3. Cardinality(found) <= 1
    <3>1. Cardinality({r}) = 1 /\ Cardinality({}) = 0
      BY FS_EmptySet, FS_Singleton
    <3>2. found = {} \/ found = {r}
      BY <2>2
    <3>3. QED
      BY <3>1, <3>2
  <2>4. /\ status' = [status EXCEPT ![s] = IF Exists(s) THEN "failed" ELSE @]
        /\ job' = [q \in Runs |-> IF q \in found THEN "failed" ELSE job[q]]
        /\ Goto(r, "failed")
    BY <1>13, <2>1, <2>3 DEF HandleError, s
  <2>5. run'[r].pc = "failed"
    BY <1>1, <2>4 DEF Goto, Run
  <2>6. job'[r] # "running"
    BY <2>2, <2>4
  <2>7. status'[s] # "processing"
    BY <1>1, <2>4, NoneAssumption DEF Exists
  <2>8. StatusOK(r)'
    BY <2>5, <2>6 DEF StatusOK, At, Saving, HasSaved
  <2>9. QED
    BY <2>7, <2>8, StepKeepsStatus DEF s
<1>14. QED
  BY <1>2, <1>3, <1>4, <1>5, <1>6, <1>7, <1>8, <1>10, <1>11, <1>12, <1>13 DEF Step

(* A request finds no run it could contradict, except a deletion, which takes  *)
(* the source out of every row's way.                                          *)
LEMMA RequestStatusInv ==
  ASSUME "manual" \notin Events, SerialInv, StatusInv, Request, OneAtATime'
  PROVE  StatusInv'
<1>1. UNCHANGED job /\ status \in [Sources -> SourceStatus]
  BY SerialRequest DEF SerialInv, IInv, TypeOK
<1>2. PICK s \in Sources : Deleted(s) \/ \E r \in Runs : Scheduled(s, r)
  BY SerialRequest DEF Stored
<1>3. CASE Deleted(s)
  <2>1. /\ UNCHANGED run /\ status'[s] = "deleted"
        /\ \A x \in Sources : x # s => status'[x] = status[x]
    BY <1>1, <1>3 DEF Deleted
  <2>2. ASSUME NEW q \in Runs
        PROVE  StatusOK(q)'
    <3>1. StatusOK(q) /\ run[q].source \in Sources \cup {None}
          /\ (run[q].pc # "idle" => run[q].source \in Sources)
          /\ (job[q] = "running" => run[q].pc # "idle")
      BY NoneAssumption DEF StatusInv, SerialInv, IInv, RunInv, RunOK, At, TypeOK, Run
    <3>2. \A x \in Runs : Busy(x)' <=> Busy(x)
      BY <2>1 DEF Busy
    <3>3. QED
      BY <1>1, <2>1, <3>1, <3>2 DEF StatusOK, At, Saving, HasSaved
  <2>3. SpinnerIsHonest'
    BY <2>1 DEF StatusInv, SpinnerIsHonest, BusyOn, Busy
  <2>4. QED
    BY <2>2, <2>3 DEF StatusInv
<1>4. ASSUME NEW r \in Runs, Scheduled(s, r)
      PROVE  StatusInv'
  <2>1. /\ \A q \in Runs : ~Busy(q)
        /\ \A q \in Runs \ {r} : run'[q] = run[q]
        /\ run[r].pc = "idle" /\ run'[r].pc = "queued" /\ run'[r].source = s
    BY <1>4 DEF Scheduled
  <2>2. /\ status[s] # "deleted"
        /\ \A x \in Sources : x # s => status'[x] = status[x]
    BY <1>1, <1>4, NoneAssumption DEF Scheduled, Exists
  <2>3. \A x \in Runs : Busy(x)' => x = r
    BY <2>1 DEF Busy
  <2>4. StatusOK(r)'
    <3>1. job'[r] = None
      BY <1>1, <2>1 DEF SerialInv, IInv, RunInv, RunOK
    <3>2. QED
      BY <2>1, <3>1, NoneAssumption DEF StatusOK, At, Saving, HasSaved
  <2>5. ASSUME NEW q \in Runs, q # r
        PROVE  StatusOK(q)'
    <3>1. StatusOK(q) /\ (job[q] = "running" => run[q].source \in Sources)
      BY NoneAssumption DEF StatusInv, SerialInv, IInv, RunInv, RunOK, At, TypeOK, Run
    <3>2. run'[q] = run[q] /\ ~Busy(q) /\ ~Busy(q)'
      BY <2>1, <2>5 DEF Busy
    <3>3. run[q].pc \notin {"normalize", "llm", "save"} \cup Saving \cup HasSaved
      BY <3>2 DEF Busy, Active, Saving, HasSaved
    <3>4. job[q] = "running" => /\ status'[run[q].source] = "deleted"
                                /\ run[q].source # s
      BY <2>2, <3>1, <3>2 DEF StatusOK
    <3>5. QED
      BY <1>1, <2>1, <2>3, <3>1, <3>2, <3>3, <3>4 DEF StatusOK, At
  <2>6. SpinnerIsHonest'
    <3>1. ASSUME NEW x \in Sources, status'[x] = "processing"
          PROVE  x = s
      BY <2>1, <2>2, <3>1 DEF StatusInv, SpinnerIsHonest, BusyOn
    <3>2. Busy(r)'
      BY <2>1 DEF Busy
    <3>3. QED
      BY <2>1, <3>1, <3>2 DEF SpinnerIsHonest, BusyOn
  <2>7. QED
    BY <2>4, <2>5, <2>6 DEF StatusInv
<1>5. QED
  BY <1>2, <1>3, <1>4

(* The start-up scan takes PROCESSING from sources and writes FAILED. *)
LEMMA ProcessStatusInv ==
  ASSUME Alive, SerialInv, StatusInv, Process
  PROVE  StatusInv'
<1>1. /\ UNCHANGED <<run, job>>
      /\ \A s \in Sources :
            \/ status'[s] = status[s]
            \/ status[s] = "processing" /\ status'[s] = "failed"
  BY AliveProcess
<1>2. ASSUME NEW q \in Runs
      PROVE  StatusOK(q)'
  <2>1. StatusOK(q) /\ (run[q].pc # "idle" => run[q].source \in Sources)
          /\ (job[q] = "running" => run[q].pc # "idle")
    BY NoneAssumption DEF StatusInv, SerialInv, IInv, RunInv, RunOK, At, TypeOK, Run
  <2>2. \A x \in Runs : Busy(x)' <=> Busy(x)
    BY <1>1 DEF Busy
  <2>3. QED
    BY <1>1, <2>1, <2>2 DEF StatusOK, At, Saving, HasSaved
<1>3. SpinnerIsHonest'
  BY <1>1 DEF StatusInv, SpinnerIsHonest, BusyOn, Busy
<1>4. QED
  BY <1>2, <1>3 DEF StatusInv

(* When runs come one at a time, none is killed and every ingest schedules one, *)
(* a failed run has its failure on record, a job is FAILED only by its own run, *)
(* and PROCESSING means that somebody works on the source; storage errors,      *)
(* deletions and restarts of the gateway included.                              *)
THEOREM StatusAlwaysTrue ==
  ASSUME Events \cap {"crash", "timeout", "manual"} = {}
  PROVE  SerialSpec => []StatusTrue
<1>1. Alive /\ "manual" \notin Events
  BY DEF Alive
<1>2. Init => SerialInv /\ StatusInv
  BY InitSerialInv, InitStatusInv
<1>3. SerialInv /\ StatusInv /\ [SerialNext]_vars => SerialInv' /\ StatusInv'
  <2> SUFFICES ASSUME SerialInv, StatusInv, [SerialNext]_vars
               PROVE  SerialInv' /\ StatusInv'
    OBVIOUS
  <2>1. SerialInv'
    BY <1>1, NextSerialInv
  <2>2. CASE UNCHANGED vars
    <3>1. UNCHANGED <<run, job, status>>
      BY <2>2 DEF vars
    <3>2. QED
      BY <2>1, <3>1 DEF StatusInv, StatusOK, SpinnerIsHonest, BusyOn, Busy, At
  <2>3. CASE SerialNext
    BY <1>1, <2>1, <2>3, StepStatusInv, RequestStatusInv, ProcessStatusInv DEF SerialNext
  <2>4. QED
    BY <2>2, <2>3
<1>4. StatusInv => StatusTrue
  BY DEF StatusInv, StatusOK, StatusTrue, FailureRecorded, FailedJobFailed, At
<1>5. QED
  BY <1>2, <1>3, <1>4, PTL DEF SerialSpec

-----------------------------------------------------------------------------
(* What a save leaves *)

(* At first there is no article. *)
LEMMA InitBuildInv == Init => BuildInv
<1> SUFFICES ASSUME Init
             PROVE  BuildInv
  OBVIOUS
<1>1. /\ \A r \in Runs : /\ run[r].pc = "idle" /\ job[r] = None /\ article[r] = None
                         /\ run[r].existing = None /\ run[r].old = None
      /\ Articles = {}
  BY DEF Init, IdleRun, Articles
<1>2. \A r \in Runs : BuildOK(r)
  BY <1>1, NoneAssumption DEF BuildOK, At, Saving, HasSaved
<1>3. QED
  BY <1>1, <1>2 DEF BuildInv, OneArticlePerBuild

(* What an article's row refers to. *)
LEMMA ArticleTyped ==
  ASSUME SerialInv, NEW a \in Runs, article[a] # None
  PROVE  /\ article[a] \in Article /\ article[a].by \in Runs /\ article[a].path \in Paths
         /\ article[a].source \in Sources /\ status[article[a].source] # None
<1>1. article[a] \in Article
  BY DEF SerialInv, IInv, TypeOK
<1>2. article[a].source = run[a].source /\ run[a].pc # "idle"
  BY DEF SerialInv, IInv, RunInv, RunOK
<1>3. QED
  BY <1>1, <1>2 DEF Article, SerialInv, Known, At

(* The other runs, of which none is executing: nothing of theirs changes. *)
LEMMA OthersBuild ==
  ASSUME SerialInv, BuildInv, NEW r \in Runs, Step(r), NEW q \in Runs, q # r
  PROVE  /\ BuildOK(q)'
         /\ article[q] = None => article'[q] = None
         /\ job'[q] = "complete" => job[q] = "complete"
<1>1. ~Busy(q) /\ run'[q] = run[q] /\ BuildOK(q)
  BY StepAlone DEF BuildInv
<1>2. run[q].pc \notin Saving \cup HasSaved
  BY <1>1 DEF Busy, Active, Saving, HasSaved
<1>3. article[q] = None => article'[q] = None
  <2>1. CASE CommitArticle(r)
    <3>1. PICK a \in Runs, row \in Article :
            /\ a = Target(r) /\ article' = [article EXCEPT ![a] = row]
            /\ run[r].existing # None => article[a] # None
      BY <2>1, CommitWrites DEF SerialInv
    <3>2. QED
      BY <3>1 DEF Target, SerialInv, IInv, TypeOK
  <2>2. CASE ~CommitArticle(r)
    BY <2>2, OnlyCommitWrites
  <2>3. QED
    BY <2>1, <2>2
<1>4. job'[q] = "complete" => job[q] = "complete"
  <2>1. [Next]_vars
    BY DEF Next
  <2>2. CASE UNCHANGED job
    BY <2>2
  <2>3. ASSUME NEW x \in Runs, StartRun(x) \/ FinishJob(x)
        PROVE  job'[q] = "complete" => job[q] = "complete"
    <3>1. x = r
      <4>1. Step(x)
        BY <2>3 DEF Step
      <4>2. QED
        BY <4>1, StepAlone
    <3>2. QED
      BY <2>3, <3>1 DEF StartRun, FinishJob, SerialInv, IInv, TypeOK
  <2>4. ASSUME NEW x \in Runs, HandleError(x)
        PROVE  job'[q] = "complete" => job[q] = "complete"
    BY <2>4 DEF HandleError
  <2>5. QED
    BY <2>1, <2>2, <2>3, <2>4, JobWriters
<1>5. BuildOK(q)'
  BY <1>1, <1>2, <1>3, <1>4 DEF BuildOK, At, Saving, HasSaved
<1>6. QED
  BY <1>3, <1>4, <1>5

(* The result whose columns an article holds, seen from a step of r.           *)
LEMMA ByMoves ==
  ASSUME SerialInv, BuildInv, NEW r \in Runs, Step(r),
         run'[r].pc \in PreCommit => run[r].pc \in PreCommit,
         run[r].pc \notin PreCommit => run'[r].existing = run[r].existing,
         NEW a \in Runs, article[a] # None
  PROVE  \E by \in Runs : /\ by = article[a].by
                          /\ run'[by].pc \notin PreCommit
                          /\ Target(by)' = a
                          /\ run'[by].source = article[a].source
<1>1. PICK by \in Runs : by = article[a].by
  BY ArticleTyped
<1>2. run[by].pc \notin PreCommit /\ Target(by) = a /\ run[by].source = article[a].source
  BY <1>1 DEF BuildInv, Articles, ArticleOK
<1>3. run'[by].pc \notin PreCommit /\ run'[by].existing = run[by].existing
      /\ run'[by].source = run[by].source
  BY <1>2, StepAlone
<1>4. Target(by)' = Target(by)
  BY <1>3 DEF Target
<1>5. QED
  BY <1>1, <1>2, <1>3, <1>4

(* A step that writes no row, link, file or claim. *)
LEMMA MoveKeepsBuild ==
  ASSUME SerialInv, BuildInv, NEW r \in Runs, Step(r),
         UNCHANGED <<article, link, file, claims>>, BuildOK(r)',
         run'[r].pc \in PreCommit => run[r].pc \in PreCommit,
         run[r].pc \notin PreCommit => run'[r].existing = run[r].existing,
         run[r].pc \in {"unlink", "commit"} => run[r].existing = None,
         run[r].pc = "link" => \/ ~Exists(run[r].source)
                               \/ <<Target(r), run[r].source>> \in link,
         job'[r] = "complete" =>
            job[r] = "complete" \/ run[r].pc = "finish"
  PROVE  BuildInv'
<1>1. \A q \in Runs : BuildOK(q)'
  BY OthersBuild
<1>2. Articles' = Articles
  BY DEF Articles
<1>3. ASSUME NEW a \in Runs, article[a] # None
      PROVE  ArticleOK(a)'
  <2>1. PICK by \in Runs : /\ by = article[a].by /\ run'[by].pc \notin PreCommit
                           /\ Target(by)' = a /\ run'[by].source = article[a].source
    BY <1>3, ByMoves
  <2>2. ArticleOK(a) /\ BuildOK(r) /\ article[a].source \in Sources
    BY <1>3, ArticleTyped DEF BuildInv, Articles
  <2>3. file[article[a].path] = article[a].by
    <3>1. SUFFICES ASSUME NEW q \in Runs, run[q].pc \in {"unlink", "commit"},
                          run[q].existing = a
                   PROVE  FALSE
      BY <2>2 DEF ArticleOK
    <3>2. q = r
      BY <3>1, StepAlone DEF Busy, Active
    <3>3. a # None
      BY NoneAssumption
    <3>4. QED
      BY <3>1, <3>2, <3>3
  <2>4. job'[by] = "complete" => claims[a] = {by}
    <3>1. CASE by # r \/ job[r] = "complete"
      BY <2>1, <2>2, <3>1, OthersBuild DEF ArticleOK
    <3>2. CASE by = r /\ run[r].pc = "finish"
      BY <2>1, <2>2, <3>2 DEF ArticleOK, BuildOK
    <3>3. QED
      BY <3>1, <3>2
  <2>5. Exists(article[a].source)' => <<a, article[a].source>> \in link
    <3>1. SUFFICES ASSUME Exists(article[a].source)
                   PROVE  <<a, article[a].source>> \in link
      <4>1. PICK s \in Sources : s = article[a].source
        BY <2>2
      <4>2. Exists(s)' => Exists(s)
        BY StepSourceRows DEF SerialInv, IInv
      <4>3. QED
        BY <3>1, <4>1, <4>2 DEF Exists
    <3>2. SUFFICES ASSUME NEW q \in Runs, At(q, "link"), Target(q) = a
                   PROVE  <<a, article[a].source>> \in link
      BY <2>2, <3>1 DEF ArticleOK
    <3>3. q = r
      BY <3>2, StepAlone DEF Busy, Active, At
    <3>4. article[a].source = run[r].source
      BY <3>2, <3>3 DEF SerialInv, IInv, RunInv, RunOK, SavedBy, HasSaved, At
    <3>5. QED
      BY <3>1, <3>2, <3>3, <3>4 DEF At
  <2>6. QED
    BY <2>1, <2>2, <2>3, <2>4, <2>5 DEF ArticleOK
<1>4. OneArticlePerBuild'
  BY <1>2 DEF BuildInv, OneArticlePerBuild
<1>5. QED
  BY <1>1, <1>2, <1>3, <1>4 DEF BuildInv, Articles

(* A step that writes no row but may write a link, a file or a claim. *)
LEMMA StepKeepsBuild ==
  ASSUME SerialInv, BuildInv, NEW r \in Runs, Step(r), UNCHANGED article, BuildOK(r)',
         run'[r].pc \in PreCommit => run[r].pc \in PreCommit,
         run[r].pc \notin PreCommit => run'[r].existing = run[r].existing,
         \A a \in Articles :
            /\ \/ file'[article[a].path] = article[a].by
               \/ run'[r].pc \in {"unlink", "commit"} /\ run'[r].existing = a
            /\ job'[article[a].by] = "complete" => claims'[a] = {article[a].by}
            /\ Exists(article[a].source) => <<a, article[a].source>> \in link'
  PROVE  BuildInv'
<1>1. \A q \in Runs : BuildOK(q)'
  BY OthersBuild
<1>2. Articles' = Articles
  BY DEF Articles
<1>3. ASSUME NEW a \in Runs, article[a] # None
      PROVE  ArticleOK(a)'
  <2>1. PICK by \in Runs : /\ by = article[a].by /\ run'[by].pc \notin PreCommit
                           /\ Target(by)' = a /\ run'[by].source = article[a].source
    BY <1>3, ByMoves
  <2>2. article[a].path[2] = article[a].slug /\ a \in Articles
    BY <1>3 DEF BuildInv, Articles, ArticleOK
  <2>3. PICK s \in Sources : s = article[a].source
    BY <1>3, ArticleTyped
  <2>4. Exists(s)' => Exists(s)
    BY StepSourceRows DEF SerialInv, IInv
  <2>5. Exists(article[a].source)' => <<a, article[a].source>> \in link'
    BY <2>2, <2>3, <2>4 DEF Exists
  <2>6. QED
    BY <2>1, <2>2, <2>5 DEF ArticleOK
<1>4. OneArticlePerBuild'
  BY <1>2 DEF BuildInv, OneArticlePerBuild
<1>5. QED
  BY <1>1, <1>2, <1>3, <1>4 DEF BuildInv, Articles

(* Before the step, all of it holds for the articles r is not working on. *)
LEMMA RestBuild ==
  ASSUME SerialInv, BuildInv, NEW r \in Runs, Busy(r), NEW a \in Articles
  PROVE  /\ \/ file[article[a].path] = article[a].by
            \/ run[r].pc \in {"unlink", "commit"} /\ run[r].existing = a
         /\ job[article[a].by] = "complete" => claims[a] = {article[a].by}
         /\ Exists(article[a].source) => \/ <<a, article[a].source>> \in link
                                         \/ At(r, "link") /\ Target(r) = a
<1>1. ArticleOK(a)
  BY DEF BuildInv
<1>2. \A q \in Runs : Busy(q) => q = r
  BY DEF SerialInv, OneBusy
<1>3. \A q \in Runs : run[q].pc \in {"unlink", "commit"} => q = r
  BY <1>2 DEF Busy, Active
<1>4. \A q \in Runs : At(q, "link") => q = r
  BY <1>2 DEF Busy, Active, At
<1>5. QED
  BY <1>1, <1>3, <1>4 DEF ArticleOK

(* Two articles never share a path. *)
LEMMA PathsApart ==
  ASSUME SerialInv, BuildInv, NEW a \in Articles, NEW b \in Articles,
         article[a].slug = article[b].slug \/ article[a].path = article[b].path
  PROVE  a = b
<1>1. article[a].path[2] = article[a].slug /\ article[b].path[2] = article[b].slug
  BY DEF BuildInv, ArticleOK
<1>2. QED
  BY <1>1 DEF SerialInv, IInv, SlugsDistinct

(* Writing the new file, or deleting the old one: no other article's is        *)
(* touched, because no other article has the slug.                             *)
LEMMA FileStepBuild ==
  ASSUME SerialInv, BuildInv, NEW r \in Runs, WriteFile(r) \/ UnlinkOld(r)
  PROVE  BuildInv'
<1>1. Step(r)
  BY DEF Step
<1>2. /\ Busy(r) /\ BuildOK(r) /\ IInv /\ run[r] \in Run /\ run \in [Runs -> Run]
      /\ file \in [Paths -> Runs \cup {None}]
  BY <1>1, StepAlone DEF BuildInv, SerialInv, IInv, TypeOK
<1>3. UNCHANGED <<article, link, claims, job, status>>
  BY DEF WriteFile, UnlinkOld
<1>4. run[r].pc \in {"write", "unlink"}
  BY DEF WriteFile, UnlinkOld, At
<1>5. Path(r) \in Paths /\ Path(r)[2] = run[r].slug
  BY <1>2, <1>4, PathTyped DEF HasSlug, HasResult
<1>6. PICK pc \in {"unlink", "commit"} : Goto(r, pc)
                  /\ (pc = "unlink" => run[r].old # Path(r))
  BY DEF WriteFile, UnlinkOld
<1>7. /\ run'[r].pc = pc /\ run'[r].existing = run[r].existing /\ run'[r].old = run[r].old
      /\ run'[r].slug = run[r].slug /\ run'[r].source = run[r].source
      /\ run'[r].concept = run[r].concept /\ run'[r].provider = run[r].provider
  BY <1>2, <1>6 DEF Goto, Run
<1>8. PICK p \in Paths : /\ \A x \in Paths : x # p => file'[x] = file[x]
                         /\ file'[Path(r)] = r
                         /\ \A a \in Articles : article[a].path = p => a = run[r].existing
  <2>1. \A a \in Articles : article[a].slug = run[r].slug => a = run[r].existing
    <3>1. CASE run[r].existing = None
      BY <1>2, <1>4, <3>1 DEF BuildOK, Saving, SlugTaken
    <3>2. CASE run[r].existing # None
      <4>1. PICK b \in Articles : b = run[r].existing /\ article[b].slug = run[r].slug
        BY <1>2, <1>4, <3>2, ReplacesTyped DEF BuildOK, Saving, Articles
      <4>2. QED
        BY <4>1, PathsApart
    <3>3. QED
      BY <3>1, <3>2
  <2>2. \A a \in Articles : article[a].path[2] = article[a].slug
    BY DEF BuildInv, ArticleOK
  <2>3. CASE WriteFile(r)
    <3>1. file' = [file EXCEPT ![Path(r)] = r]
      BY <2>3 DEF WriteFile
    <3>2. QED
      BY <1>2, <1>5, <2>1, <2>2, <3>1
  <2>4. CASE UnlinkOld(r)
    <3>1. file' = [file EXCEPT ![run[r].old] = None] /\ run[r].pc = "unlink"
      BY <2>4 DEF UnlinkOld, At
    <3>2. run[r].old \in Paths /\ run[r].old # Path(r) /\ file[Path(r)] = r
          /\ run[r].existing # None
      BY <1>2, <3>1 DEF BuildOK, At, IInv, RunInv, RunOK, Run
    <3>3. PICK b \in Articles : b = run[r].existing /\ article[b].path = run[r].old
      BY <1>2, <3>1, <3>2, ReplacesTyped DEF BuildOK, Saving, Articles
    <3>4. \A a \in Articles : article[a].path = run[r].old => a = run[r].existing
      BY <3>3, PathsApart
    <3>5. QED
      BY <1>2, <1>5, <3>1, <3>2, <3>4
  <2>5. QED
    BY <2>3, <2>4
<1>9. BuildOK(r)'
  <2>1. Path(r)' = Path(r)
    BY <1>7 DEF Path
  <2>2. Articles' = Articles /\ \A slug : SlugTaken(slug)' <=> SlugTaken(slug)
    BY <1>3 DEF Articles, SlugTaken
  <2>3. run[r].pc \in Saving /\ pc \in Saving /\ pc \notin HasSaved /\ pc \notin PreSave
        /\ run[r].pc \in PreCommit
    BY <1>4 DEF Saving, HasSaved, PreSave, PreCommit
  <2>4. QED
    BY <1>2, <1>3, <1>4, <1>6, <1>7, <1>8, <2>1, <2>2, <2>3 DEF BuildOK, At, Exists, HasSaved
<1>10. ASSUME NEW a \in Articles
       PROVE  /\ \/ file'[article[a].path] = article[a].by
                 \/ run'[r].pc \in {"unlink", "commit"} /\ run'[r].existing = a
              /\ job'[article[a].by] = "complete" => claims'[a] = {article[a].by}
              /\ Exists(article[a].source) => <<a, article[a].source>> \in link'
  <2>1. article[a].path \in Paths
    BY ArticleTyped DEF Articles
  <2>2. CASE a = run[r].existing
    BY <1>2, <1>3, <1>4, <1>7, <2>2, RestBuild DEF At
  <2>3. CASE a # run[r].existing
    <3>1. file'[article[a].path] = file[article[a].path]
      BY <1>8, <2>1, <2>3
    <3>2. QED
      BY <1>2, <1>3, <1>4, <2>3, <3>1, RestBuild DEF At
  <2>4. QED
    BY <2>2, <2>3
<1>11. QED
  BY <1>1, <1>3, <1>4, <1>7, <1>9, <1>10, StepKeepsBuild DEF PreCommit, Saving

(* The link row, and the claims, belong to the article r has committed. *)
LEMMA LinkStepBuild ==
  ASSUME SerialInv, BuildInv, NEW r \in Runs, LinkArticle(r) \/ IndexArticle(r)
  PROVE  BuildInv'
<1>1. Step(r)
  BY DEF Step
<1>2. /\ Busy(r) /\ BuildOK(r) /\ RunOK(r) /\ run[r] \in Run /\ run \in [Runs -> Run]
      /\ claims \in [Runs -> SUBSET Runs]
  BY <1>1, StepAlone DEF BuildInv, SerialInv, IInv, TypeOK, RunInv
<1>3. UNCHANGED <<article, file, job, status>>
  BY DEF LinkArticle, IndexArticle
<1>4. PICK t \in Runs : t = Target(r)
  BY <1>2 DEF Target, Run
<1>5. /\ run[r].pc \in {"link", "index"} /\ run[r].pc \in HasSaved
      /\ article[t] # None /\ article[t].source = run[r].source
      /\ article[t].by = r /\ claims[t] = {} /\ job[r] # "complete"
  BY <1>2, <1>4 DEF LinkArticle, IndexArticle, At, RunOK, SavedBy, HasSaved, BuildOK
<1>6. PICK pc \in {"index", "finish"} :
         /\ Goto(r, pc)
         /\ pc = "index" => /\ claims' = claims
                            /\ link' = link \cup {<<t, run[r].source>>}
                            /\ run[r].pc = "link"
         /\ pc = "finish" => /\ claims' = [claims EXCEPT ![t] = @ \cup {r}]
                             /\ link' = link
                             /\ run[r].pc = "index"
  BY <1>4 DEF LinkArticle, IndexArticle, At
<1>7. /\ run'[r].pc = pc /\ run'[r].existing = run[r].existing /\ run'[r].old = run[r].old
  BY <1>2, <1>6 DEF Goto, Run
<1>8. Target(r)' = t
  BY <1>4, <1>7 DEF Target
<1>9. pc = "finish" => claims'[t] = {r} /\ \A a \in Runs : a # t => claims'[a] = claims[a]
  BY <1>2, <1>5, <1>6
<1>10. BuildOK(r)'
  BY <1>2, <1>3, <1>5, <1>6, <1>7, <1>8, <1>9
     DEF BuildOK, At, Saving, PreSave, PreCommit, HasSaved
<1>11. ASSUME NEW a \in Articles
       PROVE  /\ \/ file'[article[a].path] = article[a].by
                 \/ run'[r].pc \in {"unlink", "commit"} /\ run'[r].existing = a
              /\ job'[article[a].by] = "complete" => claims'[a] = {article[a].by}
              /\ Exists(article[a].source) => <<a, article[a].source>> \in link'
  <2>1. /\ file[article[a].path] = article[a].by
        /\ job[article[a].by] = "complete" => claims[a] = {article[a].by}
        /\ Exists(article[a].source) => \/ <<a, article[a].source>> \in link
                                        \/ At(r, "link") /\ Target(r) = a
    BY <1>2, <1>5, RestBuild
  <2>2. CASE a = t
    BY <1>3, <1>4, <1>5, <1>6, <2>1, <2>2 DEF At
  <2>3. CASE a # t
    BY <1>3, <1>4, <1>6, <1>9, <2>1, <2>3 DEF Articles
  <2>4. QED
    BY <2>2, <2>3
<1>12. QED
  BY <1>1, <1>3, <1>5, <1>6, <1>7, <1>10, <1>11, StepKeepsBuild DEF PreCommit, PreSave, Saving

(* Steps to a point outside the save. *)
LEMMA GotoKeepsBuild ==
  ASSUME SerialInv, BuildInv, NEW r \in Runs, Step(r),
         UNCHANGED <<article, link, file, claims>>,
         NEW pc \in {"normalize", "llm", "post", "error", "done", "failed"}, Goto(r, pc),
         pc \in {"normalize", "llm"} => run[r].pc \in PreSave /\ job'[r] # "complete",
         pc = "post" <=> run[r].pc = "finish",
         run[r].pc \in {"unlink", "commit"} => run[r].existing = None,
         run[r].pc = "link" => \/ ~Exists(run[r].source)
                               \/ <<Target(r), run[r].source>> \in link,
         job'[r] = "complete" => job[r] = "complete" \/ run[r].pc = "finish"
  PROVE  BuildInv'
<1>1. BuildOK(r) /\ run \in [Runs -> Run]
  BY DEF BuildInv, SerialInv, IInv, TypeOK
<1>2. run'[r].pc = pc /\ run'[r].existing = run[r].existing /\ run'[r].old = run[r].old
  BY <1>1 DEF Goto, Run
<1>3. Target(r)' = Target(r)
  BY <1>2 DEF Target
<1>4. BuildOK(r)'
  <2>1. pc \notin Saving /\ pc \notin {"link", "index", "finish", "unlink", "commit"}
    BY DEF Saving
  <2>2. pc \in PreCommit => pc \in {"normalize", "llm"} /\ run[r].pc \in PreCommit
    BY DEF PreCommit, PreSave, Saving
  <2>3. pc \in PreSave => run[r].pc \in PreSave
    BY DEF PreSave
  <2>4. article'[Target(r)] = article[Target(r)] /\ claims'[Target(r)] = claims[Target(r)]
    OBVIOUS
  <2>5. pc \in HasSaved => run[r].pc = "finish"
    BY DEF HasSaved
  <2>6. QED
    BY <1>1, <1>2, <1>3, <2>1, <2>2, <2>3, <2>4, <2>5 DEF BuildOK, At, HasSaved
<1>5. pc \in PreCommit => run[r].pc \in PreCommit
  BY DEF PreCommit, PreSave, Saving
<1>6. QED
  BY <1>2, <1>4, <1>5, MoveKeepsBuild

(* The steps of a run before and after the save. *)
LEMMA QuietKeepsBuild ==
  ASSUME SerialInv, BuildInv, NEW r \in Runs,
         \/ StartRun(r) \/ Normalize(r) \/ CompileFails(r) \/ SaveRefused(r)
         \/ CommitFails(r) \/ LinkFails(r) \/ FinishJob(r) \/ PostCompile(r)
         \/ HandleError(r)
  PROVE  BuildInv'
<1>1. Step(r)
  BY DEF Step
<1>2. BuildOK(r) /\ RunOK(r) /\ job \in [Runs -> JobStatus]
  BY DEF BuildInv, SerialInv, IInv, RunInv, TypeOK
<1>3. UNCHANGED <<article, link, file, claims>>
  BY DEF StartRun, Normalize, CompileFails, SaveRefused, CommitFails, LinkFails, FinishJob,
         PostCompile, HandleError, stored, wiki
<1>4. CASE StartRun(r)
  <2>1. run[r].pc = "queued" /\ job[r] = None
    BY <1>2, <1>4 DEF StartRun, At, RunOK
  <2>2. job'[r] # "complete"
    BY <1>2, <1>4, <2>1, NoneAssumption DEF StartRun
  <2>3. PICK pc \in {"normalize", "llm", "done"} : Goto(r, pc)
    BY <1>4 DEF StartRun
  <2>4. QED
    BY <1>1, <1>3, <2>1, <2>2, <2>3, GotoKeepsBuild DEF PreSave
<1>5. CASE Normalize(r)
  <2>1. run[r].pc = "normalize" /\ job' = job
    BY <1>5 DEF Normalize, At, stored
  <2>2. job[r] # "complete"
    BY <1>2, <2>1 DEF BuildOK
  <2>3. PICK pc \in {"llm", "done"} : Goto(r, pc)
    BY <1>5 DEF Normalize
  <2>4. QED
    BY <1>1, <1>3, <2>1, <2>2, <2>3, GotoKeepsBuild DEF PreSave
<1>6. CASE CompileFails(r) \/ SaveRefused(r)
  <2>1. run[r].pc \in {"llm", "save"} /\ job' = job /\ Goto(r, "error")
    BY <1>6 DEF CompileFails, SaveRefused, At, stored, Fail
  <2>2. QED
    BY <1>1, <1>3, <2>1, GotoKeepsBuild
<1>7. CASE CommitFails(r)
  <2>1. run[r].pc = "commit" /\ job' = job /\ Goto(r, "error") /\ CommitRefused(r)
    BY <1>7 DEF CommitFails, At, stored, Fail
  <2>2. run[r].existing = None
    BY <1>2, <2>1 DEF BuildOK, Saving, CommitRefused
  <2>3. QED
    BY <1>1, <1>3, <2>1, <2>2, GotoKeepsBuild
<1>8. CASE LinkFails(r)
  <2>1. run[r].pc = "link" /\ job' = job /\ Goto(r, "error") /\ LinkRefused(r)
    BY <1>8 DEF LinkFails, At, stored, Fail
  <2>2. ~Exists(run[r].source) \/ <<Target(r), run[r].source>> \in link
    BY <2>1 DEF LinkRefused
  <2>3. QED
    BY <1>1, <1>3, <2>1, <2>2, GotoKeepsBuild
<1>9. CASE FinishJob(r)
  <2>1. run[r].pc = "finish" /\ Goto(r, "post")
    BY <1>9 DEF FinishJob, At
  <2>2. QED
    BY <1>1, <1>3, <2>1, GotoKeepsBuild
<1>10. CASE PostCompile(r)
  <2>1. run[r].pc = "post" /\ job' = job
    BY <1>10 DEF PostCompile, At, stored
  <2>2. PICK pc \in {"done", "error"} : Goto(r, pc)
    BY <1>10 DEF PostCompile, Fail
  <2>3. QED
    BY <1>1, <1>3, <2>1, <2>2, GotoKeepsBuild
<1>11. CASE HandleError(r)
  <2>1. run[r].pc = "error" /\ Goto(r, "failed")
    BY <1>11 DEF HandleError, At
  <2>2. job'[r] = "complete" => job[r] = "complete"
    BY <1>11 DEF HandleError
  <2>3. QED
    BY <1>1, <1>3, <2>1, <2>2, GotoKeepsBuild
<1>12. QED
  BY <1>4, <1>5, <1>6, <1>7, <1>8, <1>9, <1>10, <1>11

(* The steps that fill in the record of a run. *)
LEMMA RecordKeepsBuild ==
  ASSUME SerialInv, BuildInv, NEW r \in Runs, Compile(r) \/ SaveReplaces(r) \/ SaveCreates(r)
  PROVE  BuildInv'
<1>1. Step(r)
  BY DEF Step
<1>2. BuildOK(r) /\ run \in [Runs -> Run] /\ run[r] \in Run
  BY DEF BuildInv, SerialInv, IInv, TypeOK
<1>3. UNCHANGED stored
  BY Zenon DEF Compile, SaveReplaces, SaveCreates
<1>4. UNCHANGED <<status, job, article, link, file, claims>>
  BY <1>3 DEF stored
<1>5. At(r, "llm") \/ At(r, "save")
  BY Zenon DEF Compile, SaveReplaces, SaveCreates
<1>6. run[r].pc \in PreSave /\ run[r].pc \in PreCommit
      /\ run[r].pc \notin {"unlink", "commit", "link"}
      /\ run[r].existing = None /\ run[r].old = None
      /\ article[r] = None /\ job[r] # "complete"
  BY <1>2, <1>5 DEF At, PreSave, PreCommit, BuildOK
<1>7. Articles' = Articles /\ \A slug : SlugTaken(slug)' <=> SlugTaken(slug)
  BY <1>4 DEF Articles, SlugTaken
<1>8. BuildOK(r)'
  <2>1. CASE Compile(r)
    <3>1. PICK p \in Providers, t \in Titles, c \in Concepts :
           run' = [run EXCEPT ![r] = [@ EXCEPT !.pc = "save", !.provider = p,
                                               !.title = t, !.concept = c]]
      BY <2>1, Zenon DEF Compile
    <3>2. run'[r].pc = "save" /\ run'[r].existing = None /\ run'[r].old = None
      BY <1>2, <1>6, <3>1 DEF Run
    <3>3. QED
      BY <1>4, <1>6, <3>2 DEF BuildOK, Saving, HasSaved, At
  <2>2. CASE SaveReplaces(r)
    <3>1. PICK a \in Builds(r) :
              run' = [run EXCEPT ![r] = [@ EXCEPT !.pc = "write", !.existing = a,
                                              !.slug = article[a].slug,
                                              !.old = article[a].path,
                                              !.seen = status[run[r].source]]]
      BY <2>2, Zenon DEF SaveReplaces
    <3>2. /\ run'[r].pc = "write" /\ run'[r].existing = a
          /\ run'[r].slug = article[a].slug /\ run'[r].old = article[a].path
          /\ run'[r].source = run[r].source
      BY <1>2, <3>1 DEF Run
    <3>3. /\ a \in Runs /\ article[a] # None /\ <<a, run[r].source>> \in link
      BY DEF Builds, Articles
    <3>4. a # None /\ article[a].path # None
      BY <3>3, ArticleTyped, NoneAssumption
    <3>5. Exists(run[r].source)
      BY <2>2, Zenon DEF SaveReplaces
    <3>6. QED
      BY <1>4, <1>6, <3>2, <3>3, <3>4, <3>5
         DEF BuildOK, Saving, HasSaved, PreSave, At, Exists
  <2>3. CASE SaveCreates(r)
    <3>1. PICK slug \in Slugs : FreeSlug(run[r].title, slug) /\
              run' = [run EXCEPT ![r] = [@ EXCEPT !.pc = "write", !.slug = slug,
                                              !.seen = status[run[r].source]]]
      BY <2>3, Zenon DEF SaveCreates
    <3>2. /\ run'[r].pc = "write" /\ run'[r].existing = None /\ run'[r].slug = slug
          /\ run'[r].old = None /\ run'[r].source = run[r].source
          /\ run'[r].provider = run[r].provider
      BY <1>2, <1>6, <3>1 DEF Run
    <3>3. ~SlugTaken(slug)
      BY <3>1 DEF FreeSlug
    <3>4. Exists(run[r].source) /\ Builds(r) = {}
      BY <2>3, Zenon DEF SaveCreates
    <3>5. ASSUME NEW a \in Articles, article[a].source = run[r].source,
                 article[a].provider = run[r].provider
          PROVE  FALSE
      <4>1. <<a, run[r].source>> \in link
        BY <1>1, <1>6, <3>4, <3>5, StepAlone, RestBuild DEF At
      <4>2. QED
        BY <3>4, <3>5, <4>1 DEF Builds
    <3>6. QED
      BY <1>4, <1>6, <1>7, <3>2, <3>3, <3>5
         DEF BuildOK, Saving, HasSaved, PreSave, At
  <2>4. QED
    BY <2>1, <2>2, <2>3
<1>9. QED
  BY <1>1, <1>4, <1>6, <1>8, MoveKeepsBuild

(* The first commit of a save. *)
LEMMA CommitKeepsBuild ==
  ASSUME SerialInv, BuildInv, NEW r \in Runs, CommitArticle(r)
  PROVE  BuildInv'
<1>1. PICK t \in Runs, row \in Article :
            /\ t = Target(r) /\ article' = [article EXCEPT ![t] = row]
            /\ row # None /\ row.by = r /\ row.source = run[r].source
            /\ run[r].existing = None =>
                  row.slug = run[r].slug /\ row.provider = run[r].provider
                  /\ row.path = Path(r)
            /\ run[r].existing # None =>
                  /\ article[t] \in Article /\ article[t] # None
                  /\ row.slug = article[t].slug
                  /\ row.provider = article[t].provider
                  /\ row.path = IF Path(r) = run[r].old THEN article[t].path ELSE Path(r)
  BY CommitWrites DEF SerialInv
<1>2. /\ Step(r) /\ run[r].pc = "commit" /\ Goto(r, "link") /\ UNCHANGED <<job, file>>
      /\ link' = {l \in link : l[1] # t} /\ claims' = [claims EXCEPT ![t] = {}]
  BY <1>1 DEF CommitArticle, Step, At
<1>3. /\ Busy(r) /\ BuildOK(r) /\ RunOK(r) /\ IInv /\ run \in [Runs -> Run]
      /\ article \in [Runs -> Article \cup {None}] /\ claims \in [Runs -> SUBSET Runs]
  BY <1>2, StepAlone DEF BuildInv, SerialInv, IInv, RunInv, TypeOK
<1>4. /\ run'[r].pc = "link" /\ run'[r].existing = run[r].existing
      /\ run'[r].old = run[r].old /\ run'[r].source = run[r].source
  BY <1>2, <1>3 DEF Goto, Run
<1>5. /\ article'[t] = row /\ claims'[t] = {}
      /\ \A b \in Runs : b # t => article'[b] = article[b] /\ claims'[b] = claims[b]
  BY <1>1, <1>2, <1>3
<1>6. /\ row.path = Path(r) /\ Path(r)[2] = row.slug /\ file[Path(r)] = r
      /\ job[r] # "complete"
  <2>1. Path(r)[2] = run[r].slug
    BY <1>2, <1>3, PathTyped DEF HasSlug, HasResult
  <2>2. file[Path(r)] = r /\ job[r] # "complete"
    BY <1>2, <1>3 DEF BuildOK
  <2>3. CASE run[r].existing = None
    BY <1>1, <2>1, <2>2, <2>3
  <2>4. CASE run[r].existing # None
    <3>1. run[r].slug = article[t].slug /\ run[r].old = article[t].path
      BY <1>1, <1>2, <1>3, <2>4 DEF BuildOK, Saving, Target
    <3>2. QED
      BY <1>1, <2>1, <2>2, <2>4, <3>1
  <2>5. QED
    BY <2>3, <2>4
<1>7. Target(r)' = t
  BY <1>1, <1>4 DEF Target
<1>8. \A q \in Runs : BuildOK(q)'
  <2>1. BuildOK(r)'
    BY <1>2, <1>3, <1>4, <1>5, <1>6, <1>7, <1>1
       DEF BuildOK, At, Saving, PreSave, PreCommit, HasSaved
  <2>2. QED
    BY <1>2, <2>1, OthersBuild
<1>9. ArticleOK(t)'
  <2>1. article'[t].path[2] = article'[t].slug /\ article'[t].by = r
        /\ article'[t].source = run[r].source /\ file'[article'[t].path] = r
    BY <1>1, <1>2, <1>5, <1>6
  <2>2. At(r, "link")' /\ run'[r].pc \notin PreCommit
    BY <1>4 DEF At, PreCommit, PreSave, Saving
  <2>3. Target(article[t].by)' = t
    BY <1>7, <2>1 DEF Target
  <2>4. \E q \in Runs : At(q, "link")' /\ Target(q)' = t
    BY <1>7, <2>2
  <2>5. QED
    BY <1>2, <1>4, <1>6, <2>1, <2>2, <2>3, <2>4 DEF ArticleOK
<1>10. ASSUME NEW b \in Runs, article[b] # None, b # t
       PROVE  ArticleOK(b)'
  <2>1. b \in Articles /\ article'[b] = article[b] /\ claims'[b] = claims[b]
    BY <1>5, <1>10 DEF Articles
  <2>2. PICK by \in Runs : /\ by = article[b].by /\ run'[by].pc \notin PreCommit
                           /\ Target(by)' = b /\ run'[by].source = article[b].source
    BY <1>2, <1>4, <1>10, ByMoves DEF PreCommit, Saving, PreSave
  <2>3. b # None
    BY NoneAssumption
  <2>4. run[r].existing # b
    BY <1>1, <1>10, <2>3 DEF Target
  <2>5. /\ file[article[b].path] = by
        /\ job[by] = "complete" => claims[b] = {by}
        /\ Exists(article[b].source) => <<b, article[b].source>> \in link
    BY <1>2, <1>3, <2>1, <2>2, <2>4, RestBuild DEF At
  <2>6. PICK s \in Sources : s = article[b].source
    BY <1>10, ArticleTyped
  <2>7. Exists(s)' => Exists(s)
    BY <1>2, StepSourceRows DEF SerialInv, IInv
  <2>8. Exists(article[b].source)' => <<b, article[b].source>> \in link'
    BY <1>2, <1>10, <2>1, <2>5, <2>6, <2>7 DEF Exists
  <2>9. article[b].path[2] = article[b].slug
    BY <2>1 DEF BuildInv, ArticleOK
  <2>10. Target(article[b].by)' = b
    BY <2>1, <2>2 DEF Target
  <2>11. QED
    BY <1>2, <2>1, <2>2, <2>5, <2>8, <2>9, <2>10 DEF ArticleOK
<1>11. OneArticlePerBuild'
  <2>1. ASSUME NEW b \in Articles, b # t, article[b].source = row.source,
               article[b].provider = row.provider
        PROVE  FALSE
    <3>1. CASE run[r].existing = None
      BY <1>1, <1>2, <1>3, <2>1, <3>1 DEF BuildOK, Saving
    <3>2. CASE run[r].existing # None
      <4>1. article[t].source = run[r].source /\ t \in Articles
        BY <1>1, <1>3, <3>2 DEF RunOK, Target, Articles
      <4>2. QED
        BY <1>1, <2>1, <3>2, <4>1 DEF BuildInv, OneArticlePerBuild
    <3>3. QED
      BY <3>1, <3>2
  <2>2. SUFFICES ASSUME NEW x \in Runs, NEW y \in Runs, article'[x] # None, article'[y] # None,
                        article'[x].source = article'[y].source,
                        article'[x].provider = article'[y].provider
                 PROVE  x = y
    BY DEF OneArticlePerBuild, Articles
  <2>3. QED
    BY <1>5, <2>1, <2>2 DEF BuildInv, OneArticlePerBuild, Articles
<1>12. QED
  BY <1>5, <1>8, <1>9, <1>10, <1>11 DEF BuildInv, Articles

(* A step that leaves rows, links, files and claims alone, and starts at most  *)
(* a fresh run.                                                                *)
LEMMA FrameBuild ==
  ASSUME SerialInv, BuildInv, UNCHANGED <<job, article, link, file, claims>>,
         \A q \in Runs : \/ run'[q] = run[q]
                         \/ /\ run[q].pc = "idle" /\ run'[q].pc = "queued"
                            /\ run'[q].existing = None /\ run'[q].old = None,
         \A x \in Sources : status[x] # None /\ Exists(x)' => Exists(x),
         \A q \in Runs : /\ run[q].pc \in Saving /\ run[q].existing # None
                         => status'[run[q].source] \notin {None, "deleted"}
  PROVE  BuildInv'
<1>1. Articles' = Articles /\ \A slug : SlugTaken(slug)' <=> SlugTaken(slug)
  BY DEF Articles, SlugTaken
<1>2. ASSUME NEW q \in Runs
      PROVE  BuildOK(q)'
  <2>1. CASE run'[q] = run[q]
    <3>1. Path(q)' = Path(q) /\ Target(q)' = Target(q)
      BY <2>1 DEF Path, Target
    <3>2. BuildOK(q)
      BY DEF BuildInv
    <3>3. QED
      BY <1>1, <2>1, <3>1, <3>2 DEF BuildOK, At, Exists
  <2>2. CASE run'[q] # run[q]
    <3>1. /\ run[q].pc = "idle" /\ run'[q].pc = "queued"
          /\ run'[q].existing = None /\ run'[q].old = None
      BY <2>2
    <3>2. article[q] = None /\ job[q] = None
      BY <3>1 DEF SerialInv, IInv, RunInv, RunOK
    <3>3. QED
      BY <3>1, <3>2, NoneAssumption DEF BuildOK, At, Saving, HasSaved
  <2>3. QED
    BY <2>1, <2>2
<1>3. ASSUME NEW a \in Runs, article[a] # None
      PROVE  ArticleOK(a)'
  <2>1. PICK by \in Runs : by = article[a].by
    BY <1>3, ArticleTyped
  <2>2. ArticleOK(a)
    BY <1>3 DEF BuildInv, Articles
  <2>3. run[by].pc # "idle"
    BY <2>1, <2>2 DEF ArticleOK, PreCommit, PreSave
  <2>4. run'[by] = run[by]
    BY <2>3
  <2>5. Target(article[a].by)' = a
    BY <2>1, <2>2, <2>4 DEF Target, ArticleOK
  <2>6. PICK s \in Sources : s = article[a].source /\ status[s] # None
    BY <1>3, ArticleTyped
  <2>7. Exists(article[a].source)' => Exists(article[a].source)
    BY <2>6 DEF Exists
  <2>8. \A q \in Runs : run[q].pc \in {"unlink", "commit", "link"} => run'[q] = run[q]
    OBVIOUS
  <2>9. (\E q \in Runs : run[q].pc \in {"unlink", "commit"} /\ run[q].existing = a)
           => \E q \in Runs : run'[q].pc \in {"unlink", "commit"} /\ run'[q].existing = a
    BY <2>8
  <2>10. (\E q \in Runs : At(q, "link") /\ Target(q) = a)
           => \E q \in Runs : At(q, "link")' /\ Target(q)' = a
    BY <2>8 DEF At, Target
  <2>11. QED
    BY <2>1, <2>2, <2>4, <2>5, <2>7, <2>9, <2>10 DEF ArticleOK
<1>4. OneArticlePerBuild'
  BY <1>1 DEF BuildInv, OneArticlePerBuild
<1>5. QED
  BY <1>1, <1>2, <1>3, <1>4 DEF BuildInv, Articles

(* A deletion spares the sources that are linked. *)
LEMMA RequestKeepsBuild ==
  ASSUME Undisturbed, SerialInv, BuildInv, Request, OneAtATime'
  PROVE  BuildInv'
<1>1. /\ UNCHANGED <<job, article, link, file, claims>>
      /\ status \in [Sources -> SourceStatus]
  BY SerialRequest DEF SerialInv, IInv, TypeOK
<1>2. PICK s \in Sources : Stored(s) \/ Deleted(s) \/ \E r \in Runs : Scheduled(s, r)
  BY SerialRequest
<1>3. ASSUME NEW q \in Runs, run[q].pc \in Saving, run[q].existing # None
      PROVE  /\ run[q].source \in Sources /\ Exists(run[q].source) /\ Busy(q)
             /\ run[q].existing \in Runs /\ <<run[q].existing, run[q].source>> \in link
  <2>1. BuildOK(q) /\ RunOK(q) /\ run[q] \in Run /\ ~At(q, "idle")
    BY <1>3 DEF BuildInv, SerialInv, IInv, RunInv, TypeOK, Saving, At
  <2>2. QED
    BY <1>3, <2>1 DEF BuildOK, RunOK, Run, Busy, Active, Saving
<1>4. CASE Stored(s)
  <2>1. UNCHANGED run /\ \A x \in Sources : status[x] # None => status'[x] = status[x]
    BY <1>1, <1>4 DEF Stored
  <2>2. \A x \in Sources : status[x] # None /\ Exists(x)' => Exists(x)
    BY <2>1 DEF Exists
  <2>3. \A q \in Runs : run[q].pc \in Saving /\ run[q].existing # None
                         => status'[run[q].source] \notin {None, "deleted"}
    BY <1>3, <2>1 DEF Exists
  <2>4. QED
    BY <1>1, <2>1, <2>2, <2>3, FrameBuild
<1>5. CASE Deleted(s)
  <2>1. /\ UNCHANGED run /\ \A x \in Sources : x # s => status'[x] = status[x]
        /\ status'[s] = "deleted"
    BY <1>1, <1>5 DEF Deleted
  <2>2. \A x \in Sources : status[x] # None /\ Exists(x)' => Exists(x)
    BY <2>1 DEF Exists
  <2>3. ASSUME NEW q \in Runs, run[q].pc \in Saving, run[q].existing # None
        PROVE  status'[run[q].source] \notin {None, "deleted"}
    <3>1. run[q].source # s
      BY <1>3, <1>5, <2>3 DEF Deleted, Undisturbed
    <3>2. QED
      BY <1>3, <2>1, <2>3, <3>1 DEF Exists
  <2>4. QED
    BY <1>1, <2>1, <2>2, <2>3, FrameBuild
<1>6. ASSUME NEW r \in Runs, Scheduled(s, r)
      PROVE  BuildInv'
  <2>1. \A q \in Runs : \/ run'[q] = run[q]
                        \/ /\ run[q].pc = "idle" /\ run'[q].pc = "queued"
                           /\ run'[q].existing = None /\ run'[q].old = None
    BY <1>6 DEF Scheduled
  <2>2. \A x \in Sources : status[x] # None /\ Exists(x)' => Exists(x)
    BY <1>1, <1>6 DEF Scheduled, Exists
  <2>3. \A q \in Runs : run[q].pc \in Saving /\ run[q].existing # None
                         => status'[run[q].source] \notin {None, "deleted"}
    BY <1>3, <1>6 DEF Scheduled
  <2>4. QED
    BY <1>1, <2>1, <2>2, <2>3, FrameBuild
<1>7. QED
  BY <1>2, <1>4, <1>5, <1>6

(* The start-up scan removes no source. *)
LEMMA ProcessKeepsBuild ==
  ASSUME Alive, SerialInv, BuildInv, Process
  PROVE  BuildInv'
<1>1. /\ UNCHANGED <<run, job, article, link, file, claims>>
      /\ \A s \in Sources :
            \/ status'[s] = status[s]
            \/ status[s] = "processing" /\ status'[s] = "failed"
  BY AliveProcess
<1>2. \A x \in Sources : status[x] # None /\ Exists(x)' => Exists(x)
  BY <1>1, NoneAssumption DEF Exists
<1>3. ASSUME NEW q \in Runs, run[q].pc \in Saving, run[q].existing # None
      PROVE  status'[run[q].source] \notin {None, "deleted"}
  <2>1. BuildOK(q) /\ RunOK(q) /\ run[q] \in Run /\ ~At(q, "idle")
    BY <1>3 DEF BuildInv, SerialInv, IInv, RunInv, TypeOK, Saving, At
  <2>2. run[q].source \in Sources /\ Exists(run[q].source)
    BY <1>3, <2>1 DEF BuildOK, RunOK, Run
  <2>3. QED
    BY <1>1, <2>2, NoneAssumption DEF Exists
<1>4. QED
  BY <1>1, <1>2, <1>3, FrameBuild

(* When runs come one at a time, nothing fails in the middle of a save and     *)
(* foreign keys protect a linked source, a provider has one article per        *)
(* source, and its row, file and claims come from one run of that source.      *)
THEOREM BuildsAlwaysSound ==
  ASSUME Undisturbed
  PROVE  SerialSpec => []BuildSound
<1>1. Alive /\ "save" \notin Events
  BY DEF Alive, Undisturbed
<1>2. Init => SerialInv /\ BuildInv
  BY InitSerialInv, InitBuildInv
<1>3. SerialInv /\ BuildInv /\ [SerialNext]_vars => SerialInv' /\ BuildInv'
  <2> SUFFICES ASSUME SerialInv, BuildInv, [SerialNext]_vars
               PROVE  SerialInv' /\ BuildInv'
    OBVIOUS
  <2>1. SerialInv'
    BY <1>1, NextSerialInv
  <2>2. CASE UNCHANGED vars
    <3>1. UNCHANGED <<run, job, status, article, link, file, claims>>
      BY <2>2 DEF vars
    <3>2. \A x \in Sources : status[x] # None /\ Exists(x)' => Exists(x)
      BY <3>1 DEF Exists
    <3>3. \A q \in Runs : run[q].pc \in Saving /\ run[q].existing # None
                         => status'[run[q].source] \notin {None, "deleted"}
      BY <3>1 DEF BuildInv, BuildOK, Exists
    <3>4. QED
      BY <2>1, <3>1, <3>2, <3>3, FrameBuild
  <2>3. ASSUME NEW r \in Runs, Step(r)
        PROVE  BuildInv'
    <3>1. ~SaveFails(r)
      BY <1>1 DEF SaveFails
    <3>2. QED
      BY <2>3, <3>1, QuietKeepsBuild, RecordKeepsBuild, FileStepBuild, LinkStepBuild,
         CommitKeepsBuild DEF Step
  <2>4. CASE SerialNext
    BY <1>1, <2>1, <2>3, <2>4, RequestKeepsBuild, ProcessKeepsBuild DEF SerialNext
  <2>5. QED
    BY <2>1, <2>2, <2>4
<1>4. SerialInv /\ BuildInv => BuildSound
  <2> SUFFICES ASSUME SerialInv, BuildInv
               PROVE  BuildSound
    OBVIOUS
  <2>1. ASSUME Settled, NEW a \in Articles
        PROVE  /\ file[article[a].path] = article[a].by
               /\ run[article[a].by].source = article[a].source
               /\ job[article[a].by] = "complete" => claims[a] = {article[a].by}
    <3>1. \A r \in Runs : run[r].pc \notin {"unlink", "commit"}
      BY <2>1 DEF Settled, Busy, Active
    <3>2. QED
      BY <3>1 DEF BuildInv, ArticleOK
  <2>2. ContentIsOwn /\ BuildIsWhole
    BY <2>1 DEF ContentIsOwn, BuildIsWhole
  <2>3. QED
    BY <2>2 DEF BuildSound, BuildInv
<1>5. QED
  BY <1>2, <1>3, <1>4, PTL DEF SerialSpec
=============================================================================
