------------------------------ MODULE Articles ------------------------------
(***************************************************************************)
(* The life of one source's articles after compilation: manual edits       *)
(* (WikiService.edit_article), recompilation (WikiService.recompile_article *)
(* and the worker's recompile_article), review of compilation drafts       *)
(* (DraftService), stub pages and the wikilink sweep.                      *)
(*                                                                         *)
(* An article is named by its slug: the row is unique by (user, slug) and  *)
(* the path of the file is built from it.  The row and the file are        *)
(* written by different awaits, and no operation locks either, so each     *)
(* operation is a process whose steps are the commits and the writes to    *)
(* storage.  A file's content is [by, put]: the operation that composed    *)
(* the text and the one that stored these bytes (a sweep stores text that  *)
(* somebody else composed).                                                *)
(*                                                                         *)
(* SQLAlchemy writes only the attributes whose value differs from the one  *)
(* loaded, so an operation that sets a flag to the value it loaded writes  *)
(* nothing: `seen' is what a session loaded.                               *)
(***************************************************************************)
EXTENDS Naturals, FiniteSets

CONSTANTS Procs,        \* requests and background jobs
          Arts,         \* slugs
          Drafts,       \* identities of compilation drafts
          First,        \* the article the source was compiled into
          None

ASSUME ArticlesAssumption == First \in Arts /\ None \notin Procs \cup Arts \cup Drafts

VARIABLES row,          \* Article rows: live, manually_edited, provider
          file,         \* markdown files
          draft,        \* CompilationDraft.status
          source,       \* Source.status
          job,          \* Job.status of a recompilation or a sweep
          op,           \* control state of each operation
          lastEdit,     \* history: the last acknowledged content edit
          rivals,       \* history: who may have overwritten that edit
          made,         \* history: the approvals that saved an article
          clash         \* history: drafts reviewed twice at once, or cut short

vars == <<row, file, draft, source, job, op, lastEdit, rivals, made, clash>>
history == <<lastEdit, rivals, made, clash>>

Kinds == {"none", "edit", "recompile", "approve", "guided", "reject",
          "compile", "sweep", "stub"}
Ended == {"idle", "done", "failed", "dead"}
Steps == Ended \cup {"write", "commit", "enqueue", "queued", "finish", "compile",
                     "load", "save", "mark", "next"}

(* The control state of an operation: what it has loaded, seen: whether the   *)
(* flag or the status it will write had that value, got: the text it holds.   *)
Operation == [kind : Kinds, pc : Steps, art : Arts \cup {None}, seen : BOOLEAN,
              draft : Drafts \cup {None}, got : Procs \cup Arts \cup {None},
              todo : SUBSET Arts]

Idle == [kind |-> "none", pc |-> "idle", art |-> None, seen |-> FALSE,
         draft |-> None, got |-> None, todo |-> {}]

(* CompilationDraft.status; a draft that does not exist yet is "none". *)
DraftStatus == {"none", "pending", "approved", "rejected"}

(* The columns of an Article row that the operations below read or write.   *)
(* provider is None for a page that no LLM call of this process produced.   *)
ArticleRow == [live : BOOLEAN, edited : BOOLEAN, provider : BOOLEAN]

TypeOK ==
    /\ row \in [Arts -> ArticleRow]
    /\ file \in [Arts -> [by : Procs \cup {None, First}, put : Procs \cup {None, First}]]
    /\ draft \in [Drafts -> DraftStatus]
    /\ source \in {"processing", "review_pending", "pending", "compiled", "failed"}
    /\ job \in [Procs -> {"none", "queued", "running", "complete", "failed"}]
    /\ op \in [Procs -> Operation]
    /\ lastEdit \in [Arts -> Procs \cup {None}]
    /\ rivals \in [Arts -> SUBSET Procs]
    /\ made \in [Drafts -> SUBSET Procs]
    /\ clash \subseteq Drafts

Init ==
    /\ row = [a \in Arts |-> [live |-> a = First, edited |-> FALSE, provider |-> a = First]]
    /\ file = [a \in Arts |-> [by |-> IF a = First THEN First ELSE None,
                               put |-> IF a = First THEN First ELSE None]]
    /\ draft = [d \in Drafts |-> "none"]
    /\ source = "compiled"
    /\ job = [p \in Procs |-> "none"]
    /\ op = [p \in Procs |-> Idle]
    /\ lastEdit = [a \in Arts |-> None]
    /\ rivals = [a \in Arts |-> {}]
    /\ made = [d \in Drafts |-> {}]
    /\ clash = {}

At(p, k, c) == op[p].kind = k /\ op[p].pc = c
Goto(p, c) == op' = [op EXCEPT ![p].pc = c]
Begin(p, o) == op[p].pc = "idle" /\ op' = [op EXCEPT ![p] = o]

(* The operations that have begun to write article a and have not ended. *)
Writers(a) == {p \in Procs : op[p].art = a /\ op[p].pc \notin Ended}
Editing(a) == {p \in Writers(a) : At(p, "edit", "write") \/ At(p, "edit", "commit")}

(* History: p starts writing a; the edits under way there have a rival.     *)
Enter(p, a) ==
    rivals' = [rivals EXCEPT ![a] = IF Editing(a) # {} THEN @ \cup {p} ELSE @]
(* History: p overwrites a whatever the row's flag says. *)
Overrides(p, a) == rivals' = [rivals EXCEPT ![a] = @ \cup {p}]

Store(p, a, text) == file' = [file EXCEPT ![a] = [by |-> text, put |-> p]]

----------------------------------------------------------------------------
(* edit_article                                                             *)

(* The row is loaded by id or by slug; with new content the file is next,   *)
(* with a new title alone only the row.                                     *)
BeginEdit(p, a, content) ==
    /\ row[a].live
    /\ Begin(p, [Idle EXCEPT !.kind = "edit", !.art = a, !.seen = row[a].edited,
                             !.pc = IF content THEN "write" ELSE "commit"])
    /\ rivals' = IF content
                 THEN [rivals EXCEPT ![a] = {p} \cup Writers(a)
                                      \cup (IF Editing(a) # {} THEN @ ELSE {})]
                 ELSE rivals
    /\ UNCHANGED <<row, file, draft, source, job, lastEdit, made, clash>>

(* storage.write comes before the row is touched. *)
EditWrite(p) ==
    /\ At(p, "edit", "write")
    /\ Store(p, op[p].art, p)
    /\ op' = [op EXCEPT ![p].pc = "commit", ![p].got = p]
    /\ UNCHANGED <<row, draft, source, job>> /\ UNCHANGED history

(* manually_edited is set, and written if it was loaded as False. *)
EditCommit(p) ==
    /\ At(p, "edit", "commit")
    /\ LET a == op[p].art IN
       /\ row' = [row EXCEPT ![a].edited = IF op[p].seen THEN @ ELSE TRUE]
       /\ lastEdit' = [lastEdit EXCEPT ![a] = IF op[p].got = p THEN p ELSE @]
       /\ rivals' = [rivals EXCEPT ![a] = IF @ = {p} THEN {} ELSE @]
    /\ Goto(p, "done")
    /\ UNCHANGED <<file, draft, source, job, made, clash>>

----------------------------------------------------------------------------
(* recompile_article: the request                                           *)

(* Mutant of RecompileAccepts: the 409 for manually edited pages is gone. *)
AcceptsAlways(a, force) == row[a].live

RecompileAccepts(a, force) == row[a].live /\ (row[a].edited => force)

(* Accepted: a forced request first clears the flag, in a commit of its own. *)
PostRecompile(p, a, force) ==
    /\ RecompileAccepts(a, force)
    /\ Begin(p, [Idle EXCEPT !.kind = "recompile", !.art = a, !.pc = "enqueue"])
    /\ row' = [row EXCEPT ![a].edited = IF force THEN FALSE ELSE @]
    /\ IF force /\ row[a].edited THEN Overrides(p, a) ELSE Enter(p, a)
    /\ UNCHANGED <<file, draft, source, job, lastEdit, made, clash>>

(* Then the QUEUED Job row is committed and the job scheduled; when Redis    *)
(* refuses it, the row stays and the request fails.                          *)
QueueRecompile(p) ==
    /\ At(p, "recompile", "enqueue")
    /\ job' = [job EXCEPT ![p] = "queued"]
    /\ \/ Goto(p, "queued")
       \/ Goto(p, "failed")
    /\ UNCHANGED <<row, file, draft, source>> /\ UNCHANGED history

(* recompile_article: the worker                                            *)

RunRecompile(p) ==
    /\ At(p, "recompile", "queued")
    /\ job' = [job EXCEPT ![p] = "running"]
    /\ Goto(p, "write")
    /\ UNCHANGED <<row, file, draft, source>> /\ UNCHANGED history

(* _recompile_from_source raises: no linked source, no file, no result from  *)
(* the compiler, the article or the source gone; or storage refuses.         *)
RecompileFails(p) ==
    /\ op[p].kind = "recompile" /\ op[p].pc \in {"write", "commit"}
    /\ job' = [job EXCEPT ![p] = "failed"]
    /\ Goto(p, "failed")
    /\ UNCHANGED <<row, file, draft, source>> /\ UNCHANGED history

(* The article and the source are loaded again and save_article_in_place     *)
(* writes the file; the flag is not read.                                    *)
RecompileWrite(p) ==
    /\ At(p, "recompile", "write")
    /\ Store(p, op[p].art, p)
    /\ op' = [op EXCEPT ![p].pc = "commit", ![p].seen = source = "compiled"]
    /\ UNCHANGED <<row, draft, source, job>> /\ UNCHANGED history

(* _apply_article_fields leaves manually_edited alone; source.status becomes *)
(* COMPILED in the same commit.                                              *)
RecompileCommit(p) ==
    /\ At(p, "recompile", "commit")
    /\ source' = IF op[p].seen THEN source ELSE "compiled"
    /\ Goto(p, "finish")
    /\ UNCHANGED <<row, file, draft, job>> /\ UNCHANGED history

(* Mutant of RecompileEnds: the job row is left RUNNING. *)
RecompileForgotten(p) ==
    /\ At(p, "recompile", "finish")
    /\ Goto(p, "done")
    /\ UNCHANGED <<row, file, draft, source, job>> /\ UNCHANGED history

RecompileEnds(p) ==
    /\ At(p, "recompile", "finish")
    /\ job' = [job EXCEPT ![p] = "complete"]
    /\ Goto(p, "done")
    /\ UNCHANGED <<row, file, draft, source>> /\ UNCHANGED history

----------------------------------------------------------------------------
(* Drafts                                                                   *)

(* The worker compiles a source whose user asked for interactive review. *)
BeginCompile(p) ==
    /\ Begin(p, [Idle EXCEPT !.kind = "compile", !.pc = "compile"])
    /\ source' = "processing"
    /\ UNCHANGED <<row, file, draft, job>> /\ UNCHANGED history

(* create_draft: the pending draft and the source's status in one commit.    *)
(* Nothing asks whether the source has a pending draft already.              *)
CreateDraft(p) ==
    /\ At(p, "compile", "compile")
    /\ \E d \in Drafts : draft[d] = "none" /\ draft' = [draft EXCEPT ![d] = "pending"]
    /\ source' = "review_pending"
    /\ Goto(p, "done")
    /\ UNCHANGED <<row, file, job>> /\ UNCHANGED history

CompileFails(p) ==
    /\ At(p, "compile", "compile")
    /\ source' = "failed"
    /\ Goto(p, "failed")
    /\ UNCHANGED <<row, file, draft, job>> /\ UNCHANGED history

(* Mutant of GetDraft: the status is not part of the query. *)
GetAnyDraft(d) == draft[d] # "none"

(* get_draft_for_source: some pending draft. *)
GetDraft(d) == draft[d] = "pending"

Reviewing(d) == {p \in Procs : op[p].draft = d /\ op[p].pc \notin Ended}

(* A review loads the draft and the source.  seen: the source was loaded as  *)
(* COMPILED, respectively PENDING, so that setting it again writes nothing.  *)
BeginReview(p, d, kind) ==
    /\ GetDraft(d)
    /\ Begin(p, [Idle EXCEPT !.kind = kind, !.pc = "load", !.draft = d,
                             !.seen = source = (IF kind = "reject" THEN "pending"
                                                                   ELSE "compiled")])
    /\ clash' = IF Reviewing(d) # {} THEN clash \cup {d} ELSE clash
    /\ UNCHANGED <<row, file, draft, source, job, lastEdit, rivals, made>>

(* reject_draft: both rows in one commit. *)
RejectDraft(p) ==
    /\ At(p, "reject", "load")
    /\ draft' = [draft EXCEPT ![op[p].draft] = "rejected"]
    /\ source' = IF op[p].seen THEN source ELSE "pending"
    /\ Goto(p, "done")
    /\ UNCHANGED <<row, file, job>> /\ UNCHANGED history

(* save_article picks its article: a build by the provider this compiler     *)
(* used, which is unknown unless guidance made it call one, or a free slug.  *)
SaveTarget(p) ==
    LET builds == {a \in Arts : row[a].live /\ row[a].provider} IN
    IF op[p].kind = "guided" /\ builds # {} THEN builds
    ELSE {a \in Arts : ~row[a].live}

(* The file is written; over a manually edited page too. *)
ApproveWrite(p) ==
    /\ op[p].kind \in {"approve", "guided"} /\ op[p].pc = "load"
    /\ \E a \in SaveTarget(p) :
          /\ Store(p, a, p)
          /\ op' = [op EXCEPT ![p].pc = "save", ![p].art = a,
                              ![p].got = IF row[a].live THEN a ELSE None]
          /\ Overrides(p, a)
    /\ UNCHANGED <<row, draft, source, job, lastEdit, made, clash>>

(* The article's row and source.status in one commit. A new row is refused   *)
(* when the slug has been taken since.                                       *)
ApproveSave(p) ==
    /\ op[p].kind \in {"approve", "guided"} /\ op[p].pc = "save"
    /\ LET a == op[p].art IN
       IF op[p].got = None /\ row[a].live
       THEN Goto(p, "failed") /\ UNCHANGED <<row, source, made>>
       ELSE /\ row' = [row EXCEPT ![a].live = TRUE,
                                  ![a].provider = op[p].kind = "guided"]
            /\ source' = IF op[p].seen THEN source ELSE "compiled"
            /\ made' = [made EXCEPT ![op[p].draft] = @ \cup {p}]
            /\ Goto(p, "mark")
    /\ UNCHANGED <<file, draft, job, lastEdit, rivals, clash>>

(* The draft is marked only after save_article has committed. *)
ApproveMark(p) ==
    /\ op[p].kind \in {"approve", "guided"} /\ op[p].pc = "mark"
    /\ draft' = [draft EXCEPT ![op[p].draft] = "approved"]
    /\ Goto(p, "done")
    /\ UNCHANGED <<row, file, source, job>> /\ UNCHANGED history

(* Guided compilation returns nothing, or the source has no content: 404,   *)
(* and the draft stays pending.                                              *)
ApproveFails(p) ==
    /\ At(p, "guided", "load")
    /\ Goto(p, "failed")
    /\ UNCHANGED <<row, file, draft, source, job>> /\ UNCHANGED history

----------------------------------------------------------------------------
(* create_stub_article: the slug is chosen and the file written, then the   *)
(* row committed, or refused because the slug was taken meanwhile.           *)

StubWrite(p, a) ==
    /\ ~row[a].live
    /\ Begin(p, [Idle EXCEPT !.kind = "stub", !.pc = "commit", !.art = a])
    /\ Store(p, a, p)
    /\ Enter(p, a)
    /\ UNCHANGED <<row, draft, source, job, lastEdit, made, clash>>

StubCommit(p) ==
    /\ At(p, "stub", "commit")
    /\ IF row[op[p].art].live
       THEN Goto(p, "failed") /\ UNCHANGED row
       ELSE /\ row' = [row EXCEPT ![op[p].art].live = TRUE]
            /\ Goto(p, "done")
    /\ UNCHANGED <<file, draft, source, job>> /\ UNCHANGED history

----------------------------------------------------------------------------
(* sweep_wikilinks                                                          *)

(* A RUNNING Job row, then the list of the user's article ids. *)
BeginSweep(p) ==
    /\ Begin(p, [Idle EXCEPT !.kind = "sweep", !.pc = "next",
                             !.todo = {a \in Arts : row[a].live}])
    /\ job' = [job EXCEPT ![p] = "running"]
    /\ UNCHANGED <<row, file, draft, source>> /\ UNCHANGED history

(* One article's file is read; it has unresolved brackets, or it is skipped. *)
SweepRead(p, a) ==
    /\ At(p, "sweep", "next") /\ a \in op[p].todo
    /\ \/ /\ op' = [op EXCEPT ![p].pc = "write", ![p].art = a, ![p].got = file[a].by,
                              ![p].todo = @ \ {a}]
          /\ Enter(p, a)
       \/ op' = [op EXCEPT ![p].todo = @ \ {a}] /\ UNCHANGED rivals
    /\ UNCHANGED <<row, file, draft, source, job, lastEdit, made, clash>>

(* After the resolver's queries the text that was read is written back with  *)
(* the brackets replaced; nothing is resolved, or it is stored.              *)
SweepWrite(p) ==
    /\ At(p, "sweep", "write")
    /\ \/ Store(p, op[p].art, op[p].got)
       \/ UNCHANGED file
    /\ op' = [op EXCEPT ![p].pc = "next", ![p].art = None]
    /\ UNCHANGED <<row, draft, source, job>> /\ UNCHANGED history

(* The last article is done, or one of them raised. *)
EndSweep(p) ==
    /\ op[p].kind = "sweep"
    /\ \/ op[p].pc = "next" /\ op[p].todo = {}
          /\ job' = [job EXCEPT ![p] = "complete"] /\ Goto(p, "done")
       \/ op[p].pc = "write"
          /\ job' = [job EXCEPT ![p] = "failed"] /\ Goto(p, "failed")
    /\ UNCHANGED <<row, file, draft, source>> /\ UNCHANGED history

----------------------------------------------------------------------------
(* The process that runs the operation dies: nothing of these operations is  *)
(* resumed at the next start.                                                *)
Die(p) ==
    /\ op[p].pc \notin Ended
    /\ Goto(p, "dead")
    /\ clash' = clash \cup ({op[p].draft} \cap Drafts)
    /\ UNCHANGED <<row, file, draft, source, job, lastEdit, rivals, made>>

Step(p) ==
    \/ EditWrite(p) \/ EditCommit(p)
    \/ QueueRecompile(p) \/ RunRecompile(p) \/ RecompileFails(p) \/ RecompileWrite(p)
    \/ RecompileCommit(p) \/ RecompileEnds(p)
    \/ CreateDraft(p) \/ CompileFails(p)
    \/ RejectDraft(p) \/ ApproveWrite(p) \/ ApproveSave(p) \/ ApproveMark(p) \/ ApproveFails(p)
    \/ StubCommit(p)
    \/ (\E a \in Arts : SweepRead(p, a)) \/ SweepWrite(p) \/ EndSweep(p)

Start(p) ==
    \/ \E a \in Arts, content \in BOOLEAN : BeginEdit(p, a, content)
    \/ \E a \in Arts, force \in BOOLEAN : PostRecompile(p, a, force)
    \/ BeginCompile(p)
    \/ \E d \in Drafts, kind \in {"approve", "guided", "reject"} : BeginReview(p, d, kind)
    \/ \E a \in Arts : StubWrite(p, a)
    \/ BeginSweep(p)

Next == \E p \in Procs : Start(p) \/ Step(p) \/ Die(p)

(* An operation that has begun is run to its end by the event loop or by the *)
(* worker unless its process dies.                                           *)
Fairness == \A p \in Procs : WF_vars(Step(p))

Spec == Init /\ [][Next]_vars /\ Fairness

----------------------------------------------------------------------------
(* An acknowledged edit of an article's content stays in the file, and the   *)
(* row stays marked, so that a later recompilation asks for force: unless    *)
(* another writer of the article was under way during the edit (edit_article *)
(* neither locks nor checks), a forced recompilation was accepted since, or  *)
(* a guided approval, which does not read the flag, saved over it.           *)
EditHeld ==
    \A a \in Arts :
        lastEdit[a] # None /\ rivals[a] = {}
            => file[a].by = lastEdit[a] /\ row[a].edited

(* One review decides a draft: when no two reviews of it overlapped and none *)
(* was cut short, an approved draft was saved once, and a rejected one never.*)
DraftOnce ==
    \A d \in Drafts \ clash :
        /\ Cardinality(made[d]) <= 1
        /\ draft[d] = "rejected" => made[d] = {}
        /\ draft[d] = "approved" => made[d] # {}
        /\ draft[d] = "pending" /\ Reviewing(d) = {} => made[d] = {}

(* A source shown as waiting for review has a draft to review, whatever      *)
(* reviews overlap, repeat or die: neither review writes a status it loaded. *)
ReviewHasDraft ==
    source = "review_pending" => \E d \in Drafts : draft[d] = "pending"

(* services/draft.py: see DraftOnce and ReviewHasDraft.                      *)
ReviewsSound == TypeOK /\ DraftOnce /\ ReviewHasDraft

(* A recompilation or a sweep that was scheduled ends, and its Job row says  *)
(* so, unless the process died (then the row stays as it is for ever).       *)
JobEnds ==
    \A p \in Procs :
        op[p].pc = "queued" \/ At(p, "sweep", "next")
            ~> job[p] \in {"complete", "failed"} \/ op[p].pc = "dead"
=============================================================================
