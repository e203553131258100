---------------------------- MODULE ConceptPages ----------------------------
(***************************************************************************)
(* Concept pages (engine/concept_compiler.py, engine/base_compiler.py) of  *)
(* one concept name, for several users: the pass over eligible concepts    *)
(* after each save (maybe_trigger_concept_pages), the recompilation of a   *)
(* page (worker._recompile_from_concept) and the sweep's removal of pages  *)
(* without a file (_cleanup_orphaned_concept_pages).                       *)
(*                                                                         *)
(* A page is saved in four commits with a file write between them: the row *)
(* (with its source list in a JSON column), the file, the join rows, and   *)
(* the index and the links.  A page's sources are pairs <<user, article>>. *)
(***************************************************************************)
EXTENDS Naturals, FiniteSets

CONSTANTS Users,
          Tagged,        \* source articles that a user may have under the concept
          PageRuns,      \* compilations of the page
          MinSources,    \* taxonomy.concept_page_min_sources
          ForeignKeys,   \* PostgreSQL checks foreign keys, this SQLite engine does not
          NoUser

ASSUME ConceptPagesAssumption ==
    /\ MinSources \in Nat /\ ForeignKeys \in BOOLEAN /\ NoUser \notin Users

VARIABLES carries,       \* ArticleConcept rows of a user's source pages
          raw,           \* those whose stored name is not in slug form
          row_of,        \* the concept page's row of a user (at most one)
          written,       \* the sources its file was written from
          joined,        \* ArticleSource rows of a page
          linked,        \* SYNTHESIZES backlinks of a page
          prun,          \* control state of the compilations
          orphan,        \* the sweep: the user whose page it found without a file
          disturbed      \* history: users whose page was written by two at once,
                         \* or whose compilation was cut short after the row

pageVars == <<carries, raw, row_of, written, joined, linked, prun, orphan, disturbed>>
pageStore == <<row_of, written, joined, linked>>

Absent == [exists |-> FALSE, sources |-> {}]
NoFile == {<<NoUser, NoUser>>}
PageEnded == {"idle", "done", "failed", "dead"}

Sources == Users \X Tagged
IdleRun == [pc |-> "idle", user |-> NoUser, owner |-> NoUser, sources |-> {}, found |-> FALSE]

ConceptPagesTypeOK ==
    /\ carries \in [Users -> SUBSET Tagged]
    /\ raw \in [Users -> SUBSET Tagged]
    /\ \A u \in Users : /\ row_of[u].sources \subseteq Sources
                        /\ written[u] \subseteq Sources \/ written[u] = NoFile
                        /\ joined[u] \subseteq Sources /\ linked[u] \subseteq Sources
    /\ \A r \in PageRuns : prun[r].sources \subseteq Sources
    /\ orphan \in Users \cup {NoUser}
    /\ disturbed \subseteq Users

ConceptPagesInit ==
    /\ carries = [u \in Users |-> {}]
    /\ raw = [u \in Users |-> {}]
    /\ row_of = [u \in Users |-> Absent]
    /\ written = [u \in Users |-> NoFile]
    /\ joined = [u \in Users |-> {}]
    /\ linked = [u \in Users |-> {}]
    /\ prun = [r \in PageRuns |-> IdleRun]
    /\ orphan = NoUser
    /\ disturbed = {}

----------------------------------------------------------------------------
(* A source page is saved under the concept, spelt as a slug or not, or a    *)
(* later build of it drops the concept.                                      *)
TagSource(u, t, spelt) ==
    /\ t \notin carries[u]
    /\ carries' = [carries EXCEPT ![u] = @ \cup {t}]
    /\ raw' = [raw EXCEPT ![u] = IF spelt THEN @ ELSE @ \cup {t}]
    /\ UNCHANGED <<prun, orphan, disturbed>> /\ UNCHANGED pageStore

UntagSource(u, t) ==
    /\ t \in carries[u]
    /\ carries' = [carries EXCEPT ![u] = @ \ {t}]
    /\ raw' = [raw EXCEPT ![u] = @ \ {t}]
    /\ UNCHANGED <<prun, orphan, disturbed>> /\ UNCHANGED pageStore

(* The row that article_count >= min selects: the count normalises names.    *)
Eligible(u) == Cardinality(carries[u]) >= MinSources

(* _collect_source_articles compares the stored name with the slug.          *)
_collect_source_articles(u) == {u} \X (carries[u] \ raw[u])

(* _concept_source_set_changed: against the join rows, or the JSON column    *)
(* when there are none.                                                      *)
Recorded(u) == IF joined[u] # {} THEN joined[u] ELSE row_of[u].sources
_concept_source_set_changed(u) ==
    ~row_of[u].exists \/ _collect_source_articles(u) # Recorded(u)

Compiling(u) == {r \in PageRuns : prun[r].pc \notin PageEnded
                                  /\ u \in {prun[r].user, prun[r].owner}}
Disturbs(us) == disturbed' = disturbed \cup us

(* compile_concept_page up to the LLM call, for the concept row of `owner'.  *)
StartPage(r, u, owner) ==
    /\ prun[r].pc = "idle"
    /\ Cardinality(_collect_source_articles(u)) >= MinSources
    /\ prun' = [prun EXCEPT ![r] = [IdleRun EXCEPT !.pc = "llm", !.user = u, !.owner = owner,
                                       !.sources = _collect_source_articles(u)]]
    /\ Disturbs(IF u # owner \/ Compiling(u) # {} \/ orphan = u THEN {u, owner} ELSE {})
    /\ UNCHANGED <<carries, raw, orphan>> /\ UNCHANGED pageStore

(* maybe_trigger_concept_pages: the concept of the user, when its set of     *)
(* sources changed.                                                          *)
TriggerPage(r, u) ==
    /\ Eligible(u)
    /\ _concept_source_set_changed(u)
    /\ StartPage(r, u, u)

(* _recompile_from_concept selects the Concept by its name alone: the row    *)
(* may be another user's.                                                    *)
RecompilePage(r, u) ==
    /\ row_of[u].exists
    /\ \E owner \in Users : carries[owner] # {} /\ StartPage(r, u, owner)

(* No template, no response, or no valid JSON: None, and nothing is kept.    *)
PageLLMFails(r) ==
    /\ prun[r].pc = "llm"
    /\ prun' = [prun EXCEPT ![r].pc = "done"]
    /\ UNCHANGED <<carries, raw, orphan, disturbed>> /\ UNCHANGED pageStore

(* _find_existing_concept_article, for the compiler's user. *)
FindPage(r) ==
    /\ prun[r].pc = "llm"
    /\ prun' = [prun EXCEPT ![r].pc = "row", ![r].found = row_of[prun[r].user].exists]
    /\ UNCHANGED <<carries, raw, orphan, disturbed>> /\ UNCHANGED pageStore

(* The row is gone (no row matches the UPDATE), or the slug is taken.        *)
RowRefused(r) ==
    LET u == prun[r].user
        v == prun[r].owner
    IN IF prun[r].found THEN ~row_of[u].exists \/ (u # v /\ row_of[v].exists)
       ELSE row_of[v].exists

(* _save_concept_page, first commit: the row gets the owner of the concept   *)
(* and the new source list; the old links and join rows are deleted.         *)
SavePageRow(r) ==
    LET u == prun[r].user
        v == prun[r].owner
    IN
    /\ prun[r].pc = "row"
    /\ IF RowRefused(r)
       THEN /\ prun' = [prun EXCEPT ![r].pc = "failed"]
            /\ UNCHANGED pageStore
       ELSE /\ row_of' = [row_of EXCEPT ![u] = IF u # v /\ prun[r].found THEN Absent ELSE @,
                                    ![v] = [exists |-> TRUE, sources |-> prun[r].sources]]
            /\ joined' = IF prun[r].found THEN [joined EXCEPT ![u] = {}] ELSE joined
            /\ linked' = IF prun[r].found THEN [linked EXCEPT ![u] = {}] ELSE linked
            /\ prun' = [prun EXCEPT ![r].pc = "file"]
            /\ UNCHANGED written
    /\ UNCHANGED <<carries, raw, orphan, disturbed>>

(* _write_concept_file, in the storage of the concept's owner. *)
WritePage(r) ==
    /\ prun[r].pc = "file"
    /\ written' = [written EXCEPT ![prun[r].owner] = prun[r].sources]
    /\ prun' = [prun EXCEPT ![r].pc = "join"]
    /\ UNCHANGED <<carries, raw, orphan, row_of, joined, linked, disturbed>>

(* Second commit: ArticleSource rows that carry article ids, so that every   *)
(* one breaks the foreign key to source.id where it is checked; refused too  *)
(* when another compilation has inserted them.  Then the index and the       *)
(* links, inserted unless they exist.                                        *)
JoinPage(r) ==
    LET v == prun[r].owner IN
    /\ prun[r].pc = "join"
    /\ IF ForeignKeys \/ joined[v] \cap prun[r].sources # {}
       THEN /\ prun' = [prun EXCEPT ![r].pc = "failed"]
            /\ UNCHANGED <<joined, linked>>
       ELSE /\ joined' = [joined EXCEPT ![v] = @ \cup prun[r].sources]
            /\ linked' = [linked EXCEPT ![v] = @ \cup prun[r].sources]
            /\ prun' = [prun EXCEPT ![r].pc = "done"]
    /\ UNCHANGED <<carries, raw, orphan, row_of, written, disturbed>>

(* The worker dies. *)
PageDies(r) ==
    /\ prun[r].pc \notin PageEnded
    /\ prun' = [prun EXCEPT ![r].pc = "dead"]
    /\ Disturbs(IF prun[r].pc = "file" THEN {prun[r].owner} ELSE {})
    /\ UNCHANGED <<carries, raw, orphan>> /\ UNCHANGED pageStore

(* _cleanup_orphaned_concept_pages: a concept page whose file is missing ... *)
SeeOrphan(u) ==
    /\ orphan = NoUser /\ row_of[u].exists /\ written[u] = NoFile
    /\ orphan' = u
    /\ Disturbs(IF Compiling(u) # {} THEN {u} ELSE {})
    /\ UNCHANGED <<carries, raw, prun>> /\ UNCHANGED pageStore

(* ... is deleted with its backlinks and its entry in the search index.  It  *)
(* has no join rows: those are inserted after the file is written.           *)
DeleteOrphan ==
    /\ orphan # NoUser
    /\ row_of' = [row_of EXCEPT ![orphan] = Absent]
    /\ linked' = [linked EXCEPT ![orphan] = {}]
    /\ orphan' = NoUser
    /\ UNCHANGED <<carries, raw, written, joined, prun, disturbed>>

ConceptPagesNext ==
    \/ \E u \in Users, t \in Tagged : UntagSource(u, t) \/ \E b \in BOOLEAN : TagSource(u, t, b)
    \/ \E r \in PageRuns, u \in Users : TriggerPage(r, u) \/ RecompilePage(r, u)
    \/ \E r \in PageRuns : \/ PageLLMFails(r) \/ FindPage(r) \/ SavePageRow(r)
                           \/ WritePage(r) \/ JoinPage(r) \/ PageDies(r)
    \/ \E u \in Users : SeeOrphan(u)
    \/ DeleteOrphan

----------------------------------------------------------------------------
(* The file of a concept page was written from the sources that the next     *)
(* pass compares with (so that "unchanged" means the text is current): when  *)
(* no compilation is under way, two never overlapped and none died between   *)
(* the row's commit and the file.  It holds although the row is committed    *)
(* first, and where the join rows are refused.                               *)
PageMatchesRecord ==
    \A u \in Users \ disturbed :
        row_of[u].exists /\ Compiling(u) = {} => written[u] = Recorded(u)
=============================================================================
