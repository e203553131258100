----------------------------- MODULE Synthesis ------------------------------
(***************************************************************************)
(* Synthesis pages (engine/synthesis_compiler.py behind                    *)
(* api/routes/synthesis.py) and the article quota they share with stubs.   *)
(*                                                                         *)
(* check_article_quota takes an advisory lock that PostgreSQL holds until  *)
(* the transaction ends, counts the rows and lets the request go on in the *)
(* same transaction: the lock is released by the request's next commit.    *)
(***************************************************************************)
EXTENDS Naturals, FiniteSets, FiniteSetsExt

CONSTANTS SynthReqs,     \* requests
          Material,      \* the user's source and concept pages
          Score,         \* how well each matches the query (0: not at all)
          MaxSources,    \* compiler.synthesis_max_sources
          MaxArticles,   \* the plan's limit on articles (0: none)
          Nobody

ASSUME SynthesisAssumption ==
    /\ Score \in [Material -> Nat] /\ MaxSources \in Nat /\ MaxArticles \in Nat
    /\ Nobody \notin SynthReqs

VARIABLES created,       \* requests whose Article row is committed
          pathed,        \* those whose row names its file
          onDisk,        \* those whose file is written
          related,       \* those whose concepts, index entry and links are committed
          holder,        \* the request that holds the article lock
          sreq,          \* control state
          unlocked       \* history: synthesize calls that let go of the lock

synVars == <<created, pathed, onDisk, related, holder, sreq, unlocked>>
synStore == <<created, pathed, onDisk, related>>

SynthKinds == {"preview", "refine", "confirm", "synthesize"}
SynthEnded == {"idle", "done", "failed", "dead"}

SynthesisTypeOK ==
    /\ created \subseteq SynthReqs /\ pathed \subseteq SynthReqs
    /\ onDisk \subseteq SynthReqs /\ related \subseteq SynthReqs
    /\ holder \in SynthReqs \cup {Nobody}
    /\ \A r \in SynthReqs : sreq[r].kind \in SynthKinds \cup {"none"}
                            /\ sreq[r].articles \subseteq Material
    /\ unlocked \subseteq SynthReqs

SynthesisInit ==
    /\ created = {} /\ pathed = {} /\ onDisk = {} /\ related = {}
    /\ holder = Nobody
    /\ sreq = [r \in SynthReqs |-> [kind |-> "none", pc |-> "idle", articles |-> {}]]
    /\ unlocked = {}

SynthGoto(r, c) == sreq' = [sreq EXCEPT ![r].pc = c]
SynthAt(r, ks, c) == sreq[r].kind \in ks /\ sreq[r].pc = c

(* A commit, a rollback or the death of the process ends the transaction.    *)
Unlock(r) == holder' = IF holder = r THEN Nobody ELSE holder

(* _find_relevant_articles: those named that exist, or the best matches.     *)
_find_relevant_articles(named) ==
    IF named # {} THEN {named}
    ELSE LET matches == {m \in Material : Score[m] > 0}
             n == IF Cardinality(matches) < MaxSources THEN Cardinality(matches) ELSE MaxSources
         IN {best \in kSubset(n, matches) :
                \A b \in best, m \in matches \ best : Score[b] >= Score[m]}

Find(r, k, named, pc) ==
    \E found \in _find_relevant_articles(named) :
        sreq' = [sreq EXCEPT ![r] = [kind |-> k, articles |-> found,
                    pc |-> IF Cardinality(found) < 2 THEN "failed" ELSE pc]]

(* preview and refine: fewer than two articles is a 422; otherwise one LLM   *)
(* call, and nothing is stored.                                              *)
PreviewSynthesis(r, k, named) ==
    /\ sreq[r].pc = "idle" /\ k \in {"preview", "refine"} /\ named # {}
    /\ Find(r, k, named, "llm")
    /\ UNCHANGED <<holder, unlocked>> /\ UNCHANGED synStore

PreviewAnswers(r) ==
    /\ SynthAt(r, {"preview", "refine"}, "llm")
    /\ SynthGoto(r, "done") \/ SynthGoto(r, "failed")
    /\ UNCHANGED <<holder, unlocked>> /\ UNCHANGED synStore

(* check_article_quota, with the lock; a plan of 0 articles has no limit.    *)
QuotaAllows == MaxArticles = 0 \/ Cardinality(created) < MaxArticles

(* confirm_synthesis and create_synthesis: the quota, then the articles.     *)
BeginSynthesis(r, k, named) ==
    /\ sreq[r].pc = "idle" /\ k \in {"confirm", "synthesize"}
    /\ k = "confirm" => named # {}
    /\ MaxArticles > 0 => holder = Nobody
    /\ IF QuotaAllows
       THEN Find(r, k, named, IF k = "confirm" THEN "row" ELSE "llm")
       ELSE sreq' = [sreq EXCEPT ![r] = [kind |-> k, pc |-> "failed", articles |-> {}]]
    /\ holder' = IF MaxArticles > 0 /\ sreq'[r].pc # "failed" THEN r ELSE holder
    /\ UNCHANGED unlocked /\ UNCHANGED synStore

(* synthesize commits before the LLM call, so that no connection is held     *)
(* while it waits: the lock goes with the transaction.                       *)
CommitBeforeLLM(r) ==
    /\ SynthAt(r, {"synthesize"}, "llm")
    /\ Unlock(r)
    /\ unlocked' = unlocked \cup {r}
    /\ SynthGoto(r, "wait")
    /\ UNCHANGED synStore

(* The call returns a page, or nothing that can be used. *)
SynthesisAnswer(r) ==
    /\ SynthAt(r, {"synthesize"}, "wait")
    /\ SynthGoto(r, "row") \/ SynthGoto(r, "failed")
    /\ UNCHANGED <<holder, unlocked>> /\ UNCHANGED synStore

(* The row is committed with an empty file_path, and the lock released. *)
CreateSynthesisRow(r) ==
    /\ SynthAt(r, {"confirm", "synthesize"}, "row")
    /\ created' = created \cup {r}
    /\ Unlock(r)
    /\ SynthGoto(r, "write")
    /\ UNCHANGED <<pathed, onDisk, related, unlocked>>

(* _write_synthesis_file; storage may refuse. *)
WriteSynthesis(r) ==
    /\ SynthAt(r, {"confirm", "synthesize"}, "write")
    /\ \/ onDisk' = onDisk \cup {r} /\ SynthGoto(r, "path")
       \/ UNCHANGED onDisk /\ SynthGoto(r, "failed")
    /\ UNCHANGED <<created, pathed, related, holder, unlocked>>

(* The row is updated with the path and committed. *)
SetSynthesisPath(r) ==
    /\ SynthAt(r, {"confirm", "synthesize"}, "path")
    /\ pathed' = pathed \cup {r}
    /\ SynthGoto(r, "relate")
    /\ UNCHANGED <<created, onDisk, related, holder, unlocked>>

(* ArticleConcept rows, search index, SYNTHESIZES links: three commits. *)
RelateSynthesis(r) ==
    /\ SynthAt(r, {"confirm", "synthesize"}, "relate")
    /\ related' = related \cup {r}
    /\ SynthGoto(r, "done")
    /\ UNCHANGED <<created, pathed, onDisk, holder, unlocked>>

SynthesisDies(r) ==
    /\ sreq[r].pc \notin SynthEnded
    /\ SynthGoto(r, "dead")
    /\ Unlock(r)
    /\ UNCHANGED unlocked /\ UNCHANGED synStore

SynthesisNext ==
    \E r \in SynthReqs :
        \/ \E k \in SynthKinds, named \in SUBSET Material :
              PreviewSynthesis(r, k, named) \/ BeginSynthesis(r, k, named)
        \/ PreviewAnswers(r) \/ CommitBeforeLLM(r) \/ SynthesisAnswer(r)
        \/ CreateSynthesisRow(r) \/ WriteSynthesis(r) \/ SetSynthesisPath(r)
        \/ RelateSynthesis(r) \/ SynthesisDies(r)

----------------------------------------------------------------------------
(* The plan's article limit holds but for the pages of synthesize calls,     *)
(* which go past the check and let go of its lock to call the LLM: confirmed *)
(* drafts keep the lock until their row is committed.                        *)
ArticleLimit ==
    MaxArticles > 0 => Cardinality(created \ unlocked) <= MaxArticles

(* A page that names its file has it, and what search and the graph show of  *)
(* a page is a page with a file: at every point where the request can die.   *)
SynthesisReadable ==
    pathed \subseteq onDisk /\ related \subseteq pathed
=============================================================================
