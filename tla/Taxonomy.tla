------------------------------ MODULE Taxonomy ------------------------------
(***************************************************************************)
(* services/taxonomy.py: the Concept rows of one user.  Each saved article *)
(* upserts its concepts, recounts the articles of every concept and, when  *)
(* too many concepts have no parent, has an LLM propose a hierarchy that   *)
(* is validated and written over the parents.                              *)
(*                                                                         *)
(* A rebuild loads the rows, waits for the LLM and then writes: the ORM    *)
(* writes a row's parent only where it differs from the one it loaded.     *)
(***************************************************************************)
EXTENDS Naturals, FiniteSets, Functions

CONSTANTS Names,        \* normalised concept names
          Saves,        \* saves of compiled source pages
          Rebuilds,     \* rebuild requests (POST /concepts/rebuild, and after a save)
          MaxDepth,     \* taxonomy.max_hierarchy_depth
          Threshold,    \* taxonomy.rebuild_threshold
          Root          \* no parent

ASSUME TaxonomyAssumption ==
    MaxDepth \in Nat /\ Threshold \in Nat /\ Root \notin Names /\ IsFiniteSet(Names)

VARIABLES concept,      \* the names that have a row
          parent,       \* Concept.parent_id
          counts,       \* Concept.article_count
          tags,         \* ArticleConcept rows of source pages, per name
          rebuilding,   \* control state of each rebuild
          save,         \* control state of each save's side effects
          overlap,      \* history: two rebuilds were under way at once
          tangled       \* history: two saves were

taxVars == <<concept, parent, counts, tags, rebuilding, save, overlap, tangled>>

(* Bound: articles that carry one name. *)
MaxTags == 2

NotStarted == [pc |-> "idle", loaded |-> [n \in {} |-> Root], answer |-> {}]

TaxonomyTypeOK ==
    /\ concept \subseteq Names
    /\ parent \in [Names -> Names \cup {Root}]
    /\ counts \in [Names -> 0 .. MaxTags]
    /\ tags \in [Names -> 0 .. MaxTags]
    /\ \A r \in Rebuilds : rebuilding[r].pc \in {"idle", "llm", "done"}
    /\ \A s \in Saves : save[s].pc \in {"idle", "upsert", "count", "write", "done"}
    /\ overlap \in BOOLEAN /\ tangled \in BOOLEAN

TaxonomyInit ==
    /\ concept = {}
    /\ parent = [n \in Names |-> Root]
    /\ counts = [n \in Names |-> 0]
    /\ tags = [n \in Names |-> 0]
    /\ rebuilding = [r \in Rebuilds |-> NotStarted]
    /\ save = [s \in Saves |-> [pc |-> "idle", names |-> {}, read |-> counts]]
    /\ overlap = FALSE /\ tangled = FALSE

----------------------------------------------------------------------------
(* The join rows of a page are committed with its concepts: a new page, or a *)
(* build that replaces those of an old one.                                  *)
SavePage(s, old, new) ==
    /\ save[s].pc = "idle"
    /\ old \in {Root} \cup {n \in Names : tags[n] > 0}
    /\ \A n \in new : tags[n] < MaxTags
    /\ tags' = [n \in Names |-> tags[n] + (IF n \in new THEN 1 ELSE 0)
                                       - (IF n = old THEN 1 ELSE 0)]
    /\ save' = [save EXCEPT ![s] = [pc |-> "upsert", names |-> new, read |-> counts]]
    /\ tangled' = (tangled \/ \E o \in Saves \ {s} : save[o].pc \notin {"idle", "done"})
    /\ UNCHANGED <<concept, parent, counts, rebuilding, overlap>>

(* upsert_concepts: one INSERT ... ON CONFLICT DO NOTHING per name, so that  *)
(* two saves of one name make one row; existing rows keep their parent.      *)
upsert_concepts(s) ==
    /\ save[s].pc = "upsert"
    /\ concept' = concept \cup save[s].names
    /\ save' = [save EXCEPT ![s].pc = "count"]
    /\ UNCHANGED <<parent, counts, tags, rebuilding, overlap, tangled>>

(* update_article_counts: the join table is read into a dictionary ...       *)
ReadCounts(s) ==
    /\ save[s].pc = "count"
    /\ save' = [save EXCEPT ![s].pc = "write", ![s].read = tags]
    /\ UNCHANGED <<concept, parent, counts, tags, rebuilding, overlap, tangled>>

(* ... and every Concept row of the user is loaded and set from it.          *)
update_article_counts(s) ==
    /\ save[s].pc = "write"
    /\ counts' = [n \in Names |-> IF n \in concept THEN save[s].read[n] ELSE counts[n]]
    /\ save' = [save EXCEPT ![s].pc = "done"]
    /\ UNCHANGED <<concept, parent, tags, rebuilding, overlap, tangled>>

----------------------------------------------------------------------------
(* maybe_trigger_taxonomy_rebuild *)
Unparented == {n \in concept : parent[n] = Root}
maybe_trigger_taxonomy_rebuild == Cardinality(Unparented) >= Threshold

(* rebuild_taxonomy up to the LLM call. *)
LoadConcepts(r, requested) ==
    /\ rebuilding[r].pc = "idle"
    /\ requested \/ maybe_trigger_taxonomy_rebuild
    /\ concept # {}
    /\ rebuilding' = [rebuilding EXCEPT ![r] =
           [pc |-> "llm", loaded |-> Restrict(parent, concept), answer |-> {}]]
    /\ overlap' = (overlap \/ \E o \in Rebuilds \ {r} : rebuilding[o].pc = "llm")
    /\ UNCHANGED <<concept, parent, counts, tags, save, tangled>>

(* _build_parent_mapping: of the answer's entries (name, parent), those with *)
(* a known name; an unknown parent is none.                                  *)
_build_parent_mapping(entries, known) ==
    [n \in DOMAIN entries \cap known |->
        IF entries[n] \in known THEN entries[n] ELSE Root]

Up(mapping, n) == IF n \in DOMAIN mapping THEN mapping[n] ELSE Root

(* The names on the way up from n, in at most as many steps as there are.    *)
WayUp(up, n) ==
    LET step[k \in 0 .. Cardinality(Names) + 1] ==
            IF k = 0 THEN n
            ELSE IF step[k - 1] = Root THEN Root ELSE up[step[k - 1]]
    IN step

Climb(mapping, n) == WayUp([x \in Names |-> Up(mapping, x)], n)

(* _has_cycles: some walk comes back to a name it has visited.               *)
_has_cycles(mapping) ==
    \E n \in DOMAIN mapping :
        LET walk == Climb(mapping, n)
        IN \E i, j \in DOMAIN walk : i < j /\ walk[i] = walk[j] /\ walk[i] # Root

(* _exceeds_max_depth: more than max_depth names on some way up. *)
_exceeds_max_depth(mapping, depth) ==
    \E n \in DOMAIN mapping :
        LET walk == Climb(mapping, n)
        IN Cardinality({i \in DOMAIN walk : walk[i] # Root}) > depth

(* Mutant of _apply_parent_mapping: a name without a parent keeps its old one. *)
KeepParent(mapping, loaded) ==
    [n \in Names |->
        IF n \in DOMAIN loaded /\ Up(mapping, n) \notin {Root, loaded[n]} THEN Up(mapping, n)
        ELSE parent[n]]

(* _apply_parent_mapping and the commit: every loaded row gets its parent of *)
(* the mapping, or none; a row whose parent was loaded so is not written.    *)
_apply_parent_mapping(mapping, loaded) ==
    [n \in Names |->
        IF n \in DOMAIN loaded /\ Up(mapping, n) # loaded[n] THEN Up(mapping, n)
        ELSE parent[n]]

(* The answer is validated and applied, or dropped: no answer, not a list,   *)
(* a cycle, or too deep.  A name it leaves out is one without a parent.      *)
ApplyRebuild(r) ==
    /\ rebuilding[r].pc = "llm"
    /\ LET loaded == rebuilding[r].loaded
           answers == {_build_parent_mapping(entries, DOMAIN loaded) : entries \in [Names -> Names \cup {Root}]}
           sound == {m \in answers : ~_has_cycles(m) /\ ~_exceeds_max_depth(m, MaxDepth)}
       IN  parent' \in {parent} \cup {_apply_parent_mapping(m, loaded) : m \in sound}
    /\ rebuilding' = [rebuilding EXCEPT ![r] = [NotStarted EXCEPT !.pc = "done"]]
    /\ UNCHANGED <<concept, counts, tags, save, overlap, tangled>>

TaxonomyNext ==
    \/ \E s \in Saves : \/ \E old \in Names \cup {Root}, new \in SUBSET Names : SavePage(s, old, new)
                        \/ upsert_concepts(s) \/ ReadCounts(s) \/ update_article_counts(s)
    \/ \E r \in Rebuilds, requested \in BOOLEAN : LoadConcepts(r, requested)
    \/ \E r \in Rebuilds : ApplyRebuild(r)

----------------------------------------------------------------------------
(* The stored hierarchy is a forest of bounded depth over existing concepts, *)
(* which every reader that walks parent_id relies on; each rebuild validates *)
(* only its own answer, so this needs rebuilds that do not overlap: two that *)
(* do may each write half of a cycle.                                        *)
HierarchySound ==
    ~overlap =>
        LET stored == Restrict(parent, concept) IN
        /\ ~\E n \in concept : LET walk == Climb(stored, n) IN
               \E i, j \in DOMAIN walk : i < j /\ walk[i] = walk[j] /\ walk[i] # Root
        /\ \A n \in concept : \* at most MaxDepth names on the way up
               LET walk == Climb(stored, n)
               IN Cardinality({i \in DOMAIN walk : walk[i] # Root}) <=
                      (IF MaxDepth = 0 THEN 1 ELSE MaxDepth)
        /\ \A n \in Names \ concept : parent[n] = Root
        /\ \A n \in concept : parent[n] \in concept \cup {Root}

(* The counts that decide which concepts get a page are those of the join    *)
(* table, also after a page was recompiled into other concepts: once no save *)
(* is under way, and if none read the table before another changed it.       *)
CountsTrue ==
    ~tangled /\ (\A s \in Saves : save[s].pc \in {"idle", "done"})
        => \A n \in concept : counts[n] = tags[n]
=============================================================================
