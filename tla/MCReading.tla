----------------------------- MODULE MCReading -----------------------------
(***************************************************************************)
(* Model checking of what is made of texts, concepts and conversations.    *)
(* The components share no state here, so each behaviour runs one of them  *)
(* while the others stay as they started.                                  *)
(***************************************************************************)
EXTENDS Texts, PdfText, Schemas, Taxonomy, Freshness, ConceptPages, Synthesis, Ask, Discussion, TLC

VARIABLE part
readingVars == <<textVars, pdfVars, schemaVars, taxVars, freshVars, pageVars, synVars, askVars, talkVars, part>>

(* Words that fit a chunk, one that does not, and several that do not.      *)
MCShapes == {<<1>>, <<5>>, <<9>>, <<5, 2, 1>>}

(* Two pages that match the query equally well, and one better. *)
MCScore == [m \in Material |-> IF m = CHOOSE x \in Material : TRUE THEN 2 ELSE 1]

(* No claims, one of an unnamed source, and two that more sources back.     *)
MCClaimSets == {<<>>, <<[level |-> "sourced", sources |-> 0]>>,
                <<[level |-> "mixed", sources |-> 5], [level |-> "opinion", sources |-> 2]>>}

ReadingInit ==
    /\ part \in {"texts", "pdf", "schemas", "taxonomy", "freshness", "pages", "synthesis", "ask", "discussion"}
    /\ TextInit /\ (part # "texts" => doc = <<[level |-> 0, paras |-> <<>>]>>)
    /\ PdfInit /\ (part # "pdf" => dense = <<>> /\ placed = <<>>)
    /\ SchemasInit /\ TaxonomyInit /\ FreshInit /\ ConceptPagesInit /\ SynthesisInit
    /\ AskInit /\ DiscussionInit

ReadingNext ==
    /\ \/ part = "texts" /\ TextNext
       \/ part # "texts" /\ UNCHANGED textVars
    /\ \/ part = "pdf" /\ PdfNext
       \/ part # "pdf" /\ UNCHANGED pdfVars
    /\ \/ part = "schemas" /\ SchemasNext
       \/ part # "schemas" /\ UNCHANGED schemaVars
    /\ \/ part = "taxonomy" /\ TaxonomyNext
       \/ part # "taxonomy" /\ UNCHANGED taxVars
    /\ \/ part = "freshness" /\ FreshNext
       \/ part # "freshness" /\ UNCHANGED freshVars
    /\ \/ part = "pages" /\ ConceptPagesNext
       \/ part # "pages" /\ UNCHANGED pageVars
    /\ \/ part = "synthesis" /\ SynthesisNext
       \/ part # "synthesis" /\ UNCHANGED synVars
    /\ \/ part = "ask" /\ AskNext
       \/ part # "ask" /\ UNCHANGED askVars
    /\ \/ part = "discussion" /\ DiscussionNext
       \/ part # "discussion" /\ UNCHANGED talkVars
    /\ UNCHANGED part

ReadingSpec == ReadingInit /\ [][ReadingNext]_readingVars

(* The components' sets share their model values. *)
Symmetry == Permutations(Chats) \cup Permutations(Saves)

----------------------------------------------------------------------------
(* Each component's invariants, looked at while it is the one that runs.     *)

(* ingest/utils.py, ingest/spans.py, services/embedding.py,                  *)
(* ingest/adapters/pdf.py: see SpansLocate, ChunksFit, ChunksKeepText,       *)
(* ReadInOrder and IndexCovers, and for a PDF ExtractKept, DescribedRight    *)
(* and ImagesOnce. Extraction, spans, chunks, the parts compiled and the     *)
(* chunks embedded keep a document's text, in order and within their limits. *)
TextKept ==
    /\ part = "pdf" => PdfTypeOK /\ ExtractKept /\ DescribedRight /\ ImagesOnce
    /\ part = "texts" => TextTypeOK /\ SpansLocate /\ ChunksFit /\ ChunksKeepText /\ ReadInOrder /\ IndexCovers

(* services/compilation_schema.py: see SchemaObeyed.                         *)
SchemaFollowed == part = "schemas" => SchemaTypeOK /\ SchemaObeyed

(* services/taxonomy.py, engine/confidence.py, engine/concept_compiler.py    *)
(* and engine/synthesis_compiler.py: see HierarchySound, CountsTrue,         *)
(* ScoreIsOfClaims, ReinforcedLast, DecayBounded, StaleViewsAgree,           *)
(* PageMatchesRecord, ArticleLimit and SynthesisReadable. What decides which *)
(* pages are made, made again, trusted and shown is true of the rows and     *)
(* files.                                                                    *)
PagesSound ==
    /\ part = "taxonomy" => TaxonomyTypeOK /\ HierarchySound /\ CountsTrue
    /\ part = "freshness" => FreshTypeOK /\ ScoreIsOfClaims /\ ReinforcedLast /\ DecayBounded /\ StaleViewsAgree
    /\ part = "pages" => ConceptPagesTypeOK /\ PageMatchesRecord
    /\ part = "synthesis" => SynthesisTypeOK /\ ArticleLimit /\ SynthesisReadable

(* engine/qa_agent.py, services/query.py, services/crystallization.py and    *)
(* services/discussion.py: see TurnsNumbered, PriorIsThread, QueriesCounted, *)
(* NoEmptyConversation, FileIsThread, MarkedIsFiled, CrystalOnce and         *)
(* ShownInTurn. What is stored of a conversation, counted, filed, and shown  *)
(* to the model is the conversation the user sees.                           *)
ThreadsSound ==
    /\ part = "ask" => /\ AskTypeOK /\ TurnsNumbered /\ PriorIsThread /\ QueriesCounted /\ NoEmptyConversation
                       /\ FileIsThread /\ MarkedIsFiled /\ CrystalOnce
    /\ part = "discussion" => DiscussionTypeOK /\ ShownInTurn
=============================================================================
