------------------------------ MODULE Library ------------------------------
(***************************************************************************)
(* What a reader gets from the wiki: services/wiki.py, search.py, tags.py, *)
(* saved_searches.py, citation.py, wiki_index.py and wiki_export.py over   *)
(* the tables of all users, and the writes that keep tags, links and the   *)
(* search index in step with the articles. An endpoint is an operator on   *)
(* the whole database D and the user who asks. Rows are numbered in the    *)
(* order they are made; SQLite's full-text index is modelled, Postgres     *)
(* computes its own.                                                       *)
(***************************************************************************)
EXTENDS Naturals, Sequences, FiniteSets, SequencesExt, FiniteSetsExt, Functions

CONSTANTS Readers,      \* users
          Profiles,     \* what a compiled article may look like
          Words,        \* words searched for
          TagNames,     \* names of tags
          Relations,    \* relation types of links
          MaxPages,     \* bound on articles
          MaxWrites     \* bound on writes

ASSUME LibraryAssumption ==
    MaxPages \in Nat /\ MaxWrites \in Nat /\ \A f \in Profiles : IsFiniteSet(f.kinds)

VARIABLES page,         \* Article rows, with the words of their files
          link,         \* Backlink rows
          tag, tagged,  \* Tag and ArticleTag rows
          saved,        \* SavedSearch rows
          fts,          \* article_fts rows
          vec,          \* articles embedded in the vector store
          writes,       \* bound
          unindexed     \* history: articles whose file or title changed since they were indexed

libVars == <<page, link, tag, tagged, saved, fts, vec, writes, unindexed>>

Ids == 1 .. MaxPages
D == [page |-> page, link |-> link, tag |-> tag, tagged |-> tagged, saved |-> saved, fts |-> fts, vec |-> vec]

(* The same database without the rows of other users. *)
Only(d, u) ==
    LET mine == {p \in d.page : p.owner = u}
        ids == {p.id : p \in mine}
    IN [page |-> mine, link |-> {l \in d.link : l.owner = u},
        tag |-> {t \in d.tag : t.owner = u}, tagged |-> {x \in d.tagged : x.page \in ids},
        saved |-> {s \in d.saved : s.owner = u},
        fts |-> {f \in d.fts : f.id \in ids}, vec |-> {v \in d.vec : v.owner = u}]

LibraryTypeOK ==
    /\ Cardinality({p.id : p \in page}) = Cardinality(page)
    /\ \A p, q \in page : p.owner = q.owner /\ p.slug = q.slug => p = q
    /\ \A t, s \in tag : t.owner = s.owner /\ t.name = s.name => t = s
    /\ \A x \in tagged : x.tag \in {t.id : t \in tag} /\ x.page \in {p.id : p \in page}
    /\ \A f \in fts : f.id \in {p.id : p \in page}

LibraryInit ==
    /\ page = {} /\ link = {} /\ tag = {} /\ tagged = {} /\ saved = {} /\ fts = {} /\ vec = {}
    /\ writes = 0 /\ unindexed = {}

----------------------------------------------------------------------------
(* Reading articles. *)
Of(d, id) == CHOOSE p \in d.page : p.id = id
Live(d) == {p.id : p \in d.page}

(* queries/articles.py: an article's sources and concepts. *)
fetch_sources(d, p) == p.sources
fetch_concept_names_for_article(d, p) == p.topics

get_tags_for_article(d, id) == {t \in d.tag : \E x \in d.tagged : x.page = id /\ x.tag = t.id}

_build_article_summary(d, p) ==
    [id |-> p.id, slug |-> p.slug, sources |-> fetch_sources(d, p), concepts |-> fetch_concept_names_for_article(d, p),
     backlinks |-> Cardinality({l \in d.link : l.from = p.id}) + Cardinality({l \in d.link : l.to = p.id}),
     tags |-> get_tags_for_article(d, p.id)]

(* list_articles with a filter on concept and page type, and get_concept_articles. *)
list_articles(d, u, topic, kind) ==
    {_build_article_summary(d, p) : p \in {q \in d.page :
        q.owner = u /\ (topic # "any" => topic \in q.topics) /\ (kind # "any" => q.kind = kind)}}

(* Mutant of _resolve_article_id: a slug is looked up among all articles. *)
ResolveAnywhere(d, u, ref) ==
    LET byId == {p.id : p \in {q \in d.page : q.id = ref.id /\ q.owner = u}}
        bySlug == {p.id : p \in {q \in d.page : q.slug = ref.slug}}
    IN IF byId # {} THEN byId ELSE IF bySlug # {} THEN {Min(bySlug)} ELSE {}

(* _resolve_article_id: by id, then by slug, among the user's. *)
_resolve_article_id(d, u, ref) ==
    LET byId == {p.id : p \in {q \in d.page : q.id = ref.id /\ q.owner = u}}
        bySlug == {p.id : p \in {q \in d.page : q.slug = ref.slug /\ q.owner = u}}
    IN IF byId # {} THEN byId ELSE bySlug

Neighbour(d, id, l) == [id |-> id, slug |-> Of(d, id).slug, relation |-> l.relation]

get_article(d, u, ref) ==
    {[id |-> id, slug |-> Of(d, id).slug, sources |-> fetch_sources(d, Of(d, id)), words |-> Of(d, id).words,
      tags |-> get_tags_for_article(d, id),
      in |-> {Neighbour(d, l.from, l) : l \in {k \in d.link : k.to = id /\ k.from \in Live(d)}},
      out |-> {Neighbour(d, l.to, l) : l \in {k \in d.link : k.from = id /\ k.to \in Live(d)}}]
     : id \in _resolve_article_id(d, u, ref)}

get_relationships(d, u, ref) ==
    {[out |-> {Neighbour(d, l.to, l) : l \in {k \in d.link : k.from = id /\ k.to \in Live(d) /\ Of(d, k.to).owner = u}},
      in |-> {Neighbour(d, l.from, l) : l \in {k \in d.link : k.to = id /\ k.from \in Live(d) /\ Of(d, k.from).owner = u}}]
     : id \in _resolve_article_id(d, u, ref)}

get_graph(d, u, relation) ==
    LET edges == {l \in d.link : l.owner = u /\ (relation # "any" => l.relation = relation)} IN
    [nodes |-> {[id |-> p.id, topics |-> p.topics,
                 count |-> Cardinality({l \in edges : l.from = p.id}) + Cardinality({l \in edges : l.to = p.id})]
                : p \in {q \in d.page : q.owner = u}},
     edges |-> edges]

(* get_article_citations and get_article_claims: the claims of an article    *)
(* and the spans of its sources, one of each per source.                     *)
get_article_citations(d, u, ref) ==
    {[article |-> id, claims |-> {[source |-> s, spans |-> {x \in Of(d, id).sources : x = s /\ x.owner = u}]
                                  : s \in {x \in Of(d, id).sources : Of(d, id).owner = u}}]
     : id \in _resolve_article_id(d, u, ref)}

----------------------------------------------------------------------------
(* Wikilinks, when a reader opens a page and when a page is compiled. A      *)
(* title has a lower-case form and a normalised one.                         *)
First(S) == {p \in S : \A q \in S : p.id <= q.id}

process_wikilinks(d, u, text) == First({p \in d.page : p.owner = u /\ p.title.low = text.low})

resolve_wikilinks(d, u, word) == {p.slug : p \in {q \in d.page : q.owner = u /\ word \in q.title.words}}

resolve_backlink_candidates(d, u, text, self) ==
    LET own == {p \in d.page : p.owner = u /\ p.id # self}
        byLower == First({p \in own : p.title.low = text.low})
    IN IF byLower # {} THEN byLower ELSE First({p \in own : p.title.norm = text.norm})

----------------------------------------------------------------------------
(* Searching. Ranks are decided by how often the word occurs: in the title   *)
(* it weighs more.                                                           *)
KeywordScore(p, w) == (IF w \in p.title.words THEN 10 ELSE 0) + (IF w \in p.words THEN 1 ELSE 0)

_keyword_search(d, u, w) ==
    LET hits == {p \in d.page : p.owner = u /\ KeywordScore(p, w) > 0} IN
    [id \in {p.id : p \in hits} |-> KeywordScore(Of(d, id), w)]

(* EmbeddingService.search: chunks of the user's that are near enough. *)
SemanticSearch(d, u, w) == {v \in d.vec : v.owner = u /\ w \in v.words}

(* _merge_hybrid_scores: 0.4 of the keyword score scaled to at most 1, and   *)
(* 0.6 of the best chunk's, here 1 for a hit; in units of a hundredth.       *)
_merge_hybrid_scores(kw, sem) ==
    LET top == Max({kw[id] : id \in DOMAIN kw} \cup {1})
        near == {v.id : v \in sem}
    IN [id \in DOMAIN kw \cup near |->
           (IF id \in DOMAIN kw THEN (40 * kw[id]) \div top ELSE 0) + (IF id \in near THEN 60 ELSE 0)]

(* The ids by score, best first, and the older of two that score the same.   *)
Better(score, a, b) == score[a] > score[b] \/ (score[a] = score[b] /\ a < b)
Ranked(ids, score) ==
    CHOOSE s \in SetToSeqs(ids) : \A i, j \in DOMAIN s : i < j => Better(score, s[i], s[j])

(* The elements of s that are in S, in their order. *)
Keep(s, S) ==
    LET at == {i \in DOMAIN s : s[i] \in S}
        nth(k) == CHOOSE i \in at : Cardinality({j \in at : j <= i}) = k
    IN [k \in 1 .. Cardinality(at) |-> s[nth(k)]]

(* WikiService.search: the merged order; the articles are read by their ids, *)
(* and a vector of one that is gone takes a place and gives no result.       *)
HybridSearch(d, u, w, limit) ==
    LET score == _merge_hybrid_scores(_keyword_search(d, u, w), SemanticSearch(d, u, w))
        ranked == Ranked(DOMAIN score, score)
        ids == SubSeq(ranked, 1, Min({limit, Len(ranked)}))
    IN Keep(ids, {id \in Range(ids) : id \in Live(d)})

(* search_articles on SQLite: rows of the index that match, kept if they are *)
(* the user's articles, best first.                                          *)
search_articles(d, u, w) ==
    LET rows == {f \in d.fts : w \in f.title \/ w \in f.words}
        ids == {p.id : p \in {q \in d.page : q.owner = u}} \cap {f.id : f \in rows}
        row(id) == CHOOSE f \in rows : f.id = id
    IN Ranked(ids, [id \in ids |-> IF w \in row(id).title THEN 5 ELSE 1])

(* _apply_facet_filters, for one filter; several are intersected. A tag is   *)
(* given by its id.                                                          *)
_apply_facet_filters(d, u, ids, facet, v) ==
    CASE facet = "page_type" -> {id \in ids : Of(d, id).owner = u /\ Of(d, id).kind = v}
      [] facet = "source_kind" -> {id \in ids : \E s \in Of(d, id).sources : s.owner = u /\ s.kind = v}
      [] facet = "concept" -> {id \in ids : v \in Of(d, id).topics}
      [] facet = "tag" -> {id \in ids : \E x \in d.tagged : x.page = id /\ x.tag = v}
      [] OTHER -> ids

_facet_page_type(d, u, ids, v) == Cardinality({id \in ids : Of(d, id).owner = u /\ Of(d, id).kind = v})
(* Sources are counted, not articles. *)
_facet_source_kind(d, u, ids, v) ==
    Cardinality({s \in UNION {Of(d, id).sources : id \in ids} : s.owner = u /\ s.kind = v})
_facet_concept(d, ids, v) == Cardinality({id \in ids : v \in Of(d, id).topics})
_facet_tag(d, u, ids, name) ==
    Cardinality({x \in d.tagged : x.page \in ids /\ \E t \in d.tag : t.id = x.tag /\ t.owner = u /\ t.name = name})

Slice(s, offset, limit) == SubSeq(s, offset + 1, Min({offset + limit, Len(s)}))

(* SearchService.search: all matches, filtered, then one page of them. *)
SearchPage(d, u, w, facet, v, offset, limit) ==
    LET found == search_articles(d, u, w)
        kept == _apply_facet_filters(d, u, Range(found), facet, v)
    IN Slice(Keep(found, kept), offset, limit)

(* SavedSearchService.execute: names of tags that do not exist are skipped. *)
execute(d, u, s) ==
    LET known == {t \in d.tag : t.owner = u /\ t.name \in s.tags} IN
    {p.id : p \in {q \in d.page : /\ q.owner = u
                                  /\ s.word # "any" => s.word \in q.title.words
                                  /\ \A t \in known : \E x \in d.tagged : x.page = q.id /\ x.tag = t.id
                                  /\ \A c \in s.topics : c \in q.topics}}

----------------------------------------------------------------------------
(* Catalogues. *)
_group_articles_by_concept(d, S) ==
    [concept |-> [c \in UNION {p.topics : p \in S} |-> {p.slug : p \in {q \in S : c \in q.topics}}],
     uncategorized |-> {p.slug : p \in {q \in S : q.topics = {}}}]

(* _build_index_lines: an article is listed under each of its concepts. *)
_build_index_lines(groups) == (UNION Range(groups.concept)) \cup groups.uncategorized

regenerate_index_md(d, u) == _build_index_lines(_group_articles_by_concept(d, {p \in d.page : p.owner = u}))

(* generate_meta_health_page: counts by type, of which synthesis pages are   *)
(* none, links and articles without any.                                     *)
generate_meta_health_page(d, u) ==
    LET own == {p \in d.page : p.owner = u}
        ids == {p.id : p \in own}
        links == {l \in d.link : l.from \in ids /\ l.to \in ids}
    IN [total |-> Cardinality({p \in own : p.kind # "synthesis"}),
        links |-> Cardinality(links),
        orphans |-> Cardinality({id \in ids : ~\E l \in links : id \in {l.from, l.to}})]

(* export_wiki: a file per title. *)
export_wiki(d, u) ==
    [files |-> {p.title.name : p \in {q \in d.page : q.owner = u}},
     articles |-> {[id |-> p.id, concepts |-> p.topics] : p \in {q \in d.page : q.owner = u}}]

(* Suggestions for synthesis: pairs that share three concepts, that          *)
(* contradict each other, or that share a concept and no source. A pair is   *)
(* suggested for the first reason found.                                     *)
Pairs2(S) == {{a, b} : a, b \in S} \ {{a} : a \in S}
_find_shared_concept_suggestions(d, S) ==
    {s \in Pairs2(S) : \A a, b \in s : a # b => Cardinality(Of(d, a).topics \cap Of(d, b).topics) >= 3}
_find_contradiction_suggestions(d, u) ==
    {{l.from, l.to} : l \in {k \in d.link : k.owner = u /\ k.relation = "contradicts"}}
_has_different_sources(d, a, b) ==
    /\ Of(d, a).sources # {} /\ Of(d, b).sources # {}
    /\ Of(d, a).sources \cap Of(d, b).sources = {}
_find_different_source_suggestions(d, S) ==
    {s \in Pairs2(S) : \A a, b \in s : a # b =>
        Of(d, a).topics \cap Of(d, b).topics # {} /\ _has_different_sources(d, a, b)}

get_synthesis_suggestions(d, u) ==
    LET S == {p.id : p \in {q \in d.page : q.owner = u /\ q.kind # "synthesis"}}
        shared == _find_shared_concept_suggestions(d, S)
        contradiction == _find_contradiction_suggestions(d, u) \ shared
    IN ({"shared"} \X shared) \cup ({"contradiction"} \X contradiction)
        \cup ({"sources"} \X (_find_different_source_suggestions(d, S) \ (shared \cup contradiction)))

----------------------------------------------------------------------------
(* Writes. *)
Write == writes < MaxWrites /\ writes' = writes + 1

(* generate_unique_slug: the title's slug, numbered among the user's own. *)
generate_unique_slug(u, title) ==
    LET used == {p.slug : p \in {q \in page : q.owner = u}}
    IN CHOOSE s \in {<<title.low, n>> : n \in 1 .. MaxPages + 1} :
          s \notin used /\ \A n \in 1 .. s[2] - 1 : <<title.low, n>> \in used

NextId == Max({p.id : p \in page} \cup {v.id : v \in vec} \cup {0}) + 1
Row(u, f) == [id |-> NextId, owner |-> u, title |-> f.title, slug |-> generate_unique_slug(u, f.title), kind |-> f.kind,
              topics |-> f.topics, words |-> f.words, sources |-> {[owner |-> u, kind |-> k] : k \in f.kinds}]
Index(p) == [id |-> p.id, title |-> p.title.words, words |-> p.words]

(* A compilation: the row and its index in one commit, then, if it is        *)
(* installed and works, its vectors.                                         *)
CompilePage(u, f, embedded) ==
    LET p == Row(u, f) IN
    /\ Write /\ p.id \in Ids
    /\ page' = page \cup {p}
    /\ fts' = fts \cup {Index(p)}
    /\ vec' = IF embedded THEN vec \cup {[id |-> p.id, owner |-> u, words |-> p.words]} ELSE vec
    /\ UNCHANGED <<link, tag, tagged, saved, unindexed>>

(* create_stub_article: nothing is indexed. *)
create_stub_article(u, title) ==
    LET p == Row(u, [title |-> title, kind |-> "source", topics |-> {}, words |-> {}, kinds |-> {}]) IN
    /\ Write /\ p.id \in Ids
    /\ page' = page \cup {p}
    /\ unindexed' = unindexed \cup {p.id}
    /\ UNCHANGED <<link, tag, tagged, saved, fts, vec>>

(* edit_article: the file changes and no index follows. *)
EditWords(p, S) ==
    /\ Write
    /\ page' = (page \ {p}) \cup {[p EXCEPT !.words = S]}
    /\ unindexed' = unindexed \cup {p.id}
    /\ UNCHANGED <<link, tag, tagged, saved, fts, vec>>

(* rebuild_fts_index, at start-up. *)
rebuild_fts_index == {Index(p) : p \in page}

RebuildIndex ==
    /\ Write /\ page # {}
    /\ fts' = rebuild_fts_index
    /\ unindexed' = {}
    /\ UNCHANGED <<page, link, tag, tagged, saved, vec>>

(* resolve_backlink_candidates decides what a compiled page links to. *)
AddLink(p, text, relation) ==
    /\ Write
    /\ \E q \in resolve_backlink_candidates(D, p.owner, text, p.id) :
          link' = link \cup {[from |-> p.id, to |-> q.id, relation |-> relation, owner |-> p.owner]}
    /\ UNCHANGED <<page, tag, tagged, saved, fts, vec, unindexed>>

LinksWithout(p) == {l \in link : p.id \notin {l.from, l.to}}

(* _cleanup_orphaned_concept_pages, for a page whose file is gone: links,    *)
(* row and index. A tagged page is refused by its foreign key.               *)
RemovePage(p) ==
    /\ Write /\ p.kind = "concept" /\ ~\E x \in tagged : x.page = p.id
    /\ page' = page \ {p}
    /\ link' = LinksWithout(p)
    /\ fts' = {f \in fts : f.id # p.id}
    /\ unindexed' = unindexed \ {p.id}
    /\ UNCHANGED <<tag, tagged, saved, vec>>

create_tag(u, name) ==
    /\ Write
    /\ ~\E t \in tag : t.owner = u /\ t.name = name
    /\ tag' = tag \cup {[id |-> Max({t.id : t \in tag} \cup {0}) + 1, owner |-> u, name |-> name]}
    /\ UNCHANGED <<page, link, tagged, saved, fts, vec, unindexed>>

_get_tag(u) == {t \in tag : t.owner = u}
_get_article(u) == {p \in page : p.owner = u}

tag_article(u, t, p) ==
    /\ Write /\ t \in _get_tag(u) /\ p \in _get_article(u)
    /\ tagged' = tagged \cup {[page |-> p.id, tag |-> t.id]}
    /\ UNCHANGED <<page, link, tag, saved, fts, vec, unindexed>>

untag_article(u, t, x) ==
    /\ Write /\ t \in _get_tag(u) /\ x.tag = t.id
    /\ tagged' = tagged \ {x}
    /\ UNCHANGED <<page, link, tag, saved, fts, vec, unindexed>>

delete_tag(u, t) ==
    /\ Write /\ t \in _get_tag(u)
    /\ tagged' = {x \in tagged : x.tag # t.id}
    /\ tag' = tag \ {t}
    /\ UNCHANGED <<page, link, saved, fts, vec, unindexed>>

SaveSearch(u, w, tags) ==
    /\ Write
    /\ saved' = saved \cup {[owner |-> u, word |-> w, tags |-> tags, topics |-> {}]}
    /\ UNCHANGED <<page, link, tag, tagged, fts, vec, unindexed>>

DeleteSearch(s) ==
    /\ Write
    /\ saved' = saved \ {s}
    /\ UNCHANGED <<page, link, tag, tagged, fts, vec, unindexed>>

LibraryNext ==
    \/ \E u \in Readers :
          \/ \E f \in Profiles, embedded \in BOOLEAN : CompilePage(u, f, embedded)
          \/ \E f \in Profiles : create_stub_article(u, f.title)
          \/ \E name \in TagNames : create_tag(u, name)
          \/ \E t \in tag, p \in page : tag_article(u, t, p)
          \/ \E t \in tag, x \in tagged : untag_article(u, t, x)
          \/ \E t \in tag : delete_tag(u, t)
          \/ \E w \in Words, tags \in SUBSET TagNames : SaveSearch(u, w, tags)
    \/ \E p \in page, S \in SUBSET Words : EditWords(p, S)
    \/ \E p \in page, f \in Profiles, r \in Relations : AddLink(p, f.title, r)
    \/ \E p \in page : RemovePage(p)
    \/ \E s \in saved : DeleteSearch(s)
    \/ RebuildIndex

----------------------------------------------------------------------------
Refs == {[id |-> i, slug |-> s] : i \in Ids, s \in {p.slug : p \in page}}

(* Every answer depends on the user's own rows only: it is the one a         *)
(* database without all other users would give.                              *)
OwnViewOnly ==
    \A u \in Readers :
        LET own == Only(D, u) IN
        /\ list_articles(D, u, "any", "any") = list_articles(own, u, "any", "any")
        /\ \A ref \in Refs :
              /\ get_article(D, u, ref) = get_article(own, u, ref)
              /\ get_relationships(D, u, ref) = get_relationships(own, u, ref)
              /\ get_article_citations(D, u, ref) = get_article_citations(own, u, ref)
        /\ get_graph(D, u, "any") = get_graph(own, u, "any")
        /\ \A f \in Profiles : process_wikilinks(D, u, f.title) = process_wikilinks(own, u, f.title)
        /\ \A w \in Words :
              /\ HybridSearch(D, u, w, 2) = HybridSearch(own, u, w, 2)
              /\ search_articles(D, u, w) = search_articles(own, u, w)
              /\ resolve_wikilinks(D, u, w) = resolve_wikilinks(own, u, w)
        /\ \A s \in saved : s.owner = u => execute(D, u, s) = execute(own, u, s)
        /\ regenerate_index_md(D, u) = regenerate_index_md(own, u)
        /\ generate_meta_health_page(D, u) = generate_meta_health_page(own, u)
        /\ export_wiki(D, u) = export_wiki(own, u)
        /\ get_synthesis_suggestions(D, u) = get_synthesis_suggestions(own, u)

Kinds3 == {"source", "concept", "synthesis"}

(* The number shown beside a facet is the number of articles choosing it     *)
(* leaves; kinds of sources count sources, and are shown just when choosing  *)
(* them leaves an article.                                                   *)
FacetsAgree ==
    \A u \in Readers, w \in Words :
        LET ids == Range(search_articles(D, u, w))
            left(facet, v) == Cardinality(_apply_facet_filters(D, u, ids, facet, v))
        IN /\ \A k \in Kinds3 : _facet_page_type(D, u, ids, k) = left("page_type", k)
           /\ \A c \in UNION {p.topics : p \in page} : _facet_concept(D, ids, c) = left("concept", c)
           /\ \A t \in tag : t.owner = u => _facet_tag(D, u, ids, t.name) = left("tag", t.id)
           /\ \A k \in UNION {f.kinds : f \in Profiles} :
                 _facet_source_kind(D, u, ids, k) > 0 <=> left("source_kind", k) > 0

(* Search finds an article just when its title or its file has the word,     *)
(* unless it was edited by hand or made as a stub since the last rebuild.    *)
FoundIsThere ==
    \A u \in Readers, w \in Words :
        Range(search_articles(D, u, w)) \ unindexed
            = {p.id : p \in {q \in page : q.owner = u /\ KeywordScore(q, w) > 0}} \ unindexed

(* Pages of results put together are the results, none twice or missing,    *)
(* and no page before the last is short.                                     *)
PagesCoverResults ==
    \A u \in Readers, w \in Words, k \in Kinds3 \cup {"any"} :
        LET facet == IF k = "any" THEN "none" ELSE "page_type"
            full == SearchPage(D, u, w, facet, k, 0, MaxPages)
        IN \A i \in Ids : SearchPage(D, u, w, facet, k, i - 1, 1) = IF i <= Len(full) THEN <<full[i]>> ELSE <<>>

(* Both ends of every edge of the graph are nodes of it. *)
GraphClosed ==
    \A u \in Readers :
        LET g == get_graph(D, u, "any")
            ids == {n.id : n \in g.nodes}
        IN \A l \in g.edges : l.from \in ids /\ l.to \in ids

(* No pair of articles is suggested for synthesis twice. *)
SuggestedOnce ==
    \A u \in Readers : \A a, b \in get_synthesis_suggestions(D, u) : a[2] = b[2] => a = b

(* The index page lists every article of the user. *)
IndexListsAll == \A u \in Readers : regenerate_index_md(D, u) = {p.slug : p \in {q \in page : q.owner = u}}

(* A link that opens for the reader was resolved to the same article when    *)
(* the page was compiled, unless it would have led to the page itself.       *)
ResolversAgree ==
    \A p \in page, f \in Profiles :
        LET read == process_wikilinks(D, p.owner, f.title)
            made == resolve_backlink_candidates(D, p.owner, f.title, p.id)
        IN read # {} /\ read # {p} => read = made
=============================================================================
