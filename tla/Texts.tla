------------------------------- MODULE Texts -------------------------------
(***************************************************************************)
(* What becomes of a document's text: the spans claims can cite            *)
(* (ingest/spans.py), the chunks the compiler reads (ingest/utils.py), the *)
(* parts a large document is compiled in (engine/compiler.py) and the      *)
(* overlapping chunks of the vector index (services/embedding.py).         *)
(*                                                                         *)
(* A text is a sequence of numbers: a character of a paragraph is a        *)
(* positive number of its own, white space and heading marks are negative. *)
(* Each behaviour takes one document through all of this.                  *)
(***************************************************************************)
EXTENDS Integers, Sequences, FiniteSets, SequencesExt, FiniteSetsExt

CONSTANTS Shapes,           \* paragraphs, each the sequence of its words' lengths
          MaxSections, MaxParagraphs,   \* bounds on a document
          MaxTokens,        \* max_chunk_tokens (4,000)
          LargeTokens,      \* a longer document is compiled in parts (80,000)
          MaxParts,         \* of its chunks, as many are (10)
          PromptChars,      \* source_text_max_chars (60,000)
          EmbedTokens, OverlapTokens    \* chunk_size_tokens, chunk_overlap_tokens

ASSUME OverlapAssumption == OverlapTokens < EmbedTokens

VARIABLES doc,          \* the sections: level of the heading (0: none) and paragraphs
          spans,        \* SourceSpan rows, in the order they were made
          chunks,       \* NormalizedDocument.chunks
          stage, next,  \* where the compilation is, the next chunk
          read,         \* what the model was given that it gave a result for
          failed,       \* history: some part had no result
          index         \* the article's chunks in the vector index

textVars == <<doc, spans, chunks, stage, next, read, failed, index>>

Space == -1
Newline == -2
Hash == -3
Heading == -10              \* the words of a heading: Heading - its section
Blank == {Space, Newline}

(* Paragraph p of section s as characters: words parted by single spaces.  *)
Paragraph(shape, base) ==
    FoldLeft(LAMBDA t, n : (IF t = <<>> THEN <<>> ELSE Append(t, Space))
                             \o [k \in 1 .. n |-> base + Len(t) + k], <<>>, shape)
Paragraphs(s) == [p \in 1 .. Len(doc[s].paras) |-> Paragraph(doc[s].paras[p], 100 * s + 20 * p)]
Joined(seq, sep) == FoldLeft(LAMBDA t, x : IF t = <<>> THEN x ELSE t \o sep \o x, <<>>, seq)

(* A section's body stands on lines of its own. *)
Body(s) == <<Newline>> \o Joined(Paragraphs(s), <<Newline, Newline>>) \o <<Newline>>
HeadingLine(s) == [k \in 1 .. doc[s].level |-> Hash] \o <<Space, Heading - s>>

(* re.split(r"(#{1,3} .+)"): headings and what is between them, in turn.   *)
Pieces == FlattenSeq([s \in 1 .. Len(doc) |->
              (IF doc[s].level = 0 THEN <<>> ELSE <<[level |-> doc[s].level, name |-> s, text |-> HeadingLine(s)]>>)
                \o <<[level |-> 0, name |-> 0, text |-> Body(s)]>>])

WholeText == FlattenSeq([i \in 1 .. Len(Pieces) |-> Pieces[i].text])
Ink(t) == SelectSeq(t, LAMBDA x : x > 0)
estimate_tokens(t) == Len(t) \div 4

strip(t) ==
    LET ink == {i \in 1 .. Len(t) : t[i] \notin Blank}
    IN  IF ink = {} THEN <<>> ELSE SubSeq(t, Min(ink), Max(ink))

(* re.split(r"\n\n+"): t holds no lone newline inside a paragraph. *)
SplitParagraphs(t) ==
    LET after[pos \in 0 .. Len(t)] ==
            LET ends == {i \in pos + 1 .. Len(t) - 1 : t[i] = Newline /\ t[i + 1] = Newline}
                resume == Min({i \in Min(ends) .. Len(t) : i = Len(t) \/ t[i + 1] \notin Blank})
            IN  IF ends = {} THEN <<SubSeq(t, pos + 1, Len(t))>>
                ELSE <<SubSeq(t, pos + 1, Min(ends) - 1)>> \o after[resume]
    IN  after[0]

----------------------------------------------------------------------------
(* Spans. *)

_split_paragraphs == SelectSeq(FlattenSeq([s \in 1 .. Len(doc) |-> doc[s].paras]), LAMBDA p : p # <<>>)

(* Mutant of extract_text_spans: each paragraph is looked for from the start. *)
FindFromStart(paras) ==
    [i \in DOMAIN paras |-> [place |-> Min({j \in DOMAIN paras : paras[j] = paras[i]}), page |-> 1, text |-> paras[i]]]

(* text_bytes.find(para, search_start): the next paragraph that reads so.    *)
extract_text_spans(paras) ==
    FoldLeft(LAMBDA found, p :
                 LET start == IF found = <<>> THEN 0 ELSE Last(found).place
                     hits == {j \in DOMAIN paras : j > start /\ paras[j] = p}
                 IN  IF hits = {} THEN found
                     ELSE Append(found, [place |-> Min(hits), page |-> 1, text |-> p]),
             <<>>, paras)

(* With the text of each page when it could be read (here a page is a        *)
(* section), else as one page.                                               *)
extract_pdf_spans(paged, paras) ==
    IF paged
    THEN FlattenSeq([s \in 1 .. Len(doc) |->
             [p \in 1 .. Len(doc[s].paras) |-> [place |-> p, page |-> s, text |-> doc[s].paras[p]]]])
    ELSE [p \in DOMAIN paras |-> [place |-> p, page |-> 1, text |-> paras[p]]]

extract_url_spans(paras) == [p \in DOMAIN paras |-> [place |-> p, page |-> 1, text |-> paras[p]]]

----------------------------------------------------------------------------
(* Chunks. *)

MaxChars == 4 * MaxTokens

_split_by_token_window(t) ==
    LET after[pos \in 0 .. Len(t)] ==
            LET full == Min({pos + MaxChars, Len(t)})
                gaps == {i \in pos .. full - 1 : t[i + 1] = Space}
                end == IF full < Len(t) /\ gaps # {} /\ Max(gaps) > pos THEN Max(gaps) ELSE full
                resume == Min({i \in end .. Len(t) : i = Len(t) \/ t[i + 1] # Space})
                content == strip(SubSeq(t, pos + 1, end))
            IN  IF pos = Len(t) THEN <<>>
                ELSE (IF content = <<>> THEN <<>> ELSE <<content>>) \o after[resume]
    IN  after[0]

Sized(t) == IF estimate_tokens(t) > MaxTokens THEN _split_by_token_window(t) ELSE <<t>>

(* Paragraphs are gathered while they fit; a gathering of one that does not *)
(* is cut into windows.                                                     *)
_split_by_paragraphs(t) ==
    LET Add(acc, para) ==
            LET candidate == strip(Joined(Append(acc.cur, para), <<Newline, Newline>>))
            IN  IF estimate_tokens(candidate) > MaxTokens /\ acc.cur # <<>>
                THEN [cur |-> <<para>>, out |-> acc.out \o Sized(strip(Joined(acc.cur, <<Newline, Newline>>)))]
                ELSE [acc EXCEPT !.cur = Append(@, para)]
        all == FoldLeft(Add, [cur |-> <<>>, out |-> <<>>], SplitParagraphs(t))
        rest == strip(Joined(all.cur, <<Newline, Newline>>))
    IN  all.out \o (IF rest = <<>> THEN <<>> ELSE Sized(rest))

(* Each piece in turn: a heading sets the path, a body is gathered, and     *)
(* what is gathered is a chunk once it has max_chunk_tokens.                *)
Gather(acc, piece) ==
    LET path == IF piece.level = 0 THEN acc.path
                ELSE Append(SubSeq(acc.path, 1, Min({piece.level - 1, Len(acc.path)})), piece.name)
        cur == IF piece.level = 0 THEN Append(acc.cur, piece.text) ELSE acc.cur
        content == strip(Joined(cur, <<Newline>>))
    IN  IF estimate_tokens(content) >= MaxTokens /\ content # <<>>
        THEN [path |-> path, cur |-> <<>>, out |-> Append(acc.out, [content |-> content, path |-> path])]
        ELSE [path |-> path, cur |-> cur, out |-> acc.out]

ByHeadings ==
    LET all == FoldLeft(Gather, [path |-> <<>>, cur |-> <<>>, out |-> <<>>], Pieces)
        rest == strip(Joined(all.cur, <<Newline>>))
        out == IF rest = <<>> THEN all.out ELSE Append(all.out, [content |-> rest, path |-> all.path])
    IN  IF out = <<>> THEN <<[content |-> WholeText, path |-> <<>>]>> ELSE out

Resplit(chunk) ==
    IF estimate_tokens(chunk.content) > MaxTokens
    THEN LET sub == _split_by_paragraphs(chunk.content)
         IN  [i \in DOMAIN sub |-> [content |-> sub[i], path |-> chunk.path]]
    ELSE <<chunk>>

chunk_text == FlattenSeq([i \in DOMAIN ByHeadings |-> Resplit(ByHeadings[i])])

----------------------------------------------------------------------------
(* Chunks for the vector index, as sequences of <<paragraph, from, to>>.    *)

HardSplit(i, len) ==
    LET after[start \in 0 .. len] ==
            LET end == start + 4 * EmbedTokens
            IN  IF start = len THEN <<>>
                ELSE <<<<<<i, start + 1, Min({end, len})>>>>>>
                        \o (IF end < len THEN after[end - 4 * OverlapTokens] ELSE <<>>)
    IN  after[0]

chunk_article_text(lens) ==
    LET Tokens(i) == lens[i] \div 4
        Flushed(acc) == IF acc.cur = <<>> THEN acc.out ELSE Append(acc.out, acc.cur)
        Add(acc, i) ==
            IF Tokens(i) > EmbedTokens
            THEN [cur |-> <<>>, tokens |-> 0, out |-> Flushed(acc) \o HardSplit(i, lens[i])]
            ELSE LET full == acc.tokens + Tokens(i) > EmbedTokens /\ acc.cur # <<>>
                     again == full /\ Tokens(Last(acc.cur)[1]) <= OverlapTokens
                     kept == IF again THEN <<Last(acc.cur)>> ELSE IF full THEN <<>> ELSE acc.cur
                     size == IF again THEN Tokens(Last(acc.cur)[1]) ELSE IF full THEN 0 ELSE acc.tokens
                 IN  [cur |-> Append(kept, <<i, 1, lens[i]>>), tokens |-> size + Tokens(i),
                      out |-> IF full THEN Flushed(acc) ELSE acc.out]
    IN  Flushed(FoldLeft(Add, [cur |-> <<>>, tokens |-> 0, out |-> <<>>], [i \in DOMAIN lens |-> i]))

----------------------------------------------------------------------------
Sections == [level : 0 .. 2, paras : UNION {[1 .. n -> Shapes] : n \in 0 .. 2}]
Docs == {d \in UNION {[1 .. n -> Sections] : n \in 1 .. MaxSections} :
            /\ d[1].level = 0 /\ \A s \in 2 .. Len(d) : d[s].level > 0
            /\ FoldLeft(LAMBDA n, s : n + Len(s.paras), 0, d) <= MaxParagraphs}

TextTypeOK ==
    /\ stage \in {"new", "compile", "compiled", "done"} /\ next \in 1 .. MaxParts + 1 /\ failed \in BOOLEAN
    /\ read \in Seq(Nat) /\ \A i \in DOMAIN chunks : Len(chunks[i].path) <= Len(doc)

TextInit ==
    /\ doc \in Docs /\ stage = "new" /\ next = 1
    /\ spans = <<>> /\ chunks = <<>> /\ read = <<>> /\ failed = FALSE /\ index = <<>>

(* An adapter takes the text in. Where spans are made of a web page or of a  *)
(* PDF, failing to is passed over.                                           *)
persist_spans(way) ==
    \/ way = "text" /\ spans' = extract_text_spans(_split_paragraphs)
    \/ way \in {"pdf", "scan"} /\ spans' = extract_pdf_spans(way = "pdf", _split_paragraphs)
    \/ way = "url" /\ spans' = extract_url_spans(_split_paragraphs)
    \/ way # "text" /\ spans' = <<>>

TakeIn(way) ==
    /\ stage = "new" /\ stage' = "compile"
    /\ persist_spans(way)
    /\ chunks' = chunk_text
    /\ UNCHANGED <<doc, next, read, failed, index>>

Large == estimate_tokens(WholeText) > LargeTokens

(* compile: a document that is not large goes into one prompt, as far as     *)
(* PromptChars.                                                              *)
_build_user_prompt(t) == SubSeq(t, 1, Min({PromptChars, Len(t)}))

CompileWhole(ok) ==
    /\ stage = "compile" /\ ~Large
    /\ read' = IF ok THEN Ink(_build_user_prompt(WholeText)) ELSE <<>>
    /\ failed' = ~ok /\ stage' = IF ok THEN "compiled" ELSE "done"
    /\ UNCHANGED <<doc, spans, chunks, next, index>>

(* A large one is compiled chunk by chunk; a part without a result is left   *)
(* out.                                                                      *)
_compile_chunked(ok) ==
    /\ stage = "compile" /\ Large /\ next <= Min({MaxParts, Len(chunks)})
    /\ read' = IF ok THEN read \o Ink(_build_user_prompt(chunks[next].content)) ELSE read
    /\ failed' = (failed \/ ~ok) /\ next' = next + 1
    /\ UNCHANGED <<doc, spans, chunks, stage, index>>

_merge_chunk_results ==
    /\ stage = "compile" /\ Large /\ next > Min({MaxParts, Len(chunks)})
    /\ stage' = IF read = <<>> THEN "done" ELSE "compiled"
    /\ UNCHANGED <<doc, spans, chunks, next, read, failed, index>>

(* The article is embedded, if search is installed and nothing raises; here  *)
(* it has the paragraphs the document had.                                   *)
_try_embed_article ==
    /\ stage = "compiled" /\ stage' = "done"
    /\ \/ UNCHANGED index
       \/ index' = LET paras == FlattenSeq([s \in 1 .. Len(doc) |-> Paragraphs(s)])
                   IN  chunk_article_text([i \in DOMAIN paras |-> Len(paras[i])])
    /\ UNCHANGED <<doc, spans, chunks, next, read, failed>>

TextNext ==
    \/ \E way \in {"text", "pdf", "scan", "url"} : TakeIn(way)
    \/ \E ok \in BOOLEAN : CompileWhole(ok) \/ _compile_chunked(ok)
    \/ _merge_chunk_results \/ _try_embed_article

----------------------------------------------------------------------------
(* extract_text_spans: when a document has spans, every paragraph has one,   *)
(* no two stand at one place, and the text at its place is the span's, also  *)
(* where paragraphs read alike.                                              *)
SpansLocate ==
    spans # <<>> =>
        LET paras == _split_paragraphs
        IN  /\ Len(spans) = Len(paras)
            /\ \A i, j \in DOMAIN spans : i # j => <<spans[i].page, spans[i].place>> # <<spans[j].page, spans[j].place>>
            /\ \A i \in DOMAIN spans :
                  \/ paras[spans[i].place] = spans[i].text
                  \/ spans[i].page <= Len(doc) /\ doc[spans[i].page].paras[spans[i].place] = spans[i].text

(* chunk_text: "no chunk ever exceeds the token limit", whatever the         *)
(* headings, paragraphs and words of the document.                           *)
ChunksFit == \A i \in DOMAIN chunks : estimate_tokens(chunks[i].content) <= MaxTokens

(* chunk_text: the chunks hold every character of every paragraph once, in   *)
(* the order of the document.                                                *)
ChunksKeepText ==
    stage = "compile" => FlattenSeq([i \in DOMAIN chunks |-> Ink(chunks[i].content)]) = Ink(WholeText)

(* compile, _compile_chunked: what the article is made of is the document    *)
(* from its start, in order; all of it up to the prompt's limit or that of   *)
(* parts, when no part failed; and no text twice.                            *)
ReadInOrder ==
    /\ \A i, j \in DOMAIN read : i < j => read[i] < read[j]
    /\ stage = "compiled" /\ ~failed /\ Large =>
          read = FlattenSeq([i \in 1 .. Min({MaxParts, Len(chunks)}) |-> Ink(chunks[i].content)])

(* chunk_article_text: with the overlap, no character of the article is left *)
(* out of the vector index.                                                  *)
IndexCovers ==
    index # <<>> =>
        LET paras == FlattenSeq([s \in 1 .. Len(doc) |-> Paragraphs(s)])
        IN  \A p \in DOMAIN paras, k \in 1 .. 20 :
               k <= Len(paras[p]) =>
                   \E i \in DOMAIN index : \E x \in Range(index[i]) : x[1] = p /\ k \in x[2] .. x[3]
=============================================================================
