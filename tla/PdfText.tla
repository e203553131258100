------------------------------ MODULE PdfText ------------------------------
(***************************************************************************)
(* What a PDF becomes before its text is split (ingest/adapters/pdf.py):   *)
(* the text that docling-serve or fitz extracts, the descriptions a vision *)
(* model adds for pages with little text, batch by batch, and the embedded *)
(* pictures.                                                               *)
(*                                                                         *)
(* An answer of the model is a sequence of sections, each about one page;  *)
(* section 0 stands for words that are about none.  A block of the text is *)
(* the page it is labelled with and the sections it consists of.           *)
(***************************************************************************)
EXTENDS Naturals, Sequences, FiniteSets, SequencesExt, FiniteSetsExt

CONSTANTS MaxPdfPages,      \* bound on pages
          MaxPlaced,        \* bound on places where a picture is embedded
          Pictures,         \* pictures, told apart by xref
          Icons,            \* those smaller than image_min_bytes
          Broad,            \* those more than 2.5 times as wide as high
          MaxImages,        \* image_max_per_pdf
          BatchPages,       \* vision_max_pages_per_batch
          Vision            \* vision_enabled

ASSUME PdfAssumption ==
    /\ BatchPages \in Nat \ {0} /\ MaxImages \in Nat /\ Vision \in BOOLEAN
    /\ Icons \subseteq Pictures /\ Broad \subseteq Pictures

VARIABLES dense,        \* of each page: its text reaches vision_text_threshold
          placed,       \* the embedded pictures in the order of the pages
          step,         \* where the request is
          clean,        \* clean_text, as blocks
          described,    \* descriptions so far, by page
          images,       \* SourceImage rows
          file_path,    \* it is set, with clean_text
          status,       \* Source.status
          strayed       \* history: pages of batches the model did not answer as told to

pdfVars == <<dense, placed, step, clean, described, images, file_path, status, strayed>>

PdfPages == 1 .. MaxPdfPages
Extracts == {<<"docling">>, <<"fitz">>}

PdfInit ==
    /\ dense \in UNION {[1 .. n -> BOOLEAN] : n \in 0 .. MaxPdfPages}
    /\ placed \in UNION {[1 .. n -> Pictures] : n \in 0 .. MaxPlaced}
    /\ step = "extract" /\ clean = <<>> /\ described = <<>> /\ images = <<>>
    /\ file_path = FALSE /\ status = "processing" /\ strayed = {}

----------------------------------------------------------------------------
(* The try around the extraction: docling-serve, or fitz when it does not    *)
(* answer or answers with an error.                                          *)
_extract_via_docling ==
    /\ step = "extract"
    /\ clean' = <<<<"docling">>>>
    /\ step' = "vision"
    /\ UNCHANGED <<dense, placed, described, images, file_path, status, strayed>>

_extract_via_fitz ==
    /\ step = "extract"
    /\ clean' = <<<<"fitz">>>>
    /\ step' = "vision"
    /\ UNCHANGED <<dense, placed, described, images, file_path, status, strayed>>

(* Any other error of the extraction, of rendering or of an answer: the      *)
(* request fails, and its row stays as the first commit left it.             *)
PdfRaises ==
    /\ step \in {"extract", "vision"}
    /\ step' = "raised"
    /\ UNCHANGED <<dense, placed, clean, described, images, file_path, status, strayed>>

_classify_pages == SetToSortSeq({p \in DOMAIN dense : ~dense[p]}, <)

(* _enhance_with_vision: nothing to describe. *)
SkipVision ==
    /\ step = "vision" /\ (~Vision \/ _classify_pages = <<>>)
    /\ step' = "write"
    /\ UNCHANGED <<dense, placed, clean, described, images, file_path, status, strayed>>

Batch ==
    LET from == Cardinality(DOMAIN described) + 1
    IN  SubSeq(_classify_pages, from, Min({from + BatchPages - 1, Len(_classify_pages)}))

(* The sections a model may answer a batch with: as told to; with words      *)
(* before the first marker; without the first page; without any marker.      *)
Answers == IF Batch = <<>> THEN {} ELSE {Batch, <<0>> \o Batch, Tail(Batch), <<0>>}

(* One batch of _describe_images_via_llm: the sections are given to the      *)
(* pages in order; a page for which none is left gets the whole answer.      *)
_describe_images_via_llm(answer) ==
    /\ step = "vision" /\ Vision
    /\ LET Given(p) == LET i == CHOOSE i \in DOMAIN Batch : Batch[i] = p
                       IN  IF i <= Len(answer) THEN {answer[i]} ELSE Range(answer)
       IN  described' = [p \in DOMAIN described \cup Range(Batch) |->
                             IF p \in DOMAIN described THEN described[p] ELSE Given(p)]
    /\ strayed' = IF answer = Batch THEN strayed ELSE strayed \cup Range(Batch)
    /\ UNCHANGED <<dense, placed, step, clean, images, file_path, status>>

(* A provider error in any batch: the text is used as extracted. *)
VisionFails ==
    /\ step = "vision" /\ Vision /\ Batch # <<>>
    /\ described' = <<>>
    /\ step' = "write"
    /\ UNCHANGED <<dense, placed, clean, images, file_path, status, strayed>>

(* The end of _enhance_with_vision: the descriptions are appended by page. *)
_enhance_with_vision ==
    /\ step = "vision" /\ DOMAIN described # {} /\ Batch = <<>>
    /\ clean' = clean \o [i \in DOMAIN _classify_pages |->
                             <<_classify_pages[i], described[_classify_pages[i]]>>]
    /\ step' = "write"
    /\ UNCHANGED <<dense, placed, described, images, file_path, status, strayed>>

WriteClean ==
    /\ step = "write"
    /\ file_path' = TRUE /\ step' = "images"
    /\ UNCHANGED <<dense, placed, clean, described, images, status, strayed>>

WriteCleanFails ==
    /\ step = "write"
    /\ status' = "failed" /\ step' = "raised"
    /\ UNCHANGED <<dense, placed, clean, described, images, file_path, strayed>>

(* _extract_images: each picture once, icons left out, up to the limit, named *)
(* by kind and number.                                                       *)
_extract_images ==
    LET Take(found, x) ==
            LET kind == IF x \in Broad THEN "table" ELSE "figure"
            IN  IF Len(found.rows) >= MaxImages \/ x \in found.seen THEN found
                ELSE [seen |-> found.seen \cup {x},
                      rows |-> IF x \in Icons THEN found.rows
                               ELSE Append(found.rows, [name |-> <<kind, found.n[kind] + 1>>, picture |-> x]),
                      n |-> IF x \in Icons THEN found.n ELSE [found.n EXCEPT ![kind] = @ + 1]]
    IN  FoldLeft(Take, [seen |-> {}, rows |-> <<>>, n |-> [table |-> 0, figure |-> 0]], placed).rows

(* Pictures, spans (see Texts) and the last commit; an error of the first    *)
(* leaves the source without pictures.                                       *)
FinishPdf(ok) ==
    /\ step = "images"
    /\ images' = IF ok THEN _extract_images ELSE <<>>
    /\ step' = "done"
    /\ UNCHANGED <<dense, placed, clean, described, file_path, status, strayed>>

PdfNext ==
    \/ _extract_via_docling \/ _extract_via_fitz \/ PdfRaises
    \/ SkipVision \/ VisionFails \/ _enhance_with_vision
    \/ \E answer \in Answers : _describe_images_via_llm(answer)
    \/ WriteClean \/ WriteCleanFails
    \/ \E ok \in BOOLEAN : FinishPdf(ok)

----------------------------------------------------------------------------
PdfTypeOK ==
    /\ step \in {"extract", "vision", "write", "images", "done", "raised"}
    /\ DOMAIN described \subseteq PdfPages
    /\ status \in {"processing", "failed"} /\ file_path \in BOOLEAN

(* PDFAdapter.ingest: the text stored is the whole extraction of one tool,   *)
(* followed by nothing or by a block for each page with little text, in      *)
(* order, whatever batches fail; and it is stored unless the source failed.  *)
ExtractKept ==
    file_path =>
        /\ clean[1] \in Extracts /\ status = "processing"
        /\ LET labels == [i \in 1 .. Len(clean) - 1 |-> clean[i + 1][1]]
           IN  labels \in {<<>>, _classify_pages}

BatchNo(p) == Cardinality({q \in 1 .. p - 1 : ~dense[q]}) \div BatchPages

(* _describe_images_via_llm: a page's block describes that page, when the    *)
(* model answered its batch as told to, whatever it answered to others; and  *)
(* never a page of another batch.                                            *)
DescribedRight ==
    \A p \in DOMAIN described :
        /\ p \notin strayed => described[p] = {p}
        /\ \A x \in described[p] \ {0} : ~dense[x] /\ BatchNo(x) = BatchNo(p)

(* _extract_images: every picture that is no icon is stored once, under a    *)
(* name of its own, until the limit is reached.                              *)
ImagesOnce ==
    /\ Len(images) <= MaxImages
    /\ \A i, j \in DOMAIN images : i # j => images[i].name # images[j].name /\ images[i].picture # images[j].picture
    /\ step = "done" /\ images # <<>> /\ Len(images) < MaxImages
           => {images[i].picture : i \in DOMAIN images} = Range(placed) \ Icons
=============================================================================
