-------------------------------- MODULE Ask --------------------------------
(***************************************************************************)
(* Questions and conversations: engine/qa_agent.py, services/query.py and  *)
(* services/crystallization.py with the query quota. A request is one      *)
(* database transaction (a stream is two), and what it writes is seen by   *)
(* the others when it commits; files are seen at once. Requests are        *)
(* numbered in the order they arrive.                                      *)
(***************************************************************************)
EXTENDS Naturals, Sequences, FiniteSets, SequencesExt, FiniteSetsExt

CONSTANTS Chats,        \* ids of conversations
          MaxRequests,  \* bound on requests
          MaxQueries,   \* Plan.max_queries_per_day; 0 is none
          MaxPrior      \* qa.max_prior_turns_in_context

ASSUME AskAssumption ==
    MaxRequests \in Nat /\ MaxQueries \in Nat /\ MaxPrior \in Nat /\ "none" \notin Chats

VARIABLES conv,         \* committed conversations
          turns,        \* committed queries of each conversation
          count,        \* query_count of the day
          quota,        \* who has the query_count row locked
          row,          \* who has each conversation row locked
          slot,         \* who has inserted the answer article, uncommitted
          answer,       \* answer article of the conversation is committed
          file,         \* turns in the file of the conversation's article
          synth,        \* committed articles crystallized from each conversation
          picked,       \* committed articles of selected turns
          req,          \* requests
          met,          \* history: conversations two questions were put to at once
          raced,        \* history: conversations whose filings overlapped or failed half-way
          twin,         \* history: conversations two crystallizations of which overlapped
          early,        \* history: conversations forked past the end of their parent
          cut,          \* history: streams that ended between their two commits
          floor         \* history: turns there were when the last filing began

askVars == <<conv, turns, count, quota, row, slot, answer, file, synth, picked, req,
             met, raced, twin, early, cut, floor>>

Requests == 1 .. MaxRequests
NoOne == 0
Unmarked == 0
Thread == MaxRequests + 1   \* the mark of a turn filed with its whole conversation
NoConv == [live |-> FALSE, parent |-> "none", at |-> 0, filed |-> FALSE, crystal |-> FALSE]
Idle == [pc |-> "idle", kind |-> "none", chat |-> "none", new |-> FALSE, filed |-> FALSE, conv |-> NoConv,
         index |-> 0, prior |-> <<>>, seen |-> <<>>, content |-> {}, begin |-> {}, wrote |-> FALSE]

Ended == {"done", "refused", "failed"}

AskTypeOK ==
    /\ \A c \in Chats : conv[c].live \in BOOLEAN /\ conv[c].at \in Nat
    /\ \A c \in Chats : turns[c] \subseteq [by : Requests, index : Nat, mark : {Unmarked, Thread} \cup Requests]
    /\ count \in 0 .. MaxRequests
    /\ quota # NoOne => req[quota].pc \notin Ended
    /\ \A c \in Chats : row[c] # NoOne => req[row[c]].pc \notin Ended
    /\ \A r \in Requests : req[r].pc \in {"idle", "llm", "cost", "persist", "flush", "write", "article",
                                          "commit", "distil", "done", "refused", "failed"}

AskInit ==
    /\ conv = [c \in Chats |-> NoConv]
    /\ turns = [c \in Chats |-> {}]
    /\ count = 0 /\ quota = NoOne
    /\ row = [c \in Chats |-> NoOne] /\ slot = [c \in Chats |-> NoOne]
    /\ answer = [c \in Chats |-> FALSE]
    /\ file = [c \in Chats |-> {}]
    /\ synth = [c \in Chats |-> {}] /\ picked = {}
    /\ req = [r \in Requests |-> Idle]
    /\ met = {} /\ raced = {} /\ twin = {} /\ early = {} /\ cut = {}
    /\ floor = [c \in Chats |-> {}]

Open(c, kinds) == {r \in Requests : req[r].chat = c /\ req[r].kind \in kinds /\ req[r].pc \notin Ended}
Questions == {"ask", "stream", "fork"}
Arrives(r) == req[r].pc = "idle" /\ (r > 1 => req[r - 1].pc # "idle")
Unused(c) == ~conv[c].live /\ Open(c, Questions) = {}

----------------------------------------------------------------------------
(* ORDER BY turn_index: turns of one index come in any order. *)
ByIndex(S) == CHOOSE s \in SetToSeqs(S) : \A i, j \in DOMAIN s : i < j => s[i].index <= s[j].index
Before(c, n) == ByIndex({t \in turns[c] : t.index < n})

(* The turns a fork shares with its ancestors, up to n of them, oldest      *)
(* first; each was made by a request, so MaxRequests are all.                *)
Shared[n \in 0 .. MaxRequests] ==
    [c \in Chats |-> IF conv[c].parent = "none" \/ n = 0 THEN <<>>
                     ELSE Shared[n - 1][conv[c].parent] \o Before(conv[c].parent, conv[c].at)]

(* Mutant of _materialize_thread: all turns of the parents, not only those   *)
(* before the fork.                                                          *)
WholeParents(c) ==
    (IF conv[c].parent = "none" THEN <<>> ELSE ByIndex(turns[conv[c].parent])) \o ByIndex(turns[c])

(* _materialize_thread and the turns get_conversation returns. *)
_materialize_thread(c) == Shared[MaxRequests][c] \o ByIndex(turns[c])

_next_turn_index(c) == IF turns[c] = {} THEN 0 ELSE Max({t.index : t \in turns[c]}) + 1

LastOf(s, n) == SubSeq(s, (IF Len(s) > n THEN Len(s) - n + 1 ELSE 1), Len(s))

(* Mutant of _load_prior_turns: a fork is read without its ancestors. *)
OwnTurns(k, c, n) == LastOf(Before(c, n), MaxPrior)

(* _load_prior_turns, for a conversation record k that may be uncommitted:   *)
(* the last turns of a fork's whole thread, or, read backwards, of a         *)
(* conversation's own.                                                       *)
_load_prior_turns(k, c, n) ==
    IF k.parent # "none"
    THEN LastOf(Shared[MaxRequests][k.parent] \o Before(k.parent, k.at) \o Before(c, n), MaxPrior)
    ELSE LET back == Reverse(Before(c, n)) IN Reverse(SubSeq(back, 1, IF Len(back) < MaxPrior THEN Len(back) ELSE MaxPrior))

----------------------------------------------------------------------------
(* check_query_quota: the day's row is locked until the transaction ends,    *)
(* its count read and, uncommitted, incremented.                             *)
check_query_quota(r) ==
    IF MaxQueries = 0 THEN UNCHANGED quota /\ req'[r].pc = "llm"
    ELSE /\ quota = NoOne
         /\ IF count >= MaxQueries THEN UNCHANGED quota /\ req'[r].pc = "refused"
            ELSE quota' = r /\ req'[r].pc = "llm"

(* _get_or_create_conversation and _prepare_context, for a request whose     *)
(* conversation c is new with record k, or exists.                           *)
_prepare_context(r, kind, c, k, new) ==
    \E pc \in {"llm", "refused"} :
    LET index == IF new /\ kind # "fork" THEN 0 ELSE _next_turn_index(c)
        asked == [Idle EXCEPT !.pc = pc, !.kind = kind, !.chat = c, !.new = new, !.conv = k,
                    !.filed = k.filed, !.index = index,
                    !.prior = IF new /\ kind # "fork" THEN <<>> ELSE _load_prior_turns(k, c, index),
                    !.seen = IF k.parent = "none" THEN ByIndex(turns[c])
                             ELSE Shared[MaxRequests][k.parent] \o Before(k.parent, k.at) \o ByIndex(turns[c])]
    IN /\ req' = [req EXCEPT ![r] = asked]
       /\ met' = IF pc = "llm" /\ Open(c, Questions) # {} THEN met \cup {c} ELSE met

(* POST /query and /query/stream. *)
AskStart(r, kind, c) ==
    /\ Arrives(r)
    /\ kind \in {"ask", "stream"}
    /\ conv[c].live \/ Unused(c)
    /\ _prepare_context(r, kind, c, IF conv[c].live THEN conv[c] ELSE [NoConv EXCEPT !.live = TRUE], ~conv[c].live)
    /\ check_query_quota(r)
    /\ UNCHANGED <<conv, turns, count, row, slot, answer, file, synth, picked, raced, twin, early, cut, floor>>

(* fork_conversation: the index is only checked not to be negative, and no   *)
(* quota applies.                                                            *)
fork_conversation(r, c, parent, at) ==
    /\ Arrives(r)
    /\ Unused(c) /\ conv[parent].live
    /\ LET k == [NoConv EXCEPT !.live = TRUE, !.parent = parent, !.at = at] IN
       _prepare_context(r, "fork", c, k, TRUE)
    /\ req'[r].pc = "llm"
    /\ early' = IF at > _next_turn_index(parent) THEN early \cup {c} ELSE early
    /\ UNCHANGED <<conv, turns, count, quota, row, slot, answer, file, synth, picked, raced, twin, cut, floor>>

Release(r) ==
    /\ quota' = IF quota = r THEN NoOne ELSE quota
    /\ row' = [c \in Chats |-> IF row[c] = r THEN NoOne ELSE row[c]]
    /\ slot' = [c \in Chats |-> IF slot[c] = r THEN NoOne ELSE slot[c]]

(* A request that raises, is cancelled or dies is rolled back; a file it     *)
(* wrote stays. Postgres also ends one of two requests that wait for each    *)
(* other.                                                                    *)
Rollback(r) ==
    /\ req[r].pc \notin Ended \cup {"idle"}
    /\ req' = [req EXCEPT ![r].pc = "failed"]
    /\ Release(r)
    /\ raced' = IF req[r].wrote THEN raced \cup {req[r].chat} ELSE raced
    /\ cut' = IF req[r].kind = "stream" /\ ~req[r].new /\ req[r].pc # "llm" THEN cut \cup {r} ELSE cut
    /\ UNCHANGED <<conv, turns, count, answer, file, synth, picked, met, twin, early, floor>>

(* The model answers, or there is nothing to answer from, or the answer      *)
(* cannot be parsed and a fixed one is stored: the turn is persisted, and    *)
(* filed if the request asks for it or it is long and well sourced.          *)
_query_llm(r, filing) ==
    /\ req[r].pc = "llm" /\ req[r].kind \in Questions
    /\ req' = [req EXCEPT ![r].pc = IF filing THEN "flush" ELSE "persist"]
    /\ UNCHANGED <<conv, turns, count, quota, row, slot, answer, file, synth, picked,
                   met, raced, twin, early, cut, floor>>

(* answer_stream commits the cost of the call: the new conversation and the  *)
(* quota's increment with it.                                                *)
answer_stream(r) ==
    /\ req[r].pc = "llm" /\ req[r].kind = "stream"
    /\ conv' = [conv EXCEPT ![req[r].chat] = IF req[r].new THEN req[r].conv ELSE @]
    /\ count' = IF quota = r THEN count + 1 ELSE count
    /\ Release(r)
    /\ \E filing \in BOOLEAN :
          req' = [req EXCEPT ![r].pc = IF filing THEN "flush" ELSE "persist", ![r].new = FALSE]
    /\ UNCHANGED <<turns, answer, file, synth, picked, met, raced, twin, early, cut, floor>>

Mine(r, mark) == [by |-> r, index |-> req[r].index, mark |-> mark]

Commit(r, mark, filed) ==
    LET c == req[r].chat
        k == IF req[r].new THEN req[r].conv ELSE conv[c]
    IN
    /\ row[c] \in {NoOne, r}
    /\ conv' = [conv EXCEPT ![c] = [k EXCEPT !.filed = k.filed \/ filed]]
    /\ turns' = IF req[r].kind \in Questions THEN [turns EXCEPT ![c] = @ \cup {Mine(r, mark)}] ELSE turns
    /\ count' = IF quota = r THEN count + 1 ELSE count
    /\ Release(r)
    /\ req' = [req EXCEPT ![r].pc = "done"]

(* _persist_query without filing. *)
_persist_query(r) ==
    /\ req[r].pc = "persist"
    /\ Commit(r, Unmarked, FALSE)
    /\ UNCHANGED <<answer, file, synth, picked, met, raced, twin, early, cut, floor>>

----------------------------------------------------------------------------
(* _persist_query that files: the turn is flushed, which locks the           *)
(* conversation, and the conversation's turns are read.                      *)
FlushTurn(r) ==
    LET c == req[r].chat IN
    /\ req[r].pc = "flush" /\ row[c] = NoOne
    /\ row' = [row EXCEPT ![c] = r]
    /\ req' = [req EXCEPT ![r].pc = "write", ![r].content = turns[c] \cup {Mine(r, Unmarked)}, ![r].begin = turns[c]]
    /\ raced' = IF \E q \in Requests \ {r} : req[q].chat = c /\ req[q].pc \in {"write", "article", "commit"}
                THEN raced \cup {c} ELSE raced
    /\ UNCHANGED <<conv, turns, count, quota, slot, answer, file, synth, picked, met, twin, early, cut, floor>>

(* file_back_conversation: the conversation and its turns are read. *)
file_back_conversation(r, c) ==
    /\ Arrives(r) /\ conv[c].live
    /\ req' = [req EXCEPT ![r] = [Idle EXCEPT !.pc = "write", !.kind = "file", !.chat = c, !.filed = conv[c].filed,
                                              !.conv = conv[c], !.content = turns[c], !.begin = turns[c]]]
    /\ raced' = IF \E q \in Requests : req[q].chat = c /\ req[q].pc \in {"write", "article", "commit"}
                THEN raced \cup {c} ELSE raced
    /\ UNCHANGED <<conv, turns, count, quota, row, slot, answer, file, synth, picked, met, twin, early, cut, floor>>

By(S) == {t.by : t \in S}

(* serialize_conversation_to_markdown: all turns, whatever the file had. *)
serialize_conversation_to_markdown(c, S) == By(S)

(* _file_back_thread, the file: written before the database knows. *)
WriteFile(r) ==
    LET c == req[r].chat IN
    /\ req[r].pc = "write"
    /\ file' = [file EXCEPT ![c] = serialize_conversation_to_markdown(c, req[r].content)]
    /\ req' = [req EXCEPT ![r].pc = "article", ![r].wrote = TRUE]
    /\ UNCHANGED <<conv, turns, count, quota, row, slot, answer, synth, picked, met, raced, twin, early, cut, floor>>

(* _file_back_thread, the row: updated if the conversation was filed when    *)
(* it was loaded, else inserted under a slug that is the conversation's id,  *)
(* which waits for another insertion of it and, if that commits, fails.      *)
InsertArticle(r) ==
    LET c == req[r].chat IN
    /\ req[r].pc = "article"
    /\ ~req[r].filed => slot[c] = NoOne /\ ~answer[c]
    /\ slot' = IF req[r].filed THEN slot ELSE [slot EXCEPT ![c] = r]
    /\ req' = [req EXCEPT ![r].pc = "commit"]
    /\ UNCHANGED <<conv, turns, count, quota, row, answer, file, synth, picked, met, raced, twin, early, cut, floor>>

CommitFiled(r) ==
    LET c == req[r].chat IN
    /\ req[r].pc = "commit"
    /\ Commit(r, Thread, TRUE)
    /\ answer' = [answer EXCEPT ![c] = TRUE]
    /\ floor' = [floor EXCEPT ![c] = By(req[r].begin)]
    /\ UNCHANGED <<file, synth, picked, met, raced, twin, early, cut>>

(* file_back_selection, the turns of one conversation with the given indices. *)
SelectedTurns(c, S) == {t \in turns[c] : t.index \in S}

(* file_back_selection: an article of its own, and the turns are marked.     *)
file_back_selection(r, c, S) ==
    /\ Arrives(r) /\ conv[c].live /\ S # {}
    /\ LET sel == SelectedTurns(c, S)
           ok == S \subseteq {t.index : t \in sel}
       IN
       /\ req' = [req EXCEPT ![r] = [Idle EXCEPT !.pc = IF ok THEN "done" ELSE "refused", !.kind = "select", !.chat = c]]
       /\ picked' = IF ok THEN picked \cup {[by |-> r, chat |-> c, turns |-> By(sel)]} ELSE picked
       /\ turns' = IF ok THEN [d \in Chats |-> {IF t \in sel THEN [t EXCEPT !.mark = r] ELSE t : t \in turns[d]}] ELSE turns
    /\ UNCHANGED <<conv, count, quota, row, slot, answer, file, synth, met, raced, twin, early, cut, floor>>

----------------------------------------------------------------------------
_check_already_crystallized(c) == conv[c].crystal

(* crystallize_conversation, up to the model's answer. *)
crystallize_conversation(r, c) ==
    /\ Arrives(r) /\ conv[c].live
    /\ req' = [req EXCEPT ![r] = [Idle EXCEPT !.kind = "crystal", !.chat = c, !.conv = conv[c],
          !.pc = IF _check_already_crystallized(c) THEN "done" ELSE IF turns[c] = {} THEN "refused" ELSE "distil"]]
    /\ twin' = IF req'[r].pc = "distil" /\ Open(c, {"crystal"}) # {} THEN twin \cup {c} ELSE twin
    /\ UNCHANGED <<conv, turns, count, quota, row, slot, answer, file, synth, picked, met, raced, early, cut, floor>>

(* The synthesis article and the mark, committed when the request ends. *)
Crystallize(r) ==
    LET c == req[r].chat IN
    /\ req[r].pc = "distil" /\ row[c] = NoOne
    /\ synth' = [synth EXCEPT ![c] = @ \cup {r}]
    /\ conv' = [conv EXCEPT ![c].crystal = TRUE]
    /\ req' = [req EXCEPT ![r].pc = "done"]
    /\ UNCHANGED <<turns, count, quota, row, slot, answer, file, picked, met, raced, twin, early, cut, floor>>

AskNext ==
    \/ \E r \in Requests, c \in Chats :
          \/ \E kind \in {"ask", "stream"} : AskStart(r, kind, c)
          \/ \E p \in Chats, at \in 0 .. MaxRequests - 1 : fork_conversation(r, c, p, at)
          \/ file_back_conversation(r, c)
          \/ crystallize_conversation(r, c)
          \/ \E S \in SUBSET (0 .. MaxRequests - 2) : file_back_selection(r, c, S)
    \/ \E r \in Requests :
          \/ \E filing \in BOOLEAN : _query_llm(r, filing)
          \/ answer_stream(r) \/ _persist_query(r)
          \/ FlushTurn(r) \/ WriteFile(r) \/ InsertArticle(r) \/ CommitFiled(r)
          \/ Crystallize(r)
          \/ Rollback(r)

----------------------------------------------------------------------------
(* Turns of a conversation are numbered from 0 without gaps or repeats,      *)
(* unless two questions were put to it at once: the number is taken before   *)
(* the model answers.                                                        *)
TurnsNumbered ==
    \A c \in Chats \ met : {t.index : t \in turns[c]} = 0 .. Cardinality(turns[c]) - 1

Indices(s) == [i \in DOMAIN s |-> s[i].by]

(* Sets of conversations that have c and the parents of all they have. *)
Lineages(c) == {S \in SUBSET Chats : c \in S /\ \A d \in S : conv[d].parent \in S \cup {"none"}}

(* models/tables/qa.py: "The original branch is preserved immutably". What   *)
(* a conversation shows is only ever extended at its end, a fork's shared    *)
(* turns included, unless a fork was made past the end of its parent or      *)
(* questions to it, or to one it descends from, overlapped.                  *)
ThreadGrows ==
    [][\A c \in Chats :
          conv[c].live /\ (\E S \in Lineages(c) : S \cap (met' \cup early') = {})
              => IsPrefix(Indices(_materialize_thread(c)), Indices(_materialize_thread(c)'))]_askVars

(* The model is given the end of the thread the user sees. *)
PriorIsThread ==
    \A r \in Requests : req[r].pc = "llm" => req[r].prior = LastOf(req[r].seen, MaxPrior)

(* A day's questions stay within the plan's limit and each answered one is   *)
(* counted, also across a stream's two commits.                              *)
QueriesCounted ==
    LET answered == {r \in Requests : req[r].kind \in {"ask", "stream"} /\ req[r].pc = "done"} IN
    MaxQueries > 0 => count <= MaxQueries /\ Cardinality(answered) <= count

Writing(c) == \E r \in Requests : req[r].chat = c /\ req[r].wrote /\ req[r].pc \notin Ended

(* The file of a conversation's article has every turn there was when it was *)
(* last filed and no turn that is not stored, unless filings overlapped or   *)
(* one failed after writing.                                                 *)
FileIsThread ==
    \A c \in Chats \ raced :
        answer[c] /\ ~Writing(c) => floor[c] \subseteq file[c] /\ file[c] \subseteq By(turns[c])

(* A turn marked as filed is in the article it is said to be filed in. *)
MarkedIsFiled ==
    \A c \in Chats \ raced, t \in UNION {turns[d] : d \in Chats} :
        /\ t \in turns[c] /\ t.mark = Thread /\ ~Writing(c) => answer[c] /\ t.by \in file[c]
        /\ \A p \in picked : t.mark = p.by => t.by \in p.turns /\ t \in turns[p.chat]

(* A conversation is crystallized into one article, unless two requests for  *)
(* it overlap.                                                               *)
CrystalOnce == \A c \in Chats \ twin : Cardinality(synth[c]) <= 1

(* No conversation is without a turn, except those left by a stream that     *)
(* ended, or has yet to end, between its two commits.                        *)
NoEmptyConversation ==
    \A c \in Chats : conv[c].live /\ turns[c] = {} =>
        \E r \in Requests : req[r].chat = c /\ req[r].kind = "stream" /\ (r \in cut \/ req[r].pc \notin Ended)
=============================================================================
