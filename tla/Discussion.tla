----------------------------- MODULE Discussion -----------------------------
(***************************************************************************)
(* services/discussion.py: a thread of messages about an article, each     *)
(* answered by a model, and the recompilation that is queued with them.    *)
(* Thread is the order of created_at.                                      *)
(***************************************************************************)
EXTENDS Naturals, Sequences, FiniteSets, SequencesExt

CONSTANT MaxPosts       \* bound on messages users post

ASSUME DiscussionAssumption == MaxPosts \in Nat

VARIABLES thread,       \* DiscussionMessage rows of one user and article
          post,         \* requests that post
          given,        \* what the model was shown for each post
          rebuild,      \* jobs: the guidance stored in result_summary, and the one used
          mingled       \* history: two posts overlapped, or one was never answered

talkVars == <<thread, post, given, rebuild, mingled>>

Posts == 1 .. MaxPosts

DiscussionTypeOK ==
    /\ \A i \in DOMAIN thread : thread[i].role \in {"user", "assistant"} /\ thread[i].post \in Posts
    /\ post \in [Posts -> {"idle", "llm", "done", "lost"}]

DiscussionInit ==
    /\ thread = <<>> /\ given = [p \in Posts |-> <<>>]
    /\ post = [p \in Posts |-> "idle"]
    /\ rebuild = {} /\ mingled = FALSE

(* post_message, up to the model: the message is committed first, and the    *)
(* whole thread shown.                                                       *)
post_message(p) ==
    /\ post[p] = "idle" /\ (p > 1 => post[p - 1] # "idle")
    /\ thread' = Append(thread, [role |-> "user", post |-> p])
    /\ given' = [given EXCEPT ![p] = thread']
    /\ post' = [post EXCEPT ![p] = "llm"]
    /\ mingled' = (mingled \/ \E q \in Posts : post[q] = "llm")
    /\ UNCHANGED rebuild

(* post_message after the model: its answer, or a fixed one, is committed.   *)
Reply(p) ==
    /\ post[p] = "llm"
    /\ thread' = Append(thread, [role |-> "assistant", post |-> p])
    /\ post' = [post EXCEPT ![p] = "done"]
    /\ UNCHANGED <<given, rebuild, mingled>>

(* The model call raises, or the process dies: the question stays. *)
LosePost(p) ==
    /\ post[p] = "llm"
    /\ post' = [post EXCEPT ![p] = "lost"]
    /\ mingled' = TRUE
    /\ UNCHANGED <<thread, given, rebuild>>

UserPoints == SelectSeq(thread, LAMBDA m : m.role = "user")

(* compile_with_guidance: what users wrote is stored with a recompile job.   *)
compile_with_guidance ==
    /\ rebuild = {}
    /\ rebuild' = {[guidance |-> UserPoints, used |-> <<>>, done |-> FALSE]}
    /\ UNCHANGED <<thread, post, given, mingled>>

(* recompile_article: compiles the source as it is and overwrites the        *)
(* job's result_summary.                                                     *)
Rebuild(j) ==
    /\ j \in rebuild /\ ~j.done
    /\ rebuild' = (rebuild \ {j}) \cup {[j EXCEPT !.done = TRUE]}
    /\ UNCHANGED <<thread, post, given, mingled>>

DiscussionNext ==
    \/ \E p \in Posts : post_message(p) \/ Reply(p) \/ LosePost(p)
    \/ compile_with_guidance
    \/ \E j \in rebuild : Rebuild(j)

----------------------------------------------------------------------------
(* A model is always shown the message it answers and, unless posts overlap  *)
(* or were lost, questions and answers that alternate and end in it.         *)
ShownInTurn ==
    \A p \in Posts : given[p] # <<>> \/ post[p] # "idle" =>
        /\ \E i \in DOMAIN given[p] : given[p][i] = [role |-> "user", post |-> p]
        /\ ~mingled => \A i \in DOMAIN given[p] : given[p][i].role = IF i % 2 = 1 THEN "user" ELSE "assistant"
=============================================================================
