-------------------------- MODULE MCCompileOverlap ---------------------------
(****************************************************************************)
(* CompilePipeline for TLC, with a history of which articles two runs were   *)
(* replacing at once: each of them deletes the file it found when it began.  *)
(****************************************************************************)
EXTENDS MCCompilePipeline

VARIABLE crossed        \* history: articles that two runs replaced at once

(* The runs between loading an article's row and committing the new one. *)
Replacing(a) == {r \in Runs : run[r].existing = a /\ run[r].pc \in {"write", "unlink", "commit"}}

Crossed == {a \in Runs : \E q, r \in Replacing(a) : q # r}

OverlapInit == Init /\ crossed = {}
OverlapNext == Next /\ crossed' = crossed \cup Crossed'
OverlapSpec == OverlapInit /\ [][OverlapNext]_<<vars, crossed>>

(* Every article's file exists, except while a run that replaces it stands     *)
(* between deleting the old file and committing the new path; unless two runs  *)
(* replaced it at once, of which one may delete what the other wrote. Runs of  *)
(* other articles, and runs that create one under the same slug, may overlap.  *)
FilePresent ==
    \A a \in Articles \ crossed :
       file[article[a].path] = None =>
          \E r \in Runs : /\ At(r, "commit")
                          /\ run[r].existing = a
                          /\ run[r].old = article[a].path
=============================================================================
