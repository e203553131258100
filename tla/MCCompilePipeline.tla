-------------------------- MODULE MCCompilePipeline --------------------------
(****************************************************************************)
(* CompilePipeline for TLC: the symmetry of its ids, and the environment in  *)
(* which runs do not overlap.                                                *)
(****************************************************************************)
EXTENDS CompilePipeline, TLC

Symmetry == Permutations(Runs) \cup Permutations(Sources)
RunSymmetry == Permutations(Runs)

(* One worker with max_jobs = 1, whose users wait for a compile to end before *)
(* they ask for the next: at most one run is scheduled or executing.          *)
OneAtATime == Cardinality({r \in Runs : Busy(r)}) <= 1

SerialNext == \/ Request /\ OneAtATime'
              \/ \E r \in Runs : Step(r)
              \/ Process

SerialSpec == Init /\ [][SerialNext]_vars /\ Fairness
=============================================================================
