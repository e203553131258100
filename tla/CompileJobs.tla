------------------------------ MODULE CompileJobs ------------------------------
(****************************************************************************)
(* What the Job rows of the compile pipeline promise to whoever polls them   *)
(* (GET /jobs, the web client's job list), without how a compile is done:    *)
(* a compile is asked for one source and keeps it; its row appears RUNNING;  *)
(* it becomes COMPLETE only once the source has been built and after it ran; *)
(* COMPLETE is never taken back; only RUNNING rows become FAILED, and a      *)
(* failure touches the rows of one source.                                   *)
(* CompilePipeline implements this specification.                            *)
(****************************************************************************)
CONSTANTS None, Sources, Runs

VARIABLES
    asked,   \* the source a compile was asked for
    job,     \* Job.status of its row
    built    \* sources an article was saved for

jobVars == <<asked, job, built>>

Init ==
    /\ asked = [r \in Runs |-> None]
    /\ job = [r \in Runs |-> None]
    /\ built = [s \in Sources |-> FALSE]

(* A compile of s is scheduled. *)
Ask(r, s) ==
    /\ asked[r] = None
    /\ asked' = [asked EXCEPT ![r] = s]
    /\ UNCHANGED <<job, built>>

(* Its row appears. *)
Begin(r) ==
    /\ asked[r] # None /\ job[r] = None
    /\ job' = [job EXCEPT ![r] = "running"]
    /\ UNCHANGED <<asked, built>>

(* A compile that began saves the article, even one whose row another        *)
(* compile of the same source has meanwhile marked FAILED.                   *)
Build(r) ==
    /\ job[r] # None
    /\ built' = [built EXCEPT ![asked[r]] = TRUE]
    /\ UNCHANGED <<asked, job>>

(* Success is recorded over anything but nothing. *)
Complete(r) ==
    /\ job[r] # None /\ built[asked[r]]
    /\ job' = [job EXCEPT ![r] = "complete"]
    /\ UNCHANGED <<asked, built>>

(* A failure is recorded only in rows of one source that are RUNNING. *)
Fail(s) ==
    /\ \E rows \in SUBSET {r \in Runs : asked[r] = s /\ job[r] = "running"} :
          job' = [r \in Runs |-> IF r \in rows THEN "failed" ELSE job[r]]
    /\ UNCHANGED <<asked, built>>

Next == \/ \E r \in Runs : Begin(r) \/ Build(r) \/ Complete(r)
        \/ \E s \in Sources : Fail(s) \/ \E r \in Runs : Ask(r, s)

Spec == Init /\ [][Next]_jobVars
=============================================================================
