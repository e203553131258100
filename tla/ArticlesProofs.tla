--------------------------- MODULE ArticlesProofs ---------------------------
(***************************************************************************)
(* Theorems of Articles, for every set of operations, articles and drafts.  *)
(***************************************************************************)
EXTENDS Articles, TLAPS, FiniteSetTheorems

(* What the steps of each kind of operation have loaded. *)
OpOK(p) ==
    /\ op[p].kind \in {"edit", "recompile", "stub"} /\ op[p].pc # "idle"
           => op[p].art \in Arts
    /\ At(p, "sweep", "write")
           => op[p].art \in Arts /\ op[p].got \in Procs \cup {None, First}
    /\ op[p].kind \in {"approve", "guided"} /\ op[p].pc \in {"save", "mark"}
           => op[p].art \in Arts
    /\ op[p].kind \in {"approve", "guided", "reject"} /\ op[p].pc \notin Ended
           => op[p].pc \in {"load", "save", "mark"} /\ op[p].draft \in Drafts
    /\ op[p].kind \notin {"approve", "guided", "reject"} => op[p].draft = None

Typed == TypeOK /\ \A p \in Procs : OpOK(p)

(* Operations that replace the content of a, and those that only rename it. *)
ContentEdit(p, a) == /\ op[p].kind = "edit" /\ op[p].art = a
                     /\ op[p].pc = "write" \/ (op[p].pc = "commit" /\ op[p].got = p)
TitleEdit(p, a) == At(p, "edit", "commit") /\ op[p].art = a /\ op[p].got # p

(* Operations that will store a text over a without looking at the row again. *)
Overwriter(q, a) ==
    /\ op[q].art = a
    /\ \/ op[q].kind = "recompile" /\ op[q].pc \in {"enqueue", "queued", "write"}
       \/ At(q, "sweep", "write")

(* An edit under way is among the rivals until it commits, and the row it     *)
(* edits exists.                                                              *)
EditorsListed ==
    \A p \in Procs, a \in Arts :
        /\ op[p].pc = "idle" => p \notin rivals[a]
        /\ ContentEdit(p, a) => p \in rivals[a] /\ row[a].live
        /\ TitleEdit(p, a) => rivals[a] # {p} /\ row[a].live

(* An edit with no rival will find the file and the row as it left them.      *)
EditAlone ==
    \A p \in Procs, a \in Arts :
        ContentEdit(p, a) /\ rivals[a] = {p}
            => /\ op[p].pc = "commit" => file[a].by = p
               /\ op[p].seen => row[a].edited

(* Whoever still has to overwrite an article is known as a rival of the       *)
(* edits that are under way, and of the last one.                             *)
OverwritersListed ==
    \A q \in Procs, a \in Arts :
        Overwriter(q, a)
            => \/ q \in rivals[a]
               \/ /\ \A p \in Procs : ~ContentEdit(p, a)
                  /\ \/ lastEdit[a] = None \/ rivals[a] # {}
                     \/ op[q].kind = "sweep" /\ op[q].got = file[a].by

EditInv ==
    /\ EditHeld /\ EditorsListed /\ EditAlone /\ OverwritersListed
    /\ \A a \in Arts : lastEdit[a] # None => row[a].live

(* Of a draft whose reviews neither overlapped nor were cut short: the one     *)
(* review under way, and what it has done so far.                              *)
ReviewAlone(d) ==
    /\ \A p, q \in Reviewing(d) : p = q
    /\ \A p \in Reviewing(d) :
          draft[d] = "pending" /\ made[d] = IF op[p].pc = "mark" THEN {p} ELSE {}
    /\ Reviewing(d) = {} =>
          IF draft[d] = "approved" THEN \E p \in Procs : made[d] = {p} ELSE made[d] = {}

(* A source that waits for review has a pending draft that no review will      *)
(* close without changing the source's status.                                 *)
DraftWaits(d) ==
    /\ draft[d] = "pending"
    /\ \A p \in Reviewing(d) : ~op[p].seen /\ op[p].pc # "mark"

ReviewInv ==
    /\ \A d \in Drafts \ clash : ReviewAlone(d)
    /\ \A p \in Procs, d \in Drafts : op[p].draft = d => draft[d] # "none"
    /\ source = "review_pending" => \E d \in Drafts : DraftWaits(d)

-----------------------------------------------------------------------------
(* Type correctness *)

(* Nothing is under way at the start. *)
LEMMA InitTyped == Init => Typed
  BY ArticlesAssumption
     DEF Init, Typed, TypeOK, OpOK, Operation, Idle, Kinds, Steps, ArticleRow, DraftStatus, At,
         Ended

(* A step of p that writes its own control state only moves p. *)
LEMMA OthersStay ==
  ASSUME Typed, NEW p \in Procs, NEW o \in Operation, op' = [op EXCEPT ![p] = o]
  PROVE  /\ op' \in [Procs -> Operation] /\ op'[p] = o
         /\ \A q \in Procs \ {p} : op'[q] = op[q] /\ OpOK(q)'
  BY DEF Typed, TypeOK, OpOK, At

(* The mark of a manual edit may be set and cleared. *)
LEMMA MarkTyped ==
  ASSUME row \in [Arts -> ArticleRow], NEW a \in Arts, NEW v \in BOOLEAN
  PROVE  [row EXCEPT ![a].edited = v] \in [Arts -> ArticleRow]
  BY DEF ArticleRow

(* An approved draft is saved to an article. *)
LEMMA TargetIsArticle == \A p : SaveTarget(p) \subseteq Arts
  BY DEF SaveTarget

(* The operations of a user or of a timer begin well typed. *)
LEMMA StartTyped ==
  ASSUME Typed, NEW p \in Procs, Start(p)
  PROVE  Typed'
<1> USE DEF Typed
<1>1. ASSUME NEW a \in Arts, NEW content \in BOOLEAN, BeginEdit(p, a, content)
      PROVE  Typed'
  <2> DEFINE o == [Idle EXCEPT !.kind = "edit", !.art = a, !.seen = row[a].edited,
                               !.pc = IF content THEN "write" ELSE "commit"]
  <2>1. o \in Operation
    BY DEF Idle, Operation, Kinds, Steps, Ended, TypeOK, ArticleRow
  <2>2. op' = [op EXCEPT ![p] = o]
    BY <1>1 DEF BeginEdit, Begin
  <2>3. OpOK(p)'
    BY <2>1, <2>2, OthersStay DEF OpOK, At, Idle
  <2>4. rivals' \in [Arts -> SUBSET Procs]
    BY <1>1 DEF BeginEdit, TypeOK, Writers
  <2> HIDE DEF o
  <2>5. QED
    BY <1>1, <2>1, <2>2, <2>3, <2>4, OthersStay DEF BeginEdit, TypeOK
<1>2. ASSUME NEW a \in Arts, NEW force \in BOOLEAN, PostRecompile(p, a, force)
      PROVE  Typed'
  <2> DEFINE o == [Idle EXCEPT !.kind = "recompile", !.art = a, !.pc = "enqueue"]
  <2>1. o \in Operation
    BY DEF Idle, Operation, Kinds, Steps, Ended
  <2>2. op' = [op EXCEPT ![p] = o]
    BY <1>2 DEF PostRecompile, Begin
  <2>3. OpOK(p)'
    BY <2>1, <2>2, OthersStay, SMTT(30) DEF OpOK, At, Idle
  <2>4. rivals' \in [Arts -> SUBSET Procs] /\ row' \in [Arts -> ArticleRow]
    <3>1. row' \in [Arts -> ArticleRow]
      <4>1. row' = [row EXCEPT ![a].edited = IF force THEN FALSE ELSE row[a].edited]
        BY <1>2 DEF PostRecompile
      <4> QED
        BY <4>1, MarkTyped DEF TypeOK, ArticleRow
    <3>2. Overrides(p, a) \/ Enter(p, a)
      BY <1>2 DEF PostRecompile
    <3>3. QED
      BY <3>1, <3>2 DEF TypeOK, Enter, Overrides
  <2> HIDE DEF o
  <2>5. QED
    BY <1>2, <2>1, <2>2, <2>3, <2>4, OthersStay DEF PostRecompile, TypeOK
<1>3. CASE BeginCompile(p)
  <2> DEFINE o == [Idle EXCEPT !.kind = "compile", !.pc = "compile"]
  <2>1. o \in Operation
    BY DEF Idle, Operation, Kinds, Steps, Ended
  <2>2. op' = [op EXCEPT ![p] = o]
    BY <1>3 DEF BeginCompile, Begin
  <2>3. OpOK(p)'
    BY <2>1, <2>2, OthersStay DEF OpOK, At, Idle
  <2> HIDE DEF o
  <2>4. QED
    BY <1>3, <2>1, <2>2, <2>3, OthersStay DEF BeginCompile, TypeOK, history
<1>4. ASSUME NEW d \in Drafts, NEW kind \in {"approve", "guided", "reject"},
             BeginReview(p, d, kind)
      PROVE  Typed'
  <2> DEFINE o == [Idle EXCEPT !.kind = kind, !.pc = "load", !.draft = d,
                               !.seen = source = (IF kind = "reject" THEN "pending"
                                                                     ELSE "compiled")]
  <2>1. o \in Operation
    BY DEF Idle, Operation, Kinds, Steps, Ended
  <2>2. op' = [op EXCEPT ![p] = o]
    BY <1>4 DEF BeginReview, Begin
  <2>3. OpOK(p)'
    BY <2>1, <2>2, OthersStay DEF OpOK, At, Idle
  <2> HIDE DEF o
  <2>4. QED
    BY <1>4, <2>1, <2>2, <2>3, OthersStay DEF BeginReview, TypeOK
<1>5. ASSUME NEW a \in Arts, StubWrite(p, a)
      PROVE  Typed'
  <2> DEFINE o == [Idle EXCEPT !.kind = "stub", !.pc = "commit", !.art = a]
  <2>1. o \in Operation
    BY DEF Idle, Operation, Kinds, Steps, Ended
  <2>2. op' = [op EXCEPT ![p] = o]
    BY <1>5 DEF StubWrite, Begin
  <2>3. OpOK(p)'
    BY <2>1, <2>2, OthersStay DEF OpOK, At, Idle
  <2>4. rivals' \in [Arts -> SUBSET Procs]
    BY <1>5 DEF StubWrite, TypeOK, Enter
  <2> HIDE DEF o
  <2>5. QED
    BY <1>5, <2>1, <2>2, <2>3, <2>4, OthersStay DEF StubWrite, Store, TypeOK
<1>6. CASE BeginSweep(p)
  <2> DEFINE o == [Idle EXCEPT !.kind = "sweep", !.pc = "next",
                               !.todo = {a \in Arts : row[a].live}]
  <2>1. o \in Operation
    BY DEF Idle, Operation, Kinds, Steps, Ended
  <2>2. op' = [op EXCEPT ![p] = o]
    BY <1>6 DEF BeginSweep, Begin
  <2>3. OpOK(p)'
    <3>1. op'[p] = o
      BY <2>1, <2>2, OthersStay
    <3>2. o.kind = "sweep" /\ o.pc = "next" /\ o.draft = None
      BY DEF Idle
    <3> HIDE DEF o
    <3> QED
      BY <3>1, <3>2, SMTT(30) DEF OpOK, At
  <2> HIDE DEF o
  <2>4. QED
    BY <1>6, <2>1, <2>2, <2>3, OthersStay DEF BeginSweep, TypeOK, history
<1>7. QED
  BY <1>1, <1>2, <1>3, <1>4, <1>5, <1>6 DEF Start

(* An operation that only moves to another step stays well typed, if what the   *)
(* step reached needs was needed at the step left.                              *)
LEMMA GotoTyped ==
  ASSUME Typed, NEW p \in Procs, NEW pc \in Steps \ {"idle"}, Goto(p, pc),
         op[p].pc # "idle",
         op[p].kind = "sweep" => pc # "write",
         op[p].kind \in {"approve", "guided"} /\ pc \in {"save", "mark"}
            => op[p].pc \in {"save", "mark"},
         op[p].kind \in {"approve", "guided", "reject"} /\ pc \notin Ended
            => op[p].pc \in {"load", "save", "mark"} /\ pc \in {"load", "save", "mark"}
  PROVE  /\ op' \in [Procs -> Operation] /\ \A q \in Procs : OpOK(q)'
         /\ op'[p] = [op[p] EXCEPT !.pc = pc]
         /\ \A q \in Procs \ {p} : op'[q] = op[q]
<1> DEFINE o == [op[p] EXCEPT !.pc = pc]
<1>1. o \in Operation
  BY DEF Typed, TypeOK, Operation
<1>2. op' = [op EXCEPT ![p] = o]
  BY DEF Goto
<1>3. OpOK(p)'
  BY <1>1, <1>2, OthersStay DEF OpOK, At, Typed, TypeOK, Operation, Ended
<1> HIDE DEF o
<1>4. op' \in [Procs -> Operation] /\ op'[p] = o
      /\ \A q \in Procs \ {p} : op'[q] = op[q] /\ OpOK(q)'
  BY <1>1, <1>2, OthersStay
<1>5. QED
  BY <1>3, <1>4 DEF o

(* The control state stays well typed when an operation notes what it has       *)
(* loaded, and so do the row it writes.                                         *)
LEMMA UpdateOp ==
  ASSUME NEW x \in Operation, NEW pc \in Steps, NEW art \in Arts \cup {None},
         NEW seen \in BOOLEAN, NEW got \in Procs \cup Arts \cup {None}
  PROVE  /\ [x EXCEPT !.pc = pc, !.got = got] \in Operation
         /\ [x EXCEPT !.pc = pc, !.seen = seen] \in Operation
         /\ [x EXCEPT !.pc = pc, !.art = art, !.got = got] \in Operation
         /\ [x EXCEPT !.pc = pc, !.art = art] \in Operation
  BY DEF Operation

(* A row stays one when its flags are set. *)
LEMMA UpdateRow ==
  ASSUME NEW x \in ArticleRow, NEW b \in BOOLEAN, NEW c \in BOOLEAN
  PROVE  /\ [x EXCEPT !.live = b, !.provider = c] \in ArticleRow
         /\ [x EXCEPT !.live = b] \in ArticleRow
  BY DEF ArticleRow

(* Every step of an operation under way keeps the types. *)
LEMMA StepTyped ==
  ASSUME Typed, NEW p \in Procs, Step(p)
  PROVE  Typed'
<1> USE DEF Typed
<1>0. ASSUME NEW pc \in Steps \ {"idle"}, Goto(p, pc), op[p].pc # "idle",
             op[p].kind \in {"approve", "guided", "reject", "sweep"} => pc \in Ended
      PROVE  op' \in [Procs -> Operation] /\ \A q \in Procs : OpOK(q)'
  BY <1>0, GotoTyped DEF Ended
<1>1. CASE EditWrite(p)
  <2> DEFINE o == [op[p] EXCEPT !.pc = "commit", !.got = p]
  <2>1. o \in Operation
    BY UpdateOp DEF TypeOK, Steps
  <2>2. op' = [op EXCEPT ![p] = o]
    BY <1>1 DEF EditWrite
  <2>3. OpOK(p)'
    BY <1>1, <2>1, <2>2, OthersStay, SMTT(30) DEF EditWrite, OpOK, At, TypeOK, Operation
  <2> HIDE DEF o
  <2>4. QED
    BY <1>1, <2>1, <2>2, <2>3, OthersStay DEF EditWrite, Store, TypeOK, history
<1>2. CASE EditCommit(p)
  <2> DEFINE a == op[p].art
             v == IF op[p].seen THEN row[a].edited ELSE TRUE
  <2>1. a \in Arts
    BY <1>2 DEF EditCommit, At, OpOK
  <2>2. row' = [row EXCEPT ![a].edited = v]
    BY <1>2 DEF EditCommit
  <2>3. v \in BOOLEAN
    BY <2>1 DEF TypeOK, ArticleRow
  <2>4. row' \in [Arts -> ArticleRow]
    <3> HIDE DEF a, v
    <3> QED
      BY <2>1, <2>2, <2>3, MarkTyped DEF TypeOK
  <2>5. rivals' \in [Arts -> SUBSET Procs] /\ lastEdit' \in [Arts -> Procs \cup {None}]
    BY <1>2, <2>1 DEF EditCommit, TypeOK
  <2> QED
    BY <1>0, <1>2, <2>4, <2>5 DEF EditCommit, At, Steps, Ended, TypeOK
<1>3. CASE QueueRecompile(p)
  BY <1>0, <1>3 DEF QueueRecompile, At, Steps, Ended, TypeOK, history
<1>4. CASE RunRecompile(p)
  BY <1>0, <1>4 DEF RunRecompile, At, Steps, Ended, TypeOK, history
<1>5. CASE RecompileFails(p)
  BY <1>0, <1>5 DEF RecompileFails, At, Steps, Ended, TypeOK, history
<1>6. CASE RecompileWrite(p)
  <2> DEFINE o == [op[p] EXCEPT !.pc = "commit", !.seen = source = "compiled"]
  <2>1. o \in Operation
    BY UpdateOp DEF TypeOK, Steps
  <2>2. op' = [op EXCEPT ![p] = o]
    BY <1>6 DEF RecompileWrite
  <2>3. OpOK(p)'
    BY <1>6, <2>1, <2>2, OthersStay, SMTT(30) DEF RecompileWrite, OpOK, At, TypeOK, Operation
  <2> HIDE DEF o
  <2>4. QED
    BY <1>6, <2>1, <2>2, <2>3, OthersStay DEF RecompileWrite, Store, TypeOK, history
<1>7. CASE RecompileCommit(p)
  BY <1>0, <1>7 DEF RecompileCommit, At, Steps, Ended, TypeOK, history
<1>8. CASE RecompileEnds(p)
  BY <1>0, <1>8 DEF RecompileEnds, At, Steps, Ended, TypeOK, history
<1>9. CASE CreateDraft(p)
  BY <1>0, <1>9 DEF CreateDraft, At, Steps, Ended, TypeOK, DraftStatus, history
<1>10. CASE CompileFails(p)
  BY <1>0, <1>10 DEF CompileFails, At, Steps, Ended, TypeOK, history
<1>11. CASE RejectDraft(p)
  BY <1>0, <1>11 DEF RejectDraft, At, Steps, Ended, TypeOK, DraftStatus, history
<1>12. CASE ApproveWrite(p)
  <2>1. PICK a \in SaveTarget(p) :
           /\ Store(p, a, p)
           /\ op' = [op EXCEPT ![p].pc = "save", ![p].art = a,
                               ![p].got = IF row[a].live THEN a ELSE None]
           /\ Overrides(p, a)
    BY <1>12 DEF ApproveWrite
  <2>2. a \in Arts
    BY <2>1, TargetIsArticle, Zenon
  <2> DEFINE o == [op[p] EXCEPT !.pc = "save", !.art = a,
                                !.got = IF row[a].live THEN a ELSE None]
  <2>3. o \in Operation
    BY <2>2, UpdateOp DEF TypeOK, Steps
  <2>4. op' = [op EXCEPT ![p] = o]
    BY <2>1
  <2>5. OpOK(p)'
    <3>1. op[p] \in Operation /\ op[p].kind \in {"approve", "guided"}
          /\ op[p].draft \in Drafts
      BY <1>12 DEF ApproveWrite, OpOK, TypeOK, Ended
    <3>2. o.kind = op[p].kind /\ o.draft = op[p].draft /\ o.art = a /\ o.pc = "save"
      BY <3>1 DEF Operation
    <3> HIDE DEF o
    <3>3. QED
      BY <2>2, <2>3, <2>4, <3>1, <3>2, OthersStay DEF OpOK, At
  <2> HIDE DEF o
  <2>6. QED
    <3>1. /\ op' \in [Procs -> Operation] /\ \A q \in Procs : OpOK(q)'
      BY <2>3, <2>4, <2>5, OthersStay
    <3>2. rivals' \in [Arts -> SUBSET Procs]
      BY <2>1, <2>2 DEF Overrides, TypeOK
    <3>3. QED
      BY <1>12, <2>1, <2>2, <3>1, <3>2 DEF ApproveWrite, Store, TypeOK
<1>13. CASE ApproveSave(p)
  <2>1. Goto(p, "failed") \/ Goto(p, "mark")
    BY <1>13 DEF ApproveSave
  <2>2. op' \in [Procs -> Operation] /\ \A q \in Procs : OpOK(q)'
    BY <1>13, <2>1, GotoTyped DEF ApproveSave, Steps, Ended
  <2>3. /\ row' \in [Arts -> ArticleRow] /\ made' \in [Drafts -> SUBSET Procs]
        /\ source' \in {"processing", "review_pending", "pending", "compiled", "failed"}
    <3>1. op[p].art \in Arts /\ op[p].draft \in Drafts
      BY <1>13 DEF ApproveSave, OpOK, Ended
    <3>2. row' \in [Arts -> ArticleRow]
      <4>1. [row[op[p].art] EXCEPT !.live = TRUE, !.provider = op[p].kind = "guided"]
               \in ArticleRow
        BY <3>1, UpdateRow DEF TypeOK
      <4>2. QED
        BY <1>13, <3>1, <4>1 DEF ApproveSave, TypeOK
    <3>3. QED
      BY <1>13, <3>1, <3>2 DEF ApproveSave, TypeOK
  <2>4. QED
    BY <1>13, <2>2, <2>3 DEF ApproveSave, TypeOK
<1>14. CASE ApproveMark(p)
  BY <1>0, <1>14 DEF ApproveMark, At, Steps, Ended, TypeOK, DraftStatus, history
<1>15. CASE ApproveFails(p)
  BY <1>0, <1>15 DEF ApproveFails, At, Steps, Ended, TypeOK, history
<1>16. CASE StubCommit(p)
  <2>1. op' \in [Procs -> Operation] /\ \A q \in Procs : OpOK(q)'
    BY <1>0, <1>16 DEF StubCommit, At, Steps, Ended
  <2>2. row' \in [Arts -> ArticleRow]
    <3>1. op[p].art \in Arts
      BY <1>16 DEF StubCommit, OpOK, At
    <3>2. [row[op[p].art] EXCEPT !.live = TRUE] \in ArticleRow
      BY <3>1, UpdateRow DEF TypeOK
    <3>3. QED
      BY <1>16, <3>1, <3>2 DEF StubCommit, TypeOK
  <2>3. QED
    BY <1>16, <2>1, <2>2 DEF StubCommit, TypeOK, history
<1>17. ASSUME NEW a \in Arts, SweepRead(p, a)
       PROVE  Typed'
  <2>1. PICK o \in {[op[p] EXCEPT !.pc = "write", !.art = a, !.got = file[a].by,
                                  !.todo = @ \ {a}],
                    [op[p] EXCEPT !.todo = @ \ {a}]} : op' = [op EXCEPT ![p] = o]
    BY <1>17 DEF SweepRead
  <2>2. o \in Operation
    <3>1. /\ op[p] \in Operation /\ op[p].todo \ {a} \in SUBSET Arts /\ "write" \in Steps
          /\ file[a].by \in Procs \cup Arts \cup {None}
      BY ArticlesAssumption DEF TypeOK, Operation, Steps
    <3>2. [op[p] EXCEPT !.pc = "write", !.art = a, !.got = file[a].by, !.todo = @ \ {a}]
             \in Operation
      BY <3>1 DEF Operation
    <3>3. [op[p] EXCEPT !.todo = @ \ {a}] \in Operation
      BY <3>1 DEF Operation
    <3>4. QED
      BY <2>1, <3>2, <3>3
  <2>3. OpOK(p)'
    <3>1. op[p].kind = "sweep" /\ op[p].pc = "next" /\ op[p] \in Operation
      BY <1>17 DEF SweepRead, At, TypeOK
    <3>2. op[p].draft = None /\ file[a].by \in Procs \cup {None, First}
      BY <3>1 DEF OpOK, TypeOK
    <3>3. /\ o.kind = "sweep" /\ o.draft = None
          /\ o.pc = "write" => o.art = a /\ o.got = file[a].by
      BY <2>1, <3>1, <3>2 DEF Operation
    <3>4. QED
      BY <2>1, <2>2, <3>2, <3>3, OthersStay DEF OpOK, At
  <2>4. rivals' \in [Arts -> SUBSET Procs]
    BY <1>17 DEF SweepRead, Enter, TypeOK
  <2>5. QED
    BY <1>17, <2>1, <2>2, <2>3, <2>4, OthersStay DEF SweepRead, TypeOK
<1>18. CASE SweepWrite(p)
  <2> DEFINE o == [op[p] EXCEPT !.pc = "next", !.art = None]
  <2>1. o \in Operation
    BY UpdateOp DEF TypeOK, Steps
  <2>2. op' = [op EXCEPT ![p] = o]
    BY <1>18 DEF SweepWrite
  <2>3. OpOK(p)'
    BY <1>18, <2>1, <2>2, OthersStay DEF SweepWrite, OpOK, At, TypeOK, Operation
  <2> HIDE DEF o
  <2>4. file' \in [Arts -> [by : Procs \cup {None, First}, put : Procs \cup {None, First}]]
    <3>1. op[p].art \in Arts /\ op[p].got \in Procs \cup {None, First}
      BY <1>18 DEF SweepWrite, OpOK
    <3>2. QED
      BY <1>18, <3>1 DEF SweepWrite, Store, TypeOK
  <2>5. QED
    BY <1>18, <2>1, <2>2, <2>3, <2>4, OthersStay DEF SweepWrite, TypeOK, history
<1>19. CASE EndSweep(p)
  BY <1>0, <1>19 DEF EndSweep, At, Steps, Ended, TypeOK, history
<1>20. QED
  BY <1>1, <1>2, <1>3, <1>4, <1>5, <1>6, <1>7, <1>8, <1>9, <1>10, <1>11, <1>12, <1>13,
     <1>14, <1>15, <1>16, <1>17, <1>18, <1>19 DEF Step

(* Neither the end of a process nor stuttering changes the types. *)
LEMMA NextTyped == Typed /\ [Next]_vars => Typed'
<1> SUFFICES ASSUME Typed, [Next]_vars
             PROVE  Typed'
  OBVIOUS
<1>1. ASSUME NEW p \in Procs, Die(p)
      PROVE  Typed'
  <2>1. op' \in [Procs -> Operation] /\ \A q \in Procs : OpOK(q)'
    BY <1>1, GotoTyped DEF Die, Steps, Ended
  <2>2. QED
    BY <1>1, <2>1 DEF Die, Typed, TypeOK
<1>2. CASE UNCHANGED vars
  BY <1>2 DEF vars, Typed, TypeOK, OpOK, At
<1>3. QED
  BY <1>1, <1>2, StartTyped, StepTyped DEF Next

(* Every reachable state is well typed. *)
LEMMA AlwaysTyped == Spec => []Typed
  BY InitTyped, NextTyped, PTL DEF Spec

-----------------------------------------------------------------------------
(* Reviews of drafts *)

(* What an operation holds is unchanged by a move to another step. *)
LEMMA GotoFields ==
  ASSUME Typed, NEW p \in Procs, NEW pc, Goto(p, pc)
  PROVE  /\ op'[p].pc = pc /\ op'[p].kind = op[p].kind /\ op'[p].art = op[p].art
         /\ op'[p].seen = op[p].seen /\ op'[p].draft = op[p].draft
         /\ op'[p].got = op[p].got
         /\ \A q \in Procs \ {p} : op'[q] = op[q]
  BY DEF Typed, TypeOK, Operation, Goto

(* A step of an operation that reviews no draft, neither before nor after it,  *)
(* and writes neither drafts nor a waiting source.                             *)
LEMMA ReviewFrame ==
  ASSUME Typed, ReviewInv, NEW p \in Procs,
         \A q \in Procs \ {p} : op'[q] = op[q],
         \/ op[p].pc \in Ended
         \/ op[p].kind \notin {"approve", "guided", "reject"},
         op'[p].pc \in Ended \/ op'[p].draft = None,
         op'[p].draft \in {None, op[p].draft},
         UNCHANGED <<draft, made>>, clash \subseteq clash',
         source' = source \/ source' # "review_pending"
  PROVE  ReviewInv'
<1>1. \A d \in Drafts : Reviewing(d)' = Reviewing(d)
  BY ArticlesAssumption DEF Reviewing, Typed, OpOK
<1>2. \A d \in Drafts : \A q \in Reviewing(d) : op'[q] = op[q]
  BY ArticlesAssumption DEF Reviewing, Typed, OpOK
<1>3. \A d \in Drafts : ReviewAlone(d) => ReviewAlone(d)'
  BY <1>1, <1>2 DEF ReviewAlone
<1>4. \A d \in Drafts : DraftWaits(d) => DraftWaits(d)'
  BY <1>1, <1>2 DEF DraftWaits
<1>5. \A q \in Procs, d \in Drafts : op'[q].draft = d => draft'[d] # "none"
  BY ArticlesAssumption DEF ReviewInv
<1>6. QED
  BY <1>3, <1>4, <1>5 DEF ReviewInv

(* The beginning of a review. *)
LEMMA BeginReviewKeeps ==
  ASSUME Typed, ReviewInv, NEW p \in Procs, NEW d \in Drafts,
         NEW kind \in {"approve", "guided", "reject"}, BeginReview(p, d, kind)
  PROVE  ReviewInv'
<1>1. /\ op[p].pc = "idle" /\ op'[p].draft = d /\ op'[p].pc = "load"
      /\ op'[p].seen => source # "review_pending"
      /\ \A q \in Procs \ {p} : op'[q] = op[q]
  BY DEF BeginReview, Begin, Idle, Typed, TypeOK
<1>2. \A e \in Drafts : Reviewing(e)' = IF e = d THEN Reviewing(e) \cup {p} ELSE Reviewing(e)
  BY <1>1, ArticlesAssumption DEF Reviewing, Ended
<1>3. \A e \in Drafts : p \notin Reviewing(e)
  BY <1>1 DEF Reviewing, Ended
<1>4. ASSUME NEW e \in Drafts \ clash'
      PROVE  ReviewAlone(e)'
  <2>1. e \notin clash /\ ReviewAlone(e) /\ draft' = draft /\ made' = made
    BY <1>4 DEF BeginReview, ReviewInv
  <2>2. CASE e = d
    <3>1. Reviewing(d) = {} /\ draft[d] = "pending"
      BY <1>4, <2>2 DEF BeginReview, GetDraft
    <3>2. made[d] = {}
      BY <2>1, <2>2, <3>1 DEF ReviewAlone
    <3>3. Reviewing(d)' = {p}
      BY <1>2, <3>1
    <3>4. QED
      BY <1>1, <2>1, <2>2, <3>1, <3>2, <3>3 DEF ReviewAlone
  <2>3. CASE e # d
    <3>1. Reviewing(e)' = Reviewing(e) /\ \A q \in Reviewing(e) : op'[q] = op[q]
      BY <1>1, <1>2, <1>3, <2>3 DEF Reviewing
    <3>2. QED
      BY <2>1, <3>1 DEF ReviewAlone
  <2>4. QED
    BY <2>2, <2>3
<1>5. ASSUME source' = "review_pending"
      PROVE  \E e \in Drafts : DraftWaits(e)'
  <2>1. PICK e \in Drafts : DraftWaits(e)
    BY <1>5 DEF BeginReview, ReviewInv
  <2>2. \A q \in Reviewing(e)' : ~op'[q].seen /\ op'[q].pc # "mark"
    BY <1>1, <1>2, <1>5, <2>1 DEF DraftWaits, Reviewing, BeginReview
  <2>3. QED
    BY <2>1, <2>2 DEF DraftWaits, BeginReview
<1>6. \A q \in Procs, e \in Drafts : op'[q].draft = e => draft'[e] # "none"
  BY <1>1 DEF ReviewInv, BeginReview, GetDraft
<1>7. QED
  BY <1>4, <1>5, <1>6 DEF ReviewInv

(* A step of the review of one draft leaves what is said of the others; what   *)
(* it makes of its own draft is shown per step.                                *)
LEMMA ReviewerFrame ==
  ASSUME Typed, ReviewInv, NEW p \in Procs, NEW d \in Drafts,
         op[p].draft = d, op'[p].draft = d,
         \A q \in Procs \ {p} : op'[q] = op[q],
         \A e \in Drafts \ {d} : draft'[e] = draft[e] /\ made'[e] = made[e],
         clash \subseteq clash', draft'[d] # "none",
         source' = source \/ source' # "review_pending",
         d \notin clash' /\ ReviewAlone(d) => ReviewAlone(d)',
         source' = "review_pending" /\ DraftWaits(d) => DraftWaits(d)'
  PROVE  ReviewInv'
<1>1. ASSUME NEW e \in Drafts \ {d}
      PROVE  (ReviewAlone(e) => ReviewAlone(e)') /\ (DraftWaits(e) => DraftWaits(e)')
  <2>1. Reviewing(e)' = Reviewing(e) /\ \A q \in Reviewing(e) : op'[q] = op[q]
    BY DEF Reviewing
  <2>2. QED
    BY <2>1 DEF ReviewAlone, DraftWaits
<1>2. \A e \in Drafts \ clash' : ReviewAlone(e)'
  BY <1>1 DEF ReviewInv
<1>3. source' = "review_pending" => \E e \in Drafts : DraftWaits(e)'
  BY <1>1 DEF ReviewInv
<1>4. \A q \in Procs, e \in Drafts : op'[q].draft = e => draft'[e] # "none"
  BY DEF ReviewInv
<1>5. QED
  BY <1>2, <1>3, <1>4 DEF ReviewInv

(* The steps of a review, its early end included. *)
LEMMA ReviewStepKeeps ==
  ASSUME Typed, ReviewInv, NEW p \in Procs,
         op[p].kind \in {"approve", "guided", "reject"}, Step(p) \/ Die(p)
  PROVE  ReviewInv'
<1>0. \/ RejectDraft(p) \/ ApproveWrite(p) \/ ApproveSave(p) \/ ApproveMark(p)
      \/ ApproveFails(p) \/ Die(p)
  BY DEF Step, EditWrite, EditCommit, QueueRecompile, RunRecompile, RecompileFails,
         RecompileWrite, RecompileCommit, RecompileEnds, CreateDraft, CompileFails,
         StubCommit, SweepRead, SweepWrite, EndSweep, At
<1>1. op[p].pc \notin Ended
  BY <1>0 DEF RejectDraft, ApproveWrite, ApproveSave, ApproveMark, ApproveFails, Die, At,
              Ended
<1>2. PICK d \in Drafts : d = op[p].draft /\ p \in Reviewing(d) /\ draft[d] # "none"
  BY <1>1 DEF Typed, OpOK, Reviewing, ReviewInv
<1>3. CASE RejectDraft(p)
  <2>1. /\ op'[p].pc = "done" /\ op'[p].draft = d
        /\ \A q \in Procs \ {p} : op'[q] = op[q]
    BY <1>2, <1>3, GotoFields DEF RejectDraft
  <2>2. Reviewing(d)' = Reviewing(d) \ {p}
    BY <2>1, <1>2 DEF Reviewing, Ended
  <2>3. /\ draft' = [draft EXCEPT ![d] = "rejected"] /\ made' = made /\ clash' = clash
        /\ source' = IF op[p].seen THEN source ELSE "pending"
    BY <1>2, <1>3 DEF RejectDraft, history
  <2>4. d \notin clash' /\ ReviewAlone(d) => ReviewAlone(d)'
    <3> SUFFICES ASSUME ReviewAlone(d) PROVE ReviewAlone(d)'
      OBVIOUS
    <3>1. Reviewing(d)' = {} /\ op[p].pc # "mark"
      BY <1>2, <1>3, <2>2 DEF ReviewAlone, RejectDraft, At
    <3>2. made[d] = {} /\ draft'[d] = "rejected"
      BY <1>2, <2>3, <3>1 DEF ReviewAlone, Typed, TypeOK
    <3>3. QED
      BY <1>2, <2>3, <3>1, <3>2 DEF ReviewAlone
  <2>5. source' = "review_pending" => ~DraftWaits(d)
    BY <1>2, <2>3 DEF DraftWaits
  <2>6. draft'[d] # "none"
    BY <1>2, <2>3 DEF Typed, TypeOK
  <2>7. QED
    BY <1>2, <2>1, <2>3, <2>4, <2>5, <2>6, ReviewerFrame DEF Typed, TypeOK
<1>4. CASE ApproveWrite(p)
  <2>1. /\ op'[p].pc = "save" /\ op'[p].draft = d /\ op'[p].seen = op[p].seen
        /\ op[p].pc = "load" /\ \A q \in Procs \ {p} : op'[q] = op[q]
    BY <1>2, <1>4 DEF ApproveWrite, Typed, TypeOK, Operation
  <2>2. Reviewing(d)' = Reviewing(d)
    BY <2>1, <1>2 DEF Reviewing, Ended
  <2>3. draft' = draft /\ made' = made /\ clash' = clash /\ source' = source
    BY <1>2, <1>4 DEF ApproveWrite
  <2>4. \A q \in Reviewing(d) : op'[q].seen = op[q].seen /\ (op'[q].pc = "mark" <=> op[q].pc = "mark")
    BY <1>2, <2>1 DEF Reviewing
  <2>5. (ReviewAlone(d) => ReviewAlone(d)') /\ (DraftWaits(d) => DraftWaits(d)')
    BY <1>2, <2>2, <2>3, <2>4 DEF ReviewAlone, DraftWaits
  <2>6. QED
    BY <1>2, <2>1, <2>3, <2>5, ReviewerFrame
<1>5. CASE ApproveSave(p)
  <2>1. op[p].pc = "save" /\ draft' = draft /\ clash' = clash
    BY <1>2, <1>5 DEF ApproveSave
  <2>2. CASE Goto(p, "failed") /\ UNCHANGED <<source, made>>
    <3>1. /\ op'[p].pc = "failed" /\ op'[p].draft = d
          /\ \A q \in Procs \ {p} : op'[q] = op[q]
      BY <1>2, <2>2, GotoFields
    <3>2. Reviewing(d)' = Reviewing(d) \ {p} /\ \A q \in Reviewing(d)' : op'[q] = op[q]
      BY <3>1, <1>2 DEF Reviewing, Ended
    <3>3. DraftWaits(d) => DraftWaits(d)'
      BY <1>2, <2>1, <3>2 DEF DraftWaits
    <3>4. ReviewAlone(d) => ReviewAlone(d)'
      BY <1>2, <2>1, <2>2, <3>2 DEF ReviewAlone
    <3>5. QED
      BY <1>2, <2>1, <2>2, <3>1, <3>3, <3>4, ReviewerFrame
  <2>3. CASE /\ Goto(p, "mark") /\ source' = IF op[p].seen THEN source ELSE "compiled"
             /\ made' = [made EXCEPT ![op[p].draft] = @ \cup {p}]
    <3>1. /\ op'[p].pc = "mark" /\ op'[p].draft = d
          /\ \A q \in Procs \ {p} : op'[q] = op[q]
      BY <1>2, <2>3, GotoFields
    <3>2. Reviewing(d)' = Reviewing(d)
      BY <3>1, <1>2 DEF Reviewing, Ended
    <3>3. source' = "review_pending" => ~DraftWaits(d)
      BY <1>2, <2>3 DEF DraftWaits
    <3>4. /\ made'[d] = made[d] \cup {p}
          /\ \A e \in Drafts \ {d} : made'[e] = made[e]
      BY <1>2, <2>3 DEF Typed, TypeOK
    <3>5. ReviewAlone(d) => ReviewAlone(d)'
      BY <1>2, <2>1, <3>1, <3>2, <3>4 DEF ReviewAlone
    <3>6. QED
      BY <1>2, <2>1, <2>3, <3>1, <3>3, <3>4, <3>5, ReviewerFrame
  <2>4. QED
    BY <1>2, <1>5, <2>2, <2>3 DEF ApproveSave
<1>6. CASE ApproveMark(p)
  <2>1. /\ op'[p].pc = "done" /\ op'[p].draft = d /\ op[p].pc = "mark"
        /\ \A q \in Procs \ {p} : op'[q] = op[q]
    BY <1>2, <1>6, GotoFields DEF ApproveMark
  <2>2. Reviewing(d)' = Reviewing(d) \ {p}
    BY <2>1, <1>2 DEF Reviewing, Ended
  <2>3. /\ draft' = [draft EXCEPT ![d] = "approved"] /\ made' = made /\ clash' = clash
        /\ source' = source
    BY <1>2, <1>6 DEF ApproveMark, history
  <2>4. draft'[d] = "approved" /\ \A e \in Drafts \ {d} : draft'[e] = draft[e]
    BY <1>2, <2>3 DEF Typed, TypeOK
  <2>5. ReviewAlone(d) => ReviewAlone(d)'
    BY <1>2, <2>1, <2>2, <2>3, <2>4 DEF ReviewAlone
  <2>6. ~DraftWaits(d)
    BY <1>2, <2>1 DEF DraftWaits
  <2>7. QED
    BY <1>2, <2>1, <2>3, <2>4, <2>5, <2>6, ReviewerFrame
<1>7. CASE ApproveFails(p)
  <2>1. /\ op'[p].pc = "failed" /\ op'[p].draft = d /\ op[p].pc = "load"
        /\ \A q \in Procs \ {p} : op'[q] = op[q]
    BY <1>2, <1>7, GotoFields DEF ApproveFails, At
  <2>2. Reviewing(d)' = Reviewing(d) \ {p} /\ \A q \in Reviewing(d)' : op'[q] = op[q]
    BY <2>1, <1>2 DEF Reviewing, Ended
  <2>3. draft' = draft /\ made' = made /\ clash' = clash /\ source' = source
    BY <1>2, <1>7 DEF ApproveFails, history
  <2>4. DraftWaits(d) => DraftWaits(d)'
    BY <1>2, <2>2, <2>3 DEF DraftWaits
  <2>5. ReviewAlone(d) => ReviewAlone(d)'
    BY <1>2, <2>1, <2>2, <2>3 DEF ReviewAlone
  <2>6. QED
    BY <1>2, <2>1, <2>3, <2>4, <2>5, ReviewerFrame
<1>8. CASE Die(p)
  <2>1. /\ op'[p].pc = "dead" /\ op'[p].draft = d
        /\ \A q \in Procs \ {p} : op'[q] = op[q]
    BY <1>2, <1>8, GotoFields DEF Die
  <2>2. Reviewing(d)' = Reviewing(d) \ {p} /\ \A q \in Reviewing(d)' : op'[q] = op[q]
    BY <2>1, <1>2 DEF Reviewing, Ended
  <2>3. /\ draft' = draft /\ made' = made /\ d \in clash' /\ clash \subseteq clash'
        /\ source' = source
    BY <1>2, <1>8 DEF Die
  <2>4. DraftWaits(d) => DraftWaits(d)'
    BY <1>2, <2>2, <2>3 DEF DraftWaits
  <2>5. QED
    BY <1>2, <2>1, <2>3, <2>4, ReviewerFrame
<1>9. QED
  BY <1>0, <1>3, <1>4, <1>5, <1>6, <1>7, <1>8, SMTT(30)

(* create_draft adds a draft that nobody can be reviewing yet. *)
LEMMA CreateDraftKeeps ==
  ASSUME Typed, ReviewInv, NEW p \in Procs, CreateDraft(p)
  PROVE  ReviewInv'
<1>1. /\ op[p].kind = "compile" /\ op'[p].pc = "done" /\ op'[p].draft = None
      /\ \A q \in Procs \ {p} : op'[q] = op[q]
  BY GotoFields DEF CreateDraft, At, Typed, OpOK
<1>2. PICK d \in Drafts : draft[d] = "none" /\ draft' = [draft EXCEPT ![d] = "pending"]
  BY DEF CreateDraft
<1>3. made' = made /\ clash' = clash
  BY DEF CreateDraft, history
<1>4. \A q \in Procs : op[q].draft # d /\ op'[q].draft # d
  BY <1>1, <1>2, ArticlesAssumption DEF ReviewInv
<1>5. Reviewing(d) = {} /\ Reviewing(d)' = {}
  BY <1>4 DEF Reviewing
<1>6. draft'[d] = "pending" /\ \A e \in Drafts \ {d} : draft'[e] = draft[e]
  BY <1>2 DEF Typed, TypeOK
<1>7. ASSUME NEW e \in Drafts \ clash
      PROVE  ReviewAlone(e)'
  <2>1. ReviewAlone(e)
    BY <1>7 DEF ReviewInv
  <2>2. CASE e = d
    BY <1>2, <1>3, <1>5, <1>6, <2>1, <2>2 DEF ReviewAlone
  <2>3. CASE e # d
    <3>1. Reviewing(e)' = Reviewing(e) /\ \A q \in Reviewing(e) : op'[q] = op[q]
      BY <1>1, ArticlesAssumption DEF Reviewing, Typed, OpOK
    <3>2. QED
      BY <1>3, <1>6, <2>1, <2>3, <3>1 DEF ReviewAlone
  <2>4. QED
    BY <2>2, <2>3
<1>8. DraftWaits(d)'
  BY <1>5, <1>6 DEF DraftWaits
<1>9. \A q \in Procs, e \in Drafts : op'[q].draft = e => draft'[e] # "none"
  BY <1>1, <1>6, ArticlesAssumption DEF ReviewInv
<1>10. QED
  BY <1>3, <1>7, <1>8, <1>9 DEF ReviewInv

(* The operations that are not reviews. *)
LEMMA NoReviewKeeps ==
  ASSUME Typed, ReviewInv, NEW p \in Procs,
         op[p].kind \notin {"approve", "guided", "reject"}, Step(p) \/ Die(p)
  PROVE  ReviewInv'
<1>1. op[p].draft = None
  BY DEF Typed, OpOK
<1>2. CASE CreateDraft(p)
  BY <1>2, CreateDraftKeeps
<1>3. CASE \/ EditWrite(p) \/ RecompileWrite(p) \/ SweepWrite(p)
           \/ \E a \in Arts : SweepRead(p, a)
  <2>1. op'[p].draft = None /\ \A q \in Procs \ {p} : op'[q] = op[q]
    <3>1. op \in [Procs -> Operation]
      BY DEF Typed, TypeOK
    <3>2. CASE EditWrite(p) \/ RecompileWrite(p)
      BY <1>1, <3>1, <3>2 DEF EditWrite, RecompileWrite, Operation
    <3>3. CASE SweepWrite(p)
      BY <1>1, <3>1, <3>3 DEF SweepWrite, Operation
    <3>4. ASSUME NEW a \in Arts, SweepRead(p, a)
          PROVE  op'[p].draft = None /\ \A q \in Procs \ {p} : op'[q] = op[q]
      BY <1>1, <3>1, <3>4 DEF SweepRead, Operation
    <3>5. QED
      BY <1>3, <3>2, <3>3, <3>4
  <2>2. UNCHANGED <<draft, made, clash, source>>
    BY <1>3 DEF EditWrite, RecompileWrite, SweepWrite, SweepRead, history
  <2>3. QED
    BY <2>1, <2>2, ReviewFrame
<1>4. CASE \/ EditCommit(p) \/ QueueRecompile(p) \/ RunRecompile(p) \/ RecompileFails(p)
           \/ RecompileCommit(p) \/ RecompileEnds(p) \/ CompileFails(p) \/ StubCommit(p)
           \/ EndSweep(p) \/ Die(p)
  <2>1. \E pc \in Steps : Goto(p, pc)
    BY <1>4 DEF EditCommit, QueueRecompile, RunRecompile, RecompileFails,
                RecompileCommit, RecompileEnds, CompileFails, StubCommit, EndSweep, Die, Steps,
                Ended
  <2>2. op'[p].draft = None /\ \A q \in Procs \ {p} : op'[q] = op[q]
    BY <1>1, <2>1, GotoFields
  <2>3. /\ UNCHANGED <<draft, made>> /\ clash \subseteq clash'
        /\ source' = source \/ source' # "review_pending"
    BY <1>4 DEF EditCommit, QueueRecompile, RunRecompile, RecompileFails,
                RecompileCommit, RecompileEnds, CompileFails, StubCommit, EndSweep, Die, history
  <2>4. QED
    BY <2>2, <2>3, ReviewFrame
<1>5. QED
  BY <1>2, <1>3, <1>4 DEF Step, RejectDraft, ApproveWrite, ApproveSave, ApproveMark,
                          ApproveFails, At

(* What no operation has begun is reviewed by nobody. *)
LEMMA InitReviewInv == Init => ReviewInv
  BY ArticlesAssumption DEF Init, ReviewInv, ReviewAlone, Reviewing, Idle, Ended

(* Every step keeps what is said of reviews. *)
LEMMA NextReviewInv == Typed /\ ReviewInv /\ [Next]_vars => ReviewInv'
<1> SUFFICES ASSUME Typed, ReviewInv, [Next]_vars
             PROVE  ReviewInv'
  OBVIOUS
<1>1. ASSUME NEW p \in Procs, Start(p)
      PROVE  ReviewInv'
  <2>1. ASSUME NEW d \in Drafts, NEW kind \in {"approve", "guided", "reject"},
               BeginReview(p, d, kind)
        PROVE  ReviewInv'
    BY <2>1, BeginReviewKeeps
  <2>2. CASE \/ \E a \in Arts, b \in BOOLEAN : BeginEdit(p, a, b) \/ PostRecompile(p, a, b)
             \/ \E a \in Arts : StubWrite(p, a)
             \/ BeginCompile(p) \/ BeginSweep(p)
    <3>1. /\ op[p].pc = "idle" /\ op'[p].draft = None
          /\ \A q \in Procs \ {p} : op'[q] = op[q]
      <4>1. op \in [Procs -> Operation]
        BY DEF Typed, TypeOK
      <4>2. ASSUME NEW a \in Arts, NEW b \in BOOLEAN, BeginEdit(p, a, b)
            PROVE  /\ op[p].pc = "idle" /\ op'[p].draft = None
                   /\ \A q \in Procs \ {p} : op'[q] = op[q]
        BY <4>1, <4>2 DEF BeginEdit, Begin, Idle
      <4>3. ASSUME NEW a \in Arts, NEW b \in BOOLEAN, PostRecompile(p, a, b)
            PROVE  /\ op[p].pc = "idle" /\ op'[p].draft = None
                   /\ \A q \in Procs \ {p} : op'[q] = op[q]
        BY <4>1, <4>3 DEF PostRecompile, Begin, Idle
      <4>4. ASSUME NEW a \in Arts, StubWrite(p, a)
            PROVE  /\ op[p].pc = "idle" /\ op'[p].draft = None
                   /\ \A q \in Procs \ {p} : op'[q] = op[q]
        BY <4>1, <4>4 DEF StubWrite, Begin, Idle
      <4>5. CASE BeginCompile(p) \/ BeginSweep(p)
        BY <4>1, <4>5 DEF BeginCompile, BeginSweep, Begin, Idle
      <4>6. QED
        BY <2>2, <4>2, <4>3, <4>4, <4>5
    <3>2. /\ UNCHANGED <<draft, made, clash>>
          /\ source' = source \/ source' # "review_pending"
      BY <2>2 DEF BeginEdit, PostRecompile, StubWrite, BeginCompile, BeginSweep, history
    <3>3. QED
      BY <3>1, <3>2, ReviewFrame DEF Ended
  <2>3. QED
    BY <1>1, <2>1, <2>2 DEF Start
<1>2. CASE UNCHANGED vars
  <2>1. \A d \in Drafts : Reviewing(d)' = Reviewing(d)
    BY <1>2 DEF vars, Reviewing
  <2>2. QED
    BY <1>2, <2>1 DEF vars, ReviewInv, ReviewAlone, DraftWaits
<1>3. QED
  BY <1>1, <1>2, NoReviewKeeps, ReviewStepKeeps DEF Next

(* services/draft.py: an approved draft was saved once, a rejected one never,   *)
(* unless two reviews of it overlapped or one was cut short, and a source that  *)
(* waits for review has a draft to review, however many operations there are.   *)
THEOREM ReviewsAlwaysSound == Spec => []ReviewsSound
<1>1. Typed /\ ReviewInv => ReviewsSound
  <2> SUFFICES ASSUME Typed, ReviewInv
               PROVE  DraftOnce /\ ReviewHasDraft
    BY DEF ReviewsSound, Typed
  <2>1. ASSUME NEW d \in Drafts \ clash
        PROVE  /\ made[d] = {} \/ \E p \in Procs : made[d] = {p}
               /\ draft[d] = "rejected" => made[d] = {}
               /\ draft[d] = "approved" => made[d] # {}
               /\ draft[d] = "pending" /\ Reviewing(d) = {} => made[d] = {}
    <3>1. ReviewAlone(d)
      BY <2>1 DEF ReviewInv
    <3>2. CASE Reviewing(d) = {}
      BY <3>1, <3>2 DEF ReviewAlone
    <3>3. CASE Reviewing(d) # {}
      BY <3>1, <3>3 DEF ReviewAlone, Reviewing
    <3>4. QED
      BY <3>2, <3>3
  <2>2. \A S : S = {} \/ (\E p \in Procs : S = {p}) => Cardinality(S) <= 1
    BY FS_EmptySet, FS_Singleton
  <2>3. DraftOnce
    BY <2>1, <2>2 DEF DraftOnce
  <2>4. ReviewHasDraft
    BY DEF ReviewInv, ReviewHasDraft, DraftWaits
  <2>5. QED
    BY <2>3, <2>4
<1>2. QED
  BY <1>1, InitTyped, NextTyped, InitReviewInv, NextReviewInv, PTL DEF Spec

-----------------------------------------------------------------------------
(* Manual edits *)

(* Nobody writes at the start, and nothing has been edited. *)
LEMMA InitEditInv == Init => EditInv
  BY ArticlesAssumption
     DEF Init, EditInv, EditHeld, EditorsListed, EditAlone, OverwritersListed, ContentEdit,
         TitleEdit, Overwriter, At, Idle

(* A step of an operation that is not, or no longer, an edit: it may add        *)
(* itself to the rivals; it clears a row's flag or replaces a text that an edit *)
(* relies on only as a rival.                                                   *)
LEMMA EditFrame ==
  ASSUME Typed, EditInv, NEW p \in Procs,
         \A q \in Procs \ {p} : op'[q] = op[q],
         op'[p].pc # "idle", op'[p].kind # "edit" \/ op'[p].pc \in Ended,
         lastEdit' = lastEdit,
         \A a \in Arts : /\ rivals'[a] \in {rivals[a], rivals[a] \cup {p}}
                         /\ row[a].live => row'[a].live
                         /\ row[a].edited => row'[a].edited \/ p \in rivals'[a],
         \A a \in Arts : \/ file'[a].by = file[a].by
                         \/ p \in rivals'[a]
                         \/ lastEdit[a] = None /\ ~row[a].live
                         \/ /\ lastEdit[a] = None \/ rivals[a] # {}
                            /\ \A q \in Procs : ~ContentEdit(q, a),
         \A a \in Arts :
            Overwriter(p, a)'
               => \/ p \in rivals'[a]
                  \/ /\ \A q \in Procs : ~ContentEdit(q, a)
                     /\ \/ lastEdit[a] = None \/ rivals[a] # {}
                        \/ op'[p].kind = "sweep" /\ op'[p].got = file'[a].by
  PROVE  EditInv'
<1>1. \A q \in Procs, a \in Arts :
         /\ ContentEdit(q, a)' => q # p /\ ContentEdit(q, a)
         /\ TitleEdit(q, a)' => q # p /\ TitleEdit(q, a)
         /\ q # p => (Overwriter(q, a)' <=> Overwriter(q, a))
  BY DEF ContentEdit, TitleEdit, Overwriter, At, Ended
<1>2. /\ \A a \in Arts : rivals[a] \subseteq rivals'[a]
      /\ \A a \in Arts : lastEdit[a] # None => row[a].live
  BY DEF EditInv
<1>3. \A a \in Arts : lastEdit'[a] # None => row'[a].live
  BY <1>2
<1>4. EditHeld'
  BY <1>2 DEF EditInv, EditHeld
<1>5. EditorsListed'
  BY <1>1, <1>2 DEF EditInv, EditorsListed
<1>6. EditAlone'
  <2> SUFFICES ASSUME NEW q \in Procs, NEW a \in Arts, ContentEdit(q, a)', rivals'[a] = {q}
               PROVE  /\ op'[q].pc = "commit" => file'[a].by = q
                      /\ op'[q].seen => row'[a].edited
    BY DEF EditAlone
  <2>1. q # p /\ ContentEdit(q, a) /\ op'[q] = op[q]
    BY <1>1
  <2>2. rivals[a] = {q} /\ p \notin rivals'[a] /\ row[a].live
    BY <2>1 DEF EditInv, EditorsListed
  <2>3. QED
    BY <2>1, <2>2 DEF EditInv, EditAlone
<1>7. OverwritersListed'
  <2> SUFFICES ASSUME NEW q \in Procs, NEW a \in Arts, Overwriter(q, a)', q \notin rivals'[a]
               PROVE  /\ \A r \in Procs : ~ContentEdit(r, a)'
                      /\ \/ lastEdit'[a] = None \/ rivals'[a] # {}
                         \/ op'[q].kind = "sweep" /\ op'[q].got = file'[a].by
    BY DEF OverwritersListed
  <2>1. CASE q = p
    BY <1>1, <1>2, <2>1
  <2>2. CASE q # p
    <3>1. Overwriter(q, a) /\ q \notin rivals[a] /\ op'[q] = op[q]
      BY <1>1, <1>2, <2>2
    <3>2. /\ \A r \in Procs : ~ContentEdit(r, a)
          /\ \/ lastEdit[a] = None \/ rivals[a] # {}
             \/ op[q].kind = "sweep" /\ op[q].got = file[a].by
      BY <3>1 DEF EditInv, OverwritersListed
    <3>3. QED
      BY <1>1, <1>2, <3>1, <3>2
  <2>3. QED
    BY <2>1, <2>2
<1>8. QED
  BY <1>3, <1>4, <1>5, <1>6, <1>7 DEF EditInv

(* An edit begins: whoever is writing the article becomes its rival. *)
LEMMA BeginEditKeeps ==
  ASSUME Typed, EditInv, NEW p \in Procs, NEW b \in Arts, NEW content \in BOOLEAN,
         BeginEdit(p, b, content)
  PROVE  EditInv'
<1>1. /\ op[p].pc = "idle" /\ op'[p].kind = "edit" /\ op'[p].art = b
      /\ op'[p].pc = (IF content THEN "write" ELSE "commit")
      /\ op'[p].seen = row[b].edited /\ op'[p].got = None
      /\ \A q \in Procs \ {p} : op'[q] = op[q]
  BY DEF BeginEdit, Begin, Idle, Typed, TypeOK
<1>2. UNCHANGED <<row, file, lastEdit>> /\ row[b].live
  BY DEF BeginEdit
<1>3. \A q \in Procs, a \in Arts :
         /\ q # p => /\ ContentEdit(q, a)' <=> ContentEdit(q, a)
                     /\ TitleEdit(q, a)' <=> TitleEdit(q, a)
                     /\ Overwriter(q, a)' <=> Overwriter(q, a)
         /\ ContentEdit(p, a)' => a = b /\ content
         /\ TitleEdit(p, a)' => a = b /\ ~content
         /\ ~Overwriter(p, a)'
  BY <1>1, ArticlesAssumption DEF ContentEdit, TitleEdit, Overwriter, At
<1>4. /\ \A a \in Arts : p \notin rivals[a]
      /\ \A a \in Arts \ {b} : rivals'[a] = rivals[a]
      /\ ~content => rivals' = rivals
  BY <1>1 DEF BeginEdit, EditInv, EditorsListed, Typed, TypeOK
<1>5. ASSUME content
      PROVE  /\ p \in rivals'[b]
             /\ \A q \in Procs \ {p} : op[q].pc = "idle" => q \notin rivals'[b]
             /\ \A q \in Procs : Overwriter(q, b) \/ ContentEdit(q, b) => q \in rivals'[b]
  <2>1. rivals'[b] = {p} \cup Writers(b) \cup (IF Editing(b) # {} THEN rivals[b] ELSE {})
    BY <1>5 DEF BeginEdit, Typed, TypeOK
  <2>2. \A q \in Procs : op[q].pc = "idle" => q \notin Writers(b) /\ q \notin rivals[b]
    BY DEF Writers, Ended, EditInv, EditorsListed
  <2>3. \A q \in Procs : Overwriter(q, b) \/ ContentEdit(q, b) => q \in Writers(b)
    BY DEF Overwriter, ContentEdit, At, Writers, Ended
  <2>4. QED
    BY <2>1, <2>2, <2>3
<1>6. EditHeld'
  BY <1>2, <1>4, <1>5 DEF EditInv, EditHeld
<1>7. EditorsListed'
  <2> SUFFICES ASSUME NEW q \in Procs, NEW a \in Arts
               PROVE  /\ op'[q].pc = "idle" => q \notin rivals'[a]
                      /\ ContentEdit(q, a)' => q \in rivals'[a] /\ row'[a].live
                      /\ TitleEdit(q, a)' => rivals'[a] # {q} /\ row'[a].live
    BY DEF EditorsListed
  <2>1. CASE q = p
    BY <1>1, <1>2, <1>3, <1>4, <1>5, <2>1
  <2>2. CASE q # p
    <3>1. /\ op'[q] = op[q]
          /\ op[q].pc = "idle" => q \notin rivals[a]
          /\ ContentEdit(q, a) => q \in rivals[a] /\ row[a].live
          /\ TitleEdit(q, a) => rivals[a] # {q} /\ row[a].live
      BY <1>1, <2>2 DEF EditInv, EditorsListed
    <3>2. QED
      BY <1>2, <1>3, <1>4, <1>5, <2>2, <3>1
  <2>3. QED
    BY <2>1, <2>2
<1>8. EditAlone'
  BY <1>1, <1>2, <1>3, <1>4, <1>5 DEF EditInv, EditAlone
<1>9. OverwritersListed'
  BY <1>1, <1>2, <1>3, <1>4, <1>5 DEF EditInv, OverwritersListed
<1>10. QED
  BY <1>2, <1>6, <1>7, <1>8, <1>9 DEF EditInv

(* An edit writes the file: it is among the rivals, and stays the only one. *)
LEMMA EditWriteKeeps ==
  ASSUME Typed, EditInv, NEW p \in Procs, EditWrite(p)
  PROVE  EditInv'
<1>1. PICK b \in Arts : b = op[p].art
  BY DEF EditWrite, At, Typed, OpOK
<1>2. /\ op'[p].kind = "edit" /\ op'[p].art = b /\ op'[p].pc = "commit"
      /\ op'[p].seen = op[p].seen /\ op'[p].got = p
      /\ \A q \in Procs \ {p} : op'[q] = op[q]
  BY <1>1 DEF EditWrite, At, Typed, TypeOK, Operation
<1>3. UNCHANGED <<row, lastEdit, rivals>>
  BY DEF EditWrite, history
<1>4. file'[b].by = p /\ \A a \in Arts \ {b} : file'[a] = file[a]
  BY <1>1 DEF EditWrite, Store, Typed, TypeOK
<1>5. ContentEdit(p, b)
  BY <1>1 DEF EditWrite, At, ContentEdit
<1>6. p \in rivals[b] /\ row[b].live
  BY <1>5 DEF EditInv, EditorsListed
<1>7. \A q \in Procs, a \in Arts :
         /\ ContentEdit(q, a)' <=> ContentEdit(q, a)
         /\ TitleEdit(q, a)' => q # p /\ TitleEdit(q, a)
         /\ Overwriter(q, a)' => q # p /\ Overwriter(q, a)
  BY <1>1, <1>2, <1>5 DEF ContentEdit, TitleEdit, Overwriter, At
<1>8. EditHeld'
  BY <1>3, <1>4, <1>6 DEF EditInv, EditHeld
<1>9. EditorsListed'
  BY <1>2, <1>3, <1>7 DEF EditInv, EditorsListed
<1>10. EditAlone'
  <2> SUFFICES ASSUME NEW q \in Procs, NEW a \in Arts, ContentEdit(q, a), rivals[a] = {q}
               PROVE  /\ op'[q].pc = "commit" => file'[a].by = q
                      /\ op'[q].seen => row'[a].edited
    BY <1>3, <1>7 DEF EditAlone
  <2>1. op[q].seen => row[a].edited
    BY DEF EditInv, EditAlone
  <2>2. CASE q = p
    <3>1. a = b
      BY <1>1, <2>2 DEF ContentEdit
    <3>2. QED
      BY <1>2, <1>3, <1>4, <2>1, <2>2, <3>1
  <2>3. CASE q # p
    <3>1. a # b
      BY <1>6, <2>3
    <3>2. QED
      BY <1>2, <1>3, <1>4, <2>3, <3>1 DEF EditInv, EditAlone
  <2>4. QED
    BY <2>2, <2>3
<1>11. OverwritersListed'
  <2> SUFFICES ASSUME NEW q \in Procs, NEW a \in Arts, Overwriter(q, a), q # p,
                      q \notin rivals[a]
               PROVE  /\ \A r \in Procs : ~ContentEdit(r, a)
                      /\ \/ lastEdit[a] = None \/ rivals[a] # {}
                         \/ op'[q].kind = "sweep" /\ op'[q].got = file'[a].by
    BY <1>3, <1>7 DEF OverwritersListed
  <2>1. /\ \A r \in Procs : ~ContentEdit(r, a)
        /\ \/ lastEdit[a] = None \/ rivals[a] # {}
           \/ op[q].kind = "sweep" /\ op[q].got = file[a].by
    BY DEF EditInv, OverwritersListed
  <2>2. a # b
    BY <1>5, <2>1
  <2>3. QED
    BY <1>2, <1>4, <2>1, <2>2
<1>12. QED
  BY <1>3, <1>8, <1>9, <1>10, <1>11 DEF EditInv

(* An edit commits: with no rival, what it stored is what the row vouches for. *)
LEMMA EditCommitKeeps ==
  ASSUME Typed, EditInv, NEW p \in Procs, EditCommit(p)
  PROVE  EditInv'
<1>1. PICK b \in Arts : b = op[p].art
  BY DEF EditCommit, At, Typed, OpOK
<1>2. op'[p].pc = "done" /\ \A q \in Procs \ {p} : op'[q] = op[q]
  BY GotoFields DEF EditCommit
<1>3. file' = file /\ op[p].pc = "commit" /\ op[p].kind = "edit"
  BY DEF EditCommit, At
<1>4. /\ row[b].edited \/ ~op[p].seen => row'[b].edited
      /\ row'[b].live = row[b].live
      /\ \A a \in Arts \ {b} : row'[a] = row[a]
  <2>1. row[b] \in ArticleRow /\ row \in [Arts -> ArticleRow]
    BY DEF Typed, TypeOK
  <2>2. CASE op[p].seen
    <3>1. row' = [row EXCEPT ![b].edited = row[b].edited]
      BY <1>1, <2>2 DEF EditCommit
    <3>2. QED
      BY <2>1, <2>2, <3>1 DEF ArticleRow
  <2>3. CASE ~op[p].seen
    <3>1. row' = [row EXCEPT ![b].edited = TRUE]
      BY <1>1, <2>3 DEF EditCommit
    <3>2. QED
      BY <2>1, <3>1 DEF ArticleRow
  <2>4. QED
    BY <2>2, <2>3
<1>5. /\ lastEdit'[b] = (IF op[p].got = p THEN p ELSE lastEdit[b])
      /\ rivals'[b] = (IF rivals[b] = {p} THEN {} ELSE rivals[b])
      /\ \A a \in Arts \ {b} : lastEdit'[a] = lastEdit[a] /\ rivals'[a] = rivals[a]
  BY <1>1 DEF EditCommit, Typed, TypeOK
<1>6. CASE op[p].got # p
  <2>1. TitleEdit(p, b)
    BY <1>1, <1>3, <1>6 DEF TitleEdit, At
  <2>2. \A a \in Arts : lastEdit'[a] = lastEdit[a] /\ rivals'[a] = rivals[a]
    BY <1>5, <1>6, <2>1 DEF EditInv, EditorsListed
  <2>3. lastEdit' = lastEdit
    BY <2>2 DEF EditCommit, Typed, TypeOK
  <2>4. \A a \in Arts : ~Overwriter(p, a)'
    BY <1>2 DEF Overwriter, At
  <2>5. \A a \in Arts : /\ row[a].live => row'[a].live
                        /\ row[a].edited => row'[a].edited
    BY <1>4
  <2>6. QED
    BY <1>2, <1>3, <2>2, <2>3, <2>4, <2>5, EditFrame DEF Ended
<1>7. CASE op[p].got = p
  <2>1. ContentEdit(p, b)
    BY <1>1, <1>3, <1>7 DEF ContentEdit
  <2>2. p \in rivals[b] /\ row[b].live
    BY <2>1 DEF EditInv, EditorsListed
  <2>3. \A q \in Procs, a \in Arts :
           /\ ContentEdit(q, a)' => q # p /\ ContentEdit(q, a)
           /\ TitleEdit(q, a)' => q # p /\ TitleEdit(q, a)
           /\ Overwriter(q, a)' => q # p /\ Overwriter(q, a)
    BY <1>2 DEF ContentEdit, TitleEdit, Overwriter, At
  <2>4. EditHeld'
    <3>1. rivals[b] = {p} => file[b].by = p /\ (op[p].seen => row[b].edited)
      BY <1>3, <2>1 DEF EditInv, EditAlone
    <3>2. QED
      BY <1>3, <1>4, <1>5, <1>7, <2>2, <3>1 DEF EditInv, EditHeld
  <2>5. EditorsListed'
    <3> SUFFICES ASSUME NEW q \in Procs \ {p}, NEW a \in Arts
                 PROVE  /\ op'[q].pc = "idle" => q \notin rivals'[a]
                        /\ ContentEdit(q, a) => q \in rivals'[a] /\ row'[a].live
                        /\ TitleEdit(q, a) => rivals'[a] # {q} /\ row'[a].live
      BY <1>2, <2>3 DEF EditorsListed
    <3>1. /\ op'[q] = op[q]
          /\ op[q].pc = "idle" => q \notin rivals[a]
          /\ ContentEdit(q, a) => q \in rivals[a] /\ row[a].live
          /\ TitleEdit(q, a) => rivals[a] # {q} /\ row[a].live
      BY <1>2 DEF EditInv, EditorsListed
    <3>2. QED
      BY <1>4, <1>5, <3>1
  <2>6. EditAlone'
    <3> SUFFICES ASSUME NEW q \in Procs \ {p}, NEW a \in Arts, ContentEdit(q, a),
                        rivals'[a] = {q}
                 PROVE  /\ op'[q].pc = "commit" => file'[a].by = q
                        /\ op'[q].seen => row'[a].edited
      BY <2>3 DEF EditAlone
    <3>1. rivals[a] = {q} /\ op'[q] = op[q]
      BY <1>2, <1>5
    <3>2. /\ op[q].pc = "commit" => file[a].by = q
          /\ op[q].seen => row[a].edited
      BY <3>1 DEF EditInv, EditAlone
    <3>3. QED
      BY <1>3, <1>4, <3>1, <3>2
  <2>7. OverwritersListed'
    <3> SUFFICES ASSUME NEW q \in Procs, NEW a \in Arts, Overwriter(q, a), q # p,
                        q \notin rivals'[a]
                 PROVE  /\ \A r \in Procs : ~ContentEdit(r, a)'
                        /\ \/ lastEdit'[a] = None \/ rivals'[a] # {}
                           \/ op'[q].kind = "sweep" /\ op'[q].got = file'[a].by
      BY <2>3 DEF OverwritersListed
    <3>1. \/ q \in rivals[a]
          \/ /\ \A r \in Procs : ~ContentEdit(r, a)
             /\ \/ lastEdit[a] = None \/ rivals[a] # {}
                \/ op[q].kind = "sweep" /\ op[q].got = file[a].by
      BY DEF EditInv, OverwritersListed
    <3>2. a # b
      BY <1>5, <2>1, <3>1
    <3>3. QED
      BY <1>2, <1>3, <1>5, <2>3, <3>1, <3>2
  <2>8. QED
    BY <1>4, <1>5, <2>2, <2>4, <2>5, <2>6, <2>7 DEF EditInv
<1>8. QED
  BY <1>6, <1>7

(* A recompilation is accepted: of an edited page only as a rival. *)
LEMMA PostRecompileKeeps ==
  ASSUME Typed, EditInv, NEW p \in Procs, NEW b \in Arts, NEW force \in BOOLEAN,
         PostRecompile(p, b, force)
  PROVE  EditInv'
<1>1. /\ op'[p].kind = "recompile" /\ op'[p].art = b /\ op'[p].pc = "enqueue"
      /\ \A q \in Procs \ {p} : op'[q] = op[q]
  BY DEF PostRecompile, Begin, Idle, Typed, TypeOK
<1>2. file' = file /\ lastEdit' = lastEdit /\ row[b].live /\ (row[b].edited => force)
  BY DEF PostRecompile, RecompileAccepts
<1>3. /\ \A a \in Arts : row'[a].live = row[a].live
      /\ \A a \in Arts \ {b} : row'[a] = row[a]
  BY DEF PostRecompile, Typed, TypeOK, ArticleRow
<1>4. \A a \in Arts : a # b => ~Overwriter(p, a)'
  BY <1>1 DEF Overwriter, At
<1>5. CASE row[b].edited
  <2>1. rivals' = [rivals EXCEPT ![b] = @ \cup {p}]
    BY <1>2, <1>5 DEF PostRecompile, Overrides
  <2>2. /\ \A a \in Arts : rivals'[a] \in {rivals[a], rivals[a] \cup {p}}
        /\ p \in rivals'[b]
    BY <2>1 DEF Typed, TypeOK
  <2>3. \A a \in Arts : /\ rivals'[a] \in {rivals[a], rivals[a] \cup {p}}
                        /\ row[a].live => row'[a].live
                        /\ row[a].edited => row'[a].edited \/ p \in rivals'[a]
    BY <1>3, <2>2
  <2>4. QED
    BY <1>1, <1>2, <1>4, <2>2, <2>3, EditFrame
<1>6. CASE ~row[b].edited
  <2>1. rivals' = [rivals EXCEPT ![b] = IF Editing(b) # {} THEN @ \cup {p} ELSE @]
    BY <1>6 DEF PostRecompile, Enter
  <2>2. \A a \in Arts : /\ rivals'[a] \in {rivals[a], rivals[a] \cup {p}}
                        /\ row[a].live => row'[a].live
                        /\ row[a].edited => row'[a].edited \/ p \in rivals'[a]
    BY <1>3, <1>6, <2>1 DEF Typed, TypeOK
  <2>3. \/ p \in rivals'[b]
        \/ (\A q \in Procs : ~ContentEdit(q, b)) /\ (lastEdit[b] = None \/ rivals[b] # {})
    <3>1. CASE Editing(b) # {}
      BY <2>1, <3>1 DEF Typed, TypeOK
    <3>2. CASE Editing(b) = {}
      <4>1. \A q \in Procs : ~ContentEdit(q, b)
        BY <3>2 DEF Editing, Writers, ContentEdit, At, Ended
      <4>2. QED
        BY <1>6, <4>1 DEF EditInv, EditHeld
    <3>3. QED
      BY <3>1, <3>2
  <2>4. QED
    BY <1>1, <1>2, <1>4, <2>2, <2>3, EditFrame
<1>7. QED
  BY <1>5, <1>6

(* The steps that neither store a text nor turn an operation into one that will. *)
LEMMA QuietKeepsEdits ==
  ASSUME Typed, EditInv, NEW p \in Procs,
         \A q \in Procs \ {p} : op'[q] = op[q],
         op'[p].pc # "idle", op'[p].kind # "edit" \/ op'[p].pc \in Ended,
         \A a \in Arts : Overwriter(p, a)' => Overwriter(p, a) /\ op'[p].kind = op[p].kind
                                              /\ op'[p].got = op[p].got,
         UNCHANGED <<lastEdit, rivals, file>>,
         \A a \in Arts : /\ row[a].live => row'[a].live
                         /\ row[a].edited => row'[a].edited
  PROVE  EditInv'
<1>1. \A a \in Arts :
         Overwriter(p, a)
            => \/ p \in rivals'[a]
               \/ /\ \A q \in Procs : ~ContentEdit(q, a)
                  /\ \/ lastEdit[a] = None \/ rivals[a] # {}
                     \/ op[p].kind = "sweep" /\ op[p].got = file'[a].by
  BY DEF EditInv, OverwritersListed
<1>2. QED
  BY <1>1, EditFrame

(* The steps that store a text: a rival's, or over a page nobody is editing. *)
LEMMA OverwriteKeeps ==
  ASSUME Typed, EditInv, NEW p \in Procs, RecompileWrite(p) \/ SweepWrite(p)
  PROVE  EditInv'
<1>1. PICK b \in Arts : b = op[p].art /\ Overwriter(p, b)
  BY DEF RecompileWrite, SweepWrite, At, Typed, OpOK, Overwriter
<1>2. /\ op'[p].pc \in {"commit", "next"} /\ op'[p].kind \in {"recompile", "sweep"}
      /\ \A q \in Procs \ {p} : op'[q] = op[q]
  <2>1. op \in [Procs -> Operation]
    BY DEF Typed, TypeOK
  <2>2. CASE RecompileWrite(p)
    BY <2>1, <2>2 DEF RecompileWrite, At, Operation
  <2>3. CASE SweepWrite(p)
    BY <2>1, <2>3 DEF SweepWrite, At, Operation
  <2>4. QED
    BY <2>2, <2>3
<1>3. UNCHANGED <<row, lastEdit, rivals>>
  BY DEF RecompileWrite, SweepWrite, history
<1>4. /\ \A a \in Arts \ {b} : file'[a] = file[a]
      /\ op[p].kind = "sweep" /\ op[p].got = file[b].by => file'[b].by = file[b].by
  BY <1>1 DEF RecompileWrite, SweepWrite, At, Store, Typed, TypeOK
<1>5. \A a \in Arts : ~Overwriter(p, a)'
  BY <1>2 DEF Overwriter, At
<1>6. \/ p \in rivals[b]
      \/ /\ \A q \in Procs : ~ContentEdit(q, b)
         /\ \/ lastEdit[b] = None \/ rivals[b] # {}
            \/ op[p].kind = "sweep" /\ op[p].got = file[b].by
  BY <1>1 DEF EditInv, OverwritersListed
<1>7. \A a \in Arts : \/ file'[a].by = file[a].by
                      \/ p \in rivals'[a]
                      \/ /\ lastEdit[a] = None \/ rivals[a] # {}
                         /\ \A q \in Procs : ~ContentEdit(q, a)
  BY <1>3, <1>4, <1>6
<1>8. QED
  BY <1>2, <1>3, <1>5, <1>7, EditFrame

(* The sweep reads a page: the edits under way there have a rival. *)
LEMMA SweepReadKeeps ==
  ASSUME Typed, EditInv, NEW p \in Procs, NEW b \in Arts, SweepRead(p, b)
  PROVE  EditInv'
<1>1. /\ op'[p].kind = "sweep" /\ op'[p].pc # "idle"
      /\ op'[p].pc = "write" => op'[p].art = b /\ op'[p].got = file[b].by /\ Enter(p, b)
      /\ op'[p].pc # "write" => rivals' = rivals
      /\ \A q \in Procs \ {p} : op'[q] = op[q]
  BY DEF SweepRead, At, Typed, TypeOK, Operation
<1>2. UNCHANGED <<row, file, lastEdit>>
  BY DEF SweepRead
<1>3. \A a \in Arts : rivals'[a] \in {rivals[a], rivals[a] \cup {p}}
  BY <1>1 DEF Enter, Typed, TypeOK
<1>4. ASSUME NEW a \in Arts, Overwriter(p, a)'
      PROVE  \/ p \in rivals'[a]
             \/ /\ \A q \in Procs : ~ContentEdit(q, a)
                /\ op'[p].kind = "sweep" /\ op'[p].got = file'[a].by
  <2>1. op'[p].pc = "write" /\ a = b
    BY <1>1, <1>4 DEF Overwriter, At
  <2>2. CASE Editing(b) # {}
    BY <1>1, <2>1, <2>2 DEF Enter, Typed, TypeOK
  <2>3. CASE Editing(b) = {}
    <3>1. \A q \in Procs : ~ContentEdit(q, b)
      BY <2>3 DEF Editing, Writers, ContentEdit, At, Ended
    <3>2. QED
      BY <1>1, <1>2, <2>1, <3>1
  <2>4. QED
    BY <2>2, <2>3
<1>5. QED
  BY <1>1, <1>2, <1>3, <1>4, EditFrame

(* Every step keeps what is said of edits. *)
LEMMA NextEditInv == Typed /\ EditInv /\ [Next]_vars => EditInv'
<1> SUFFICES ASSUME Typed, EditInv, [Next]_vars
             PROVE  EditInv'
  OBVIOUS
<1>0. op \in [Procs -> Operation] /\ rivals \in [Arts -> SUBSET Procs]
  BY DEF Typed, TypeOK
<1>1. ASSUME NEW p \in Procs, BeginCompile(p) \/ BeginSweep(p)
      PROVE  EditInv'
  <2>1. /\ op'[p].kind \in {"compile", "sweep"} /\ op'[p].pc \in {"compile", "next"}
        /\ \A q \in Procs \ {p} : op'[q] = op[q]
    <3>1. CASE BeginCompile(p)
      BY <1>0, <3>1 DEF BeginCompile, Begin, Idle
    <3>2. CASE BeginSweep(p)
      BY <1>0, <3>2 DEF BeginSweep, Begin, Idle
    <3>3. QED
      BY <1>1, <3>1, <3>2
  <2>2. UNCHANGED <<row, file, lastEdit, rivals>>
    BY <1>1 DEF BeginCompile, BeginSweep, history
  <2>3. \A a \in Arts : ~Overwriter(p, a)'
    BY <2>1 DEF Overwriter, At
  <2>4. QED
    BY <2>1, <2>2, <2>3, QuietKeepsEdits
<1>2. ASSUME NEW p \in Procs, NEW d \in Drafts,
             NEW kind \in {"approve", "guided", "reject"}, BeginReview(p, d, kind)
      PROVE  EditInv'
  <2>1. /\ op'[p].kind = kind /\ op'[p].pc = "load"
        /\ \A q \in Procs \ {p} : op'[q] = op[q]
    BY <1>0, <1>2 DEF BeginReview, Begin, Idle
  <2>2. UNCHANGED <<row, file, lastEdit, rivals>>
    BY <1>2 DEF BeginReview
  <2>3. \A a \in Arts : ~Overwriter(p, a)'
    BY <2>1 DEF Overwriter, At
  <2>4. QED
    BY <2>1, <2>2, <2>3, QuietKeepsEdits
<1>3. ASSUME NEW p \in Procs, NEW b \in Arts, StubWrite(p, b)
      PROVE  EditInv'
  <2>1. /\ op'[p].kind = "stub" /\ op'[p].pc = "commit"
        /\ \A q \in Procs \ {p} : op'[q] = op[q]
    BY <1>0, <1>3 DEF StubWrite, Begin, Idle
  <2>2. UNCHANGED <<row, lastEdit>> /\ ~row[b].live
    BY <1>3 DEF StubWrite
  <2>3. \A a \in Arts : rivals'[a] \in {rivals[a], rivals[a] \cup {p}}
    BY <1>0, <1>3 DEF StubWrite, Enter
  <2>4. \A a \in Arts : \/ file'[a].by = file[a].by
                        \/ lastEdit[a] = None /\ ~row[a].live
    BY <1>3, <2>2 DEF StubWrite, Store, Typed, TypeOK, EditInv
  <2>5. \A a \in Arts : ~Overwriter(p, a)'
    BY <2>1 DEF Overwriter, At
  <2>6. QED
    BY <2>1, <2>2, <2>3, <2>4, <2>5, EditFrame
<1>4. ASSUME NEW p \in Procs, ApproveWrite(p)
      PROVE  EditInv'
  <2>1. PICK b \in Arts :
           /\ Store(p, b, p) /\ Overrides(p, b)
           /\ op' = [op EXCEPT ![p].pc = "save", ![p].art = b,
                               ![p].got = IF row[b].live THEN b ELSE None]
    BY <1>4 DEF ApproveWrite, SaveTarget
  <2>2. /\ op'[p].kind \in {"approve", "guided"} /\ op'[p].pc = "save"
        /\ \A q \in Procs \ {p} : op'[q] = op[q]
    BY <1>0, <1>4, <2>1 DEF ApproveWrite, Operation
  <2>3. UNCHANGED <<row, lastEdit>>
    BY <1>4 DEF ApproveWrite
  <2>4. /\ \A a \in Arts : rivals'[a] \in {rivals[a], rivals[a] \cup {p}}
        /\ p \in rivals'[b]
    BY <1>0, <2>1 DEF Overrides
  <2>5. \A a \in Arts : file'[a].by = file[a].by \/ p \in rivals'[a]
    BY <2>1, <2>4 DEF Store, Typed, TypeOK
  <2>6. \A a \in Arts : ~Overwriter(p, a)'
    BY <2>2 DEF Overwriter, At
  <2>7. QED
    BY <2>2, <2>3, <2>4, <2>5, <2>6, EditFrame
<1>5. ASSUME NEW p \in Procs,
             \/ QueueRecompile(p) \/ RunRecompile(p) \/ RecompileFails(p)
             \/ RecompileCommit(p) \/ RecompileEnds(p) \/ CreateDraft(p) \/ CompileFails(p)
             \/ RejectDraft(p) \/ ApproveSave(p) \/ ApproveMark(p) \/ ApproveFails(p)
             \/ StubCommit(p) \/ EndSweep(p) \/ Die(p)
      PROVE  EditInv'
  <2>1. PICK pc \in Steps : /\ Goto(p, pc) /\ pc # "idle"
                            /\ op[p].kind # "edit" \/ pc \in Ended
                            /\ pc # "enqueue" /\ (pc = "queued" => op[p].pc = "enqueue")
                            /\ pc = "write" => op[p].pc = "queued" /\ op[p].kind = "recompile"
    BY <1>5 DEF QueueRecompile, RunRecompile, RecompileFails, RecompileCommit,
                RecompileEnds, CreateDraft, CompileFails, RejectDraft, ApproveSave,
                ApproveMark, ApproveFails, StubCommit, EndSweep, Die, At, Steps, Ended
  <2>2. /\ op'[p].pc = pc /\ op'[p].kind = op[p].kind /\ op'[p].art = op[p].art
        /\ op'[p].got = op[p].got /\ \A q \in Procs \ {p} : op'[q] = op[q]
    BY <2>1, GotoFields
  <2>3. \A a \in Arts : Overwriter(p, a)' => Overwriter(p, a)
    BY <2>1, <2>2 DEF Overwriter, At
  <2>4. UNCHANGED <<file, lastEdit, rivals>>
    BY <1>5 DEF QueueRecompile, RunRecompile, RecompileFails, RecompileCommit,
                RecompileEnds, CreateDraft, CompileFails, RejectDraft, ApproveSave,
                ApproveMark, ApproveFails, StubCommit, EndSweep, Die, history
  <2>5. \A a \in Arts : /\ row[a].live => row'[a].live
                        /\ row[a].edited => row'[a].edited
    <3>1. row \in [Arts -> ArticleRow]
      BY DEF Typed, TypeOK
    <3>2. CASE ApproveSave(p)
      BY <3>1, <3>2 DEF ApproveSave, ArticleRow
    <3>3. CASE StubCommit(p)
      BY <3>1, <3>3 DEF StubCommit, ArticleRow
    <3>4. CASE ~ApproveSave(p) /\ ~StubCommit(p)
      BY <1>5, <3>4 DEF QueueRecompile, RunRecompile, RecompileFails, RecompileCommit,
                RecompileEnds, CreateDraft, CompileFails, RejectDraft,
                ApproveMark, ApproveFails, EndSweep, Die
    <3>5. QED
      BY <3>2, <3>3, <3>4
  <2>6. QED
    BY <2>1, <2>2, <2>3, <2>4, <2>5, QuietKeepsEdits
<1>6. CASE UNCHANGED vars
  BY <1>6 DEF vars, EditInv, EditHeld, EditorsListed, EditAlone, OverwritersListed,
              ContentEdit, TitleEdit, Overwriter, At
<1>7. ASSUME NEW p \in Procs, Start(p)
      PROVE  EditInv'
  BY <1>1, <1>2, <1>3, <1>7, BeginEditKeeps, PostRecompileKeeps DEF Start
<1>8. ASSUME NEW p \in Procs, Step(p)
      PROVE  EditInv'
  BY <1>4, <1>5, <1>8, EditWriteKeeps, EditCommitKeeps, OverwriteKeeps, SweepReadKeeps
     DEF Step
<1>9. QED
  BY <1>5, <1>6, <1>7, <1>8 DEF Next

(* edit_article: the content of an acknowledged edit stays in the file and the  *)
(* row stays marked, unless another writer was under way during the edit, or a  *)
(* forced recompilation or an approval, which may overwrite, came since: for    *)
(* any number of edits, recompilations, reviews, stubs and sweeps, whichever    *)
(* of them die.                                                                 *)
THEOREM EditsAlwaysHeld == Spec => []EditHeld
<1>1. EditInv => EditHeld
  BY DEF EditInv
<1>2. QED
  BY <1>1, InitTyped, NextTyped, InitEditInv, NextEditInv, PTL DEF Spec
=============================================================================
