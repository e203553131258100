---------------------------- MODULE UpkeepProofs ----------------------------
(***************************************************************************)
(* Theorems of MCUpkeep: the run-time settings, the prices of plans, the   *)
(* linter and the calls of the LLM router, for every number of requests,   *)
(* plans, changes, reconciliations, articles, lint jobs, dismissals,       *)
(* providers and calls.                                                    *)
(***************************************************************************)
EXTENDS MCUpkeep, DataLemmas

-----------------------------------------------------------------------------
(* Settings *)

Changes == UNION {[s -> {1, Bad}] : s \in SUBSET Fields}

Patching == [pc : {"idle", "field", "overlay", "done"}, change : Changes,
             done : SUBSET (Fields \cup {"refresh"})]

Testing == [pc : {"idle", "call", "done"}, saved : {0, 1}]

PrefTyped ==
    /\ pref \in [Fields -> {0, 1}] /\ over \in [Fields -> {0, 1}]
    /\ client \subseteq {0, 1}
    /\ patch \in [Patches -> Patching] /\ test \in [Tests -> Testing]
    /\ mixed \in BOOLEAN /\ rejected \in BOOLEAN

UnderWay(q) == patch[q].pc \in {"field", "overlay"}
InTest(t) == test[t].pc = "call"

Apart == /\ \A q, r \in Patches : UnderWay(q) /\ UnderWay(r) => q = r
         /\ \A s, t \in Tests : InTest(s) /\ InTest(t) => s = t
         /\ \A q \in Patches, t \in Tests : ~(UnderWay(q) /\ InTest(t))

IsTurn(q, f) == f \in Todo(q) /\ \A g \in Todo(q) : Order[f] <= Order[g]

(* What a request has done is part of what it was asked for; the kept client *)
(* is dropped after both fields of the compatible provider; a field in the   *)
(* rows and not yet in the overlay is a valid one.                           *)
PatchOK(q) ==
    /\ patch[q].done \subseteq Wanted(q)
    /\ "refresh" \in patch[q].done => Compatible \cap DOMAIN patch[q].change \subseteq patch[q].done
    /\ patch[q].pc = "overlay" =>
          \E f \in Fields : /\ IsTurn(q, f) /\ patch[q].change[f] = 1
                            /\ ~mixed => pref[f] = 1 /\ \A g \in Fields \ {f} : over[g] = pref[g]

(* The one request that is under way explains where overlay and rows differ. *)
OverlayInv ==
    ~mixed =>
      /\ Apart
      /\ \A t \in Tests : InTest(t) => /\ test[t].saved = pref["fallback"]
                                       /\ \A g \in Fields \ {"fallback"} : over[g] = pref[g]
      /\ (\A q \in Patches : patch[q].pc # "overlay") /\ (\A t \in Tests : ~InTest(t)) => over = pref

(* A client with another base URL is about to be dropped. *)
ClientInv ==
    ~rejected =>
      \/ client \subseteq {over["url"]}
      \/ \E q \in Patches : UnderWay(q) /\ "url" \in patch[q].done /\ "refresh" \notin patch[q].done

PrefInv == PrefTyped /\ (\A q \in Patches : PatchOK(q)) /\ OverlayInv /\ ClientInv

(* There is a next field as long as there is one to do, and only one. *)
LEMMA TurnIsNext ==
  ASSUME PrefTyped, NEW q \in Patches, Todo(q) # {}
  PROVE  /\ IsTurn(q, Turn(q))
         /\ \A f : IsTurn(q, f) => f = Turn(q)
<1>1. Todo(q) \subseteq {"fallback", "url", "model", "refresh", "default"}
  <2>1. DOMAIN patch[q].change \subseteq Fields
    BY DEF PrefTyped, Patching, Changes
  <2>2. QED
    BY <2>1 DEF Todo, Wanted, Fields
<1>2. PICK f \in Todo(q) : \A g \in Todo(q) : Order[f] <= Order[g]
  <2>1. CASE "fallback" \in Todo(q)
    BY <1>1, <2>1 DEF Order
  <2>2. CASE "fallback" \notin Todo(q) /\ "url" \in Todo(q)
    BY <1>1, <2>2 DEF Order
  <2>3. CASE {"fallback", "url"} \cap Todo(q) = {} /\ "model" \in Todo(q)
    BY <1>1, <2>3 DEF Order
  <2>4. CASE {"fallback", "url", "model"} \cap Todo(q) = {} /\ "refresh" \in Todo(q)
    BY <1>1, <2>4 DEF Order
  <2>5. CASE {"fallback", "url", "model", "refresh"} \cap Todo(q) = {}
    BY <1>1, <2>5 DEF Order
  <2>6. QED
    BY <2>1, <2>2, <2>3, <2>4, <2>5
<1>3. IsTurn(q, Turn(q))
  <2>1. Turn(q) \in Todo(q) /\ \A g \in Todo(q) : Order[Turn(q)] <= Order[g]
    BY <1>2 DEF Turn
  <2>2. QED
    BY <2>1 DEF IsTurn
<1>4. ASSUME NEW g, IsTurn(q, g) PROVE g = Turn(q)
  <2>1. g \in Todo(q) /\ Turn(q) \in Todo(q) /\ Order[g] <= Order[Turn(q)] /\ Order[Turn(q)] <= Order[g]
    BY <1>3, <1>4 DEF IsTurn
  <2>2. QED
    BY <1>1, <2>1 DEF Order
<1>5. QED
  BY <1>3, <1>4

(* Requests whose record stays have the same fields to do. *)
LEMMA SameTodo ==
  ASSUME NEW q, patch'[q].change = patch[q].change, patch'[q].done = patch[q].done
  PROVE  /\ Wanted(q)' = Wanted(q) /\ Todo(q)' = Todo(q)
         /\ \A f : IsTurn(q, f)' <=> IsTurn(q, f)
BY DEF Wanted, Todo, IsTurn

(* One step of one PATCH. *)
LEMMA PatchMoves ==
  ASSUME PrefInv, NEW q \in Patches, NEW new \in Patching,
         patch' = [patch EXCEPT ![q] = new], UNCHANGED <<test, mixed>>,
         patch[q].pc \in {"field", "overlay"},
         pref' \in [Fields -> {0, 1}], over' \in [Fields -> {0, 1}],
         client' \subseteq {0, 1}, rejected' \in BOOLEAN,
         PatchOK(q)', ClientInv',
         ~mixed /\ new.pc # "overlay" => over' = pref'
  PROVE  PrefInv'
<1>1. PrefTyped'
  BY DEF PrefInv, PrefTyped
<1>2. /\ patch'[q] = new
      /\ \A r \in Patches \ {q} : patch'[r] = patch[r]
  BY DEF PrefInv, PrefTyped
<1>3. UnderWay(q) /\ (\A r \in Patches : UnderWay(r)' => UnderWay(r)) /\ (\A t \in Tests : InTest(t)' <=> InTest(t))
  BY <1>2 DEF UnderWay, InTest
<1>4. ASSUME NEW r \in Patches PROVE PatchOK(r)'
  <2>1. CASE r = q
    BY <2>1
  <2>2. CASE r # q
    <3>1. PatchOK(r) /\ patch'[r] = patch[r]
      BY <1>2, <2>2 DEF PrefInv
    <3>2. /\ Wanted(r)' = Wanted(r) /\ \A f : IsTurn(r, f)' <=> IsTurn(r, f)
      BY <3>1, SameTodo
    <3>3. patch[r].pc = "overlay" => mixed
      BY <1>3, <2>2 DEF PrefInv, OverlayInv, Apart, UnderWay
    <3>4. QED
      BY <3>1, <3>2, <3>3 DEF PatchOK
  <2>3. QED
    BY <2>1, <2>2
<1>5. OverlayInv'
  <2> SUFFICES ASSUME ~mixed PROVE /\ Apart' /\ (\A t \in Tests : ~InTest(t)')
                                   /\ (\A r \in Patches : patch'[r].pc # "overlay") => over' = pref'
    BY DEF OverlayInv
  <2>1. Apart
    BY DEF PrefInv, OverlayInv
  <2>2. Apart'
    BY <1>3, <2>1 DEF Apart
  <2>3. \A t \in Tests : ~InTest(t)'
    BY <1>3, <2>1 DEF Apart
  <2>4. QED
    BY <1>2, <2>2, <2>3
<1>6. QED
  BY <1>1, <1>4, <1>5 DEF PrefInv

(* A request is taken up; it has done nothing yet. *)
LEMMA UpdateKeepsPrefs ==
  ASSUME PrefInv, NEW q \in Patches, NEW s \in SUBSET Fields, NEW ch \in [s -> {1, Bad}],
         update_settings(q, ch)
  PROVE  PrefInv'
<1>1. PICK new : new = [pc |-> "field", change |-> ch, done |-> {}]
  OBVIOUS
<1>2. new \in Patching /\ new.pc = "field" /\ new.done = {}
  BY <1>1 DEF Patching, Changes
<1>3. /\ patch' = [patch EXCEPT ![q] = new] /\ patch[q].pc = "idle"
      /\ mixed' = (mixed \/ Busy) /\ UNCHANGED <<pref, over, client, test, rejected>>
  BY <1>1 DEF update_settings
<1>4. PrefTyped'
  BY <1>2, <1>3 DEF PrefInv, PrefTyped
<1>5. patch'[q] = new /\ \A r \in Patches \ {q} : patch'[r] = patch[r]
  BY <1>3 DEF PrefInv, PrefTyped
<1>6. ASSUME NEW r \in Patches PROVE PatchOK(r)'
  <2>1. CASE r = q
    BY <1>2, <1>5, <2>1 DEF PatchOK
  <2>2. CASE r # q
    <3>1. PatchOK(r) /\ patch'[r] = patch[r]
      BY <1>5, <2>2 DEF PrefInv
    <3>2. /\ Wanted(r)' = Wanted(r) /\ \A f : IsTurn(r, f)' <=> IsTurn(r, f)
      BY <3>1, SameTodo
    <3>3. QED
      BY <1>3, <3>1, <3>2 DEF PatchOK
  <2>3. QED
    BY <2>1, <2>2
<1>7. OverlayInv'
  <2> SUFFICES ASSUME ~mixed, ~Busy PROVE OverlayInv'
    BY <1>3 DEF OverlayInv
  <2>1. /\ \A r \in Patches : ~UnderWay(r)
        /\ \A t \in Tests : ~InTest(t)
        /\ over = pref
    BY DEF PrefInv, OverlayInv, Busy, UnderWay, InTest
  <2>2. /\ \A r \in Patches : UnderWay(r)' => r = q
        /\ \A t \in Tests : ~InTest(t)'
    BY <1>3, <1>5, <2>1 DEF UnderWay, InTest
  <2>3. QED
    BY <1>3, <2>1, <2>2 DEF OverlayInv, Apart
<1>8. ClientInv'
  <2>1. \A r \in Patches : UnderWay(r) => r # q /\ UnderWay(r)' /\ patch'[r] = patch[r]
    BY <1>3, <1>5 DEF UnderWay
  <2>2. QED
    BY <1>3, <2>1 DEF PrefInv, ClientInv
<1>9. QED
  BY <1>4, <1>6, <1>7, <1>8 DEF PrefInv

(* What every request that is under way has in its record. *)
LEMMA PatchRecord ==
  ASSUME PrefInv, NEW q \in Patches
  PROVE  /\ patch[q] \in Patching /\ PatchOK(q) /\ ClientInv
         /\ DOMAIN patch[q].change \subseteq Fields
         /\ \A f \in DOMAIN patch[q].change : patch[q].change[f] \in {1, Bad}
         /\ pref \in [Fields -> {0, 1}] /\ over \in [Fields -> {0, 1}]
         /\ client \subseteq {0, 1} /\ rejected \in BOOLEAN /\ PrefTyped
BY DEF PrefInv, PrefTyped, Patching, Changes

(* While one request is under way and others are not, rows and overlay agree *)
(* between its fields.                                                       *)
LEMMA FieldAgrees ==
  ASSUME PrefInv, NEW q \in Patches, patch[q].pc = "field", ~mixed
  PROVE  over = pref
BY DEF PrefInv, OverlayInv, Apart, UnderWay, InTest

(* A field is refused, or its row is committed. *)
LEMMA SetPreferenceKeepsPrefs ==
  ASSUME PrefInv, NEW q \in Patches, _set_preference(q)
  PROVE  PrefInv'
<1>1. PICK f : f = Turn(q)
  OBVIOUS
<1>2. PICK refused \in BOOLEAN :
         refused = (patch[q].change[f] = Bad \/ (f \in Compatible /\ ~IsDev))
  OBVIOUS
<1>3. /\ patch[q].pc = "field" /\ Todo(q) # {} /\ f # "refresh"
      /\ pref' = IF refused THEN pref ELSE [pref EXCEPT ![f] = patch[q].change[f]]
      /\ patch' = [patch EXCEPT ![q] = IF refused THEN Finished ELSE [patch[q] EXCEPT !.pc = "overlay"]]
      /\ rejected' = (rejected \/ (refused /\ patch[q].done # {}))
      /\ UNCHANGED <<over, client, test, mixed>>
  BY <1>1, <1>2 DEF _set_preference
<1>4. PICK new : new = IF refused THEN Finished ELSE [patch[q] EXCEPT !.pc = "overlay"]
  OBVIOUS
<1>5. /\ patch[q] \in Patching /\ PatchOK(q) /\ ClientInv
      /\ DOMAIN patch[q].change \subseteq Fields
      /\ \A g \in DOMAIN patch[q].change : patch[q].change[g] \in {1, Bad}
      /\ pref \in [Fields -> {0, 1}] /\ over \in [Fields -> {0, 1}]
      /\ client \subseteq {0, 1} /\ rejected \in BOOLEAN /\ PrefTyped
  BY PatchRecord
<1>6. Finished \in Patching /\ Finished.pc = "done" /\ Finished.done = {}
  <2>1. [x \in {} |-> 0] \in Changes
    BY DEF Changes
  <2>2. QED
    BY <2>1 DEF Finished, NoPatch, Patching
<1>7. new \in Patching /\ patch' = [patch EXCEPT ![q] = new] /\ patch'[q] = new
  BY <1>3, <1>4, <1>5, <1>6 DEF Patching, PrefTyped
<1>8. IsTurn(q, f) /\ f \in DOMAIN patch[q].change /\ f \in Fields
  <2>1. IsTurn(q, f)
    BY <1>1, <1>3, <1>5, TurnIsNext
  <2>2. QED
    BY <1>3, <1>5, <2>1 DEF IsTurn, Todo, Wanted
<1>9. ~mixed => over = pref
  BY <1>3, FieldAgrees
<1>10. \A r \in Patches \ {q} : patch'[r] = patch[r]
  BY <1>5, <1>7 DEF PrefTyped
<1>11. CASE refused
  <2>1. new = Finished /\ pref' = pref
    BY <1>3, <1>4, <1>11
  <2>2. PatchOK(q)'
    BY <1>6, <1>7, <2>1 DEF PatchOK
  <2>3. ClientInv'
    <3> SUFFICES ASSUME ~rejected' PROVE ClientInv'
      BY DEF ClientInv
    <3>1. ~rejected /\ patch[q].done = {}
      BY <1>3, <1>5, <1>11
    <3>2. \/ client \subseteq {over["url"]}
          \/ \E r \in Patches \ {q} : UnderWay(r) /\ "url" \in patch[r].done /\ "refresh" \notin patch[r].done
      BY <1>5, <3>1 DEF ClientInv
    <3>3. \A r \in Patches \ {q} : UnderWay(r) => UnderWay(r)'
      BY <1>10 DEF UnderWay
    <3>4. QED
      BY <1>3, <1>10, <3>2, <3>3 DEF ClientInv
  <2>4. ~mixed /\ new.pc # "overlay" => over' = pref'
    BY <1>3, <1>9, <2>1
  <2>5. rejected' \in BOOLEAN /\ pref' \in [Fields -> {0, 1}] /\ over' \in [Fields -> {0, 1}]
        /\ client' \subseteq {0, 1}
    BY <1>3, <1>5, <2>1
  <2>6. QED
    BY <1>3, <1>7, <2>2, <2>3, <2>4, <2>5, PatchMoves
<1>12. CASE ~refused
  <2>1. /\ new.pc = "overlay" /\ new.change = patch[q].change /\ new.done = patch[q].done
    BY <1>4, <1>5, <1>12 DEF Patching
  <2>2. patch[q].change[f] = 1
    BY <1>2, <1>5, <1>8, <1>12 DEF Bad
  <2>3. pref' = [pref EXCEPT ![f] = 1] /\ rejected' = rejected
    BY <1>3, <1>5, <1>12, <2>2
  <2>4. PatchOK(q)'
    <3>1. /\ Wanted(q)' = Wanted(q) /\ IsTurn(q, f)'
      BY <1>7, <1>8, <2>1, SameTodo
    <3>2. ~mixed => pref'[f] = 1 /\ \A g \in Fields \ {f} : over'[g] = pref'[g]
      BY <1>3, <1>5, <1>8, <1>9, <2>3
    <3>3. patch'[q].change[f] = 1 /\ patch'[q].done = patch[q].done /\ patch'[q].change = patch[q].change
      BY <1>7, <2>1, <2>2
    <3>4. QED
      BY <1>3, <1>5, <1>8, <3>1, <3>2, <3>3 DEF PatchOK
  <2>5. ClientInv'
    <3>1. \A r \in Patches : /\ UnderWay(r) => UnderWay(r)'
                             /\ patch'[r].done = patch[r].done
      BY <1>7, <1>10, <2>1 DEF UnderWay
    <3>2. QED
      BY <1>3, <1>5, <2>3, <3>1 DEF ClientInv
  <2>6. pref' \in [Fields -> {0, 1}] /\ over' \in [Fields -> {0, 1}]
        /\ client' \subseteq {0, 1} /\ rejected' \in BOOLEAN
    BY <1>3, <1>5, <1>8, <2>3
  <2>7. QED
    BY <1>3, <1>7, <2>1, <2>4, <2>5, <2>6, PatchMoves
<1>13. QED
  BY <1>11, <1>12

(* ... and its overlay entry set. *)
LEMMA SetOverrideKeepsPrefs ==
  ASSUME PrefInv, NEW q \in Patches, SetOverride(q)
  PROVE  PrefInv'
<1>1. PICK f : f = Turn(q)
  OBVIOUS
<1>2. PICK new : new = [patch[q] EXCEPT !.done = patch[q].done \cup {f}, !.pc = "field"]
  OBVIOUS
<1>3. /\ patch[q] \in Patching /\ PatchOK(q) /\ ClientInv
      /\ DOMAIN patch[q].change \subseteq Fields
      /\ pref \in [Fields -> {0, 1}] /\ over \in [Fields -> {0, 1}]
      /\ client \subseteq {0, 1} /\ rejected \in BOOLEAN /\ PrefTyped
  BY PatchRecord
<1>4. /\ patch[q].pc = "overlay"
      /\ over' = [over EXCEPT ![f] = patch[q].change[f]]
      /\ patch' = [patch EXCEPT ![q] = new]
      /\ UNCHANGED <<pref, client, test, mixed, rejected>>
  BY <1>1, <1>2, <1>3 DEF SetOverride, PrefTyped
<1>5. /\ f \in Fields /\ IsTurn(q, f) /\ patch[q].change[f] = 1
      /\ ~mixed => pref[f] = 1 /\ \A g \in Fields \ {f} : over[g] = pref[g]
  <2>1. PICK g \in Fields : /\ IsTurn(q, g) /\ patch[q].change[g] = 1
                            /\ ~mixed => pref[g] = 1 /\ \A h \in Fields \ {g} : over[h] = pref[h]
    BY <1>3, <1>4 DEF PatchOK
  <2>2. Todo(q) # {}
    BY <2>1 DEF IsTurn
  <2>3. g = f
    BY <1>1, <1>3, <2>1, <2>2, TurnIsNext
  <2>4. QED
    BY <2>1, <2>3
<1>6. f \in Wanted(q) /\ f \notin patch[q].done /\ f # "refresh" /\ \A g \in Todo(q) : Order[f] <= Order[g]
  BY <1>5 DEF IsTurn, Todo, Fields
<1>7. /\ new \in Patching /\ new.done = patch[q].done \cup {f} /\ new.pc = "field"
      /\ new.change = patch[q].change
  BY <1>2, <1>3, <1>5 DEF Patching
<1>8. patch'[q] = new /\ \A r \in Patches \ {q} : patch'[r] = patch[r]
  BY <1>3, <1>4 DEF PrefTyped
<1>9. PatchOK(q)'
  <2>1. Wanted(q)' = Wanted(q)
    BY <1>7, <1>8 DEF Wanted
  <2>2. patch'[q].done = patch[q].done \cup {f} /\ patch'[q].change = patch[q].change
        /\ patch'[q].pc = "field"
    BY <1>7, <1>8
  <2>3. QED
    BY <1>3, <1>6, <2>1, <2>2 DEF PatchOK
<1>10. ClientInv'
  <2> SUFFICES ASSUME ~rejected PROVE ClientInv'
    BY <1>4 DEF ClientInv
  <2>1. \A r \in Patches : UnderWay(r)' <=> UnderWay(r)
    BY <1>4, <1>7, <1>8 DEF UnderWay
  <2>2. CASE f = "url"
    <3>1. "refresh" \in Wanted(q)
      BY <1>6, <2>2 DEF Wanted, Compatible
    <3>2. "url" \in DOMAIN patch[q].change
      BY <1>6, <2>2 DEF Wanted
    <3>3. "refresh" \notin patch[q].done
      BY <1>3, <1>6, <2>2, <3>2 DEF PatchOK, Compatible
    <3>4. UnderWay(q)' /\ "url" \in patch'[q].done /\ "refresh" \notin patch'[q].done
      BY <1>7, <1>8, <2>2, <3>3 DEF UnderWay
    <3>5. QED
      BY <3>4 DEF ClientInv
  <2>3. CASE f # "url"
    <3>1. over'["url"] = over["url"]
      BY <1>3, <1>4, <2>3
    <3>2. ASSUME NEW r \in Patches, UnderWay(r), "url" \in patch[r].done, "refresh" \notin patch[r].done
          PROVE  UnderWay(r)' /\ "url" \in patch'[r].done /\ "refresh" \notin patch'[r].done
      <4>1. patch'[r].done \in {patch[r].done, patch[r].done \cup {f}}
        BY <1>7, <1>8
      <4>2. QED
        BY <1>6, <2>1, <3>2, <4>1
    <3>3. QED
      BY <1>3, <1>4, <3>1, <3>2 DEF ClientInv
  <2>4. QED
    BY <2>2, <2>3
<1>11. over' \in [Fields -> {0, 1}] /\ pref' \in [Fields -> {0, 1}] /\ client' \subseteq {0, 1}
       /\ rejected' \in BOOLEAN
  BY <1>3, <1>4, <1>5
<1>12. ~mixed => over' = pref'
  BY <1>3, <1>4, <1>5
<1>13. QED
  BY <1>4, <1>7, <1>9, <1>10, <1>11, <1>12, PatchMoves

(* The kept client is dropped, after the fields it was built from. *)
LEMMA RefreshKeepsPrefs ==
  ASSUME PrefInv, NEW q \in Patches, _refresh_openai_compatible_enabled(q)
  PROVE  PrefInv'
<1>1. PICK new : new = [patch[q] EXCEPT !.done = patch[q].done \cup {"refresh"}]
  OBVIOUS
<1>2. /\ patch[q] \in Patching /\ PatchOK(q) /\ ClientInv
      /\ DOMAIN patch[q].change \subseteq Fields
      /\ pref \in [Fields -> {0, 1}] /\ over \in [Fields -> {0, 1}]
      /\ client \subseteq {0, 1} /\ rejected \in BOOLEAN /\ PrefTyped
  BY PatchRecord
<1>3. /\ patch[q].pc = "field" /\ Todo(q) # {} /\ Turn(q) = "refresh" /\ client' = {}
      /\ patch' = [patch EXCEPT ![q] = new]
      /\ UNCHANGED <<pref, over, test, mixed, rejected>>
  BY <1>1, <1>2 DEF _refresh_openai_compatible_enabled, PrefTyped
<1>4. /\ new \in Patching /\ new.done = patch[q].done \cup {"refresh"} /\ new.pc = "field"
      /\ new.change = patch[q].change
  BY <1>1, <1>2, <1>3 DEF Patching
<1>5. patch'[q] = new
  BY <1>2, <1>3 DEF PrefTyped
<1>6. PatchOK(q)'
  <2>1. "refresh" \in Todo(q) /\ \A g \in Todo(q) : Order["refresh"] <= Order[g]
    BY <1>2, <1>3, TurnIsNext DEF IsTurn
  <2>2. "url" \notin Todo(q) /\ "model" \notin Todo(q)
    BY <2>1 DEF Order
  <2>3. Compatible \cap DOMAIN patch[q].change \subseteq patch[q].done
    BY <2>2 DEF Todo, Wanted, Compatible
  <2>4. Wanted(q)' = Wanted(q)
    BY <1>4, <1>5 DEF Wanted
  <2>5. patch'[q].done = patch[q].done \cup {"refresh"} /\ patch'[q].change = patch[q].change
        /\ patch'[q].pc = "field"
    BY <1>4, <1>5
  <2>6. "refresh" \in Wanted(q)
    BY <2>1 DEF Todo
  <2>7. QED
    BY <1>2, <2>3, <2>4, <2>5, <2>6 DEF PatchOK
<1>7. ClientInv'
  BY <1>3 DEF ClientInv
<1>8. ~mixed => over' = pref'
  BY <1>3, FieldAgrees
<1>9. pref' \in [Fields -> {0, 1}] /\ over' \in [Fields -> {0, 1}]
      /\ client' \subseteq {0, 1} /\ rejected' \in BOOLEAN
  BY <1>2, <1>3
<1>10. QED
  BY <1>3, <1>4, <1>6, <1>7, <1>8, <1>9, PatchMoves

(* The record of a request that has ended. *)
LEMMA FinishedRecord ==
  Finished \in Patching /\ Finished.pc = "done" /\ Finished.done = {}
<1>1. [x \in {} |-> 0] \in Changes
  BY DEF Changes
<1>2. QED
  BY <1>1 DEF Finished, NoPatch, Patching

(* A request ends only when the client of its URL has been dropped. *)
LEMMA EndPatchKeepsPrefs ==
  ASSUME PrefInv, NEW q \in Patches, EndPatch(q)
  PROVE  PrefInv'
<1>1. /\ patch[q] \in Patching /\ PatchOK(q) /\ ClientInv
      /\ DOMAIN patch[q].change \subseteq Fields
      /\ pref \in [Fields -> {0, 1}] /\ over \in [Fields -> {0, 1}]
      /\ client \subseteq {0, 1} /\ rejected \in BOOLEAN /\ PrefTyped
  BY PatchRecord
<1>2. PICK new : new = Finished
  OBVIOUS
<1>3. /\ patch[q].pc = "field" /\ Todo(q) = {}
      /\ patch' = [patch EXCEPT ![q] = new]
      /\ UNCHANGED <<pref, over, client, test, mixed, rejected>>
  BY <1>2 DEF EndPatch
<1>4. new \in Patching /\ new.pc = "done" /\ new.done = {}
  BY <1>2, FinishedRecord
<1>5. patch'[q] = new /\ \A r \in Patches \ {q} : patch'[r] = patch[r]
  BY <1>1, <1>3 DEF PrefTyped
<1>6. PatchOK(q)'
  BY <1>4, <1>5 DEF PatchOK
<1>7. "url" \in patch[q].done => "refresh" \in patch[q].done
  <2> SUFFICES ASSUME "url" \in patch[q].done PROVE "refresh" \in patch[q].done
    OBVIOUS
  <2>1. "url" \in Wanted(q)
    BY <1>1 DEF PatchOK
  <2>2. "refresh" \in Wanted(q)
    BY <2>1 DEF Wanted, Compatible
  <2>3. QED
    BY <1>3, <2>2 DEF Todo
<1>8. ClientInv'
  <2>1. \A r \in Patches \ {q} : UnderWay(r) => UnderWay(r)'
    BY <1>5 DEF UnderWay
  <2>2. QED
    BY <1>1, <1>3, <1>5, <1>7, <2>1 DEF ClientInv
<1>9. ~mixed => over' = pref'
  BY <1>3, FieldAgrees
<1>10. pref' \in [Fields -> {0, 1}] /\ over' \in [Fields -> {0, 1}]
       /\ client' \subseteq {0, 1} /\ rejected' \in BOOLEAN
  BY <1>1, <1>3
<1>11. QED
  BY <1>3, <1>4, <1>6, <1>8, <1>9, <1>10, PatchMoves

(* Steps that leave the requests to change settings alone. *)
LEMMA SameRequests ==
  ASSUME PrefInv, UNCHANGED <<patch, pref>>, mixed => mixed',
         \A q \in Patches : patch[q].pc = "overlay" => mixed' \/ over' = over
  PROVE  \A q \in Patches : PatchOK(q)'
<1> SUFFICES ASSUME NEW q \in Patches PROVE PatchOK(q)'
  OBVIOUS
<1>1. PatchOK(q)
  BY DEF PrefInv
<1>2. /\ Wanted(q)' = Wanted(q) /\ \A f : IsTurn(q, f)' <=> IsTurn(q, f)
  BY SameTodo
<1>3. QED
  BY <1>1, <1>2 DEF PatchOK

(* A call of the compatible provider builds its client from the overlay. *)
LEMMA UseClientKeepsPrefs ==
  ASSUME PrefInv, UseClient
  PROVE  PrefInv'
<1>1. /\ client' = IF client = {} THEN {over["url"]} ELSE client
      /\ UNCHANGED <<pref, over, patch, test, mixed, rejected>>
  BY DEF UseClient
<1>2. PrefTyped'
  <2>1. over["url"] \in {0, 1} /\ client \subseteq {0, 1}
    BY DEF PrefInv, PrefTyped, Fields
  <2>2. QED
    BY <1>1, <2>1 DEF PrefInv, PrefTyped
<1>3. \A q \in Patches : PatchOK(q)'
  BY <1>1, SameRequests
<1>4. OverlayInv'
  BY <1>1 DEF PrefInv, OverlayInv, Apart, UnderWay, InTest
<1>5. ClientInv'
  BY <1>1 DEF PrefInv, ClientInv, UnderWay
<1>6. QED
  BY <1>2, <1>3, <1>4, <1>5 DEF PrefInv

(* A test switches fallback off, in the overlay alone. *)
LEMMA BeginTestKeepsPrefs ==
  ASSUME PrefInv, NEW t \in Tests, BeginTest(t)
  PROVE  PrefInv'
<1>1. /\ test[t].pc = "idle"
      /\ test' = [test EXCEPT ![t] = [pc |-> "call", saved |-> over["fallback"]]]
      /\ over' = [over EXCEPT !["fallback"] = 1]
      /\ mixed' = (mixed \/ Busy)
      /\ UNCHANGED <<pref, client, patch, rejected>>
  BY DEF BeginTest
<1>2. /\ over \in [Fields -> {0, 1}] /\ "fallback" \in Fields /\ "url" \in Fields
      /\ test \in [Tests -> Testing] /\ mixed \in BOOLEAN /\ over["fallback"] \in {0, 1}
  BY DEF PrefInv, PrefTyped, Fields
<1>3. [pc |-> "call", saved |-> over["fallback"]] \in Testing
  BY <1>2 DEF Testing
<1>4. PrefTyped'
  <2>1. over' \in [Fields -> {0, 1}] /\ test' \in [Tests -> Testing] /\ mixed' \in BOOLEAN
    BY <1>1, <1>2, <1>3 DEF Busy
  <2>2. QED
    BY <1>1, <2>1 DEF PrefInv, PrefTyped
<1>5. /\ test'[t].pc = "call" /\ test'[t].saved = over["fallback"]
      /\ \A s \in Tests \ {t} : test'[s] = test[s]
  BY <1>1, <1>2
<1>6. \A q \in Patches : PatchOK(q)'
  BY <1>1, SameRequests DEF Busy
<1>7. OverlayInv'
  <2> SUFFICES ASSUME ~mixed, ~Busy PROVE OverlayInv'
    BY <1>1 DEF OverlayInv
  <2>1. /\ \A r \in Patches : ~UnderWay(r)
        /\ \A s \in Tests : ~InTest(s)
        /\ over = pref
    BY DEF PrefInv, OverlayInv, Busy, UnderWay, InTest
  <2>2. /\ \A s \in Tests : InTest(s)' => s = t
        /\ \A r \in Patches : ~UnderWay(r)'
        /\ InTest(t)'
    BY <1>1, <1>5, <2>1 DEF UnderWay, InTest
  <2>3. Apart'
    BY <2>2 DEF Apart
  <2>4. /\ test'[t].saved = pref'["fallback"]
        /\ \A g \in Fields \ {"fallback"} : over'[g] = pref'[g]
    BY <1>1, <1>2, <1>5, <2>1
  <2>5. QED
    BY <2>2, <2>3, <2>4 DEF OverlayInv
<1>8. ClientInv'
  <2>1. over'["url"] = over["url"]
    BY <1>1, <1>2
  <2>2. QED
    BY <1>1, <2>1 DEF PrefInv, ClientInv, UnderWay
<1>9. QED
  BY <1>4, <1>6, <1>7, <1>8 DEF PrefInv

(* ... and puts back what it found, whether its call succeeded or not. *)
LEMMA TestKeepsPrefs ==
  ASSUME PrefInv, NEW t \in Tests, NEW ok \in BOOLEAN, test_llm_connection(t, ok)
  PROVE  PrefInv'
<1>1. /\ test[t].pc = "call"
      /\ over' = [over EXCEPT !["fallback"] = test[t].saved]
      /\ test' = [test EXCEPT ![t] = Tested]
      /\ UNCHANGED <<pref, client, patch, mixed, rejected>>
  BY DEF test_llm_connection
<1>2. /\ over \in [Fields -> {0, 1}] /\ pref \in [Fields -> {0, 1}]
      /\ "fallback" \in Fields /\ "url" \in Fields
      /\ test \in [Tests -> Testing] /\ test[t].saved \in {0, 1}
      /\ Tested \in Testing /\ Tested.pc = "done"
  BY DEF PrefInv, PrefTyped, Fields, Testing, Tested
<1>3. PrefTyped'
  <2>1. over' \in [Fields -> {0, 1}] /\ test' \in [Tests -> Testing]
    BY <1>1, <1>2
  <2>2. QED
    BY <1>1, <2>1 DEF PrefInv, PrefTyped
<1>4. test'[t].pc = "done" /\ \A s \in Tests \ {t} : test'[s] = test[s]
  BY <1>1, <1>2
<1>5. InTest(t) /\ (\A r \in Patches : UnderWay(r)' <=> UnderWay(r))
      /\ \A s \in Tests : InTest(s)' => InTest(s) /\ s # t
  BY <1>1, <1>4 DEF InTest, UnderWay
<1>6. ~mixed => /\ test[t].saved = pref["fallback"]
                /\ \A g \in Fields \ {"fallback"} : over[g] = pref[g]
                /\ \A r \in Patches : ~UnderWay(r)
                /\ \A s \in Tests : InTest(s) => s = t
  BY <1>5 DEF PrefInv, OverlayInv, Apart
<1>7. \A q \in Patches : PatchOK(q)'
  BY <1>1, <1>6, SameRequests DEF UnderWay
<1>8. OverlayInv'
  <2> SUFFICES ASSUME ~mixed PROVE OverlayInv'
    BY <1>1 DEF OverlayInv
  <2>1. over' = pref'
    BY <1>1, <1>2, <1>6
  <2>2. (\A r \in Patches : ~UnderWay(r)') /\ \A s \in Tests : ~InTest(s)'
    BY <1>5, <1>6
  <2>3. QED
    BY <2>1, <2>2 DEF OverlayInv, Apart
<1>9. ClientInv'
  <2>1. over'["url"] = over["url"]
    BY <1>1, <1>2
  <2>2. QED
    BY <1>1, <2>1 DEF PrefInv, ClientInv, UnderWay
<1>10. QED
  BY <1>3, <1>7, <1>8, <1>9 DEF PrefInv

(* A restart ends every request and reads the rows. *)
LEMMA RestartKeepsPrefs ==
  ASSUME PrefInv, apply_runtime_llm_preferences
  PROVE  PrefInv'
<1>1. /\ over' = pref /\ client' = {}
      /\ patch' = [q \in Patches |-> IF patch[q].pc = "idle" THEN patch[q] ELSE Finished]
      /\ test' = [t \in Tests |-> IF test[t].pc = "idle" THEN test[t] ELSE Tested]
      /\ UNCHANGED <<pref, mixed, rejected>>
  BY DEF apply_runtime_llm_preferences
<1>2. Tested \in Testing /\ Tested.pc = "done"
  BY DEF Tested, Testing
<1>3. PrefTyped'
  <2>1. patch' \in [Patches -> Patching]
    BY <1>1, FinishedRecord DEF PrefInv, PrefTyped
  <2>2. test' \in [Tests -> Testing]
    BY <1>1, <1>2 DEF PrefInv, PrefTyped
  <2>3. QED
    BY <1>1, <2>1, <2>2 DEF PrefInv, PrefTyped
<1>4. /\ \A q \in Patches : ~UnderWay(q)'
      /\ \A t \in Tests : ~InTest(t)'
  BY <1>1, <1>2, FinishedRecord DEF UnderWay, InTest
<1>5. ASSUME NEW q \in Patches PROVE PatchOK(q)'
  <2>1. CASE patch[q].pc = "idle"
    <3>1. patch'[q] = patch[q] /\ PatchOK(q)
      BY <1>1, <2>1 DEF PrefInv
    <3>2. Wanted(q)' = Wanted(q)
      BY <3>1 DEF Wanted
    <3>3. QED
      BY <2>1, <3>1, <3>2 DEF PatchOK
  <2>2. CASE patch[q].pc # "idle"
    <3>1. patch'[q] = Finished
      BY <1>1, <2>2
    <3>2. QED
      BY <3>1, FinishedRecord DEF PatchOK
  <2>3. QED
    BY <2>1, <2>2
<1>6. OverlayInv' /\ ClientInv'
  BY <1>1, <1>4 DEF OverlayInv, Apart, ClientInv
<1>7. QED
  BY <1>3, <1>5, <1>6 DEF PrefInv

(* PrefInv holds of the settings a process starts with. *)
LEMMA PrefInitial == PreferencesInit => PrefInv
<1> SUFFICES ASSUME PreferencesInit PROVE PrefInv
  OBVIOUS
<1>1. /\ pref = [f \in Fields |-> 0] /\ over = pref /\ client = {}
      /\ patch = [q \in Patches |-> NoPatch]
      /\ test = [t \in Tests |-> [pc |-> "idle", saved |-> 0]]
      /\ mixed = FALSE /\ rejected = FALSE
  BY DEF PreferencesInit
<1>2. NoPatch \in Patching /\ NoPatch.pc = "idle" /\ NoPatch.done = {}
  <2>1. [x \in {} |-> 0] \in Changes
    BY DEF Changes
  <2>2. QED
    BY <2>1 DEF NoPatch, Patching
<1>3. [pc |-> "idle", saved |-> 0] \in Testing
  BY DEF Testing
<1>4. PrefTyped
  BY <1>1, <1>2, <1>3 DEF PrefTyped
<1>5. \A q \in Patches : PatchOK(q)
  BY <1>1, <1>2 DEF PatchOK
<1>6. OverlayInv /\ ClientInv
  BY <1>1, <1>2 DEF OverlayInv, Apart, UnderWay, InTest, ClientInv
<1>7. QED
  BY <1>4, <1>5, <1>6 DEF PrefInv

(* Every step of the settings keeps it. *)
LEMMA PrefInductive == PrefInv /\ [PreferencesNext]_prefVars => PrefInv'
<1> SUFFICES ASSUME PrefInv, [PreferencesNext]_prefVars PROVE PrefInv'
  OBVIOUS
<1>1. CASE UNCHANGED prefVars
  <2>1. UNCHANGED <<pref, over, client, patch, test, mixed, rejected>>
    BY <1>1 DEF prefVars
  <2>2. \A q \in Patches : PatchOK(q)'
    BY <2>1, SameRequests
  <2>3. PrefTyped' /\ OverlayInv' /\ ClientInv'
    BY <2>1 DEF PrefInv, PrefTyped, OverlayInv, ClientInv, Apart, UnderWay, InTest
  <2>4. QED
    BY <2>2, <2>3 DEF PrefInv
<1>2. ASSUME NEW q \in Patches,
             \E s \in SUBSET Fields : \E ch \in [s -> {1, Bad}] : update_settings(q, ch)
      PROVE  PrefInv'
  BY <1>2, UpdateKeepsPrefs
<1>3. ASSUME NEW q \in Patches,
             \/ _set_preference(q) \/ SetOverride(q)
             \/ _refresh_openai_compatible_enabled(q) \/ EndPatch(q)
      PROVE  PrefInv'
  BY <1>3, SetPreferenceKeepsPrefs, SetOverrideKeepsPrefs, RefreshKeepsPrefs, EndPatchKeepsPrefs
<1>4. ASSUME NEW t \in Tests, BeginTest(t) \/ \E ok \in BOOLEAN : test_llm_connection(t, ok)
      PROVE  PrefInv'
  BY <1>4, BeginTestKeepsPrefs, TestKeepsPrefs
<1>5. CASE UseClient \/ apply_runtime_llm_preferences
  BY <1>5, UseClientKeepsPrefs, RestartKeepsPrefs
<1>6. QED
  BY <1>1, <1>2, <1>3, <1>4, <1>5 DEF PreferencesNext

(* What users rely on follows. *)
LEMMA PrefSound == PrefInv => PreferencesTypeOK /\ OverlayMatches /\ ClientCurrent
<1> SUFFICES ASSUME PrefInv PROVE PreferencesTypeOK /\ OverlayMatches /\ ClientCurrent
  OBVIOUS
<1>1. PreferencesTypeOK
  <2>1. Values \ {Bad} = {0, 1} /\ {0, 1} \subseteq Values
    BY DEF Values, Bad
  <2>2. QED
    BY <2>1 DEF PrefInv, PrefTyped, PreferencesTypeOK, Patching, Testing
<1>2. OverlayMatches
  BY DEF PrefInv, OverlayInv, OverlayMatches, Busy, InTest
<1>3. ClientCurrent
  BY DEF PrefInv, ClientInv, ClientCurrent, Busy, UnderWay
<1>4. QED
  BY <1>1, <1>2, <1>3

-----------------------------------------------------------------------------
(* Prices *)

SomePrices == UNION {[S -> 0 .. MaxChanges] : S \in SUBSET SoldPlans}

Hooking == [pc : {"idle", "apply"}, of : Nat \X HookKinds, seen : SomePrices, mixed : BOOLEAN]

Polling == [pc : {"idle", "fetch"}, loaded : SomePrices, fetched : SomePrices,
            left : SUBSET ActivePlans, mixed : BOOLEAN]

PricesTyped ==
    /\ \E n \in 0 .. MaxChanges : change \in [1 .. n -> SoldPlans]
    /\ remote \in [SoldPlans -> 0 .. MaxChanges] /\ price \in [SoldPlans -> 0 .. MaxChanges]
    /\ handled \subseteq Hooks /\ polls \in 0 .. MaxPolls /\ lagging \subseteq SoldPlans
    /\ hook \in [Requests -> Hooking] /\ poll \in Polling

(* Every price of f is one that changes c set for that plan. *)
Real(c, f) == \A p \in DOMAIN f : f[p] = 0 \/ (f[p] \in DOMAIN c /\ c[f[p]] = p)

PricesReal ==
    /\ Real(change, remote) /\ Real(change, price) /\ Real(change, poll.fetched)
    /\ \A q \in Requests : Real(change, hook[q].seen)

(* Prices fetched are those of now, unless one changed since. *)
HookOK(q) ==
    hook[q].pc = "apply" => /\ hook[q].of \in Hooks /\ DOMAIN hook[q].seen = SoldPlans
                            /\ ~hook[q].mixed => hook[q].seen = remote

(* ... and those loaded are the rows', unless another request wrote them.    *)
PollOK ==
    poll.pc = "fetch" =>
       /\ DOMAIN poll.loaded = ActivePlans /\ DOMAIN poll.fetched \subseteq ActivePlans
       /\ ~poll.mixed => /\ \A p \in ActivePlans : poll.loaded[p] = price[p]
                         /\ \A p \in DOMAIN poll.fetched : poll.fetched[p] = remote[p]

PriceInv == PricesTyped /\ PricesReal /\ (\A q \in Requests : HookOK(q)) /\ PollOK /\ PriceCurrent

(* Changes are numbered from 1. *)
LEMMA ChangeCount ==
  ASSUME NEW n \in Nat, DOMAIN change = 1 .. n
  PROVE  Cardinality(DOMAIN change) = n /\ Hooks = (1 .. n) \X HookKinds
<1>1. Cardinality(1 .. n) = n
  BY FS_Interval
<1>2. QED
  BY <1>1 DEF Hooks

(* A table of prices of some plans. *)
LEMMA SomePricesTyped ==
  /\ \A S \in SUBSET SoldPlans : \A f \in [S -> 0 .. MaxChanges] : f \in SomePrices
  /\ \A f \in SomePrices : /\ DOMAIN f \in SUBSET SoldPlans
                           /\ f \in [DOMAIN f -> 0 .. MaxChanges]
BY DEF SomePrices

(* One table written over another. *)
LEMMA OverTyped ==
  ASSUME NEW f \in SomePrices, NEW g \in SomePrices
  PROVE  /\ Over(f, g) \in SomePrices /\ DOMAIN Over(f, g) = DOMAIN f \cup DOMAIN g
         /\ \A p \in DOMAIN g : Over(f, g)[p] = g[p]
         /\ \A p \in DOMAIN f \ DOMAIN g : Over(f, g)[p] = f[p]
<1>1. /\ DOMAIN f \subseteq SoldPlans /\ DOMAIN g \subseteq SoldPlans
      /\ f \in [DOMAIN f -> 0 .. MaxChanges] /\ g \in [DOMAIN g -> 0 .. MaxChanges]
  BY SomePricesTyped
<1>2. Over(f, g) \in [DOMAIN f \cup DOMAIN g -> 0 .. MaxChanges]
  BY <1>1 DEF Over
<1>3. DOMAIN f \cup DOMAIN g \in SUBSET SoldPlans
  BY <1>1
<1>4. Over(f, g) \in SomePrices
  BY <1>2, <1>3, SomePricesTyped
<1>5. QED
  BY <1>2, <1>4 DEF Over

(* ... shows no price that neither of them shows. *)
LEMMA OverReal ==
  ASSUME NEW c, NEW f, NEW g, Real(c, f), Real(c, g)
  PROVE  Real(c, Over(f, g))
BY DEF Real, Over

(* Records of webhook requests and reconciliations that do not run. *)
LEMMA IdleRecords ==
  /\ NoPrices \in SomePrices /\ DOMAIN NoPrices = {}
  /\ NoHook \in Hooking /\ NoHook.pc = "idle" /\ NoHook.seen = NoPrices
  /\ NoPoll \in Polling /\ NoPoll.pc = "idle" /\ NoPoll.fetched = NoPrices
<1>1. NoPrices \in [{} -> 0 .. MaxChanges] /\ DOMAIN NoPrices = {}
  BY DEF NoPrices
<1>2. NoPrices \in SomePrices
  BY <1>1, SomePricesTyped
<1>3. <<0, "variant">> \in Nat \X HookKinds
  BY DEF HookKinds
<1>4. QED
  BY <1>1, <1>2, <1>3 DEF NoHook, Hooking, NoPoll, Polling

(* The empty table shows no price at all. *)
LEMMA NothingIsReal == \A c : Real(c, NoPrices)
BY DEF Real, NoPrices

(* Steps that change neither prices nor the record of changes and keep what  *)
(* requests hold.                                                            *)
LEMMA PriceFrame ==
  ASSUME PriceInv, UNCHANGED <<remote, price, change, lagging>>,
         handled' \subseteq Hooks, polls' \in 0 .. MaxPolls,
         hook' \in [Requests -> Hooking], poll' \in Polling,
         \A q \in Requests : HookOK(q)' /\ Real(change, hook'[q].seen),
         PollOK', Real(change, poll'.fetched)
  PROVE  PriceInv'
<1>1. Hooks' = Hooks
  BY DEF Hooks
<1>2. PricesTyped'
  BY <1>1 DEF PriceInv, PricesTyped
<1>3. PricesReal' /\ PriceCurrent'
  BY DEF PriceInv, PricesReal, PriceCurrent
<1>4. QED
  BY <1>2, <1>3 DEF PriceInv

(* The facts of PriceInv about one request and the reconciliation. *)
LEMMA PriceRecords ==
  ASSUME PriceInv
  PROVE  /\ ActivePlans \subseteq SoldPlans /\ MaxChanges \in Nat /\ poll \in Polling /\ PollOK
         /\ hook \in [Requests -> Hooking]
         /\ \A q \in Requests : /\ hook[q] \in Hooking /\ HookOK(q)
                                 /\ Real(change, hook[q].seen)
         /\ Real(change, remote) /\ Real(change, price) /\ Real(change, poll.fetched)
         /\ remote \in [SoldPlans -> 0 .. MaxChanges] /\ price \in [SoldPlans -> 0 .. MaxChanges]
         /\ remote \in SomePrices /\ price \in SomePrices
         /\ handled \subseteq Hooks /\ polls \in 0 .. MaxPolls /\ lagging \subseteq SoldPlans
<1>1. remote \in [SoldPlans -> 0 .. MaxChanges] /\ price \in [SoldPlans -> 0 .. MaxChanges]
  BY DEF PriceInv, PricesTyped
<1>2. remote \in SomePrices /\ price \in SomePrices
  BY <1>1, SomePricesTyped
<1>3. QED
  BY <1>1, <1>2, PricesAssumption DEF PriceInv, PricesTyped, PricesReal

(* Lemon Squeezy changes a price: every plan but this one is as current as it *)
(* was, and what has been fetched may be old.                                *)
LEMMA ChangeKeepsPrices ==
  ASSUME PriceInv, NEW p \in SoldPlans, ChangePrice(p)
  PROVE  PriceInv'
<1>1. PICK n \in 0 .. MaxChanges : change \in [1 .. n -> SoldPlans]
  BY DEF PriceInv, PricesTyped
<1>2. n \in Nat /\ DOMAIN change = 1 .. n /\ MaxChanges \in Nat
  BY <1>1, PricesAssumption
<1>3. Cardinality(DOMAIN change) = n /\ Hooks = (1 .. n) \X HookKinds
  BY <1>2, ChangeCount
<1>4. /\ n + 1 <= MaxChanges
      /\ remote' = [remote EXCEPT ![p] = n + 1]
      /\ change' = [m \in 1 .. n + 1 |-> IF m = n + 1 THEN p ELSE change[m]]
      /\ lagging' = lagging \cup {p}
      /\ hook' = [q \in Requests |-> [hook[q] EXCEPT !.mixed = TRUE]]
      /\ poll' = [poll EXCEPT !.mixed = TRUE]
      /\ UNCHANGED <<price, handled, polls>>
  BY <1>3 DEF ChangePrice
<1>5. change' \in [1 .. n + 1 -> SoldPlans] /\ n + 1 \in 0 .. MaxChanges
      /\ DOMAIN change' = 1 .. n + 1
  BY <1>1, <1>2, <1>4
<1>6. Cardinality(DOMAIN change') = n + 1
  <2>1. Cardinality(1 .. n + 1) = n + 1
    BY <1>2, FS_Interval
  <2>2. QED
    BY <1>5, <2>1
<1>7. Hooks \subseteq Hooks'
  BY <1>2, <1>3, <1>6 DEF Hooks
<1>8. /\ poll \in Polling /\ PollOK
      /\ hook \in [Requests -> Hooking]
      /\ \A q \in Requests : /\ hook[q] \in Hooking /\ HookOK(q) /\ Real(change, hook[q].seen)
      /\ Real(change, remote) /\ Real(change, price) /\ Real(change, poll.fetched)
      /\ remote \in [SoldPlans -> 0 .. MaxChanges] /\ price \in [SoldPlans -> 0 .. MaxChanges]
      /\ handled \subseteq Hooks /\ polls \in 0 .. MaxPolls /\ lagging \subseteq SoldPlans
  BY PriceRecords
<1>9. /\ poll' \in Polling /\ poll'.pc = poll.pc /\ poll'.mixed = TRUE
      /\ poll'.loaded = poll.loaded /\ poll'.fetched = poll.fetched
  BY <1>4, <1>8 DEF Polling
<1>10. ASSUME NEW q \in Requests
       PROVE  /\ hook'[q] \in Hooking /\ hook'[q].pc = hook[q].pc /\ hook'[q].mixed = TRUE
              /\ hook'[q].of = hook[q].of /\ hook'[q].seen = hook[q].seen
  BY <1>4, <1>8 DEF Hooking
<1>11. ASSUME NEW f, Real(change, f) PROVE Real(change', f)
  BY <1>2, <1>4, <1>5, <1>11 DEF Real
<1>12. PricesTyped'
  <2>1. remote' \in [SoldPlans -> 0 .. MaxChanges]
    BY <1>2, <1>4, <1>8
  <2>2. hook' \in [Requests -> Hooking]
    BY <1>4, <1>10
  <2>3. QED
    BY <1>4, <1>5, <1>7, <1>8, <1>9, <2>1, <2>2 DEF PricesTyped
<1>13. PricesReal'
  <2>1. Real(change', remote')
    <3>1. Real(change', remote)
      BY <1>8, <1>11
    <3>2. change'[n + 1] = p
      BY <1>2, <1>4
    <3>3. QED
      BY <1>2, <1>4, <1>5, <1>8, <3>1, <3>2 DEF Real
  <2>2. Real(change', price') /\ Real(change', poll'.fetched)
    BY <1>4, <1>8, <1>9, <1>11
  <2>3. \A q \in Requests : Real(change', hook'[q].seen)
    BY <1>8, <1>10, <1>11
  <2>4. QED
    BY <2>1, <2>2, <2>3 DEF PricesReal
<1>14. \A q \in Requests : HookOK(q)'
  BY <1>7, <1>8, <1>10 DEF HookOK
<1>15. PollOK'
  BY <1>8, <1>9 DEF PollOK
<1>16. PriceCurrent'
  BY <1>4, <1>8 DEF PriceInv, PriceCurrent
<1>17. QED
  BY <1>12, <1>13, <1>14, <1>15, <1>16 DEF PriceInv

(* Writes of prices by one request: a reconciliation under way has to reckon *)
(* with them.                                                                *)
LEMMA PriceWrite ==
  ASSUME PriceInv, UNCHANGED <<remote, change, polls>>,
         price' \in [SoldPlans -> 0 .. MaxChanges], Real(change, price'),
         handled' \subseteq Hooks, lagging' \subseteq SoldPlans, PriceCurrent',
         hook' \in [Requests -> Hooking],
         \A q \in Requests : HookOK(q)' /\ Real(change, hook'[q].seen),
         poll' = [poll EXCEPT !.mixed = TRUE] \/ poll' = NoPoll
  PROVE  PriceInv'
<1>1. Hooks' = Hooks
  BY DEF Hooks
<1>2. /\ poll \in Polling /\ PollOK /\ Real(change, poll.fetched)
      /\ Real(change, remote)
  BY PriceRecords
<1>3. poll' \in Polling /\ PollOK' /\ Real(change, poll'.fetched)
  <2>1. CASE poll' = NoPoll
    BY <2>1, IdleRecords, NothingIsReal DEF PollOK
  <2>2. CASE poll' = [poll EXCEPT !.mixed = TRUE]
    <3>1. /\ poll' \in Polling /\ poll'.pc = poll.pc /\ poll'.mixed = TRUE
          /\ poll'.loaded = poll.loaded /\ poll'.fetched = poll.fetched
      BY <1>2, <2>2 DEF Polling
    <3>2. QED
      BY <1>2, <3>1 DEF PollOK
  <2>3. QED
    BY <2>1, <2>2
<1>4. PricesTyped'
  BY <1>1, <1>3 DEF PriceInv, PricesTyped
<1>5. PricesReal'
  BY <1>2, <1>3 DEF PricesReal
<1>6. QED
  BY <1>3, <1>4, <1>5 DEF PriceInv

(* variant_updated, in time or late. *)
LEMMA VariantKeepsPrices ==
  ASSUME PriceInv, NEW h \in Hooks, handle_variant_updated(h)
  PROVE  PriceInv'
<1>1. PICK n \in 0 .. MaxChanges : change \in [1 .. n -> SoldPlans]
  BY DEF PriceInv, PricesTyped
<1>2. n \in Nat /\ DOMAIN change = 1 .. n /\ MaxChanges \in Nat
  BY <1>1, PricesAssumption
<1>3. Hooks = (1 .. n) \X HookKinds
  BY <1>2, ChangeCount
<1>4. PICK p : p = change[h[1]]
  OBVIOUS
<1>5. h[1] \in 1 .. n /\ h[1] \in 0 .. MaxChanges /\ p \in SoldPlans
  BY <1>1, <1>2, <1>3, <1>4
<1>6. /\ handled' = handled \cup {h}
      /\ price' = [price EXCEPT ![p] = h[1]]
      /\ lagging' = IF remote[p] = h[1] THEN lagging \ {p} ELSE lagging \cup {p}
      /\ poll' = [poll EXCEPT !.mixed = TRUE]
      /\ UNCHANGED <<remote, change, hook, polls>>
  BY <1>4 DEF handle_variant_updated, TellsNow
<1>7. /\ hook \in [Requests -> Hooking]
      /\ \A q \in Requests : HookOK(q) /\ Real(change, hook[q].seen)
      /\ Real(change, price)
      /\ remote \in [SoldPlans -> 0 .. MaxChanges] /\ price \in [SoldPlans -> 0 .. MaxChanges]
      /\ handled \subseteq Hooks /\ lagging \subseteq SoldPlans
  BY PriceRecords
<1>8. price' \in [SoldPlans -> 0 .. MaxChanges] /\ handled' \subseteq Hooks /\ lagging' \subseteq SoldPlans
  BY <1>5, <1>6, <1>7
<1>9. Real(change, price')
  BY <1>2, <1>4, <1>5, <1>6, <1>7 DEF Real
<1>10. PriceCurrent'
  BY <1>5, <1>6, <1>7 DEF PriceInv, PriceCurrent
<1>11. hook' \in [Requests -> Hooking] /\ \A q \in Requests : HookOK(q)' /\ Real(change, hook'[q].seen)
  BY <1>6, <1>7 DEF HookOK, Hooks
<1>12. UNCHANGED <<remote, change, polls>>
  BY <1>6
<1>13. QED
  BY <1>6, <1>8, <1>9, <1>10, <1>11, <1>12, PriceWrite

(* product_updated: all prices are fetched. *)
LEMMA ListKeepsPrices ==
  ASSUME PriceInv, NEW q \in Requests, NEW h \in Hooks, ListVariants(q, h)
  PROVE  PriceInv'
<1>1. PICK new : new = [pc |-> "apply", of |-> h, seen |-> remote, mixed |-> FALSE]
  OBVIOUS
<1>2. /\ hook' = [hook EXCEPT ![q] = new]
      /\ UNCHANGED <<remote, price, change, handled, poll, polls, lagging>>
  BY <1>1 DEF ListVariants
<1>3. /\ poll \in Polling /\ PollOK
      /\ hook \in [Requests -> Hooking]
      /\ \A r \in Requests : HookOK(r) /\ Real(change, hook[r].seen)
      /\ Real(change, remote) /\ Real(change, poll.fetched)
      /\ remote \in [SoldPlans -> 0 .. MaxChanges] /\ remote \in SomePrices
      /\ handled \subseteq Hooks /\ polls \in 0 .. MaxPolls
  BY PriceRecords
<1>4. h \in Nat \X HookKinds
  <2>1. PICK n \in 0 .. MaxChanges : change \in [1 .. n -> SoldPlans]
    BY DEF PriceInv, PricesTyped
  <2>2. n \in Nat /\ DOMAIN change = 1 .. n
    BY <2>1, PricesAssumption
  <2>3. Hooks = (1 .. n) \X HookKinds
    BY <2>2, ChangeCount
  <2>4. QED
    BY <2>2, <2>3
<1>5. new \in Hooking /\ new.pc = "apply" /\ new.of = h /\ new.seen = remote
  BY <1>1, <1>3, <1>4 DEF Hooking
<1>6. hook' \in [Requests -> Hooking] /\ hook'[q] = new /\ \A r \in Requests \ {q} : hook'[r] = hook[r]
  BY <1>2, <1>3, <1>5
<1>7. ASSUME NEW r \in Requests PROVE HookOK(r)' /\ Real(change, hook'[r].seen)
  <2>1. Hooks' = Hooks
    BY <1>2 DEF Hooks
  <2>2. CASE r = q
    BY <1>2, <1>3, <1>5, <1>6, <2>1, <2>2 DEF HookOK
  <2>3. CASE r # q
    BY <1>2, <1>3, <1>6, <2>1, <2>3 DEF HookOK
  <2>4. QED
    BY <2>2, <2>3
<1>8. PollOK'
  BY <1>2, <1>3 DEF PollOK
<1>9. QED
  BY <1>2, <1>3, <1>6, <1>7, <1>8, PriceFrame

(* ... or could not be. *)
LEMMA ListFailsKeepsPrices ==
  ASSUME PriceInv, NEW h \in Hooks, ListFails(h)
  PROVE  PriceInv'
<1>1. /\ handled' = handled \cup {h}
      /\ UNCHANGED <<remote, price, change, hook, poll, polls, lagging>>
  BY DEF ListFails
<1>2. /\ poll \in Polling /\ PollOK
      /\ hook \in [Requests -> Hooking]
      /\ \A r \in Requests : HookOK(r) /\ Real(change, hook[r].seen)
      /\ Real(change, poll.fetched)
      /\ handled \subseteq Hooks /\ polls \in 0 .. MaxPolls
  BY PriceRecords
<1>3. Hooks' = Hooks
  BY <1>1 DEF Hooks
<1>4. \A r \in Requests : HookOK(r)' /\ Real(change, hook'[r].seen)
  BY <1>1, <1>2, <1>3 DEF HookOK
<1>5. PollOK'
  BY <1>1, <1>2 DEF PollOK
<1>6. handled' \subseteq Hooks
  BY <1>1, <1>2
<1>7. QED
  BY <1>1, <1>2, <1>4, <1>5, <1>6, PriceFrame

(* The rows are written with the prices fetched, once for each event. *)
LEMMA ProductKeepsPrices ==
  ASSUME PriceInv, NEW q \in Requests, handle_product_updated(q)
  PROVE  PriceInv'
<1>1. /\ poll \in Polling /\ PollOK
      /\ hook \in [Requests -> Hooking]
      /\ \A r \in Requests : /\ hook[r] \in Hooking /\ HookOK(r) /\ Real(change, hook[r].seen)
      /\ Real(change, price) /\ Real(change, poll.fetched)
      /\ remote \in [SoldPlans -> 0 .. MaxChanges] /\ price \in [SoldPlans -> 0 .. MaxChanges]
      /\ price \in SomePrices
      /\ handled \subseteq Hooks /\ polls \in 0 .. MaxPolls /\ lagging \subseteq SoldPlans
  BY PriceRecords
<1>2. /\ hook[q].pc = "apply" /\ hook' = [hook EXCEPT ![q] = NoHook]
      /\ UNCHANGED <<remote, change, polls>>
      /\ \/ UNCHANGED <<price, handled, lagging, poll>>
         \/ /\ handled' = handled \cup {hook[q].of}
            /\ price' = Over(price, hook[q].seen)
            /\ lagging' = IF hook[q].mixed THEN SoldPlans ELSE {}
            /\ poll' = [poll EXCEPT !.mixed = TRUE]
  BY DEF handle_product_updated
<1>3. hook' \in [Requests -> Hooking] /\ hook'[q] = NoHook /\ \A r \in Requests \ {q} : hook'[r] = hook[r]
  BY <1>1, <1>2, IdleRecords
<1>4. ASSUME NEW r \in Requests PROVE HookOK(r)' /\ Real(change, hook'[r].seen)
  <2>1. Hooks' = Hooks
    BY <1>2 DEF Hooks
  <2>2. CASE r = q
    BY <1>3, <2>2, IdleRecords, NothingIsReal DEF HookOK
  <2>3. CASE r # q
    BY <1>1, <1>2, <1>3, <2>1, <2>3 DEF HookOK
  <2>4. QED
    BY <2>2, <2>3
<1>5. CASE UNCHANGED <<price, handled, lagging, poll>>
  <2>1. PollOK'
    BY <1>1, <1>2, <1>5 DEF PollOK
  <2>2. UNCHANGED <<remote, price, change, lagging>> /\ handled' \subseteq Hooks /\ polls' \in 0 .. MaxPolls
        /\ poll' \in Polling /\ Real(change, poll'.fetched)
    BY <1>1, <1>2, <1>5
  <2>3. QED
    BY <1>3, <1>4, <2>1, <2>2, PriceFrame
<1>6. CASE /\ handled' = handled \cup {hook[q].of}
           /\ price' = Over(price, hook[q].seen)
           /\ lagging' = IF hook[q].mixed THEN SoldPlans ELSE {}
           /\ poll' = [poll EXCEPT !.mixed = TRUE]
  <2>1. /\ hook[q].of \in Hooks /\ DOMAIN hook[q].seen = SoldPlans
        /\ ~hook[q].mixed => hook[q].seen = remote
        /\ hook[q].seen \in SomePrices /\ hook[q].mixed \in BOOLEAN
    BY <1>1, <1>2 DEF HookOK, Hooking
  <2>2. /\ price' \in SomePrices /\ DOMAIN price' = SoldPlans
        /\ \A p \in SoldPlans : price'[p] = hook[q].seen[p]
    BY <1>1, <1>6, <2>1, OverTyped
  <2>3. price' \in [SoldPlans -> 0 .. MaxChanges]
    BY <2>2, SomePricesTyped
  <2>4. Real(change, price')
    BY <1>1, <1>6, OverReal
  <2>5. PriceCurrent'
    BY <1>2, <1>6, <2>1, <2>2 DEF PriceCurrent
  <2>6. handled' \subseteq Hooks /\ lagging' \subseteq SoldPlans
    BY <1>1, <1>6, <2>1
  <2>7. UNCHANGED <<remote, change, polls>>
    BY <1>2
  <2>8. QED
    BY <1>3, <1>4, <1>6, <2>3, <2>4, <2>5, <2>6, <2>7, PriceWrite
<1>7. QED
  BY <1>2, <1>5, <1>6

(* Steps of a reconciliation that write nothing. *)
LEMMA PollFrame ==
  ASSUME PriceInv, UNCHANGED <<remote, price, change, handled, hook, lagging>>,
         polls' \in 0 .. MaxPolls, poll' \in Polling, PollOK', Real(change, poll'.fetched)
  PROVE  PriceInv'
<1>1. /\ hook \in [Requests -> Hooking] /\ handled \subseteq Hooks
      /\ \A r \in Requests : HookOK(r) /\ Real(change, hook[r].seen)
  BY PriceRecords
<1>2. Hooks' = Hooks
  BY DEF Hooks
<1>3. \A r \in Requests : HookOK(r)' /\ Real(change, hook'[r].seen)
  BY <1>1, <1>2 DEF HookOK
<1>4. UNCHANGED <<remote, price, change, lagging>> /\ hook' \in [Requests -> Hooking] /\ handled' \subseteq Hooks
  BY <1>1
<1>5. QED
  BY <1>3, <1>4, PriceFrame

(* A reconciliation begins with the rows of the active plans. *)
LEMMA StartKeepsPrices ==
  ASSUME PriceInv, StartPoll
  PROVE  PriceInv'
<1>1. /\ ActivePlans \subseteq SoldPlans /\ price \in [SoldPlans -> 0 .. MaxChanges]
      /\ polls \in 0 .. MaxPolls /\ MaxPolls \in Nat
  BY PriceRecords, PricesAssumption
<1>2. PICK rows : rows = [p \in ActivePlans |-> price[p]]
  OBVIOUS
<1>3. /\ polls < MaxPolls /\ polls' = polls + 1
      /\ poll' = [pc |-> "fetch", loaded |-> rows, fetched |-> NoPrices,
                  left |-> ActivePlans, mixed |-> FALSE]
      /\ UNCHANGED <<remote, price, change, handled, hook, lagging>>
  BY <1>2 DEF StartPoll
<1>4. rows \in [ActivePlans -> 0 .. MaxChanges] /\ DOMAIN rows = ActivePlans
  BY <1>1, <1>2
<1>5. rows \in SomePrices
  BY <1>1, <1>4, SomePricesTyped
<1>6. /\ poll' \in Polling /\ poll'.loaded = rows /\ poll'.fetched = NoPrices
  BY <1>3, <1>5, IdleRecords DEF Polling
<1>7. PollOK'
  <2>1. \A p \in ActivePlans : rows[p] = price[p]
    BY <1>2
  <2>2. QED
    BY <1>3, <1>4, <1>6, <2>1, IdleRecords DEF PollOK
<1>8. polls' \in 0 .. MaxPolls /\ Real(change, poll'.fetched)
  BY <1>1, <1>3, <1>6, NothingIsReal
<1>9. QED
  BY <1>3, <1>6, <1>7, <1>8, PollFrame

(* It fetches the price of one plan. *)
LEMMA GetKeepsPrices ==
  ASSUME PriceInv, NEW p \in ActivePlans, GetVariant(p)
  PROVE  PriceInv'
<1>1. /\ ActivePlans \subseteq SoldPlans /\ remote \in [SoldPlans -> 0 .. MaxChanges]
      /\ poll \in Polling /\ PollOK /\ polls \in 0 .. MaxPolls
      /\ Real(change, remote) /\ Real(change, poll.fetched)
  BY PriceRecords
<1>2. PICK one : one = [x \in {p} |-> remote[p]]
  OBVIOUS
<1>3. PICK all : all = Over(poll.fetched, one)
  OBVIOUS
<1>4. /\ poll.pc = "fetch"
      /\ poll' = [poll EXCEPT !.left = poll.left \ {p}, !.fetched = all]
      /\ UNCHANGED <<remote, price, change, handled, hook, polls, lagging>>
  BY <1>1, <1>2, <1>3 DEF GetVariant, Polling
<1>5. one \in [{p} -> 0 .. MaxChanges] /\ DOMAIN one = {p} /\ {p} \in SUBSET SoldPlans
      /\ one[p] = remote[p]
  BY <1>1, <1>2
<1>6. one \in SomePrices /\ poll.fetched \in SomePrices
  BY <1>1, <1>5, SomePricesTyped DEF Polling
<1>7. /\ all \in SomePrices /\ DOMAIN all = DOMAIN poll.fetched \cup {p}
      /\ all[p] = remote[p]
      /\ \A x \in DOMAIN poll.fetched \ {p} : all[x] = poll.fetched[x]
  <2>1. /\ Over(poll.fetched, one) \in SomePrices
        /\ DOMAIN Over(poll.fetched, one) = DOMAIN poll.fetched \cup DOMAIN one
        /\ \A x \in DOMAIN one : Over(poll.fetched, one)[x] = one[x]
        /\ \A x \in DOMAIN poll.fetched \ DOMAIN one : Over(poll.fetched, one)[x] = poll.fetched[x]
    BY <1>6, OverTyped
  <2>2. QED
    BY <1>3, <1>5, <2>1
<1>8. /\ poll' \in Polling /\ poll'.pc = "fetch" /\ poll'.loaded = poll.loaded
      /\ poll'.fetched = all /\ poll'.mixed = poll.mixed
  BY <1>1, <1>4, <1>7 DEF Polling
<1>9. PollOK'
  BY <1>1, <1>4, <1>7, <1>8 DEF PollOK
<1>10. Real(change, poll'.fetched)
  <2>1. Real(change, one)
    BY <1>1, <1>5 DEF Real
  <2>2. Real(change, Over(poll.fetched, one))
    BY <1>1, <2>1, OverReal
  <2>3. QED
    BY <1>3, <1>8, <2>2
<1>11. polls' \in 0 .. MaxPolls
  BY <1>1, <1>4
<1>12. QED
  BY <1>4, <1>8, <1>9, <1>10, <1>11, PollFrame

(* ... or passes over it, or is given up. *)
LEMMA SkipKeepsPrices ==
  ASSUME PriceInv, PollDies \/ \E p \in ActivePlans : GetVariantFails(p)
  PROVE  PriceInv'
<1>1. poll \in Polling /\ PollOK /\ polls \in 0 .. MaxPolls /\ Real(change, poll.fetched)
  BY PriceRecords
<1>2. /\ UNCHANGED <<remote, price, change, handled, hook, polls, lagging>>
      /\ poll' = NoPoll \/ \E p \in ActivePlans : poll' = [poll EXCEPT !.left = poll.left \ {p}]
  BY <1>1 DEF PollDies, GetVariantFails, Polling
<1>3. CASE poll' = NoPoll
  <2>1. poll' \in Polling /\ PollOK' /\ Real(change, poll'.fetched)
    BY <1>3, IdleRecords, NothingIsReal DEF PollOK
  <2>2. polls' \in 0 .. MaxPolls
    BY <1>1, <1>2
  <2>3. QED
    BY <1>2, <2>1, <2>2, PollFrame
<1>4. ASSUME NEW p \in ActivePlans, poll' = [poll EXCEPT !.left = poll.left \ {p}]
      PROVE  PriceInv'
  <2>1. /\ poll' \in Polling /\ poll'.pc = poll.pc /\ poll'.loaded = poll.loaded
        /\ poll'.fetched = poll.fetched /\ poll'.mixed = poll.mixed
    BY <1>1, <1>4 DEF Polling
  <2>2. PollOK'
    BY <1>1, <1>2, <2>1 DEF PollOK
  <2>3. Real(change, poll'.fetched) /\ polls' \in 0 .. MaxPolls
    BY <1>1, <1>2, <2>1
  <2>4. QED
    BY <1>2, <2>1, <2>2, <2>3, PollFrame
<1>5. QED
  BY <1>2, <1>3, <1>4

(* The rows found to differ are written in one commit. *)
LEMMA ReconcileKeepsPrices ==
  ASSUME PriceInv, reconcile_prices
  PROVE  PriceInv'
<1>1. /\ ActivePlans \subseteq SoldPlans
      /\ poll \in Polling /\ PollOK
      /\ hook \in [Requests -> Hooking]
      /\ \A r \in Requests : HookOK(r) /\ Real(change, hook[r].seen)
      /\ Real(change, price) /\ Real(change, poll.fetched)
      /\ price \in [SoldPlans -> 0 .. MaxChanges] /\ price \in SomePrices
      /\ handled \subseteq Hooks /\ lagging \subseteq SoldPlans
  BY PriceRecords
<1>2. PICK fix : fix = [p \in Corrected |-> poll.fetched[p]]
  OBVIOUS
<1>3. /\ poll.pc = "fetch" /\ price' = Over(price, fix) /\ poll' = NoPoll
      /\ lagging' = IF poll.mixed THEN lagging \cup Corrected ELSE lagging \ DOMAIN poll.fetched
      /\ UNCHANGED <<remote, change, handled, hook, polls>>
  BY <1>2 DEF reconcile_prices
<1>4. /\ DOMAIN poll.fetched \subseteq ActivePlans /\ Corrected \subseteq DOMAIN poll.fetched
      /\ poll.fetched \in [DOMAIN poll.fetched -> 0 .. MaxChanges]
      /\ poll.mixed \in BOOLEAN
  BY <1>1, <1>3, SomePricesTyped DEF PollOK, Polling, Corrected
<1>5. fix \in [Corrected -> 0 .. MaxChanges] /\ DOMAIN fix = Corrected /\ Corrected \in SUBSET SoldPlans
  BY <1>1, <1>2, <1>4
<1>6. fix \in SomePrices
  BY <1>5, SomePricesTyped
<1>7. /\ price' \in SomePrices /\ DOMAIN price' = SoldPlans
      /\ \A p \in Corrected : price'[p] = poll.fetched[p]
      /\ \A p \in SoldPlans \ Corrected : price'[p] = price[p]
  <2>1. /\ Over(price, fix) \in SomePrices /\ DOMAIN Over(price, fix) = DOMAIN price \cup DOMAIN fix
        /\ \A p \in DOMAIN fix : Over(price, fix)[p] = fix[p]
        /\ \A p \in DOMAIN price \ DOMAIN fix : Over(price, fix)[p] = price[p]
    BY <1>1, <1>6, OverTyped
  <2>2. QED
    BY <1>1, <1>2, <1>3, <1>5, <2>1
<1>8. price' \in [SoldPlans -> 0 .. MaxChanges]
  BY <1>7, SomePricesTyped
<1>9. Real(change, price')
  <2>1. Real(change, fix)
    BY <1>1, <1>2, <1>4, <1>5 DEF Real
  <2>2. QED
    BY <1>1, <1>3, <2>1, OverReal
<1>10. ASSUME NEW p \in SoldPlans \ lagging' PROVE price'[p] = remote'[p]
  <2>1. CASE poll.mixed
    <3>1. p \notin lagging /\ p \notin Corrected
      BY <1>3, <1>10, <2>1
    <3>2. QED
      BY <1>3, <1>7, <3>1 DEF PriceInv, PriceCurrent
  <2>2. CASE ~poll.mixed /\ p \in DOMAIN poll.fetched
    <3>1. poll.loaded[p] = price[p] /\ poll.fetched[p] = remote[p]
      BY <1>1, <1>3, <1>4, <2>2 DEF PollOK
    <3>2. QED
      BY <1>3, <1>7, <2>2, <3>1 DEF Corrected
  <2>3. CASE ~poll.mixed /\ p \notin DOMAIN poll.fetched
    <3>1. p \notin lagging /\ p \notin Corrected
      BY <1>3, <1>4, <1>10, <2>3
    <3>2. QED
      BY <1>3, <1>7, <3>1 DEF PriceInv, PriceCurrent
  <2>4. QED
    BY <1>4, <2>1, <2>2, <2>3
<1>11. PriceCurrent'
  BY <1>10 DEF PriceCurrent
<1>12. lagging' \subseteq SoldPlans /\ handled' \subseteq Hooks /\ hook' \in [Requests -> Hooking]
  BY <1>1, <1>3, <1>5
<1>13. \A q \in Requests : HookOK(q)' /\ Real(change, hook'[q].seen)
  BY <1>1, <1>3 DEF HookOK, Hooks
<1>14. UNCHANGED <<remote, change, polls>>
  BY <1>3
<1>15. QED
  BY <1>3, <1>8, <1>9, <1>11, <1>12, <1>13, <1>14, PriceWrite

(* At first every plan is shown at the price Lemon Squeezy has. *)
LEMMA PriceInitial == PricesInit => PriceInv
<1> SUFFICES ASSUME PricesInit PROVE PriceInv
  OBVIOUS
<1>1. /\ remote = [p \in SoldPlans |-> 0] /\ price = remote
      /\ change = [n \in {} |-> 0] /\ handled = {}
      /\ hook = [q \in Requests |-> NoHook] /\ poll = NoPoll
      /\ polls = 0 /\ lagging = {} /\ MaxChanges \in Nat /\ MaxPolls \in Nat
  BY PricesAssumption DEF PricesInit
<1>2. PricesTyped
  <2>1. 0 \in 0 .. MaxChanges /\ change \in [1 .. 0 -> SoldPlans]
    BY <1>1
  <2>2. remote \in [SoldPlans -> 0 .. MaxChanges] /\ price \in [SoldPlans -> 0 .. MaxChanges]
    BY <1>1
  <2>3. hook \in [Requests -> Hooking] /\ poll \in Polling
    BY <1>1, IdleRecords
  <2>4. handled \subseteq Hooks /\ polls \in 0 .. MaxPolls /\ lagging \subseteq SoldPlans
    BY <1>1
  <2>5. QED
    BY <2>1, <2>2, <2>3, <2>4 DEF PricesTyped
<1>3. PricesReal
  BY <1>1, IdleRecords, NothingIsReal DEF PricesReal, Real
<1>4. (\A q \in Requests : HookOK(q)) /\ PollOK /\ PriceCurrent
  BY <1>1, IdleRecords DEF HookOK, PollOK, PriceCurrent
<1>5. QED
  BY <1>2, <1>3, <1>4 DEF PriceInv

(* Every step of the prices keeps PriceInv. *)
LEMMA PriceInductive == PriceInv /\ [PricesNext]_priceVars => PriceInv'
<1> SUFFICES ASSUME PriceInv, [PricesNext]_priceVars PROVE PriceInv'
  OBVIOUS
<1>1. CASE UNCHANGED priceVars
  <2>1. UNCHANGED <<remote, price, change, handled, hook, poll, polls, lagging>>
    BY <1>1 DEF priceVars
  <2>2. /\ poll \in Polling /\ PollOK /\ polls \in 0 .. MaxPolls /\ Real(change, poll.fetched)
    BY PriceRecords
  <2>3. PollOK' /\ polls' \in 0 .. MaxPolls /\ poll' \in Polling /\ Real(change, poll'.fetched)
    BY <2>1, <2>2 DEF PollOK
  <2>4. QED
    BY <2>1, <2>3, PollFrame
<1>2. ASSUME NEW p \in SoldPlans, ChangePrice(p) PROVE PriceInv'
  BY <1>2, ChangeKeepsPrices
<1>3. ASSUME NEW h \in Hooks, handle_variant_updated(h) \/ ListFails(h) PROVE PriceInv'
  BY <1>3, VariantKeepsPrices, ListFailsKeepsPrices
<1>4. ASSUME NEW q \in Requests, handle_product_updated(q) \/ \E h \in Hooks : ListVariants(q, h)
      PROVE  PriceInv'
  BY <1>4, ProductKeepsPrices, ListKeepsPrices
<1>5. CASE StartPoll \/ reconcile_prices \/ PollDies
  BY <1>5, StartKeepsPrices, ReconcileKeepsPrices, SkipKeepsPrices
<1>6. ASSUME NEW p \in ActivePlans, GetVariant(p) \/ GetVariantFails(p) PROVE PriceInv'
  BY <1>6, GetKeepsPrices, SkipKeepsPrices
<1>7. QED
  BY <1>1, <1>2, <1>3, <1>4, <1>5, <1>6 DEF PricesNext

(* What the public list of plans shows follows. *)
LEMMA PriceSound == PriceInv => PricesTypeOK /\ PriceWasCharged /\ PriceCurrent
BY DEF PriceInv, PricesTyped, PricesReal, Real, PricesTypeOK, PriceWasCharged

-----------------------------------------------------------------------------
(* api/routes/settings.py, services/billing.py: what a restart would load is *)
(* what the router reads once requests that did not overlap have ended; the  *)
(* kept client has the current URL, unless a PATCH was refused half-way; a   *)
(* plan is shown at a price it has had, and at the one it has unless a       *)
(* change of it is still to be told or what was told last was old.           *)
THEOREM SettingsAlwaysSound == UpkeepSpec => []SettingsSound
<1>1. UpkeepInit => PrefInv /\ PriceInv
  BY PrefInitial, PriceInitial DEF UpkeepInit
<1>2. PrefInv /\ PriceInv /\ [UpkeepNext]_allVars => PrefInv' /\ PriceInv'
  <2> SUFFICES ASSUME PrefInv, PriceInv, [UpkeepNext]_allVars PROVE PrefInv' /\ PriceInv'
    OBVIOUS
  <2>1. [PreferencesNext]_prefVars /\ [PricesNext]_priceVars
    BY DEF UpkeepNext, allVars
  <2>2. QED
    BY <2>1, PrefInductive, PriceInductive
<1>3. PrefInv /\ PriceInv => SettingsSound
  BY PrefSound, PriceSound DEF SettingsSound
<1>4. QED
  BY <1>1, <1>2, <1>3, PTL DEF UpkeepSpec

-----------------------------------------------------------------------------
(* Lint *)

LintKinds == {"contradiction", "orphan", "structural"}
LintSteps == {"idle", "begin", "pairs", "wait", "suppress", "records", "commit", "recompile",
              "end", "error", "done", "failed", "dead"}
What == Clashes \cup {"orphan", "inverse", "page"}
AnyFinding == LintKinds \X (SUBSET LintPages) \X What \X Nat
FindingSets == SUBSET AnyFinding
HashSets == SUBSET (LintKinds \X (SUBSET LintPages))
MakeSets == SUBSET ((SUBSET LintPages) \X What)
LinkSets == SUBSET (LintPages \X LintPages)

Stamps(s) == [s -> 0 .. MaxStamp]
AnyStamps == UNION {Stamps(s) : s \in SUBSET LintPages}
Askings == UNION {[s -> AnyStamps] : s \in SUBSET Pairs}
PairRow == [at : AnyStamps, said : SUBSET Clashes, of : AnyStamps]
PairRows == UNION {[s -> PairRow] : s \in SUBSET Pairs}

LintRun == [pc : LintSteps, concept : Nat, loaded : AnyStamps, seen : HashSets,
            known : HashSets, asked : Askings, cache : PairRows, link : LinkSets,
            on : Lints \cup {"none"}, found : FindingSets, hidden : FindingSets, make : MakeSets]
LintReport == [status : {"none", "COMPLETE", "FAILED"}, open : FindingSets,
               gone : FindingSets, total : Nat, dismissed : Nat]
Dismissing == [pc : {"idle", "write", "done"}, report : Lints \cup {"none"},
               finding : AnyFinding \cup {"none"}, counts : Nat \X Nat, add : BOOLEAN]

LintTyped ==
    /\ stamp \in Stamps(LintPages) /\ cache \in PairRows /\ link \in LinkSets
    /\ active \in [Fingerprints -> 0 .. MaxRows] /\ closed \in [Fingerprints -> 0 .. MaxRows]
    /\ \A x \in Fingerprints : active[x] + closed[x] <= MaxRows
    /\ forgotten \in HashSets /\ queued \in [Pairs -> Nat]
    /\ report \in [Lints -> LintReport] /\ lint \in [Lints -> LintRun]
    /\ dismissal \in [Dismissals -> Dismissing]
    /\ overlapped \in BOOLEAN /\ reopened \in BOOLEAN /\ disturbed \in BOOLEAN

(* The versions a comparison is stored under are no later than those whose   *)
(* claims it compared, which are no later than those of now.                 *)
RowsFresh(rows) ==
    \A p \in DOMAIN rows :
        /\ rows[p].at \in Stamps(p) /\ rows[p].of \in Stamps(p)
        /\ \A a \in p : rows[p].at[a] <= rows[p].of[a] /\ rows[p].of[a] <= stamp[a]

LoadedOK(r) == r.loaded \in Stamps(LintPages) /\ \A a \in LintPages : r.loaded[a] <= stamp[a]

AskedOK(r) ==
    \A p \in DOMAIN r.asked :
        /\ r.asked[p] \in Stamps(p)
        /\ \A a \in p : r.loaded[a] <= r.asked[p][a] /\ r.asked[p][a] <= stamp[a]

Unreported == {"idle", "begin", "pairs", "wait", "suppress", "records", "commit"}
Working == {"pairs", "wait", "suppress", "records", "commit", "recompile"}

(* What a run of state r knows: until it commits it has no report; what it   *)
(* keeps is not hidden for what was dismissed before; its concepts bound the *)
(* numbers of its findings, which are in its report once it has one.         *)
Fits(l, r) ==
    /\ r.pc \in Unreported => report[l] = NoReport
    /\ RowsFresh(r.cache)
    /\ r.pc \in Working => LoadedOK(r)
    /\ r.asked = Empty \/ (r.pc \in Working /\ AskedOK(r))
    /\ r.known \subseteq forgotten
    /\ r.pc \in {"records", "commit", "recompile"} =>
          \A f \in r.found \ r.hidden : content_hash(f) \notin r.known
    /\ \A f \in r.found : f[4] <= r.concept + 1
    /\ r.hidden \subseteq r.found
    /\ r.pc = "recompile" => r.found \subseteq report[l].open \cup report[l].gone

(* Without overlaps: one run at a time, which knows all pairs recompiled for *)
(* and will add no second ACTIVE row.                                        *)
OneRun == \A k, l \in Lints : lint[k].pc \notin Ended /\ lint[l].pc \notin Ended => k = l
SeenOK(r) ==
    r.pc \in Working => \A p \in Pairs : queued[p] > 0 => <<"contradiction", p>> \in r.seen
MakeOK(r) ==
    ~reopened /\ r.pc = "commit" => \A x \in Fingerprints : x \in r.make => active[x] = 0
Serial ==
    ~overlapped => /\ OneRun /\ (\A p \in Pairs : queued[p] <= 1)
                   /\ \A l \in Lints : SeenOK(lint[l]) /\ MakeOK(lint[l])
                   /\ ~reopened => \A x \in Fingerprints : active[x] <= 1

QueuedKnown == \A p \in Pairs : queued[p] > 0 => <<"contradiction", p>> \in KnownHashes

ReportOK(r) ==
    /\ IsFiniteSet(r.open) /\ IsFiniteSet(r.gone) /\ r.open \cap r.gone = {}
    /\ ~disturbed /\ r.status = "COMPLETE" =>
          r.total = Cardinality(r.open) /\ r.dismissed = Cardinality(r.gone)

(* A dismissal has loaded counts and finding as they are, unless another one *)
(* of that report is under way.                                              *)
DismissOK(d) ==
    dismissal[d].pc = "write" =>
       LET r == report[dismissal[d].report] IN
       /\ dismissal[d].report \in Lints /\ dismissal[d].finding \in r.open \cup r.gone
       /\ ~disturbed =>
             /\ dismissal[d].finding \in r.open /\ dismissal[d].counts = <<r.total, r.dismissed>>
             /\ \A o \in Dismissals : dismissal[o].pc = "write"
                    /\ dismissal[o].report = dismissal[d].report => o = d

LintInv ==
    /\ LintTyped /\ RowsFresh(cache) /\ (\A l \in Lints : Fits(l, lint[l])) /\ QueuedKnown /\ Serial
    /\ (\A l \in Lints : ReportOK(report[l])) /\ (\A d \in Dismissals : DismissOK(d))

(* A run that has not begun. *)
LEMMA EmptyTyped == Empty \in AnyStamps /\ Empty \in Askings /\ Empty \in PairRows /\ DOMAIN Empty = {}
<1>1. Empty \in Stamps({}) /\ Empty \in [{} -> AnyStamps] /\ Empty \in [{} -> PairRow] /\ DOMAIN Empty = {}
  BY DEF Empty, Stamps
<1>2. {} \in SUBSET LintPages /\ {} \in SUBSET Pairs
  OBVIOUS
<1>3. Empty \in AnyStamps
  BY <1>1, <1>2 DEF AnyStamps
<1>4. Empty \in Askings
  BY <1>1, <1>2 DEF Askings
<1>5. Empty \in PairRows
  BY <1>1, <1>2 DEF PairRows
<1> QED
  BY <1>1, <1>3, <1>4, <1>5

(* A run that has no transaction, at any step. *)
LEMMA NotRunTyped ==
  ASSUME NEW k \in LintSteps
  PROVE  [NotRun EXCEPT !.pc = k] \in LintRun
<1>1. {} \in HashSets /\ {} \in LinkSets /\ {} \in FindingSets /\ {} \in MakeSets
  BY DEF HashSets, LinkSets, FindingSets, MakeSets
<1> QED
  BY <1>1, EmptyTyped DEF NotRun, LintRun

(* A run that is over, or has not begun, knows nothing. *)
LEMMA NotRunFits ==
  ASSUME NEW l \in Lints, NEW k \in LintSteps \ Working, k \in Unreported => report[l] = NoReport
  PROVE  Fits(l, [NotRun EXCEPT !.pc = k])
<1> DEFINE r == [NotRun EXCEPT !.pc = k]
<1>1. /\ r.pc = k /\ r.cache = Empty /\ r.asked = Empty /\ r.known = {} /\ r.found = {} /\ r.hidden = {}
  BY DEF NotRun
<1>2. RowsFresh(r.cache)
  BY <1>1, EmptyTyped DEF RowsFresh
<1> HIDE DEF r
<1>3. Fits(l, r)
  BY <1>1, <1>2 DEF Fits, Working
<1> QED
  BY <1>3 DEF r

(* Nothing is there yet but links. *)
LEMMA InitLint == LintInit => LintInv
<1> SUFFICES ASSUME LintInit
             PROVE  LintInv
  OBVIOUS
<1>1. NotRun = [NotRun EXCEPT !.pc = "idle"]
  BY DEF NotRun
<1>2. \A l \in Lints : lint[l] = NotRun /\ report[l] = NoReport
  BY DEF LintInit
<1>3. NotRun \in LintRun /\ NoReport \in LintReport /\ NoDismissal \in Dismissing
  <2>1. NotRun \in LintRun
    BY <1>1, NotRunTyped DEF LintSteps
  <2>2. NoReport \in LintReport
    BY DEF NoReport, LintReport, FindingSets
  <2>3. NoDismissal \in Dismissing
    BY DEF NoDismissal, Dismissing
  <2> QED
    BY <2>1, <2>2, <2>3
<1>4. LintTyped
  <2>1. lint \in [Lints -> LintRun] /\ report \in [Lints -> LintReport] /\ dismissal \in [Dismissals -> Dismissing]
    BY <1>3 DEF LintInit
  <2>2. stamp \in Stamps(LintPages) /\ cache \in PairRows /\ link \in LinkSets /\ forgotten \in HashSets
    BY EmptyTyped, LintAssumption DEF LintInit, Stamps, MaxStamp, LinkSets, HashSets
  <2>3. active \in [Fingerprints -> 0 .. MaxRows] /\ closed \in [Fingerprints -> 0 .. MaxRows]
        /\ \A x \in Fingerprints : active[x] + closed[x] <= MaxRows
    BY DEF LintInit, MaxRows
  <2> QED
    BY <2>1, <2>2, <2>3 DEF LintTyped, LintInit
<1>5. \A l \in Lints : Fits(l, lint[l])
  BY <1>1, <1>2, NotRunFits DEF LintSteps, Working
<1>6. RowsFresh(cache)
  BY EmptyTyped DEF LintInit, RowsFresh
<1>7. QueuedKnown /\ Serial
  <2>1. \A l \in Lints : lint[l].pc = "idle"
    BY <1>2 DEF NotRun
  <2>2. OneRun /\ \A l \in Lints : SeenOK(lint[l]) /\ MakeOK(lint[l])
    BY <2>1 DEF OneRun, SeenOK, MakeOK, Ended, Working
  <2> QED
    BY <2>2 DEF QueuedKnown, Serial, LintInit
<1>8. \A l \in Lints : ReportOK(report[l])
  BY <1>2, FS_EmptySet DEF ReportOK, NoReport
<1>9. \A d \in Dismissals : DismissOK(d)
  BY DEF LintInit, DismissOK, NoDismissal
<1> QED
  BY <1>4, <1>5, <1>6, <1>7, <1>8, <1>9 DEF LintInv

-----------------------------------------------------------------------------
(* Steps of one run that nobody else sees. *)
private == <<stamp, cache, link, active, closed, forgotten, report, dismissal, queued,
             overlapped, reopened, disturbed>>

(* A step of one run that only its own state shows. *)
LEMMA LintMoves ==
  ASSUME LintInv, NEW l \in Lints, NEW new \in LintRun, lint' = [lint EXCEPT ![l] = new],
         UNCHANGED private, Fits(l, new), new.pc \notin Ended => lint[l].pc \notin Ended,
         ~overlapped => SeenOK(new) /\ MakeOK(new)
  PROVE  LintInv'
<1>1. lint \in [Lints -> LintRun]
  BY DEF LintInv, LintTyped
<1>2. lint'[l] = new /\ \A k \in Lints \ {l} : lint'[k] = lint[k]
  BY <1>1
<1>3. lint' \in [Lints -> LintRun]
  BY <1>1
<1>4. LintTyped' /\ RowsFresh(cache)'
  BY <1>3 DEF LintInv, LintTyped, RowsFresh, private
<1>5. ASSUME NEW k \in Lints, NEW r, Fits(k, r) PROVE Fits(k, r)'
  BY SMTT(30), <1>5 DEF Fits, RowsFresh, LoadedOK, AskedOK, private
<1>6. ASSUME NEW k \in Lints PROVE Fits(k, lint[k])'
  <2>1. PICK r : r = lint'[k] /\ Fits(k, r)
    BY <1>2 DEF LintInv
  <2>2. Fits(k, r)'
    BY <1>5, <2>1
  <2> QED
    BY <2>1, <2>2 DEF Fits, LoadedOK, AskedOK
<1>7. QueuedKnown'
  BY DEF LintInv, QueuedKnown, KnownHashes, private
<1>8. Serial'
  <2> SUFFICES ASSUME ~overlapped PROVE Serial'
    BY DEF Serial, private
  <2>1. OneRun'
    BY <1>2 DEF LintInv, Serial, OneRun
  <2>2. ASSUME NEW k \in Lints PROVE SeenOK(lint[k])' /\ MakeOK(lint[k])'
    <3>1. SeenOK(lint'[k]) /\ MakeOK(lint'[k])
      BY <1>2 DEF LintInv, Serial
    <3> QED
      BY <3>1 DEF SeenOK, MakeOK, private
  <2> QED
    BY <2>1, <2>2 DEF LintInv, Serial, private
<1>9. (\A k \in Lints : ReportOK(report[k])') /\ \A d \in Dismissals : DismissOK(d)'
  BY DEF LintInv, ReportOK, DismissOK, private
<1> QED
  BY <1>4, <1>6, <1>7, <1>8, <1>9 DEF LintInv

(* The same run at another step: it knows what it knew. *)
SameRun(r, new) ==
    /\ new.concept = r.concept /\ new.loaded = r.loaded /\ new.known = r.known /\ new.seen = r.seen
    /\ new.asked = r.asked /\ new.cache = r.cache /\ new.found = r.found

(* What a run knew still holds at its next step. *)
LEMMA SameFits ==
  ASSUME NEW l \in Lints, NEW r, NEW new, Fits(l, r), SameRun(r, new),
         r.pc \in {"begin", "pairs", "wait", "suppress", "records", "end", "error"},
         new.pc \in {"pairs", "wait", "end", "done", "failed"}, r.pc = "begin" => new.pc = "end",
         r.pc \in {"end", "error"} => new.pc \notin {"pairs", "wait"}, new.pc \in {"end", "done", "failed"} => r.pc \notin Working,
         new.hidden = r.hidden
  PROVE  Fits(l, new)
<1>1. RowsFresh(new.cache) /\ new.known \subseteq forgotten /\ new.hidden \subseteq new.found
      /\ \A f \in new.found : f[4] <= new.concept + 1
  BY DEF Fits, SameRun
<1>2. new.pc \in Unreported => report[l] = NoReport
  BY DEF Fits, Unreported
<1>3. new.pc \in Working => LoadedOK(new)
  BY DEF Fits, Working, LoadedOK, SameRun
<1>4. new.asked = Empty \/ (new.pc \in Working /\ AskedOK(new))
  BY DEF Fits, Working, AskedOK, SameRun
<1> QED
  BY <1>1, <1>2, <1>3, <1>4 DEF Fits

(* Rows are inserted by a run in phase 1 to 5, or it waits. *)
LEMMA InsertMoves ==
  ASSUME LintInv, NEW l \in Lints, lint[l].pc = "pairs", NEW run \in LintRun, Fits(l, run),
         run.pc \in {"pairs", "suppress"}, run.seen = lint[l].seen, NEW keys,
         NEW edges \in LinkSets, InsertOrWait(l, keys, edges, run), UNCHANGED private
  PROVE  LintInv'
<1>0. lint[l] \in LintRun /\ Fits(l, lint[l]) /\ (~overlapped => SeenOK(lint[l]))
  BY DEF LintInv, LintTyped, Serial
<1>1. CASE Held(l, keys, edges) = {}
  <2>1. PICK new : new = [run EXCEPT !.link = @ \cup edges]
    OBVIOUS
  <2>2. new \in LintRun
    BY <2>1 DEF LintRun, LinkSets
  <2>3. SameRun(run, new) /\ new.pc = run.pc /\ new.hidden = run.hidden
    BY <2>1 DEF LintRun, SameRun
  <2>4. Fits(l, new)
    BY <2>3 DEF Fits, SameRun, LoadedOK, AskedOK
  <2>5. lint' = [lint EXCEPT ![l] = new]
    BY <1>1, <2>1 DEF InsertOrWait
  <2>6. ~overlapped => SeenOK(new) /\ MakeOK(new)
    BY <1>0, <2>3 DEF SeenOK, MakeOK, SameRun, Working
  <2>7. lint[l].pc \notin Ended
    BY DEF Ended
  <2> QED
    BY <2>2, <2>4, <2>5, <2>6, <2>7, LintMoves
<1>2. CASE Held(l, keys, edges) # {}
  <2>1. PICK o \in Lints : o = CHOOSE k \in Held(l, keys, edges) : TRUE
    BY <1>2 DEF Held, Others
  <2>2. PICK new : new = [lint[l] EXCEPT !.pc = "wait", !.on = o]
    OBVIOUS
  <2>3. new \in LintRun /\ new.pc = "wait"
    BY <1>0, <2>2 DEF LintRun, LintSteps
  <2>4. SameRun(lint[l], new) /\ new.hidden = lint[l].hidden
    BY <1>0, <2>2 DEF LintRun, SameRun
  <2>5. Fits(l, new)
    BY <1>0, <2>3, <2>4, SameFits DEF Working
  <2>6. lint' = [lint EXCEPT ![l] = new]
    BY <1>2, <2>1, <2>2 DEF InsertOrWait
  <2>7. ~overlapped => SeenOK(new) /\ MakeOK(new)
    BY <1>0, <2>3, <2>4 DEF SeenOK, MakeOK, SameRun, Working
  <2>8. lint[l].pc \notin Ended
    BY DEF Ended
  <2> QED
    BY <2>3, <2>5, <2>6, <2>7, <2>8, LintMoves
<1> QED
  BY <1>1, <1>2

(* What reports hold was hashed from findings. *)
LEMMA HashesTyped ==
  ASSUME LintTyped
  PROVE  KnownHashes \in HashSets
<1>1. ASSUME NEW f \in AnyFinding PROVE content_hash(f) \in LintKinds \X (SUBSET LintPages)
  BY DEF AnyFinding, content_hash
<1>2. ASSUME NEW h \in KnownHashes PROVE h \in LintKinds \X (SUBSET LintPages)
  <2>1. PICK o \in Lints : \E f \in report[o].open \cup report[o].gone : h = content_hash(f)
    BY DEF KnownHashes
  <2>2. PICK f \in report[o].open \cup report[o].gone : h = content_hash(f)
    BY <2>1
  <2>3. f \in AnyFinding
    BY <2>2 DEF LintTyped, LintReport, FindingSets
  <2> QED
    BY <1>1, <2>2, <2>3
<1> QED
  BY <1>2 DEF HashSets

(* run_lint begins, or returns the report in progress. *)
LEMMA OpenKeeps ==
  ASSUME LintInv, NEW l \in Lints, OpenReport(l)
  PROVE  LintInv'
<1>0. /\ lint[l] \in LintRun /\ Fits(l, lint[l]) /\ lint[l].pc = "begin" /\ UNCHANGED private
      /\ stamp \in Stamps(LintPages) /\ forgotten \in HashSets /\ KnownHashes \in HashSets
  BY HashesTyped DEF LintInv, LintTyped, OpenReport, private
<1>1. CASE _check_in_progress # {}
  <2>1. PICK new : new = [lint[l] EXCEPT !.pc = "end"]
    OBVIOUS
  <2>2. new \in LintRun /\ new.pc = "end" /\ SameRun(lint[l], new) /\ new.hidden = lint[l].hidden
    BY <1>0, <2>1 DEF LintRun, LintSteps, SameRun
  <2>3. Fits(l, new)
    BY <1>0, <2>2, SameFits DEF Working
  <2>4. lint' = [lint EXCEPT ![l] = new]
    BY <1>1, <2>1 DEF OpenReport
  <2>5. SeenOK(new) /\ MakeOK(new) /\ lint[l].pc \notin Ended
    BY <1>0, <2>2 DEF SeenOK, MakeOK, Working, Ended
  <2> QED
    BY <1>0, <2>2, <2>3, <2>4, <2>5, LintMoves
<1>2. CASE _check_in_progress = {}
  <2>1. PICK new : new = [lint[l] EXCEPT !.seen = KnownHashes, !.loaded = stamp, !.pc = "pairs", !.known = forgotten]
    OBVIOUS
  <2>2. lint' = [lint EXCEPT ![l] = new]
    <3>1. new = [Start(l) EXCEPT !.known = forgotten]
      BY <1>0, <2>1 DEF Start, LintRun
    <3> QED
      BY <1>2, <3>1 DEF OpenReport
  <2>3. stamp \in AnyStamps
    BY <1>0 DEF AnyStamps
  <2>4. new \in LintRun
    BY <1>0, <2>1, <2>3 DEF LintRun, LintSteps
  <2>5. /\ new.pc = "pairs" /\ new.seen = KnownHashes /\ new.loaded = stamp /\ new.known = forgotten
        /\ new.asked = lint[l].asked /\ new.cache = lint[l].cache /\ new.found = lint[l].found
        /\ new.hidden = lint[l].hidden /\ new.concept = lint[l].concept
    BY <1>0, <2>1 DEF LintRun
  <2>6. LoadedOK(new)
    BY <1>0, <2>5 DEF LoadedOK, Stamps, MaxStamp
  <2>7. new.asked = Empty /\ report[l] = NoReport
    BY <1>0, <2>5 DEF Fits, Working, Unreported
  <2>8. Fits(l, new)
    BY <1>0, <2>5, <2>6, <2>7 DEF Fits
  <2>9. ~overlapped => SeenOK(new) /\ MakeOK(new)
    BY <2>5 DEF LintInv, QueuedKnown, SeenOK, MakeOK
  <2>10. lint[l].pc \notin Ended
    BY <1>0 DEF Ended
  <2> QED
    BY <1>0, <2>2, <2>4, <2>8, <2>9, <2>10, LintMoves
<1> QED
  BY <1>1, <1>2

(* The rows of a transaction and those that are committed, together. *)
LEMMA MergedRows ==
  ASSUME NEW f \in PairRows, NEW g \in PairRows
  PROVE  /\ Merged(f, g) \in PairRows /\ DOMAIN Merged(f, g) \subseteq Pairs
         /\ RowsFresh(f) /\ RowsFresh(g) => RowsFresh(Merged(f, g))
<1>1. PICK s \in SUBSET Pairs : f \in [s -> PairRow]
  BY DEF PairRows
<1>2. PICK t \in SUBSET Pairs : g \in [t -> PairRow]
  BY DEF PairRows
<1>3. Merged(f, g) \in [s \cup t -> PairRow] /\ s \cup t \in SUBSET Pairs
  BY <1>1, <1>2 DEF Merged
<1>4. Merged(f, g) \in PairRows
  BY <1>3 DEF PairRows
<1>5. ASSUME RowsFresh(f), RowsFresh(g), NEW p \in DOMAIN Merged(f, g)
      PROVE  /\ Merged(f, g)[p].at \in Stamps(p) /\ Merged(f, g)[p].of \in Stamps(p)
             /\ \A a \in p : /\ Merged(f, g)[p].at[a] <= Merged(f, g)[p].of[a]
                             /\ Merged(f, g)[p].of[a] <= stamp[a]
  <2>1. (p \in DOMAIN f /\ Merged(f, g)[p] = f[p]) \/ (p \in DOMAIN g /\ Merged(f, g)[p] = g[p])
    BY DEF Merged
  <2> QED
    BY <1>5, <2>1 DEF RowsFresh
<1>6. RowsFresh(f) /\ RowsFresh(g) => RowsFresh(Merged(f, g))
  BY <1>5 DEF RowsFresh
<1> QED
  BY <1>3, <1>4, <1>6

(* What the cache says of a pair. *)
LEMMA CachedSaid ==
  ASSUME LintTyped, NEW l \in Lints, NEW p, NEW x \in _check_pair_cache(l, p)
  PROVE  p \in Pairs /\ x \subseteq Clashes
<1>1. PICK row \in PairRows : row = Merged(lint[l].cache, cache) /\ DOMAIN row \subseteq Pairs
  BY MergedRows DEF LintTyped, LintRun
<1>2. p \in DOMAIN row /\ x = row[p].said
  BY <1>1 DEF _check_pair_cache
<1>3. PICK s \in SUBSET Pairs : row \in [s -> PairRow]
  BY DEF PairRows
<1>4. row[p] \in PairRow
  BY <1>2, <1>3
<1> QED
  BY <1>1, <1>2, <1>4 DEF PairRow

(* A contradiction is reported of its pair, under the concept's number. *)
LEMMA ReportTyped ==
  ASSUME NEW p \in Pairs, NEW n \in Nat, NEW said \in SUBSET Clashes
  PROVE  /\ Report(<<p, n>>, said) \in FindingSets
         /\ \A f \in Report(<<p, n>>, said) : f[4] = n
<1>1. p \in SUBSET LintPages
  BY LintAssumption
<1>2. ASSUME NEW f \in Report(<<p, n>>, said) PROVE f \in AnyFinding /\ f[4] = n
  BY <1>1 DEF Report, Finding, AnyFinding, LintKinds, What
<1> QED
  BY <1>2 DEF FindingSets

(* A link between the two articles of a pair. *)
LEMMA BacklinkTyped ==
  ASSUME NEW l, NEW p \in Pairs, NEW said
  PROVE  _create_contradiction_backlink(l, p, said) \in LinkSets
<1>1. p \in SUBSET LintPages
  BY LintAssumption
<1> QED
  BY <1>1 DEF _create_contradiction_backlink, LinkSets

(* A concept's pairs are looked up, and the others' claims are read. *)
LEMMA ConceptKeeps ==
  ASSUME LintInv, NEW l \in Lints, NEW pairs \in SUBSET Pairs, NextConcept(l, pairs)
  PROVE  LintInv'
<1> DEFINE old == lint[l]
           c == old.concept + 1
           hits == {p \in pairs : _check_pair_cache(l, p) # {}}
           said(p) == CHOOSE x \in _check_pair_cache(l, p) : TRUE
           ask == {p \in pairs \ hits : p \cap Claimless = {}}
           asking == [p \in ask |-> Restrict(stamp, p)]
           more == UNION {Report(<<p, c>>, said(p)) : p \in hits}
           edges == UNION {_create_contradiction_backlink(l, p, said(p)) : p \in hits}
           run == [old EXCEPT !.concept = c, !.asked = asking, !.found = @ \cup more]
<1>0. /\ old \in LintRun /\ Fits(l, old) /\ old.pc = "pairs" /\ old.asked = Empty /\ UNCHANGED private
      /\ stamp \in Stamps(LintPages) /\ InsertOrWait(l, {}, edges, run)
  BY DEF LintInv, LintTyped, NextConcept, private
<1>1. ASSUME NEW p \in hits PROVE p \in Pairs /\ said(p) \in SUBSET Clashes
  <2>1. said(p) \in _check_pair_cache(l, p)
    OBVIOUS
  <2> QED
    BY <2>1, CachedSaid DEF LintInv
<1>2. c \in Nat /\ old.concept \in Nat
  BY <1>0 DEF LintRun
<1> HIDE DEF old, c, hits, said, ask, asking, more, edges, run
<1>3. edges \in LinkSets
  <2>1. \A p \in hits : _create_contradiction_backlink(l, p, said(p)) \in LinkSets
    BY <1>1, BacklinkTyped
  <2> QED
    BY <2>1 DEF edges, LinkSets
<1>4. more \in FindingSets /\ \A f \in more : f[4] = c
  <2>1. \A p \in hits : /\ Report(<<p, c>>, said(p)) \in FindingSets
                          /\ \A f \in Report(<<p, c>>, said(p)) : f[4] = c
    BY <1>1, <1>2, ReportTyped
  <2> QED
    BY <2>1 DEF more, FindingSets
<1>5. ask \in SUBSET Pairs /\ asking = [p \in ask |-> Restrict(stamp, p)]
  BY DEF ask, asking
<1>6. ASSUME NEW p \in ask PROVE asking[p] \in Stamps(p) /\ p \in SUBSET LintPages /\ \A a \in p : asking[p][a] = stamp[a]
  <2>1. p \in SUBSET LintPages
    BY <1>5, LintAssumption
  <2> QED
    BY <1>0, <1>5, <2>1 DEF Stamps, Restrict
<1>7. asking \in Askings /\ DOMAIN asking = ask
  <2>1. asking \in [ask -> AnyStamps]
    BY <1>5, <1>6 DEF AnyStamps
  <2> QED
    BY <1>5, <2>1 DEF Askings
<1>8. run \in LintRun
  BY <1>0, <1>2, <1>4, <1>7 DEF run, LintRun, FindingSets
<1>9. /\ run.pc = "pairs" /\ run.concept = c /\ run.asked = asking /\ run.found = old.found \cup more
      /\ run.loaded = old.loaded /\ run.seen = old.seen /\ run.known = old.known /\ run.cache = old.cache
      /\ run.hidden = old.hidden
  BY <1>0 DEF run, LintRun
<1>10. LoadedOK(old) /\ report[l] = NoReport
  BY <1>0 DEF Fits, Working, Unreported
<1>11. LoadedOK(run) /\ AskedOK(run)
  <2>1. LoadedOK(run)
    BY <1>9, <1>10 DEF LoadedOK
  <2>2. ASSUME NEW p \in ask PROVE /\ run.asked[p] \in Stamps(p)
                                   /\ \A a \in p : run.loaded[a] <= run.asked[p][a] /\ run.asked[p][a] <= stamp[a]
    <3>1. ASSUME NEW a \in p PROVE a \in LintPages /\ run.loaded[a] <= stamp[a] /\ run.asked[p][a] = stamp[a] /\ stamp[a] \in Nat
      BY <1>0, <1>6, <1>9, <2>1, <3>1 DEF LoadedOK, Stamps, MaxStamp
    <3> QED
      BY <1>6, <1>9, <3>1
  <2> QED
    BY <1>7, <1>9, <2>1, <2>2 DEF AskedOK
<1>12. ASSUME NEW f \in run.found PROVE f[4] <= run.concept + 1
  <2>1. CASE f \in more
    BY <1>2, <1>4, <1>9, <2>1
  <2>2. CASE f \in old.found
    <3>1. f[4] \in Nat
      BY <1>0, <2>2 DEF LintRun, FindingSets, AnyFinding
    <3>2. f[4] <= old.concept + 1
      BY <1>0, <2>2 DEF Fits
    <3> QED
      BY <1>2, <1>9, <3>1, <3>2 DEF c
  <2> QED
    BY <1>9, <2>1, <2>2
<1>13. Fits(l, run)
  BY <1>0, <1>9, <1>10, <1>11, <1>12 DEF Fits, Working
<1> QED
  BY <1>0, <1>3, <1>8, <1>9, <1>13, InsertMoves DEF old

(* What the LLM says of a pair, in one of three attempts, are claims. *)
LEMMA ResultsTyped == PairResults \subseteq SUBSET Clashes
<1>1. ASSUME NEW x \in Answers PROVE x # Unreadable => x \in SUBSET Clashes
  BY DEF Answers
<1>2. ASSUME NEW first \in Answers, NEW second \in Answers, NEW single \in Answers
      PROVE  _run_batch(first, second, single) \in SUBSET Clashes
  BY <1>1 DEF _run_batch, _compare_article_pair
<1>3. ASSUME NEW r \in PairResults PROVE r \in SUBSET Clashes
  <2>1. PICK first \in Answers, second \in Answers, single \in Answers :
            r = _run_batch(first, second, single)
    BY <1>3 DEF PairResults
  <2> QED
    BY <1>2, <2>1
<1> QED
  BY <1>3

(* One row of the cache. *)
LEMMA RowFresh ==
  ASSUME NEW p \in Pairs, NEW row \in PairRow, row.at \in Stamps(p), row.of \in Stamps(p),
         \A a \in p : row.at[a] <= row.of[a] /\ row.of[a] <= stamp[a]
  PROVE  [q \in {p} |-> row] \in PairRows /\ RowsFresh([q \in {p} |-> row])
<1>1. [q \in {p} |-> row] \in [{p} -> PairRow] /\ {p} \in SUBSET Pairs
  OBVIOUS
<1>2. [q \in {p} |-> row] \in PairRows
  BY <1>1 DEF PairRows
<1>3. RowsFresh([q \in {p} |-> row])
  BY DEF RowsFresh
<1> QED
  BY <1>2, <1>3

(* A pair is compared: its row is of the versions the run loaded. *)
LEMMA CompareKeeps ==
  ASSUME LintInv, NEW l \in Lints, NEW p \in DOMAIN lint[l].asked, NEW said \in PairResults,
         ComparePair(l, p, said)
  PROVE  LintInv'
<1> DEFINE old == lint[l]
           row == [at |-> Restrict(old.loaded, p), said |-> said, of |-> old.asked[p]]
           rows == Merged([q \in {p} |-> row], old.cache)
           left == Restrict(old.asked, DOMAIN old.asked \ {p})
           more == Report(<<p, old.concept>>, said)
           edges == _create_contradiction_backlink(l, p, said)
           run == [old EXCEPT !.asked = left, !.found = @ \cup more, !.cache = rows]
<1>0. /\ old \in LintRun /\ Fits(l, old) /\ old.pc = "pairs" /\ UNCHANGED private
      /\ stamp \in Stamps(LintPages)
  BY DEF LintInv, LintTyped, ComparePair, private
<1>a. InsertOrWait(l, {p}, edges, run)
  BY DEF ComparePair, _save_pair_cache
<1>1. old.concept \in Nat /\ old.cache \in PairRows /\ said \in SUBSET Clashes /\ old.found \in FindingSets
  BY <1>0, ResultsTyped DEF LintRun
<1>2. PICK s \in SUBSET Pairs : old.asked \in [s -> AnyStamps]
  BY <1>0 DEF LintRun, Askings
<1>3. p \in Pairs /\ p \in SUBSET LintPages /\ DOMAIN old.asked = s
  BY <1>2, LintAssumption
<1> HIDE DEF old, row, rows, left, more, edges, run
<1>4. old.asked # Empty /\ LoadedOK(old) /\ AskedOK(old) /\ report[l] = NoReport
  <2>1. old.asked # Empty
    BY EmptyTyped DEF old
  <2> QED
    BY <1>0, <2>1 DEF Fits, Working, Unreported
<1>5. edges \in LinkSets /\ more \in FindingSets /\ \A f \in more : f[4] = old.concept
  BY <1>1, <1>3, BacklinkTyped, ReportTyped DEF edges, more
<1>6. left \in Askings /\ DOMAIN left \subseteq DOMAIN old.asked /\ \A q \in DOMAIN left : left[q] = old.asked[q]
  <2>1. left \in [s \ {p} -> AnyStamps] /\ s \ {p} \in SUBSET Pairs
    BY <1>2, <1>3 DEF left, Restrict
  <2>2. left \in Askings
    BY <2>1 DEF Askings
  <2> QED
    BY <1>2, <1>3, <2>1, <2>2 DEF left, Restrict
<1>7. row \in PairRow /\ row.at = Restrict(old.loaded, p) /\ row.of = old.asked[p]
  <2>1. Restrict(old.loaded, p) \in Stamps(p) /\ old.asked[p] \in Stamps(p)
    BY <1>3, <1>4 DEF LoadedOK, AskedOK, Restrict, Stamps, old
  <2>2. Restrict(old.loaded, p) \in AnyStamps /\ old.asked[p] \in AnyStamps
    BY <1>3, <2>1 DEF AnyStamps
  <2> QED
    BY <1>1, <2>2 DEF row, PairRow
<1>8. /\ row.at \in Stamps(p) /\ row.of \in Stamps(p)
      /\ \A a \in p : row.at[a] <= row.of[a] /\ row.of[a] <= stamp[a]
  BY <1>3, <1>4, <1>7 DEF LoadedOK, AskedOK, Restrict, Stamps, old
<1>9. rows \in PairRows /\ RowsFresh(rows)
  <2>1. PICK one : one = [q \in {p} |-> row]
    OBVIOUS
  <2>2. one \in PairRows /\ RowsFresh(one)
    BY <1>3, <1>7, <1>8, <2>1, RowFresh
  <2>3. RowsFresh(old.cache)
    BY <1>0 DEF Fits
  <2> QED
    BY <1>1, <2>1, <2>2, <2>3, MergedRows DEF rows
<1>10. run \in LintRun
  BY <1>0, <1>1, <1>5, <1>6, <1>9 DEF run, LintRun, FindingSets
<1>11. /\ run.pc = "pairs" /\ run.concept = old.concept /\ run.asked = left /\ run.found = old.found \cup more
       /\ run.loaded = old.loaded /\ run.seen = old.seen /\ run.known = old.known /\ run.cache = rows
       /\ run.hidden = old.hidden
  BY <1>0 DEF run, LintRun
<1>12. LoadedOK(run) /\ AskedOK(run)
  BY <1>4, <1>6, <1>11 DEF LoadedOK, AskedOK
<1>13. \A f \in run.found : f[4] <= run.concept + 1
  BY <1>0, <1>1, <1>5, <1>11 DEF Fits
<1>14. Fits(l, run)
  BY <1>0, <1>4, <1>9, <1>11, <1>12, <1>13 DEF Fits, Working
<1> QED
  BY <1>0, <1>a, <1>5, <1>10, <1>11, <1>14, InsertMoves DEF old

(* A run wakes up: it goes on, or its session is unusable. *)
LEMMA ResumeKeeps ==
  ASSUME LintInv, NEW l \in Lints, Resume(l)
  PROVE  LintInv'
<1>0. /\ lint[l] \in LintRun /\ Fits(l, lint[l]) /\ lint[l].pc = "wait" /\ UNCHANGED private
      /\ (~overlapped => SeenOK(lint[l])) /\ lint[l].pc \notin Ended
  BY DEF LintInv, LintTyped, Resume, private, Serial, Ended
<1>1. CASE lint' = [lint EXCEPT ![l] = [NotRun EXCEPT !.pc = "error"]]
  <2>1. PICK new : new = [NotRun EXCEPT !.pc = "error"]
    OBVIOUS
  <2>2. new \in LintRun /\ Fits(l, new) /\ new.pc = "error"
    BY <2>1, NotRunTyped, NotRunFits DEF LintSteps, Working, Unreported, NotRun
  <2>3. SeenOK(new) /\ MakeOK(new)
    BY <2>2 DEF SeenOK, MakeOK, Working
  <2> QED
    BY <1>0, <1>1, <2>1, <2>2, <2>3, LintMoves
<1>2. CASE lint' = [lint EXCEPT ![l] = [@ EXCEPT !.pc = "pairs", !.on = "none"]]
  <2>1. PICK new : new = [lint[l] EXCEPT !.pc = "pairs", !.on = "none"]
    OBVIOUS
  <2>2. new \in LintRun /\ new.pc = "pairs" /\ SameRun(lint[l], new) /\ new.hidden = lint[l].hidden
    BY <1>0, <2>1 DEF LintRun, LintSteps, SameRun
  <2>3. Fits(l, new)
    BY <1>0, <2>2, SameFits DEF Working
  <2>4. ~overlapped => SeenOK(new) /\ MakeOK(new)
    BY <1>0, <2>2 DEF SeenOK, MakeOK, SameRun, Working
  <2> QED
    BY <1>0, <1>2, <2>1, <2>2, <2>3, <2>4, LintMoves
<1> QED
  BY <1>1, <1>2 DEF Resume

(* Phases 2 to 5. *)
LEMMA CheckKeeps ==
  ASSUME LintInv, NEW l \in Lints, CheckPages(l)
  PROVE  LintInv'
<1> DEFINE old == lint[l]
           both == link \cup old.link
           missing == ensure_bidirectional(both)
           more == detect_orphans(both) \cup {Finding("structural", {e[2]}, "inverse", 1) : e \in missing}
                     \cup {Finding("structural", {a}, "page", 1) : a \in Flawed}
           run == [old EXCEPT !.pc = "suppress", !.found = @ \cup more]
<1>0. /\ old \in LintRun /\ Fits(l, old) /\ old.pc = "pairs" /\ UNCHANGED private
      /\ link \in LinkSets
  BY DEF LintInv, LintTyped, CheckPages, private
<1>1. InsertOrWait(l, {}, missing, run)
  <2>1. run = [old EXCEPT !.pc = "suppress",
                 !.found = @ \cup detect_orphans(both) \cup {Finding("structural", {e[2]}, "inverse", 1) : e \in missing}
                     \cup {Finding("structural", {a}, "page", 1) : a \in Flawed}]
    <3>1. old.found \cup more = old.found \cup detect_orphans(both) \cup {Finding("structural", {e[2]}, "inverse", 1) : e \in missing}
                     \cup {Finding("structural", {a}, "page", 1) : a \in Flawed}
      OBVIOUS
    <3> QED
      BY <3>1, Zenon
  <2> QED
    BY <2>1 DEF CheckPages
<1>2. both \in LinkSets /\ old.found \in FindingSets /\ old.concept \in Nat
  BY <1>0 DEF LinkSets, LintRun
<1> HIDE DEF old, both
<1>3. missing \in LinkSets
  BY <1>2 DEF LinkSets, ensure_bidirectional
<1>4. ASSUME NEW f \in more PROVE f \in AnyFinding /\ f[4] = 1
  <2>1. CASE f \in detect_orphans(both)
    <3>1. PICK a \in LintPages : f = <<"orphan", {a}, "orphan", 1>>
      BY <2>1 DEF detect_orphans, Finding
    <3> QED
      BY <3>1 DEF AnyFinding, LintKinds, What
  <2>2. CASE f \in {Finding("structural", {e[2]}, "inverse", 1) : e \in missing}
    <3>1. PICK e \in missing : f = <<"structural", {e[2]}, "inverse", 1>>
      BY <2>2 DEF Finding
    <3>2. e[2] \in LintPages
      BY <1>3 DEF LinkSets
    <3> QED
      BY <3>1, <3>2 DEF AnyFinding, LintKinds, What
  <2>3. CASE f \in {Finding("structural", {a}, "page", 1) : a \in Flawed}
    <3>1. PICK a \in Flawed : f = <<"structural", {a}, "page", 1>>
      BY <2>3 DEF Finding
    <3> QED
      BY <3>1, LintAssumption DEF AnyFinding, LintKinds, What
  <2> QED
    BY <2>1, <2>2, <2>3
<1> HIDE DEF more, run, missing
<1>5. run \in LintRun
  BY <1>0, <1>2, <1>4 DEF run, LintRun, FindingSets, LintSteps
<1>6. /\ run.pc = "suppress" /\ run.concept = old.concept /\ run.asked = old.asked /\ run.found = old.found \cup more
      /\ run.loaded = old.loaded /\ run.seen = old.seen /\ run.known = old.known /\ run.cache = old.cache
      /\ run.hidden = old.hidden
  BY <1>0 DEF run, LintRun
<1>7. LoadedOK(run) /\ (run.asked = Empty \/ AskedOK(run)) /\ report[l] = NoReport
  BY <1>0, <1>6 DEF Fits, LoadedOK, AskedOK, Working, Unreported
<1>8. \A f \in run.found : f[4] <= run.concept + 1
  BY <1>0, <1>2, <1>4, <1>6 DEF Fits
<1>9. Fits(l, run)
  BY <1>0, <1>6, <1>7, <1>8 DEF Fits, Working
<1> QED
  BY <1>0, <1>1, <1>3, <1>5, <1>6, <1>9, InsertMoves DEF old

(* Dismissed findings are hidden before anything else is made of them. *)
LEMMA SuppressKeeps ==
  ASSUME LintInv, NEW l \in Lints, _apply_dismiss_suppression(l)
  PROVE  LintInv'
<1>0. /\ lint \in [Lints -> LintRun] /\ Fits(l, lint[l]) /\ lint[l].pc = "suppress" /\ UNCHANGED private
      /\ (~overlapped => SeenOK(lint[l])) /\ lint[l].pc \notin Ended
  BY DEF LintInv, LintTyped, _apply_dismiss_suppression, private, Serial, Ended
<1>1. PICK old \in LintRun : old = lint[l]
  BY <1>0
<1>2. PICK out : out = {f \in old.found : content_hash(f) \in forgotten}
  OBVIOUS
<1>3. PICK new : new = [old EXCEPT !.pc = "records", !.hidden = out]
  OBVIOUS
<1>4. lint' = [lint EXCEPT ![l] = new]
  BY <1>0, <1>1, <1>2, <1>3 DEF _apply_dismiss_suppression
<1>5. new \in LintRun
  BY <1>1, <1>2, <1>3 DEF LintRun, LintSteps, FindingSets
<1>6. new.pc = "records" /\ SameRun(old, new) /\ new.hidden = out
  BY <1>1, <1>3 DEF LintRun, SameRun
<1>7. LoadedOK(new) /\ (new.asked = Empty \/ AskedOK(new)) /\ report[l] = NoReport
  BY <1>0, <1>1, <1>6 DEF Fits, LoadedOK, AskedOK, Working, Unreported, SameRun
<1>8. \A f \in new.found \ new.hidden : content_hash(f) \notin new.known
  BY <1>0, <1>1, <1>2, <1>6 DEF Fits, SameRun
<1>9. Fits(l, new)
  BY <1>0, <1>1, <1>2, <1>6, <1>7, <1>8 DEF Fits, Working, SameRun
<1>10. ~overlapped => SeenOK(new) /\ MakeOK(new)
  BY <1>0, <1>1, <1>6 DEF SeenOK, MakeOK, SameRun, Working
<1> QED
  BY <1>0, <1>4, <1>5, <1>9, <1>10, LintMoves

(* The new Contradiction rows are those without an ACTIVE one. *)
LEMMA RecordsKeep ==
  ASSUME LintInv, NEW l \in Lints, Records(l)
  PROVE  LintInv'
<1>0. /\ lint \in [Lints -> LintRun] /\ Fits(l, lint[l]) /\ lint[l].pc = "records" /\ UNCHANGED private
      /\ (~overlapped => SeenOK(lint[l])) /\ lint[l].pc \notin Ended
  BY DEF LintInv, LintTyped, Records, private, Serial, Ended
<1>1. PICK old \in LintRun : old = lint[l]
  BY <1>0
<1>2. PICK rows : rows = create_from_finding(l)
  OBVIOUS
<1>3. PICK new : new = [old EXCEPT !.pc = "commit", !.make = rows]
  OBVIOUS
<1>4. lint' = [lint EXCEPT ![l] = new]
  BY <1>0, <1>1, <1>2, <1>3 DEF Records
<1>5. rows \in MakeSets /\ \A x \in rows : active[x] = 0
  <2>1. \A f \in lint[l].found : f \in AnyFinding
    BY <1>0 DEF LintRun, FindingSets
  <2>2. ASSUME NEW x \in rows PROVE x \in (SUBSET LintPages) \X What /\ active[x] = 0
    <3>1. PICK f \in lint[l].found : x = <<f[2], f[3]>> /\ active[x] = 0
      BY <1>2, <2>2 DEF create_from_finding, Contradicting
    <3>2. f[2] \in SUBSET LintPages /\ f[3] \in What
      BY <2>1 DEF AnyFinding
    <3> QED
      BY <3>1, <3>2
  <2> QED
    BY <2>2 DEF MakeSets
<1>6. new \in LintRun
  BY <1>1, <1>3, <1>5 DEF LintRun, LintSteps
<1>7. new.pc = "commit" /\ SameRun(old, new) /\ new.hidden = old.hidden /\ new.make = rows
  BY <1>1, <1>3 DEF LintRun, SameRun
<1>8. LoadedOK(new) /\ (new.asked = Empty \/ AskedOK(new)) /\ report[l] = NoReport
  BY <1>0, <1>1, <1>7 DEF Fits, LoadedOK, AskedOK, Working, Unreported, SameRun
<1>9. Fits(l, new)
  BY <1>0, <1>1, <1>7, <1>8 DEF Fits, Working, SameRun
<1>10. ~overlapped => SeenOK(new) /\ MakeOK(new)
  BY <1>0, <1>1, <1>5, <1>7 DEF SeenOK, MakeOK, SameRun, Working
<1> QED
  BY <1>0, <1>4, <1>6, <1>9, <1>10, LintMoves

(* A job ends, or its process dies. *)
LEMMA EndKeeps ==
  ASSUME LintInv, NEW l \in Lints, EndJob(l) \/ LintDies(l)
  PROVE  LintInv'
<1>0. /\ lint \in [Lints -> LintRun] /\ Fits(l, lint[l]) /\ UNCHANGED private /\ lint[l].pc \notin Ended
  BY DEF LintInv, LintTyped, EndJob, LintDies, private, Ended
<1>1. CASE EndJob(l)
  <2>1. PICK k \in {"done", "failed"} : lint' = [lint EXCEPT ![l] = [lint[l] EXCEPT !.pc = k]]
    BY <1>0, <1>1 DEF EndJob
  <2>2. PICK new : new = [lint[l] EXCEPT !.pc = k]
    OBVIOUS
  <2>3. new \in LintRun /\ new.pc = k /\ SameRun(lint[l], new) /\ new.hidden = lint[l].hidden
    BY <1>0, <2>2 DEF LintRun, LintSteps, SameRun
  <2>4. Fits(l, new)
    BY <1>0, <1>1, <2>3, SameFits DEF Working, EndJob
  <2>5. SeenOK(new) /\ MakeOK(new)
    BY <2>3 DEF SeenOK, MakeOK, Working
  <2> QED
    BY <1>0, <2>1, <2>2, <2>3, <2>4, <2>5, LintMoves
<1>2. CASE LintDies(l)
  <2>1. PICK new : new = [NotRun EXCEPT !.pc = "dead"]
    OBVIOUS
  <2>2. new \in LintRun /\ Fits(l, new) /\ new.pc = "dead"
    BY <2>1, NotRunTyped, NotRunFits DEF LintSteps, Working, Unreported, NotRun
  <2>3. SeenOK(new) /\ MakeOK(new)
    BY <2>2 DEF SeenOK, MakeOK, Working
  <2>4. lint' = [lint EXCEPT ![l] = new]
    BY <1>2, <2>1 DEF LintDies
  <2> QED
    BY <1>0, <2>2, <2>3, <2>4, LintMoves
<1> QED
  BY <1>1, <1>2

-----------------------------------------------------------------------------
(* Steps others see *)

(* A job begins: another that is under way overlaps with it. *)
LEMMA BeginKeeps ==
  ASSUME LintInv, NEW l \in Lints, lint_wiki(l)
  PROVE  LintInv'
<1>0. /\ lint \in [Lints -> LintRun] /\ Fits(l, lint[l]) /\ lint[l].pc = "idle"
      /\ UNCHANGED <<stamp, cache, link, active, closed, forgotten, report, dismissal, queued,
                     reopened, disturbed>>
  BY DEF LintInv, LintTyped, lint_wiki
<1>1. PICK new : new = [lint[l] EXCEPT !.pc = "begin"]
  OBVIOUS
<1>2. new \in LintRun /\ new.pc = "begin" /\ SameRun(lint[l], new) /\ new.hidden = lint[l].hidden
  BY <1>0, <1>1 DEF LintRun, LintSteps, SameRun
<1>3. lint' = [lint EXCEPT ![l] = new] /\ overlapped' \in BOOLEAN
  BY <1>0, <1>1 DEF lint_wiki
<1>4. lint' \in [Lints -> LintRun] /\ lint'[l] = new /\ \A k \in Lints \ {l} : lint'[k] = lint[k]
  BY <1>0, <1>2, <1>3
<1>5. Fits(l, new)
  BY <1>0, <1>2 DEF Fits, SameRun, Working, Unreported
<1>6. LintTyped' /\ RowsFresh(cache)'
  BY SMTT(30), <1>0, <1>3, <1>4 DEF LintInv, LintTyped, RowsFresh
<1>7. ASSUME NEW k \in Lints PROVE Fits(k, lint[k])'
  <2>1. PICK r : r = lint'[k] /\ Fits(k, r)
    BY SMTT(30), <1>4, <1>5 DEF LintInv
  <2>2. Fits(k, r)'
    BY <1>0, <2>1 DEF Fits, RowsFresh, LoadedOK, AskedOK
  <2> QED
    BY <2>1, <2>2 DEF Fits, LoadedOK, AskedOK
<1>8. QueuedKnown'
  BY <1>0 DEF LintInv, QueuedKnown, KnownHashes
<1>9. Serial'
  <2> SUFFICES ASSUME ~overlapped' PROVE Serial'
    BY DEF Serial
  <2>1. ~overlapped /\ \A o \in Lints \ {l} : lint[o].pc \in Ended
    BY DEF lint_wiki
  <2>2. OneRun'
    BY <1>4, <2>1 DEF OneRun
  <2>3. ASSUME NEW k \in Lints PROVE SeenOK(lint[k])' /\ MakeOK(lint[k])'
    <3>1. lint'[k].pc \notin Working
      BY <1>2, <1>4, <2>1 DEF Working, Ended
    <3> QED
      BY <3>1 DEF SeenOK, MakeOK, Working
  <2> QED
    BY <1>0, <2>1, <2>2, <2>3 DEF LintInv, Serial
<1>10. (\A k \in Lints : ReportOK(report[k])') /\ \A d \in Dismissals : DismissOK(d)'
  BY <1>0 DEF LintInv, ReportOK, DismissOK
<1> QED
  BY <1>6, <1>7, <1>8, <1>9, <1>10 DEF LintInv

(* A finite number of findings is numbered up to some concept. *)
LEMMA FindingsFinite ==
  ASSUME NEW n \in Nat, NEW fs \in FindingSets, \A f \in fs : f[4] <= n
  PROVE  IsFiniteSet(fs)
<1> DEFINE S == (LintKinds \X (SUBSET LintPages)) \X (What \X (0 .. n))
           T == LintKinds \X (SUBSET LintPages) \X What \X (0 .. n)
           g == [x \in S |-> <<x[1][1], x[1][2], x[2][1], x[2][2]>>]
<1>1. IsFiniteSet(LintKinds) /\ IsFiniteSet(SUBSET LintPages) /\ IsFiniteSet(What) /\ IsFiniteSet(0 .. n)
  <2>1. IsFiniteSet({"contradiction", "orphan", "structural"}) /\ IsFiniteSet({"orphan", "inverse", "page"})
    <3>1. ASSUME NEW a, NEW b, NEW c PROVE IsFiniteSet({a, b, c})
      <4>1. IsFiniteSet({a}) /\ IsFiniteSet({a} \cup {b}) /\ IsFiniteSet(({a} \cup {b}) \cup {c})
        BY FS_Singleton, FS_AddElement
      <4>2. {a, b, c} = ({a} \cup {b}) \cup {c}
        OBVIOUS
      <4> QED
        BY <4>1, <4>2
    <3> QED
      BY <3>1
  <2>2. IsFiniteSet(What)
    BY <2>1, FS_Union, LintAssumption DEF What
  <2>3. IsFiniteSet(0 .. n)
    BY FS_Interval
  <2> QED
    BY <2>1, <2>2, <2>3, FS_SUBSET, LintAssumption DEF LintKinds
<1>2. IsFiniteSet(S)
  BY <1>1, FS_Product
<1>3. g \in Surjection(S, T)
  <2>1. g \in [S -> T]
    OBVIOUS
  <2>2. ASSUME NEW t \in T PROVE \E s \in S : g[s] = t
    <3>1. PICK s : s = << <<t[1], t[2]>>, <<t[3], t[4]>> >>
      OBVIOUS
    <3>2. s \in S /\ g[s] = t
      BY <3>1
    <3> QED
      BY <3>2
  <2> QED
    BY <2>1, <2>2 DEF Surjection
<1>4. IsFiniteSet(T)
  BY <1>2, <1>3, FS_Surjection
<1>5. fs \subseteq T
  BY DEF FindingSets, AnyFinding
<1> QED
  BY <1>4, <1>5, FS_Subset

(* The transaction commits. *)
LEMMA CommitKeeps ==
  ASSUME LintInv, NEW l \in Lints, _persist_and_finalize(l)
  PROVE  LintInv'
<1>0. /\ lint \in [Lints -> LintRun] /\ lint[l].pc = "commit" /\ report \in [Lints -> LintReport]
      /\ UNCHANGED <<stamp, closed, forgotten, dismissal, queued, overlapped, reopened, disturbed>>
      /\ Fits(l, lint[l]) /\ cache \in PairRows /\ link \in LinkSets
  BY DEF LintInv, LintTyped, _persist_and_finalize
<1>1. PICK old \in LintRun : old = lint[l]
  BY <1>0
<1>2. PICK new : new = [old EXCEPT !.pc = "recompile"]
  OBVIOUS
<1>3. new \in LintRun /\ new.pc = "recompile" /\ SameRun(old, new) /\ new.hidden = old.hidden
  BY <1>1, <1>2 DEF LintRun, LintSteps, SameRun
<1>4. lint' = [lint EXCEPT ![l] = new]
  BY <1>0, <1>1, <1>2 DEF _persist_and_finalize
<1>5. lint' \in [Lints -> LintRun] /\ lint'[l] = new /\ \A k \in Lints \ {l} : lint'[k] = lint[k]
  BY <1>0, <1>3, <1>4
<1>6. PICK kept : kept = old.found \ old.hidden
  OBVIOUS
<1>7. /\ kept \in FindingSets /\ old.hidden \in FindingSets /\ IsFiniteSet(kept) /\ IsFiniteSet(old.hidden)
      /\ kept \cap old.hidden = {} /\ kept \cup old.hidden = old.found
  <2>1. old.found \in FindingSets /\ old.hidden \in FindingSets /\ old.concept + 1 \in Nat
    BY <1>1 DEF LintRun
  <2>2. (\A f \in old.found : f[4] <= old.concept + 1) /\ old.hidden \subseteq old.found
    BY <1>0, <1>1 DEF Fits
  <2>3. IsFiniteSet(old.found)
    BY <2>1, <2>2, FindingsFinite
  <2>4. IsFiniteSet(kept) /\ IsFiniteSet(old.hidden)
    BY <1>6, <2>2, <2>3, FS_Subset
  <2> QED
    BY <1>6, <2>1, <2>2, <2>4 DEF FindingSets
<1>8. PICK rep : rep = [status |-> "COMPLETE", open |-> kept, gone |-> old.hidden,
                        total |-> Cardinality(kept), dismissed |-> Cardinality(old.hidden)]
  OBVIOUS
<1>9. rep \in LintReport
  BY <1>7, <1>8, FS_CardinalityType DEF LintReport
<1>10. report' = [report EXCEPT ![l] = rep]
  BY <1>0, <1>1, <1>6, <1>8 DEF _persist_and_finalize
<1>11. report' \in [Lints -> LintReport] /\ report'[l] = rep /\ \A k \in Lints \ {l} : report'[k] = report[k]
  BY <1>0, <1>9, <1>10
<1>12. report[l] = NoReport /\ LoadedOK(old) /\ (old.asked = Empty \/ AskedOK(old)) /\ RowsFresh(old.cache)
  BY <1>0, <1>1 DEF Fits, Unreported, Working
<1>13. cache' \in PairRows /\ RowsFresh(cache)' /\ link' \in LinkSets
  <2>1. cache' = Merged(old.cache, cache) /\ link' = link \cup old.link /\ old.cache \in PairRows /\ old.link \in LinkSets
    BY <1>1 DEF _persist_and_finalize, LintRun
  <2>2. RowsFresh(cache')
    BY <1>0, <1>12, <2>1, MergedRows DEF LintInv
  <2> QED
    BY <1>0, <2>1, <2>2, MergedRows DEF RowsFresh, LinkSets
<1>14. /\ active' \in [Fingerprints -> 0 .. MaxRows] /\ \A x \in Fingerprints : active'[x] + closed[x] <= MaxRows
       /\ \A x \in Fingerprints : active'[x] = active[x] + (IF x \in old.make THEN 1 ELSE 0)
  <2>1. active' = [x \in Fingerprints |-> active[x] + (IF x \in old.make THEN 1 ELSE 0)]
        /\ \A x \in old.make : active[x] + closed[x] < MaxRows
    BY <1>1 DEF _persist_and_finalize
  <2>2. ASSUME NEW x \in Fingerprints
        PROVE  /\ active[x] + (IF x \in old.make THEN 1 ELSE 0) \in 0 .. MaxRows
               /\ active[x] + (IF x \in old.make THEN 1 ELSE 0) + closed[x] <= MaxRows
    <3>1. active[x] \in 0 .. MaxRows /\ closed[x] \in 0 .. MaxRows /\ active[x] + closed[x] <= MaxRows
      BY DEF LintInv, LintTyped
    <3>2. x \in old.make => active[x] + closed[x] < MaxRows
      BY <2>1
    <3> QED
      BY <3>1, <3>2 DEF MaxRows
  <2> QED
    BY <2>1, <2>2
<1>15. LintTyped'
  BY <1>0, <1>5, <1>11, <1>13, <1>14 DEF LintInv, LintTyped
<1>16. ASSUME NEW k \in Lints PROVE Fits(k, lint[k])'
  <2>1. CASE k = l
    <3>1. LoadedOK(new)' /\ (new.asked = Empty \/ AskedOK(new)')
      BY <1>0, <1>3, <1>12 DEF LoadedOK, AskedOK, SameRun
    <3>2. RowsFresh(new.cache)'
      BY <1>0, <1>3, <1>12 DEF RowsFresh, SameRun
    <3>3. new.found \subseteq report'[l].open \cup report'[l].gone
      BY <1>3, <1>7, <1>8, <1>11 DEF SameRun
    <3>4. Fits(l, new)'
      BY <1>0, <1>1, <1>3, <3>1, <3>2, <3>3 DEF Fits, SameRun, Working, Unreported
    <3> QED
      BY <1>5, <2>1, <3>4 DEF Fits, LoadedOK, AskedOK
  <2>2. CASE k # l
    <3>1. PICK r : r = lint[k] /\ r = lint'[k] /\ Fits(k, r)
      BY SMTT(30), <1>5, <2>2 DEF LintInv
    <3>2. Fits(k, r)'
      BY <1>0, <1>11, <2>2, <3>1 DEF Fits, RowsFresh, LoadedOK, AskedOK
    <3> QED
      BY <3>1, <3>2 DEF Fits, LoadedOK, AskedOK
  <2> QED
    BY <2>1, <2>2
<1>17. QueuedKnown'
  <2>1. KnownHashes \subseteq KnownHashes'
    <3>1. ASSUME NEW h \in KnownHashes PROVE h \in KnownHashes'
      <4>1. PICK o \in Lints : \E f \in report[o].open \cup report[o].gone : f[1] = "contradiction" /\ h = content_hash(f)
        BY DEF KnownHashes
      <4>2. o # l
        BY <1>12, <4>1 DEF NoReport
      <4> QED
        BY <1>11, <4>1, <4>2 DEF KnownHashes
    <3> QED
      BY <3>1
  <2> QED
    BY <1>0, <2>1 DEF LintInv, QueuedKnown
<1>18. Serial'
  <2> SUFFICES ASSUME ~overlapped PROVE Serial'
    BY <1>0 DEF Serial
  <2>1. OneRun /\ SeenOK(old) /\ MakeOK(old)
    BY <1>1 DEF LintInv, Serial
  <2>2. OneRun'
    BY <1>0, <1>3, <1>5, <2>1 DEF OneRun, Ended
  <2>3. ASSUME NEW k \in Lints, k # l PROVE lint'[k].pc \in Ended
    BY <1>0, <1>5, <2>1, <2>3 DEF OneRun, Ended
  <2>4. ASSUME NEW k \in Lints PROVE SeenOK(lint[k])' /\ MakeOK(lint[k])'
    <3>1. CASE k = l
      BY <1>0, <1>1, <1>3, <1>5, <2>1, <3>1 DEF SeenOK, MakeOK, SameRun, Working
    <3>2. CASE k # l
      BY <2>3, <3>2 DEF SeenOK, MakeOK, Working, Ended
    <3> QED
      BY <3>1, <3>2
  <2>5. ASSUME ~reopened, NEW x \in Fingerprints PROVE active'[x] <= 1
    <3>1. active[x] \in 0 .. MaxRows /\ active[x] <= 1
      BY <2>5 DEF LintInv, LintTyped, Serial
    <3>2. x \in old.make => active[x] = 0
      BY <1>0, <1>1, <2>1, <2>5 DEF MakeOK
    <3> QED
      BY <1>14, <3>1, <3>2
  <2> QED
    BY <1>0, <2>2, <2>4, <2>5 DEF LintInv, Serial
<1>19. ASSUME NEW k \in Lints PROVE ReportOK(report[k])'
  <2>1. CASE k = l
    BY <1>7, <1>8, <1>11, <2>1 DEF ReportOK
  <2>2. CASE k # l
    BY <1>0, <1>11, <2>2 DEF LintInv, ReportOK
  <2> QED
    BY <2>1, <2>2
<1>20. ASSUME NEW d \in Dismissals PROVE DismissOK(d)'
  <2>1. dismissal[d].pc = "write" => dismissal[d].report # l
    BY <1>12 DEF LintInv, DismissOK, NoReport
  <2> QED
    BY <1>0, <1>11, <2>1 DEF LintInv, DismissOK
<1> QED
  BY <1>13, <1>15, <1>16, <1>17, <1>18, <1>19, <1>20 DEF LintInv

(* Other runs are as they were, whatever they know. *)
LEMMA FitsStays ==
  ASSUME NEW k \in Lints, NEW r, Fits(k, r), UNCHANGED <<stamp, forgotten>>,
         report'[k] = report[k]
  PROVE  Fits(k, r)'
BY DEF Fits, RowsFresh, LoadedOK, AskedOK

(* Recompiles are queued for pairs the snapshot did not know, and for which  *)
(* none was queued before.                                                   *)
LEMMA RecompileKeeps ==
  ASSUME LintInv, NEW l \in Lints, _queue_recompile_for_new_contradictions(l)
  PROVE  LintInv'
<1>0. /\ lint \in [Lints -> LintRun] /\ lint[l].pc = "recompile" /\ queued \in [Pairs -> Nat]
      /\ UNCHANGED <<stamp, cache, link, active, closed, forgotten, report, dismissal, overlapped,
                     reopened, disturbed>>
      /\ Fits(l, lint[l])
  BY DEF LintInv, LintTyped, _queue_recompile_for_new_contradictions
<1>1. PICK new : new = [NotRun EXCEPT !.pc = "end"]
  OBVIOUS
<1>2. new \in LintRun /\ Fits(l, new) /\ new.pc = "end"
  BY <1>1, NotRunTyped, NotRunFits DEF LintSteps, Working, Unreported, NotRun
<1>3. lint' = [lint EXCEPT ![l] = new]
  BY <1>1 DEF _queue_recompile_for_new_contradictions
<1>4. lint' \in [Lints -> LintRun] /\ lint'[l] = new /\ \A k \in Lints \ {l} : lint'[k] = lint[k]
  BY <1>0, <1>2, <1>3
<1>5. queued' \in [Pairs -> Nat] /\ \A p \in Pairs : queued'[p] = queued[p] \/
         /\ queued'[p] = queued[p] + 1
         /\ <<"contradiction", p>> \notin lint[l].seen
         /\ \E f \in lint[l].found : f[1] = "contradiction" /\ f[2] = p
  <2>1. queued' = [p \in Pairs |->
           queued[p] + (IF \E f \in Contradicting(l) : f[2] = p /\ content_hash(f) \notin lint[l].seen
                        THEN 1 ELSE 0)]
    BY DEF _queue_recompile_for_new_contradictions
  <2>2. ASSUME NEW p \in Pairs, NEW f \in Contradicting(l), f[2] = p, content_hash(f) \notin lint[l].seen
        PROVE  f \in lint[l].found /\ f[1] = "contradiction" /\ <<"contradiction", p>> \notin lint[l].seen
    BY <2>2 DEF Contradicting, content_hash
  <2>3. ASSUME NEW p \in Pairs
        PROVE  \/ queued'[p] = queued[p]
               \/ queued'[p] = queued[p] + 1
                  /\ \E f \in Contradicting(l) : f[2] = p /\ content_hash(f) \notin lint[l].seen
    BY <1>0, <2>1
  <2>4. queued' \in [Pairs -> Nat]
    BY <1>0, <2>1
  <2> QED
    BY <2>2, <2>3, <2>4
<1>6. LintTyped' /\ RowsFresh(cache)'
  BY <1>0, <1>4, <1>5 DEF LintInv, LintTyped, RowsFresh
<1>7. ASSUME NEW k \in Lints PROVE Fits(k, lint[k])'
  <2>1. PICK r : r = lint'[k] /\ Fits(k, r)
    BY <1>2, <1>4 DEF LintInv
  <2>2. Fits(k, r)'
    BY <1>0, <2>1, FitsStays
  <2> QED
    BY <2>1, <2>2 DEF Fits, LoadedOK, AskedOK
<1>8. QueuedKnown'
  <2>1. KnownHashes' = KnownHashes
    BY <1>0 DEF KnownHashes
  <2>2. ASSUME NEW p \in Pairs, queued'[p] > 0 PROVE <<"contradiction", p>> \in KnownHashes
    <3>1. CASE queued'[p] = queued[p]
      BY <2>2, <3>1 DEF LintInv, QueuedKnown
    <3>2. CASE \E f \in lint[l].found : f[1] = "contradiction" /\ f[2] = p
      <4>1. PICK f \in lint[l].found : f[1] = "contradiction" /\ f[2] = p
        BY <3>2
      <4>2. f \in report[l].open \cup report[l].gone
        BY <1>0, <4>1 DEF Fits
      <4>3. content_hash(f) = <<"contradiction", p>>
        BY <4>1 DEF content_hash
      <4> QED
        BY <4>1, <4>2, <4>3 DEF KnownHashes
    <3> QED
      BY <1>5, <3>1, <3>2
  <2> QED
    BY <2>1, <2>2 DEF QueuedKnown
<1>9. Serial'
  <2> SUFFICES ASSUME ~overlapped PROVE Serial'
    BY <1>0 DEF Serial
  <2>1. OneRun /\ SeenOK(lint[l]) /\ \A p \in Pairs : queued[p] <= 1
    BY DEF LintInv, Serial
  <2>2. \A k \in Lints \ {l} : lint'[k].pc \in Ended
    BY <1>0, <1>4, <2>1 DEF OneRun, Ended
  <2>3. OneRun'
    BY <2>2 DEF OneRun
  <2>4. ASSUME NEW k \in Lints PROVE SeenOK(lint[k])' /\ MakeOK(lint[k])'
    <3>1. lint'[k].pc \notin Working
      BY <1>2, <1>4, <2>2 DEF Working, Ended
    <3> QED
      BY <3>1 DEF SeenOK, MakeOK, Working
  <2>5. ASSUME NEW p \in Pairs PROVE queued'[p] <= 1
    <3>1. queued[p] > 0 => <<"contradiction", p>> \in lint[l].seen
      BY <1>0, <2>1 DEF SeenOK, Working
    <3> QED
      BY <1>0, <1>5, <2>1, <3>1
  <2> QED
    BY <1>0, <2>3, <2>4, <2>5 DEF LintInv, Serial
<1>10. (\A k \in Lints : ReportOK(report[k])') /\ \A d \in Dismissals : DismissOK(d)'
  BY <1>0 DEF LintInv, ReportOK, DismissOK
<1> QED
  BY <1>6, <1>7, <1>8, <1>9, <1>10 DEF LintInv

(* A run that raised keeps its cache and links. *)
LEMMA FailKeeps ==
  ASSUME LintInv, NEW l \in Lints, LintFails(l)
  PROVE  LintInv'
<1>0. /\ lint \in [Lints -> LintRun] /\ lint[l].pc = "pairs" /\ report \in [Lints -> LintReport]
      /\ UNCHANGED <<stamp, active, closed, forgotten, dismissal, queued, overlapped, reopened, disturbed>>
      /\ Fits(l, lint[l]) /\ cache \in PairRows /\ link \in LinkSets
  BY DEF LintInv, LintTyped, LintFails
<1>1. PICK new : new = [NotRun EXCEPT !.pc = "end"]
  OBVIOUS
<1>2. new \in LintRun /\ Fits(l, new) /\ new.pc = "end"
  BY <1>1, NotRunTyped, NotRunFits DEF LintSteps, Working, Unreported, NotRun
<1>3. lint' = [lint EXCEPT ![l] = new]
  BY <1>1 DEF LintFails
<1>4. lint' \in [Lints -> LintRun] /\ lint'[l] = new /\ \A k \in Lints \ {l} : lint'[k] = lint[k]
  BY <1>0, <1>2, <1>3
<1>5. report[l] = NoReport
  BY <1>0 DEF Fits, Unreported
<1>6. PICK rep : rep = [report[l] EXCEPT !.status = "FAILED"]
  OBVIOUS
<1>7. rep \in LintReport /\ rep.open = {} /\ rep.gone = {} /\ rep.status = "FAILED"
  BY <1>5, <1>6 DEF NoReport, LintReport, FindingSets
<1>8. report' = [report EXCEPT ![l] = rep]
  BY <1>0, <1>6 DEF LintFails
<1>9. report' \in [Lints -> LintReport] /\ report'[l] = rep /\ \A k \in Lints \ {l} : report'[k] = report[k]
  BY <1>0, <1>7, <1>8
<1>10. cache' \in PairRows /\ RowsFresh(cache)' /\ link' \in LinkSets
  <2>1. PICK old \in LintRun : old = lint[l]
    BY <1>0
  <2>2. cache' = Merged(old.cache, cache) /\ link' = link \cup old.link /\ old.cache \in PairRows /\ old.link \in LinkSets
    BY <2>1 DEF LintFails, LintRun
  <2>3. RowsFresh(old.cache)
    BY <1>0, <2>1 DEF Fits
  <2>4. RowsFresh(cache')
    BY <1>0, <2>2, <2>3, MergedRows DEF LintInv
  <2> QED
    BY <1>0, <2>2, <2>4, MergedRows DEF RowsFresh, LinkSets
<1>11. LintTyped'
  BY <1>0, <1>4, <1>9, <1>10 DEF LintInv, LintTyped
<1>12. ASSUME NEW k \in Lints PROVE Fits(k, lint[k])'
  <2>1. CASE k = l
    <3>1. Fits(l, new)'
      <4>1. RowsFresh(new.cache)'
        BY <1>0, <1>2 DEF Fits, RowsFresh
      <4>2. new.asked = Empty
        BY <1>2 DEF Fits, Working
      <4> QED
        BY <1>0, <1>2, <4>1, <4>2 DEF Fits, Working, Unreported
    <3> QED
      BY <1>4, <2>1, <3>1 DEF Fits, LoadedOK, AskedOK
  <2>2. CASE k # l
    <3>1. PICK r : r = lint'[k] /\ Fits(k, r)
      BY <1>4, <2>2 DEF LintInv
    <3>2. Fits(k, r)'
      BY <1>0, <1>9, <2>2, <3>1, FitsStays
    <3> QED
      BY <3>1, <3>2 DEF Fits, LoadedOK, AskedOK
  <2> QED
    BY <2>1, <2>2
<1>13. QueuedKnown'
  <2>1. \A o \in Lints : report'[o].open = report[o].open /\ report'[o].gone = report[o].gone
    BY SMTT(30), <1>5, <1>7, <1>9 DEF NoReport
  <2>2. KnownHashes' = KnownHashes
    BY <2>1 DEF KnownHashes
  <2> QED
    BY <1>0, <2>2 DEF LintInv, QueuedKnown
<1>14. Serial'
  <2> SUFFICES ASSUME ~overlapped PROVE Serial'
    BY <1>0 DEF Serial
  <2>1. OneRun
    BY DEF LintInv, Serial
  <2>2. \A k \in Lints \ {l} : lint'[k].pc \in Ended
    BY <1>0, <1>4, <2>1 DEF OneRun, Ended
  <2>3. OneRun'
    BY <2>2 DEF OneRun
  <2>4. ASSUME NEW k \in Lints PROVE SeenOK(lint[k])' /\ MakeOK(lint[k])'
    <3>1. lint'[k].pc \notin Working
      BY <1>2, <1>4, <2>2 DEF Working, Ended
    <3> QED
      BY <3>1 DEF SeenOK, MakeOK, Working
  <2> QED
    BY <1>0, <2>3, <2>4 DEF LintInv, Serial
<1>15. ASSUME NEW k \in Lints PROVE ReportOK(report[k])'
  <2>1. CASE k = l
    BY <1>7, <1>9, <2>1, FS_EmptySet DEF ReportOK
  <2>2. CASE k # l
    BY <1>0, <1>9, <2>2 DEF LintInv, ReportOK
  <2> QED
    BY <2>1, <2>2
<1>16. ASSUME NEW d \in Dismissals PROVE DismissOK(d)'
  <2>1. dismissal[d].pc = "write" => dismissal[d].report # l
    BY <1>5 DEF LintInv, DismissOK, NoReport
  <2> QED
    BY <1>0, <1>9, <2>1 DEF LintInv, DismissOK
<1> QED
  BY <1>10, <1>11, <1>12, <1>13, <1>14, <1>15, <1>16 DEF LintInv

(* An edit makes versions later, never earlier. *)
LEMMA TouchKeeps ==
  ASSUME LintInv, NEW a \in LintPages, TouchPage(a)
  PROVE  LintInv'
<1>0. /\ stamp \in Stamps(LintPages) /\ cache \in PairRows /\ lint \in [Lints -> LintRun]
      /\ UNCHANGED <<cache, link, active, closed, forgotten, report, lint, dismissal, queued,
                     overlapped, reopened, disturbed>>
  BY DEF LintInv, LintTyped, TouchPage
<1>1. stamp' \in Stamps(LintPages) /\ \A b \in LintPages : stamp[b] <= stamp'[b] /\ stamp[b] \in Nat /\ stamp'[b] \in Nat
  BY <1>0 DEF TouchPage, Stamps, MaxStamp
<1>2. ASSUME NEW rows \in PairRows, RowsFresh(rows) PROVE RowsFresh(rows)'
  <2>1. ASSUME NEW p \in DOMAIN rows, NEW b \in p
        PROVE  rows[p].of[b] <= stamp'[b]
    <3>1. p \in Pairs
      BY DEF PairRows
    <3>2. b \in LintPages
      BY <3>1, LintAssumption
    <3>3. rows[p].of \in Stamps(p) /\ rows[p].of[b] <= stamp[b]
      BY <1>2 DEF RowsFresh
    <3>4. rows[p].of[b] \in Nat
      BY <3>3 DEF Stamps
    <3> QED
      BY <1>1, <3>2, <3>3, <3>4
  <2> QED
    BY <1>2, <2>1 DEF RowsFresh
<1>3. ASSUME NEW r \in LintRun, LoadedOK(r) PROVE LoadedOK(r)'
  <2>1. \A b \in LintPages : r.loaded[b] \in Nat
    BY <1>3 DEF LoadedOK, Stamps
  <2> QED
    BY <1>1, <1>3, <2>1 DEF LoadedOK
<1>4. ASSUME NEW r \in LintRun, AskedOK(r) PROVE AskedOK(r)'
  <2>1. ASSUME NEW p \in DOMAIN r.asked, NEW b \in p PROVE r.asked[p][b] <= stamp'[b]
    <3>1. p \in Pairs
      BY DEF LintRun, Askings
    <3>2. b \in LintPages
      BY <3>1, LintAssumption
    <3>3. r.asked[p] \in Stamps(p) /\ r.asked[p][b] <= stamp[b]
      BY <1>4 DEF AskedOK
    <3>4. r.asked[p][b] \in Nat
      BY <3>3 DEF Stamps
    <3> QED
      BY <1>1, <3>2, <3>3, <3>4
  <2> QED
    BY <1>4, <2>1 DEF AskedOK
<1>5. ASSUME NEW k \in Lints PROVE Fits(k, lint[k])'
  <2>1. PICK r \in LintRun : r = lint[k] /\ r = lint'[k] /\ Fits(k, r)
    BY <1>0 DEF LintInv
  <2>2. r.cache \in PairRows
    BY DEF LintRun
  <2>3. RowsFresh(r.cache)' /\ (r.pc \in Working => LoadedOK(r)')
        /\ (r.asked = Empty \/ (r.pc \in Working /\ AskedOK(r)'))
    BY <1>2, <1>3, <1>4, <2>1, <2>2 DEF Fits
  <2>4. Fits(k, r)'
    BY <1>0, <2>1, <2>3 DEF Fits
  <2> QED
    BY <2>1, <2>4 DEF Fits, LoadedOK, AskedOK
<1>6. LintTyped'
  BY <1>0, <1>1 DEF LintInv, LintTyped
<1>7. RowsFresh(cache)'
  <2>1. PICK rows \in PairRows : rows = cache /\ rows = cache' /\ RowsFresh(rows)
    BY <1>0 DEF LintInv
  <2> QED
    BY <1>2, <2>1 DEF RowsFresh
<1>8. QueuedKnown' /\ Serial'
  BY <1>0 DEF LintInv, QueuedKnown, KnownHashes, Serial, OneRun, SeenOK, MakeOK
<1>9. (\A k \in Lints : ReportOK(report[k])') /\ \A d \in Dismissals : DismissOK(d)'
  BY <1>0 DEF LintInv, ReportOK, DismissOK
<1> QED
  BY <1>5, <1>6, <1>7, <1>8, <1>9 DEF LintInv


(* A dismissal loads the counts as they are; one that crosses another of the *)
(* report, or dismisses again, is marked so.                                 *)
LEMMA LoadKeeps ==
  ASSUME LintInv, NEW d \in Dismissals, NEW l \in Lints,
         NEW f \in report[l].open \cup report[l].gone, LoadFinding(d, l, f)
  PROVE  LintInv'
<1>0. /\ dismissal \in [Dismissals -> Dismissing] /\ report[l] \in LintReport
      /\ disturbed \in BOOLEAN /\ forgotten \in HashSets
      /\ UNCHANGED <<stamp, cache, link, active, closed, forgotten, report, lint, queued,
                     overlapped, reopened>>
  BY DEF LintInv, LintTyped, LoadFinding
<1>1. PICK new : new = [pc |-> "write", report |-> l, finding |-> f,
                        counts |-> <<report[l].total, report[l].dismissed>>,
                        add |-> content_hash(f) \notin forgotten]
  OBVIOUS
<1>2. new \in Dismissing
  <2>1. f \in AnyFinding /\ report[l].total \in Nat /\ report[l].dismissed \in Nat
    BY <1>0 DEF LintReport, FindingSets
  <2>2. (content_hash(f) \notin forgotten) \in BOOLEAN
    OBVIOUS
  <2> QED
    BY <1>1, <2>1, <2>2 DEF Dismissing
<1>3. dismissal' = [dismissal EXCEPT ![d] = new]
  BY <1>1 DEF LoadFinding
<1>4. /\ dismissal' \in [Dismissals -> Dismissing] /\ dismissal'[d] = new
      /\ \A e \in Dismissals \ {d} : dismissal'[e] = dismissal[e]
  BY <1>0, <1>2, <1>3
<1>5. /\ disturbed' \in BOOLEAN
      /\ ~disturbed' => /\ ~disturbed /\ f \notin report[l].gone
                        /\ \A e \in Dismissals \ {d} : dismissal[e].pc = "write" => dismissal[e].report # l
  BY DEF LoadFinding
<1>6. LintTyped' /\ RowsFresh(cache)'
  BY <1>0, <1>4, <1>5 DEF LintInv, LintTyped, RowsFresh
<1>7. ASSUME NEW k \in Lints PROVE Fits(k, lint[k])'
  <2>1. PICK r : r = lint[k] /\ r = lint'[k] /\ Fits(k, r)
    BY <1>0 DEF LintInv
  <2>2. Fits(k, r)'
    BY <1>0, <2>1, FitsStays
  <2> QED
    BY <2>1, <2>2 DEF Fits, LoadedOK, AskedOK
<1>8. QueuedKnown' /\ Serial'
  BY <1>0 DEF LintInv, QueuedKnown, KnownHashes, Serial, OneRun, SeenOK, MakeOK
<1>9. ASSUME NEW k \in Lints PROVE ReportOK(report[k])'
  BY <1>0, <1>5 DEF LintInv, ReportOK
<1>10. ASSUME NEW e \in Dismissals PROVE DismissOK(e)'
  <2>1. CASE e = d
    BY <1>0, <1>1, <1>4, <1>5, <2>1 DEF DismissOK
  <2>2. CASE e # d
    <3>1. dismissal'[e] = dismissal[e] /\ DismissOK(e)
      BY <1>4, <2>2 DEF LintInv
    <3>2. dismissal'[d].report = l
      BY <1>1, <1>4
    <3> QED
      BY <1>0, <1>4, <1>5, <2>2, <3>1, <3>2 DEF DismissOK
  <2> QED
    BY <2>1, <2>2
<1> QED
  BY <1>6, <1>7, <1>8, <1>9, <1>10 DEF LintInv

(* A dismissal is written. *)
LEMMA DismissKeeps ==
  ASSUME LintInv, NEW d \in Dismissals, dismiss_finding(d)
  PROVE  LintInv'
<1>0. /\ dismissal \in [Dismissals -> Dismissing] /\ dismissal[d].pc = "write"
      /\ report \in [Lints -> LintReport] /\ forgotten \in HashSets
      /\ UNCHANGED <<stamp, cache, link, active, closed, lint, queued, overlapped, reopened, disturbed>>
  BY DEF LintInv, LintTyped, dismiss_finding
<1>1. PICK new : new = [NoDismissal EXCEPT !.pc = "done"]
  OBVIOUS
<1>2. new \in Dismissing /\ new.pc = "done"
  BY <1>1 DEF NoDismissal, Dismissing
<1>3. dismissal' = [dismissal EXCEPT ![d] = new]
  BY <1>1 DEF dismiss_finding
<1>4. /\ dismissal' \in [Dismissals -> Dismissing] /\ dismissal'[d].pc = "done"
      /\ \A e \in Dismissals \ {d} : dismissal'[e] = dismissal[e]
  BY <1>0, <1>2, <1>3
<1>5. CASE UNCHANGED <<report, forgotten>>
  <2>1. LintTyped' /\ RowsFresh(cache)'
    BY <1>0, <1>4, <1>5 DEF LintInv, LintTyped, RowsFresh
  <2>2. ASSUME NEW k \in Lints PROVE Fits(k, lint[k])'
    <3>1. PICK r : r = lint[k] /\ r = lint'[k] /\ Fits(k, r)
      BY <1>0 DEF LintInv
    <3>2. Fits(k, r)'
      BY <1>0, <1>5, <3>1, FitsStays
    <3> QED
      BY <3>1, <3>2 DEF Fits, LoadedOK, AskedOK
  <2>3. QueuedKnown' /\ Serial'
    BY <1>0, <1>5 DEF LintInv, QueuedKnown, KnownHashes, Serial, OneRun, SeenOK, MakeOK
  <2>4. ASSUME NEW k \in Lints PROVE ReportOK(report[k])'
    BY <1>0, <1>5 DEF LintInv, ReportOK
  <2>5. ASSUME NEW e \in Dismissals PROVE DismissOK(e)'
    <3>1. CASE e = d
      BY <1>4, <3>1 DEF DismissOK
    <3>2. CASE e # d
      BY <1>0, <1>4, <1>5, <3>2 DEF LintInv, DismissOK
    <3> QED
      BY <3>1, <3>2
  <2> QED
    BY <2>1, <2>2, <2>3, <2>4, <2>5 DEF LintInv
<1>6. CASE ~UNCHANGED <<report, forgotten>>
  <2>1. PICK l \in Lints : l = dismissal[d].report
    BY <1>0 DEF LintInv, DismissOK
  <2>2. PICK f : f = dismissal[d].finding
    OBVIOUS
  <2>3. PICK old \in LintReport : old = report[l]
    BY <1>0
  <2>4. f \in old.open \cup old.gone /\ f \in AnyFinding /\ old.open \in FindingSets /\ old.gone \in FindingSets
    BY <1>0, <2>1, <2>2, <2>3 DEF LintInv, DismissOK, LintReport, FindingSets
  <2>5. PICK m \in Nat, n \in Nat : Counted(d) = <<m, n>>
    <3>1. dismissal[d].counts \in Nat \X Nat
      BY <1>0 DEF Dismissing
    <3> QED
      BY <3>1 DEF Counted
  <2>6. PICK rep : rep = [old EXCEPT !.open = @ \ {f}, !.gone = @ \cup {f}, !.total = m, !.dismissed = n]
    OBVIOUS
  <2>7. /\ rep \in LintReport /\ rep.status = old.status /\ rep.open = old.open \ {f}
        /\ rep.gone = old.gone \cup {f} /\ rep.total = m /\ rep.dismissed = n
    BY <2>4, <2>6 DEF LintReport, FindingSets
  <2>8. report' = [report EXCEPT ![l] = rep] /\ forgotten' = forgotten \cup {content_hash(f)}
    <3>1. /\ report' = [report EXCEPT ![l].open = @ \ {f}, ![l].gone = @ \cup {f},
                                      ![l].total = Counted(d)[1], ![l].dismissed = Counted(d)[2]]
          /\ forgotten' = forgotten \cup {content_hash(f)}
      BY <1>6, <2>1, <2>2 DEF dismiss_finding
    <3>2. Counted(d)[1] = m /\ Counted(d)[2] = n
      BY <2>5
    <3> QED
      BY <1>0, <2>3, <2>6, <3>1, <3>2
  <2>9. report' \in [Lints -> LintReport] /\ report'[l] = rep /\ \A k \in Lints \ {l} : report'[k] = report[k]
    BY <1>0, <2>7, <2>8
  <2>10. \A k \in Lints : report'[k].open \cup report'[k].gone = report[k].open \cup report[k].gone
    BY <2>3, <2>4, <2>7, <2>9
  <2>11. forgotten' \in HashSets /\ forgotten \subseteq forgotten'
    BY <1>0, <2>4, <2>8 DEF HashSets, AnyFinding, content_hash
  <2>12. LintTyped' /\ RowsFresh(cache)'
    BY <1>0, <1>4, <2>9, <2>11 DEF LintInv, LintTyped, RowsFresh
  <2>13. ASSUME NEW k \in Lints PROVE Fits(k, lint[k])'
    <3>1. PICK r : r = lint[k] /\ r = lint'[k] /\ Fits(k, r)
      BY <1>0 DEF LintInv
    <3>2. r.pc \in Unreported => report'[k] = NoReport
      BY SMTT(30), <2>3, <2>4, <2>9, <3>1 DEF Fits, NoReport
    <3>3. RowsFresh(r.cache)' /\ (r.pc \in Working => LoadedOK(r)')
          /\ (r.asked = Empty \/ (r.pc \in Working /\ AskedOK(r)'))
      BY <1>0, <3>1 DEF Fits, RowsFresh, LoadedOK, AskedOK
    <3>4. r.known \subseteq forgotten'
      BY <2>11, <3>1 DEF Fits
    <3>5. r.pc = "recompile" => r.found \subseteq report'[k].open \cup report'[k].gone
      BY <2>10, <3>1 DEF Fits
    <3>6. Fits(k, r)'
      BY <3>1, <3>2, <3>3, <3>4, <3>5 DEF Fits
    <3> QED
      BY <3>1, <3>6 DEF Fits, LoadedOK, AskedOK
  <2>14. QueuedKnown'
    <3>1. KnownHashes' = KnownHashes
      BY <2>10 DEF KnownHashes
    <3> QED
      BY <1>0, <3>1 DEF LintInv, QueuedKnown
  <2>15. Serial'
    BY <1>0 DEF LintInv, Serial, OneRun, SeenOK, MakeOK
  <2>16. ASSUME NEW k \in Lints PROVE ReportOK(report[k])'
    <3>1. CASE k = l
      <4>1. IsFiniteSet(old.open) /\ IsFiniteSet(old.gone) /\ old.open \cap old.gone = {}
        BY <2>3 DEF LintInv, ReportOK
      <4>2. IsFiniteSet(rep.open) /\ IsFiniteSet(rep.gone) /\ rep.open \cap rep.gone = {}
        <5>1. IsFiniteSet(old.open \ {f}) /\ IsFiniteSet(old.gone \cup {f})
          BY <4>1, FS_Subset, FS_AddElement
        <5> QED
          BY <2>7, <4>1, <5>1
      <4>3. ASSUME ~disturbed, rep.status = "COMPLETE"
            PROVE  rep.total = Cardinality(rep.open) /\ rep.dismissed = Cardinality(rep.gone)
        <5>1. old.total = Cardinality(old.open) /\ old.dismissed = Cardinality(old.gone)
          BY <2>3, <2>7, <4>3 DEF LintInv, ReportOK
        <5>2. f \in old.open /\ dismissal[d].counts = <<old.total, old.dismissed>>
          BY <1>0, <2>1, <2>2, <2>3, <4>3 DEF LintInv, DismissOK
        <5>3. Counted(d) = <<Cardinality(old.open \ {f}), Cardinality(old.gone \cup {f})>>
          <6>1. PICK open, gone : open = old.open /\ gone = old.gone
            OBVIOUS
          <6>2. /\ IsFiniteSet(open) /\ IsFiniteSet(gone) /\ open \cap gone = {} /\ f \in open
                /\ dismissal[d].counts = <<Cardinality(open), Cardinality(gone)>>
            BY <4>1, <5>1, <5>2, <6>1
          <6>3. Counted(d) = <<Cardinality(open \ {f}), Cardinality(gone \cup {f})>>
            <7>1. Cardinality(open) \in Nat /\ Cardinality(gone) \in Nat /\ Cardinality(open) # 0
              BY <6>2, FS_CardinalityType, FS_EmptySet
            <7>2. Cardinality(open \ {f}) = Cardinality(open) - 1
              BY <6>2, FS_RemoveElement
            <7>3. Cardinality(gone \cup {f}) = Cardinality(gone) + 1
              BY <6>2, FS_AddElement
            <7> QED
              BY <6>2, <7>1, <7>2, <7>3 DEF Counted
          <6> QED
            BY <6>1, <6>3
        <5> QED
          BY <2>5, <2>7, <5>3
      <4> QED
        BY <1>0, <2>9, <3>1, <4>2, <4>3 DEF ReportOK
    <3>2. CASE k # l
      BY <1>0, <2>9, <3>2 DEF LintInv, ReportOK
    <3> QED
      BY <3>1, <3>2
  <2>17. ASSUME NEW e \in Dismissals PROVE DismissOK(e)'
    <3>1. CASE e = d
      BY <1>4, <3>1 DEF DismissOK
    <3>2. CASE e # d
      <4>1. dismissal'[e] = dismissal[e] /\ DismissOK(e) /\ DismissOK(d)
        BY <1>4, <3>2 DEF LintInv
      <4> SUFFICES ASSUME dismissal[e].pc = "write" PROVE DismissOK(e)'
        BY <4>1 DEF DismissOK
      <4>2. dismissal[e].report \in Lints
            /\ dismissal[e].finding \in report'[dismissal[e].report].open \cup report'[dismissal[e].report].gone
        BY <2>10, <4>1 DEF DismissOK
      <4>3. ~disturbed => dismissal[e].report # l
        BY <1>0, <2>1, <3>2, <4>1 DEF DismissOK
      <4>4. ~disturbed => report'[dismissal[e].report] = report[dismissal[e].report]
        BY <2>9, <4>2, <4>3
      <4>5. \A o \in Dismissals : dismissal'[o].pc = "write" => o # d /\ dismissal'[o] = dismissal[o]
        BY <1>4
      <4> QED
        BY <1>0, <4>1, <4>2, <4>4, <4>5 DEF DismissOK
    <3> QED
      BY <3>1, <3>2
  <2> QED
    BY <2>12, <2>13, <2>14, <2>15, <2>16, <2>17 DEF LintInv
<1> QED
  BY <1>5, <1>6

(* A contradiction is closed, or opened again. *)
LEMMA ContradictionKeeps ==
  ASSUME LintInv, NEW x \in Fingerprints, CloseContradiction(x) \/ ReopenContradiction(x)
  PROVE  LintInv'
<1>0. /\ active \in [Fingerprints -> 0 .. MaxRows] /\ closed \in [Fingerprints -> 0 .. MaxRows]
      /\ (\A y \in Fingerprints : active[y] + closed[y] <= MaxRows) /\ reopened \in BOOLEAN
      /\ UNCHANGED <<stamp, cache, link, forgotten, report, lint, dismissal, queued, overlapped, disturbed>>
  BY DEF LintInv, LintTyped, CloseContradiction, ReopenContradiction
<1>1. /\ active' \in [Fingerprints -> 0 .. MaxRows] /\ closed' \in [Fingerprints -> 0 .. MaxRows]
      /\ (\A y \in Fingerprints : active'[y] + closed'[y] <= MaxRows) /\ reopened' \in BOOLEAN
  <2>1. active[x] \in 0 .. MaxRows /\ closed[x] \in 0 .. MaxRows /\ active[x] + closed[x] <= MaxRows
    BY <1>0
  <2>2. CASE CloseContradiction(x)
    <3>1. active[x] - 1 \in 0 .. MaxRows /\ closed[x] + 1 \in 0 .. MaxRows
          /\ (active[x] - 1) + (closed[x] + 1) <= MaxRows
      BY <2>1, <2>2 DEF CloseContradiction, MaxRows
    <3>2. active' = [active EXCEPT ![x] = active[x] - 1] /\ closed' = [closed EXCEPT ![x] = closed[x] + 1]
          /\ reopened' = reopened
      BY <2>2 DEF CloseContradiction
    <3> QED
      BY <1>0, <3>1, <3>2
  <2>3. CASE ReopenContradiction(x)
    <3>1. active[x] + 1 \in 0 .. MaxRows /\ closed[x] - 1 \in 0 .. MaxRows
          /\ (active[x] + 1) + (closed[x] - 1) <= MaxRows
      BY <2>1, <2>3 DEF ReopenContradiction, MaxRows
    <3>2. active' = [active EXCEPT ![x] = active[x] + 1] /\ closed' = [closed EXCEPT ![x] = closed[x] - 1]
          /\ reopened' = TRUE
      BY <2>3 DEF ReopenContradiction
    <3> QED
      BY <1>0, <3>1, <3>2
  <2> QED
    BY <2>2, <2>3
<1>2. LintTyped' /\ RowsFresh(cache)'
  BY <1>0, <1>1 DEF LintInv, LintTyped, RowsFresh
<1>3. ASSUME NEW k \in Lints PROVE Fits(k, lint[k])'
  <2>1. PICK r : r = lint[k] /\ r = lint'[k] /\ Fits(k, r)
    BY <1>0 DEF LintInv
  <2>2. Fits(k, r)'
    BY <1>0, <2>1, FitsStays
  <2> QED
    BY <2>1, <2>2 DEF Fits, LoadedOK, AskedOK
<1>4. QueuedKnown'
  BY <1>0 DEF LintInv, QueuedKnown, KnownHashes
<1>5. Serial'
  <2> SUFFICES ASSUME ~overlapped PROVE Serial'
    BY <1>0 DEF Serial
  <2>1. OneRun' /\ (\A p \in Pairs : queued'[p] <= 1) /\ \A l \in Lints : SeenOK(lint[l])'
    BY <1>0 DEF LintInv, Serial, OneRun, SeenOK
  <2>2. ~reopened' => ~reopened /\ active[x] > 0 /\ active' = [active EXCEPT ![x] = active[x] - 1]
    BY DEF CloseContradiction, ReopenContradiction
  <2>3. ASSUME ~reopened' PROVE \A y \in Fingerprints : active'[y] <= active[y] /\ active'[y] \in Nat /\ active[y] \in Nat
    BY <1>0, <1>1, <2>2, <2>3 DEF MaxRows
  <2>4. ASSUME NEW l \in Lints PROVE MakeOK(lint[l])'
    <3> SUFFICES ASSUME ~reopened', lint[l].pc = "commit", NEW y \in Fingerprints, y \in lint[l].make
                 PROVE  active'[y] = 0
      BY <1>0 DEF MakeOK
    <3>1. active[y] = 0
      BY <2>2 DEF LintInv, Serial, MakeOK
    <3> QED
      BY <2>3, <3>1
  <2>5. ASSUME ~reopened' PROVE \A y \in Fingerprints : active'[y] <= 1
    <3>1. \A y \in Fingerprints : active[y] <= 1
      BY <2>2, <2>5 DEF LintInv, Serial
    <3> QED
      BY <2>3, <2>5, <3>1
  <2> QED
    BY <2>1, <2>4, <2>5 DEF Serial
<1>6. (\A k \in Lints : ReportOK(report[k])') /\ \A d \in Dismissals : DismissOK(d)'
  BY <1>0 DEF LintInv, ReportOK, DismissOK
<1> QED
  BY <1>2, <1>3, <1>4, <1>5, <1>6 DEF LintInv

(* Every step of the linter, and of those who read its reports, keeps        *)
(* LintInv.                                                                  *)
LEMMA LintInductive == LintInv /\ [LintNext]_lintVars => LintInv'
<1> SUFFICES ASSUME LintInv, [LintNext]_lintVars PROVE LintInv'
  OBVIOUS
<1>1. CASE UNCHANGED lintVars
  <2>1. UNCHANGED <<stamp, cache, link, active, closed, forgotten, report, lint, dismissal,
                    queued, overlapped, reopened, disturbed>>
    BY <1>1 DEF lintVars
  <2>2. LintTyped' /\ RowsFresh(cache)' /\ QueuedKnown' /\ Serial'
    BY <2>1 DEF LintInv, LintTyped, RowsFresh, QueuedKnown, KnownHashes, Serial, OneRun, SeenOK, MakeOK
  <2>3. ASSUME NEW k \in Lints PROVE Fits(k, lint[k])'
    <3>1. PICK r : r = lint[k] /\ r = lint'[k] /\ Fits(k, r)
      BY <2>1 DEF LintInv
    <3>2. Fits(k, r)'
      BY <2>1, <3>1, FitsStays
    <3> QED
      BY <3>1, <3>2 DEF Fits, LoadedOK, AskedOK
  <2>4. (\A k \in Lints : ReportOK(report[k])') /\ \A d \in Dismissals : DismissOK(d)'
    BY <2>1 DEF LintInv, ReportOK, DismissOK
  <2> QED
    BY <2>2, <2>3, <2>4 DEF LintInv
<1>2. ASSUME NEW l \in Lints, lint_wiki(l) \/ OpenReport(l) \/ Resume(l) \/ CheckPages(l)
      PROVE  LintInv'
  BY <1>2, BeginKeeps, OpenKeeps, ResumeKeeps, CheckKeeps
<1>3. ASSUME NEW l \in Lints, NEW pairs \in SUBSET Pairs, NextConcept(l, pairs)
      PROVE  LintInv'
  BY <1>3, ConceptKeeps
<1>4. ASSUME NEW l \in Lints, NEW p \in DOMAIN lint[l].asked, NEW said \in PairResults, ComparePair(l, p, said)
      PROVE  LintInv'
  BY <1>4, CompareKeeps
<1>5. ASSUME NEW l \in Lints, _apply_dismiss_suppression(l) \/ Records(l) \/ _persist_and_finalize(l)
                              \/ _queue_recompile_for_new_contradictions(l)
      PROVE  LintInv'
  BY <1>5, SuppressKeeps, RecordsKeep, CommitKeeps, RecompileKeeps
<1>6. ASSUME NEW l \in Lints, LintFails(l) \/ EndJob(l) \/ LintDies(l)
      PROVE  LintInv'
  BY <1>6, FailKeeps, EndKeeps
<1>7. ASSUME NEW a \in LintPages, TouchPage(a)
      PROVE  LintInv'
  BY <1>7, TouchKeeps
<1>8. ASSUME NEW d \in Dismissals, NEW l \in Lints, NEW f \in report[l].open \cup report[l].gone,
             LoadFinding(d, l, f)
      PROVE  LintInv'
  BY <1>8, LoadKeeps
<1>9. ASSUME NEW d \in Dismissals, dismiss_finding(d)
      PROVE  LintInv'
  BY <1>9, DismissKeeps
<1>10. ASSUME NEW x \in Fingerprints, CloseContradiction(x) \/ ReopenContradiction(x)
       PROVE  LintInv'
  BY <1>10, ContradictionKeeps
<1>11. CASE LintNext
  BY <1>2, <1>3, <1>4, <1>5, <1>6, <1>7, <1>8, <1>9, <1>10, <1>11 DEF LintNext
<1> QED
  BY <1>1, <1>11

(* LintInv implies what the runs check of the linter. *)
LEMMA LintSound ==
  LintInv => /\ LintTypeOK /\ NoRunBlocked /\ RecompileOnce /\ OneActive
             /\ CacheIsCurrent /\ DismissalSticks /\ CountsFindings
<1> SUFFICES ASSUME LintInv
             PROVE  /\ LintTypeOK /\ NoRunBlocked /\ RecompileOnce /\ OneActive
                    /\ CacheIsCurrent /\ DismissalSticks /\ CountsFindings
  OBVIOUS
<1>1. /\ \A l \in Lints : report[l].status \in {"none", "COMPLETE", "FAILED"} /\ lint[l].pc \in LintSteps
      /\ DOMAIN cache \subseteq Pairs
  BY DEF LintInv, LintTyped, LintReport, LintRun, PairRows
<1>2. LintTypeOK /\ NoRunBlocked
  BY <1>1 DEF LintInv, LintTyped, LintTypeOK, NoRunBlocked, LintSteps, Stamps, LinkSets
<1>3. RecompileOnce /\ OneActive
  BY DEF LintInv, Serial, RecompileOnce, OneActive
<1>4. CacheIsCurrent
  <2> SUFFICES ASSUME NEW p \in DOMAIN cache, cache[p].at = Restrict(stamp, p)
               PROVE  cache[p].of = Restrict(stamp, p)
    BY DEF CacheIsCurrent
  <2>1. /\ cache[p].at \in Stamps(p) /\ cache[p].of \in Stamps(p)
        /\ \A a \in p : cache[p].at[a] <= cache[p].of[a] /\ cache[p].of[a] <= stamp[a]
    BY DEF LintInv, RowsFresh
  <2>2. Restrict(stamp, p) = [a \in p |-> stamp[a]]
    BY DEF Restrict
  <2>3. \A a \in p : cache[p].at[a] = stamp[a] /\ cache[p].at[a] \in Nat /\ cache[p].of[a] \in Nat
    BY <2>1, <2>2 DEF Stamps
  <2>4. \A a \in p : cache[p].of[a] = stamp[a]
    BY <2>1, <2>3
  <2> QED
    BY <2>1, <2>2, <2>4 DEF Stamps
<1>5. DismissalSticks
  BY DEF LintInv, Fits, DismissalSticks
<1>6. CountsFindings
  BY DEF LintInv, ReportOK, CountsFindings
<1> QED
  BY <1>2, <1>3, <1>4, <1>5, <1>6

(* Whichever part runs, the linter's state satisfies LintInv. *)
LEMMA LintAlways == UpkeepSpec => []LintInv
<1>1. UpkeepInit => LintInv
  BY InitLint DEF UpkeepInit
<1>2. LintInv /\ [UpkeepNext]_allVars => LintInv'
  <2> SUFFICES ASSUME LintInv, [UpkeepNext]_allVars PROVE LintInv'
    OBVIOUS
  <2>1. [LintNext]_lintVars
    BY DEF UpkeepNext, allVars
  <2> QED
    BY <2>1, LintInductive
<1> QED
  BY <1>1, <1>2, PTL DEF UpkeepSpec

(* engine/linter/runner.py, worker.lint_wiki: a run that died never makes    *)
(* later ones return early; without overlapping runs a pair is recompiled    *)
(* once, and, unless a closed one is reopened, a pair of claims has one      *)
(* ACTIVE contradiction; for any articles, pairs, answers, jobs and edits.   *)
THEOREM LintRunsAlwaysSound == UpkeepSpec => []LintRunsSound
<1>1. LintInv => LintRunsSound
  BY LintSound DEF LintRunsSound
<1> QED
  BY <1>1, LintAlways, PTL

(* engine/linter/, services/linter.py: a cached comparison that will be used *)
(* again is of the articles as they are; what was dismissed before a run is  *)
(* not reported open by it; counts are those of the findings unless          *)
(* dismissals crossed or repeated one another.                               *)
THEOREM LintReportsAlwaysSound == UpkeepSpec => []LintReportsSound
<1>1. LintInv => LintReportsSound
  BY LintSound DEF LintReportsSound
<1> QED
  BY <1>1, LintAlways, PTL

-----------------------------------------------------------------------------
(* The inductive invariant *)

Late == {"spend", "warn", "warned", "exceed", "exceeded"}

Calling == [pc : {"idle", "try", "log", "flags", "done", "failed", "refused"} \cup Late,
            user : Callers \cup {"none"}, left : SUBSET Providers, only : BOOLEAN, quiet : BOOLEAN,
            tried : SUBSET Providers, key : Callers \cup {"none", Server},
            month : {0} \cup Months, sent : SUBSET Kinds, sum : Nat]

RouterTyped ==
    /\ userKey \in [Callers -> SUBSET Providers]
    /\ instance \in [Providers -> {"none", Server} \cup Callers]
    /\ call \in [Calls -> Calling]
    /\ month \in Months
    /\ spend \in [Callers -> [Months -> Nat]]
    /\ cached \in [Callers -> [sum : Nat, month : {0} \cup Months]]
    /\ flag \in [Callers -> [Kinds -> {0} \cup Months]]
    /\ shared \in [Callers -> SUBSET (Kinds \X Months)]
    /\ told \in [Callers -> [Months -> [Kinds -> Nat]]]
    /\ overlap \in BOOLEAN /\ carried \in BOOLEAN /\ forgot \in BOOLEAN /\ crossing \in BOOLEAN

(* A call under way is of a user; its key is the user's or the instance's;   *)
(* under a plan it stops at its first attempt, and otherwise no provider     *)
(* with a key of the instance is left out.                                   *)
CallOK(c) ==
    /\ call[c].pc \in {"try", "log", "flags"} \cup Late => call[c].user \in Callers
    /\ call[c].pc \in Late => call[c].month \in 1 .. month
    /\ call[c].key \in {"none", Server, call[c].user}
    /\ call[c].only => /\ call[c].tried = {} \/ \E p \in Providers : call[c].tried = {p}
                       /\ call[c].pc = "try" => call[c].tried = {}
    /\ call[c].pc = "try" /\ ~call[c].only =>
          Enabled \cap ServerKey \subseteq call[c].tried \cup call[c].left
    /\ call[c].pc = "failed" /\ call[c].user # "none" /\ ~call[c].only /\ Fallback
          => Enabled \cap ServerKey \subseteq call[c].tried

(* A call is paid for once: those paid for are past their log. *)
Past == {c \in Calls : call[c].pc \notin {"idle", "try", "log"}}

SpendInv ==
    /\ \A u \in Callers, m \in Months : /\ spend[u][m] <= Cardinality(Past)
                                        /\ m > month => spend[u][m] = 0
    /\ \A u \in Callers : cached[u].month # 0 => cached[u].sum <= spend[u][cached[u].month]

(* Calls of a user that come one by one find room for what they cost. *)
CapInv ==
    Billing /\ ~crossing =>
       \A u \in Callers :
          /\ \A c, d \in Running(u) : c = d
          /\ SpendCap[u] > 0 => /\ \A m \in Months : spend[u][m] <= SpendCap[u]
                                /\ Running(u) # {} => spend[u][month] < SpendCap[u]

(* A flag, in memory or in Redis, means that the user was told; and so does  *)
(* what a check has read and done.                                           *)
FlagsTold ==
    /\ \A u \in Callers, k \in Kinds : flag[u][k] # 0 => told[u][flag[u][k]][k] > 0
    /\ \A u \in Callers : \A x \in shared[u] : told[u][x[2]][x[1]] > 0

CheckTold(c) ==
    call[c].pc \in Late =>
       LET said == told[call[c].user][call[c].month] IN
       /\ \A k \in call[c].sent : said[k] > 0
       /\ call[c].pc = "warned" => said["warning"] > 0
       /\ call[c].pc = "exceeded" => said["exceeded"] > 0
       /\ call[c].pc \in {"exceed", "exceeded"} => said["warning"] > 0 \/ call[c].sum < Warn
       /\ ~carried /\ call[c].pc # "spend" => call[c].sum <= spend[call[c].user][call[c].month]

TellInv == FlagsTold /\ (\A c \in Calls : CheckTold(c)) /\ ToldTruly

(* One check of a user at a time: what was told this month is flagged, or    *)
(* about to be; what a check will tell was not told.                         *)
Flagged(u, k) == flag[u][k] = month \/ (Redis /\ <<k, month>> \in shared[u])

Setting(k) == IF k = "warning" THEN "warned" ELSE "exceeded"
Untold(k) == IF k = "warning" THEN {"spend", "warn"} ELSE {"spend", "warn", "warned", "exceed"}

OnceOK(u, k) ==
    /\ \A m \in Months : told[u][m][k] <= 1
    /\ told[u][month][k] > 0 =>
          Flagged(u, k) \/ \E c \in Checking(u) : call[c].month = month /\ call[c].pc = Setting(k)
    /\ \A c \in Checking(u) :
          /\ call[c].pc \in Untold(k) /\ k \notin call[c].sent => told[u][call[c].month][k] = 0
          /\ call[c].pc \in Late /\ call[c].month < month => told[u][month][k] = 0

OnceInv ==
    /\ Redis => \A u \in Callers, k \in Kinds : flag[u][k] # 0 => <<k, flag[u][k]>> \in shared[u]
    /\ \A u \in Callers, m \in Months, k \in Kinds : m > month => told[u][m][k] = 0
    /\ ~overlap => \A u \in Callers : \A c, d \in Checking(u) : c = d
    /\ ~overlap /\ ~forgot => \A u \in Callers, k \in Kinds : OnceOK(u, k)

RouterInv ==
    /\ RouterTyped /\ (\A c \in Calls : CallOK(c))
    /\ SpendInv /\ CapInv /\ TellInv /\ OnceInv

-----------------------------------------------------------------------------
(* The order of providers *)

(* Every provider has a place in the order of providers. *)
LEMMA RankTyped ==
  ASSUME NEW p \in Providers, NEW only \in BOOLEAN
  PROVE  Rank(p, only) \in Nat
<1>1. Len(Enum) \in Nat /\ DOMAIN Enum = 1 .. Len(Enum)
  BY RouterAssumption
<1>2. \E n \in 1 .. Len(Enum) : Enum[n] = p
  BY <1>1 DEF Providers, Range
<1>3. Place(p) \in 1 .. Len(Enum)
  BY <1>2 DEF Place
<1>4. Place(p) \in Nat
  BY <1>1, <1>3
<1>5. QED
  BY <1>1, <1>4 DEF Rank

(* As long as providers are left, the one whose turn it is is one of them. *)
LEMMA TurnIsLeft ==
  ASSUME NEW c, call[c].left \in SUBSET Providers, call[c].left # {}, call[c].only \in BOOLEAN
  PROVE  _get_provider_order(c) \in call[c].left
<1>1. PICK T : T = {Rank(p, call[c].only) : p \in call[c].left}
  OBVIOUS
<1>2. T \in SUBSET Nat /\ T # {}
  BY <1>1, RankTyped
<1>3. PICK x \in T : \A y \in T : x <= y
  BY <1>2, LeastNumber
<1>4. PICK p \in call[c].left : x = Rank(p, call[c].only)
  BY <1>1
<1>5. \A o \in call[c].left : Rank(p, call[c].only) <= Rank(o, call[c].only)
  BY <1>1, <1>3, <1>4
<1>6. QED
  BY <1>5 DEF _get_provider_order

-----------------------------------------------------------------------------
(* Calls *)

(* The facts of RouterInv about one call. *)
LEMMA CallRecord ==
  ASSUME RouterInv, NEW c \in Calls
  PROVE  /\ call \in [Calls -> Calling] /\ call[c] \in Calling /\ CallOK(c) /\ CheckTold(c)
         /\ month \in Months /\ Months = 1 .. 2
BY DEF RouterInv, RouterTyped, TellInv, Months

(* One call moves on and the others stay. *)
LEMMA CallMoves ==
  ASSUME RouterInv, NEW c \in Calls, NEW new \in Calling, call' = [call EXCEPT ![c] = new]
  PROVE  /\ call' \in [Calls -> Calling] /\ call'[c] = new
         /\ \A d \in Calls \ {c} : call'[d] = call[d]
BY DEF RouterInv, RouterTyped

(* ... so what is said of each of the others still holds. *)
LEMMA OthersOK ==
  ASSUME RouterInv, NEW c \in Calls, \A d \in Calls \ {c} : call'[d] = call[d],
         month' \in Nat, month <= month'
  PROVE  \A d \in Calls \ {c} : CallOK(d)'
<1> SUFFICES ASSUME NEW d \in Calls \ {c} PROVE CallOK(d)'
  OBVIOUS
<1>1. CallOK(d) /\ call'[d] = call[d] /\ month \in Nat
  BY DEF RouterInv, RouterTyped, Months
<1>2. call[d].month \in 1 .. month => call[d].month \in 1 .. month'
  BY <1>1
<1>3. QED
  BY <1>1, <1>2 DEF CallOK

(* Calls paid for stay paid for, and there are not more of them than calls. *)
LEMMA PastGrows ==
  ASSUME RouterInv, Past \subseteq Past'
  PROVE  /\ Cardinality(Past) \in Nat /\ Cardinality(Past') \in Nat
         /\ Cardinality(Past) <= Cardinality(Past') /\ Cardinality(Past) <= Cardinality(Calls)
<1>1. IsFiniteSet(Calls) /\ Past \subseteq Calls /\ Past' \subseteq Calls
  BY RouterAssumption DEF Past
<1>2. IsFiniteSet(Past) /\ IsFiniteSet(Past') /\ Cardinality(Past) <= Cardinality(Calls)
  BY <1>1, FS_Subset
<1>3. QED
  BY <1>2, FS_Subset, FS_CardinalityType

(* What a call that is not past its log leaves as it is. *)
LEMMA SpendKept ==
  ASSUME RouterInv, UNCHANGED <<month, spend, cached>>, Past \subseteq Past'
  PROVE  SpendInv'
<1>1. /\ Cardinality(Past) \in Nat /\ Cardinality(Past') \in Nat
      /\ Cardinality(Past) <= Cardinality(Past')
  BY PastGrows
<1>2. SpendInv /\ \A u \in Callers, m \in Months : spend[u][m] \in Nat
  BY DEF RouterInv, RouterTyped
<1>3. ASSUME NEW u \in Callers, NEW m \in Months
      PROVE  spend'[u][m] <= Cardinality(Past') /\ (m > month' => spend'[u][m] = 0)
  <2>1. spend[u][m] <= Cardinality(Past) /\ spend[u][m] \in Nat /\ (m > month => spend[u][m] = 0)
    BY <1>2 DEF SpendInv
  <2>2. QED
    BY <1>1, <2>1
<1>4. QED
  BY <1>2, <1>3 DEF SpendInv

(* A call that is not checking a budget, before and after. *)
LEMMA TellKept ==
  ASSUME RouterInv, NEW c \in Calls, NEW new \in Calling, call' = [call EXCEPT ![c] = new],
         new.pc \notin Late,
         UNCHANGED <<flag, shared, told, carried>>,
         \A u \in Callers, m \in Months : spend'[u][m] \in Nat /\ spend[u][m] <= spend'[u][m]
  PROVE  TellInv'
<1>1. TellInv /\ (\A u \in Callers, m \in Months : spend[u][m] \in Nat) /\ Warn \in Nat /\ Budget \in Nat
      /\ call \in [Calls -> Calling]
  BY RouterAssumption DEF RouterInv, RouterTyped
<1>2. call'[c] = new /\ \A d \in Calls \ {c} : call'[d] = call[d]
  BY CallMoves
<1>3. FlagsTold'
  BY <1>1 DEF TellInv, FlagsTold
<1>4. ASSUME NEW d \in Calls PROVE CheckTold(d)'
  <2>1. CASE d = c
    BY <1>2, <2>1 DEF CheckTold
  <2>2. CASE d # c
    <3>1. CheckTold(d) /\ call'[d] = call[d] /\ call[d] \in Calling
      BY <1>1, <1>2, <2>2 DEF TellInv
    <3>2. call[d].pc \in Late => call[d].user \in Callers /\ call[d].month \in Months
      <4>1. CallOK(d) /\ month \in Months
        BY DEF RouterInv, RouterTyped
      <4>2. QED
        BY <4>1 DEF CallOK, Months
    <3>3. call[d].sum \in Nat
      BY <3>1 DEF Calling
    <3>4. call[d].pc \in Late => /\ spend'[call[d].user][call[d].month] \in Nat
                                 /\ spend[call[d].user][call[d].month] \in Nat
                                 /\ spend[call[d].user][call[d].month] <= spend'[call[d].user][call[d].month]
      BY <1>1, <3>2
    <3>5. CASE call[d].pc \notin Late
      BY <3>1, <3>5 DEF CheckTold
    <3>6. CASE call[d].pc \in Late
      BY <3>1, <3>3, <3>4, <3>6 DEF CheckTold
    <3>7. QED
      BY <3>5, <3>6
  <2>3. QED
    BY <2>1, <2>2
<1>5. ToldTruly'
  <2> SUFFICES ASSUME NEW u \in Callers, NEW m \in Months
               PROVE  /\ ~carried /\ told[u][m]["warning"] > 0 => spend'[u][m] >= Warn
                      /\ ~carried /\ told[u][m]["exceeded"] > 0 => spend'[u][m] >= Budget
                      /\ told[u][m]["exceeded"] > 0 => told[u][m]["warning"] > 0
    BY DEF ToldTruly
  <2>1. /\ ~carried /\ told[u][m]["warning"] > 0 => spend[u][m] >= Warn
        /\ ~carried /\ told[u][m]["exceeded"] > 0 => spend[u][m] >= Budget
        /\ told[u][m]["exceeded"] > 0 => told[u][m]["warning"] > 0
    BY <1>1 DEF TellInv, ToldTruly
  <2>2. spend[u][m] \in Nat /\ spend'[u][m] \in Nat /\ spend[u][m] <= spend'[u][m]
    BY <1>1
  <2>3. QED
    BY <1>1, <2>1, <2>2
<1>6. QED
  BY <1>3, <1>4, <1>5 DEF TellInv

(* A call that moves on before its log: it is sought, made, or given up. *)
LEMMA EarlyMoves ==
  ASSUME RouterInv, NEW c \in Calls, NEW new \in Calling, call' = [call EXCEPT ![c] = new],
         UNCHANGED <<month, spend, cached, flag, shared, told, overlap, carried, forgot>>,
         call[c].pc \in {"idle", "try"}, new.pc \in {"try", "log", "failed", "refused"},
         userKey' \in [Callers -> SUBSET Providers],
         instance' \in [Providers -> {"none", Server} \cup Callers],
         crossing' \in BOOLEAN, CallOK(c)', CapInv'
  PROVE  RouterInv'
<1>1. call' \in [Calls -> Calling] /\ call'[c] = new /\ \A d \in Calls \ {c} : call'[d] = call[d]
  BY CallMoves
<1>2. RouterTyped'
  BY <1>1 DEF RouterInv, RouterTyped
<1>3. \A d \in Calls : CallOK(d)'
  <2>1. month \in Nat
    BY DEF RouterInv, RouterTyped, Months
  <2>2. \A d \in Calls \ {c} : CallOK(d)'
    BY <1>1, <2>1, OthersOK
  <2>3. QED
    BY <2>2
<1>4. SpendInv'
  <2>1. Past \subseteq Past'
    BY <1>1 DEF Past
  <2>2. QED
    BY <2>1, SpendKept
<1>5. TellInv'
  <2>1. \A u \in Callers, m \in Months : spend'[u][m] \in Nat /\ spend[u][m] <= spend'[u][m]
    BY DEF RouterInv, RouterTyped
  <2>2. new.pc \notin Late
    BY DEF Late
  <2>3. QED
    BY <2>1, <2>2, TellKept
<1>6. OnceInv'
  <2>1. ASSUME NEW u \in Callers PROVE Checking(u)' = Checking(u) /\ c \notin Checking(u)
    BY <1>1 DEF Checking
  <2>2. ASSUME NEW u \in Callers, NEW k \in Kinds, OnceOK(u, k) PROVE OnceOK(u, k)'
    <3>1. Checking(u)' = Checking(u) /\ \A d \in Checking(u) : call'[d] = call[d]
      BY <1>1, <2>1 DEF Checking
    <3>2. Flagged(u, k)' <=> Flagged(u, k)
      BY DEF Flagged
    <3>3. QED
      BY <2>2, <3>1, <3>2 DEF OnceOK
  <2>3. OnceInv
    BY DEF RouterInv
  <2>4. /\ Redis => \A u \in Callers, k \in Kinds : flag'[u][k] # 0 => <<k, flag'[u][k]>> \in shared'[u]
        /\ \A u \in Callers, m \in Months, k \in Kinds : m > month' => told'[u][m][k] = 0
    BY <2>3 DEF OnceInv
  <2>5. ~overlap' => \A u \in Callers : \A d, e \in Checking(u)' : d = e
    BY <2>1, <2>3 DEF OnceInv
  <2>6. ~overlap' /\ ~forgot' => \A u \in Callers, k \in Kinds : OnceOK(u, k)'
    BY <2>2, <2>3 DEF OnceInv
  <2>7. QED
    BY <2>4, <2>5, <2>6 DEF OnceInv
<1>7. QED
  BY <1>2, <1>3, <1>4, <1>5, <1>6 DEF RouterInv

(* Nothing but the keys that users store may have changed. *)
LEMMA SameCalls ==
  ASSUME RouterInv, userKey' \in [Callers -> SUBSET Providers],
         UNCHANGED <<instance, call, month, spend, cached, flag, shared, told, overlap, carried, forgot, crossing>>
  PROVE  RouterInv'
<1>1. RouterTyped'
  BY DEF RouterInv, RouterTyped
<1>2. (\A c \in Calls : CallOK(c)') /\ SpendInv' /\ CapInv'
  BY DEF RouterInv, CallOK, SpendInv, Past, CapInv, Running
<1>3. TellInv'
  BY DEF RouterInv, TellInv, FlagsTold, CheckTold, ToldTruly
<1>4. OnceInv'
  <2>1. \A v \in Callers, k \in Kinds : Checking(v)' = Checking(v) /\ (Flagged(v, k)' <=> Flagged(v, k))
    BY DEF Checking, Flagged
  <2>2. \A v \in Callers, k \in Kinds : OnceOK(v, k)' <=> OnceOK(v, k)
    BY <2>1 DEF OnceOK
  <2>3. OnceInv
    BY DEF RouterInv
  <2>4. /\ Redis => \A v \in Callers, k \in Kinds : flag'[v][k] # 0 => <<k, flag'[v][k]>> \in shared'[v]
        /\ \A v \in Callers, m \in Months, k \in Kinds : m > month' => told'[v][m][k] = 0
    BY <2>3 DEF OnceInv
  <2>5. ~overlap' => \A v \in Callers : \A d, e \in Checking(v)' : d = e
    <3>1. ~overlap => \A v \in Callers : \A d, e \in Checking(v) : d = e
      BY <2>3 DEF OnceInv
    <3>2. \A v \in Callers : Checking(v)' = Checking(v)
      BY DEF Checking
    <3>3. QED
      BY <3>1, <3>2
  <2>6. ~overlap' /\ ~forgot' => \A v \in Callers, k \in Kinds : OnceOK(v, k)'
    BY <2>2, <2>3 DEF OnceInv
  <2>7. QED
    BY <2>4, <2>5, <2>6 DEF OnceInv
<1>5. QED
  BY <1>1, <1>2, <1>3, <1>4 DEF RouterInv

(* A user stores or removes a key. *)
LEMMA SetUserKeyKeeps ==
  ASSUME RouterInv, NEW u \in Callers, NEW p \in ByokCapable, SetUserKey(u, p)
  PROVE  RouterInv'
<1>1. /\ userKey' = [userKey EXCEPT ![u] = IF p \in userKey[u] THEN userKey[u] \ {p} ELSE userKey[u] \cup {p}]
      /\ UNCHANGED <<instance, call, month, spend, cached, flag, shared, told, overlap, carried, forgot, crossing>>
  BY DEF SetUserKey, RouterInv, RouterTyped
<1>2. userKey \in [Callers -> SUBSET Providers] /\ p \in Providers
  BY RouterAssumption DEF RouterInv, RouterTyped, Providers
<1>3. userKey' \in [Callers -> SUBSET Providers]
  BY <1>1, <1>2
<1>4. QED
  BY <1>1, <1>3, SameCalls

(* The providers a call begins with include those with the instance's key. *)
LEMMA CandidatesTyped ==
  ASSUME NEW only \in BOOLEAN
  PROVE  Candidates(only) \in SUBSET Providers /\ Enabled \subseteq Candidates(only)
BY RouterAssumption DEF Candidates, Providers

(* A call is admitted or refused. *)
LEMMA AdmitKeeps ==
  ASSUME RouterInv, NEW c \in Calls, NEW u \in Callers, plan_aware_complete(c, u)
  PROVE  RouterInv'
<1>1. PICK free \in BOOLEAN : free = (~Billing \/ PlanProvider \in userKey[u])
  OBVIOUS
<1>2. PICK new : new = IF Billing /\ ~check_daily_llm_spend(u) THEN [NoCall EXCEPT !.pc = "refused"]
                       ELSE [NoCall EXCEPT !.pc = "try", !.user = u, !.only = ~free, !.left = Candidates(~free)]
  OBVIOUS
<1>3. /\ call[c].pc = "idle" /\ call' = [call EXCEPT ![c] = new]
      /\ crossing' = (crossing \/ Running(u) # {})
      /\ UNCHANGED <<userKey, instance, month, spend, cached, flag, shared, told, overlap, carried, forgot>>
  BY <1>1, <1>2 DEF plan_aware_complete
<1>4. Candidates(~free) \in SUBSET Providers /\ Enabled \subseteq Candidates(~free)
  BY CandidatesTyped
<1>5. /\ new \in Calling /\ new.key = "none" /\ new.tried = {} /\ new.pc \in {"try", "refused"}
      /\ new.pc = "try" => /\ new.user = u /\ new.left = Candidates(~free)
                           /\ Billing => check_daily_llm_spend(u)
      /\ new.pc = "refused" => new.user = "none"
  BY <1>2, <1>4 DEF NoCall, Calling, Late
<1>6. call'[c] = new /\ \A d \in Calls \ {c} : call'[d] = call[d]
  BY <1>3, <1>5, CallMoves
<1>7. CallOK(c)'
  BY <1>4, <1>5, <1>6 DEF CallOK, Late
<1>8. CapInv'
  <2> SUFFICES ASSUME Billing, ~crossing' PROVE CapInv'
    BY DEF CapInv
  <2>1. ~crossing /\ Running(u) = {} /\ CapInv
    BY <1>3 DEF RouterInv
  <2>2. \A v \in Callers \ {u} : Running(v)' = Running(v)
    BY <1>3, <1>5, <1>6, RouterAssumption DEF Running
  <2>3. Running(u)' \subseteq {c} /\ (Running(u)' # {} => new.pc = "try")
    BY <1>5, <1>6, <2>1 DEF Running
  <2>4. ASSUME NEW v \in Callers
        PROVE  /\ \A d, e \in Running(v)' : d = e
               /\ SpendCap[v] > 0 => /\ \A m \in Months : spend'[v][m] <= SpendCap[v]
                                     /\ Running(v)' # {} => spend'[v][month'] < SpendCap[v]
    <3>1. CASE v = u
      <4>1. SpendCap[u] > 0 => \A m \in Months : spend[u][m] <= SpendCap[u]
        BY <2>1 DEF CapInv
      <4>2. SpendCap[u] > 0 /\ new.pc = "try" => spend[u][month] < SpendCap[u]
        BY <1>5, RouterAssumption DEF check_daily_llm_spend
      <4>3. QED
        BY <1>3, <2>3, <3>1, <4>1, <4>2
    <3>2. CASE v # u
      BY <1>3, <2>1, <2>2, <3>2 DEF CapInv
    <3>3. QED
      BY <3>1, <3>2
  <2>5. QED
    BY <2>4 DEF CapInv
<1>9. /\ userKey' \in [Callers -> SUBSET Providers] /\ crossing' \in BOOLEAN
      /\ instance' \in [Providers -> {"none", Server} \cup Callers]
  BY <1>3 DEF RouterInv, RouterTyped
<1>10. UNCHANGED <<month, spend, cached, flag, shared, told, overlap, carried, forgot>>
  BY <1>3
<1>11. QED
  BY <1>3, <1>5, <1>7, <1>8, <1>9, <1>10, EarlyMoves

(* The PDF adapter's call, which nothing holds back. *)
LEMMA MultimodalKeeps ==
  ASSUME RouterInv, NEW c \in Calls, NEW u \in Callers, complete_multimodal(c, u)
  PROVE  RouterInv'
<1>1. PICK new : new = [NoCall EXCEPT !.pc = "try", !.user = u, !.quiet = TRUE, !.left = Candidates(FALSE)]
  OBVIOUS
<1>2. /\ call[c].pc = "idle" /\ call' = [call EXCEPT ![c] = new] /\ crossing' = TRUE
      /\ UNCHANGED <<userKey, instance, month, spend, cached, flag, shared, told, overlap, carried, forgot>>
  BY <1>1 DEF complete_multimodal
<1>3. Candidates(FALSE) \in SUBSET Providers /\ Enabled \subseteq Candidates(FALSE)
  BY CandidatesTyped
<1>4. /\ new \in Calling /\ new.key = "none" /\ new.tried = {} /\ new.pc = "try"
      /\ new.user = u /\ new.left = Candidates(FALSE) /\ new.only = FALSE
  BY <1>1, <1>3 DEF NoCall, Calling
<1>5. call'[c] = new
  BY <1>2, <1>4, CallMoves
<1>6. CallOK(c)'
  BY <1>3, <1>4, <1>5 DEF CallOK, Late
<1>7. CapInv'
  BY <1>2 DEF CapInv
<1>8. /\ userKey' \in [Callers -> SUBSET Providers] /\ crossing' \in BOOLEAN
      /\ instance' \in [Providers -> {"none", Server} \cup Callers]
  BY <1>2 DEF RouterInv, RouterTyped
<1>9. UNCHANGED <<month, spend, cached, flag, shared, told, overlap, carried, forgot>>
  BY <1>2
<1>10. QED
  BY <1>2, <1>4, <1>6, <1>7, <1>8, <1>9, EarlyMoves

(* Calls that are under way stay so or end: the cap holds as before. *)
LEMMA CapKept ==
  ASSUME RouterInv, NEW c \in Calls, \A d \in Calls \ {c} : call'[d] = call[d],
         call'[c].pc \in {"try", "log"} => call[c].pc \in {"try", "log"} /\ call'[c].user = call[c].user,
         UNCHANGED <<month, spend, crossing>>
  PROVE  CapInv'
<1>1. \A u \in Callers : Running(u)' \subseteq Running(u)
  BY DEF Running
<1>2. QED
  BY <1>1 DEF RouterInv, CapInv

(* A provider is passed over: the instance has no key for it. *)
LEMMA SkipKeeps ==
  ASSUME RouterInv, NEW c \in Calls, Skip(c)
  PROVE  RouterInv'
<1>1. call \in [Calls -> Calling] /\ call[c] \in Calling /\ CallOK(c)
  BY CallRecord
<1>2. PICK p : p = _get_provider_order(c)
  OBVIOUS
<1>3. PICK new : new = [call[c] EXCEPT !.left = call[c].left \ {p}]
  OBVIOUS
<1>4. /\ call[c].pc = "try" /\ call' = [call EXCEPT ![c] = new] /\ ~_is_provider_available(p)
      /\ UNCHANGED <<userKey, instance, month, spend, cached, flag, shared, told, overlap, carried, forgot, crossing>>
  BY <1>1, <1>2, <1>3 DEF Skip
<1>5. /\ new \in Calling /\ new.pc = "try" /\ new.left = call[c].left \ {p} /\ new.tried = call[c].tried
      /\ new.key = call[c].key /\ new.only = call[c].only /\ new.user = call[c].user
  BY <1>1, <1>3, <1>4 DEF Calling
<1>6. call'[c] = new /\ \A d \in Calls \ {c} : call'[d] = call[d]
  BY <1>4, <1>5, CallMoves
<1>7. CallOK(c)'
  BY <1>1, <1>4, <1>5, <1>6 DEF CallOK, Late, _is_provider_available
<1>8. CapInv'
  BY <1>4, <1>5, <1>6, CapKept
<1>9. /\ userKey' \in [Callers -> SUBSET Providers] /\ crossing' \in BOOLEAN
      /\ instance' \in [Providers -> {"none", Server} \cup Callers]
  BY <1>4 DEF RouterInv, RouterTyped
<1>10. QED
  BY <1>4, <1>5, <1>7, <1>8, <1>9, EarlyMoves

(* A provider is tried, with the user's key or the instance's. *)
LEMMA AttemptKeeps ==
  ASSUME RouterInv, NEW c \in Calls, NEW ok \in BOOLEAN, Attempt(c, ok)
  PROVE  RouterInv'
<1>1. call \in [Calls -> Calling] /\ call[c] \in Calling /\ CallOK(c)
  BY CallRecord
<1>2. PICK p : p = _get_provider_order(c)
  OBVIOUS
<1>3. PICK to : to = IF ok THEN "log" ELSE IF _execute_with_fallback(c) THEN "try" ELSE "failed"
  OBVIOUS
<1>4. /\ call[c].pc = "try" /\ call[c].left # {} /\ _get_provider_instance(c, p)
      /\ UNCHANGED <<userKey, month, spend, cached, flag, shared, told, overlap, carried, forgot, crossing>>
      /\ \E key \in Callers \cup {Server} :
            call' = [call EXCEPT ![c].tried = @ \cup {p}, ![c].left = @ \ {p}, ![c].key = key, ![c].pc = to]
  BY <1>2, <1>3, Zenon DEF Attempt
<1>5. PICK key \in Callers \cup {Server} :
         call' = [call EXCEPT ![c].tried = @ \cup {p}, ![c].left = @ \ {p}, ![c].key = key, ![c].pc = to]
  BY <1>4
<1>6. PICK new : new = [call[c] EXCEPT !.tried = call[c].tried \cup {p}, !.left = call[c].left \ {p},
                                       !.key = key, !.pc = to]
  OBVIOUS
<1>7. call' = [call EXCEPT ![c] = new]
  BY <1>1, <1>5, <1>6
<1>8. p \in Providers
  <2>1. call[c].left \in SUBSET Providers /\ call[c].only \in BOOLEAN
    BY <1>1 DEF Calling
  <2>2. p \in call[c].left
    BY <1>2, <1>4, <2>1, TurnIsLeft
  <2>3. QED
    BY <2>1, <2>2
<1>9. /\ new \in Calling /\ new.pc = to /\ new.left = call[c].left \ {p} /\ new.tried = call[c].tried \cup {p}
      /\ new.key = key /\ new.only = call[c].only /\ new.user = call[c].user
  BY <1>1, <1>3, <1>6, <1>8 DEF Calling
<1>10. call'[c] = new /\ \A d \in Calls \ {c} : call'[d] = call[d]
  BY <1>7, <1>9, CallMoves
<1>11. new.key \in {Server, call[c].user}
  BY <1>4, <1>10 DEF _get_provider_instance
<1>12. instance' \in [Providers -> {"none", Server} \cup Callers]
  <2>1. instance \in [Providers -> {"none", Server} \cup Callers]
    BY DEF RouterInv, RouterTyped
  <2>2. QED
    BY <1>4, <2>1 DEF _get_provider_instance
<1>13. CallOK(c)'
  <2>1. call[c].user \in Callers
    BY <1>1, <1>4 DEF CallOK
  <2>2. to \in {"log", "try", "failed"} /\ (to \in {"try", "failed"} /\ ~call[c].only /\ Fallback => to = "try")
        /\ (to = "try" => ~call[c].only)
    BY <1>3 DEF _execute_with_fallback
  <2>3. new.only => new.tried = {p}
    BY <1>1, <1>4, <1>9 DEF CallOK
  <2>4. ~new.only => Enabled \cap ServerKey \subseteq new.tried \cup new.left
    BY <1>1, <1>4, <1>9 DEF CallOK
  <2>5. QED
    BY <1>8, <1>9, <1>10, <1>11, <2>1, <2>2, <2>3, <2>4 DEF CallOK, Late
<1>14. CapInv'
  BY <1>4, <1>9, <1>10, CapKept
<1>15. userKey' \in [Callers -> SUBSET Providers] /\ crossing' \in BOOLEAN
  BY <1>4 DEF RouterInv, RouterTyped
<1>16. new.pc \in {"try", "log", "failed", "refused"}
  BY <1>3, <1>9
<1>17. UNCHANGED <<month, spend, cached, flag, shared, told, overlap, carried, forgot>>
  BY <1>4
<1>18. QED
  BY <1>4, <1>7, <1>9, <1>12, <1>13, <1>14, <1>15, <1>16, <1>17, EarlyMoves

(* No provider is left. *)
LEMMA ExhaustedKeeps ==
  ASSUME RouterInv, NEW c \in Calls, Exhausted(c)
  PROVE  RouterInv'
<1>1. call \in [Calls -> Calling] /\ call[c] \in Calling /\ CallOK(c)
  BY CallRecord
<1>2. PICK new : new = [call[c] EXCEPT !.pc = "failed"]
  OBVIOUS
<1>3. /\ call[c].pc = "try" /\ call[c].left = {} /\ call' = [call EXCEPT ![c] = new]
      /\ UNCHANGED <<userKey, instance, month, spend, cached, flag, shared, told, overlap, carried, forgot, crossing>>
  BY <1>1, <1>2 DEF Exhausted
<1>4. /\ new \in Calling /\ new.pc = "failed" /\ new.left = call[c].left /\ new.tried = call[c].tried
      /\ new.key = call[c].key /\ new.only = call[c].only /\ new.user = call[c].user
  BY <1>1, <1>2 DEF Calling
<1>5. call'[c] = new /\ \A d \in Calls \ {c} : call'[d] = call[d]
  BY <1>3, <1>4, CallMoves
<1>6. CallOK(c)'
  BY <1>1, <1>3, <1>4, <1>5 DEF CallOK, Late
<1>7. CapInv'
  BY <1>3, <1>4, <1>5, CapKept
<1>8. /\ userKey' \in [Callers -> SUBSET Providers] /\ crossing' \in BOOLEAN
      /\ instance' \in [Providers -> {"none", Server} \cup Callers]
  BY <1>3 DEF RouterInv, RouterTyped
<1>9. QED
  BY <1>3, <1>4, <1>6, <1>7, <1>8, EarlyMoves

(* What the checks of another user say is as it was. *)
LEMMA OnceOther ==
  ASSUME NEW u \in Callers, NEW k \in Kinds, OnceOK(u, k),
         Checking(u)' = Checking(u), \A d \in Checking(u) : call'[d] = call[d],
         month' = month, flag'[u] = flag[u], shared'[u] = shared[u], told'[u] = told[u]
  PROVE  OnceOK(u, k)'
<1>1. Flagged(u, k)' <=> Flagged(u, k)
  BY DEF Flagged
<1>2. QED
  BY <1>1 DEF OnceOK

(* A call is paid for, and its check begins. *)
LEMMA LogKeeps ==
  ASSUME RouterInv, NEW c \in Calls, NEW logged \in BOOLEAN, _log_cost(c, logged)
  PROVE  RouterInv'
<1>1. call \in [Calls -> Calling] /\ call[c] \in Calling /\ CallOK(c) /\ month \in Months /\ Months = 1 .. 2
  BY CallRecord
<1>2. PICK new : new = [call[c] EXCEPT !.pc = IF call[c].quiet THEN "done" ELSE "flags"]
  OBVIOUS
<1>3. PICK u : u = call[c].user
  OBVIOUS
<1>4. /\ call[c].pc = "log" /\ call' = [call EXCEPT ![c] = new]
      /\ spend' = IF logged THEN [spend EXCEPT ![u][month] = @ + 1] ELSE spend
      /\ overlap' = (overlap \/ Checking(u) # {})
      /\ UNCHANGED <<userKey, instance, month, cached, flag, shared, told, carried, forgot, crossing>>
  BY <1>1, <1>2, <1>3 DEF _log_cost
<1>5. u \in Callers
  BY <1>1, <1>3, <1>4 DEF CallOK
<1>6. /\ new \in Calling /\ new.pc \in {"done", "flags"} /\ new.tried = call[c].tried
      /\ new.key = call[c].key /\ new.only = call[c].only /\ new.user = u
  BY <1>1, <1>2, <1>3 DEF Calling
<1>7. call' \in [Calls -> Calling] /\ call'[c] = new /\ \A d \in Calls \ {c} : call'[d] = call[d]
  BY <1>4, <1>6, CallMoves
<1>8. spend \in [Callers -> [Months -> Nat]]
  BY DEF RouterInv, RouterTyped
<1>9. /\ spend' \in [Callers -> [Months -> Nat]]
      /\ \A v \in Callers, m \in Months : spend'[v][m] \in {spend[v][m], spend[v][m] + 1}
      /\ \A v \in Callers, m \in Months : v # u \/ m # month => spend'[v][m] = spend[v][m]
  <2>1. CASE logged
    BY <1>1, <1>4, <1>5, <1>8, <2>1
  <2>2. CASE ~logged
    BY <1>4, <1>8, <2>2
  <2>3. QED
    BY <2>1, <2>2
<1>10. \A v \in Callers, m \in Months : /\ spend[v][m] \in Nat /\ spend'[v][m] \in Nat
                                        /\ spend[v][m] <= spend'[v][m] /\ spend'[v][m] <= spend[v][m] + 1
  BY <1>8, <1>9
<1>11. RouterTyped'
  BY <1>4, <1>7, <1>9 DEF RouterInv, RouterTyped
<1>12. \A d \in Calls : CallOK(d)'
  <2>1. CallOK(c)'
    BY <1>1, <1>5, <1>6, <1>7, <1>3 DEF CallOK, Late
  <2>2. month' \in Nat /\ month <= month'
    BY <1>1, <1>4
  <2>3. \A d \in Calls \ {c} : CallOK(d)'
    BY <1>7, <2>2, OthersOK
  <2>4. QED
    BY <2>1, <2>3
<1>13. SpendInv'
  <2>1. Past' = Past \cup {c} /\ c \notin Past
    BY <1>4, <1>6, <1>7 DEF Past
  <2>2. IsFiniteSet(Past)
    BY RouterAssumption, FS_Subset DEF Past
  <2>3. Cardinality(Past') = Cardinality(Past) + 1 /\ Cardinality(Past) \in Nat
    BY <2>1, <2>2, FS_AddElement, FS_CardinalityType
  <2>4. SpendInv /\ cached \in [Callers -> [sum : Nat, month : {0} \cup Months]]
    BY DEF RouterInv, RouterTyped
  <2>5. ASSUME NEW v \in Callers, NEW m \in Months
        PROVE  spend'[v][m] <= Cardinality(Past') /\ (m > month' => spend'[v][m] = 0)
    <3>1. spend[v][m] <= Cardinality(Past) /\ (m > month => spend[v][m] = 0)
      BY <2>4 DEF SpendInv
    <3>2. spend'[v][m] <= Cardinality(Past')
      BY <1>10, <2>3, <3>1
    <3>3. m > month' => m # month
      BY <1>1, <1>4
    <3>4. QED
      BY <1>4, <1>9, <3>1, <3>2, <3>3
  <2>6. ASSUME NEW v \in Callers, cached[v].month # 0
        PROVE  cached[v].sum <= spend'[v][cached[v].month]
    <3>1. cached[v].month \in Months /\ cached[v].sum \in Nat /\ cached[v].sum <= spend[v][cached[v].month]
      BY <2>4, <2>6 DEF SpendInv
    <3>2. /\ spend[v][cached[v].month] \in Nat /\ spend'[v][cached[v].month] \in Nat
          /\ spend[v][cached[v].month] <= spend'[v][cached[v].month]
      BY <1>10, <3>1
    <3>3. QED
      BY <3>1, <3>2
  <2>7. QED
    BY <1>4, <2>5, <2>6 DEF SpendInv
<1>14. CapInv'
  <2> SUFFICES ASSUME Billing, ~crossing PROVE CapInv'
    BY <1>4 DEF CapInv
  <2>1. c \in Running(u)
    BY <1>3, <1>4 DEF Running
  <2>2. \A v \in Callers : Running(v)' \subseteq Running(v) \ {c}
    BY <1>6, <1>7 DEF Running
  <2>3. ASSUME NEW v \in Callers
        PROVE  /\ \A d, e \in Running(v) : d = e
               /\ SpendCap[v] > 0 => /\ \A m \in Months : spend[v][m] <= SpendCap[v]
                                     /\ Running(v) # {} => spend[v][month] < SpendCap[v]
    BY DEF RouterInv, CapInv
  <2>4. Running(u)' = {}
    BY <1>5, <2>1, <2>2, <2>3
  <2>5. ASSUME NEW v \in Callers
        PROVE  /\ \A d, e \in Running(v)' : d = e
               /\ SpendCap[v] > 0 => /\ \A m \in Months : spend'[v][m] <= SpendCap[v]
                                     /\ Running(v)' # {} => spend'[v][month'] < SpendCap[v]
    <3>1. CASE v = u
      <4>1. ASSUME NEW m \in Months, SpendCap[u] > 0 PROVE spend'[u][m] <= SpendCap[u]
        <5>1. CASE m = month
          <6>1. spend[u][month] < SpendCap[u] /\ SpendCap[u] \in Nat
            BY <1>5, <2>1, <2>3, <4>1, RouterAssumption
          <6>2. spend[u][month] \in Nat /\ spend'[u][month] \in Nat /\ spend'[u][month] <= spend[u][month] + 1
            BY <1>1, <1>5, <1>10
          <6>3. QED
            BY <5>1, <6>1, <6>2
        <5>2. CASE m # month
          BY <1>5, <1>9, <2>3, <4>1, <5>2
        <5>3. QED
          BY <5>1, <5>2
      <4>2. QED
        BY <2>4, <3>1, <4>1
    <3>2. CASE v # u
      <4>1. \A m \in Months : spend'[v][m] = spend[v][m]
        BY <1>9, <3>2
      <4>2. QED
        BY <1>1, <1>4, <2>2, <2>3, <4>1
    <3>3. QED
      BY <3>1, <3>2
  <2>6. QED
    BY <2>5 DEF CapInv
<1>15. TellInv'
  <2>1. new.pc \notin Late
    BY <1>6 DEF Late
  <2>2. \A v \in Callers, m \in Months : spend'[v][m] \in Nat /\ spend[v][m] <= spend'[v][m]
    BY <1>10
  <2>3. UNCHANGED <<flag, shared, told, carried>>
    BY <1>4
  <2>4. QED
    BY <1>4, <1>6, <2>1, <2>2, <2>3, TellKept
<1>16. OnceInv'
  <2>1. OnceInv
    BY DEF RouterInv
  <2>2. /\ Redis => \A v \in Callers, k \in Kinds : flag'[v][k] # 0 => <<k, flag'[v][k]>> \in shared'[v]
        /\ \A v \in Callers, m \in Months, k \in Kinds : m > month' => told'[v][m][k] = 0
    BY <1>4, <2>1 DEF OnceInv
  <2>3. \A v \in Callers \ {u} : Checking(v)' = Checking(v) /\ \A d \in Checking(v) : call'[d] = call[d]
    BY <1>4, <1>6, <1>7 DEF Checking
  <2>4. ~overlap' => ~overlap /\ Checking(u) = {} /\ Checking(u)' \subseteq {c}
    BY <1>4, <1>7 DEF Checking
  <2>5. ~overlap' => \A v \in Callers : \A d, e \in Checking(v)' : d = e
    BY <2>1, <2>3, <2>4 DEF OnceInv
  <2>6. ASSUME ~overlap', ~forgot', NEW v \in Callers, NEW k \in Kinds PROVE OnceOK(v, k)'
    <3>1. OnceOK(v, k)
      BY <1>4, <2>1, <2>4, <2>6 DEF OnceInv
    <3>2. CASE v # u
      <4>1. /\ Checking(v)' = Checking(v) /\ (\A d \in Checking(v) : call'[d] = call[d])
            /\ month' = month /\ flag'[v] = flag[v] /\ shared'[v] = shared[v] /\ told'[v] = told[v]
        BY <1>4, <2>3, <3>2
      <4>2. QED
        BY <3>1, <4>1, OnceOther
    <3>3. CASE v = u
      <4>1. \A d \in Checking(u)' : call'[d].pc \in {"done", "flags"}
        BY <1>6, <1>7, <2>4, <2>6
      <4>2. Flagged(u, k)' <=> Flagged(u, k)
        BY <1>4 DEF Flagged
      <4>3. Checking(u) = {}
        BY <2>4, <2>6
      <4>4. /\ \A m \in Months : told'[u][m][k] <= 1
            /\ told'[u][month'][k] > 0 => Flagged(u, k)'
        BY <1>4, <3>1, <3>3, <4>2, <4>3 DEF OnceOK
      <4>5. QED
        BY <3>3, <4>1, <4>4 DEF OnceOK, Untold, Late
    <3>4. QED
      BY <3>2, <3>3
  <2>7. QED
    BY <2>2, <2>5, <2>6 DEF OnceInv
<1>17. QED
  BY <1>11, <1>12, <1>13, <1>14, <1>15, <1>16 DEF RouterInv

-----------------------------------------------------------------------------
(* The budget check *)

(* A step of a check: what it has to keep. *)
LEMMA CheckMoves ==
  ASSUME RouterInv, NEW c \in Calls, NEW new \in Calling, call' = [call EXCEPT ![c] = new],
         UNCHANGED <<userKey, instance, month, spend, overlap, forgot, crossing>>,
         call[c].pc \in {"flags"} \cup Late, new.pc \in Late \cup {"done"},
         new.user = call[c].user, new.key = call[c].key, new.only = call[c].only, new.tried = call[c].tried,
         new.pc \in Late => new.month \in 1 .. month,
         cached' \in [Callers -> [sum : Nat, month : {0} \cup Months]],
         flag' \in [Callers -> [Kinds -> {0} \cup Months]],
         shared' \in [Callers -> SUBSET (Kinds \X Months)],
         told' \in [Callers -> [Months -> [Kinds -> Nat]]], carried' \in BOOLEAN,
         \A u \in Callers : cached'[u].month # 0 => cached'[u].sum <= spend[u][cached'[u].month],
         TellInv', OnceInv'
  PROVE  RouterInv'
<1>1. call' \in [Calls -> Calling] /\ call'[c] = new /\ \A d \in Calls \ {c} : call'[d] = call[d]
  BY CallMoves
<1>2. CallOK(c) /\ month \in Months /\ Months = 1 .. 2
  BY CallRecord
<1>3. RouterTyped'
  BY <1>1 DEF RouterInv, RouterTyped
<1>4. \A d \in Calls : CallOK(d)'
  <2>1. CallOK(c)'
    BY <1>1, <1>2 DEF CallOK, Late
  <2>2. month' \in Nat /\ month <= month'
    BY <1>2
  <2>3. \A d \in Calls \ {c} : CallOK(d)'
    BY <1>1, <2>2, OthersOK
  <2>4. QED
    BY <2>1, <2>3
<1>5. SpendInv'
  <2>1. Past' = Past
    BY <1>1 DEF Past, Late
  <2>2. SpendInv
    BY DEF RouterInv
  <2>3. QED
    BY <2>1, <2>2 DEF SpendInv
<1>6. CapInv'
  <2>1. call'[c].pc \notin {"try", "log"}
    BY <1>1 DEF Late
  <2>2. QED
    BY <1>1, <2>1, CapKept
<1>7. QED
  BY <1>3, <1>4, <1>5, <1>6 DEF RouterInv

(* What the other checks say stays true when users are told more. *)
LEMMA TellStep ==
  ASSUME RouterInv, NEW c \in Calls, NEW new \in Calling, call' = [call EXCEPT ![c] = new],
         UNCHANGED <<month, spend>>, carried => carried', carried' \in BOOLEAN,
         \A v \in Callers, m \in Months, k \in Kinds :
            told'[v][m][k] \in Nat /\ told[v][m][k] <= told'[v][m][k],
         FlagsTold', ToldTruly', CheckTold(c)'
  PROVE  TellInv'
<1>1. call'[c] = new /\ \A d \in Calls \ {c} : call'[d] = call[d]
  BY CallMoves
<1>2. ASSUME NEW d \in Calls PROVE CheckTold(d)'
  <2>1. CASE d = c
    BY <2>1
  <2>2. CASE d # c /\ call[d].pc \in Late
    <3>1. CheckTold(d) /\ call'[d] = call[d] /\ CallOK(d) /\ month \in Months /\ call[d] \in Calling
      BY <1>1, <2>2, CallRecord
    <3>2. call[d].user \in Callers /\ call[d].month \in Months
      BY <2>2, <3>1 DEF CallOK, Months
    <3>3. PICK said : said = told[call[d].user][call[d].month]
      OBVIOUS
    <3>4. PICK now : now = told'[call[d].user][call[d].month]
      OBVIOUS
    <3>5. \A k \in Kinds : said[k] \in Nat /\ now[k] \in Nat /\ said[k] <= now[k]
      BY <3>2, <3>3, <3>4 DEF RouterInv, RouterTyped
    <3>6. "warning" \in Kinds /\ "exceeded" \in Kinds /\ call[d].sent \subseteq Kinds
      BY <3>1 DEF Kinds, Calling
    <3>7. /\ \A k \in call[d].sent : said[k] > 0
          /\ call[d].pc = "warned" => said["warning"] > 0
          /\ call[d].pc = "exceeded" => said["exceeded"] > 0
          /\ call[d].pc \in {"exceed", "exceeded"} => said["warning"] > 0 \/ call[d].sum < Warn
          /\ ~carried /\ call[d].pc # "spend" => call[d].sum <= spend[call[d].user][call[d].month]
      BY <2>2, <3>1, <3>3 DEF CheckTold
    <3>8. \A k \in Kinds : said[k] > 0 => now[k] > 0
      BY <3>5
    <3>9. /\ \A k \in call[d].sent : now[k] > 0
          /\ call[d].pc = "warned" => now["warning"] > 0
          /\ call[d].pc = "exceeded" => now["exceeded"] > 0
          /\ call[d].pc \in {"exceed", "exceeded"} => now["warning"] > 0 \/ call[d].sum < Warn
      BY <3>6, <3>7, <3>8
    <3>10. QED
      BY <3>1, <3>4, <3>7, <3>9 DEF CheckTold
  <2>3. CASE d # c /\ call[d].pc \notin Late
    BY <1>1, <2>3 DEF CheckTold
  <2>4. QED
    BY <2>1, <2>2, <2>3
<1>3. QED
  BY <1>2 DEF TellInv

(* What the one check of a user under way knows. *)
LEMMA OnceNow ==
  ASSUME RouterInv, ~overlap, ~forgot, NEW c \in Calls, NEW u \in Callers, u = call[c].user,
         call[c].pc \in {"flags"} \cup Late, NEW k \in Kinds
  PROVE  /\ Checking(u) = {c}
         /\ \A m \in Months : told[u][m][k] <= 1
         /\ told[u][month][k] > 0 => Flagged(u, k) \/ (call[c].month = month /\ call[c].pc = Setting(k))
         /\ call[c].pc \in Untold(k) /\ k \notin call[c].sent => told[u][call[c].month][k] = 0
         /\ call[c].pc \in Late /\ call[c].month < month => told[u][month][k] = 0
<1>1. c \in Checking(u)
  BY DEF Checking, Late
<1>2. (\A d, e \in Checking(u) : d = e) /\ OnceOK(u, k)
  BY DEF RouterInv, OnceInv
<1>3. Checking(u) = {c}
  BY <1>1, <1>2
<1>4. QED
  BY <1>2, <1>3 DEF OnceOK

(* A step of a check keeps users from being told twice. *)
LEMMA OnceStep ==
  ASSUME RouterInv, NEW c \in Calls, NEW new \in Calling, call' = [call EXCEPT ![c] = new],
         UNCHANGED <<month, overlap, forgot>>,
         call[c].pc \in {"flags"} \cup Late, new.pc \in Late \cup {"done"},
         NEW u \in Callers, u = call[c].user, new.user = u,
         \A v \in Callers \ {u} : flag'[v] = flag[v] /\ shared'[v] = shared[v] /\ told'[v] = told[v],
         Redis => \A k \in Kinds : flag'[u][k] # 0 => <<k, flag'[u][k]>> \in shared'[u],
         \A m \in Months, k \in Kinds : m > month => told'[u][m][k] = 0,
         ~overlap /\ ~forgot =>
            \A k \in Kinds :
               /\ \A m \in Months : told'[u][m][k] <= 1
               /\ told'[u][month][k] > 0 => Flagged(u, k)' \/ (new.month = month /\ new.pc = Setting(k))
               /\ new.pc \in Untold(k) /\ k \notin new.sent => told'[u][new.month][k] = 0
               /\ new.pc \in Late /\ new.month < month => told'[u][month][k] = 0
  PROVE  OnceInv'
<1>1. call'[c] = new /\ \A d \in Calls \ {c} : call'[d] = call[d]
  BY CallMoves
<1>2. OnceInv
  BY DEF RouterInv
<1>3. \A v \in Callers \ {u} : Checking(v)' = Checking(v) /\ \A d \in Checking(v) : call'[d] = call[d]
  BY <1>1 DEF Checking, Late
<1>4. Checking(u)' \subseteq Checking(u) /\ (new.pc \in Late => c \in Checking(u)')
  BY <1>1 DEF Checking, Late
<1>5. /\ Redis => \A v \in Callers, k \in Kinds : flag'[v][k] # 0 => <<k, flag'[v][k]>> \in shared'[v]
      /\ \A v \in Callers, m \in Months, k \in Kinds : m > month' => told'[v][m][k] = 0
  BY <1>2 DEF OnceInv
<1>6. ~overlap' => \A v \in Callers : \A d, e \in Checking(v)' : d = e
  <2>1. ~overlap => \A v \in Callers : \A d, e \in Checking(v) : d = e
    BY <1>2 DEF OnceInv
  <2>2. QED
    BY <1>3, <1>4, <2>1
<1>7. ASSUME ~overlap', ~forgot', NEW v \in Callers, NEW k \in Kinds PROVE OnceOK(v, k)'
  <2>1. CASE v # u
    <3>1. OnceOK(v, k)
      BY <1>2, <1>7 DEF OnceInv
    <3>2. /\ Checking(v)' = Checking(v) /\ (\A d \in Checking(v) : call'[d] = call[d])
          /\ month' = month /\ flag'[v] = flag[v] /\ shared'[v] = shared[v] /\ told'[v] = told[v]
      BY <1>3, <2>1
    <3>3. QED
      BY <3>1, <3>2, OnceOther
  <2>2. CASE v = u
    <3>1. Checking(u) = {c}
      BY <1>7, OnceNow
    <3>2. \A d \in Checking(u)' : d = c
      BY <1>4, <3>1
    <3>3. /\ \A m \in Months : told'[u][m][k] <= 1
          /\ told'[u][month'][k] > 0 => Flagged(u, k)' \/ (new.month = month' /\ new.pc = Setting(k))
          /\ new.pc \in Untold(k) /\ k \notin new.sent => told'[u][new.month][k] = 0
          /\ new.pc \in Late /\ new.month < month' => told'[u][month'][k] = 0
      BY <1>7
    <3>4. new.pc = Setting(k) => c \in Checking(u)'
      BY <1>4 DEF Setting, Late
    <3>5. QED
      BY <1>1, <2>2, <3>2, <3>3, <3>4 DEF OnceOK
  <2>3. QED
    BY <2>1, <2>2
<1>8. QED
  BY <1>5, <1>6, <1>7 DEF OnceInv

(* What a check and the tables it reads hold. *)
LEMMA CheckFacts ==
  ASSUME RouterInv, NEW c \in Calls, call[c].pc \in {"flags"} \cup Late
  PROVE  /\ call \in [Calls -> Calling] /\ call[c] \in Calling /\ call[c].user \in Callers
         /\ month \in Months /\ Months = 1 .. 2 /\ month \in Nat
         /\ call[c].pc \in Late => call[c].month \in 1 .. month /\ call[c].month \in Months
         /\ call[c].sum \in Nat /\ call[c].sent \subseteq Kinds
         /\ spend \in [Callers -> [Months -> Nat]]
         /\ cached \in [Callers -> [sum : Nat, month : {0} \cup Months]]
         /\ flag \in [Callers -> [Kinds -> {0} \cup Months]]
         /\ shared \in [Callers -> SUBSET (Kinds \X Months)]
         /\ told \in [Callers -> [Months -> [Kinds -> Nat]]] /\ carried \in BOOLEAN
         /\ CheckTold(c) /\ FlagsTold /\ ToldTruly /\ SpendInv /\ OnceInv
         /\ \A v \in Callers, m \in Months, k \in Kinds : told[v][m][k] \in Nat /\ told[v][m][k] <= told[v][m][k]
<1>1. /\ call \in [Calls -> Calling] /\ call[c] \in Calling /\ CallOK(c) /\ CheckTold(c)
      /\ month \in Months /\ Months = 1 .. 2
  BY CallRecord
<1>2. call[c].pc \in Late => call[c].month \in 1 .. month /\ call[c].month \in Months
  BY <1>1 DEF CallOK
<1>3. call[c].user \in Callers /\ call[c].sum \in Nat /\ call[c].sent \subseteq Kinds
  BY <1>1 DEF CallOK, Calling
<1>4. told \in [Callers -> [Months -> [Kinds -> Nat]]]
  BY DEF RouterInv, RouterTyped
<1>5. \A v \in Callers, m \in Months, k \in Kinds : told[v][m][k] \in Nat /\ told[v][m][k] <= told[v][m][k]
  BY <1>4
<1>6. QED
  BY <1>1, <1>2, <1>3, <1>5 DEF RouterInv, RouterTyped, TellInv

(* Flags of earlier months are dropped, and those of this one read. *)
LEMMA ReadFlagsKeeps ==
  ASSUME RouterInv, NEW c \in Calls, ReadFlags(c)
  PROVE  RouterInv'
<1>1. call[c].pc = "flags"
  BY DEF ReadFlags
<1>2. /\ call \in [Calls -> Calling] /\ call[c] \in Calling /\ call[c].user \in Callers
      /\ month \in Months /\ Months = 1 .. 2 /\ month \in Nat
      /\ call[c].sum \in Nat
      /\ spend \in [Callers -> [Months -> Nat]]
      /\ cached \in [Callers -> [sum : Nat, month : {0} \cup Months]]
      /\ flag \in [Callers -> [Kinds -> {0} \cup Months]]
      /\ shared \in [Callers -> SUBSET (Kinds \X Months)]
      /\ told \in [Callers -> [Months -> [Kinds -> Nat]]] /\ carried \in BOOLEAN
      /\ FlagsTold /\ ToldTruly /\ SpendInv /\ OnceInv
      /\ \A v \in Callers, m \in Months, k \in Kinds : told[v][m][k] \in Nat /\ told[v][m][k] <= told[v][m][k]
  BY <1>1, CheckFacts
<1>3. PICK u : u = call[c].user
  OBVIOUS
<1>4. PICK kept : kept = Fresh(u)
  OBVIOUS
<1>5. PICK sent : sent = {k \in Kinds : _budget_flag_is_set(u, k)}
  OBVIOUS
<1>6. PICK new : new = [call[c] EXCEPT !.month = month, !.sent = sent,
                                       !.pc = IF sent = Kinds THEN "done" ELSE "spend"]
  OBVIOUS
<1>7. /\ flag' = [flag EXCEPT ![u] = kept] /\ call' = [call EXCEPT ![c] = new]
      /\ UNCHANGED <<userKey, instance, month, spend, cached, shared, told, overlap, carried, forgot, crossing>>
  BY <1>2, <1>3, <1>4, <1>5, <1>6 DEF ReadFlags
<1>8. /\ kept \in [Kinds -> {0} \cup Months]
      /\ \A k \in Kinds : kept[k] = IF flag[u][k] = month THEN month ELSE 0
  BY <1>2, <1>4 DEF Fresh
<1>9. sent \subseteq Kinds /\ \A k \in Kinds : k \in sent <=> Flagged(u, k)
  <2>1. \A k \in Kinds : kept[k] = month <=> flag[u][k] = month
    BY <1>2, <1>8
  <2>2. \A k \in Kinds : k \in sent <=> kept[k] = month \/ (Redis /\ <<k, month>> \in shared[u])
    BY <1>4, <1>5 DEF _budget_flag_is_set
  <2>3. QED
    BY <1>5, <2>1, <2>2 DEF Flagged
<1>10. /\ new \in Calling /\ new.month = month /\ new.sent = sent /\ new.pc \in {"done", "spend"}
       /\ new.user = u /\ new.key = call[c].key /\ new.only = call[c].only /\ new.tried = call[c].tried
  BY <1>2, <1>3, <1>6, <1>9 DEF Calling, Late
<1>11. call'[c] = new
  BY <1>7, <1>10, CallMoves
<1>12. u \in Callers /\ flag' \in [Callers -> [Kinds -> {0} \cup Months]] /\ flag'[u] = kept
       /\ \A v \in Callers \ {u} : flag'[v] = flag[v]
  BY <1>2, <1>3, <1>7, <1>8
<1>13. \A k \in Kinds : k \in sent => told[u][month][k] > 0
  <2> SUFFICES ASSUME NEW k \in Kinds, k \in sent PROVE told[u][month][k] > 0
    OBVIOUS
  <2>1. flag[u][k] = month \/ <<k, month>> \in shared[u]
    BY <1>9 DEF Flagged
  <2>2. CASE flag[u][k] = month
    <3>1. flag[u][k] # 0
      BY <1>2, <2>2
    <3>2. QED
      BY <1>2, <1>12, <2>2, <3>1 DEF FlagsTold
  <2>3. CASE <<k, month>> \in shared[u]
    <3>1. told[u][<<k, month>>[2]][<<k, month>>[1]] > 0
      BY <1>2, <1>12, <2>3 DEF FlagsTold
    <3>2. QED
      BY <3>1
  <2>4. QED
    BY <2>1, <2>2, <2>3
<1>14. TellInv'
  <2>1. FlagsTold'
    <3>1. ASSUME NEW v \in Callers, NEW k \in Kinds, flag'[v][k] # 0
          PROVE  flag'[v][k] = flag[v][k]
      BY <1>8, <1>12, <3>1
    <3>2. QED
      BY <1>2, <1>7, <3>1 DEF FlagsTold
  <2>2. ToldTruly'
    BY <1>2, <1>7 DEF ToldTruly
  <2>3. CheckTold(c)'
    <3>1. \A k \in new.sent : told'[new.user][new.month][k] > 0
      BY <1>7, <1>9, <1>10, <1>13
    <3>2. QED
      BY <1>10, <1>11, <3>1 DEF CheckTold, Late
  <2>4. \A v \in Callers, m \in Months, k \in Kinds :
            told'[v][m][k] \in Nat /\ told[v][m][k] <= told'[v][m][k]
    BY <1>2, <1>7
  <2>5. QED
    BY <1>2, <1>7, <1>10, <2>1, <2>2, <2>3, <2>4, TellStep
<1>15. OnceInv'
  <2>1. Redis => \A k \in Kinds : flag'[u][k] # 0 => <<k, flag'[u][k]>> \in shared'[u]
    <3>1. Redis => \A k \in Kinds : flag[u][k] # 0 => <<k, flag[u][k]>> \in shared[u]
      BY <1>2, <1>12 DEF OnceInv
    <3>2. \A k \in Kinds : flag'[u][k] # 0 => flag'[u][k] = flag[u][k]
      BY <1>8, <1>12
    <3>3. QED
      BY <1>7, <3>1, <3>2
  <2>2. \A m \in Months, k \in Kinds : m > month => told'[u][m][k] = 0
    BY <1>2, <1>7, <1>12 DEF OnceInv
  <2>3. ASSUME ~overlap, ~forgot, NEW k \in Kinds
        PROVE  /\ \A m \in Months : told'[u][m][k] <= 1
               /\ told'[u][month][k] > 0 => Flagged(u, k)' \/ (new.month = month /\ new.pc = Setting(k))
               /\ new.pc \in Untold(k) /\ k \notin new.sent => told'[u][new.month][k] = 0
               /\ new.pc \in Late /\ new.month < month => told'[u][month][k] = 0
    <3>1. /\ \A m \in Months : told[u][m][k] <= 1
          /\ told[u][month][k] > 0 => Flagged(u, k) \/ (call[c].month = month /\ call[c].pc = Setting(k))
      BY <1>1, <1>3, <1>12, <2>3, OnceNow
    <3>2. Flagged(u, k)' <=> Flagged(u, k)
      BY <1>2, <1>7, <1>8, <1>12 DEF Flagged
    <3>3. call[c].pc # Setting(k)
      BY <1>1 DEF Setting
    <3>4. k \notin sent => told[u][month][k] = 0
      <4>1. told[u][month][k] \in Nat
        BY <1>2, <1>12
      <4>2. QED
        BY <1>9, <3>1, <3>3, <4>1
    <3>5. ~(new.month < month)
      BY <1>2, <1>10
    <3>6. QED
      BY <1>7, <1>10, <3>1, <3>2, <3>3, <3>4, <3>5
  <2>4. \A v \in Callers \ {u} : flag'[v] = flag[v] /\ shared'[v] = shared[v] /\ told'[v] = told[v]
    BY <1>7, <1>12
  <2>5. UNCHANGED <<month, overlap, forgot>> /\ call[c].pc \in {"flags"} \cup Late
        /\ new.pc \in Late \cup {"done"}
    BY <1>1, <1>7, <1>10 DEF Late
  <2>6. ~overlap /\ ~forgot =>
            \A k \in Kinds :
               /\ \A m \in Months : told'[u][m][k] <= 1
               /\ told'[u][month][k] > 0 => Flagged(u, k)' \/ (new.month = month /\ new.pc = Setting(k))
               /\ new.pc \in Untold(k) /\ k \notin new.sent => told'[u][new.month][k] = 0
               /\ new.pc \in Late /\ new.month < month => told'[u][month][k] = 0
    BY <2>3
  <2>7. new \in Calling /\ call' = [call EXCEPT ![c] = new] /\ u \in Callers /\ u = call[c].user /\ new.user = u
    BY <1>3, <1>7, <1>10, <1>12
  <2>8. QED
    BY <2>1, <2>2, <2>4, <2>5, <2>6, <2>7, OnceStep
<1>16. new.pc \in Late \cup {"done"} /\ new.month \in 1 .. month
  BY <1>2, <1>10 DEF Late
<1>17. \A v \in Callers : cached'[v].month # 0 => cached'[v].sum <= spend[v][cached'[v].month]
  BY <1>2, <1>7 DEF SpendInv
<1>18. /\ cached' \in [Callers -> [sum : Nat, month : {0} \cup Months]]
       /\ shared' \in [Callers -> SUBSET (Kinds \X Months)]
       /\ told' \in [Callers -> [Months -> [Kinds -> Nat]]] /\ carried' \in BOOLEAN
       /\ UNCHANGED <<userKey, instance, month, spend, overlap, forgot, crossing>>
       /\ call[c].pc \in {"flags"} \cup Late /\ new.user = call[c].user
  BY <1>1, <1>2, <1>3, <1>7, <1>10, SMTT(30)
<1>19. QED
  BY <1>7, <1>10, <1>12, <1>14, <1>15, <1>16, <1>17, <1>18, CheckMoves

(* The sum is the cached one, or read and cached. *)
LEMMA ReadSpendKeeps ==
  ASSUME RouterInv, NEW c \in Calls, NEW hit \in BOOLEAN, ReadSpend(c, hit)
  PROVE  RouterInv'
<1>1. call[c].pc = "spend" /\ call[c].pc \in Late
  BY DEF ReadSpend, Late
<1>2. /\ call \in [Calls -> Calling] /\ call[c] \in Calling /\ call[c].user \in Callers
      /\ month \in Months /\ Months = 1 .. 2 /\ month \in Nat
      /\ call[c].month \in 1 .. month /\ call[c].month \in Months
      /\ spend \in [Callers -> [Months -> Nat]]
      /\ cached \in [Callers -> [sum : Nat, month : {0} \cup Months]]
      /\ flag \in [Callers -> [Kinds -> {0} \cup Months]]
      /\ shared \in [Callers -> SUBSET (Kinds \X Months)]
      /\ told \in [Callers -> [Months -> [Kinds -> Nat]]] /\ carried \in BOOLEAN
      /\ CheckTold(c) /\ FlagsTold /\ ToldTruly /\ SpendInv /\ OnceInv
      /\ \A v \in Callers, m \in Months, k \in Kinds : told[v][m][k] \in Nat /\ told[v][m][k] <= told[v][m][k]
  BY <1>1, CheckFacts
<1>3. PICK u : u = call[c].user
  OBVIOUS
<1>4. PICK sum : sum = cached'[u].sum
  OBVIOUS
<1>5. PICK new : new = [call[c] EXCEPT !.pc = "warn", !.sum = sum]
  OBVIOUS
<1>6. /\ hit => cached[u].month # 0
      /\ cached' = IF hit THEN cached
                   ELSE [cached EXCEPT ![u] = [sum |-> spend[u][call[c].month], month |-> call[c].month]]
      /\ call' = [call EXCEPT ![c] = new]
      /\ carried' = (carried \/ cached'[u].month # call[c].month)
      /\ UNCHANGED <<userKey, instance, month, spend, flag, shared, told, overlap, forgot, crossing>>
  BY <1>2, <1>3, <1>4, <1>5 DEF ReadSpend, MonthlySum
<1>7. /\ u \in Callers /\ cached' \in [Callers -> [sum : Nat, month : {0} \cup Months]]
      /\ \A v \in Callers : cached'[v].month # 0 => cached'[v].sum <= spend[v][cached'[v].month]
  <2>1. u \in Callers /\ spend[u][call[c].month] \in Nat
    BY <1>2, <1>3
  <2>2. CASE hit
    BY <1>2, <1>6, <2>1, <2>2 DEF SpendInv
  <2>3. CASE ~hit
    <3>1. cached' \in [Callers -> [sum : Nat, month : {0} \cup Months]]
      BY <1>2, <1>6, <2>1, <2>3
    <3>2. /\ cached'[u].sum = spend[u][call[c].month] /\ cached'[u].month = call[c].month
          /\ \A v \in Callers \ {u} : cached'[v] = cached[v]
      BY <1>2, <1>6, <2>1, <2>3
    <3>3. cached'[u].sum <= spend[u][cached'[u].month]
      BY <2>1, <3>2
    <3>4. \A v \in Callers \ {u} : cached'[v].month # 0 => cached'[v].sum <= spend[v][cached'[v].month]
      BY <1>2, <3>2 DEF SpendInv
    <3>5. QED
      BY <2>1, <3>1, <3>3, <3>4
  <2>4. QED
    BY <2>2, <2>3
<1>8. sum \in Nat
  BY <1>4, <1>7
<1>9. /\ new \in Calling /\ new.pc = "warn" /\ new.sum = sum /\ new.sent = call[c].sent
      /\ new.month = call[c].month
      /\ new.user = u /\ new.key = call[c].key /\ new.only = call[c].only /\ new.tried = call[c].tried
  BY <1>2, <1>3, <1>5, <1>8 DEF Calling, Late
<1>10. call'[c] = new
  BY <1>6, <1>9, CallMoves
<1>11. carried' \in BOOLEAN /\ (carried => carried')
  BY <1>2, <1>6
<1>12. TellInv'
  <2>1. FlagsTold' /\ ToldTruly'
    BY <1>2, <1>6, <1>11 DEF FlagsTold, ToldTruly
  <2>2. CheckTold(c)'
    <3>1. \A k \in call[c].sent : told[u][call[c].month][k] > 0
      BY <1>1, <1>2, <1>3 DEF CheckTold
    <3>2. ~carried' => sum <= spend[u][call[c].month]
      <4>1. ~carried' => cached'[u].month = call[c].month
        BY <1>6
      <4>2. call[c].month # 0
        BY <1>2
      <4>3. QED
        BY <1>4, <1>7, <4>1, <4>2
    <3>3. QED
      BY <1>6, <1>9, <1>10, <3>1, <3>2 DEF CheckTold
  <2>3. \A v \in Callers, m \in Months, k \in Kinds :
            told'[v][m][k] \in Nat /\ told[v][m][k] <= told'[v][m][k]
    BY <1>2, <1>6
  <2>4. QED
    BY <1>6, <1>9, <1>11, <2>1, <2>2, <2>3, TellStep
<1>13. OnceInv'
  <2>1. /\ Redis => \A k \in Kinds : flag'[u][k] # 0 => <<k, flag'[u][k]>> \in shared'[u]
        /\ \A m \in Months, k \in Kinds : m > month => told'[u][m][k] = 0
    BY <1>2, <1>6, <1>7 DEF OnceInv
  <2>2. ASSUME ~overlap, ~forgot, NEW k \in Kinds
        PROVE  /\ \A m \in Months : told'[u][m][k] <= 1
               /\ told'[u][month][k] > 0 => Flagged(u, k)' \/ (new.month = month /\ new.pc = Setting(k))
               /\ new.pc \in Untold(k) /\ k \notin new.sent => told'[u][new.month][k] = 0
               /\ new.pc \in Late /\ new.month < month => told'[u][month][k] = 0
    <3>1. /\ \A m \in Months : told[u][m][k] <= 1
          /\ told[u][month][k] > 0 => Flagged(u, k) \/ (call[c].month = month /\ call[c].pc = Setting(k))
          /\ call[c].pc \in Untold(k) /\ k \notin call[c].sent => told[u][call[c].month][k] = 0
          /\ call[c].pc \in Late /\ call[c].month < month => told[u][month][k] = 0
      BY <1>1, <1>3, <1>7, <2>2, OnceNow
    <3>2. (Flagged(u, k)' <=> Flagged(u, k)) /\ call[c].pc # Setting(k) /\ call[c].pc \in Untold(k)
      BY <1>1, <1>6 DEF Flagged, Setting, Untold
    <3>3. QED
      BY <1>1, <1>6, <1>9, <3>1, <3>2
  <2>3. \A v \in Callers \ {u} : flag'[v] = flag[v] /\ shared'[v] = shared[v] /\ told'[v] = told[v]
    BY <1>6
  <2>4. UNCHANGED <<month, overlap, forgot>> /\ call[c].pc \in {"flags"} \cup Late
        /\ new.pc \in Late \cup {"done"}
    BY <1>1, <1>6, <1>9 DEF Late
  <2>5. ~overlap /\ ~forgot =>
            \A k \in Kinds :
               /\ \A m \in Months : told'[u][m][k] <= 1
               /\ told'[u][month][k] > 0 => Flagged(u, k)' \/ (new.month = month /\ new.pc = Setting(k))
               /\ new.pc \in Untold(k) /\ k \notin new.sent => told'[u][new.month][k] = 0
               /\ new.pc \in Late /\ new.month < month => told'[u][month][k] = 0
    BY <2>2
  <2>6. new \in Calling /\ call' = [call EXCEPT ![c] = new] /\ u \in Callers /\ u = call[c].user /\ new.user = u
    BY <1>3, <1>6, <1>7, <1>9
  <2>7. QED
    BY <2>1, <2>3, <2>4, <2>5, <2>6, OnceStep
<1>14. new.pc \in Late \cup {"done"} /\ new.month \in 1 .. month
  BY <1>2, <1>9 DEF Late
<1>15. /\ flag' \in [Callers -> [Kinds -> {0} \cup Months]]
       /\ shared' \in [Callers -> SUBSET (Kinds \X Months)]
       /\ told' \in [Callers -> [Months -> [Kinds -> Nat]]]
       /\ UNCHANGED <<userKey, instance, month, spend, overlap, forgot, crossing>>
       /\ call[c].pc \in {"flags"} \cup Late /\ new.user = call[c].user
  BY <1>1, <1>2, <1>3, <1>6, <1>9
<1>16. QED
  BY <1>6, <1>7, <1>9, <1>11, <1>12, <1>13, <1>14, <1>15, CheckMoves

(* A step that changes nothing but a check's place, what was told, and flags. *)
LEMMA NotifyMoves ==
  ASSUME RouterInv, NEW c \in Calls, NEW new \in Calling, call' = [call EXCEPT ![c] = new],
         UNCHANGED <<userKey, instance, month, spend, cached, overlap, carried, forgot, crossing>>,
         call[c].pc \in Late, new.pc \in Late \cup {"done"},
         new.user = call[c].user, new.key = call[c].key, new.only = call[c].only, new.tried = call[c].tried,
         new.month = call[c].month,
         flag' \in [Callers -> [Kinds -> {0} \cup Months]],
         shared' \in [Callers -> SUBSET (Kinds \X Months)],
         told' \in [Callers -> [Months -> [Kinds -> Nat]]],
         TellInv', OnceInv'
  PROVE  RouterInv'
<1>1. call[c].month \in 1 .. month /\ SpendInv
      /\ cached \in [Callers -> [sum : Nat, month : {0} \cup Months]] /\ carried \in BOOLEAN
  BY CheckFacts
<1>2. /\ cached' \in [Callers -> [sum : Nat, month : {0} \cup Months]] /\ carried' \in BOOLEAN
      /\ new.pc \in Late => new.month \in 1 .. month
      /\ call[c].pc \in {"flags"} \cup Late
      /\ UNCHANGED <<userKey, instance, month, spend, overlap, forgot, crossing>>
  BY <1>1
<1>3. \A v \in Callers : cached'[v].month # 0 => cached'[v].sum <= spend[v][cached'[v].month]
  BY <1>1 DEF SpendInv
<1>4. QED
  BY <1>2, <1>3, CheckMoves

(* The steps of a notification: what kind it is and where the check stands. *)
Notifies(k, from, due, skip) ==
    \/ k = "warning" /\ from = "warn" /\ due = "warned" /\ skip = "exceed"
    \/ k = "exceeded" /\ from = "exceed" /\ due = "exceeded" /\ skip = "done"

(* A notification goes out if it is due. *)
LEMMA EmitKeeps ==
  ASSUME RouterInv, NEW c \in Calls, NEW k \in Kinds, NEW from, NEW due, NEW skip,
         Notifies(k, from, due, skip), Emit(c, k, from, due, skip)
  PROVE  RouterInv'
<1>1. /\ call[c].pc = from /\ call[c].pc \in Late /\ {due, skip} \subseteq Late \cup {"done"}
      /\ k = "warning" => from = "warn" /\ due = "warned" /\ skip = "exceed"
      /\ k # "warning" => k = "exceeded" /\ from = "exceed" /\ due = "exceeded" /\ skip = "done"
  BY DEF Notifies, Emit, Late
<1>2. /\ call \in [Calls -> Calling] /\ call[c] \in Calling /\ call[c].user \in Callers
      /\ month \in Months /\ Months = 1 .. 2 /\ month \in Nat
      /\ call[c].month \in 1 .. month /\ call[c].month \in Months
      /\ call[c].sum \in Nat /\ call[c].sent \subseteq Kinds
      /\ spend \in [Callers -> [Months -> Nat]]
      /\ flag \in [Callers -> [Kinds -> {0} \cup Months]]
      /\ shared \in [Callers -> SUBSET (Kinds \X Months)]
      /\ told \in [Callers -> [Months -> [Kinds -> Nat]]]
      /\ CheckTold(c) /\ FlagsTold /\ ToldTruly /\ OnceInv
      /\ \A v \in Callers, j \in Months, i \in Kinds : told[v][j][i] \in Nat
  BY <1>1, CheckFacts
<1>3. PICK u : u = call[c].user
  OBVIOUS
<1>4. PICK m : m = call[c].month
  OBVIOUS
<1>5. PICK isDue \in BOOLEAN : isDue = Due(c, k)
  BY DEF Due
<1>6. PICK new : new = [call[c] EXCEPT !.pc = IF isDue THEN due ELSE skip]
  OBVIOUS
<1>7. /\ call' = [call EXCEPT ![c] = new]
      /\ told' = IF isDue THEN [told EXCEPT ![u][m][k] = @ + 1] ELSE told
      /\ UNCHANGED <<userKey, instance, month, spend, cached, flag, shared, overlap, carried, forgot, crossing>>
  BY <1>2, <1>3, <1>4, <1>5, <1>6 DEF Emit
<1>8. /\ new \in Calling /\ new.pc = (IF isDue THEN due ELSE skip) /\ new.sent = call[c].sent
      /\ new.sum = call[c].sum /\ new.month = m
      /\ new.user = u /\ new.key = call[c].key /\ new.only = call[c].only /\ new.tried = call[c].tried
  BY <1>1, <1>2, <1>3, <1>4, <1>6 DEF Calling, Late
<1>9. call'[c] = new
  BY <1>7, <1>8, CallMoves
<1>10. u \in Callers /\ m \in Months /\ m \in 1 .. month /\ m <= month
  BY <1>2, <1>3, <1>4
<1>11. /\ told' \in [Callers -> [Months -> [Kinds -> Nat]]]
       /\ \A v \in Callers, j \in Months, i \in Kinds :
             v # u \/ j # m \/ i # k \/ ~isDue => told'[v][j][i] = told[v][j][i]
       /\ isDue => told'[u][m][k] = told[u][m][k] + 1
       /\ \A v \in Callers \ {u} : told'[v] = told[v]
  <2>1. CASE isDue
    BY <1>2, <1>7, <1>10, <2>1
  <2>2. CASE ~isDue
    BY <1>2, <1>7, <2>2
  <2>3. QED
    BY <2>1, <2>2
<1>12. \A v \in Callers, j \in Months, i \in Kinds :
          told'[v][j][i] \in Nat /\ told[v][j][i] <= told'[v][j][i]
  <2> SUFFICES ASSUME NEW v \in Callers, NEW j \in Months, NEW i \in Kinds
               PROVE  told'[v][j][i] \in Nat /\ told[v][j][i] <= told'[v][j][i]
    OBVIOUS
  <2>1. told[v][j][i] \in Nat
    BY <1>2
  <2>2. told'[v][j][i] = told[v][j][i] \/ told'[v][j][i] = told[v][j][i] + 1
    BY <1>11
  <2>3. QED
    BY <2>1, <2>2
<1>13. \A v \in Callers, j \in Months, i \in Kinds : told[v][j][i] > 0 => told'[v][j][i] > 0
  BY <1>2, <1>12
<1>14. "warning" \in Kinds /\ "exceeded" \in Kinds /\ Kinds = {"warning", "exceeded"}
  BY DEF Kinds
<1>15. PICK said : said = told[u][m]
  OBVIOUS
<1>16. PICK now : now = told'[u][m]
  OBVIOUS
<1>17. /\ \A i \in call[c].sent : said[i] > 0
       /\ from = "exceed" => said["warning"] > 0 \/ call[c].sum < Warn
       /\ ~carried => call[c].sum <= spend[u][m]
  BY <1>1, <1>2, <1>3, <1>4, <1>15 DEF CheckTold
<1>18. /\ isDue => k \notin call[c].sent /\ call[c].sum >= (IF k = "warning" THEN Warn ELSE Budget)
       /\ ~isDue => k \in call[c].sent \/ ~(call[c].sum >= (IF k = "warning" THEN Warn ELSE Budget))
  BY <1>5 DEF Due
<1>19. /\ \A i \in Kinds : said[i] \in Nat /\ now[i] \in Nat /\ (said[i] > 0 => now[i] > 0)
       /\ isDue => now[k] > 0
       /\ \A i \in Kinds : i # k \/ ~isDue => now[i] = said[i]
  <2>1. \A i \in Kinds : said[i] \in Nat /\ now[i] \in Nat /\ (said[i] > 0 => now[i] > 0)
    BY <1>2, <1>10, <1>12, <1>13, <1>15, <1>16
  <2>2. isDue => now[k] = said[k] + 1
    BY <1>11, <1>15, <1>16
  <2>3. \A i \in Kinds : i # k \/ ~isDue => now[i] = said[i]
    BY <1>10, <1>11, <1>15, <1>16
  <2>4. QED
    BY <2>1, <2>2, <2>3
<1>20. Warn \in Nat /\ Budget \in Nat /\ Warn <= Budget /\ spend[u][m] \in Nat
  BY <1>2, <1>10, RouterAssumption
<1>21. k = "exceeded" /\ isDue => said["warning"] > 0
  <2>1. k = "exceeded" /\ isDue => call[c].sum >= Budget
    BY <1>18
  <2>2. QED
    BY <1>1, <1>2, <1>17, <1>20, <2>1
<1>22. TellInv'
  <2>1. FlagsTold'
    <3>1. ASSUME NEW v \in Callers, NEW i \in Kinds, flag[v][i] # 0 PROVE told'[v][flag[v][i]][i] > 0
      <4>1. flag[v][i] \in Months /\ told[v][flag[v][i]][i] > 0
        BY <1>2, <3>1 DEF FlagsTold
      <4>2. QED
        BY <1>13, <4>1
    <3>2. ASSUME NEW v \in Callers, NEW x \in shared[v] PROVE told'[v][x[2]][x[1]] > 0
      <4>1. x[1] \in Kinds /\ x[2] \in Months /\ told[v][x[2]][x[1]] > 0
        BY <1>2, <3>2 DEF FlagsTold
      <4>2. QED
        BY <1>13, <4>1
    <3>3. QED
      BY <1>7, <3>1, <3>2 DEF FlagsTold
  <2>2. ToldTruly'
    <3>1. ASSUME NEW v \in Callers, NEW j \in Months
          PROVE  /\ ~carried /\ told'[v][j]["warning"] > 0 => spend[v][j] >= Warn
                 /\ ~carried /\ told'[v][j]["exceeded"] > 0 => spend[v][j] >= Budget
                 /\ told'[v][j]["exceeded"] > 0 => told'[v][j]["warning"] > 0
      <4>1. /\ ~carried /\ told[v][j]["warning"] > 0 => spend[v][j] >= Warn
            /\ ~carried /\ told[v][j]["exceeded"] > 0 => spend[v][j] >= Budget
            /\ told[v][j]["exceeded"] > 0 => told[v][j]["warning"] > 0
        BY <1>2 DEF ToldTruly
      <4>2. CASE v # u \/ j # m \/ ~isDue
        <5>1. told'[v][j]["warning"] = told[v][j]["warning"] /\ told'[v][j]["exceeded"] = told[v][j]["exceeded"]
          BY <1>11, <1>14, <4>2
        <5>2. QED
          BY <4>1, <5>1
      <4>3. CASE v = u /\ j = m /\ isDue
        <5>1. ~carried => spend[u][m] >= (IF k = "warning" THEN Warn ELSE Budget)
          BY <1>2, <1>17, <1>18, <1>20, <4>3
        <5>2. CASE k = "warning"
          <6>1. now["warning"] > 0 /\ now["exceeded"] = said["exceeded"]
            BY <1>14, <1>19, <4>3, <5>2
          <6>2. QED
            BY <1>15, <1>16, <4>1, <4>3, <5>1, <5>2, <6>1
        <5>3. CASE k = "exceeded"
          <6>1. now["warning"] = said["warning"] /\ said["warning"] > 0
            BY <1>14, <1>19, <1>21, <4>3, <5>3
          <6>2. QED
            BY <1>15, <1>16, <4>1, <4>3, <5>1, <5>3, <6>1
        <5>4. QED
          BY <1>14, <5>2, <5>3
      <4>4. QED
        BY <4>2, <4>3
    <3>2. QED
      BY <1>7, <3>1 DEF ToldTruly
  <2>3. CheckTold(c)'
    <3>1. \A i \in new.sent : now[i] > 0
      BY <1>2, <1>8, <1>17, <1>19
    <3>2. new.pc = "warned" => now["warning"] > 0
      BY <1>1, <1>8, <1>19
    <3>3. new.pc = "exceeded" => now["exceeded"] > 0
      BY <1>1, <1>8, <1>19
    <3>4. new.pc \in {"exceed", "exceeded"} => now["warning"] > 0 \/ new.sum < Warn
      <4>1. CASE k = "warning"
        BY <1>1, <1>2, <1>8, <1>14, <1>17, <1>18, <1>19, <1>20, <4>1
      <4>2. CASE k # "warning"
        BY <1>1, <1>8, <1>14, <1>17, <1>19, <4>2
      <4>3. QED
        BY <4>1, <4>2
    <3>5. now = told'[new.user][new.month]
      BY <1>8, <1>16
    <3>6. ~carried => new.sum <= spend[new.user][new.month]
      BY <1>8, <1>17
    <3>7. QED
      BY <1>7, <1>9, <3>1, <3>2, <3>3, <3>4, <3>5, <3>6 DEF CheckTold
  <2>4. UNCHANGED <<month, spend>> /\ (carried => carried') /\ carried' \in BOOLEAN
    BY <1>7 DEF RouterInv, RouterTyped
  <2>5. QED
    BY <1>7, <1>8, <1>12, <2>1, <2>2, <2>3, <2>4, TellStep
<1>23. OnceInv'
  <2>1. /\ Redis => \A i \in Kinds : flag'[u][i] # 0 => <<i, flag'[u][i]>> \in shared'[u]
    BY <1>2, <1>7, <1>10 DEF OnceInv
  <2>2. \A j \in Months, i \in Kinds : j > month => told'[u][j][i] = 0
    <3>1. \A j \in Months, i \in Kinds : j > month => told[u][j][i] = 0
      BY <1>2, <1>10 DEF OnceInv
    <3>2. \A j \in Months : j > month => j # m
      BY <1>2, <1>10
    <3>3. QED
      BY <1>10, <1>11, <3>1, <3>2
  <2>3. ASSUME ~overlap, ~forgot, NEW i \in Kinds
        PROVE  /\ \A j \in Months : told'[u][j][i] <= 1
               /\ told'[u][month][i] > 0 => Flagged(u, i)' \/ (new.month = month /\ new.pc = Setting(i))
               /\ new.pc \in Untold(i) /\ i \notin new.sent => told'[u][new.month][i] = 0
               /\ new.pc \in Late /\ new.month < month => told'[u][month][i] = 0
    <3>1. /\ \A j \in Months : told[u][j][i] <= 1
          /\ told[u][month][i] > 0 => Flagged(u, i) \/ (call[c].month = month /\ call[c].pc = Setting(i))
          /\ call[c].pc \in Untold(i) /\ i \notin call[c].sent => told[u][call[c].month][i] = 0
          /\ call[c].pc \in Late /\ call[c].month < month => told[u][month][i] = 0
      BY <1>1, <1>3, <1>10, <2>3, OnceNow
    <3>2. (Flagged(u, i)' <=> Flagged(u, i)) /\ call[c].pc # Setting(i)
      BY <1>1, <1>7 DEF Flagged, Setting
    <3>3. CASE i = k /\ isDue
      <4>1. call[c].pc \in Untold(k) /\ k \notin call[c].sent
        BY <1>1, <1>18, <3>3 DEF Untold
      <4>2. told[u][m][k] = 0 /\ told'[u][m][k] = 1
        BY <1>4, <1>11, <3>1, <3>3, <4>1
      <4>3. \A j \in Months : told'[u][j][k] <= 1
        BY <1>10, <1>11, <3>1, <3>3, <4>2
      <4>4. new.pc = Setting(k) /\ new.pc \notin Untold(k)
        BY <1>1, <1>8, <1>14, <3>3 DEF Setting, Untold
      <4>5. m < month => told'[u][month][k] = 0
        <5>1. m < month => m # month
          BY <1>2, <1>10
        <5>2. QED
          BY <1>1, <1>2, <1>4, <1>10, <1>11, <3>1, <3>3, <5>1
      <4>6. m # month => m < month
        BY <1>2, <1>10
      <4>7. QED
        BY <1>8, <3>3, <4>3, <4>4, <4>5, <4>6
    <3>4. CASE ~(i = k /\ isDue)
      <4>1. \A j \in Months : told'[u][j][i] = told[u][j][i]
        BY <1>10, <1>11, <3>4
      <4>2. new.pc \in Untold(i) => call[c].pc \in Untold(i)
        BY <1>1, <1>8, <1>14 DEF Untold
      <4>3. QED
        BY <1>1, <1>2, <1>4, <1>8, <1>10, <3>1, <3>2, <4>1, <4>2
    <3>5. QED
      BY <3>3, <3>4
  <2>4. ~overlap /\ ~forgot =>
            \A i \in Kinds :
               /\ \A j \in Months : told'[u][j][i] <= 1
               /\ told'[u][month][i] > 0 => Flagged(u, i)' \/ (new.month = month /\ new.pc = Setting(i))
               /\ new.pc \in Untold(i) /\ i \notin new.sent => told'[u][new.month][i] = 0
               /\ new.pc \in Late /\ new.month < month => told'[u][month][i] = 0
    BY <2>3
  <2>5. \A v \in Callers \ {u} : flag'[v] = flag[v] /\ shared'[v] = shared[v] /\ told'[v] = told[v]
    BY <1>7, <1>11
  <2>6. UNCHANGED <<month, overlap, forgot>> /\ call[c].pc \in {"flags"} \cup Late
        /\ new.pc \in Late \cup {"done"}
    BY <1>1, <1>7, <1>8
  <2>7. new \in Calling /\ call' = [call EXCEPT ![c] = new] /\ u \in Callers /\ u = call[c].user /\ new.user = u
    BY <1>3, <1>7, <1>8, <1>10
  <2>8. QED
    BY <2>1, <2>2, <2>4, <2>5, <2>6, <2>7, OnceStep
<1>24. /\ flag' \in [Callers -> [Kinds -> {0} \cup Months]]
       /\ shared' \in [Callers -> SUBSET (Kinds \X Months)]
       /\ UNCHANGED <<userKey, instance, month, spend, cached, overlap, carried, forgot, crossing>>
       /\ call[c].pc \in Late /\ new.pc \in Late \cup {"done"}
       /\ new.user = call[c].user /\ new.month = call[c].month
  BY <1>1, <1>2, <1>3, <1>4, <1>7, <1>8
<1>25. QED
  BY <1>7, <1>8, <1>11, <1>22, <1>23, <1>24, NotifyMoves

(* The flag of a notification that went out is set. *)
LEMMA SetFlagKeeps ==
  ASSUME RouterInv, NEW c \in Calls, NEW k \in Kinds, NEW from, NEW to,
         \E ready \in {"warn", "exceed"} : Notifies(k, ready, from, to), SetFlag(c, k, from, to)
  PROVE  RouterInv'
<1>1. /\ call[c].pc = from /\ call[c].pc \in Late /\ to \in Late \cup {"done"}
      /\ k = "warning" => from = "warned" /\ to = "exceed"
      /\ k # "warning" => k = "exceeded" /\ from = "exceeded" /\ to = "done"
  BY DEF Notifies, SetFlag, Late
<1>2. /\ call \in [Calls -> Calling] /\ call[c] \in Calling /\ call[c].user \in Callers
      /\ month \in Months /\ Months = 1 .. 2 /\ month \in Nat
      /\ call[c].month \in 1 .. month /\ call[c].month \in Months
      /\ call[c].sum \in Nat /\ call[c].sent \subseteq Kinds
      /\ flag \in [Callers -> [Kinds -> {0} \cup Months]]
      /\ shared \in [Callers -> SUBSET (Kinds \X Months)]
      /\ told \in [Callers -> [Months -> [Kinds -> Nat]]]
      /\ CheckTold(c) /\ FlagsTold /\ ToldTruly /\ OnceInv
      /\ \A v \in Callers, j \in Months, i \in Kinds : told[v][j][i] \in Nat /\ told[v][j][i] <= told[v][j][i]
  BY <1>1, CheckFacts
<1>3. PICK u : u = call[c].user
  OBVIOUS
<1>4. PICK m : m = call[c].month
  OBVIOUS
<1>5. PICK new : new = [call[c] EXCEPT !.pc = to]
  OBVIOUS
<1>6. /\ call' = [call EXCEPT ![c] = new]
      /\ flag' = [flag EXCEPT ![u][k] = m]
      /\ shared' = IF Redis THEN [shared EXCEPT ![u] = shared[u] \cup {<<k, m>>}] ELSE shared
      /\ UNCHANGED <<userKey, instance, month, spend, cached, told, overlap, carried, forgot, crossing>>
  BY <1>2, <1>3, <1>4, <1>5 DEF SetFlag, _set_budget_flag
<1>7. /\ new \in Calling /\ new.pc = to /\ new.sent = call[c].sent
      /\ new.sum = call[c].sum /\ new.month = m
      /\ new.user = u /\ new.key = call[c].key /\ new.only = call[c].only /\ new.tried = call[c].tried
  BY <1>1, <1>2, <1>3, <1>4, <1>5 DEF Calling, Late
<1>8. call'[c] = new
  BY <1>6, <1>7, CallMoves
<1>9. u \in Callers /\ m \in Months /\ m <= month /\ m # 0
  BY <1>2, <1>3, <1>4
<1>10. /\ flag' \in [Callers -> [Kinds -> {0} \cup Months]] /\ flag'[u][k] = m
       /\ \A v \in Callers, i \in Kinds : v # u \/ i # k => flag'[v][i] = flag[v][i]
       /\ \A v \in Callers \ {u} : flag'[v] = flag[v]
  BY <1>2, <1>6, <1>9
<1>11. /\ shared' \in [Callers -> SUBSET (Kinds \X Months)]
       /\ \A v \in Callers \ {u} : shared'[v] = shared[v]
       /\ shared[u] \subseteq shared'[u] /\ shared'[u] \subseteq shared[u] \cup {<<k, m>>}
       /\ Redis => <<k, m>> \in shared'[u]
  <2>1. CASE Redis
    <3>1. <<k, m>> \in Kinds \X Months
      BY <1>9
    <3>2. QED
      BY <1>2, <1>6, <1>9, <2>1, <3>1
  <2>2. CASE ~Redis
    BY <1>2, <1>6, <1>9, <2>2
  <2>3. QED
    BY <2>1, <2>2
<1>12. /\ told[u][m][k] > 0
       /\ \A i \in call[c].sent : told[u][m][i] > 0
       /\ k = "warning" => told[u][m]["warning"] > 0
       /\ ~carried => call[c].sum <= spend[u][m]
  BY <1>1, <1>2, <1>3, <1>4 DEF CheckTold
<1>13. TellInv'
  <2>1. FlagsTold'
    <3>1. ASSUME NEW v \in Callers, NEW i \in Kinds, flag'[v][i] # 0 PROVE told[v][flag'[v][i]][i] > 0
      <4>1. CASE v = u /\ i = k
        BY <1>10, <1>12, <4>1
      <4>2. CASE v # u \/ i # k
        <5>1. flag'[v][i] = flag[v][i]
          BY <1>10, <4>2
        <5>2. QED
          BY <1>2, <3>1, <5>1 DEF FlagsTold
      <4>3. QED
        BY <4>1, <4>2
    <3>2. ASSUME NEW v \in Callers, NEW x \in shared'[v] PROVE told[v][x[2]][x[1]] > 0
      <4>1. CASE x \in shared[v]
        BY <1>2, <4>1 DEF FlagsTold
      <4>2. CASE x \notin shared[v]
        <5>1. v = u /\ x = <<k, m>>
          BY <1>11, <3>2, <4>2
        <5>2. QED
          BY <1>12, <5>1
      <4>3. QED
        BY <4>1, <4>2
    <3>3. QED
      BY <1>6, <3>1, <3>2 DEF FlagsTold
  <2>2. ToldTruly'
    BY <1>2, <1>6 DEF ToldTruly
  <2>3. CheckTold(c)'
    <3>1. \A i \in new.sent : told'[new.user][new.month][i] > 0
      BY <1>6, <1>7, <1>12
    <3>2. new.pc \in Late => new.pc = "exceed" /\ told'[new.user][new.month]["warning"] > 0
      BY <1>1, <1>6, <1>7, <1>12 DEF Late
    <3>3. ~carried' => new.sum <= spend'[new.user][new.month]
      BY <1>6, <1>7, <1>12
    <3>4. QED
      BY <1>8, <3>1, <3>2, <3>3 DEF CheckTold
  <2>4. UNCHANGED <<month, spend>> /\ (carried => carried') /\ carried' \in BOOLEAN
    BY <1>6 DEF RouterInv, RouterTyped
  <2>5. \A v \in Callers, j \in Months, i \in Kinds :
            told'[v][j][i] \in Nat /\ told[v][j][i] <= told'[v][j][i]
    BY <1>2, <1>6
  <2>6. QED
    BY <1>6, <1>7, <2>1, <2>2, <2>3, <2>4, <2>5, TellStep
<1>14. OnceInv'
  <2>1. Redis => \A i \in Kinds : flag'[u][i] # 0 => <<i, flag'[u][i]>> \in shared'[u]
    <3>1. Redis => \A i \in Kinds : flag[u][i] # 0 => <<i, flag[u][i]>> \in shared[u]
      BY <1>2, <1>9 DEF OnceInv
    <3>2. QED
      BY <1>9, <1>10, <1>11, <3>1
  <2>2. \A j \in Months, i \in Kinds : j > month => told'[u][j][i] = 0
    BY <1>2, <1>6, <1>9 DEF OnceInv
  <2>3. ASSUME ~overlap, ~forgot, NEW i \in Kinds
        PROVE  /\ \A j \in Months : told'[u][j][i] <= 1
               /\ told'[u][month][i] > 0 => Flagged(u, i)' \/ (new.month = month /\ new.pc = Setting(i))
               /\ new.pc \in Untold(i) /\ i \notin new.sent => told'[u][new.month][i] = 0
               /\ new.pc \in Late /\ new.month < month => told'[u][month][i] = 0
    <3>1. /\ \A j \in Months : told[u][j][i] <= 1
          /\ told[u][month][i] > 0 => Flagged(u, i) \/ (call[c].month = month /\ call[c].pc = Setting(i))
          /\ call[c].pc \in Untold(i) /\ i \notin call[c].sent => told[u][call[c].month][i] = 0
          /\ call[c].pc \in Late /\ call[c].month < month => told[u][month][i] = 0
      BY <1>1, <1>3, <1>9, <2>3, OnceNow
    <3>2. told[u][month][i] > 0 => Flagged(u, i)'
      <4>1. CASE i = k
        <5>1. m = month \/ m < month
          BY <1>2, <1>9
        <5>2. told[u][month][k] > 0 => m = month
          BY <1>1, <1>2, <1>4, <1>9, <3>1, <4>1, <5>1
        <5>3. QED
          BY <1>6, <1>10, <4>1, <5>2 DEF Flagged
      <4>2. CASE i # k
        <5>1. call[c].pc # Setting(i)
          BY <1>1, <4>2 DEF Setting, Kinds
        <5>2. Flagged(u, i) => Flagged(u, i)'
          BY <1>6, <1>9, <1>10, <1>11, <4>2 DEF Flagged
        <5>3. QED
          BY <3>1, <5>1, <5>2
      <4>3. QED
        BY <4>1, <4>2
    <3>3. new.pc \in Untold(i) => call[c].pc \in Untold(i)
      BY <1>1, <1>7 DEF Untold, Kinds
    <3>4. QED
      BY <1>1, <1>4, <1>6, <1>7, <3>1, <3>2, <3>3
  <2>4. ~overlap /\ ~forgot =>
            \A i \in Kinds :
               /\ \A j \in Months : told'[u][j][i] <= 1
               /\ told'[u][month][i] > 0 => Flagged(u, i)' \/ (new.month = month /\ new.pc = Setting(i))
               /\ new.pc \in Untold(i) /\ i \notin new.sent => told'[u][new.month][i] = 0
               /\ new.pc \in Late /\ new.month < month => told'[u][month][i] = 0
    BY <2>3
  <2>5. \A v \in Callers \ {u} : flag'[v] = flag[v] /\ shared'[v] = shared[v] /\ told'[v] = told[v]
    BY <1>6, <1>10, <1>11
  <2>6. UNCHANGED <<month, overlap, forgot>> /\ call[c].pc \in {"flags"} \cup Late
        /\ new.pc \in Late \cup {"done"}
    BY <1>1, <1>6, <1>7
  <2>7. new \in Calling /\ call' = [call EXCEPT ![c] = new] /\ u \in Callers /\ u = call[c].user /\ new.user = u
    BY <1>3, <1>6, <1>7, <1>9
  <2>8. QED
    BY <2>1, <2>2, <2>4, <2>5, <2>6, <2>7, OnceStep
<1>15. /\ told' \in [Callers -> [Months -> [Kinds -> Nat]]]
       /\ UNCHANGED <<userKey, instance, month, spend, cached, overlap, carried, forgot, crossing>>
       /\ call[c].pc \in Late /\ new.pc \in Late \cup {"done"}
       /\ new.user = call[c].user /\ new.month = call[c].month
  BY <1>1, <1>2, <1>3, <1>4, <1>6, <1>7
<1>16. QED
  BY <1>6, <1>7, <1>10, <1>11, <1>13, <1>14, <1>15, NotifyMoves

-----------------------------------------------------------------------------
(* A new month, and a restart *)

(* Nothing has been spent in the new month, and nobody told of it. *)
LEMMA NextMonthKeeps ==
  ASSUME RouterInv, NextMonth
  PROVE  RouterInv'
<1>1. /\ month < 2 /\ month' = month + 1
      /\ UNCHANGED <<userKey, instance, call, spend, cached, flag, shared, told, overlap, carried, forgot, crossing>>
  BY DEF NextMonth
<1>2. month = 1 /\ month' = 2 /\ Months = 1 .. 2 /\ 1 \in Months /\ 2 \in Months
  BY <1>1 DEF RouterInv, RouterTyped, Months
<1>3. RouterTyped'
  BY <1>1, <1>2 DEF RouterInv, RouterTyped
<1>4. ASSUME NEW c \in Calls PROVE CallOK(c)'
  <2>1. CallOK(c)
    BY DEF RouterInv
  <2>2. call[c].month \in 1 .. month => call[c].month \in 1 .. month'
    BY <1>2
  <2>3. QED
    BY <1>1, <2>1, <2>2 DEF CallOK
<1>5. SpendInv /\ spend \in [Callers -> [Months -> Nat]]
  BY DEF RouterInv, RouterTyped
<1>6. SpendInv'
  <2>1. Past' = Past
    BY <1>1 DEF Past
  <2>2. \A m \in Months : ~(m > month')
    BY <1>2
  <2>3. QED
    BY <1>1, <1>5, <2>1, <2>2 DEF SpendInv
<1>7. CapInv'
  <2>1. \A u \in Callers : Running(u)' = Running(u) /\ spend[u][month'] = 0
    BY <1>1, <1>2, <1>5 DEF Running, SpendInv
  <2>2. QED
    BY <1>1, <2>1 DEF RouterInv, CapInv
<1>8. TellInv'
  BY <1>1 DEF RouterInv, TellInv, FlagsTold, CheckTold, ToldTruly
<1>9. OnceInv'
  <2>1. OnceInv
    BY DEF RouterInv
  <2>2. Redis => \A u \in Callers, k \in Kinds : flag'[u][k] # 0 => <<k, flag'[u][k]>> \in shared'[u]
    BY <1>1, <2>1 DEF OnceInv
  <2>3. \A u \in Callers, m \in Months, k \in Kinds : m > month' => told'[u][m][k] = 0
    BY <1>2
  <2>4. \A u \in Callers : Checking(u)' = Checking(u)
    BY <1>1 DEF Checking
  <2>5. ~overlap' => \A u \in Callers : \A d, e \in Checking(u)' : d = e
    BY <1>1, <2>1, <2>4 DEF OnceInv
  <2>6. \A u \in Callers, k \in Kinds : told'[u][month'][k] = 0
    BY <1>1, <1>2, <2>1 DEF OnceInv
  <2>7. ASSUME ~overlap', ~forgot', NEW u \in Callers, NEW k \in Kinds PROVE OnceOK(u, k)'
    <3>1. OnceOK(u, k)
      BY <1>1, <2>1, <2>7 DEF OnceInv
    <3>2. /\ \A m \in Months : told'[u][m][k] <= 1
          /\ \A c \in Checking(u)' :
                call'[c].pc \in Untold(k) /\ k \notin call'[c].sent => told'[u][call'[c].month][k] = 0
      BY <1>1, <2>4, <3>1 DEF OnceOK
    <3>3. ~(told'[u][month'][k] > 0)
      BY <2>6
    <3>4. QED
      BY <2>6, <3>2, <3>3 DEF OnceOK
  <2>8. QED
    BY <2>2, <2>3, <2>5, <2>7 DEF OnceInv
<1>10. QED
  BY <1>3, <1>4, <1>6, <1>7, <1>8, <1>9 DEF RouterInv

(* What a restart forgets, Redis keeps; calls that were under way failed. *)
LEMMA RestartKeeps ==
  ASSUME RouterInv, Restart
  PROVE  RouterInv'
<1>1. PICK lost : lost = [NoCall EXCEPT !.pc = "failed"]
  OBVIOUS
<1>2. /\ instance' = [p \in Providers |-> "none"]
      /\ cached' = [u \in Callers |-> [sum |-> 0, month |-> 0]]
      /\ flag' = [u \in Callers |-> [k \in Kinds |-> 0]]
      /\ call' = [c \in Calls |-> IF call[c].pc \in {"idle", "done", "failed", "refused"} THEN call[c] ELSE lost]
      /\ forgot' = (forgot \/ ~Redis \/ \E c \in Calls : call[c].pc \in {"warned", "exceeded"})
      /\ UNCHANGED <<userKey, month, spend, shared, told, overlap, carried, crossing>>
  BY <1>1 DEF Restart
<1>3. lost \in Calling /\ lost.pc = "failed" /\ lost.user = "none" /\ lost.key = "none" /\ lost.only = FALSE
      /\ lost.tried = {}
  BY <1>1 DEF NoCall, Calling
<1>4. call \in [Calls -> Calling] /\ month \in Months /\ Months = 1 .. 2 /\ SpendInv /\ TellInv /\ OnceInv
  BY DEF RouterInv, RouterTyped, Months
<1>5. \A c \in Calls : /\ call'[c] \in Calling
                       /\ call'[c].pc \in {"idle", "done", "failed", "refused"}
                       /\ call'[c] = call[c] \/ call'[c] = lost
  BY <1>2, <1>3, <1>4
<1>6. RouterTyped'
  <2>1. call' \in [Calls -> Calling]
    BY <1>2, <1>3, <1>4
  <2>2. cached' \in [Callers -> [sum : Nat, month : {0} \cup Months]]
    BY <1>2
  <2>3. flag' \in [Callers -> [Kinds -> {0} \cup Months]]
    BY <1>2
  <2>4. instance' \in [Providers -> {"none", Server} \cup Callers] /\ forgot' \in BOOLEAN
    BY <1>2 DEF RouterInv, RouterTyped
  <2>5. QED
    BY <1>2, <2>1, <2>2, <2>3, <2>4 DEF RouterInv, RouterTyped
<1>7. ASSUME NEW c \in Calls PROVE CallOK(c)'
  <2>1. CASE call'[c] = lost
    BY <1>3, <2>1 DEF CallOK, Late
  <2>2. CASE call'[c] = call[c]
    <3>1. CallOK(c)
      BY DEF RouterInv
    <3>2. QED
      BY <1>2, <2>2, <3>1 DEF CallOK
  <2>3. QED
    BY <1>5, <2>1, <2>2
<1>8. SpendInv'
  <2>1. Past \subseteq Past'
    BY <1>2, <1>3 DEF Past
  <2>2. /\ Cardinality(Past) \in Nat /\ Cardinality(Past') \in Nat /\ Cardinality(Past) <= Cardinality(Past')
    BY <2>1, PastGrows
  <2>3. ASSUME NEW u \in Callers, NEW m \in Months
        PROVE  spend'[u][m] <= Cardinality(Past') /\ (m > month' => spend'[u][m] = 0)
    <3>1. spend[u][m] <= Cardinality(Past) /\ spend[u][m] \in Nat /\ (m > month => spend[u][m] = 0)
      BY <1>4 DEF SpendInv, RouterInv, RouterTyped
    <3>2. QED
      BY <1>2, <2>2, <3>1
  <2>4. \A u \in Callers : cached'[u].month = 0
    BY <1>2
  <2>5. QED
    BY <2>3, <2>4 DEF SpendInv
<1>9. CapInv'
  <2>1. \A u \in Callers : Running(u)' = {}
    BY <1>5 DEF Running
  <2>2. QED
    BY <1>2, <2>1 DEF RouterInv, CapInv
<1>10. TellInv'
  <2>1. FlagsTold'
    BY <1>2, <1>4 DEF TellInv, FlagsTold
  <2>2. ToldTruly'
    BY <1>2, <1>4 DEF TellInv, ToldTruly
  <2>3. \A c \in Calls : CheckTold(c)'
    BY <1>5 DEF CheckTold, Late
  <2>4. QED
    BY <2>1, <2>2, <2>3 DEF TellInv
<1>11. OnceInv'
  <2>1. \A u \in Callers : Checking(u)' = {}
    BY <1>5 DEF Checking
  <2>2. /\ Redis => \A u \in Callers, k \in Kinds : flag'[u][k] # 0 => <<k, flag'[u][k]>> \in shared'[u]
        /\ \A u \in Callers, m \in Months, k \in Kinds : m > month' => told'[u][m][k] = 0
    BY <1>2, <1>4 DEF OnceInv
  <2>3. ASSUME ~overlap', ~forgot', NEW u \in Callers, NEW k \in Kinds PROVE OnceOK(u, k)'
    <3>1. OnceOK(u, k) /\ Redis /\ \A c \in Calls : call[c].pc \notin {"warned", "exceeded"}
      BY <1>2, <1>4, <2>3 DEF OnceInv
    <3>2. \A c \in Checking(u) : call[c].pc # Setting(k)
      BY <3>1 DEF Setting, Checking
    <3>3. told[u][month][k] > 0 => Flagged(u, k)
      BY <3>1, <3>2 DEF OnceOK
    <3>4. Flagged(u, k) => Flagged(u, k)'
      <4>1. flag[u][k] = month => <<k, month>> \in shared[u]
        BY <1>4, <3>1 DEF OnceInv
      <4>2. QED
        BY <1>2, <3>1, <4>1 DEF Flagged
    <3>5. QED
      BY <1>2, <2>1, <3>1, <3>3, <3>4 DEF OnceOK
  <2>4. QED
    BY <2>1, <2>2, <2>3 DEF OnceInv
<1>12. QED
  BY <1>6, <1>7, <1>8, <1>9, <1>10, <1>11 DEF RouterInv

-----------------------------------------------------------------------------
(* A process starts with no call and nobody told. *)
LEMMA RouterInitial == RouterInit => RouterInv
<1> SUFFICES ASSUME RouterInit PROVE RouterInv
  OBVIOUS
<1>1. /\ userKey = [u \in Callers |-> {}] /\ instance = [p \in Providers |-> "none"]
      /\ call = [c \in Calls |-> NoCall] /\ month = 1
      /\ spend = [u \in Callers |-> [m \in Months |-> 0]]
      /\ cached = [u \in Callers |-> [sum |-> 0, month |-> 0]]
      /\ flag = [u \in Callers |-> [k \in Kinds |-> 0]]
      /\ shared = [u \in Callers |-> {}]
      /\ told = [u \in Callers |-> [m \in Months |-> [k \in Kinds |-> 0]]]
      /\ overlap = FALSE /\ carried = FALSE /\ forgot = FALSE /\ crossing = FALSE
  BY DEF RouterInit
<1>2. NoCall \in Calling /\ NoCall.pc = "idle" /\ NoCall.key = "none" /\ NoCall.only = FALSE
  BY DEF NoCall, Calling
<1>3. RouterTyped
  <2>1. call \in [Calls -> Calling] /\ month \in Months
    BY <1>1, <1>2 DEF Months
  <2>2. spend \in [Callers -> [Months -> Nat]] /\ told \in [Callers -> [Months -> [Kinds -> Nat]]]
    BY <1>1
  <2>3. /\ cached \in [Callers -> [sum : Nat, month : {0} \cup Months]]
        /\ flag \in [Callers -> [Kinds -> {0} \cup Months]]
        /\ shared \in [Callers -> SUBSET (Kinds \X Months)]
    BY <1>1
  <2>4. QED
    BY <1>1, <2>1, <2>2, <2>3 DEF RouterTyped
<1>4. \A c \in Calls : CallOK(c) /\ CheckTold(c)
  BY <1>1, <1>2 DEF CallOK, CheckTold, Late
<1>5. SpendInv
  <2>1. Cardinality(Past) \in Nat
    BY RouterAssumption, FS_Subset, FS_CardinalityType DEF Past
  <2>2. QED
    BY <1>1, <2>1 DEF SpendInv
<1>6. (\A u \in Callers : Running(u) = {} /\ Checking(u) = {})
  BY <1>1, <1>2 DEF Running, Checking
<1>7. CapInv
  BY <1>1, <1>6, RouterAssumption DEF CapInv
<1>8. TellInv
  BY <1>1, <1>4 DEF TellInv, FlagsTold, ToldTruly, Kinds
<1>9. OnceInv
  <2>1. \A u \in Callers, m \in Months, k \in Kinds : told[u][m][k] = 0 /\ flag[u][k] = 0
    BY <1>1
  <2>2. month \in Months
    BY <1>1 DEF Months
  <2>3. \A u \in Callers, k \in Kinds : OnceOK(u, k)
    BY <1>6, <2>1, <2>2 DEF OnceOK
  <2>4. \A u \in Callers : \A d, e \in Checking(u) : d = e
    BY <1>6
  <2>5. /\ Redis => \A u \in Callers, k \in Kinds : flag[u][k] # 0 => <<k, flag[u][k]>> \in shared[u]
        /\ \A u \in Callers, m \in Months, k \in Kinds : m > month => told[u][m][k] = 0
    <3>1. \A u \in Callers, k \in Kinds : flag[u][k] = 0
      BY <1>1
    <3>2. \A u \in Callers, m \in Months, k \in Kinds : told[u][m][k] = 0
      BY <1>1
    <3>3. QED
      BY <3>1, <3>2
  <2>6. QED
    BY <2>3, <2>4, <2>5 DEF OnceInv
<1>10. QED
  BY <1>3, <1>4, <1>5, <1>7, <1>8, <1>9 DEF RouterInv

(* Every step of a check keeps RouterInv. *)
LEMMA PastCallKeeps ==
  ASSUME RouterInv, NEW c \in Calls, _check_budget(c)
  PROVE  RouterInv'
<1>1. CASE ReadFlags(c) \/ \E hit \in BOOLEAN : ReadSpend(c, hit)
  BY <1>1, ReadFlagsKeeps, ReadSpendKeeps
<1>2. "warning" \in Kinds /\ "exceeded" \in Kinds
  BY DEF Kinds
<1>3. Notifies("warning", "warn", "warned", "exceed") /\ Notifies("exceeded", "exceed", "exceeded", "done")
  BY DEF Notifies
<1>4. CASE Emit(c, "warning", "warn", "warned", "exceed")
  BY <1>2, <1>3, <1>4, EmitKeeps
<1>5. CASE Emit(c, "exceeded", "exceed", "exceeded", "done")
  BY <1>2, <1>3, <1>5, EmitKeeps
<1>6. CASE SetFlag(c, "warning", "warned", "exceed")
  BY <1>2, <1>3, <1>6, SetFlagKeeps
<1>7. CASE SetFlag(c, "exceeded", "exceeded", "done")
  BY <1>2, <1>3, <1>7, SetFlagKeeps
<1>8. QED
  BY <1>1, <1>4, <1>5, <1>6, <1>7 DEF _check_budget

(* ... and so does every step of the router. *)
LEMMA RouterInductive == RouterInv /\ [RouterNext]_routerVars => RouterInv'
<1> SUFFICES ASSUME RouterInv, [RouterNext]_routerVars PROVE RouterInv'
  OBVIOUS
<1>1. CASE UNCHANGED routerVars
  BY <1>1, SameCalls DEF routerVars, RouterInv, RouterTyped
<1>2. ASSUME NEW u \in Callers, NEW p \in ByokCapable, SetUserKey(u, p) PROVE RouterInv'
  BY <1>2, SetUserKeyKeeps
<1>3. ASSUME NEW c \in Calls, NEW u \in Callers, plan_aware_complete(c, u) \/ complete_multimodal(c, u)
      PROVE  RouterInv'
  BY <1>3, AdmitKeeps, MultimodalKeeps
<1>4. ASSUME NEW c \in Calls, Skip(c) \/ Exhausted(c) \/ _check_budget(c) PROVE RouterInv'
  BY <1>4, SkipKeeps, ExhaustedKeeps, PastCallKeeps
<1>5. ASSUME NEW c \in Calls, NEW ok \in BOOLEAN, Attempt(c, ok) \/ _log_cost(c, ok) PROVE RouterInv'
  BY <1>5, AttemptKeeps, LogKeeps
<1>6. CASE NextMonth \/ Restart
  BY <1>6, NextMonthKeeps, RestartKeeps
<1>7. QED
  BY <1>1, <1>2, <1>3, <1>4, <1>5, <1>6 DEF RouterNext

(* What users are promised follows. *)
LEMMA RouterSound ==
  RouterInv => RouterTypeOK /\ KeyIsOwn /\ FallbackHeld /\ ToldOnce /\ ToldTruly /\ CapHeld
<1> SUFFICES ASSUME RouterInv
             PROVE  RouterTypeOK /\ KeyIsOwn /\ FallbackHeld /\ ToldOnce /\ ToldTruly /\ CapHeld
  OBVIOUS
<1>1. RouterTypeOK
  <2>1. \A c \in Calls : call[c].pc \in {"idle", "try", "log", "flags", "done", "failed", "refused"} \cup Late
    BY DEF RouterInv, RouterTyped, Calling
  <2>2. ASSUME NEW u \in Callers, NEW m \in Months PROVE spend[u][m] \in 0 .. Cardinality(Calls)
    <3>1. spend[u][m] \in Nat /\ spend[u][m] <= Cardinality(Past)
      BY DEF RouterInv, RouterTyped, SpendInv
    <3>2. IsFiniteSet(Calls) /\ Past \subseteq Calls
      BY RouterAssumption DEF Past
    <3>3. Cardinality(Past) <= Cardinality(Calls) /\ Cardinality(Past) \in Nat /\ Cardinality(Calls) \in Nat
      BY <3>2, FS_Subset, FS_CardinalityType
    <3>4. QED
      BY <3>1, <3>3
  <2>3. QED
    BY <2>1, <2>2 DEF RouterInv, RouterTyped, RouterTypeOK, Late
<1>2. KeyIsOwn
  BY DEF RouterInv, CallOK, KeyIsOwn
<1>3. FallbackHeld
  <2>1. ASSUME NEW c \in Calls, call[c].only PROVE Cardinality(call[c].tried) <= 1
    <3>1. call[c].tried = {} \/ \E p \in Providers : call[c].tried = {p}
      BY <2>1 DEF RouterInv, CallOK
    <3>2. QED
      BY <3>1, FS_EmptySet, FS_Singleton
  <2>2. QED
    BY <2>1, SMTT(30) DEF RouterInv, CallOK, FallbackHeld
<1>4. ToldOnce /\ ToldTruly
  BY DEF RouterInv, OnceInv, OnceOK, ToldOnce, TellInv
<1>5. CapHeld
  BY DEF RouterInv, CapInv, CapHeld
<1>6. QED
  BY <1>1, <1>2, <1>3, <1>4, <1>5

(* engine/llm_router.py, services/plan_routing.py, services/quota.py: a call *)
(* is made with the caller's key or the instance's, under a plan with one    *)
(* provider at most, and fails only after every provider the instance has a  *)
(* key for; its user is told once a month of each threshold, and truly; and  *)
(* spends no more than the plan allows, as long as calls do not overlap.     *)
THEOREM CallsAlwaysSound == UpkeepSpec => []CallsSound
<1>1. UpkeepInit => RouterInv
  BY RouterInitial DEF UpkeepInit
<1>2. RouterInv /\ [UpkeepNext]_allVars => RouterInv'
  <2> SUFFICES ASSUME RouterInv, [UpkeepNext]_allVars PROVE RouterInv'
    OBVIOUS
  <2>1. [RouterNext]_routerVars
    BY DEF UpkeepNext, allVars
  <2>2. QED
    BY <2>1, RouterInductive
<1>3. RouterInv => CallsSound
  BY RouterSound DEF CallsSound
<1>4. QED
  BY <1>1, <1>2, <1>3, PTL DEF UpkeepSpec
=============================================================================
