---------------------------- MODULE ReadingProofs ----------------------------
(****************************************************************************)
(* Theorems of the components MCReading runs: compilation schemas, the       *)
(* taxonomy, confidence and staleness, concept pages, synthesis pages,       *)
(* conversations and discussions, for every value of their constants. Each   *)
(* has an inductive invariant of its own, checked over its initial states    *)
(* and its steps; the theorems at the end put them together. Texts and PDFs  *)
(* stay with the model checker.                                              *)
(****************************************************************************)
EXTENDS MCReading, DataLemmas, SequenceTheorems

-----------------------------------------------------------------------------
(* Schemas *)

Edits == [kind : {"none", "create", "update", "delete"}, id : SchemaIds \cup {NoSchema},
          name : SchemaNames \cup {NoSchema}, flag : {"keep", "on", "off"},
          off : SUBSET SchemaIds, was : SUBSET SchemaIds]

(* What a request will commit: an update of a schema, or a new one with an id *)
(* no row and no other request has.                                           *)
EditOK(r) ==
    /\ edit[r].off \subseteq edit[r].was
    /\ edit[r] # NoEdit => edit[r].kind # "none" /\ edit[r].id \in SchemaIds
    /\ edit[r].kind \in {"none", "delete"} => edit[r].flag = "keep"
    /\ edit[r].kind = "create" => /\ edit[r].name \in SchemaNames
                                  /\ edit[r].id \notin SchemaRows
                                  /\ \A q \in SchemaRequests \ {r} : edit[q].id # edit[r].id

(* Requests that come one by one: what one of them has read still stands.      *)
FreshEdit(r) ==
    /\ edit[r].was = ActiveIds
    /\ edit[r].off = IF edit[r].flag = "on" THEN ActiveIds ELSE {}
    /\ edit[r].kind \in {"update", "delete"} => edit[r].id \in SchemaRows

SchemaInv ==
    /\ SchemaTypeOK
    /\ edit \in [SchemaRequests -> Edits]
    /\ \A r \in SchemaRequests : EditOK(r)
    /\ ~crossed => /\ \A q, r \in SchemaRequests : edit[q] # NoEdit /\ edit[r] # NoEdit => q = r
                   /\ \A r \in SchemaRequests : edit[r] # NoEdit => FreshEdit(r)
                   /\ ActiveIds = IF wanted = NoSchema THEN {} ELSE {wanted}

-----------------------------------------------------------------------------
(* Schemas: the proofs *)

(* The initial state has no schema and no request. *)
LEMMA InitSchemas == SchemasInit => SchemaInv
<1> SUFFICES ASSUME SchemasInit
             PROVE  SchemaInv
  OBVIOUS
<1>1. \A r \in SchemaRequests : edit[r] = NoEdit
  BY DEF SchemasInit
<1>2. SchemaRows = {} /\ ActiveIds = {}
  BY DEF SchemasInit, SchemaRows, ActiveIds
<1>3. edit \in [SchemaRequests -> Edits]
  BY DEF SchemasInit, Edits, NoEdit
<1>4. SchemaTypeOK
  BY <1>1, <1>2 DEF SchemasInit, SchemaTypeOK, NoEdit
<1>5. \A r \in SchemaRequests : EditOK(r)
  BY <1>1 DEF EditOK, NoEdit
<1>6. QED
  BY <1>1, <1>2, <1>3, <1>4, <1>5 DEF SchemasInit, SchemaInv

(* A request that opens reads what is committed; the rows stay. *)
LEMMA OpenKeeps ==
  ASSUME SchemaInv, NEW r \in SchemaRequests, NEW id \in SchemaIds, NEW name \in SchemaNames \cup {NoSchema},
         NEW flag \in {"keep", "on", "off"}, NEW kind \in {"create", "update", "delete"},
         OpenEdit(r, kind, id, name, flag),
         kind = "create" => /\ name \in SchemaNames /\ id \notin SchemaRows
                            /\ \A q \in SchemaRequests : edit[q].id # id,
         kind # "create" => id \in SchemaRows,
         kind = "delete" => flag = "keep"
  PROVE  SchemaInv'
<1> DEFINE e == [kind |-> kind, id |-> id, name |-> name, flag |-> flag,
                 off |-> IF flag = "on" THEN ActiveIds ELSE {}, was |-> ActiveIds]
<1>1. /\ edit[r] = NoEdit /\ edit' = [edit EXCEPT ![r] = e]
      /\ crossed' = (crossed \/ \E q \in SchemaRequests \ {r} : edit[q] # NoEdit)
      /\ schema' = schema /\ wanted' = wanted
  BY DEF OpenEdit, _deactivate_all
<1>2. SchemaRows' = SchemaRows /\ ActiveIds' = ActiveIds
  BY <1>1 DEF SchemaRows, ActiveIds
<1>3. ActiveIds \subseteq SchemaIds
  BY DEF SchemaInv, SchemaTypeOK, ActiveIds
<1>4. e \in Edits /\ e # NoEdit
  BY <1>3, SchemasAssumption DEF Edits, NoEdit
<1>5. edit' \in [SchemaRequests -> Edits]
  BY <1>1, <1>4 DEF SchemaInv
<1>6. edit'[r] = e /\ \A q \in SchemaRequests \ {r} : edit'[q] = edit[q]
  BY <1>1 DEF SchemaInv
<1>7. SchemaTypeOK'
  BY <1>1, <1>2, <1>4, <1>6 DEF SchemaInv, SchemaTypeOK
<1>8. \A q \in SchemaRequests : EditOK(q)'
  <2> SUFFICES ASSUME NEW q \in SchemaRequests
               PROVE  EditOK(q)'
    OBVIOUS
  <2>1. CASE q = r
    BY <1>2, <1>4, <1>6, <2>1 DEF EditOK
  <2>2. CASE q # r
    BY <1>2, <1>6, <2>2 DEF EditOK, SchemaInv
  <2>3. QED
    BY <2>1, <2>2
<1>9. ASSUME ~crossed'
      PROVE  /\ \A q, p \in SchemaRequests : edit'[q] # NoEdit /\ edit'[p] # NoEdit => q = p
             /\ \A q \in SchemaRequests : edit'[q] # NoEdit => FreshEdit(q)'
             /\ ActiveIds' = IF wanted' = NoSchema THEN {} ELSE {wanted'}
  <2>1. ~crossed /\ \A q \in SchemaRequests \ {r} : edit'[q] = NoEdit
    BY <1>1, <1>6, <1>9
  <2>2. FreshEdit(r)'
    BY <1>2, <1>6 DEF FreshEdit
  <2>3. ActiveIds' = IF wanted' = NoSchema THEN {} ELSE {wanted'}
    BY <1>1, <1>2, <2>1 DEF SchemaInv
  <2>4. QED
    BY <2>1, <2>2, <2>3
<1>10. QED
  BY <1>5, <1>7, <1>8, <1>9 DEF SchemaInv

(* An UPDATE keeps a row's id, its name unless it is given another, and its   *)
(* flag unless it differs from the one read.                                  *)
LEMMA UpdatedRow ==
  ASSUME NEW e \in Edits, NEW s \in [id : SchemaIds, name : SchemaNames, active : BOOLEAN],
         e.off \subseteq e.was
  PROVE  /\ Updated(e, s) \in [id : SchemaIds, name : SchemaNames, active : BOOLEAN]
         /\ Updated(e, s).id = s.id
         /\ Updated(e, s).name = IF s.id = e.id /\ e.name # NoSchema THEN e.name ELSE s.name
         /\ s.id # e.id \/ e.flag = "keep" =>
               Updated(e, s).active = IF s.id \in e.off THEN FALSE ELSE s.active
         /\ s.id = e.id /\ e.flag # "keep" /\ s.active = (s.id \in e.was) =>
               Updated(e, s).active = (e.flag = "on")
<1> DEFINE mine == s.id = e.id
           flag == IF mine /\ e.flag # "keep" THEN e.flag = "on" ELSE s.id \in e.was \ e.off
           act == IF flag = (s.id \in e.was) THEN s.active ELSE flag
           nam == IF mine /\ e.name # NoSchema THEN e.name ELSE s.name
<1>1. Updated(e, s) = [s EXCEPT !.active = act, !.name = nam]
  BY DEF Updated
<1>2. Updated(e, s) = [id |-> s.id, name |-> nam, active |-> act]
  BY <1>1
<1>3. s.id \in SchemaIds /\ s.name \in SchemaNames /\ s.active \in BOOLEAN
  OBVIOUS
<1>4. nam \in SchemaNames
  BY <1>3 DEF Edits
<1>5. flag \in BOOLEAN
  <2>1. CASE mine /\ e.flag # "keep"
    BY <2>1
  <2>2. CASE ~(mine /\ e.flag # "keep")
    <3>1. flag = TRUE \/ flag = FALSE
      BY <2>2
    <3>2. QED
      BY <3>1
  <2>3. QED
    BY <2>1, <2>2
<1>6. act \in BOOLEAN
  <2>1. CASE flag = (s.id \in e.was)
    BY <1>3, <2>1
  <2>2. CASE ~(flag = (s.id \in e.was))
    BY <1>5, <2>2
  <2>3. QED
    BY <2>1, <2>2
<1>7. s.id # e.id \/ e.flag = "keep" => act = IF s.id \in e.off THEN FALSE ELSE s.active
  <2> SUFFICES ASSUME s.id # e.id \/ e.flag = "keep"
               PROVE  act = IF s.id \in e.off THEN FALSE ELSE s.active
    OBVIOUS
  <2>1. flag = (s.id \in e.was \ e.off)
    OBVIOUS
  <2>2. CASE s.id \in e.off
    <3>1. ~flag /\ s.id \in e.was
      BY <2>1, <2>2
    <3>2. flag # (s.id \in e.was)
      BY <1>5, <3>1
    <3>3. act = flag
      BY <3>2
    <3>4. QED
      BY <1>5, <2>2, <3>1, <3>3
  <2>3. CASE s.id \notin e.off
    <3>1. flag = (s.id \in e.was)
      BY <2>1, <2>3
    <3>2. QED
      BY <2>3, <3>1
  <2>4. QED
    BY <2>2, <2>3
<1>8. s.id = e.id /\ e.flag # "keep" /\ s.active = (s.id \in e.was) => act = (e.flag = "on")
  BY <1>3
<1> HIDE DEF act, flag, nam, mine
<1>9. /\ Updated(e, s).id = s.id /\ Updated(e, s).name = nam /\ Updated(e, s).active = act
      /\ Updated(e, s) \in [id : SchemaIds, name : SchemaNames, active : BOOLEAN]
  BY <1>2, <1>3, <1>4, <1>6
<1>10. nam = IF s.id = e.id /\ e.name # NoSchema THEN e.name ELSE s.name
  BY DEF nam, mine
<1>11. QED
  BY <1>7, <1>8, <1>9, <1>10

(* The ids after a commit. *)
LEMMA RowsAfter ==
  ASSUME SchemaTypeOK, NEW e \in Edits, e.off \subseteq e.was, e.kind # "none", ~Refused(e)
  PROVE  {s.id : s \in After(e)} = CASE e.kind = "create" -> SchemaRows \cup {e.id}
                                     [] e.kind = "update" -> SchemaRows
                                     [] e.kind = "delete" -> SchemaRows \ {e.id}
<1> DEFINE R == [id : SchemaIds, name : SchemaNames, active : BOOLEAN]
<1>1. \A s \in schema : s \in R /\ Updated(e, s).id = s.id
  BY UpdatedRow DEF SchemaTypeOK
<1>2. {t.id : t \in {Updated(e, s) : s \in schema}} = SchemaRows
  BY <1>1 DEF SchemaRows
<1>3. CASE e.kind = "create"
  <2>1. PICK n : n = [id |-> e.id, name |-> e.name, active |-> e.flag = "on"]
    OBVIOUS
  <2>2. After(e) = {Updated(e, s) : s \in schema} \cup {n} /\ n.id = e.id
    BY <1>3, <2>1 DEF After
  <2>3. QED
    BY <1>2, <1>3, <2>2
<1>4. CASE e.kind = "update"
  BY <1>2, <1>4 DEF After
<1>5. CASE e.kind = "delete"
  BY <1>5 DEF After, SchemaRows
<1>6. QED
  BY <1>3, <1>4, <1>5 DEF Edits
(* A commit that is refused changes no row. *)
LEMMA RefusedKeeps ==
  ASSUME SchemaInv, NEW r \in SchemaRequests, edit' = [edit EXCEPT ![r] = NoEdit],
         UNCHANGED <<schema, wanted, crossed>>
  PROVE  SchemaInv'
<1>1. SchemaRows' = SchemaRows /\ ActiveIds' = ActiveIds
  BY DEF SchemaRows, ActiveIds
<1>2. NoEdit \in Edits
  BY DEF Edits, NoEdit
<1>3. edit'[r] = NoEdit /\ \A q \in SchemaRequests \ {r} : edit'[q] = edit[q]
  BY DEF SchemaInv
<1>4. edit' \in [SchemaRequests -> Edits]
  BY <1>2 DEF SchemaInv
<1>5. SchemaTypeOK'
  BY <1>1, <1>3 DEF SchemaInv, SchemaTypeOK, NoEdit
<1>6. \A q \in SchemaRequests : EditOK(q)'
  <2> SUFFICES ASSUME NEW q \in SchemaRequests
               PROVE  EditOK(q)'
    OBVIOUS
  <2>1. CASE q = r
    BY <1>3, <2>1 DEF EditOK, NoEdit
  <2>2. CASE q # r
    BY <1>1, <1>3, <2>2, SchemasAssumption DEF EditOK, SchemaInv, NoEdit
  <2>3. QED
    BY <2>1, <2>2
<1>7. \A q \in SchemaRequests : edit'[q] # NoEdit /\ FreshEdit(q) => FreshEdit(q)'
  BY <1>1, <1>3 DEF FreshEdit
<1>8. QED
  BY <1>1, <1>3, <1>4, <1>5, <1>6, <1>7 DEF SchemaInv

(* The rows after a commit are well typed, no two with one id or one name. *)
LEMMA AfterTyped ==
  ASSUME SchemaTypeOK, NEW e \in Edits, e.off \subseteq e.was, e.kind # "none", ~Refused(e), e.id \in SchemaIds,
         e.kind = "create" => e.name \in SchemaNames /\ e.id \notin SchemaRows
  PROVE  /\ After(e) \subseteq [id : SchemaIds, name : SchemaNames, active : BOOLEAN]
         /\ \A s, t \in After(e) : s # t => s.id # t.id /\ s.name # t.name
<1> DEFINE R == [id : SchemaIds, name : SchemaNames, active : BOOLEAN]
           U == {Updated(e, s) : s \in schema}
           n == [id |-> e.id, name |-> e.name, active |-> e.flag = "on"]
<1>1. \A s \in schema : /\ s \in R /\ Updated(e, s) \in R /\ Updated(e, s).id = s.id
                        /\ Updated(e, s).name = IF s.id = e.id /\ e.name # NoSchema THEN e.name ELSE s.name
  BY UpdatedRow DEF SchemaTypeOK
<1>2. \A s \in schema : e.kind # "delete" /\ s.id # e.id => s.name # e.name
  BY DEF Refused
<1>3. \A s, t \in schema : e.kind # "delete" /\ s # t => s.id # t.id /\ Updated(e, s).name # Updated(e, t).name
  BY <1>1, <1>2 DEF SchemaTypeOK
<1>4. U \subseteq R
  BY <1>1
<1>5. e.kind # "delete" => \A s, t \in U : s # t => s.id # t.id /\ s.name # t.name
  BY <1>1, <1>3
<1> HIDE DEF U
<1>6. CASE e.kind = "create"
  <2>1. After(e) = U \cup {n}
    BY <1>6 DEF After, U
  <2>2. n \in R /\ n.id = e.id /\ n.name = e.name
    BY <1>6
  <2>3. \A s \in U : s.id # e.id /\ s.name # e.name
    BY <1>1, <1>2, <1>6 DEF U, SchemaRows
  <2> HIDE DEF n
  <2>4. QED
    BY <1>4, <1>5, <1>6, <2>1, <2>2, <2>3
<1>7. CASE e.kind = "update"
  BY <1>4, <1>5, <1>7 DEF After, U
<1>8. CASE e.kind = "delete"
  BY <1>8 DEF After, SchemaTypeOK
<1>9. QED
  BY <1>6, <1>7, <1>8 DEF Edits

(* A commit of a request that read what stands: afterwards the schema it       *)
(* activates is the only active one.                                           *)
LEMMA ActiveAfter ==
  ASSUME SchemaTypeOK, NEW e \in Edits, e.kind # "none", ~Refused(e), e.id \in SchemaIds,
         e.kind = "delete" => e.flag = "keep",
         e.was = ActiveIds, e.off = IF e.flag = "on" THEN ActiveIds ELSE {},
         e.kind = "create" => e.id \notin SchemaRows
  PROVE  {s.id : s \in {t \in After(e) : t.active}} =
            CASE e.flag = "on" -> {e.id}
              [] e.flag # "on" /\ (e.flag = "off" \/ e.kind = "delete") -> ActiveIds \ {e.id}
              [] OTHER -> ActiveIds
<1> DEFINE R == [id : SchemaIds, name : SchemaNames, active : BOOLEAN]
           U == {Updated(e, s) : s \in schema}
           n == [id |-> e.id, name |-> e.name, active |-> e.flag = "on"]
<1>1. e.off \subseteq e.was
  OBVIOUS
<1>2. \A s \in schema : s \in R /\ s.active = (s.id \in ActiveIds)
  <2> SUFFICES ASSUME NEW s \in schema
               PROVE  s \in R /\ s.active = (s.id \in ActiveIds)
    OBVIOUS
  <2>1. s \in R
    BY DEF SchemaTypeOK
  <2>2. s.active <=> s.id \in ActiveIds
    BY DEF SchemaTypeOK, ActiveIds
  <2>3. s.active \in BOOLEAN
    BY <2>1
  <2>4. QED
    BY <2>1, <2>2, <2>3
<1>3. \A s \in schema :
         /\ Updated(e, s).id = s.id
         /\ Updated(e, s).active <=> IF s.id = e.id /\ e.flag # "keep" THEN e.flag = "on"
                                      ELSE e.flag # "on" /\ s.id \in ActiveIds
  <2> SUFFICES ASSUME NEW s \in schema
               PROVE  /\ Updated(e, s).id = s.id
                      /\ Updated(e, s).active <=> IF s.id = e.id /\ e.flag # "keep" THEN e.flag = "on"
                                                   ELSE e.flag # "on" /\ s.id \in ActiveIds
    OBVIOUS
  <2>1. /\ Updated(e, s).id = s.id
        /\ s.id # e.id \/ e.flag = "keep" =>
               Updated(e, s).active = IF s.id \in e.off THEN FALSE ELSE s.active
        /\ s.id = e.id /\ e.flag # "keep" => Updated(e, s).active = (e.flag = "on")
    BY <1>1, <1>2, UpdatedRow
  <2>2. CASE s.id = e.id /\ e.flag # "keep"
    BY <2>1, <2>2
  <2>3. CASE s.id # e.id \/ e.flag = "keep"
    BY <1>2, <2>1, <2>3
  <2>4. QED
    BY <2>1, <2>2, <2>3
<1>4. ActiveIds \subseteq SchemaRows
  BY DEF ActiveIds, SchemaRows
<1> DEFINE A == {i \in SchemaRows : IF i = e.id /\ e.flag # "keep" THEN e.flag = "on"
                                    ELSE e.flag # "on" /\ i \in ActiveIds}
<1>5. {s.id : s \in {t \in U : t.active}} = A
  BY <1>3 DEF SchemaRows
<1> HIDE DEF U
<1>6. CASE e.kind = "create"
  <2>1. After(e) = U \cup {n}
    BY <1>6 DEF After, U
  <2>2. n.id = e.id /\ n.active = (e.flag = "on")
    OBVIOUS
  <2> HIDE DEF n
  <2>3. {s.id : s \in {t \in After(e) : t.active}} = A \cup (IF e.flag = "on" THEN {e.id} ELSE {})
    <3>1. CASE e.flag = "on"
      <4>1. {t \in After(e) : t.active} = {t \in U : t.active} \cup {n}
        BY <2>1, <2>2, <3>1
      <4>2. QED
        BY <1>5, <2>2, <3>1, <4>1
    <3>2. CASE e.flag # "on"
      <4>1. {t \in After(e) : t.active} = {t \in U : t.active}
        BY <2>1, <2>2, <3>2
      <4>2. QED
        BY <1>5, <3>2, <4>1
    <3>3. QED
      BY <3>1, <3>2
  <2>4. QED
    BY <1>4, <1>6, <2>3 DEF Edits
<1>7. CASE e.kind = "update"
  <2>1. After(e) = U /\ e.id \in SchemaRows
    BY <1>7 DEF After, U, Refused
  <2>2. QED
    BY <1>4, <1>5, <1>7, <2>1 DEF Edits
<1>8. CASE e.kind = "delete"
  <2>1. After(e) = {s \in schema : s.id # e.id}
    BY <1>8 DEF After
  <2>2. {s.id : s \in {t \in After(e) : t.active}} = ActiveIds \ {e.id}
    BY <2>1 DEF ActiveIds
  <2>3. QED
    BY <1>8, <2>2
<1>9. QED
  BY <1>6, <1>7, <1>8 DEF Edits

(* A commit that goes through. *)
LEMMA CommitKeeps ==
  ASSUME SchemaInv, NEW r \in SchemaRequests, CommitEdit(r), ~Refused(edit[r])
  PROVE  SchemaInv'
<1>1. PICK e : e = edit[r]
  OBVIOUS
<1>2. e \in Edits /\ e.off \subseteq e.was /\ e.kind # "none" /\ e.id \in SchemaIds /\ ~Refused(e)
  BY <1>1 DEF SchemaInv, CommitEdit, EditOK
<1>3. e.kind = "create" => e.name \in SchemaNames /\ e.id \notin SchemaRows
  BY <1>1 DEF SchemaInv, EditOK
<1>4. /\ edit' = [edit EXCEPT ![r] = NoEdit] /\ schema' = After(e) /\ crossed' = crossed
      /\ wanted' = CASE e.flag = "on" -> e.id
                     [] e.flag # "on" /\ e.id = wanted /\ (e.flag = "off" \/ e.kind = "delete") -> NoSchema
                     [] OTHER -> wanted
  BY <1>1 DEF CommitEdit
<1>5. SchemaRows' = CASE e.kind = "create" -> SchemaRows \cup {e.id}
                      [] e.kind = "update" -> SchemaRows
                      [] e.kind = "delete" -> SchemaRows \ {e.id}
  BY <1>2, <1>4, RowsAfter DEF SchemaInv, SchemaRows
<1>6. e.kind = "delete" => e.flag = "keep"
  BY <1>1 DEF SchemaInv, EditOK
<1>7. e.kind = "update" => e.id \in SchemaRows
  BY <1>2 DEF Refused
<1>8. /\ schema' \subseteq [id : SchemaIds, name : SchemaNames, active : BOOLEAN]
      /\ \A s, t \in schema' : s # t => s.id # t.id /\ s.name # t.name
  BY <1>2, <1>3, <1>4, AfterTyped DEF SchemaInv
<1>9. wanted' \in SchemaRows' \cup {NoSchema}
  <2>1. wanted \in SchemaRows \cup {NoSchema}
    BY DEF SchemaInv, SchemaTypeOK
  <2>2. CASE e.kind = "delete"
    BY <1>4, <1>5, <1>6, <2>1, <2>2
  <2>3. CASE e.kind # "delete"
    <3>1. SchemaRows \subseteq SchemaRows' /\ e.id \in SchemaRows'
      BY <1>2, <1>5, <1>7, <2>3 DEF Edits
    <3>2. QED
      BY <1>4, <2>1, <3>1
  <2>4. QED
    BY <2>2, <2>3
<1>10. edit'[r] = NoEdit /\ \A q \in SchemaRequests \ {r} : edit'[q] = edit[q]
  BY <1>4 DEF SchemaInv
<1>11. edit' \in [SchemaRequests -> Edits]
  BY <1>4 DEF SchemaInv, Edits, NoEdit
<1>12. SchemaTypeOK'
  <2>1. \A q \in SchemaRequests : edit'[q].flag \in {"keep", "on", "off"} /\ edit'[q].off \subseteq edit'[q].was
    BY <1>10 DEF SchemaInv, SchemaTypeOK, NoEdit
  <2>2. crossed' \in BOOLEAN
    BY <1>4 DEF SchemaInv, SchemaTypeOK
  <2>3. QED
    BY <1>8, <1>9, <2>1, <2>2 DEF SchemaTypeOK
<1>13. \A q \in SchemaRequests : EditOK(q)'
  <2> SUFFICES ASSUME NEW q \in SchemaRequests
               PROVE  EditOK(q)'
    OBVIOUS
  <2>1. CASE q = r
    BY <1>10, <2>1 DEF EditOK, NoEdit
  <2>2. CASE q # r
    <3>1. edit'[q] = edit[q] /\ EditOK(q)
      BY <1>10, <2>2 DEF SchemaInv
    <3>2. edit[q].kind = "create" => edit[q].id # e.id
      BY <1>1, <2>2, <3>1 DEF EditOK
    <3>3. edit[q].kind = "create" => edit[q].id \notin SchemaRows'
      BY <1>2, <1>5, <3>1, <3>2 DEF EditOK, Edits
    <3>4. edit[q].kind = "create" => \A p \in SchemaRequests \ {q} : edit'[p].id # edit[q].id
      <4> SUFFICES ASSUME edit[q].kind = "create", NEW p \in SchemaRequests \ {q}
                   PROVE  edit'[p].id # edit[q].id
        OBVIOUS
      <4>1. edit[q].id \in SchemaIds
        BY <3>1 DEF EditOK, NoEdit
      <4>2. edit'[p] = NoEdit \/ edit'[p] = edit[p]
        BY <1>10
      <4>3. QED
        BY <3>1, <4>1, <4>2, SchemasAssumption DEF EditOK, NoEdit
    <3>5. QED
      BY <3>1, <3>3, <3>4 DEF EditOK
  <2>3. QED
    BY <2>1, <2>2
<1>14. ASSUME ~crossed'
       PROVE  /\ \A q \in SchemaRequests : edit'[q] = NoEdit
              /\ ActiveIds' = IF wanted' = NoSchema THEN {} ELSE {wanted'}
  <2>1. ~crossed /\ FreshEdit(r)
    BY <1>4, <1>14 DEF SchemaInv, CommitEdit
  <2>2. \A q \in SchemaRequests : edit'[q] = NoEdit
    BY <1>10, <2>1 DEF SchemaInv, CommitEdit
  <2>3. ActiveIds' = CASE e.flag = "on" -> {e.id}
                       [] e.flag # "on" /\ (e.flag = "off" \/ e.kind = "delete") -> ActiveIds \ {e.id}
                       [] OTHER -> ActiveIds
    BY <1>1, <1>2, <1>3, <1>4, <1>6, <2>1, ActiveAfter DEF SchemaInv, FreshEdit, ActiveIds
  <2>4. ActiveIds = IF wanted = NoSchema THEN {} ELSE {wanted}
    BY <2>1 DEF SchemaInv
  <2>5. e.id # NoSchema
    BY <1>2, SchemasAssumption
  <2>6. QED
    BY <1>4, <2>2, <2>3, <2>4, <2>5
<1>15. QED
  BY <1>11, <1>12, <1>13, <1>14 DEF SchemaInv

(* Every step keeps what is said of schemas. *)
LEMMA NextSchemas == SchemaInv /\ (SchemasNext \/ UNCHANGED schemaVars) => SchemaInv'
<1> SUFFICES ASSUME SchemaInv, SchemasNext \/ UNCHANGED schemaVars
             PROVE  SchemaInv'
  OBVIOUS
<1>1. ASSUME NEW r \in SchemaRequests, CommitEdit(r)
      PROVE  SchemaInv'
  <2>1. CASE Refused(edit[r])
    BY <1>1, <2>1, RefusedKeeps DEF CommitEdit
  <2>2. QED
    BY <1>1, <2>1, CommitKeeps
<1>2. ASSUME NEW r \in SchemaRequests, NEW id \in SchemaIds, NEW flag \in {"keep", "on", "off"},
             NEW name \in SchemaNames, create_schema(r, id, name, flag)
      PROVE  SchemaInv'
  BY <1>2, OpenKeeps DEF create_schema
<1>3. ASSUME NEW r \in SchemaRequests, NEW id \in SchemaIds, NEW flag \in {"keep", "on", "off"},
             NEW name \in SchemaNames \cup {NoSchema}, update_schema(r, id, name, flag)
      PROVE  SchemaInv'
  BY <1>3, OpenKeeps DEF update_schema, _get_schema
<1>4. ASSUME NEW r \in SchemaRequests, NEW id \in SchemaIds, delete_schema(r, id)
      PROVE  SchemaInv'
  BY <1>4, OpenKeeps DEF delete_schema, _get_schema
<1>5. CASE UNCHANGED schemaVars
  <2>1. SchemaRows' = SchemaRows /\ ActiveIds' = ActiveIds
    BY <1>5 DEF schemaVars, SchemaRows, ActiveIds
  <2>2. QED
    BY <1>5, <2>1 DEF schemaVars, SchemaInv, SchemaTypeOK, EditOK, FreshEdit
<1>6. QED
  BY <1>1, <1>2, <1>3, <1>4, <1>5 DEF SchemasNext

(* services/compilation_schema.py: while no two requests are open at once,     *)
(* a compilation finds the schema that was activated last, unless that was     *)
(* switched off or deleted since; it never fails on two active ones. Rows      *)
(* never share an id or a name, whatever requests overlap.                     *)
THEOREM SchemaAlwaysFollowed == ReadingSpec => []SchemaFollowed
<1>1. ReadingInit => SchemaInv
  BY InitSchemas DEF ReadingInit
<1>2. SchemaInv /\ [ReadingNext]_readingVars => SchemaInv'
  BY NextSchemas DEF ReadingNext, readingVars, schemaVars
<1>3. SchemaInv => SchemaFollowed
  <2> SUFFICES ASSUME SchemaInv, ~crossed
               PROVE  active_schema = wanted
    BY DEF SchemaFollowed, SchemaInv, SchemaObeyed
  <2>1. CASE wanted = NoSchema
    BY <2>1 DEF SchemaInv, active_schema
  <2>2. CASE wanted # NoSchema
    <3>1. ActiveIds = {wanted}
      BY <2>2 DEF SchemaInv
    <3>2. Cardinality(ActiveIds) = 1
      BY <3>1, FS_Singleton
    <3>3. QED
      BY <3>1, <3>2 DEF active_schema
  <2>3. QED
    BY <2>1, <2>2
<1>4. QED
  BY <1>1, <1>2, <1>3, PTL DEF ReadingSpec

-----------------------------------------------------------------------------
(* Taxonomy *)

(* A walk up that meets no name twice and at most so many names. *)
Straight(up, n) ==
    LET walk == WayUp(up, n) IN
    /\ \A i, j \in DOMAIN walk : i < j /\ walk[i] = walk[j] => walk[i] = Root
    /\ Cardinality({i \in DOMAIN walk : walk[i] # Root}) <= (IF MaxDepth = 0 THEN 1 ELSE MaxDepth)

(* The walk of the given length. *)
IsWayUp(f, up, n, N) ==
    f = [k \in 0 .. N |-> IF k = 0 THEN n ELSE IF f[k - 1] = Root THEN Root ELSE up[f[k - 1]]]

SaveActive == {"upsert", "count", "write"}

TaxTyped ==
    /\ TaxonomyTypeOK
    /\ rebuilding = [r \in Rebuilds |-> rebuilding[r]]
    /\ save \in [Saves -> [pc : {"idle", "done"} \cup SaveActive, names : SUBSET Names, read : [Names -> 0 .. MaxTags]]]

(* Rebuilds that never overlapped: the one under way loaded the parents as     *)
(* they still are, and concepts added since have none.                         *)
LoadedOK(r) ==
    LET loaded == rebuilding[r].loaded IN
    /\ DOMAIN loaded \subseteq concept
    /\ \A n \in DOMAIN loaded : loaded[n] = parent[n]
    /\ \A n \in Names \ DOMAIN loaded : parent[n] = Root

ForestOK ==
    /\ \A n \in Names \ concept : parent[n] = Root
    /\ \A n \in concept : parent[n] \in concept \cup {Root} /\ Straight(parent, n)
    /\ \A r \in Rebuilds : rebuilding[r].pc = "llm" =>
          LoadedOK(r) /\ \A q \in Rebuilds : rebuilding[q].pc = "llm" => q = r

(* Saves that never overlapped: the one under way read the table as it is.     *)
CountsOK ==
    /\ \A s, o \in Saves : save[s].pc \in SaveActive /\ save[o].pc \in SaveActive => s = o
    /\ \A s \in Saves : save[s].pc = "write" => save[s].read = tags
    /\ (\A s \in Saves : save[s].pc \notin SaveActive) => \A n \in concept : counts[n] = tags[n]

TaxInv ==
    /\ TaxTyped
    /\ ~overlap => ForestOK
    /\ ~tangled => CountsOK

-----------------------------------------------------------------------------
(* Taxonomy: the proofs *)

(* There is a walk up of every length. *)
LEMMA WalkExists ==
  ASSUME NEW up, NEW n, NEW N \in Nat
  PROVE  \E f : IsWayUp(f, up, n, N)
<1> DEFINE Walk(f, K) == f = [k \in 0 .. K |-> IF k = 0 THEN n
                                               ELSE IF f[k - 1] = Root THEN Root ELSE up[f[k - 1]]]
<1>1. PICK T : T = {K \in Nat : ~\E f : Walk(f, K)}
  OBVIOUS
<1>2. ASSUME T # {}
      PROVE  FALSE
  <2>1. PICK K \in T : \A y \in T : K <= y
    BY <1>1, <1>2, LeastNumber
  <2>2. K \in Nat
    BY <1>1, <2>1
  <2>3. CASE K = 0
    <3>1. PICK f : f = [k \in 0 .. 0 |-> n]
      OBVIOUS
    <3>2. f = [k \in 0 .. 0 |-> IF k = 0 THEN n ELSE IF f[k - 1] = Root THEN Root ELSE up[f[k - 1]]]
      BY <3>1
    <3>3. Walk(f, K)
      BY <2>3, <3>2
    <3>4. QED
      BY <1>1, <2>1, <3>3
  <2>4. CASE K # 0
    <3>1. K - 1 \in Nat /\ K - 1 \notin T
      BY <2>1, <2>2, <2>4
    <3>2. PICK f : Walk(f, K - 1)
      BY <1>1, <3>1
    <3>3. PICK g : g = [k \in 0 .. K |-> IF k = 0 THEN n
                                         ELSE IF f[k - 1] = Root THEN Root ELSE up[f[k - 1]]]
      OBVIOUS
    <3>4. ASSUME NEW k \in 0 .. K - 1
          PROVE  g[k] = f[k]
      <4>1. k \in 0 .. K
        BY <2>2
      <4>2. g[k] = IF k = 0 THEN n ELSE IF f[k - 1] = Root THEN Root ELSE up[f[k - 1]]
        BY <3>3, <4>1
      <4>3. f[k] = IF k = 0 THEN n ELSE IF f[k - 1] = Root THEN Root ELSE up[f[k - 1]]
        BY <3>2, <3>4
      <4>4. QED
        BY <4>2, <4>3
    <3>5. ASSUME NEW k \in 0 .. K, k # 0
          PROVE  g[k - 1] = f[k - 1]
      BY <2>2, <3>4, <3>5
    <3>6. Walk(g, K)
      BY <3>3, <3>5
    <3>7. QED
      BY <1>1, <2>1, <3>6
  <2>5. QED
    BY <2>3, <2>4
<1>3. PICK f : Walk(f, N)
  BY <1>1, <1>2
<1>4. QED
  BY <1>3 DEF IsWayUp

(* What the walk up is. *)
LEMMA WalkIs ==
  ASSUME NEW up, NEW n
  PROVE  LET w == WayUp(up, n) IN
         w = [k \in 0 .. Cardinality(Names) + 1 |-> IF k = 0 THEN n
                                                    ELSE IF w[k - 1] = Root THEN Root ELSE up[w[k - 1]]]
<1>1. Cardinality(Names) + 1 \in Nat
  BY TaxonomyAssumption, FS_CardinalityType
<1>2. \E f : f = [k \in 0 .. Cardinality(Names) + 1 |->
                     IF k = 0 THEN n ELSE IF f[k - 1] = Root THEN Root ELSE up[f[k - 1]]]
  <2>1. PICK K : K = Cardinality(Names) + 1
    OBVIOUS
  <2>2. K \in Nat
    BY <1>1, <2>1
  <2>3. PICK f : IsWayUp(f, up, n, K)
    BY <2>2, WalkExists
  <2>4. QED
    BY <2>1, <2>3 DEF IsWayUp
<1>3. QED
  BY <1>2 DEF WayUp

(* The walk up from a name without a parent. *)
LEMMA RootStraight ==
  ASSUME NEW up \in [Names -> Names \cup {Root}], NEW n \in Names, up[n] = Root
  PROVE  Straight(up, n)
<1>1. PICK K : K = Cardinality(Names) + 1
  OBVIOUS
<1>2. K \in Nat /\ K > 0
  BY <1>1, TaxonomyAssumption, FS_CardinalityType
<1>3. PICK w : w = WayUp(up, n)
  OBVIOUS
<1>4. w = [k \in 0 .. K |-> IF k = 0 THEN n ELSE IF w[k - 1] = Root THEN Root ELSE up[w[k - 1]]]
  BY <1>1, <1>3, WalkIs
<1>5. DOMAIN w = 0 .. K
  BY <1>4
<1>6. \A k \in 0 .. K : w[k] = IF k = 0 THEN n ELSE IF w[k - 1] = Root THEN Root ELSE up[w[k - 1]]
  BY <1>4
<1>7. \A k \in 1 .. K : w[k] = Root
  <2>1. PICK T : T = {k \in Nat : k \in 1 .. K /\ w[k] # Root}
    OBVIOUS
  <2>2. CASE T # {}
    <3>1. PICK k \in T : \A y \in T : k <= y
      BY <2>1, <2>2, LeastNumber
    <3>2. k \in 1 .. K /\ k \in Nat /\ w[k] # Root
      BY <2>1, <3>1
    <3>3. w[k] = IF w[k - 1] = Root THEN Root ELSE up[w[k - 1]]
      BY <1>2, <1>6, <3>2
    <3>4. CASE k = 1
      <4>1. w[0] = n
        BY <1>2, <1>6
      <4>2. QED
        BY <3>2, <3>3, <3>4, <4>1, TaxonomyAssumption
    <3>5. CASE k # 1
      <4>1. k - 1 \in 1 .. K /\ k - 1 \in Nat /\ ~(k <= k - 1)
        BY <1>2, <3>2, <3>5
      <4>2. w[k - 1] = Root
        BY <2>1, <3>1, <4>1
      <4>3. QED
        BY <3>2, <3>3, <4>2
    <3>6. QED
      BY <3>4, <3>5
  <2>3. QED
    BY <1>2, <2>1, <2>2
<1>8. w[0] = n /\ n # Root
  BY <1>2, <1>6, TaxonomyAssumption
<1>9. \A i, j \in DOMAIN w : i < j /\ w[i] = w[j] => w[i] = Root
  BY <1>2, <1>5, <1>7
<1>10. {i \in DOMAIN w : w[i] # Root} = {0}
  BY <1>2, <1>5, <1>7, <1>8
<1>11. Cardinality({0}) = 1
  BY FS_Singleton
<1>12. QED
  BY <1>3, <1>9, <1>10, <1>11, TaxonomyAssumption DEF Straight

(* With no parent outside the concepts, the walk up the stored rows is the one *)
(* up the parents.                                                             *)
LEMMA StoredWalk ==
  ASSUME NEW n \in Names, TaxonomyTypeOK, \A x \in Names \ concept : parent[x] = Root
  PROVE  Climb(Restrict(parent, concept), n) = WayUp(parent, n)
<1>1. concept \subseteq Names /\ parent \in [Names -> Names \cup {Root}]
  BY DEF TaxonomyTypeOK
<1>2. DOMAIN Restrict(parent, concept) = concept /\ \A x \in concept : Restrict(parent, concept)[x] = parent[x]
  BY DEF Restrict
<1>3. ASSUME NEW x \in Names
      PROVE  Up(Restrict(parent, concept), x) = parent[x]
  BY <1>2 DEF Up
<1>4. [x \in Names |-> Up(Restrict(parent, concept), x)] = parent
  BY <1>1, <1>3
<1>5. QED
  BY <1>4 DEF Climb

(* The invariant is at least what the run checks. *)
LEMMA TaxEnough == TaxInv => TaxonomyTypeOK /\ HierarchySound /\ CountsTrue
<1> SUFFICES ASSUME TaxInv
             PROVE  TaxonomyTypeOK /\ HierarchySound /\ CountsTrue
  OBVIOUS
<1>1. TaxonomyTypeOK
  BY DEF TaxInv, TaxTyped
<1>2. HierarchySound
  <2> SUFFICES ASSUME ~overlap
               PROVE  HierarchySound
    BY DEF HierarchySound
  <2>1. ForestOK
    BY DEF TaxInv
  <2>2. \A n \in concept : n \in Names /\ Climb(Restrict(parent, concept), n) = WayUp(parent, n)
    BY <1>1, <2>1, StoredWalk DEF ForestOK, TaxonomyTypeOK
  <2>3. \A n \in concept : Straight(parent, n)
    BY <2>1 DEF ForestOK
  <2>4. ASSUME NEW n \in concept
        PROVE  LET walk == Climb(Restrict(parent, concept), n) IN
               /\ ~\E i, j \in DOMAIN walk : i < j /\ walk[i] = walk[j] /\ walk[i] # Root
               /\ Cardinality({i \in DOMAIN walk : walk[i] # Root}) <= (IF MaxDepth = 0 THEN 1 ELSE MaxDepth)
    <3>1. PICK walk : walk = Climb(Restrict(parent, concept), n)
      OBVIOUS
    <3>2. /\ \A i, j \in DOMAIN walk : i < j /\ walk[i] = walk[j] => walk[i] = Root
          /\ Cardinality({i \in DOMAIN walk : walk[i] # Root}) <= (IF MaxDepth = 0 THEN 1 ELSE MaxDepth)
      BY <2>2, <2>3, <3>1 DEF Straight
    <3>3. QED
      BY <3>1, <3>2
  <2>5. QED
    BY <2>1, <2>4 DEF HierarchySound, ForestOK
<1>3. CountsTrue
  <2> SUFFICES ASSUME ~tangled, \A s \in Saves : save[s].pc \in {"idle", "done"}
               PROVE  \A n \in concept : counts[n] = tags[n]
    BY DEF CountsTrue
  <2>1. \A s \in Saves : save[s].pc \notin SaveActive
    BY DEF SaveActive
  <2>2. QED
    BY <2>1 DEF TaxInv, CountsOK
<1>4. QED
  BY <1>1, <1>2, <1>3

(* The initial state has no concept and no save. *)
LEMMA InitTax == TaxonomyInit => TaxInv
<1> SUFFICES ASSUME TaxonomyInit
             PROVE  TaxInv
  OBVIOUS
<1>1. NotStarted.pc = "idle"
  BY DEF NotStarted
<1>2. \A s \in Saves : save[s].pc = "idle"
  BY DEF TaxonomyInit
<1>3. counts \in [Names -> 0 .. MaxTags] /\ tags \in [Names -> 0 .. MaxTags]
  BY DEF TaxonomyInit, MaxTags
<1>4. save \in [Saves -> [pc : {"idle", "done"} \cup SaveActive, names : SUBSET Names, read : [Names -> 0 .. MaxTags]]]
  BY <1>3 DEF TaxonomyInit
<1>5. TaxTyped
  BY <1>1, <1>2, <1>3, <1>4 DEF TaxTyped, TaxonomyTypeOK, TaxonomyInit
<1>6. ForestOK
  BY <1>1 DEF TaxonomyInit, ForestOK
<1>7. CountsOK
  BY <1>2 DEF TaxonomyInit, CountsOK, SaveActive
<1>8. QED
  BY <1>5, <1>6, <1>7 DEF TaxInv

(* What is said of rebuilds keeps in a step that leaves them and the rows alone. *)
LEMMA ForestFrame ==
  ASSUME ForestOK, UNCHANGED <<concept, parent, rebuilding>>
  PROVE  ForestOK'
BY DEF ForestOK, LoadedOK, Straight

(* A save moves on. *)
LEMMA SaveMoves ==
  ASSUME TaxInv, NEW s \in Saves,
         NEW new \in [pc : {"idle", "done"} \cup SaveActive, names : SUBSET Names, read : [Names -> 0 .. MaxTags]],
         save' = [save EXCEPT ![s] = new]
  PROVE  /\ save' \in [Saves -> [pc : {"idle", "done"} \cup SaveActive, names : SUBSET Names, read : [Names -> 0 .. MaxTags]]]
         /\ save'[s] = new /\ \A o \in Saves \ {s} : save'[o] = save[o]
         /\ \A o \in Saves : save'[o].pc \in {"idle", "upsert", "count", "write", "done"}
<1>1. /\ save' \in [Saves -> [pc : {"idle", "done"} \cup SaveActive, names : SUBSET Names, read : [Names -> 0 .. MaxTags]]]
      /\ save'[s] = new /\ \A o \in Saves \ {s} : save'[o] = save[o]
  BY DEF TaxInv, TaxTyped
<1>2. QED
  BY <1>1 DEF SaveActive

(* A page is saved: the table changes. *)
LEMMA SavePageKeeps ==
  ASSUME TaxInv, NEW s \in Saves, NEW old \in Names \cup {Root}, NEW new \in SUBSET Names, SavePage(s, old, new)
  PROVE  TaxInv'
<1>1. TaxTyped
  BY DEF TaxInv
<1>2. tags' \in [Names -> 0 .. MaxTags]
  <2>1. ASSUME NEW n \in Names
        PROVE  tags[n] + (IF n \in new THEN 1 ELSE 0) - (IF n = old THEN 1 ELSE 0) \in 0 .. MaxTags
    <3>1. tags[n] \in 0 .. 2
      BY <1>1 DEF TaxTyped, TaxonomyTypeOK, MaxTags
    <3>2. (n \in new => tags[n] < 2) /\ (n = old => tags[n] > 0)
      BY TaxonomyAssumption DEF SavePage, MaxTags
    <3>3. QED
      BY <3>1, <3>2 DEF MaxTags
  <2>2. QED
    BY <2>1 DEF SavePage
<1>3. PICK c : c = [pc |-> "upsert", names |-> new, read |-> counts]
  OBVIOUS
<1>4. c \in [pc : {"idle", "done"} \cup SaveActive, names : SUBSET Names, read : [Names -> 0 .. MaxTags]] /\ c.pc = "upsert"
  BY <1>1, <1>3 DEF TaxTyped, TaxonomyTypeOK, SaveActive
<1>5. save' = [save EXCEPT ![s] = c] /\ save[s].pc = "idle"
  BY <1>3 DEF SavePage
<1>6. /\ save' \in [Saves -> [pc : {"idle", "done"} \cup SaveActive, names : SUBSET Names, read : [Names -> 0 .. MaxTags]]]
      /\ save'[s] = c /\ \A o \in Saves \ {s} : save'[o] = save[o]
      /\ \A o \in Saves : save'[o].pc \in {"idle", "upsert", "count", "write", "done"}
  BY <1>4, <1>5, SaveMoves
<1>7. UNCHANGED <<concept, parent, counts, rebuilding, overlap>>
  BY DEF SavePage
<1>8. tangled' \in BOOLEAN
  BY DEF SavePage
<1>9. TaxTyped'
  BY <1>1, <1>2, <1>6, <1>7, <1>8 DEF TaxTyped, TaxonomyTypeOK
<1>10. ~overlap' => ForestOK'
  BY <1>7, ForestFrame DEF TaxInv
<1>11. ASSUME ~tangled'
       PROVE  CountsOK'
  <2>1. \A o \in Saves \ {s} : save[o].pc \in {"idle", "done"}
    BY <1>11 DEF SavePage
  <2>2. \A o \in Saves : save'[o].pc \in SaveActive => o = s
    BY <1>6, <2>1 DEF SaveActive
  <2>3. QED
    BY <1>4, <1>6, <2>2 DEF CountsOK, SaveActive
<1>12. QED
  BY <1>9, <1>10, <1>11 DEF TaxInv

(* The new concepts have no parent. *)
LEMMA UpsertKeeps ==
  ASSUME TaxInv, NEW s \in Saves, upsert_concepts(s)
  PROVE  TaxInv'
<1>1. TaxTyped
  BY DEF TaxInv
<1>2. PICK c : c = [save[s] EXCEPT !.pc = "count"]
  OBVIOUS
<1>3. c \in [pc : {"idle", "done"} \cup SaveActive, names : SUBSET Names, read : [Names -> 0 .. MaxTags]] /\ c.pc = "count"
  BY <1>1, <1>2 DEF TaxTyped, SaveActive
<1>4. save' = [save EXCEPT ![s] = c] /\ save[s].pc = "upsert" /\ concept' = concept \cup save[s].names
  BY <1>2 DEF upsert_concepts
<1>5. /\ save' \in [Saves -> [pc : {"idle", "done"} \cup SaveActive, names : SUBSET Names, read : [Names -> 0 .. MaxTags]]]
      /\ save'[s] = c /\ \A o \in Saves \ {s} : save'[o] = save[o]
      /\ \A o \in Saves : save'[o].pc \in {"idle", "upsert", "count", "write", "done"}
  BY <1>3, <1>4, SaveMoves
<1>6. UNCHANGED <<parent, counts, tags, rebuilding, overlap, tangled>>
  BY DEF upsert_concepts
<1>7. concept \subseteq concept' /\ concept' \subseteq Names
  BY <1>1, <1>4 DEF TaxTyped, TaxonomyTypeOK
<1>8. TaxTyped'
  BY <1>1, <1>5, <1>6, <1>7 DEF TaxTyped, TaxonomyTypeOK
<1>9. ASSUME ~overlap'
      PROVE  ForestOK'
  <2>1. ForestOK
    BY <1>6, <1>9 DEF TaxInv
  <2>2. parent \in [Names -> Names \cup {Root}]
    BY <1>1 DEF TaxTyped, TaxonomyTypeOK
  <2>3. ASSUME NEW n \in concept'
        PROVE  parent[n] \in concept' \cup {Root} /\ Straight(parent, n)
    BY <1>7, <2>1, <2>2, RootStraight DEF ForestOK
  <2>4. \A n \in concept' : Straight(parent, n)'
    BY <1>6, <2>3 DEF Straight
  <2>5. \A r \in Rebuilds : LoadedOK(r) => LoadedOK(r)'
    BY <1>6, <1>7 DEF LoadedOK
  <2>6. QED
    BY <1>6, <1>7, <2>1, <2>3, <2>4, <2>5 DEF ForestOK
<1>10. ASSUME ~tangled'
       PROVE  CountsOK'
  <2>1. CountsOK
    BY <1>6, <1>10 DEF TaxInv
  <2>2. QED
    BY <1>3, <1>4, <1>5, <1>6, <2>1 DEF CountsOK, SaveActive
<1>11. QED
  BY <1>8, <1>9, <1>10 DEF TaxInv

(* The table is read. *)
LEMMA ReadCountsKeeps ==
  ASSUME TaxInv, NEW s \in Saves, ReadCounts(s)
  PROVE  TaxInv'
<1>1. TaxTyped
  BY DEF TaxInv
<1>2. PICK c : c = [save[s] EXCEPT !.pc = "write", !.read = tags]
  OBVIOUS
<1>3. c \in [pc : {"idle", "done"} \cup SaveActive, names : SUBSET Names, read : [Names -> 0 .. MaxTags]]
      /\ c.pc = "write" /\ c.read = tags
  BY <1>1, <1>2 DEF TaxTyped, TaxonomyTypeOK, SaveActive
<1>4. save' = [save EXCEPT ![s] = c] /\ save[s].pc = "count"
  BY <1>1, <1>2 DEF ReadCounts, TaxTyped
<1>5. /\ save' \in [Saves -> [pc : {"idle", "done"} \cup SaveActive, names : SUBSET Names, read : [Names -> 0 .. MaxTags]]]
      /\ save'[s] = c /\ \A o \in Saves \ {s} : save'[o] = save[o]
      /\ \A o \in Saves : save'[o].pc \in {"idle", "upsert", "count", "write", "done"}
  BY <1>3, <1>4, SaveMoves
<1>6. UNCHANGED <<concept, parent, counts, tags, rebuilding, overlap, tangled>>
  BY DEF ReadCounts
<1>7. TaxTyped'
  BY <1>1, <1>5, <1>6 DEF TaxTyped, TaxonomyTypeOK
<1>8. ~overlap' => ForestOK'
  BY <1>6, ForestFrame DEF TaxInv
<1>9. ASSUME ~tangled'
       PROVE  CountsOK'
  <2>1. CountsOK
    BY <1>6, <1>9 DEF TaxInv
  <2>2. QED
    BY <1>3, <1>4, <1>5, <1>6, <2>1 DEF CountsOK, SaveActive
<1>10. QED
  BY <1>7, <1>8, <1>9 DEF TaxInv

(* The counts are written. *)
LEMMA WriteCountsKeeps ==
  ASSUME TaxInv, NEW s \in Saves, update_article_counts(s)
  PROVE  TaxInv'
<1>1. TaxTyped
  BY DEF TaxInv
<1>2. PICK c : c = [save[s] EXCEPT !.pc = "done"]
  OBVIOUS
<1>3. c \in [pc : {"idle", "done"} \cup SaveActive, names : SUBSET Names, read : [Names -> 0 .. MaxTags]] /\ c.pc = "done"
  BY <1>1, <1>2 DEF TaxTyped, SaveActive
<1>4. save' = [save EXCEPT ![s] = c] /\ save[s].pc = "write"
  BY <1>2 DEF update_article_counts
<1>5. /\ save' \in [Saves -> [pc : {"idle", "done"} \cup SaveActive, names : SUBSET Names, read : [Names -> 0 .. MaxTags]]]
      /\ save'[s] = c /\ \A o \in Saves \ {s} : save'[o] = save[o]
      /\ \A o \in Saves : save'[o].pc \in {"idle", "upsert", "count", "write", "done"}
  BY <1>3, <1>4, SaveMoves
<1>6. UNCHANGED <<concept, parent, tags, rebuilding, overlap, tangled>>
  BY DEF update_article_counts
<1>7. counts' = [n \in Names |-> IF n \in concept THEN save[s].read[n] ELSE counts[n]]
  BY DEF update_article_counts
<1>8. counts' \in [Names -> 0 .. MaxTags]
  BY <1>1, <1>7 DEF TaxTyped, TaxonomyTypeOK
<1>9. TaxTyped'
  BY <1>1, <1>5, <1>6, <1>8 DEF TaxTyped, TaxonomyTypeOK
<1>10. ~overlap' => ForestOK'
  BY <1>6, ForestFrame DEF TaxInv
<1>11. ASSUME ~tangled'
       PROVE  CountsOK'
  <2>1. CountsOK /\ save[s].read = tags
    BY <1>4, <1>6, <1>11 DEF TaxInv, CountsOK
  <2>2. \A n \in concept : counts'[n] = tags[n]
    BY <1>1, <1>7, <2>1 DEF TaxTyped, TaxonomyTypeOK
  <2>3. QED
    BY <1>3, <1>4, <1>5, <1>6, <2>1, <2>2 DEF CountsOK, SaveActive
<1>12. QED
  BY <1>9, <1>10, <1>11 DEF TaxInv

(* A rebuild loads the rows: with none under way, what it loaded is what is    *)
(* there.                                                                      *)
LEMMA LoadKeeps ==
  ASSUME TaxInv, NEW r \in Rebuilds, NEW requested \in BOOLEAN, LoadConcepts(r, requested)
  PROVE  TaxInv'
<1>1. TaxTyped
  BY DEF TaxInv
<1>2. PICK c : c = [pc |-> "llm", loaded |-> Restrict(parent, concept), answer |-> {}]
  OBVIOUS
<1>3. c.pc = "llm" /\ c.loaded = Restrict(parent, concept)
  BY <1>2
<1>4. rebuilding' = [rebuilding EXCEPT ![r] = c]
  BY <1>2 DEF LoadConcepts
<1>5. rebuilding' = [q \in Rebuilds |-> rebuilding'[q]] /\ rebuilding'[r] = c /\ \A q \in Rebuilds \ {r} : rebuilding'[q] = rebuilding[q]
  BY <1>1, <1>4 DEF TaxTyped
<1>6. UNCHANGED <<concept, parent, counts, tags, save, tangled>> /\ overlap' \in BOOLEAN
  BY DEF LoadConcepts
<1>7. TaxTyped'
  BY <1>1, <1>3, <1>5, <1>6 DEF TaxTyped, TaxonomyTypeOK
<1>8. ASSUME ~overlap'
      PROVE  ForestOK'
  <2>1. ForestOK /\ \A q \in Rebuilds \ {r} : rebuilding[q].pc # "llm"
    BY <1>8 DEF TaxInv, LoadConcepts
  <2>2. DOMAIN Restrict(parent, concept) = concept /\ \A x \in concept : Restrict(parent, concept)[x] = parent[x]
    BY DEF Restrict
  <2>3. LoadedOK(r)'
    BY <1>3, <1>5, <1>6, <2>1, <2>2 DEF LoadedOK, ForestOK
  <2>4. \A n \in concept : Straight(parent, n)'
    BY <1>6, <2>1 DEF Straight, ForestOK
  <2>5. QED
    BY <1>5, <1>6, <2>1, <2>3, <2>4 DEF ForestOK
<1>9. ~tangled' => CountsOK'
  BY <1>6 DEF TaxInv, CountsOK
<1>10. QED
  BY <1>7, <1>8, <1>9 DEF TaxInv

(* A mapping that passed its checks has only straight walks. *)
LEMMA CheckedStraight ==
  ASSUME NEW m, NEW n \in DOMAIN m, ~_has_cycles(m), ~_exceeds_max_depth(m, MaxDepth)
  PROVE  Straight([x \in Names |-> Up(m, x)], n)
<1>1. PICK up : up = [x \in Names |-> Up(m, x)]
  OBVIOUS
<1>2. PICK w : w = WayUp(up, n)
  OBVIOUS
<1>3. w = Climb(m, n)
  BY <1>1, <1>2 DEF Climb
<1>4. \A i, j \in DOMAIN w : i < j /\ w[i] = w[j] => w[i] = Root
  BY <1>3 DEF _has_cycles
<1>5. ~(Cardinality({i \in DOMAIN w : w[i] # Root}) > MaxDepth)
  BY <1>3 DEF _exceeds_max_depth
<1>6. PICK I : I = {i \in DOMAIN w : w[i] # Root}
  OBVIOUS
<1>7. Cardinality(I) \in Nat
  <2>1. DOMAIN w = 0 .. Cardinality(Names) + 1 /\ Cardinality(Names) + 1 \in Nat
    BY <1>2, WalkIs, TaxonomyAssumption, FS_CardinalityType
  <2>2. IsFiniteSet(DOMAIN w)
    BY <2>1, FS_Interval
  <2>3. QED
    BY <1>6, <2>2, FS_Subset, FS_CardinalityType
<1>8. Cardinality(I) <= (IF MaxDepth = 0 THEN 1 ELSE MaxDepth)
  BY <1>5, <1>6, <1>7, TaxonomyAssumption
<1>9. Straight(up, n)
  BY <1>2, <1>4, <1>6, <1>8 DEF Straight
<1>10. QED
  BY <1>1, <1>9

(* A rebuild writes an answer that it checked: with no other under way, what   *)
(* is stored is that answer.                                                   *)
LEMMA ApplyKeeps ==
  ASSUME TaxInv, NEW r \in Rebuilds, ApplyRebuild(r)
  PROVE  TaxInv'
<1>1. TaxTyped /\ parent \in [Names -> Names \cup {Root}] /\ concept \subseteq Names
  BY DEF TaxInv, TaxTyped, TaxonomyTypeOK
<1>2. PICK c : c = [NotStarted EXCEPT !.pc = "done"]
  OBVIOUS
<1>3. c.pc = "done"
  BY <1>2 DEF NotStarted
<1>4. rebuilding' = [rebuilding EXCEPT ![r] = c] /\ rebuilding[r].pc = "llm"
  BY <1>2 DEF ApplyRebuild
<1>5. rebuilding' = [q \in Rebuilds |-> rebuilding'[q]] /\ rebuilding'[r] = c /\ \A q \in Rebuilds \ {r} : rebuilding'[q] = rebuilding[q]
  BY <1>1, <1>4 DEF TaxTyped
<1>6. UNCHANGED <<concept, counts, tags, save, overlap, tangled>>
  BY DEF ApplyRebuild
<1>7. PICK loaded : loaded = rebuilding[r].loaded
  OBVIOUS
<1>8. CASE parent' = parent
  <2>1. TaxTyped'
    BY <1>1, <1>3, <1>5, <1>6, <1>8 DEF TaxTyped, TaxonomyTypeOK
  <2>2. ASSUME ~overlap'
        PROVE  ForestOK'
    <3>1. ForestOK
      BY <1>6, <2>2 DEF TaxInv
    <3>2. \A q \in Rebuilds : rebuilding'[q].pc # "llm"
      BY <1>3, <1>4, <1>5, <3>1 DEF ForestOK
    <3>3. \A n \in concept : Straight(parent, n)'
      BY <1>8, <3>1 DEF Straight, ForestOK
    <3>4. QED
      BY <1>6, <1>8, <3>1, <3>2, <3>3 DEF ForestOK
  <2>3. ~tangled' => CountsOK'
    BY <1>6 DEF TaxInv, CountsOK
  <2>4. QED
    BY <2>1, <2>2, <2>3 DEF TaxInv
<1>9. CASE parent' # parent
  <2>0. PICK entries \in [Names -> Names \cup {Root}] :
            LET m == _build_parent_mapping(entries, DOMAIN loaded)
            IN  /\ ~_has_cycles(m) /\ ~_exceeds_max_depth(m, MaxDepth)
                /\ parent' = _apply_parent_mapping(m, loaded)
    BY <1>7, <1>9 DEF ApplyRebuild
  <2>1. PICK m : /\ m = _build_parent_mapping(entries, DOMAIN loaded)
                 /\ ~_has_cycles(m) /\ ~_exceeds_max_depth(m, MaxDepth)
                 /\ parent' = _apply_parent_mapping(m, loaded)
    BY <2>0
  <2>2. DOMAIN m = Names \cap DOMAIN loaded /\ \A n \in DOMAIN m : m[n] \in (Names \cap DOMAIN loaded) \cup {Root}
    BY <2>1 DEF _build_parent_mapping
  <2>3. \A n \in Names : Up(m, n) \in (Names \cap DOMAIN loaded) \cup {Root}
    BY <2>2 DEF Up
  <2>4. \A n \in Names : n \notin DOMAIN loaded => Up(m, n) = Root
    BY <2>2 DEF Up
  <2>5. parent' = [n \in Names |-> IF n \in DOMAIN loaded /\ Up(m, n) # loaded[n] THEN Up(m, n) ELSE parent[n]]
    BY <2>1 DEF _apply_parent_mapping
  <2>6. parent' \in [Names -> Names \cup {Root}]
    BY <1>1, <2>3, <2>5
  <2>7. TaxTyped'
    BY <1>1, <1>3, <1>5, <1>6, <2>6 DEF TaxTyped, TaxonomyTypeOK
  <2>8. ASSUME ~overlap'
        PROVE  ForestOK'
    <3>1. ForestOK /\ LoadedOK(r)
      BY <1>4, <1>6, <2>8 DEF TaxInv, ForestOK
    <3>2. \A q \in Rebuilds : rebuilding'[q].pc # "llm"
      BY <1>3, <1>4, <1>5, <3>1 DEF ForestOK
    <3>3. /\ DOMAIN loaded \subseteq concept
          /\ \A n \in DOMAIN loaded : loaded[n] = parent[n]
          /\ \A n \in Names \ DOMAIN loaded : parent[n] = Root
      BY <1>7, <3>1 DEF LoadedOK
    <3>4. \A n \in Names : parent'[n] = Up(m, n)
      BY <1>1, <2>4, <2>5, <3>3
    <3>5. parent' = [n \in Names |-> Up(m, n)]
      BY <2>6, <3>4
    <3>6. ASSUME NEW n \in concept
          PROVE  Straight(parent', n)
      <4>1. CASE n \in DOMAIN loaded
        BY <1>1, <2>1, <2>2, <3>5, <4>1, CheckedStraight
      <4>2. CASE n \notin DOMAIN loaded
        <5>1. parent'[n] = Root /\ n \in Names
          BY <1>1, <2>4, <3>4, <4>2
        <5>2. QED
          BY <2>6, <5>1, RootStraight
      <4>3. QED
        BY <4>1, <4>2
    <3>7. \A n \in concept : Straight(parent, n)'
      BY <3>6 DEF Straight
    <3>8. \A n \in Names : parent'[n] \in concept \cup {Root}
      BY <2>3, <3>3, <3>4
    <3>9. \A n \in Names \ concept : parent'[n] = Root
      BY <2>4, <3>3, <3>4
    <3>10. QED
      BY <1>1, <1>6, <3>2, <3>7, <3>8, <3>9 DEF ForestOK
  <2>9. ~tangled' => CountsOK'
    BY <1>6 DEF TaxInv, CountsOK
  <2>10. QED
    BY <2>7, <2>8, <2>9 DEF TaxInv
<1>10. QED
  BY <1>8, <1>9

(* Every step keeps the invariant of the taxonomy. *)
LEMMA NextTax == TaxInv /\ [TaxonomyNext]_taxVars => TaxInv'
<1> SUFFICES ASSUME TaxInv, [TaxonomyNext]_taxVars
             PROVE  TaxInv'
  OBVIOUS
<1>1. CASE UNCHANGED taxVars
  <2>1. UNCHANGED <<concept, parent, counts, tags, rebuilding, save, overlap, tangled>>
    BY <1>1 DEF taxVars
  <2>2. ForestOK => ForestOK'
    BY <2>1, ForestFrame
  <2>3. TaxTyped' /\ (CountsOK => CountsOK')
    BY <2>1 DEF TaxInv, TaxTyped, TaxonomyTypeOK, CountsOK
  <2>4. QED
    BY <2>1, <2>2, <2>3 DEF TaxInv
<1>2. CASE TaxonomyNext
  BY <1>2, SavePageKeeps, UpsertKeeps, ReadCountsKeeps, WriteCountsKeeps, LoadKeeps, ApplyKeeps DEF TaxonomyNext
<1>3. QED
  BY <1>1, <1>2

-----------------------------------------------------------------------------
(* Confidence and staleness *)

Total(q) == FoldSeq(+, 0, q)

Claims == Seq([level : Levels, sources : Nat])

FreshTyped ==
    /\ clock \in Nat /\ contras \in Nat
    /\ art = [score |-> art.score, at |-> art.at, newest |-> art.newest]
    /\ art.score \in 0 .. One /\ art.at \in {Never} \cup 0 .. clock
    /\ claimRows \in Seq(0 .. One)
    /\ events \subseteq 0 .. clock
    /\ scoring \in [Scorings -> [pc : {"idle", "persist", "refresh", "done"}, claims : Claims]]

(* ScoreIsOfClaims, with the sum named. *)
ScoreOK ==
    (\A c \in Scorings : scoring[c].pc \notin {"persist", "refresh"}) /\ ~torn /\ claimRows # <<>>
        => /\ art.score * Len(claimRows) <= Total(claimRows)
           /\ Total(claimRows) - art.score * Len(claimRows) < Len(claimRows)

FreshInv == FreshTyped /\ ScoreOK /\ ReinforcedLast

-----------------------------------------------------------------------------
(* Confidence and staleness: the proofs *)

(* The sum of scores is at most One for each. *)
LEMMA FoldBound ==
  ASSUME NEW q \in Seq(0 .. One)
  PROVE  Total(q) \in Nat /\ Total(q) <= One * Len(q)
<1>1. PICK f : IsSum(f, q, DOMAIN q) /\ FoldSeq(+, 0, q) = f[DOMAIN q]
  BY FoldIs
<1>2. DOMAIN q = 1 .. Len(q) /\ Len(q) \in Nat
  BY LenProperties
<1>3. IsFiniteSet(DOMAIN q) /\ Cardinality(DOMAIN q) = Len(q)
  <2>1. PICK l : l = Len(q)
    OBVIOUS
  <2>2. l \in Nat /\ DOMAIN q = 1 .. l
    BY <1>2, <2>1
  <2>3. IsFiniteSet(1 .. l) /\ Cardinality(1 .. l) = l
    BY <2>2, FS_Interval
  <2>4. QED
    BY <2>1, <2>2, <2>3
<1>4. \A x \in DOMAIN q : q[x] \in 0 .. One
  BY <1>2, ElementOfSeq
<1>5. One \in Nat
  BY DEF One
<1>6. f[DOMAIN q] \in Nat /\ f[DOMAIN q] <= One * Len(q)
  BY <1>1, <1>3, <1>4, <1>5, SumBound
<1>7. QED
  BY <1>1, <1>6 DEF Total

(* The mean of scores, rounded down, is a score. *)
LEMMA MeanIs ==
  ASSUME NEW q \in Seq(0 .. One), q # <<>>, NEW m, m = aggregate_claim_confidence(q)
  PROVE  /\ m \in 0 .. One /\ m * Len(q) <= Total(q)
         /\ Total(q) - m * Len(q) < Len(q)
<1>1. PICK t, n : t = Total(q) /\ n = Len(q)
  OBVIOUS
<1>2. t \in Nat /\ n \in Nat /\ t <= 12000 * n
  <2>1. Total(q) \in Nat /\ Total(q) <= One * Len(q)
    BY FoldBound
  <2>2. Len(q) \in Nat
    BY LenProperties
  <2>3. QED
    BY <1>1, <2>1, <2>2 DEF One
<1>3. n > 0
  <2>1. n # 0
    BY <1>1, EmptySeq
  <2>2. QED
    BY <1>2, <2>1
<1>4. PICK d : d = t \div n
  OBVIOUS
<1>5. d \in Nat /\ d * n <= t /\ t - d * n < n
  BY <1>2, <1>3, <1>4
<1>6. d <= 12000
  <2>1. CASE d > 12000
    <3>1. d * n >= 12001 * n
      BY <1>2, <1>5, <2>1
    <3>2. QED
      BY <1>2, <1>3, <1>5, <3>1
  <2>2. QED
    BY <1>5, <2>1
<1>7. m = d
  <2>1. m = LeastOf(One, Total(q) \div Len(q))
    BY DEF aggregate_claim_confidence, _clamp01, Total
  <2>2. QED
    BY <1>1, <1>4, <1>5, <1>6, <2>1, SMTT(40) DEF LeastOf, One
<1>8. m \in 0 .. 12000 /\ m * n <= t /\ t - m * n < n
  BY <1>5, <1>6, <1>7
<1>9. QED
  BY <1>1, <1>8 DEF One

(* A claim's score, and the score of an article without claims. *)
LEMMA ScoresTyped ==
  /\ \A c \in [level : Levels, sources : Nat] : compute_claim_confidence(BackedBy(c)) \in 0 .. One
  /\ \A n, d, k \in Nat : compute_confidence(n, d, k) \in 0 .. One
<1>1. ASSUME NEW c \in [level : Levels, sources : Nat]
      PROVE  compute_claim_confidence(BackedBy(c)) \in 0 .. One
  <2>1. PICK b : b = BackedBy(c)
    OBVIOUS
  <2>2. b.level \in Levels /\ b.sources \in Nat
    BY <2>1 DEF BackedBy
  <2>3. PICK base : base = Baseline[b.level]
    OBVIOUS
  <2>4. base \in {8, 5, 3, 2}
    BY <2>2, <2>3 DEF Baseline, Levels
  <2>5. PICK n : n = LeastOf(4, b.sources)
    OBVIOUS
  <2>6. n \in 0 .. 4
    BY <2>2, <2>5 DEF LeastOf
  <2>7. PICK v : v = (One * base) \div 10 + (One * n) \div 20
    OBVIOUS
  <2>8. v \in Nat
    BY <2>4, <2>6, <2>7 DEF One
  <2>9. compute_claim_confidence(b) = LeastOf(One, v)
    BY <2>3, <2>5, <2>7 DEF compute_claim_confidence, _clamp01
  <2>10. QED
    BY <2>1, <2>8, <2>9 DEF LeastOf, One
<1>2. ASSUME NEW n \in Nat, NEW d \in Nat, NEW k \in Nat
      PROVE  compute_confidence(n, d, k) \in 0 .. One
  <2>1. PICK a, b, e : a = LeastOf(4, n) /\ b = AtLeast0(365, d) /\ e = AtLeast0(4, k)
    OBVIOUS
  <2>2. a \in Nat /\ b \in Nat /\ e \in Nat
    BY <2>1 DEF LeastOf, AtLeast0
  <2>3. PICK v : v = (One * 4 * a) \div 40 + (One * 3 * b) \div 3650 + (One * 14) \div 100 + (One * e) \div 40
    OBVIOUS
  <2>4. v \in Nat
    BY <2>2, <2>3 DEF One
  <2>5. compute_confidence(n, d, k) = LeastOf(One, v)
    BY <2>1, <2>3 DEF compute_confidence, _clamp01
  <2>6. QED
    BY <2>4, <2>5 DEF LeastOf, One
<1>3. QED
  BY <1>1, <1>2

(* A greater product for a greater factor. *)
LEMMA TimesMore ==
  ASSUME NEW s \in Nat, NEW a \in Nat, NEW b \in Nat, a <= b
  PROVE  s * a <= s * b
<1>1. PICK e \in Nat : b = a + e
  BY DEF Nat
<1>2. s * b = s * a + s * e /\ s * e \in Nat /\ s * a \in Nat
  BY <1>1
<1>3. QED
  BY <1>2

(* What decays stays between half the score and the score, and falls.  *)
LEMMA DecayIs ==
  ASSUME NEW s \in 0 .. One, NEW d \in Nat, NEW e \in Nat, e <= d
  PROVE  /\ apply_decay(s, d) \in Nat /\ apply_decay(s, d) <= s
         /\ 2 * apply_decay(s, d) + 1 >= s /\ apply_decay(s, e) >= apply_decay(s, d)
<1> DEFINE Kept(n) == 7300 - LeastOf(6 * n, 3650)
<1>1. \A n \in Nat : Kept(n) \in 3650 .. 7300
  BY DEF LeastOf
<1>2. Kept(d) <= Kept(e)
  BY DEF LeastOf
<1>3. \A n : apply_decay(s, n) = _clamp01((s * Kept(n)) \div 7300)
  BY DEF apply_decay
<1>4. PICK k, l : k = Kept(d) /\ l = Kept(e)
  OBVIOUS
<1>5. k \in Nat /\ l \in Nat /\ 3650 <= k /\ k <= l /\ l <= 7300
  <2>1. Kept(d) \in 3650 .. 7300 /\ Kept(e) \in 3650 .. 7300
    BY <1>1, SMTT(40)
  <2>2. k \in 3650 .. 7300 /\ l \in 3650 .. 7300 /\ k <= l
    BY <1>2, <1>4, <2>1
  <2>3. QED
    BY <2>2
<1> HIDE DEF Kept
<1>6. s \in Nat /\ s <= 12000
  BY DEF One
<1>7. s * 3650 <= s * k /\ s * k <= s * l /\ s * l <= s * 7300
  BY <1>5, <1>6, TimesMore
<1>8. PICK p, q : p = s * k /\ q = s * l
  OBVIOUS
<1>9. p \in Nat /\ q \in Nat /\ 3650 * s <= p /\ p <= q /\ q <= 7300 * s
  BY <1>5, <1>6, <1>7, <1>8
<1>10. PICK a, b : a = p \div 7300 /\ b = q \div 7300
  OBVIOUS
<1>11. a \in Nat /\ b \in Nat /\ a <= b /\ b <= s /\ 2 * a + 1 >= s
  BY <1>6, <1>9, <1>10
<1>12. apply_decay(s, d) = LeastOf(One, a) /\ apply_decay(s, e) = LeastOf(One, b)
  BY <1>3, <1>4, <1>8, <1>10 DEF _clamp01
<1>13. apply_decay(s, d) = a /\ apply_decay(s, e) = b
  BY <1>6, <1>11, <1>12 DEF LeastOf, One
<1>14. a \in Nat /\ a <= s /\ 2 * a + 1 >= s /\ b >= a
  BY <1>6, <1>11
<1>15. QED
  BY <1>13, <1>14

(* The invariant is at least what the run checks. *)
LEMMA FreshEnough == FreshInv => FreshTypeOK /\ ScoreIsOfClaims /\ ReinforcedLast /\ DecayBounded /\ StaleViewsAgree
<1> SUFFICES ASSUME FreshInv
             PROVE  FreshTypeOK /\ ScoreIsOfClaims /\ ReinforcedLast /\ DecayBounded /\ StaleViewsAgree
  OBVIOUS
<1>1. /\ clock \in Nat /\ art.score \in 0 .. One /\ (art.at = Never \/ art.at \in 0 .. clock)
      /\ claimRows \in Seq(0 .. One)
  BY DEF FreshInv, FreshTyped
<1>2. FreshTypeOK
  BY <1>1, ElementOfSeq, LenProperties DEF FreshTypeOK
<1>3. art.at # Never => HalfDays(art) \in Nat /\ HalfDays(art) \div 2 \in Nat
  BY <1>1 DEF HalfDays
<1>4. DecayBounded
  <2>1. CASE art.at = Never
    <3>1. PICK n : n = art.score
      OBVIOUS
    <3>2. n \in Nat /\ _effective_confidence(art) = n
      <4>1. n \in 0 .. One
        BY <1>1, <3>1
      <4>2. n \in Nat
        BY <4>1 DEF One
      <4>3. QED
        BY <2>1, <3>1, <4>2 DEF _effective_confidence
    <3>3. 2 * n + 1 >= n /\ n <= n
      BY <3>2
    <3>4. QED
      BY <2>1, <3>1, <3>2, <3>3 DEF DecayBounded
  <2>2. CASE art.at # Never
    <3>1. PICK n : n = HalfDays(art) \div 2
      OBVIOUS
    <3>2. _effective_confidence(art) = apply_decay(art.score, n) /\ n \in Nat
      BY <1>3, <2>2, <3>1 DEF _effective_confidence
    <3>3. n <= n
      BY <3>2
    <3>4. 2 * apply_decay(art.score, n) + 1 >= art.score /\ apply_decay(art.score, n) <= art.score
      BY <1>1, <3>2, <3>3, DecayIs
    <3>5. \A d \in 0 .. n : d \in Nat /\ d <= n
      BY <3>2
    <3>6. \A d \in 0 .. n : apply_decay(art.score, d) >= apply_decay(art.score, n)
      BY <1>1, <3>2, <3>5, DecayIs
    <3>7. QED
      BY <3>1, <3>2, <3>4, <3>6 DEF DecayBounded
  <2>3. QED
    BY <2>1, <2>2
<1>5. StaleViewsAgree
  <2>1. PICK t : t = _staleness_score(art)
    OBVIOUS
  <2>2. t \in Nat
    <3>1. CASE art.at = Never
      BY <2>1, <3>1 DEF _staleness_score, One
    <3>2. CASE art.at # Never
      <4>1. PICK h : h = HalfDays(art)
        OBVIOUS
      <4>2. (h * 2 * 12000) \div 2000 \in Nat
        BY <1>3, <3>2, <4>1
      <4>3. QED
        BY <2>1, <3>2, <4>1, <4>2 DEF _staleness_score, compute_staleness, DecayRate, _clamp01, LeastOf, One
    <3>3. QED
      BY <3>1, <3>2
  <2>3. \A b \in {"low", "medium", "high"} : _matches_staleness_bucket(b, t) <=> _facet_staleness(t) = b
    BY <2>2 DEF _matches_staleness_bucket, _facet_staleness, One
  <2>4. detect_stale_articles(art) <=> t > 6000
    BY <2>1 DEF detect_stale_articles, LintThreshold, One
  <2>5. (t > 6000 => _facet_staleness(t) # "low") /\ (_facet_staleness(t) = "high" => t > 6000)
    BY <2>2 DEF _facet_staleness, One
  <2>6. QED
    BY <2>1, <2>3, <2>4, <2>5 DEF StaleViewsAgree
<1>6. ScoreIsOfClaims
  BY DEF FreshInv, ScoreOK, ScoreIsOfClaims, Total
<1>7. QED
  BY <1>2, <1>4, <1>5, <1>6 DEF FreshInv

(* The initial state: an article scored by default. *)
LEMMA InitFresh == FreshInit => FreshInv
<1> SUFFICES ASSUME FreshInit
             PROVE  FreshInv
  OBVIOUS
<1>1. art.score = 6000 /\ art.at = Never /\ art = [score |-> art.score, at |-> art.at, newest |-> art.newest]
  BY DEF FreshInit, One
<1>2. <<>> \in Claims /\ claimRows \in Seq(0 .. One)
  BY EmptySeq DEF FreshInit, Claims
<1>3. scoring \in [Scorings -> [pc : {"idle", "persist", "refresh", "done"}, claims : Claims]]
  BY <1>2 DEF FreshInit
<1>4. FreshTyped
  BY <1>1, <1>2, <1>3 DEF FreshTyped, FreshInit, One
<1>5. ScoreOK
  BY DEF FreshInit, ScoreOK
<1>6. ReinforcedLast
  BY <1>1 DEF FreshInit, ReinforcedLast
<1>7. QED
  BY <1>4, <1>5, <1>6 DEF FreshInv

(* The time of the last event is the latest, when time is the clock's. *)
LEMMA LatestIs ==
  ASSUME NEW t \in Nat, NEW E \in SUBSET (0 .. t)
  PROVE  Max(E \cup {t}) = t
<1>1. \A y \in E \cup {t} : t >= y
  OBVIOUS
<1>2. \A x \in E \cup {t} : (\A y \in E \cup {t} : x >= y) => x = t
  OBVIOUS
<1>3. QED
  BY <1>1, <1>2 DEF Max

(* One of the compiles moves on. *)
LEMMA ScoringMoves ==
  ASSUME FreshInv, NEW c \in Scorings, NEW new \in [pc : {"idle", "persist", "refresh", "done"}, claims : Claims],
         scoring' = [scoring EXCEPT ![c] = new]
  PROVE  /\ scoring' \in [Scorings -> [pc : {"idle", "persist", "refresh", "done"}, claims : Claims]]
         /\ scoring'[c] = new
BY DEF FreshInv, FreshTyped

(* Every step keeps the invariant of confidence. *)
LEMMA NextFresh == FreshInv /\ [FreshNext]_freshVars => FreshInv'
<1> SUFFICES ASSUME FreshInv, [FreshNext]_freshVars
             PROVE  FreshInv'
  OBVIOUS
<1>1. /\ clock \in Nat /\ contras \in Nat
      /\ art = [score |-> art.score, at |-> art.at, newest |-> art.newest]
      /\ art.score \in 0 .. One /\ art.at \in {Never} \cup 0 .. clock
      /\ claimRows \in Seq(0 .. One)
      /\ events \subseteq 0 .. clock
      /\ scoring \in [Scorings -> [pc : {"idle", "persist", "refresh", "done"}, claims : Claims]]
      /\ ScoreOK /\ ReinforcedLast
  BY DEF FreshInv, FreshTyped
<1>2. <<>> \in Claims /\ <<>> \in Seq(0 .. One)
  BY EmptySeq DEF Claims
<1>3. CASE UNCHANGED freshVars
  <2>1. UNCHANGED <<clock, art, claimRows, contras, events, scoring, torn>>
    BY <1>3 DEF freshVars
  <2>2. QED
    BY <1>1, <2>1 DEF FreshInv, FreshTyped, ScoreOK, ReinforcedLast
<1>4. ASSUME NEW c \in Scorings, NEW claims \in ClaimSets, ClearClaims(c, claims)
      PROVE  FreshInv'
  <2>1. UNCHANGED <<clock, art, contras, events, torn>> /\ claimRows' = <<>>
    BY <1>4 DEF ClearClaims
  <2>2. PICK new : new = [pc |-> "persist", claims |-> claims]
    OBVIOUS
  <2>3. new \in [pc : {"idle", "persist", "refresh", "done"}, claims : Claims]
    BY <2>2, FreshAssumption DEF Claims
  <2>4. scoring' \in [Scorings -> [pc : {"idle", "persist", "refresh", "done"}, claims : Claims]]
    BY <1>4, <2>2, <2>3, ScoringMoves DEF ClearClaims
  <2>5. FreshTyped'
    BY <1>1, <1>2, <2>1, <2>4 DEF FreshTyped
  <2>6. ScoreOK' /\ ReinforcedLast'
    BY <1>1, <2>1 DEF ScoreOK, ReinforcedLast
  <2>7. QED
    BY <2>5, <2>6 DEF FreshInv
<1>5. ASSUME NEW c \in Scorings, _persist_claims(c)
      PROVE  FreshInv'
  <2>1. UNCHANGED <<clock, art, contras, events, torn>>
    BY <1>5 DEF _persist_claims
  <2>2. scoring[c] \in [pc : {"idle", "persist", "refresh", "done"}, claims : Claims]
    BY <1>1
  <2>3. PICK new : new = [scoring[c] EXCEPT !.pc = "refresh"]
    OBVIOUS
  <2>4. new \in [pc : {"idle", "persist", "refresh", "done"}, claims : Claims] /\ new.pc = "refresh"
    BY <2>2, <2>3
  <2>5. scoring' \in [Scorings -> [pc : {"idle", "persist", "refresh", "done"}, claims : Claims]] /\ scoring'[c].pc = "refresh"
    BY <1>5, <2>3, <2>4, ScoringMoves DEF _persist_claims
  <2>6. PICK q : q = scoring[c].claims
    OBVIOUS
  <2>7. q \in Seq([level : Levels, sources : Nat]) /\ Len(q) \in Nat /\ DOMAIN q = 1 .. Len(q)
    BY <2>2, <2>6, LenProperties DEF Claims
  <2>8. PICK rows : rows = [i \in DOMAIN q |-> compute_claim_confidence(BackedBy(q[i]))]
    OBVIOUS
  <2>9. \A i \in 1 .. Len(q) : rows[i] \in 0 .. One
    BY <2>7, <2>8, ScoresTyped, ElementOfSeq
  <2>10. rows \in [1 .. Len(q) -> 0 .. One]
    BY <2>7, <2>8, <2>9
  <2>11. rows \in Seq(0 .. One)
    BY <2>7, <2>10, FunIsSeq
  <2>12. claimRows' = claimRows \o rows
    BY <1>5, <2>6, <2>8 DEF _persist_claims
  <2>13. claimRows' \in Seq(0 .. One)
    BY <1>1, <2>11, <2>12, ConcatProperties
  <2>14. FreshTyped'
    BY <1>1, <2>1, <2>5, <2>13 DEF FreshTyped
  <2>15. ScoreOK'
    BY <2>5 DEF ScoreOK
  <2>16. ReinforcedLast'
    BY <1>1, <2>1 DEF ReinforcedLast
  <2>17. QED
    BY <2>14, <2>15, <2>16 DEF FreshInv
<1>6. ASSUME NEW c \in Scorings, _refresh_confidence_score(c)
      PROVE  FreshInv'
  <2>1. UNCHANGED <<clock, claimRows, contras>> /\ events' = events \cup {clock}
    BY <1>6 DEF _refresh_confidence_score
  <2>2. PICK new : new = [pc |-> "done", claims |-> <<>>]
    OBVIOUS
  <2>3. new \in [pc : {"idle", "persist", "refresh", "done"}, claims : Claims]
    BY <1>2, <2>2
  <2>4. scoring' \in [Scorings -> [pc : {"idle", "persist", "refresh", "done"}, claims : Claims]]
    BY <1>6, <2>2, <2>3, ScoringMoves DEF _refresh_confidence_score
  <2>5. PICK m : m = ScoreNow
    OBVIOUS
  <2>6. art' = [score |-> m, at |-> clock, newest |-> 0]
    BY <1>6, <2>5 DEF _refresh_confidence_score
  <2>7. /\ m \in 0 .. One
        /\ claimRows # <<>> => m * Len(claimRows) <= Total(claimRows) /\ Total(claimRows) - m * Len(claimRows) < Len(claimRows)
    <3>1. CASE claimRows # <<>>
      <4>1. m = aggregate_claim_confidence(claimRows)
        BY <2>5, <3>1 DEF ScoreNow
      <4>2. QED
        BY <1>1, <3>1, <4>1, MeanIs
    <3>2. CASE claimRows = <<>>
      <4>1. m = compute_confidence(1, clock \div 2, contras)
        BY <2>5, <3>2 DEF ScoreNow
      <4>2. clock \div 2 \in Nat /\ 1 \in Nat
        BY <1>1
      <4>3. m \in 0 .. One
        BY <1>1, <4>1, <4>2, ScoresTyped
      <4>4. QED
        BY <3>2, <4>3
    <3>3. QED
      BY <3>1, <3>2
  <2>8. art'.score = m /\ art'.at = clock /\ art' = [score |-> art'.score, at |-> art'.at, newest |-> art'.newest]
    BY <2>6
  <2>9. FreshTyped'
    BY <1>1, <2>1, <2>4, <2>7, <2>8 DEF FreshTyped
  <2>10. ScoreOK'
    BY <2>1, <2>7, <2>8 DEF ScoreOK
  <2>11. ReinforcedLast'
    <3>1. Max(events \cup {clock}) = clock
      BY <1>1, LatestIs
    <3>2. QED
      BY <2>1, <2>8, <3>1 DEF ReinforcedLast
  <2>12. QED
    BY <2>9, <2>10, <2>11 DEF FreshInv
<1>7. ASSUME NEW c \in Scorings, ScoringDies(c)
      PROVE  FreshInv'
  <2>1. UNCHANGED <<clock, art, claimRows, contras, events>> /\ torn'
    BY <1>7 DEF ScoringDies
  <2>2. PICK new : new = [pc |-> "done", claims |-> <<>>]
    OBVIOUS
  <2>3. new \in [pc : {"idle", "persist", "refresh", "done"}, claims : Claims]
    BY <1>2, <2>2
  <2>4. scoring' \in [Scorings -> [pc : {"idle", "persist", "refresh", "done"}, claims : Claims]]
    BY <1>7, <2>2, <2>3, ScoringMoves DEF ScoringDies
  <2>5. FreshTyped'
    BY <1>1, <2>1, <2>4 DEF FreshTyped
  <2>6. ScoreOK' /\ ReinforcedLast'
    BY <1>1, <2>1 DEF ScoreOK, ReinforcedLast
  <2>7. QED
    BY <2>5, <2>6 DEF FreshInv
<1>8. ASSUME refresh_article
      PROVE  FreshInv'
  <2>1. UNCHANGED <<clock, claimRows, contras, scoring, torn>> /\ events' = events \cup {clock}
    BY <1>8 DEF refresh_article
  <2>2. art' = [score |-> art.score, at |-> clock, newest |-> art.newest]
    BY <1>1, <1>8 DEF refresh_article
  <2>3. art'.score = art.score /\ art'.at = clock /\ art' = [score |-> art'.score, at |-> art'.at, newest |-> art'.newest]
    BY <2>2
  <2>4. FreshTyped'
    BY <1>1, <2>1, <2>3 DEF FreshTyped
  <2>5. ScoreOK'
    BY <1>1, <2>1, <2>3 DEF ScoreOK
  <2>6. ReinforcedLast'
    <3>1. Max(events \cup {clock}) = clock
      BY <1>1, LatestIs
    <3>2. QED
      BY <2>1, <2>3, <3>1 DEF ReinforcedLast
  <2>7. QED
    BY <2>4, <2>5, <2>6 DEF FreshInv
<1>9. ASSUME Contradict \/ \E d \in Jumps : Pass(d)
      PROVE  FreshInv'
  <2>1. UNCHANGED <<art, claimRows, events, scoring, torn>>
    BY <1>9 DEF Contradict, Pass
  <2>2. clock' \in Nat /\ clock <= clock' /\ contras' \in Nat
    BY <1>1, <1>9, FreshAssumption DEF Contradict, Pass
  <2>3. 0 .. clock \subseteq 0 .. clock'
    BY <1>1, <2>2
  <2>4. FreshTyped'
    BY <1>1, <2>1, <2>2, <2>3 DEF FreshTyped
  <2>5. ScoreOK' /\ ReinforcedLast'
    BY <1>1, <2>1 DEF ScoreOK, ReinforcedLast
  <2>6. QED
    BY <2>4, <2>5 DEF FreshInv
<1>10. QED
  BY <1>3, <1>4, <1>5, <1>6, <1>7, <1>8, <1>9 DEF FreshNext

-----------------------------------------------------------------------------
(* Concept pages *)

PageCall == [pc : PageEnded \cup {"llm", "row", "file", "join"}, user : Users \cup {NoUser},
             owner : Users \cup {NoUser}, sources : SUBSET Sources, found : BOOLEAN]

PagesTyped ==
    /\ carries \in [Users -> SUBSET Tagged]
    /\ raw \in [Users -> SUBSET Tagged]
    /\ row_of \in [Users -> [exists : BOOLEAN, sources : SUBSET Sources]]
    /\ written \in [Users -> (SUBSET Sources) \cup {NoFile}]
    /\ joined \in [Users -> SUBSET Sources]
    /\ linked \in [Users -> SUBSET Sources]
    /\ prun \in [PageRuns -> PageCall]
    /\ \A r \in PageRuns : prun[r].pc \notin PageEnded => prun[r].user \in Users /\ prun[r].owner \in Users
    /\ orphan \in Users \cup {NoUser}
    /\ disturbed \subseteq Users

(* A user whose page nothing disturbed: one compilation at a time, of the      *)
(* user's own page, whose row, file and join rows follow one another; a page   *)
(* that is not between its row and its file is the one recorded; and the sweep *)
(* never finds it without a file.                                              *)
PageOK(u) ==
    /\ orphan # u
    /\ \A r \in Compiling(u) : /\ prun[r].user = u /\ prun[r].owner = u
                               /\ \A q \in Compiling(u) : q = r
    /\ ~row_of[u].exists => joined[u] = {}
    /\ \A r \in Compiling(u) : prun[r].pc \in {"file", "join"} =>
          row_of[u].exists /\ row_of[u].sources = prun[r].sources /\ joined[u] = {}
    /\ \A r \in Compiling(u) : prun[r].pc = "join" => written[u] = prun[r].sources
    /\ row_of[u].exists /\ (\A r \in Compiling(u) : prun[r].pc # "file") => written[u] = Recorded(u)

PagesInv == PagesTyped /\ \A u \in Users \ disturbed : PageOK(u)

-----------------------------------------------------------------------------
(* Concept pages: the proofs *)

(* The invariant is at least what the run checks. *)
LEMMA PagesEnough == PagesInv => ConceptPagesTypeOK /\ PageMatchesRecord
<1> SUFFICES ASSUME PagesInv
             PROVE  ConceptPagesTypeOK /\ PageMatchesRecord
  OBVIOUS
<1>1. ConceptPagesTypeOK
  <2>1. \A u \in Users : row_of[u].sources \subseteq Sources
    BY DEF PagesInv, PagesTyped
  <2>2. \A u \in Users : written[u] \subseteq Sources \/ written[u] = NoFile
    BY DEF PagesInv, PagesTyped
  <2>3. \A u \in Users : joined[u] \subseteq Sources /\ linked[u] \subseteq Sources
    BY DEF PagesInv, PagesTyped
  <2>4. \A r \in PageRuns : prun[r].sources \subseteq Sources
    BY DEF PagesInv, PagesTyped, PageCall
  <2>5. /\ carries \in [Users -> SUBSET Tagged] /\ raw \in [Users -> SUBSET Tagged]
        /\ orphan \in Users \cup {NoUser} /\ disturbed \subseteq Users
    BY DEF PagesInv, PagesTyped
  <2>6. QED
    BY <2>1, <2>2, <2>3, <2>4, <2>5 DEF ConceptPagesTypeOK
<1>2. PageMatchesRecord
  BY DEF PageMatchesRecord, PagesInv, PageOK
<1>3. QED
  BY <1>1, <1>2

(* The initial state has no page and no compilation. *)
LEMMA InitPages == ConceptPagesInit => PagesInv
<1> SUFFICES ASSUME ConceptPagesInit
             PROVE  PagesInv
  OBVIOUS
<1>1. IdleRun \in PageCall /\ IdleRun.pc = "idle"
  BY DEF IdleRun, PageCall, PageEnded
<1>2. \A u \in Users : Compiling(u) = {}
  BY <1>1 DEF ConceptPagesInit, Compiling, PageEnded
<1>3. Absent \in [exists : BOOLEAN, sources : SUBSET Sources] /\ ~Absent.exists
  BY DEF Absent
<1>4. PagesTyped
  <2>1. prun \in [PageRuns -> PageCall] /\ \A r \in PageRuns : prun[r].pc \in PageEnded
    BY <1>1 DEF ConceptPagesInit, PageEnded
  <2>2. row_of \in [Users -> [exists : BOOLEAN, sources : SUBSET Sources]]
    BY <1>3 DEF ConceptPagesInit
  <2>3. written \in [Users -> (SUBSET Sources) \cup {NoFile}]
    BY DEF ConceptPagesInit
  <2>4. QED
    BY <2>1, <2>2, <2>3 DEF PagesTyped, ConceptPagesInit
<1>5. \A u \in Users : PageOK(u)
  BY <1>2, <1>3, ConceptPagesAssumption DEF PageOK, ConceptPagesInit
<1>6. QED
  BY <1>4, <1>5 DEF PagesInv

(* A user keeps the invariant in a step that leaves the user's page and        *)
(* compilations alone.                                                         *)
LEMMA PageFrame ==
  ASSUME NEW u \in Users, PageOK(u), orphan' # u, Compiling(u)' = Compiling(u),
         \A r \in Compiling(u) : prun'[r] = prun[r],
         row_of'[u] = row_of[u], written'[u] = written[u], joined'[u] = joined[u]
  PROVE  PageOK(u)'
BY DEF PageOK, Recorded

(* A step of one run concerns only its user and its owner. *)
LEMMA OthersCompile ==
  ASSUME PagesTyped, NEW r \in PageRuns, NEW c \in PageCall, prun' = [prun EXCEPT ![r] = c],
         NEW u \in Users, u \notin {c.user, c.owner} \/ c.pc \in PageEnded,
         u \notin {prun[r].user, prun[r].owner} \/ prun[r].pc \in PageEnded
  PROVE  Compiling(u)' = Compiling(u) /\ (\A q \in Compiling(u) : prun'[q] = prun[q])
<1>1. r \notin Compiling(u)
  BY DEF Compiling
<1>2. \A q \in PageRuns : prun'[q] = IF q = r THEN c ELSE prun[q]
  BY DEF PagesTyped
<1>3. r \notin Compiling(u)'
  BY <1>2 DEF Compiling
<1>4. QED
  BY <1>1, <1>2, <1>3 DEF Compiling

(* The runs of a user after a step of one of them, which keeps whose it is. *)
LEMMA ItsCompile ==
  ASSUME PagesTyped, NEW r \in PageRuns, NEW c \in PageCall, prun' = [prun EXCEPT ![r] = c],
         c.user = prun[r].user, c.owner = prun[r].owner, prun[r].pc \notin PageEnded
  PROVE  \A u \in Users : Compiling(u)' = IF c.pc \in PageEnded THEN Compiling(u) \ {r} ELSE Compiling(u)
<1>1. \A q \in PageRuns : prun'[q] = IF q = r THEN c ELSE prun[q]
  BY DEF PagesTyped
<1>2. QED
  BY <1>1 DEF Compiling

(* Tagging and untagging sources changes no page. *)
LEMMA QuietPages ==
  ASSUME PagesInv, carries' \in [Users -> SUBSET Tagged], raw' \in [Users -> SUBSET Tagged],
         UNCHANGED <<prun, orphan, disturbed, row_of, written, joined, linked>>
  PROVE  PagesInv'
<1>1. PagesTyped'
  BY DEF PagesInv, PagesTyped
<1>2. ASSUME NEW u \in Users \ disturbed'
      PROVE  PageOK(u)'
  <2>1. PageOK(u) /\ Compiling(u)' = Compiling(u)
    BY DEF PagesInv, Compiling
  <2>2. QED
    BY <2>1 DEF PageOK, Recorded
<1>3. QED
  BY <1>1, <1>2 DEF PagesInv

(* A compilation starts: it is the user's only one, or it disturbs. *)
LEMMA StartKeeps ==
  ASSUME PagesInv, NEW r \in PageRuns, NEW u \in Users, NEW owner \in Users, StartPage(r, u, owner)
  PROVE  PagesInv'
<1>1. PICK c : c = [IdleRun EXCEPT !.pc = "llm", !.user = u, !.owner = owner,
                                    !.sources = _collect_source_articles(u)]
  OBVIOUS
<1>2. prun' = [prun EXCEPT ![r] = c] /\ prun[r].pc = "idle"
  BY <1>1 DEF StartPage
<1>3. _collect_source_articles(u) \subseteq Sources
  BY DEF _collect_source_articles, Sources, PagesInv, PagesTyped
<1>4. c \in PageCall /\ c.pc = "llm" /\ c.user = u /\ c.owner = owner
  BY <1>1, <1>3 DEF IdleRun, PageCall, PageEnded
<1>5. UNCHANGED <<carries, raw, orphan, row_of, written, joined, linked>>
  BY DEF StartPage, pageStore
<1>6. disturbed \subseteq disturbed' /\ disturbed' \subseteq Users
  BY DEF StartPage, Disturbs, PagesInv, PagesTyped
<1>7. PagesTyped'
  BY <1>2, <1>4, <1>5, <1>6 DEF PagesInv, PagesTyped
<1>8. ASSUME NEW w \in Users \ disturbed'
      PROVE  PageOK(w)'
  <2>1. PageOK(w) /\ orphan' # w
    BY <1>5, <1>6 DEF PagesInv, PageOK
  <2>2. CASE w \notin {u, owner}
    <3>1. Compiling(w)' = Compiling(w) /\ (\A q \in Compiling(w) : prun'[q] = prun[q])
      BY <1>2, <1>4, <2>2, OthersCompile DEF PagesInv, PageEnded
    <3>2. QED
      BY <1>5, <2>1, <3>1, PageFrame
  <2>3. CASE w \in {u, owner}
    <3>1. u = owner /\ w = u /\ Compiling(u) = {}
      BY <1>8, <2>3 DEF StartPage, Disturbs
    <3>2. \A q \in PageRuns : prun'[q] = IF q = r THEN c ELSE prun[q]
      BY <1>2 DEF PagesInv, PagesTyped
    <3>3. Compiling(w)' = {r}
      BY <1>4, <3>1, <3>2 DEF Compiling, PageEnded
    <3>4. QED
      BY <1>4, <1>5, <2>1, <3>1, <3>2, <3>3 DEF PageOK, Recorded
  <2>4. QED
    BY <2>2, <2>3
<1>9. QED
  BY <1>7, <1>8 DEF PagesInv

(* A run goes to another control state without writing. *)
LEMMA PageGotoKeeps ==
  ASSUME PagesInv, NEW r \in PageRuns, NEW c \in PageCall, prun' = [prun EXCEPT ![r] = c],
         c.user = prun[r].user, c.owner = prun[r].owner, c.sources = prun[r].sources,
         prun[r].pc \notin PageEnded,
         c.pc \in PageEnded \cup {"row"}, c.pc = "row" => prun[r].pc = "llm",
         disturbed \subseteq disturbed', disturbed' \subseteq Users,
         prun[r].pc = "file" => prun[r].owner \in disturbed',
         UNCHANGED <<carries, raw, orphan, row_of, written, joined, linked>>
  PROVE  PagesInv'
<1>1. PagesTyped'
  BY DEF PagesInv, PagesTyped
<1>2. \A q \in PageRuns : prun'[q] = IF q = r THEN c ELSE prun[q]
  BY DEF PagesInv, PagesTyped
<1>3. ASSUME NEW w \in Users \ disturbed'
      PROVE  PageOK(w)'
  <2>1. PageOK(w)
    BY DEF PagesInv
  <2>2. Compiling(w)' = IF c.pc \in PageEnded THEN Compiling(w) \ {r} ELSE Compiling(w)
    BY ItsCompile DEF PagesInv
  <2>3. r \in Compiling(w) => prun[r].pc # "file"
    BY <2>1 DEF PageOK
  <2>4. \A q \in Compiling(w)' : q \in Compiling(w) /\ prun'[q].user = prun[q].user /\ prun'[q].owner = prun[q].owner
                                 /\ prun'[q].sources = prun[q].sources
                                 /\ (prun'[q].pc = prun[q].pc \/ prun'[q].pc = "row")
    BY <1>2, <2>2 DEF Compiling
  <2>5. (\A q \in Compiling(w)' : prun'[q].pc # "file") => (\A q \in Compiling(w) : prun[q].pc # "file")
    BY <1>2, <2>2, <2>3 DEF Compiling
  <2>6. QED
    BY <2>1, <2>4, <2>5 DEF PageOK, Recorded
<1>4. QED
  BY <1>1, <1>3 DEF PagesInv

(* A run writes what belongs to its user and owner, and goes on: what is left  *)
(* to show is that a user it may write for keeps the invariant.                *)
LEMMA WriteKeeps ==
  ASSUME PagesInv, PagesTyped', NEW r \in PageRuns, NEW c \in PageCall, prun' = [prun EXCEPT ![r] = c],
         c.user = prun[r].user, c.owner = prun[r].owner, c.sources = prun[r].sources,
         prun[r].pc \notin PageEnded, UNCHANGED <<orphan, disturbed>>,
         \A w \in Users \ {c.user, c.owner} : row_of'[w] = row_of[w] /\ written'[w] = written[w] /\ joined'[w] = joined[w],
         \A w \in Users : c.user = w /\ c.owner = w /\ Compiling(w) = {r} /\ Compiling(w)' \subseteq {r}
                          /\ (c.pc \notin PageEnded => Compiling(w)' = {r}) /\ prun'[r] = c
                          /\ PageOK(w) /\ w \notin disturbed => PageOK(w)'
  PROVE  PagesInv'
<1>1. ASSUME NEW w \in Users \ disturbed
      PROVE  PageOK(w)'
  <2>1. PageOK(w) /\ orphan' # w
    BY DEF PagesInv, PageOK
  <2>2. CASE w \notin {c.user, c.owner}
    <3>1. Compiling(w)' = Compiling(w) /\ (\A q \in Compiling(w) : prun'[q] = prun[q])
      BY <2>2, OthersCompile DEF PagesInv
    <3>2. QED
      BY <2>1, <2>2, <3>1, PageFrame
  <2>3. CASE w \in {c.user, c.owner}
    <3>1. r \in Compiling(w)
      BY <2>3 DEF Compiling
    <3>2. c.user = w /\ c.owner = w /\ Compiling(w) = {r}
      BY <2>1, <3>1 DEF PageOK
    <3>3. Compiling(w)' = IF c.pc \in PageEnded THEN {} ELSE {r}
      BY <3>2, ItsCompile DEF PagesInv
    <3>4. prun'[r] = c
      BY DEF PagesInv, PagesTyped
    <3>5. QED
      BY <2>1, <3>2, <3>3, <3>4
  <2>4. QED
    BY <2>2, <2>3
<1>2. QED
  BY <1>1 DEF PagesInv

(* The row's commit: the row, and no join rows. *)
LEMMA SaveRowKeeps ==
  ASSUME PagesInv, NEW r \in PageRuns, SavePageRow(r)
  PROVE  PagesInv'
<1>1. prun[r].pc = "row" /\ prun[r] \in PageCall /\ prun[r].user \in Users /\ prun[r].owner \in Users
  BY DEF SavePageRow, PagesInv, PagesTyped, PageEnded
<1>2. CASE RowRefused(r)
  <2>1. PICK c : c = [prun[r] EXCEPT !.pc = "failed"]
    OBVIOUS
  <2>2. prun' = [prun EXCEPT ![r] = c]
    BY <1>2, <2>1 DEF SavePageRow
  <2>3. c \in PageCall /\ c.pc = "failed" /\ c.user = prun[r].user /\ c.owner = prun[r].owner /\ c.sources = prun[r].sources
    BY <1>1, <2>1 DEF PageCall, PageEnded
  <2>4. UNCHANGED <<carries, raw, orphan, disturbed, row_of, written, joined, linked>>
    BY <1>2 DEF SavePageRow, pageStore
  <2>5. QED
    BY <1>1, <2>2, <2>3, <2>4, PageGotoKeeps DEF PageEnded, PagesInv, PagesTyped
<1>3. CASE ~RowRefused(r)
  <2>1. PICK c : c = [prun[r] EXCEPT !.pc = "file"]
    OBVIOUS
  <2>2. prun' = [prun EXCEPT ![r] = c]
    BY <1>3, <2>1 DEF SavePageRow
  <2>3. c \in PageCall /\ c.pc = "file" /\ c.user = prun[r].user /\ c.owner = prun[r].owner /\ c.sources = prun[r].sources
    BY <1>1, <2>1 DEF PageCall, PageEnded
  <2>4. UNCHANGED <<carries, raw, orphan, disturbed, written>>
    BY <1>3 DEF SavePageRow
  <2>5. PICK new : new = [exists |-> TRUE, sources |-> c.sources]
    OBVIOUS
  <2>6. new \in [exists : BOOLEAN, sources : SUBSET Sources] /\ new.exists = TRUE /\ new.sources = c.sources
    BY <2>3, <2>5 DEF PageCall
  <2>7. PICK old : old = IF c.user # c.owner /\ prun[r].found THEN Absent ELSE row_of[c.user]
    OBVIOUS
  <2>8. old \in [exists : BOOLEAN, sources : SUBSET Sources]
    BY <1>1, <2>3, <2>7 DEF PagesInv, PagesTyped, Absent
  <2>9. row_of' = [[row_of EXCEPT ![c.user] = old] EXCEPT ![c.owner] = new]
    BY <1>1, <1>3, <2>3, <2>5, <2>7 DEF SavePageRow, PagesInv, PagesTyped
  <2>10. /\ row_of' \in [Users -> [exists : BOOLEAN, sources : SUBSET Sources]]
         /\ row_of'[c.owner] = new /\ \A w \in Users \ {c.user, c.owner} : row_of'[w] = row_of[w]
    BY <1>1, <2>3, <2>6, <2>8, <2>9 DEF PagesInv, PagesTyped
  <2>11. /\ joined' = (IF prun[r].found THEN [joined EXCEPT ![c.user] = {}] ELSE joined)
         /\ linked' = (IF prun[r].found THEN [linked EXCEPT ![c.user] = {}] ELSE linked)
    BY <1>3, <2>3 DEF SavePageRow
  <2>12. joined' \in [Users -> SUBSET Sources] /\ linked' \in [Users -> SUBSET Sources]
    BY <1>1, <2>3, <2>11 DEF PagesInv, PagesTyped
  <2>13. \A w \in Users \ {c.user, c.owner} : joined'[w] = joined[w]
    BY <1>1, <2>3, <2>11 DEF PagesInv, PagesTyped
  <2>14. PagesTyped'
    BY <1>1, <2>2, <2>3, <2>4, <2>10, <2>12 DEF PagesInv, PagesTyped
  <2>15. ASSUME NEW w \in Users, c.user = w, c.owner = w, Compiling(w)' = {r}, prun'[r] = c, PageOK(w)
         PROVE  PageOK(w)'
    <3>1. joined'[w] = {}
      <4>1. CASE prun[r].found
        BY <2>11, <2>15, <4>1 DEF PagesInv, PagesTyped
      <4>2. CASE ~prun[r].found
        BY <1>3, <2>3, <2>11, <2>15, <4>2 DEF RowRefused, PageOK
      <4>3. QED
        BY <4>1, <4>2
    <3>2. row_of'[w].exists = TRUE /\ row_of'[w].sources = c.sources
      BY <2>6, <2>10, <2>15
    <3>3. QED
      BY <2>3, <2>4, <2>15, <3>1, <3>2 DEF PageOK
  <2>16. \A w \in Users : c.user = w /\ c.owner = w /\ Compiling(w) = {r} /\ Compiling(w)' \subseteq {r}
            /\ (c.pc \notin PageEnded => Compiling(w)' = {r}) /\ prun'[r] = c
            /\ PageOK(w) /\ w \notin disturbed => PageOK(w)'
    BY <2>3, <2>15 DEF PageEnded
  <2>17. /\ prun[r].pc \notin PageEnded /\ UNCHANGED <<orphan, disturbed>>
         /\ \A w \in Users \ {c.user, c.owner} : row_of'[w] = row_of[w] /\ written'[w] = written[w] /\ joined'[w] = joined[w]
    BY <1>1, <2>4, <2>10, <2>13 DEF PageEnded
  <2>18. QED
    BY <2>2, <2>3, <2>14, <2>16, <2>17, WriteKeeps, Zenon
<1>4. QED
  BY <1>2, <1>3

(* The file is written from the sources of the row. *)
LEMMA WritePageKeeps ==
  ASSUME PagesInv, NEW r \in PageRuns, WritePage(r)
  PROVE  PagesInv'
<1>1. prun[r].pc = "file" /\ prun[r] \in PageCall /\ prun[r].user \in Users /\ prun[r].owner \in Users
  BY DEF WritePage, PagesInv, PagesTyped, PageEnded
<1>2. PICK c : c = [prun[r] EXCEPT !.pc = "join"]
  OBVIOUS
<1>3. prun' = [prun EXCEPT ![r] = c]
  BY <1>2 DEF WritePage
<1>4. c \in PageCall /\ c.pc = "join" /\ c.user = prun[r].user /\ c.owner = prun[r].owner /\ c.sources = prun[r].sources
      /\ c.sources \in SUBSET Sources
  BY <1>1, <1>2 DEF PageCall, PageEnded
<1>5. written' = [written EXCEPT ![c.owner] = c.sources] /\ UNCHANGED <<carries, raw, orphan, row_of, joined, linked, disturbed>>
  BY <1>4 DEF WritePage
<1>6. written' \in [Users -> (SUBSET Sources) \cup {NoFile}]
  BY <1>1, <1>4, <1>5 DEF PagesInv, PagesTyped
<1>7. written'[c.owner] = c.sources /\ \A w \in Users \ {c.user, c.owner} : written'[w] = written[w]
  BY <1>1, <1>4, <1>5 DEF PagesInv, PagesTyped
<1>8. PagesTyped'
  BY <1>1, <1>3, <1>4, <1>5, <1>6 DEF PagesInv, PagesTyped
<1>9. ASSUME NEW w \in Users, c.user = w, c.owner = w, Compiling(w) = {r}, Compiling(w)' = {r}, prun'[r] = c, PageOK(w)
      PROVE  PageOK(w)'
  <2>1. row_of[w].exists /\ row_of[w].sources = c.sources /\ joined[w] = {}
    BY <1>1, <1>4, <1>9 DEF PageOK
  <2>2. Recorded(w)' = c.sources
    BY <1>5, <2>1 DEF Recorded
  <2>3. QED
    BY <1>4, <1>5, <1>7, <1>9, <2>1, <2>2 DEF PageOK
<1>10. \A w \in Users : c.user = w /\ c.owner = w /\ Compiling(w) = {r} /\ Compiling(w)' \subseteq {r}
          /\ (c.pc \notin PageEnded => Compiling(w)' = {r}) /\ prun'[r] = c
          /\ PageOK(w) /\ w \notin disturbed => PageOK(w)'
  BY <1>4, <1>9 DEF PageEnded
<1>11. /\ prun[r].pc \notin PageEnded /\ UNCHANGED <<orphan, disturbed>>
       /\ \A w \in Users \ {c.user, c.owner} : row_of'[w] = row_of[w] /\ written'[w] = written[w] /\ joined'[w] = joined[w]
  BY <1>1, <1>5, <1>7 DEF PageEnded
<1>12. QED
  BY <1>3, <1>4, <1>8, <1>10, <1>11, WriteKeeps, Zenon

(* The join rows are those of the sources the file was written from, or none. *)
LEMMA JoinKeeps ==
  ASSUME PagesInv, NEW r \in PageRuns, JoinPage(r)
  PROVE  PagesInv'
<1>1. prun[r].pc = "join" /\ prun[r] \in PageCall /\ prun[r].user \in Users /\ prun[r].owner \in Users
  BY DEF JoinPage, PagesInv, PagesTyped, PageEnded
<1> DEFINE refused == ForeignKeys \/ joined[prun[r].owner] \cap prun[r].sources # {}
<1>2. CASE refused
  <2>1. PICK c : c = [prun[r] EXCEPT !.pc = "failed"]
    OBVIOUS
  <2>2. prun' = [prun EXCEPT ![r] = c]
    BY <1>2, <2>1 DEF JoinPage
  <2>3. c \in PageCall /\ c.pc = "failed" /\ c.user = prun[r].user /\ c.owner = prun[r].owner /\ c.sources = prun[r].sources
    BY <1>1, <2>1 DEF PageCall, PageEnded
  <2>4. UNCHANGED <<carries, raw, orphan, disturbed, row_of, written, joined, linked>>
    BY <1>2 DEF JoinPage
  <2>5. QED
    BY <1>1, <2>2, <2>3, <2>4, PageGotoKeeps DEF PageEnded, PagesInv, PagesTyped
<1>3. CASE ~refused
  <2>1. PICK c : c = [prun[r] EXCEPT !.pc = "done"]
    OBVIOUS
  <2>2. prun' = [prun EXCEPT ![r] = c]
    BY <1>3, <2>1 DEF JoinPage
  <2>3. c \in PageCall /\ c.pc = "done" /\ c.user = prun[r].user /\ c.owner = prun[r].owner /\ c.sources = prun[r].sources
        /\ c.sources \in SUBSET Sources
    BY <1>1, <2>1 DEF PageCall, PageEnded
  <2>4. /\ UNCHANGED <<carries, raw, orphan, disturbed, row_of, written>>
        /\ joined' = [joined EXCEPT ![c.owner] = @ \cup c.sources]
        /\ linked' = [linked EXCEPT ![c.owner] = @ \cup c.sources]
    BY <1>3, <2>3 DEF JoinPage
  <2>5. joined' \in [Users -> SUBSET Sources] /\ linked' \in [Users -> SUBSET Sources]
    BY <1>1, <2>3, <2>4 DEF PagesInv, PagesTyped
  <2>6. joined'[c.owner] = joined[c.owner] \cup c.sources /\ \A w \in Users \ {c.user, c.owner} : joined'[w] = joined[w]
    BY <1>1, <2>3, <2>4 DEF PagesInv, PagesTyped
  <2>7. PagesTyped'
    BY <1>1, <2>2, <2>3, <2>4, <2>5 DEF PagesInv, PagesTyped
  <2>8. ASSUME NEW w \in Users, c.user = w, c.owner = w, Compiling(w) = {r}, Compiling(w)' \subseteq {r}, prun'[r] = c, PageOK(w)
        PROVE  PageOK(w)'
    <3>1. row_of[w].exists /\ row_of[w].sources = c.sources /\ joined[w] = {} /\ written[w] = c.sources
      BY <1>1, <2>3, <2>8 DEF PageOK
    <3>2. joined'[w] = c.sources
      BY <2>6, <2>8, <3>1
    <3>3. Recorded(w)' = c.sources
      BY <2>4, <3>1, <3>2 DEF Recorded
    <3>4. QED
      BY <2>3, <2>4, <2>8, <3>1, <3>2, <3>3 DEF PageOK
  <2>9. \A w \in Users : c.user = w /\ c.owner = w /\ Compiling(w) = {r} /\ Compiling(w)' \subseteq {r}
            /\ (c.pc \notin PageEnded => Compiling(w)' = {r}) /\ prun'[r] = c
            /\ PageOK(w) /\ w \notin disturbed => PageOK(w)'
    BY <2>8 DEF PageEnded
  <2>10. /\ prun[r].pc \notin PageEnded /\ UNCHANGED <<orphan, disturbed>>
         /\ \A w \in Users \ {c.user, c.owner} : row_of'[w] = row_of[w] /\ written'[w] = written[w] /\ joined'[w] = joined[w]
    BY <1>1, <2>4, <2>6 DEF PageEnded
  <2>11. QED
    BY <2>2, <2>3, <2>7, <2>9, <2>10, WriteKeeps, Zenon
<1>4. QED
  BY <1>2, <1>3

(* The sweep: a page without a file is a disturbed one. *)
LEMMA OrphanKeeps ==
  ASSUME PagesInv, \/ \E u \in Users : SeeOrphan(u)
                   \/ DeleteOrphan
  PROVE  PagesInv'
<1>1. \A w \in Users : Compiling(w)' = Compiling(w)
  BY DEF SeeOrphan, DeleteOrphan, Compiling
<1>2. ASSUME NEW u \in Users, SeeOrphan(u)
      PROVE  PagesInv'
  <2>1. u \in disturbed'
    <3>1. CASE Compiling(u) # {}
      BY <1>2, <3>1 DEF SeeOrphan, Disturbs
    <3>2. CASE Compiling(u) = {} /\ u \notin disturbed
      <4>1. written[u] = Recorded(u) /\ written[u] = NoFile
        BY <1>2, <3>2 DEF PagesInv, PageOK, SeeOrphan
      <4>2. Recorded(u) \subseteq Sources
        <5>1. joined[u] \subseteq Sources /\ row_of[u].sources \subseteq Sources
          BY DEF PagesInv, PagesTyped
        <5>2. QED
          BY <5>1 DEF Recorded
      <4>3. <<NoUser, NoUser>> \in Sources
        BY <4>1, <4>2 DEF NoFile
      <4>4. QED
        BY <4>3, ConceptPagesAssumption DEF Sources
    <3>3. CASE u \in disturbed
      BY <1>2, <3>3 DEF SeeOrphan, Disturbs
    <3>4. QED
      BY <3>1, <3>2, <3>3
  <2>2. disturbed \subseteq disturbed' /\ disturbed' \subseteq Users
    BY <1>2 DEF SeeOrphan, Disturbs, PagesInv, PagesTyped
  <2>3. UNCHANGED <<carries, raw, prun, row_of, written, joined, linked>> /\ orphan' = u
    BY <1>2 DEF SeeOrphan, pageStore
  <2>4. PagesTyped'
    BY <2>2, <2>3 DEF PagesInv, PagesTyped
  <2>5. ASSUME NEW w \in Users \ disturbed'
        PROVE  PageOK(w)'
    <3>1. PageOK(w) /\ orphan' # w
      BY <2>1, <2>2, <2>3 DEF PagesInv
    <3>2. QED
      BY <1>1, <2>3, <3>1, PageFrame
  <2>6. QED
    BY <2>4, <2>5 DEF PagesInv
<1>3. ASSUME DeleteOrphan
      PROVE  PagesInv'
  <2>1. orphan \in Users
    BY <1>3 DEF DeleteOrphan, PagesInv, PagesTyped
  <2>2. /\ row_of' = [row_of EXCEPT ![orphan] = Absent] /\ linked' = [linked EXCEPT ![orphan] = {}]
        /\ orphan' = NoUser /\ UNCHANGED <<carries, raw, written, joined, prun, disturbed>>
    BY <1>3 DEF DeleteOrphan
  <2>3. Absent \in [exists : BOOLEAN, sources : SUBSET Sources]
    BY DEF Absent
  <2>4. row_of' \in [Users -> [exists : BOOLEAN, sources : SUBSET Sources]] /\ linked' \in [Users -> SUBSET Sources]
    BY <2>1, <2>2, <2>3 DEF PagesInv, PagesTyped
  <2>5. PagesTyped'
    BY <2>2, <2>4 DEF PagesInv, PagesTyped
  <2>6. ASSUME NEW w \in Users \ disturbed'
        PROVE  PageOK(w)'
    <3>1. PageOK(w) /\ orphan # w
      BY <2>2 DEF PagesInv, PageOK
    <3>2. row_of'[w] = row_of[w]
      BY <2>1, <2>2, <3>1 DEF PagesInv, PagesTyped
    <3>3. orphan' # w
      BY <2>2, ConceptPagesAssumption
    <3>4. QED
      BY <1>1, <2>2, <3>1, <3>2, <3>3, PageFrame
  <2>7. QED
    BY <2>5, <2>6 DEF PagesInv
<1>4. QED
  BY <1>2, <1>3

(* Every step keeps the invariant of concept pages. *)
LEMMA NextPages == PagesInv /\ [ConceptPagesNext]_pageVars => PagesInv'
<1> SUFFICES ASSUME PagesInv, [ConceptPagesNext]_pageVars
             PROVE  PagesInv'
  OBVIOUS
<1>1. CASE UNCHANGED pageVars
  <2>1. UNCHANGED <<carries, raw, row_of, written, joined, linked, prun, orphan, disturbed>>
    BY <1>1 DEF pageVars
  <2>2. QED
    BY <2>1, QuietPages DEF PagesInv, PagesTyped
<1>2. CASE \E u \in Users, t \in Tagged : UntagSource(u, t) \/ \E b \in BOOLEAN : TagSource(u, t, b)
  <2>1. UNCHANGED <<prun, orphan, disturbed, row_of, written, joined, linked>>
    BY <1>2 DEF UntagSource, TagSource, pageStore
  <2>2. carries' \in [Users -> SUBSET Tagged]
    BY <1>2 DEF UntagSource, TagSource, PagesInv, PagesTyped
  <2>3. PICK u \in Users, t \in Tagged : raw' = raw \/ raw' = [raw EXCEPT ![u] = raw[u] \ {t}] \/ raw' = [raw EXCEPT ![u] = raw[u] \cup {t}]
                                         \/ raw' = [raw EXCEPT ![u] = raw[u]]
    BY <1>2 DEF UntagSource, TagSource
  <2>5. raw' \in [Users -> SUBSET Tagged]
    BY <2>3 DEF PagesInv, PagesTyped
  <2>6. QED
    BY <2>1, <2>2, <2>5, QuietPages
<1>3. CASE \E r \in PageRuns, u \in Users : TriggerPage(r, u) \/ RecompilePage(r, u)
  BY <1>3, StartKeeps DEF TriggerPage, RecompilePage
<1>4. ASSUME NEW r \in PageRuns, PageLLMFails(r)
      PROVE  PagesInv'
  <2>1. PICK c : c = [prun[r] EXCEPT !.pc = "done"]
    OBVIOUS
  <2>2. prun' = [prun EXCEPT ![r] = c] /\ prun[r].pc = "llm" /\ prun[r] \in PageCall
    BY <1>4, <2>1 DEF PageLLMFails, PagesInv, PagesTyped
  <2>3. c \in PageCall /\ c.pc = "done" /\ c.user = prun[r].user /\ c.owner = prun[r].owner /\ c.sources = prun[r].sources
    BY <2>1, <2>2 DEF PageCall, PageEnded
  <2>4. UNCHANGED <<carries, raw, orphan, disturbed, row_of, written, joined, linked>>
    BY <1>4 DEF PageLLMFails, pageStore
  <2>5. QED
    BY <2>2, <2>3, <2>4, PageGotoKeeps DEF PageEnded, PagesInv, PagesTyped
<1>5. ASSUME NEW r \in PageRuns, FindPage(r)
      PROVE  PagesInv'
  <2>1. PICK c : c = [prun[r] EXCEPT !.pc = "row", !.found = row_of[prun[r].user].exists]
    OBVIOUS
  <2>2. prun[r].pc = "llm" /\ prun[r] \in PageCall /\ prun[r].user \in Users
    BY <1>5 DEF FindPage, PagesInv, PagesTyped, PageEnded
  <2>3. prun' = [prun EXCEPT ![r] = c]
    BY <1>5, <2>1 DEF FindPage, PagesInv, PagesTyped
  <2>4. row_of[prun[r].user].exists \in BOOLEAN
    BY <2>2 DEF PagesInv, PagesTyped
  <2>5. c \in PageCall /\ c.pc = "row" /\ c.user = prun[r].user /\ c.owner = prun[r].owner /\ c.sources = prun[r].sources
    BY <2>1, <2>2, <2>4 DEF PageCall, PageEnded
  <2>6. UNCHANGED <<carries, raw, orphan, disturbed, row_of, written, joined, linked>>
    BY <1>5 DEF FindPage, pageStore
  <2>7. QED
    BY <2>2, <2>3, <2>5, <2>6, PageGotoKeeps DEF PageEnded, PagesInv, PagesTyped
<1>6. ASSUME NEW r \in PageRuns, PageDies(r)
      PROVE  PagesInv'
  <2>1. PICK c : c = [prun[r] EXCEPT !.pc = "dead"]
    OBVIOUS
  <2>2. prun' = [prun EXCEPT ![r] = c] /\ prun[r].pc \notin PageEnded /\ prun[r] \in PageCall /\ prun[r].owner \in Users
    BY <1>6, <2>1 DEF PageDies, PagesInv, PagesTyped
  <2>3. c \in PageCall /\ c.pc = "dead" /\ c.user = prun[r].user /\ c.owner = prun[r].owner /\ c.sources = prun[r].sources
    BY <2>1, <2>2 DEF PageCall, PageEnded
  <2>4. UNCHANGED <<carries, raw, orphan, row_of, written, joined, linked>>
    BY <1>6 DEF PageDies, pageStore
  <2>5. disturbed \subseteq disturbed' /\ disturbed' \subseteq Users /\ (prun[r].pc = "file" => prun[r].owner \in disturbed')
    BY <1>6, <2>2 DEF PageDies, Disturbs, PagesInv, PagesTyped
  <2>6. QED
    BY <2>2, <2>3, <2>4, <2>5, PageGotoKeeps DEF PageEnded
<1>7. CASE \E r \in PageRuns : SavePageRow(r) \/ WritePage(r) \/ JoinPage(r)
  BY <1>7, SaveRowKeeps, WritePageKeeps, JoinKeeps
<1>8. CASE (\E u \in Users : SeeOrphan(u)) \/ DeleteOrphan
  BY <1>8, OrphanKeeps
<1>9. QED
  BY <1>1, <1>2, <1>3, <1>4, <1>5, <1>6, <1>7, <1>8 DEF ConceptPagesNext

-----------------------------------------------------------------------------
(* Synthesis pages *)

SynthCall == [kind : SynthKinds \cup {"none"}, articles : SUBSET Material,
              pc : SynthEnded \cup {"llm", "wait", "row", "write", "path", "relate"}]

(* A confirmed draft holds the lock until its row is committed, and there is   *)
(* room for it; a synthesize call whose row comes next has let go of it.       *)
SynthOK(r) ==
    /\ sreq[r].pc # "idle" => sreq[r].kind \in SynthKinds
    /\ r \in unlocked => sreq[r].kind = "synthesize" /\ sreq[r].pc # "idle"
    /\ sreq[r].kind = "synthesize" /\ sreq[r].pc \in {"wait", "row"} => r \in unlocked
    /\ MaxArticles > 0 /\ SynthAt(r, {"confirm"}, "row")
          => holder = r /\ Cardinality(created \ unlocked) < MaxArticles
    /\ sreq[r].pc = "path" => r \in onDisk
    /\ sreq[r].pc = "relate" => r \in pathed

SynthInv ==
    /\ SynthesisTypeOK /\ IsFiniteSet(created)
    /\ sreq \in [SynthReqs -> SynthCall]
    /\ \A r \in SynthReqs : SynthOK(r)
    /\ ArticleLimit /\ SynthesisReadable

-----------------------------------------------------------------------------
(* Synthesis pages: the proofs *)

(* The initial state has no page and no request. *)
LEMMA InitSynth == SynthesisInit => SynthInv
<1> SUFFICES ASSUME SynthesisInit
             PROVE  SynthInv
  OBVIOUS
<1>1. sreq \in [SynthReqs -> SynthCall]
  BY DEF SynthesisInit, SynthCall, SynthEnded
<1>2. IsFiniteSet(created) /\ created \ unlocked = {} /\ Cardinality({}) = 0
  BY FS_EmptySet DEF SynthesisInit
<1>3. \A r \in SynthReqs : SynthOK(r)
  BY DEF SynthesisInit, SynthOK, SynthAt
<1>4. ArticleLimit /\ SynthesisReadable
  BY <1>2, SynthesisAssumption DEF SynthesisInit, ArticleLimit, SynthesisReadable
<1>5. SynthesisTypeOK
  BY <1>1 DEF SynthesisInit, SynthesisTypeOK, SynthCall
<1>6. QED
  BY <1>1, <1>2, <1>3, <1>4, <1>5 DEF SynthInv

(* The articles found are some of the user's. *)
LEMMA FoundTyped ==
  ASSUME NEW named \in SUBSET Material, NEW found \in _find_relevant_articles(named)
  PROVE  found \in SUBSET Material
<1>1. CASE named # {}
  BY <1>1 DEF _find_relevant_articles
<1>2. CASE named = {}
  BY <1>2 DEF _find_relevant_articles, kSubset
<1>3. QED
  BY <1>1, <1>2

(* A step of one request that changes at most its own control state, sets      *)
(* the lock so that no draft loses it, and adds no row.                        *)
LEMMA QuietSynth ==
  ASSUME SynthInv, NEW r \in SynthReqs, NEW x \in SynthCall, sreq' = [sreq EXCEPT ![r] = x],
         holder' \in {holder, Nobody, r}, holder' # holder => holder \in {Nobody, r},
         unlocked' \in {unlocked, unlocked \cup {r}}, UNCHANGED synStore,
         x.pc # "idle" => x.kind \in SynthKinds,
         r \in unlocked' => x.kind = "synthesize" /\ x.pc # "idle",
         x.kind = "synthesize" /\ x.pc \in {"wait", "row"} => r \in unlocked',
         MaxArticles > 0 /\ x.kind = "confirm" /\ x.pc = "row"
            => holder' = r /\ Cardinality(created \ unlocked) < MaxArticles,
         x.pc = "path" => r \in onDisk, x.pc = "relate" => r \in pathed
  PROVE  SynthInv'
<1>1. /\ created' = created /\ pathed' = pathed /\ onDisk' = onDisk /\ related' = related
  BY DEF synStore
<1>2. sreq' \in [SynthReqs -> SynthCall]
  BY DEF SynthInv
<1>3. sreq'[r] = x /\ \A q \in SynthReqs \ {r} : sreq'[q] = sreq[q]
  BY DEF SynthInv
<1>4. /\ IsFiniteSet(created \ unlocked) /\ created \ unlocked' \subseteq created \ unlocked
      /\ Cardinality(created \ unlocked') <= Cardinality(created \ unlocked)
      /\ Cardinality(created \ unlocked') \in Nat /\ Cardinality(created \ unlocked) \in Nat
  <2>1. IsFiniteSet(created \ unlocked) /\ created \ unlocked' \subseteq created \ unlocked
    BY FS_Subset DEF SynthInv
  <2>2. QED
    BY <2>1, FS_Subset, FS_CardinalityType
<1>5. SynthesisTypeOK'
  BY <1>1, <1>2 DEF SynthInv, SynthesisTypeOK, SynthCall
<1>6. \A q \in SynthReqs : SynthOK(q)'
  <2> SUFFICES ASSUME NEW q \in SynthReqs
               PROVE  SynthOK(q)'
    OBVIOUS
  <2>1. CASE q = r
    BY <1>1, <1>3, <1>4, <2>1, SynthesisAssumption DEF SynthOK, SynthAt
  <2>2. CASE q # r
    <3>1. sreq'[q] = sreq[q] /\ SynthOK(q)
      BY <1>3, <2>2 DEF SynthInv
    <3>2. holder = q => holder' = q
      BY <2>2, SynthesisAssumption
    <3>3. QED
      BY <1>1, <1>4, <2>2, <3>1, <3>2, SynthesisAssumption DEF SynthOK, SynthAt
  <2>3. QED
    BY <2>1, <2>2
<1>7. ArticleLimit' /\ SynthesisReadable'
  BY <1>1, <1>4, SynthesisAssumption DEF SynthInv, ArticleLimit, SynthesisReadable
<1>8. QED
  BY <1>1, <1>2, <1>5, <1>6, <1>7 DEF SynthInv

(* A request that looks for its articles, with the quota's lock or without. *)
LEMMA FindKeeps ==
  ASSUME SynthInv, NEW r \in SynthReqs, sreq[r].pc = "idle", NEW k \in SynthKinds, NEW named \in SUBSET Material,
         NEW pc \in {"llm", "row"}, Find(r, k, named, pc), UNCHANGED unlocked, UNCHANGED synStore,
         k \in {"confirm", "synthesize"} => pc = IF k = "confirm" THEN "row" ELSE "llm",
         k \in {"preview", "refine"} => pc = "llm" /\ holder' = holder,
         k \in {"confirm", "synthesize"} =>
            /\ QuotaAllows /\ (MaxArticles > 0 => holder = Nobody)
            /\ holder' = IF MaxArticles > 0 /\ sreq'[r].pc # "failed" THEN r ELSE holder,
         r \notin unlocked
  PROVE  SynthInv'
<1>1. PICK found \in SUBSET Material :
         sreq' = [sreq EXCEPT ![r] = [kind |-> k, articles |-> found,
                    pc |-> IF Cardinality(found) < 2 THEN "failed" ELSE pc]]
  BY FoundTyped DEF Find
<1> DEFINE x == [kind |-> k, articles |-> found, pc |-> IF Cardinality(found) < 2 THEN "failed" ELSE pc]
<1>2. x \in SynthCall /\ x.kind = k /\ x.pc \in {"failed", pc} /\ sreq' = [sreq EXCEPT ![r] = x]
  BY <1>1 DEF SynthCall, SynthEnded
<1>3. sreq'[r].pc = x.pc
  BY <1>2 DEF SynthInv
<1>4. QuotaAllows /\ MaxArticles > 0 => Cardinality(created \ unlocked) < MaxArticles
  <2>1. Cardinality(created \ unlocked) <= Cardinality(created)
    BY FS_Subset DEF SynthInv
  <2>2. Cardinality(created \ unlocked) \in Nat /\ Cardinality(created) \in Nat
    BY FS_Subset, FS_CardinalityType DEF SynthInv
  <2>3. QED
    BY <2>1, <2>2, SynthesisAssumption DEF QuotaAllows
<1> HIDE DEF x
<1>5. holder' \in {holder, Nobody, r} /\ (holder' # holder => holder \in {Nobody, r})
  BY SynthesisAssumption DEF SynthKinds
<1>6. MaxArticles > 0 /\ x.kind = "confirm" /\ x.pc = "row"
        => holder' = r /\ Cardinality(created \ unlocked) < MaxArticles
  BY <1>2, <1>3, <1>4
<1>7. x.pc # "idle" => x.kind \in SynthKinds
  BY <1>2
<1>8. x.kind = "synthesize" /\ x.pc \in {"wait", "row"} => r \in unlocked'
  BY <1>2
<1>9. x.pc # "path" /\ x.pc # "relate"
  BY <1>2
<1>10. QED
  BY <1>2, <1>5, <1>6, <1>7, <1>8, <1>9, QuietSynth

(* A step to another place in the code, with the lock released or kept. *)
LEMMA GotoKeeps ==
  ASSUME SynthInv, NEW r \in SynthReqs, NEW c \in SynthEnded \cup {"wait", "row"}, SynthGoto(r, c),
         sreq[r].pc # "idle", c # "idle",
         Unlock(r) \/ UNCHANGED holder, unlocked' \in {unlocked, unlocked \cup {r}}, UNCHANGED synStore,
         unlocked' # unlocked => sreq[r].kind = "synthesize",
         c \in {"wait", "row"} => sreq[r].kind = "synthesize" /\ r \in unlocked'
  PROVE  SynthInv'
<1>1. PICK x : x = [sreq[r] EXCEPT !.pc = c]
  OBVIOUS
<1>2. sreq[r] \in SynthCall
  BY DEF SynthInv
<1>3. x \in SynthCall /\ x.kind = sreq[r].kind /\ x.pc = c
  BY <1>1, <1>2 DEF SynthCall
<1>4. sreq' = [sreq EXCEPT ![r] = x]
  BY <1>1 DEF SynthGoto
<1>5. holder' \in {holder, Nobody, r} /\ (holder' # holder => holder \in {Nobody, r})
  BY DEF Unlock
<1>6. r \in unlocked' => x.kind = "synthesize" /\ x.pc # "idle"
  BY <1>3 DEF SynthInv, SynthOK
<1>7. x.kind \in SynthKinds
  BY <1>3 DEF SynthInv, SynthOK
<1>8. ~(x.kind = "confirm" /\ x.pc = "row")
  BY <1>3
<1>9. c # "path" /\ c # "relate"
  BY DEF SynthEnded
<1>10. QED
  BY <1>3, <1>4, <1>5, <1>6, <1>7, <1>8, <1>9, QuietSynth

(* The row is committed: a draft had the lock, and room; another call had let  *)
(* go of it.                                                                   *)
LEMMA RowKeeps ==
  ASSUME SynthInv, NEW r \in SynthReqs, CreateSynthesisRow(r)
  PROVE  SynthInv'
<1>1. /\ SynthAt(r, {"confirm", "synthesize"}, "row") /\ created' = created \cup {r} /\ Unlock(r)
      /\ sreq' = [sreq EXCEPT ![r].pc = "write"]
      /\ pathed' = pathed /\ onDisk' = onDisk /\ related' = related /\ unlocked' = unlocked
  BY DEF CreateSynthesisRow, SynthGoto
<1>2. sreq' \in [SynthReqs -> SynthCall]
  BY <1>1 DEF SynthInv, SynthCall
<1>3. /\ sreq'[r].pc = "write" /\ sreq'[r].kind = sreq[r].kind
      /\ \A q \in SynthReqs \ {r} : sreq'[q] = sreq[q]
  BY <1>1 DEF SynthInv, SynthCall
<1>4. IsFiniteSet(created') /\ IsFiniteSet(created \ unlocked) /\ Cardinality(created \ unlocked) \in Nat
  BY <1>1, FS_AddElement, FS_Subset, FS_CardinalityType DEF SynthInv
<1>5. SynthesisTypeOK'
  BY <1>1, <1>2 DEF SynthInv, SynthesisTypeOK, SynthCall, Unlock
<1>6. CASE sreq[r].kind = "synthesize"
  <2>1. r \in unlocked
    BY <1>1, <1>6 DEF SynthInv, SynthOK, SynthAt
  <2>2. created' \ unlocked' = created \ unlocked
    BY <1>1, <2>1
  <2>3. \A q \in SynthReqs \ {r} : holder = q => holder' = q
    BY <1>1, SynthesisAssumption DEF Unlock
  <2>4. \A q \in SynthReqs : SynthOK(q)'
    <3> SUFFICES ASSUME NEW q \in SynthReqs
                 PROVE  SynthOK(q)'
      OBVIOUS
    <3>1. CASE q = r
      BY <1>1, <1>3, <1>6, <3>1 DEF SynthOK, SynthAt, SynthKinds
    <3>2. CASE q # r
      BY <1>1, <1>3, <2>2, <2>3, <3>2 DEF SynthInv, SynthOK, SynthAt
    <3>3. QED
      BY <3>1, <3>2
  <2>5. ArticleLimit' /\ SynthesisReadable'
    BY <1>1, <2>2 DEF SynthInv, ArticleLimit, SynthesisReadable
  <2>6. QED
    BY <1>2, <1>4, <1>5, <2>4, <2>5 DEF SynthInv
<1>7. CASE sreq[r].kind = "confirm"
  <2>1. MaxArticles > 0 => holder = r /\ Cardinality(created \ unlocked) < MaxArticles
    BY <1>1, <1>7 DEF SynthInv, SynthOK, SynthAt
  <2>2. MaxArticles > 0 => \A q \in SynthReqs \ {r} : ~SynthAt(q, {"confirm"}, "row")
    BY <2>1 DEF SynthInv, SynthOK
  <2>3. r \notin unlocked
    BY <1>7 DEF SynthInv, SynthOK
  <2>4. created' \ unlocked' = (created \ unlocked) \cup {r}
    BY <1>1, <2>3
  <2>5. MaxArticles > 0 => Cardinality(created' \ unlocked') <= MaxArticles
    <3>1. PICK S : S = created \ unlocked
      OBVIOUS
    <3>2. IsFiniteSet(S) /\ Cardinality(S) \in Nat
      BY <1>4, <3>1, FS_Subset, FS_CardinalityType DEF SynthInv
    <3>3. CASE r \in S
      <4>1. S \cup {r} = S
        BY <3>3
      <4>2. QED
        BY <2>1, <2>4, <3>1, <3>2, <4>1, SynthesisAssumption
    <3>4. CASE r \notin S
      <4>1. Cardinality(S \cup {r}) = Cardinality(S) + 1
        BY <3>2, <3>4, FS_AddElement
      <4>2. created' \ unlocked' = S \cup {r} /\ (MaxArticles > 0 => Cardinality(S) < MaxArticles)
        BY <2>1, <2>4, <3>1
      <4>3. MaxArticles > 0 => Cardinality(S) + 1 <= MaxArticles
        BY <3>2, <4>2, SynthesisAssumption
      <4>4. QED
        BY <4>1, <4>2, <4>3
    <3>5. QED
      BY <3>3, <3>4
  <2>6. \A q \in SynthReqs : SynthOK(q)'
    <3> SUFFICES ASSUME NEW q \in SynthReqs
                 PROVE  SynthOK(q)'
      OBVIOUS
    <3>1. CASE q = r
      BY <1>1, <1>3, <1>7, <2>3, <3>1 DEF SynthOK, SynthAt, SynthKinds
    <3>2. CASE q # r
      BY <1>1, <1>3, <2>2, <3>2 DEF SynthInv, SynthOK, SynthAt
    <3>3. QED
      BY <3>1, <3>2
  <2>7. ArticleLimit' /\ SynthesisReadable'
    BY <1>1, <2>5 DEF SynthInv, ArticleLimit, SynthesisReadable
  <2>8. QED
    BY <1>2, <1>4, <1>5, <2>6, <2>7 DEF SynthInv
<1>8. QED
  BY <1>1, <1>6, <1>7 DEF SynthAt

(* The file, its path and what is derived from it come after the row, in this  *)
(* order.                                                                      *)
LEMMA StoreKeeps ==
  ASSUME SynthInv, NEW r \in SynthReqs, NEW c \in {"path", "failed", "relate", "done"}, SynthGoto(r, c),
         SynthAt(r, {"confirm", "synthesize"}, sreq[r].pc), sreq[r].pc # "idle",
         UNCHANGED <<created, holder, unlocked>>,
         onDisk' \in {onDisk, onDisk \cup {r}}, pathed' \in {pathed, pathed \cup {r}},
         related' \in {related, related \cup {r}},
         c = "path" => r \in onDisk', c = "relate" => r \in pathed',
         r \in pathed' => r \in onDisk', r \in related' => r \in pathed'
  PROVE  SynthInv'
<1>1. sreq' \in [SynthReqs -> SynthCall]
  BY DEF SynthInv, SynthCall, SynthGoto, SynthEnded
<1>2. /\ sreq'[r].pc = c /\ sreq'[r].kind = sreq[r].kind
      /\ \A q \in SynthReqs \ {r} : sreq'[q] = sreq[q]
  BY DEF SynthInv, SynthCall, SynthGoto
<1>3. SynthesisTypeOK'
  BY <1>1 DEF SynthInv, SynthesisTypeOK, SynthCall
<1>4. \A q \in SynthReqs : SynthOK(q)'
  <2> SUFFICES ASSUME NEW q \in SynthReqs
               PROVE  SynthOK(q)'
    OBVIOUS
  <2>1. CASE q = r
    BY <1>2, <2>1 DEF SynthInv, SynthOK, SynthAt, SynthKinds
  <2>2. CASE q # r
    BY <1>2, <2>2 DEF SynthInv, SynthOK, SynthAt
  <2>3. QED
    BY <2>1, <2>2
<1>5. ArticleLimit' /\ SynthesisReadable'
  BY DEF SynthInv, ArticleLimit, SynthesisReadable
<1>6. QED
  BY <1>1, <1>3, <1>4, <1>5 DEF SynthInv

(* Every step keeps what is said of synthesis pages. *)
LEMMA NextSynth == SynthInv /\ (SynthesisNext \/ UNCHANGED synVars) => SynthInv'
<1> SUFFICES ASSUME SynthInv, SynthesisNext \/ UNCHANGED synVars
             PROVE  SynthInv'
  OBVIOUS
<1>1. ASSUME NEW r \in SynthReqs, NEW k \in SynthKinds, NEW named \in SUBSET Material, PreviewSynthesis(r, k, named)
      PROVE  SynthInv'
  <2>1. r \notin unlocked /\ sreq[r].pc = "idle"
    BY <1>1 DEF SynthInv, SynthOK, PreviewSynthesis
  <2>2. Find(r, k, named, "llm") /\ k \in {"preview", "refine"} /\ UNCHANGED <<holder, unlocked>> /\ UNCHANGED synStore
    BY <1>1 DEF PreviewSynthesis
  <2>3. QED
    BY <2>1, <2>2, FindKeeps
<1>2. ASSUME NEW r \in SynthReqs, NEW k \in SynthKinds, NEW named \in SUBSET Material, BeginSynthesis(r, k, named)
      PROVE  SynthInv'
  <2>1. /\ r \notin unlocked /\ sreq[r].pc = "idle" /\ k \in {"confirm", "synthesize"}
        /\ UNCHANGED unlocked /\ UNCHANGED synStore /\ (MaxArticles > 0 => holder = Nobody)
        /\ holder' = IF MaxArticles > 0 /\ sreq'[r].pc # "failed" THEN r ELSE holder
    BY <1>2 DEF SynthInv, SynthOK, BeginSynthesis
  <2>2. CASE QuotaAllows
    <3>1. PICK pc \in {"llm", "row"} : pc = IF k = "confirm" THEN "row" ELSE "llm"
      OBVIOUS
    <3>2. Find(r, k, named, pc)
      BY <1>2, <2>2, <3>1 DEF BeginSynthesis
    <3>3. QED
      BY <2>1, <2>2, <3>1, <3>2, FindKeeps
  <2>3. CASE ~QuotaAllows
    <3>1. PICK x : x = [kind |-> k, pc |-> "failed", articles |-> {}]
      OBVIOUS
    <3>2. sreq' = [sreq EXCEPT ![r] = x]
      BY <1>2, <2>3, <3>1 DEF BeginSynthesis
    <3>3. x \in SynthCall /\ x.kind = k /\ x.pc = "failed"
      BY <3>1 DEF SynthCall, SynthEnded
    <3>4. sreq'[r].pc = "failed"
      BY <3>2, <3>3 DEF SynthInv
    <3>5. holder' = holder
      BY <2>1, <3>4
    <3>6. QED
      BY <2>1, <3>2, <3>3, <3>5, QuietSynth
  <2>4. QED
    BY <2>2, <2>3
<1>3. ASSUME NEW r \in SynthReqs, PreviewAnswers(r) \/ CommitBeforeLLM(r) \/ SynthesisAnswer(r) \/ SynthesisDies(r)
      PROVE  SynthInv'
  <2>1. CASE PreviewAnswers(r)
    BY <2>1, GotoKeeps DEF PreviewAnswers, SynthAt, SynthEnded
  <2>2. CASE CommitBeforeLLM(r)
    BY <2>2, GotoKeeps DEF CommitBeforeLLM, SynthAt
  <2>3. CASE SynthesisAnswer(r)
    <3>1. sreq[r].kind = "synthesize" /\ sreq[r].pc = "wait" /\ r \in unlocked
      BY <2>3 DEF SynthesisAnswer, SynthAt, SynthInv, SynthOK
    <3>2. QED
      BY <2>3, <3>1, GotoKeeps DEF SynthesisAnswer, SynthEnded
  <2>4. CASE SynthesisDies(r)
    BY <2>4, GotoKeeps DEF SynthesisDies, SynthEnded
  <2>5. QED
    BY <1>3, <2>1, <2>2, <2>3, <2>4
<1>4. ASSUME NEW r \in SynthReqs, WriteSynthesis(r) \/ SetSynthesisPath(r) \/ RelateSynthesis(r)
      PROVE  SynthInv'
  <2>1. (r \in pathed => r \in onDisk) /\ (r \in related => r \in pathed)
    BY DEF SynthInv, SynthesisReadable
  <2>2. CASE WriteSynthesis(r)
    BY <2>1, <2>2, StoreKeeps DEF WriteSynthesis, SynthAt
  <2>3. CASE SetSynthesisPath(r)
    <3>1. r \in onDisk
      BY <2>3 DEF SynthInv, SynthOK, SetSynthesisPath, SynthAt
    <3>2. QED
      BY <2>1, <2>3, <3>1, StoreKeeps DEF SetSynthesisPath, SynthAt
  <2>4. CASE RelateSynthesis(r)
    <3>1. r \in pathed
      BY <2>4 DEF SynthInv, SynthOK, RelateSynthesis, SynthAt
    <3>2. QED
      BY <2>1, <2>4, <3>1, StoreKeeps DEF RelateSynthesis, SynthAt
  <2>5. QED
    BY <1>4, <2>2, <2>3, <2>4
<1>5. CASE UNCHANGED synVars
  BY <1>5 DEF synVars, SynthInv, SynthesisTypeOK, SynthOK, SynthAt, ArticleLimit, SynthesisReadable
<1>6. QED
  BY <1>1, <1>2, <1>3, <1>4, <1>5, RowKeeps DEF SynthesisNext

-----------------------------------------------------------------------------
(* Discussion *)

Message == [role : {"user", "assistant"}, post : Posts]

(* Questions and answers that alternate, starting with a question. *)
Alternates(s) == \A i \in DOMAIN s : s[i].role = IF i % 2 = 1 THEN "user" ELSE "assistant"

TalkInv ==
    /\ thread \in Seq(Message)
    /\ post \in [Posts -> {"idle", "llm", "done", "lost"}]
    /\ given \in [Posts -> Seq(Message)]
    /\ mingled \in BOOLEAN
    /\ \A p \in Posts : post[p] = "idle" => given[p] = <<>>
    /\ \A p \in Posts : post[p] # "idle" => \E i \in DOMAIN given[p] : given[p][i] = [role |-> "user", post |-> p]
    /\ ~mingled => /\ Alternates(thread)
                   /\ \A p \in Posts : Alternates(given[p])
                   /\ \A p \in Posts : post[p] = "llm" =>
                         Len(thread) % 2 = 1 /\ \A q \in Posts : post[q] = "llm" => q = p
                   /\ (\A p \in Posts : post[p] # "llm") => Len(thread) % 2 = 0

-----------------------------------------------------------------------------
(* Discussion: the proofs *)

(* The invariant is at least what the run checks. *)
LEMMA TalkEnough == TalkInv => DiscussionTypeOK /\ ShownInTurn
<1> SUFFICES ASSUME TalkInv
             PROVE  DiscussionTypeOK /\ ShownInTurn
  OBVIOUS
<1>1. DiscussionTypeOK
  <2>1. DOMAIN thread = 1 .. Len(thread) /\ \A i \in 1 .. Len(thread) : thread[i] \in Message
    BY LenProperties, ElementOfSeq DEF TalkInv
  <2>2. QED
    BY <2>1 DEF DiscussionTypeOK, TalkInv, Message
<1>2. ShownInTurn
  BY DEF ShownInTurn, TalkInv, Alternates
<1>3. QED
  BY <1>1, <1>2

(* The initial thread is empty. *)
LEMMA InitTalk == DiscussionInit => TalkInv
<1> SUFFICES ASSUME DiscussionInit
             PROVE  TalkInv
  OBVIOUS
<1>1. <<>> \in Seq(Message) /\ Len(<<>>) = 0 /\ DOMAIN <<>> = {}
  BY EmptySeq
<1>2. 0 % 2 = 0
  OBVIOUS
<1>3. Alternates(<<>>)
  BY <1>1 DEF Alternates
<1>4. QED
  BY <1>1, <1>2, <1>3 DEF TalkInv, DiscussionInit

(* A message at the end, in its turn. *)
LEMMA OneMore ==
  ASSUME NEW s \in Seq(Message), NEW m \in Message, NEW t, t = Append(s, m)
  PROVE  /\ t \in Seq(Message) /\ Len(t) = Len(s) + 1 /\ Len(s) \in Nat /\ DOMAIN t = 1 .. Len(t) /\ t[Len(t)] = m
         /\ Alternates(s) /\ m.role = (IF Len(t) % 2 = 1 THEN "user" ELSE "assistant") => Alternates(t)
<1>1. /\ t \in Seq(Message) /\ Len(t) = Len(s) + 1
      /\ \A i \in 1 .. Len(s) : t[i] = s[i] /\ t[Len(s) + 1] = m
  BY AppendProperties
<1>2. DOMAIN t = 1 .. Len(t) /\ Len(t) \in Nat /\ DOMAIN s = 1 .. Len(s) /\ Len(s) \in Nat
  BY <1>1, LenProperties
<1>3. t[Len(s) + 1] = m
  BY AppendProperties
<1>4. \A i \in DOMAIN t : i \in DOMAIN s \/ i = Len(t)
  BY <1>1, <1>2
<1>5. Alternates(s) /\ m.role = (IF Len(t) % 2 = 1 THEN "user" ELSE "assistant") => Alternates(t)
  BY <1>1, <1>2, <1>3, <1>4 DEF Alternates
<1>6. QED
  BY <1>1, <1>2, <1>3, <1>5

(* Odd and even follow each other. *)
LEMMA Parity == \A n \in Nat : (n % 2 = 0 => (n + 1) % 2 = 1) /\ (n % 2 = 1 => (n + 1) % 2 = 0)
OBVIOUS

(* Every step keeps the invariant of discussions. *)
LEMMA NextTalk == TalkInv /\ [DiscussionNext]_talkVars => TalkInv'
<1> SUFFICES ASSUME TalkInv, [DiscussionNext]_talkVars
             PROVE  TalkInv'
  OBVIOUS
<1>1. CASE UNCHANGED <<thread, post, given, mingled>>
  BY <1>1 DEF TalkInv
<1>2. ASSUME NEW p \in Posts, post_message(p)
      PROVE  TalkInv'
  <2>1. PICK m : m = [role |-> "user", post |-> p]
    OBVIOUS
  <2>2. m \in Message /\ m.role = "user"
    BY <2>1 DEF Message
  <2>3. thread' = Append(thread, m)
    BY <1>2, <2>1 DEF post_message
  <2>4. /\ thread' \in Seq(Message) /\ Len(thread') = Len(thread) + 1 /\ Len(thread) \in Nat
        /\ DOMAIN (thread') = 1 .. Len(thread') /\ thread'[Len(thread')] = m
        /\ Alternates(thread) /\ (Len(thread') % 2 = 1) => Alternates(thread')
    <3>0. thread \in Seq(Message)
      BY DEF TalkInv
    <3>1. PICK t : t = thread'
      OBVIOUS
    <3>2. /\ t \in Seq(Message) /\ Len(t) = Len(thread) + 1 /\ Len(thread) \in Nat /\ DOMAIN t = 1 .. Len(t) /\ t[Len(t)] = m
          /\ Alternates(thread) /\ m.role = (IF Len(t) % 2 = 1 THEN "user" ELSE "assistant") => Alternates(t)
      BY <2>2, <2>3, <3>0, <3>1, OneMore, Zenon
    <3>3. QED
      BY <2>2, <3>1, <3>2
  <2>5. post[p] = "idle" /\ post' = [post EXCEPT ![p] = "llm"] /\ given' = [given EXCEPT ![p] = thread']
    BY <1>2 DEF post_message
  <2>6. given' \in [Posts -> Seq(Message)] /\ post' \in [Posts -> {"idle", "llm", "done", "lost"}]
    BY <2>4, <2>5 DEF TalkInv
  <2>7. given'[p] = thread' /\ post'[p] = "llm" /\ \A q \in Posts \ {p} : given'[q] = given[q] /\ post'[q] = post[q]
    BY <2>5 DEF TalkInv
  <2>8. \E i \in DOMAIN (given'[p]) : given'[p][i] = [role |-> "user", post |-> p]
    BY <2>1, <2>4, <2>7
  <2>9. mingled' \in BOOLEAN /\ (~mingled' => ~mingled /\ \A q \in Posts : post[q] # "llm")
    BY <1>2 DEF post_message
  <2>10. ASSUME ~mingled'
         PROVE  /\ Alternates(thread') /\ \A q \in Posts : Alternates(given'[q])
                /\ Len(thread') % 2 = 1 /\ \A q \in Posts : post'[q] = "llm" => q = p
    <3>1. Len(thread) % 2 = 0 /\ Alternates(thread) /\ \A q \in Posts : Alternates(given[q])
      BY <2>9, <2>10 DEF TalkInv
    <3>2. Len(thread') % 2 = 1
      BY <2>4, <3>1, Parity
    <3>3. QED
      BY <2>4, <2>7, <2>9, <2>10, <3>1, <3>2
  <2>11. \A q \in Posts : post'[q] = "idle" => given'[q] = <<>>
    BY <2>7 DEF TalkInv
  <2>12. \A q \in Posts : post'[q] # "idle" => \E i \in DOMAIN (given'[q]) : given'[q][i] = [role |-> "user", post |-> q]
    <3>1. SUFFICES ASSUME NEW q \in Posts, post'[q] # "idle"
                   PROVE  \E i \in DOMAIN (given'[q]) : given'[q][i] = [role |-> "user", post |-> q]
      OBVIOUS
    <3>2. CASE q = p
      BY <2>8, <3>2
    <3>3. CASE q # p
      <4>1. given'[q] = given[q] /\ post[q] # "idle"
        BY <2>7, <3>1, <3>3
      <4>2. QED
        BY <4>1 DEF TalkInv
    <3>4. QED
      BY <3>2, <3>3
  <2>13. ~mingled' => /\ Alternates(thread)' /\ \A q \in Posts : Alternates(given[q])'
    BY <2>10 DEF Alternates
  <2>14. QED
    BY <2>4, <2>6, <2>7, <2>9, <2>10, <2>11, <2>12, <2>13 DEF TalkInv
<1>3. ASSUME NEW p \in Posts, Reply(p)
      PROVE  TalkInv'
  <2>1. PICK m : m = [role |-> "assistant", post |-> p]
    OBVIOUS
  <2>2. m \in Message /\ m.role = "assistant"
    BY <2>1 DEF Message
  <2>3. thread' = Append(thread, m)
    BY <1>3, <2>1 DEF Reply
  <2>4. /\ thread' \in Seq(Message) /\ Len(thread') = Len(thread) + 1 /\ Len(thread) \in Nat
        /\ Alternates(thread) /\ (Len(thread') % 2 = 0) => Alternates(thread')
    <3>0. thread \in Seq(Message)
      BY DEF TalkInv
    <3>1. PICK t : t = thread'
      OBVIOUS
    <3>2. /\ t \in Seq(Message) /\ Len(t) = Len(thread) + 1 /\ Len(thread) \in Nat /\ DOMAIN t = 1 .. Len(t) /\ t[Len(t)] = m
          /\ Alternates(thread) /\ m.role = (IF Len(t) % 2 = 1 THEN "user" ELSE "assistant") => Alternates(t)
      BY <2>2, <2>3, <3>0, <3>1, OneMore, Zenon
    <3>3. QED
      BY <2>2, <3>1, <3>2
  <2>5. post[p] = "llm" /\ post' = [post EXCEPT ![p] = "done"] /\ UNCHANGED <<given, mingled>>
    BY <1>3 DEF Reply
  <2>6. post' \in [Posts -> {"idle", "llm", "done", "lost"}] /\ post'[p] = "done" /\ \A q \in Posts \ {p} : post'[q] = post[q]
    BY <2>5 DEF TalkInv
  <2>7. ASSUME ~mingled
        PROVE  Alternates(thread') /\ Len(thread') % 2 = 0 /\ \A q \in Posts : post'[q] # "llm"
    <3>1. Len(thread) % 2 = 1 /\ Alternates(thread) /\ \A q \in Posts : post[q] = "llm" => q = p
      BY <2>5, <2>7 DEF TalkInv
    <3>2. Len(thread') % 2 = 0
      BY <2>4, <3>1, Parity
    <3>3. QED
      BY <2>4, <2>6, <3>1, <3>2
  <2>8. ~mingled => /\ Alternates(thread)' /\ \A q \in Posts : Alternates(given[q])'
    BY <2>5, <2>7 DEF Alternates, TalkInv
  <2>9. QED
    BY <2>4, <2>5, <2>6, <2>7, <2>8 DEF TalkInv
<1>4. ASSUME NEW p \in Posts, LosePost(p)
      PROVE  TalkInv'
  BY <1>4 DEF LosePost, TalkInv
<1>5. QED
  BY <1>1, <1>2, <1>3, <1>4 DEF DiscussionNext, compile_with_guidance, Rebuild, talkVars

-----------------------------------------------------------------------------
(* Questions and conversations *)

AskPCs == {"idle", "llm", "cost", "persist", "flush", "write", "article", "commit", "distil",
           "done", "refused", "failed"}
Filing == {"write", "article", "commit"}
ConvRow == [live : BOOLEAN, parent : Chats \cup {"none"}, at : Nat, filed : BOOLEAN, crystal : BOOLEAN]
Turn == [by : Requests, index : Nat, mark : {Unmarked, Thread} \cup Requests]

(* A request, and what its control state says of it. *)
IsReq(x) == x = [pc |-> x.pc, kind |-> x.kind, chat |-> x.chat, new |-> x.new, filed |-> x.filed, conv |-> x.conv,
                 index |-> x.index, prior |-> x.prior, seen |-> x.seen, content |-> x.content,
                 begin |-> x.begin, wrote |-> x.wrote]

ReqTyped(x) ==
    /\ IsReq(x)
    /\ x.pc \in AskPCs /\ x.new \in BOOLEAN /\ x.wrote \in BOOLEAN /\ x.conv \in ConvRow /\ x.index \in Nat
    /\ x.content \in SUBSET Turn /\ x.begin \in SUBSET Turn
    /\ x.pc = "idle" => x.kind = "none" /\ ~x.new /\ ~x.wrote
    /\ x.pc # "idle" => x.chat \in Chats
    /\ x.pc \in {"llm", "persist", "flush"} => x.kind \in Questions
    /\ x.pc \in Filing => x.kind \in Questions \cup {"file"}
    /\ x.pc = "distil" => x.kind = "crystal"
    /\ x.new => x.kind \in Questions /\ x.conv.live /\ ~x.conv.crystal
    /\ x.pc \in {"article", "commit"} => x.wrote
    /\ x.wrote => x.pc \in {"article", "commit"} \cup Ended

Active(r) == req[r].pc \notin Ended \cup {"idle"}
Filers(c) == {r \in Requests : req[r].chat = c /\ req[r].pc \in Filing}

AskTyped ==
    /\ conv \in [Chats -> ConvRow]
    /\ turns \in [Chats -> SUBSET Turn] /\ \A c \in Chats : IsFiniteSet(turns[c])
    /\ count \in Nat /\ quota \in Requests \cup {NoOne}
    /\ row \in [Chats -> Requests \cup {NoOne}]
    /\ answer \in [Chats -> BOOLEAN]
    /\ file \in [Chats -> SUBSET Requests] /\ floor \in [Chats -> SUBSET Requests]
    /\ synth \in [Chats -> SUBSET Requests]
    /\ picked \subseteq [by : Requests, chat : Chats, turns : SUBSET Requests]
    /\ req = [r \in Requests |-> req[r]] /\ \A r \in Requests : ReqTyped(req[r])

(* Who holds a lock is under way; a conversation's row is its filer's. *)
LockOK ==
    /\ quota # NoOne => Active(quota) /\ req[quota].kind \in {"ask", "stream"}
    /\ \A c \in Chats : row[c] # NoOne => row[c] \in Filers(c)

(* The requests that were, or need not be, counted; and the questions that were. *)
Started == {r \in Requests : req[r].pc # "idle" /\ quota # r}
Counted == {r \in Requests : /\ req[r].kind \in {"ask", "stream"}
                             /\ req[r].pc = "done" \/ (Active(r) /\ quota # r)}
CountOK ==
    /\ count <= Cardinality(Started)
    /\ MaxQueries > 0 => /\ count <= MaxQueries /\ Cardinality(Counted) <= count
                         /\ quota # NoOne => count < MaxQueries

(* A turn is of a request that is done. *)
ByOK == \A c \in Chats : \A t \in turns[c] :
            /\ req[t.by].pc = "done" /\ req[t.by].chat = c
            /\ \A u \in turns[c] : u.by = t.by => u = t

(* A conversation that is not committed has nothing, and one request that makes it. *)
LiveOK ==
    /\ \A c \in Chats : ~conv[c].live => turns[c] = {} /\ synth[c] = {} /\ ~conv[c].crystal
    /\ \A r \in Requests : Active(r) =>
          /\ req[r].new => ~conv[req[r].chat].live /\ \A q \in Open(req[r].chat, Questions) : q = r
          /\ ~req[r].new => conv[req[r].chat].live

(* One question at a time: its number is the next one. *)
NumberOK(c) ==
    /\ \A q, r \in Open(c, Questions) : q = r
    /\ \A t, u \in turns[c] : t.index = u.index => t = u
    /\ \E n \in Nat : /\ {t.index : t \in turns[c]} = 0 .. n - 1
                      /\ \A r \in Open(c, Questions) : req[r].index = n

(* One filing at a time: what it read has every turn filed before, and, once   *)
(* written, is the file; else the file is that of the last filing.             *)
FilerOK(c, r) ==
    /\ By(req[r].begin) \subseteq By(req[r].content)
    /\ By(req[r].content) \subseteq By(turns[c]) \cup (IF req[r].kind = "file" THEN {} ELSE {r})
    /\ req[r].kind # "file" => r \in By(req[r].content)
    /\ \A t \in turns[c] : t.mark = Thread => t.by \in By(req[r].content)
    /\ req[r].pc # "write" => file[c] = By(req[r].content)
FiledOK(c) ==
    /\ answer[c] => floor[c] \subseteq file[c] /\ file[c] \subseteq By(turns[c])
    /\ \A t \in turns[c] : t.mark = Thread => answer[c] /\ t.by \in file[c]
FileOK(c) ==
    /\ \A q, r \in Filers(c) : q = r
    /\ \A r \in Filers(c) : FilerOK(c, r)
    /\ (\A r \in Filers(c) : req[r].pc = "write") => FiledOK(c)

(* A mark that is a request's is that of a selection made. *)
MarkOK ==
    /\ \A d \in Chats : \A t \in turns[d] :
          /\ t.mark \in Requests => req[t.mark].pc # "idle"
          /\ \A p \in picked : t.mark = p.by => t.by \in p.turns /\ d = p.chat
    /\ \A p \in picked : req[p.by].pc # "idle"

(* One crystallization at a time, of a conversation that had none. *)
CrystalOK(c) ==
    /\ \A q, r \in synth[c] : q = r
    /\ ~conv[c].crystal => synth[c] = {}
    /\ \A r \in Requests : req[r].chat = c /\ req[r].pc = "distil" =>
          ~conv[c].crystal /\ \A q \in Requests : req[q].chat = c /\ req[q].pc = "distil" => q = r

(* A conversation without a turn was made by a stream between its commits. *)
EmptyOK(c) ==
    conv[c].live /\ turns[c] = {} =>
        \E r \in Requests : /\ req[r].chat = c /\ req[r].kind = "stream" /\ ~req[r].new
                            /\ r \in cut \/ (Active(r) /\ req[r].pc # "llm")

AskInv ==
    /\ AskTyped /\ LockOK /\ CountOK /\ ByOK /\ LiveOK /\ PriorIsThread /\ MarkOK
    /\ \A c \in Chats \ met : NumberOK(c)
    /\ \A c \in Chats \ raced : FileOK(c)
    /\ \A c \in Chats \ twin : CrystalOK(c)
    /\ \A c \in Chats : EmptyOK(c)

(* A step of one request. *)
Moved(r, n) == ReqTyped(n) /\ req' = [q \in Requests |-> IF q = r THEN n ELSE req[q]]

-----------------------------------------------------------------------------
(* Questions and conversations: turns in order *)

(* The sequences of the elements of a set by index. *)
Sorted(s) == \A i, j \in DOMAIN s : i < j => s[i].index <= s[j].index

(* Every finite set of turns can be put in order. *)
LEMMA SortExists ==
  ASSUME NEW U, U \subseteq Turn, IsFiniteSet(U)
  PROVE  \E s \in SetToSeqs(U) : Sorted(s)
<1>1. PICK B : B = {k \in Nat : \E S \in SUBSET Turn : IsFiniteSet(S) /\ Cardinality(S) = k /\ ~\E s \in SetToSeqs(S) : Sorted(s)}
  OBVIOUS
<1>2. ASSUME B # {}
      PROVE  FALSE
  <2>1. PICK k \in B : \A y \in B : k <= y
    BY <1>1, <1>2, LeastNumber
  <2>2. k \in Nat
    BY <1>1, <2>1
  <2>3. PICK S \in SUBSET Turn : IsFiniteSet(S) /\ Cardinality(S) = k /\ ~\E s \in SetToSeqs(S) : Sorted(s)
    BY <1>1, <2>1
  <2>4. CASE S = {}
    <3>1. k = 0
      BY <2>3, <2>4, FS_EmptySet
    <3>2. PICK s : s = [i \in 1 .. 0 |-> 0]
      OBVIOUS
    <3>3. s \in [1 .. Cardinality(S) -> S] /\ DOMAIN s = {} /\ 1 .. Cardinality(S) = {}
      BY <2>3, <2>4, <3>1, <3>2
    <3>4. s \in SetToSeqs(S) /\ Sorted(s)
      BY <3>3 DEF SetToSeqs, Sorted
    <3>5. QED
      BY <2>3, <3>4
  <2>5. CASE S # {}
    <3>1. PICK I : I = {t.index : t \in S}
      OBVIOUS
    <3>2. I \in SUBSET Nat /\ I # {} /\ IsFiniteSet(I)
      <4>1. I \in SUBSET Nat /\ I # {}
        BY <2>3, <2>5, <3>1 DEF Turn
      <4>2. PICK f : f = [t \in S |-> t.index]
        OBVIOUS
      <4>3. I = {f[t] : t \in S}
        BY <3>1, <4>2
      <4>4. QED
        BY <2>3, <4>1, <4>2, <4>3, ImageFinite
    <3>3. PICK m \in I : \A y \in I : y <= m
      BY <3>2, GreatestNumber
    <3>4. PICK x \in S : x.index = m
      BY <3>1, <3>3
    <3>5. \A t \in S : t.index <= x.index
      BY <3>1, <3>3, <3>4
    <3>6. PICK R : R = S \ {x}
      OBVIOUS
    <3>7. R \in SUBSET Turn /\ IsFiniteSet(R) /\ Cardinality(R) = k - 1 /\ Cardinality(R) \in Nat
      BY <2>3, <3>4, <3>6, FS_RemoveElement, FS_CardinalityType
    <3>8. Cardinality(R) \notin B
      BY <2>1, <2>2, <3>7
    <3>9. PICK s \in SetToSeqs(R) : Sorted(s)
      BY <1>1, <3>7, <3>8
    <3>10. s \in [1 .. k - 1 -> R] /\ \A i, j \in 1 .. k - 1 : i # j => s[i] # s[j]
      BY <3>7, <3>9 DEF SetToSeqs
    <3>11. PICK u : u = [i \in 1 .. k |-> IF i = k THEN x ELSE s[i]]
      OBVIOUS
    <3>12. k - 1 \in Nat /\ \A i \in 1 .. k : i # k => i \in 1 .. k - 1
      BY <2>2, <3>7
    <3>13. u \in [1 .. k -> S]
      BY <3>4, <3>6, <3>10, <3>11, <3>12
    <3>14. \A i, j \in 1 .. k : i # j => u[i] # u[j]
      BY <3>6, <3>10, <3>11, <3>12
    <3>15. ASSUME NEW i \in 1 .. k, NEW j \in 1 .. k, i < j
           PROVE  u[i].index <= u[j].index
      <4>1. i \in 1 .. k - 1
        BY <2>2, <3>15
      <4>2. u[i] = s[i] /\ s[i] \in S
        BY <2>2, <3>6, <3>10, <3>11, <4>1
      <4>3. CASE j = k
        BY <3>5, <3>11, <4>2, <4>3
      <4>4. CASE j # k
        <5>1. j \in 1 .. k - 1 /\ u[j] = s[j]
          BY <3>11, <3>12, <4>4
        <5>2. QED
          BY <3>9, <3>10, <3>15, <4>1, <4>2, <5>1 DEF Sorted
      <4>5. QED
        BY <4>3, <4>4
    <3>16. u \in SetToSeqs(S)
      BY <2>3, <3>13, <3>14 DEF SetToSeqs
    <3>17. Sorted(u)
      BY <3>13, <3>15 DEF Sorted
    <3>18. QED
      BY <2>3, <3>16, <3>17
  <2>6. QED
    BY <2>4, <2>5
<1>3. Cardinality(U) \in Nat
  BY FS_CardinalityType
<1>4. QED
  BY <1>1, <1>2, <1>3

(* What ByIndex returns. *)
LEMMA InOrder ==
  ASSUME NEW U, U \subseteq Turn, IsFiniteSet(U), NEW s, s = ByIndex(U)
  PROVE  s \in Seq(U) /\ Len(s) = Cardinality(U) /\ s \in SetToSeqs(U) /\ Sorted(s)
<1>1. \E z \in SetToSeqs(U) : \A i, j \in DOMAIN z : i < j => z[i].index <= z[j].index
  BY SortExists DEF Sorted
<1>2. s \in SetToSeqs(U) /\ \A i, j \in DOMAIN s : i < j => s[i].index <= s[j].index
  BY <1>1 DEF ByIndex
<1>3. s \in [1 .. Cardinality(U) -> U] /\ Cardinality(U) \in Nat
  BY <1>2, FS_CardinalityType DEF SetToSeqs
<1>4. QED
  BY <1>2, <1>3, FunIsSeq DEF Sorted

(* Reading backwards and turning round is reading the end. *)
LEMMA BackwardsIs ==
  ASSUME NEW U, NEW s \in Seq(U), NEW n \in Nat
  PROVE  LET back == Reverse(s)
         IN  Reverse(SubSeq(back, 1, IF Len(back) < n THEN Len(back) ELSE n)) = LastOf(s, n)
<1>1. PICK l : l = Len(s)
  OBVIOUS
<1>2. l \in Nat /\ DOMAIN s = 1 .. l /\ \A i \in 1 .. l : s[i] \in U
  BY <1>1, LenProperties, ElementOfSeq
<1>3. PICK b : b = Reverse(s)
  OBVIOUS
<1>4. b = [i \in 1 .. l |-> s[(l - i) + 1]]
  BY <1>1, <1>3 DEF Reverse
<1>5. \A i \in 1 .. l : (l - i) + 1 \in 1 .. l /\ b[i] = s[(l - i) + 1] /\ b[i] \in U
  BY <1>2, <1>4
<1>6. b \in Seq(U) /\ Len(b) = l
  BY <1>2, <1>4, <1>5
<1>7. PICK m : m = IF l < n THEN l ELSE n
  OBVIOUS
<1>8. m \in Nat /\ m <= l
  BY <1>2, <1>7
<1>9. PICK f : f = SubSeq(b, 1, m)
  OBVIOUS
<1>10. \A i \in 1 .. m : b[i] \in U
  BY <1>2, <1>5, <1>8
<1>11. f \in Seq(U) /\ Len(f) = m /\ \A i \in 1 .. m : f[i] = b[i]
  <2>1. f \in Seq(U) /\ Len(f) = (IF 1 <= m THEN m - 1 + 1 ELSE 0) /\ \A i \in 1 .. m - 1 + 1 : f[i] = b[1 + i - 1]
    BY <1>8, <1>9, <1>10, SubSeqProperties
  <2>2. QED
    BY <1>8, <2>1
<1>12. PICK g : g = Reverse(f)
  OBVIOUS
<1>13. g = [i \in 1 .. m |-> f[(m - i) + 1]]
  BY <1>11, <1>12 DEF Reverse
<1>14. \A i \in 1 .. m : g[i] = s[l - m + i] /\ g[i] \in U
  <2>1. ASSUME NEW i \in 1 .. m
        PROVE  g[i] = s[l - m + i] /\ g[i] \in U
    <3>1. (m - i) + 1 \in 1 .. m /\ (m - i) + 1 \in 1 .. l
      BY <1>2, <1>8
    <3>2. g[i] = b[(m - i) + 1]
      BY <1>11, <1>13, <3>1
    <3>3. b[(m - i) + 1] = s[(l - ((m - i) + 1)) + 1]
      BY <1>5, <3>1
    <3>4. (l - ((m - i) + 1)) + 1 = l - m + i
      BY <1>2, <1>8
    <3>5. QED
      BY <1>10, <3>1, <3>2, <3>3, <3>4
  <2>2. QED
    BY <2>1
<1>15. g \in Seq(U) /\ Len(g) = m
  BY <1>8, <1>13, <1>14
<1>16. PICK a : a = IF l > n THEN l - n + 1 ELSE 1
  OBVIOUS
<1>17. a = l - m + 1 /\ a \in Int /\ l \in Int
  BY <1>2, <1>7, <1>16
<1>18. PICK h : h = SubSeq(s, a, l)
  OBVIOUS
<1>19. \A i \in a .. l : s[i] \in U
  BY <1>2, <1>8, <1>17
<1>20. h \in Seq(U) /\ Len(h) = m /\ \A i \in 1 .. m : h[i] = s[l - m + i]
  <2>1. h \in Seq(U) /\ Len(h) = (IF a <= l THEN l - a + 1 ELSE 0) /\ \A i \in 1 .. l - a + 1 : h[i] = s[a + i - 1]
    BY <1>17, <1>18, <1>19, SubSeqProperties
  <2>2. Len(h) = m /\ l - a + 1 = m
    BY <1>2, <1>8, <1>17, <2>1
  <2>3. \A i \in 1 .. m : a + i - 1 = l - m + i
    BY <1>2, <1>8, <1>17
  <2>4. QED
    BY <2>1, <2>2, <2>3
<1>21. g = h
  BY <1>14, <1>15, <1>20, SeqEqual
<1>22. LastOf(s, n) = h
  BY <1>1, <1>16, <1>18 DEF LastOf
<1>23. QED
  BY <1>3, <1>6, <1>7, <1>9, <1>12, <1>21, <1>22

-----------------------------------------------------------------------------
(* Questions and conversations: what the invariant implies *)

(* Requests are finitely many. *)
LEMMA RequestsFinite ==
  /\ IsFiniteSet(Requests) /\ Cardinality(Requests) = MaxRequests
  /\ \A S \in SUBSET Requests : IsFiniteSet(S) /\ Cardinality(S) \in Nat /\ Cardinality(S) <= MaxRequests
<1>1. IsFiniteSet(Requests) /\ Cardinality(Requests) = MaxRequests
  BY FS_Interval, AskAssumption DEF Requests
<1>2. QED
  BY <1>1, FS_Subset, FS_CardinalityType

(* Turns numbered 0 to n - 1 are n. *)
LEMMA NumberedCount ==
  ASSUME NEW S, NEW n \in Nat, {t.index : t \in S} = 0 .. n - 1, \A t, u \in S : t.index = u.index => t = u
  PROVE  Cardinality(S) = n
<1>1. PICK f : f = [t \in S |-> t.index]
  OBVIOUS
<1>2. f \in Injection(S, 0 .. n - 1) /\ f \in Surjection(S, 0 .. n - 1)
  <2>1. f \in [S -> 0 .. n - 1] /\ \A t, u \in S : f[t] = f[u] => t = u
    BY <1>1
  <2>2. \A i \in 0 .. n - 1 : \E t \in S : f[t] = i
    BY <1>1
  <2>3. QED
    BY <2>1, <2>2 DEF Injection, Surjection, IsInjective
<1>3. IsFiniteSet(0 .. n - 1) /\ Cardinality(0 .. n - 1) = n
  BY FS_Interval
<1>4. QED
  BY <1>2, <1>3, FS_Injection

(* The invariant is at least what the run checks. *)
LEMMA AskEnough ==
  AskInv => /\ AskTypeOK /\ TurnsNumbered /\ PriorIsThread /\ QueriesCounted /\ NoEmptyConversation
            /\ FileIsThread /\ MarkedIsFiled /\ CrystalOnce
<1> SUFFICES ASSUME AskInv
             PROVE  /\ AskTypeOK /\ TurnsNumbered /\ PriorIsThread /\ QueriesCounted /\ NoEmptyConversation
                    /\ FileIsThread /\ MarkedIsFiled /\ CrystalOnce
  OBVIOUS
<1>1. AskTypeOK
  <2>1. count \in 0 .. MaxRequests
    <3>1. Started \in SUBSET Requests
      BY DEF Started
    <3>2. Cardinality(Started) \in Nat /\ Cardinality(Started) <= MaxRequests
      BY <3>1, RequestsFinite
    <3>3. count \in Nat /\ count <= Cardinality(Started)
      BY DEF AskInv, AskTyped, CountOK
    <3>4. QED
      BY <3>2, <3>3, AskAssumption
  <2>2. \A c \in Chats : conv[c].live \in BOOLEAN /\ conv[c].at \in Nat
    BY DEF AskInv, AskTyped, ConvRow
  <2>3. \A c \in Chats : turns[c] \subseteq [by : Requests, index : Nat, mark : {Unmarked, Thread} \cup Requests]
    BY DEF AskInv, AskTyped, Turn
  <2>4. quota # NoOne => req[quota].pc \notin Ended
    BY DEF AskInv, LockOK, Active
  <2>5. \A c \in Chats : row[c] # NoOne => req[row[c]].pc \notin Ended
    BY DEF AskInv, LockOK, Filers, Filing, Ended
  <2>6. \A r \in Requests : req[r].pc \in AskPCs
    BY DEF AskInv, AskTyped, ReqTyped
  <2>7. QED
    BY <2>1, <2>2, <2>3, <2>4, <2>5, <2>6 DEF AskTypeOK, AskPCs
<1>2. TurnsNumbered
  <2> SUFFICES ASSUME NEW c \in Chats \ met
               PROVE  {t.index : t \in turns[c]} = 0 .. Cardinality(turns[c]) - 1
    BY DEF TurnsNumbered
  <2>1. PICK n \in Nat : {t.index : t \in turns[c]} = 0 .. n - 1
    BY DEF AskInv, NumberOK
  <2>2. Cardinality(turns[c]) = n
    BY <2>1, NumberedCount DEF AskInv, NumberOK
  <2>3. QED
    BY <2>1, <2>2
<1>3. QueriesCounted
  <2> SUFFICES ASSUME MaxQueries > 0
               PROVE  /\ count <= MaxQueries
                      /\ Cardinality({r \in Requests : req[r].kind \in {"ask", "stream"} /\ req[r].pc = "done"}) <= count
    BY DEF QueriesCounted
  <2>1. PICK A : A = {r \in Requests : req[r].kind \in {"ask", "stream"} /\ req[r].pc = "done"}
    OBVIOUS
  <2>2. A \subseteq Counted /\ Counted \in SUBSET Requests
    BY <2>1 DEF Counted
  <2>3. IsFiniteSet(Counted) /\ Cardinality(Counted) \in Nat
    BY <2>2, RequestsFinite
  <2>4. Cardinality(A) <= Cardinality(Counted) /\ Cardinality(A) \in Nat
    BY <2>2, <2>3, FS_Subset, FS_CardinalityType
  <2>5. count \in Nat /\ count <= MaxQueries /\ Cardinality(Counted) <= count
    BY DEF AskInv, AskTyped, CountOK
  <2>6. Cardinality(A) <= count
    BY <2>3, <2>4, <2>5
  <2>7. QED
    BY <2>1, <2>5, <2>6
<1>4. NoEmptyConversation
  BY DEF AskInv, EmptyOK, NoEmptyConversation, Active
<1>5. \A c \in Chats : ~Writing(c) => \A r \in Filers(c) : req[r].pc = "write"
  <2> SUFFICES ASSUME NEW c \in Chats, ~Writing(c), NEW r \in Filers(c)
               PROVE  req[r].pc = "write"
    OBVIOUS
  <2>1. ReqTyped(req[r]) /\ r \in Requests
    BY DEF AskInv, AskTyped, Filers
  <2>2. QED
    BY <2>1 DEF ReqTyped, Filers, Filing, Writing, Ended
<1>6. \A c \in Chats \ raced : ~Writing(c) => FiledOK(c)
  BY <1>5 DEF AskInv, FileOK
<1>7. FileIsThread
  BY <1>6 DEF FileIsThread, FiledOK
<1>8. MarkedIsFiled
  BY <1>6 DEF AskInv, MarkedIsFiled, FiledOK, MarkOK
<1>9. CrystalOnce
  <2> SUFFICES ASSUME NEW c \in Chats \ twin
               PROVE  Cardinality(synth[c]) <= 1
    BY DEF CrystalOnce
  <2>1. \A q, r \in synth[c] : q = r
    BY DEF AskInv, CrystalOK
  <2>2. CASE synth[c] = {}
    BY <2>2, FS_EmptySet
  <2>3. CASE synth[c] # {}
    <3>1. PICK r : r \in synth[c]
      BY <2>3
    <3>2. synth[c] = {r}
      BY <2>1, <3>1
    <3>3. QED
      BY <3>2, FS_Singleton
  <2>4. QED
    BY <2>2, <2>3
<1>10. QED
  BY <1>1, <1>2, <1>3, <1>4, <1>7, <1>8, <1>9 DEF AskInv

(* The initial state has no conversation and no request. *)
LEMMA InitAsk == AskInit => AskInv
<1> SUFFICES ASSUME AskInit
             PROVE  AskInv
  OBVIOUS
<1>1. NoConv \in ConvRow /\ ~NoConv.live /\ ~NoConv.crystal
  BY DEF NoConv, ConvRow
<1>2. ReqTyped(Idle) /\ Idle.pc = "idle" /\ Idle.kind = "none" /\ Idle.chat = "none"
  BY <1>1 DEF Idle, ReqTyped, IsReq, AskPCs, Ended, Filing
<1>3. \A r \in Requests : req[r] = Idle
  BY DEF AskInit
<1>4. IsFiniteSet({}) /\ Cardinality({}) = 0
  BY FS_EmptySet
<1>5. 0 \notin Requests
  BY AskAssumption DEF Requests
<1>6. AskTyped
  BY <1>1, <1>2, <1>3, <1>4 DEF AskTyped, AskInit
<1>7. LockOK /\ ByOK /\ MarkOK
  BY DEF AskInit, LockOK, ByOK, MarkOK
<1>8. Started = {} /\ Counted = {}
  BY <1>2, <1>3 DEF Started, Counted
<1>9. CountOK
  BY <1>4, <1>8, AskAssumption DEF CountOK, AskInit
<1>10. LiveOK /\ PriorIsThread
  BY <1>1, <1>2, <1>3 DEF LiveOK, PriorIsThread, Active, AskInit
<1>11. \A c \in Chats : Open(c, Questions) = {} /\ Filers(c) = {}
  BY <1>2, <1>3 DEF Open, Questions, Filers, Filing
<1>12. \A c \in Chats : NumberOK(c)
  <2>1. \A c \in Chats : {t.index : t \in turns[c]} = 0 .. 0 - 1
    BY DEF AskInit
  <2>2. QED
    BY <1>11, <2>1 DEF NumberOK, AskInit
<1>13. \A c \in Chats : FileOK(c)
  BY <1>11 DEF FileOK, FiledOK, AskInit
<1>14. \A c \in Chats : EmptyOK(c)
  BY <1>1 DEF EmptyOK, AskInit
<1>15. \A c \in Chats \ twin : CrystalOK(c)
  BY <1>2, <1>3 DEF CrystalOK, AskInit
<1>16. QED
  BY <1>6, <1>7, <1>9, <1>10, <1>12, <1>13, <1>14, <1>15 DEF AskInv

-----------------------------------------------------------------------------
(* Questions and conversations: what a step keeps *)

(* The requests after a step of one. *)
LEMMA MovedIs ==
  ASSUME AskTyped, NEW r \in Requests, NEW n, Moved(r, n)
  PROVE  /\ req' = [q \in Requests |-> req'[q]] /\ \A q \in Requests : ReqTyped(req'[q])
         /\ req'[r] = n /\ \A q \in Requests \ {r} : req'[q] = req[q]
<1>1. req' = [q \in Requests |-> IF q = r THEN n ELSE req[q]] /\ ReqTyped(n)
  BY DEF Moved
<1>2. \A q \in Requests : req'[q] = IF q = r THEN n ELSE req[q]
  BY <1>1
<1>3. req' = [q \in Requests |-> req'[q]]
  BY <1>1, <1>2
<1>4. QED
  BY <1>1, <1>2, <1>3 DEF AskTyped

(* The next number of a conversation is above all of its turns'. *)
LEMMA NextIndex ==
  ASSUME AskTyped, NEW c \in Chats, NEW x, x = _next_turn_index(c)
  PROVE  /\ x \in Nat /\ (turns[c] = {} => x = 0) /\ \A t \in turns[c] : t.index < x
         /\ turns[c] # {} => \E t \in turns[c] : t.index = x - 1
<1>1. CASE turns[c] = {}
  BY <1>1 DEF _next_turn_index
<1>2. CASE turns[c] # {}
  <2>1. PICK I : I = {t.index : t \in turns[c]}
    OBVIOUS
  <2>2. turns[c] \subseteq Turn /\ IsFiniteSet(turns[c])
    BY DEF AskTyped
  <2>3. I \in SUBSET Nat /\ I # {}
    BY <1>2, <2>1, <2>2 DEF Turn
  <2>4. IsFiniteSet(I)
    <3>1. PICK f : f = [t \in turns[c] |-> t.index]
      OBVIOUS
    <3>2. I = {f[t] : t \in turns[c]}
      BY <2>1, <3>1
    <3>3. QED
      BY <2>2, <3>1, <3>2, ImageFinite
  <2>5. \E m \in I : \A y \in I : m >= y
    <3>1. PICK m \in I : \A y \in I : y <= m
      BY <2>3, <2>4, GreatestNumber
    <3>2. QED
      BY <2>3, <3>1
  <2>6. PICK m : m = Max(I)
    OBVIOUS
  <2>7. m \in I /\ \A y \in I : m >= y
    BY <2>5, <2>6 DEF Max
  <2>8. x = m + 1
    BY <1>2, <2>1, <2>6 DEF _next_turn_index
  <2>9. m \in Nat
    BY <2>3, <2>7
  <2>10. \A t \in turns[c] : t.index \in Nat /\ m >= t.index
    BY <2>1, <2>3, <2>7
  <2>11. \E t \in turns[c] : t.index = m
    BY <2>1, <2>7
  <2>12. QED
    BY <1>2, <2>8, <2>9, <2>10, <2>11
<1>3. QED
  BY <1>1, <1>2

(* Locks: a request arrives. *)
LEMMA LockStart ==
  ASSUME AskInv, NEW r \in Requests, NEW n, Moved(r, n), req[r].pc = "idle", row' = row,
         quota' = quota \/ (quota' = r /\ n.pc = "llm" /\ n.kind \in {"ask", "stream"})
  PROVE  LockOK'
<1>1. /\ req'[r] = n /\ \A q \in Requests \ {r} : req'[q] = req[q]
  BY MovedIs DEF AskInv
<1>2. row \in [Chats -> Requests \cup {NoOne}] /\ quota \in Requests \cup {NoOne} /\ LockOK
  BY DEF AskInv, AskTyped
<1>3. \A q \in Requests \ {r} : Active(q)' = Active(q)
  BY <1>1 DEF Active
<1>4. quota # r /\ \A c \in Chats : r \notin Filers(c)
  BY <1>2 DEF LockOK, Active, Filers, Filing, NoOne, Requests
<1>5. \A c \in Chats : Filers(c) \subseteq Filers(c)'
  BY <1>1, <1>4 DEF Filers
<1>6. quota' # NoOne => Active(quota)' /\ req'[quota'].kind \in {"ask", "stream"}
  BY <1>1, <1>2, <1>3, <1>4 DEF LockOK, Active, Ended
<1>7. QED
  BY <1>2, <1>5, <1>6 DEF LockOK

(* Locks: a request goes on, or locks the conversation it files. *)
LEMMA LockMove ==
  ASSUME AskInv, NEW r \in Requests, NEW n, Moved(r, n), n.kind = req[r].kind, n.chat = req[r].chat,
         n.pc \notin Ended \cup {"idle"}, req[r].pc \in Filing => n.pc \in Filing, quota' = quota,
         row' = row \/ (row' = [row EXCEPT ![n.chat] = r] /\ n.pc \in Filing)
  PROVE  LockOK'
<1>1. /\ req'[r] = n /\ \A q \in Requests \ {r} : req'[q] = req[q]
  BY MovedIs DEF AskInv
<1>2. row \in [Chats -> Requests \cup {NoOne}] /\ quota \in Requests \cup {NoOne} /\ LockOK
  BY DEF AskInv, AskTyped
<1>3. \A q \in Requests : Active(q) => Active(q)'
  BY <1>1 DEF Active
<1>4. \A c \in Chats : Filers(c) \subseteq Filers(c)'
  BY <1>1 DEF Filers
<1>5. n.pc \in Filing => \A c \in Chats : n.chat = c => r \in Filers(c)'
  BY <1>1 DEF Filers
<1>6. quota' # NoOne => Active(quota)' /\ req'[quota'].kind \in {"ask", "stream"}
  BY <1>1, <1>2, <1>3 DEF LockOK
<1>7. \A c \in Chats : row'[c] # NoOne => row'[c] \in Filers(c)'
  BY <1>2, <1>4, <1>5 DEF LockOK
<1>8. QED
  BY <1>6, <1>7 DEF LockOK

(* Locks: a request lets go of its own. *)
LEMMA LockRelease ==
  ASSUME AskInv, NEW r \in Requests, NEW n, Moved(r, n), Release(r)
  PROVE  LockOK' /\ quota' \in Requests \cup {NoOne} /\ row' \in [Chats -> Requests \cup {NoOne}] /\ quota' # r
<1>1. /\ req'[r] = n /\ \A q \in Requests \ {r} : req'[q] = req[q]
  BY MovedIs DEF AskInv
<1>2. row \in [Chats -> Requests \cup {NoOne}] /\ quota \in Requests \cup {NoOne} /\ LockOK
  BY DEF AskInv, AskTyped
<1>3. NoOne # r
  BY DEF NoOne, Requests
<1>4. \A q \in Requests \ {r} : Active(q)' = Active(q) /\ \A c \in Chats : q \in Filers(c) => q \in Filers(c)'
  BY <1>1 DEF Active, Filers
<1>5. quota' # NoOne => quota' = quota /\ quota # r
  BY DEF Release
<1>6. \A c \in Chats : row'[c] # NoOne => row'[c] = row[c] /\ row[c] # r
  BY DEF Release
<1>7. quota' # NoOne => Active(quota)' /\ req'[quota'].kind \in {"ask", "stream"}
  BY <1>1, <1>2, <1>4, <1>5 DEF LockOK
<1>8. \A c \in Chats : row'[c] # NoOne => row'[c] \in Filers(c)'
  BY <1>2, <1>4, <1>6 DEF LockOK
<1>9. row' \in [Chats -> Requests \cup {NoOne}] /\ quota' \in Requests \cup {NoOne} /\ quota' # r
  BY <1>2, <1>3 DEF Release
<1>10. QED
  BY <1>7, <1>8, <1>9 DEF LockOK

(* Locks: a crystallization ends, which holds none. *)
LEMMA LockDone ==
  ASSUME AskInv, NEW r \in Requests, NEW n, Moved(r, n), req[r].pc = "distil", UNCHANGED <<quota, row>>
  PROVE  LockOK'
<1>1. /\ req'[r] = n /\ \A q \in Requests \ {r} : req'[q] = req[q]
  BY MovedIs DEF AskInv
<1>2. row \in [Chats -> Requests \cup {NoOne}] /\ quota \in Requests \cup {NoOne} /\ LockOK /\ req[r].kind = "crystal"
  BY DEF AskInv, AskTyped, ReqTyped
<1>3. \A q \in Requests \ {r} : Active(q)' = Active(q) /\ \A c \in Chats : q \in Filers(c) => q \in Filers(c)'
  BY <1>1 DEF Active, Filers
<1>4. quota # r /\ \A c \in Chats : r \notin Filers(c)
  BY <1>2 DEF LockOK, Filers, Filing, NoOne, Requests
<1>5. QED
  BY <1>1, <1>2, <1>3, <1>4 DEF LockOK

(* Counting: sets of requests that grow by at most one. *)
LEMMA OneMoreRequest ==
  ASSUME NEW S \in SUBSET Requests, NEW r \in Requests, NEW T, T \subseteq S \cup {r}
  PROVE  /\ Cardinality(S) \in Nat /\ Cardinality(T) \in Nat /\ Cardinality(T) <= Cardinality(S) + 1
         /\ T \subseteq S => Cardinality(T) <= Cardinality(S)
         /\ S \subseteq T => Cardinality(S) <= Cardinality(T)
         /\ (r \notin S /\ T = S \cup {r}) => Cardinality(T) = Cardinality(S) + 1
<1>1. /\ IsFiniteSet(S) /\ Cardinality(S) \in Nat /\ IsFiniteSet(T) /\ Cardinality(T) \in Nat
      /\ IsFiniteSet(S \cup {r}) /\ Cardinality(S \cup {r}) \in Nat
  BY RequestsFinite
<1>2. T \subseteq S => Cardinality(T) <= Cardinality(S)
  BY <1>1, FS_Subset
<1>3. S \subseteq T => Cardinality(S) <= Cardinality(T)
  BY <1>1, FS_Subset
<1>4. r \notin S => Cardinality(S \cup {r}) = Cardinality(S) + 1
  BY <1>1, FS_AddElement
<1>5. r \in S => S \cup {r} = S
  OBVIOUS
<1>6. Cardinality(T) <= Cardinality(S \cup {r})
  BY <1>1, FS_Subset
<1>7. Cardinality(S \cup {r}) <= Cardinality(S) + 1
  BY <1>1, <1>4, <1>5
<1>8. Cardinality(T) <= Cardinality(S) + 1
  BY <1>1, <1>6, <1>7
<1>9. QED
  BY <1>1, <1>2, <1>3, <1>4, <1>8

(* Counting: a request that arrives is refused, not counted, or has the day's row. *)
LEMMA CountStart ==
  ASSUME AskInv, NEW r \in Requests, NEW n, Moved(r, n), req[r].pc = "idle", n.pc # "idle", count' = count,
         \/ quota' = quota /\ (MaxQueries = 0 \/ n.pc = "refused" \/ n.kind \notin {"ask", "stream"})
         \/ quota' = r /\ quota = NoOne /\ count < MaxQueries /\ n.pc = "llm"
  PROVE  CountOK'
<1>1. /\ req'[r] = n /\ \A q \in Requests \ {r} : req'[q] = req[q]
  BY MovedIs DEF AskInv
<1>2. quota \in Requests \cup {NoOne} /\ LockOK /\ CountOK /\ count \in Nat
  BY DEF AskInv, AskTyped
<1>3. quota # r
  BY <1>2 DEF LockOK, Active, NoOne, Requests
<1>4. NoOne \notin Requests
  BY DEF NoOne, Requests
<1>5. \A q \in Requests \ {r} : quota' = q <=> quota = q
  BY <1>3, <1>4
<1>6. quota' = r => MaxQueries > 0 /\ n.pc = "llm"
  BY <1>2, <1>3, AskAssumption
<1>7. Started \in SUBSET Requests /\ Started \subseteq Started' /\ Started' \subseteq Started \cup {r}
  BY <1>1, <1>5 DEF Started
<1>8. Cardinality(Started) \in Nat /\ Cardinality(Started)' \in Nat /\ Cardinality(Started) <= Cardinality(Started)'
  BY <1>7, OneMoreRequest
<1>9. MaxQueries > 0 => Counted' = Counted
  <2> SUFFICES ASSUME MaxQueries > 0
               PROVE  Counted' = Counted
    OBVIOUS
  <2>1. MaxQueries # 0
    BY AskAssumption
  <2>2. quota' = r \/ n.pc = "refused" \/ n.kind \notin {"ask", "stream"}
    BY <2>1
  <2>3. r \notin Counted
    BY DEF Counted, Active
  <2>4. r \notin Counted'
    BY <1>1, <1>6, <2>2 DEF Counted, Active, Ended
  <2>5. \A q \in Requests \ {r} : q \in Counted <=> q \in Counted'
    BY <1>1, <1>5 DEF Counted, Active
  <2>6. Counted \subseteq Requests /\ Counted' \subseteq Requests
    BY DEF Counted
  <2>7. QED
    BY <2>3, <2>4, <2>5, <2>6
<1>10. count' <= Cardinality(Started)'
  BY <1>2, <1>8 DEF CountOK
<1>11. MaxQueries > 0 => count' <= MaxQueries /\ Cardinality(Counted)' <= count' /\ (quota' # NoOne => count' < MaxQueries)
  BY <1>2, <1>9 DEF CountOK
<1>12. QED
  BY <1>10, <1>11 DEF CountOK

(* Counting: a request goes on. *)
LEMMA CountMove ==
  ASSUME AskInv, NEW r \in Requests, NEW n, Moved(r, n), Active(r), n.pc \notin Ended \cup {"idle"},
         n.kind = req[r].kind, UNCHANGED <<quota, count>>
  PROVE  CountOK'
<1>1. /\ req'[r] = n /\ \A q \in Requests \ {r} : req'[q] = req[q]
  BY MovedIs DEF AskInv
<1>2. Started' = Started /\ Counted' = Counted
  BY <1>1 DEF Started, Counted, Active, Ended
<1>3. QED
  BY <1>2 DEF CountOK, AskInv

(* Counting: a request fails, or one ends that is no question. *)
LEMMA CountEnd ==
  ASSUME AskInv, NEW r \in Requests, NEW n, Moved(r, n), Active(r), n.kind = req[r].kind, count' = count,
         \/ Release(r) /\ n.pc = "failed"
         \/ quota' = quota /\ n.pc = "done" /\ n.kind = "crystal"
  PROVE  CountOK'
<1>1. /\ req'[r] = n /\ \A q \in Requests \ {r} : req'[q] = req[q]
  BY MovedIs DEF AskInv
<1>2. quota \in Requests \cup {NoOne} /\ LockOK /\ CountOK /\ count \in Nat
  BY DEF AskInv, AskTyped
<1>3. NoOne # r /\ (quota' = quota \/ (quota = r /\ quota' = NoOne)) /\ NoOne \notin Requests
  BY DEF Release, NoOne, Requests
<1>4. Started \in SUBSET Requests /\ Started \subseteq Started' /\ Started' \subseteq Started \cup {r}
  BY <1>1, <1>3 DEF Started, Active, Ended
<1>5. Cardinality(Started) \in Nat /\ Cardinality(Started)' \in Nat /\ Cardinality(Started) <= Cardinality(Started)'
  BY <1>4, OneMoreRequest
<1>6. Counted \in SUBSET Requests /\ Counted' \subseteq Counted
  BY <1>1, <1>3 DEF Counted, Active, Ended
<1>7. Cardinality(Counted) \in Nat /\ Cardinality(Counted)' \in Nat /\ Cardinality(Counted)' <= Cardinality(Counted)
  BY <1>6, OneMoreRequest
<1>8. count' <= Cardinality(Started)'
  BY <1>2, <1>5 DEF CountOK
<1>9. MaxQueries > 0 => count' <= MaxQueries /\ Cardinality(Counted)' <= count' /\ (quota' # NoOne => count' < MaxQueries)
  BY <1>2, <1>3, <1>7 DEF CountOK
<1>10. QED
  BY <1>8, <1>9 DEF CountOK

(* Counting: a commit counts the request that has the day's row. *)
LEMMA CountCommit ==
  ASSUME AskInv, NEW r \in Requests, NEW n, Moved(r, n), Active(r), n.kind = req[r].kind,
         n.pc \notin {"idle", "refused", "failed"}, Release(r), count' = IF quota = r THEN count + 1 ELSE count
  PROVE  CountOK' /\ count' \in Nat
<1>1. /\ req'[r] = n /\ \A q \in Requests \ {r} : req'[q] = req[q]
  BY MovedIs DEF AskInv
<1>2. quota \in Requests \cup {NoOne} /\ LockOK /\ CountOK /\ count \in Nat
  BY DEF AskInv, AskTyped
<1>3. NoOne # r /\ NoOne \notin Requests
  BY DEF NoOne, Requests
<1>4. Started \in SUBSET Requests /\ Counted \in SUBSET Requests
  BY DEF Started, Counted
<1>5. CASE quota = r
  <2>1. quota' = NoOne /\ count' = count + 1
    BY <1>5 DEF Release
  <2>2. Started' = Started \cup {r} /\ r \notin Started
    BY <1>1, <1>3, <1>5, <2>1 DEF Started, Active, Ended
  <2>3. Counted' \subseteq Counted \cup {r}
    BY <1>1, <1>3, <1>5, <2>1 DEF Counted, Active
  <2>4. Cardinality(Started) \in Nat /\ Cardinality(Started)' = Cardinality(Started) + 1
    BY <1>4, <2>2, OneMoreRequest
  <2>5. Cardinality(Counted) \in Nat /\ Cardinality(Counted)' \in Nat /\ Cardinality(Counted)' <= Cardinality(Counted) + 1
    BY <1>4, <2>3, OneMoreRequest
  <2>6. count' <= Cardinality(Started)'
    BY <1>2, <2>1, <2>4 DEF CountOK
  <2>7. MaxQueries > 0 => count < MaxQueries /\ Cardinality(Counted) <= count
    BY <1>2, <1>3, <1>5 DEF CountOK
  <2>8. MaxQueries > 0 => count' <= MaxQueries /\ Cardinality(Counted)' <= count'
    BY <1>2, <2>1, <2>5, <2>7, AskAssumption
  <2>9. QED
    BY <1>2, <2>1, <2>6, <2>8 DEF CountOK
<1>6. CASE quota # r
  <2>1. quota' = quota /\ count' = count
    BY <1>6 DEF Release
  <2>2. Started' = Started
    BY <1>1, <1>6, <2>1 DEF Started, Active, Ended
  <2>3. Counted' \subseteq Counted
    BY <1>1, <1>6, <2>1 DEF Counted, Active
  <2>4. Cardinality(Counted) \in Nat /\ Cardinality(Counted)' \in Nat /\ Cardinality(Counted)' <= Cardinality(Counted)
    BY <1>4, <2>3, OneMoreRequest
  <2>5. MaxQueries > 0 => Cardinality(Counted)' <= count'
    BY <1>2, <2>1, <2>4 DEF CountOK
  <2>6. QED
    BY <1>2, <2>1, <2>2, <2>5 DEF CountOK
<1>7. QED
  BY <1>5, <1>6

(* Turns: those of requests that are done stay so. *)
LEMMA ByFrame ==
  ASSUME AskInv, NEW r \in Requests, NEW n, Moved(r, n), req[r].pc # "done",
         \A c \in Chats : turns'[c] = turns[c]
  PROVE  ByOK'
<1>1. \A q \in Requests \ {r} : req'[q] = req[q]
  BY MovedIs DEF AskInv
<1>2. \A c \in Chats : turns[c] \subseteq Turn
  BY DEF AskInv, AskTyped
<1>3. \A c \in Chats : \A t \in turns[c] : t.by \in Requests \ {r} /\ req[t.by].pc = "done" /\ req[t.by].chat = c
  BY <1>2 DEF AskInv, ByOK, Turn
<1>4. \A c \in Chats : \A t, u \in turns[c] : u.by = t.by => u = t
  BY DEF AskInv, ByOK
<1>5. QED
  BY <1>1, <1>3, <1>4 DEF ByOK

(* Turns: a request that ends adds its own. *)
LEMMA ByCommit ==
  ASSUME AskInv, NEW r \in Requests, NEW n, Moved(r, n), Active(r), n.pc = "done", NEW m, m.by = r,
         \A c \in Chats : turns'[c] = turns[c] \/ (turns'[c] = turns[c] \cup {m} /\ c = n.chat)
  PROVE  ByOK'
<1>1. req'[r] = n /\ \A q \in Requests \ {r} : req'[q] = req[q]
  BY MovedIs DEF AskInv
<1>2. \A c \in Chats : turns[c] \subseteq Turn
  BY DEF AskInv, AskTyped
<1>3. \A c \in Chats : \A t \in turns[c] : t.by \in Requests \ {r} /\ req[t.by].pc = "done" /\ req[t.by].chat = c
  BY <1>2 DEF AskInv, ByOK, Turn, Active, Ended
<1>4. \A c \in Chats : \A t, u \in turns[c] : u.by = t.by => u = t
  BY DEF AskInv, ByOK
<1>5. QED
  BY <1>1, <1>3, <1>4 DEF ByOK

(* Conversations: a request arrives, for one that is there or one that none has asked for. *)
LEMMA LiveStart ==
  ASSUME AskInv, NEW r \in Requests, NEW n, Moved(r, n), req[r].pc = "idle", UNCHANGED <<conv, synth>>,
         \A c \in Chats : turns[c] = {} => turns'[c] = {},
         n.pc \notin Ended =>
            \/ n.new /\ n.kind \in Questions /\ Unused(n.chat)
            \/ ~n.new /\ conv[n.chat].live
  PROVE  LiveOK'
<1>1. req'[r] = n /\ \A q \in Requests \ {r} : req'[q] = req[q]
  BY MovedIs DEF AskInv
<1>2. LiveOK /\ \A q \in Requests : ReqTyped(req[q])
  BY DEF AskInv, AskTyped
<1>3. \A c \in Chats : ~conv'[c].live => turns'[c] = {} /\ synth'[c] = {} /\ ~conv'[c].crystal
  BY <1>2 DEF LiveOK
<1>4. ASSUME NEW q \in Requests \ {r}, Active(q)', req'[q].new
      PROVE  ~conv'[req'[q].chat].live /\ \A p \in Open(req[q].chat, Questions)' : p = q
  <2>1. Active(q) /\ req[q].new /\ req'[q] = req[q]
    BY <1>1, <1>4 DEF Active
  <2>2. PICK d : d = req[q].chat
    OBVIOUS
  <2>3. ~conv[d].live /\ \A p \in Open(d, Questions) : p = q
    BY <1>2, <2>1, <2>2 DEF LiveOK
  <2>4. q \in Open(d, Questions)
    BY <1>2, <2>1, <2>2 DEF Open, Active, ReqTyped
  <2>5. r \notin Open(d, Questions)'
    BY <1>1, <2>3, <2>4 DEF Open, Unused
  <2>6. Open(d, Questions)' \subseteq Open(d, Questions)
    BY <1>1, <2>5 DEF Open
  <2>7. QED
    BY <2>1, <2>2, <2>3, <2>6
<1>5. ASSUME NEW q \in Requests \ {r}, Active(q)', ~req'[q].new
      PROVE  conv'[req'[q].chat].live
  BY <1>1, <1>2, <1>5 DEF LiveOK, Active
<1>6. ASSUME n.pc \notin Ended, n.new
      PROVE  ~conv[n.chat].live /\ \A p \in Open(n.chat, Questions)' : p = r
  <2>1. Unused(n.chat)
    BY <1>6
  <2>2. QED
    BY <1>1, <2>1 DEF Unused, Open
<1>7. QED
  BY <1>1, <1>3, <1>4, <1>5, <1>6 DEF LiveOK, Active

(* Conversations: a request goes on, or ends without a commit. *)
LEMMA LiveMove ==
  ASSUME AskInv, NEW r \in Requests, NEW n, Moved(r, n), Active(r), n.pc # "idle", n.kind = req[r].kind,
         n.chat = req[r].chat, n.new = req[r].new, UNCHANGED <<conv, turns, synth>>
  PROVE  LiveOK'
<1>1. req'[r] = n /\ \A q \in Requests \ {r} : req'[q] = req[q]
  BY MovedIs DEF AskInv
<1>2. LiveOK
  BY DEF AskInv
<1>3. \A q \in Requests : Active(q)' => Active(q) /\ req'[q].new = req[q].new /\ req'[q].chat = req[q].chat
  BY <1>1 DEF Active
<1>4. \A c : Open(c, Questions)' \subseteq Open(c, Questions)
  BY <1>1 DEF Open, Active
<1>5. QED
  BY <1>2, <1>3, <1>4 DEF LiveOK

(* Conversations: a commit makes the one it is about. *)
LEMMA LiveCommit ==
  ASSUME AskInv, NEW r \in Requests, NEW n, Moved(r, n), Active(r), n.kind = req[r].kind,
         n.chat = req[r].chat, n.pc = "done" \/ ~n.new, conv'[n.chat].live,
         \A c \in Chats : c # n.chat => conv'[c] = conv[c] /\ turns'[c] = turns[c] /\ synth'[c] = synth[c]
  PROVE  LiveOK'
<1>1. req'[r] = n /\ \A q \in Requests \ {r} : req'[q] = req[q]
  BY MovedIs DEF AskInv
<1>2. LiveOK /\ \A q \in Requests : ReqTyped(req[q])
  BY DEF AskInv, AskTyped
<1>3. \A c \in Chats : ~conv'[c].live => turns'[c] = {} /\ synth'[c] = {} /\ ~conv'[c].crystal
  BY <1>2 DEF LiveOK
<1>4. \A c : Open(c, Questions)' \subseteq Open(c, Questions)
  BY <1>1 DEF Open, Active
<1>5. ASSUME NEW q \in Requests \ {r}, Active(q), req[q].new
      PROVE  req[q].chat # n.chat
  <2>1. q \in Open(req[q].chat, Questions)
    BY <1>2, <1>5 DEF Open, Active, ReqTyped
  <2>2. ~conv[req[q].chat].live /\ \A p \in Open(req[q].chat, Questions) : p = q
    BY <1>2, <1>5 DEF LiveOK
  <2>3. CASE req[r].new
    <3>1. \A p \in Open(n.chat, Questions) : p = r
      BY <1>2, <2>3 DEF LiveOK
    <3>2. QED
      BY <2>1, <3>1
  <2>4. CASE ~req[r].new
    <3>1. conv[n.chat].live
      BY <1>2, <2>4 DEF LiveOK
    <3>2. QED
      BY <2>2, <3>1
  <2>5. QED
    BY <2>3, <2>4
<1>6. ASSUME NEW q \in Requests, Active(q)'
      PROVE  /\ req'[q].new => ~conv'[req'[q].chat].live /\ \A p \in Open(req[q].chat, Questions)' : p = q
             /\ ~req'[q].new => conv'[req'[q].chat].live
  <2>1. CASE q = r
    BY <1>1, <1>6, <2>1 DEF Active, Ended
  <2>2. CASE q # r
    <3>1. Active(q) /\ req'[q] = req[q] /\ req[q].chat \in Chats
      BY <1>1, <1>2, <1>6, <2>2 DEF Active, ReqTyped
    <3>2. CASE req[q].new
      <4>1. PICK d : d = req[q].chat
        OBVIOUS
      <4>2. ~conv[d].live /\ (\A p \in Open(d, Questions) : p = q) /\ d # n.chat
        BY <1>2, <1>5, <2>2, <3>1, <3>2, <4>1 DEF LiveOK
      <4>3. conv'[d] = conv[d]
        BY <3>1, <4>1, <4>2
      <4>4. \A p \in Open(d, Questions)' : p = q
        BY <1>4, <4>2
      <4>5. QED
        BY <3>1, <3>2, <4>1, <4>2, <4>3, <4>4
    <3>3. CASE ~req[q].new
      <4>1. conv[req[q].chat].live
        BY <1>2, <3>1, <3>3 DEF LiveOK
      <4>2. QED
        BY <3>1, <3>3, <4>1
    <3>4. QED
      BY <3>2, <3>3
  <2>3. QED
    BY <2>1, <2>2
<1>7. QED
  BY <1>3, <1>6 DEF LiveOK

(* Numbers: nothing asked, nothing answered. *)
LEMMA NumberKeep ==
  ASSUME NEW c, NumberOK(c), {t.index : t \in turns'[c]} = {t.index : t \in turns[c]},
         \A t, u \in turns'[c] : t.index = u.index => t = u,
         \A q \in Open(c, Questions)' : q \in Open(c, Questions) /\ req'[q].index = req[q].index
  PROVE  NumberOK(c)'
<1>1. PICK n \in Nat : {t.index : t \in turns[c]} = 0 .. n - 1 /\ \A q \in Open(c, Questions) : req[q].index = n
  BY DEF NumberOK
<1>2. \A q \in Open(c, Questions)' : req'[q].index = n
  BY <1>1
<1>3. \A q, p \in Open(c, Questions)' : q = p
  BY DEF NumberOK
<1>4. {t.index : t \in turns'[c]} = 0 .. n - 1
  BY <1>1
<1>5. QED
  BY <1>2, <1>3, <1>4 DEF NumberOK

(* Numbers: a question is put where there is none. *)
LEMMA NumberStart ==
  ASSUME AskInv, NEW r \in Requests, NEW n, Moved(r, n), NEW c \in Chats, NumberOK(c), turns' = turns,
         Open(c, Questions) = {}, n.index = _next_turn_index(c)
  PROVE  NumberOK(c)'
<1>1. req'[r] = n /\ \A q \in Requests \ {r} : req'[q] = req[q]
  BY MovedIs DEF AskInv
<1>2. PICK k \in Nat : {t.index : t \in turns[c]} = 0 .. k - 1
  BY DEF NumberOK
<1>3. PICK x : x = _next_turn_index(c)
  OBVIOUS
<1>4. /\ x \in Nat /\ (turns[c] = {} => x = 0) /\ \A t \in turns[c] : t.index < x
      /\ turns[c] # {} => \E t \in turns[c] : t.index = x - 1
  BY <1>3, NextIndex DEF AskInv
<1>5. x = k
  <2>1. CASE turns[c] = {}
    <3>1. 0 .. k - 1 = {}
      BY <1>2, <2>1
    <3>2. k = 0
      BY <3>1
    <3>3. QED
      BY <1>4, <2>1, <3>2
  <2>2. CASE turns[c] # {}
    <3>1. PICK t \in turns[c] : t.index = x - 1
      BY <1>4, <2>2
    <3>2. x - 1 \in 0 .. k - 1
      BY <1>2, <3>1
    <3>3. k - 1 \in 0 .. k - 1
      BY <3>2
    <3>4. PICK u \in turns[c] : u.index = k - 1
      BY <1>2, <3>3
    <3>5. k - 1 < x
      BY <1>4, <3>4
    <3>6. QED
      BY <1>4, <3>2, <3>5
  <2>3. QED
    BY <2>1, <2>2
<1>6. \A q \in Open(c, Questions)' : q = r
  BY <1>1 DEF Open
<1>7. \A q \in Open(c, Questions)' : req'[q].index = k
  BY <1>1, <1>3, <1>5, <1>6
<1>8. \A t, u \in turns'[c] : t.index = u.index => t = u
  BY DEF NumberOK
<1>9. QED
  BY <1>2, <1>6, <1>7, <1>8 DEF NumberOK

(* Numbers: the question put is answered. *)
LEMMA NumberCommit ==
  ASSUME AskInv, NEW r \in Requests, NEW n, Moved(r, n), NEW c \in Chats, NumberOK(c),
         r \in Open(c, Questions), n.pc = "done", NEW m, m.index = req[r].index, turns'[c] = turns[c] \cup {m}
  PROVE  NumberOK(c)'
<1>1. req'[r] = n /\ \A q \in Requests \ {r} : req'[q] = req[q]
  BY MovedIs DEF AskInv
<1>2. PICK k \in Nat : {t.index : t \in turns[c]} = 0 .. k - 1 /\ req[r].index = k
  BY DEF NumberOK
<1>3. \A t \in turns[c] : t.index \in 0 .. k - 1
  BY <1>2
<1>4. {t.index : t \in turns'[c]} = (0 .. k - 1) \cup {k}
  BY <1>2
<1>5. k + 1 \in Nat /\ {t.index : t \in turns'[c]} = 0 .. (k + 1) - 1
  BY <1>4
<1>6. \A t, u \in turns'[c] : t.index = u.index => t = u
  BY <1>2, <1>3 DEF NumberOK
<1>7. Open(c, Questions)' = {}
  BY <1>1 DEF NumberOK, Open, Ended
<1>8. QED
  BY <1>5, <1>6, <1>7 DEF NumberOK

(* What the model is given: only a request that begins is given anything. *)
LEMMA PriorStep ==
  ASSUME AskInv, NEW r \in Requests, NEW n, Moved(r, n), n.pc = "llm" => n.prior = LastOf(n.seen, MaxPrior)
  PROVE  PriorIsThread'
<1>1. req'[r] = n /\ \A q \in Requests \ {r} : req'[q] = req[q]
  BY MovedIs DEF AskInv
<1>2. QED
  BY <1>1 DEF AskInv, PriorIsThread

(* Marks: a turn that is added is of no selection. *)
LEMMA MarkStep ==
  ASSUME AskInv, NEW r \in Requests, NEW n, Moved(r, n), n.pc # "idle", picked' = picked,
         \A c \in Chats : \A t \in turns'[c] : t \in turns[c] \/ t.mark \in {Unmarked, Thread}
  PROVE  MarkOK'
<1>1. req'[r] = n /\ \A q \in Requests \ {r} : req'[q] = req[q]
  BY MovedIs DEF AskInv
<1>2. \A q \in Requests : req[q].pc # "idle" => req'[q].pc # "idle"
  BY <1>1
<1>3. Unmarked \notin Requests /\ Thread \notin Requests
  BY AskAssumption DEF Unmarked, Thread, Requests
<1>4. \A p \in picked : p.by \in Requests
  BY DEF AskInv, AskTyped
<1>5. QED
  BY <1>2, <1>3, <1>4 DEF AskInv, MarkOK

-----------------------------------------------------------------------------
(* Questions and conversations: the parts about one conversation *)

ChatOK(c) ==
    /\ c \notin met => NumberOK(c)
    /\ c \notin raced => FileOK(c)
    /\ c \notin twin => CrystalOK(c)
    /\ EmptyOK(c)

(* The file: filings go on, or are given up before they write. *)
LEMMA FileKeep ==
  ASSUME NEW c, FileOK(c), file'[c] = file[c], answer'[c] = answer[c], floor'[c] = floor[c],
         By(turns[c]) \subseteq By(turns'[c]),
         \A t \in turns'[c] : t.mark = Thread => \E u \in turns[c] : u.mark = Thread /\ u.by = t.by,
         \A q \in Filers(c)' : /\ q \in Filers(c) /\ req'[q].begin = req[q].begin /\ req'[q].content = req[q].content
                               /\ req'[q].kind = req[q].kind /\ (req'[q].pc = "write" <=> req[q].pc = "write"),
         \A q \in Filers(c) \ Filers(c)' : req[q].pc = "write"
  PROVE  FileOK(c)'
<1>1. \A q \in Filers(c) : FilerOK(c, q)
  BY DEF FileOK
<1>2. ASSUME NEW q \in Filers(c)'
      PROVE  FilerOK(c, q)'
  <2>1. FilerOK(c, q) /\ req'[q].begin = req[q].begin /\ req'[q].content = req[q].content
    BY <1>1, <1>2
  <2>2. req'[q].kind = req[q].kind /\ (req'[q].pc = "write" <=> req[q].pc = "write")
    BY <1>2
  <2>3. By(req'[q].content) = By(req[q].content) /\ By(req'[q].begin) = By(req[q].begin)
    BY <2>1
  <2>4. \A t \in turns'[c] : t.mark = Thread => t.by \in By(req'[q].content)
    BY <2>1, <2>3 DEF FilerOK
  <2>5. By(req'[q].content) \subseteq By(turns'[c]) \cup (IF req'[q].kind = "file" THEN {} ELSE {q})
    BY <2>1, <2>2, <2>3 DEF FilerOK
  <2>6. By(req'[q].begin) \subseteq By(req'[q].content) /\ (req'[q].kind # "file" => q \in By(req'[q].content))
    BY <2>1, <2>2, <2>3 DEF FilerOK
  <2>7. req'[q].pc # "write" => file'[c] = By(req'[q].content)
    BY <2>1, <2>2, <2>3 DEF FilerOK
  <2>8. By(req[q].content)' = By(req'[q].content) /\ By(req[q].begin)' = By(req'[q].begin) /\ By(turns[c])' = By(turns'[c])
    BY DEF By
  <2>9. QED
    BY <2>4, <2>5, <2>6, <2>7, <2>8 DEF FilerOK
<1>3. ASSUME \A q \in Filers(c)' : req'[q].pc = "write"
      PROVE  FiledOK(c)'
  <2>1. FiledOK(c)
    BY <1>3 DEF FileOK
  <2>2. By(turns[c])' = By(turns'[c])
    BY DEF By
  <2>3. QED
    BY <2>1, <2>2 DEF FiledOK
<1>4. \A q, p \in Filers(c)' : q = p
  BY DEF FileOK
<1>5. QED
  BY <1>2, <1>3, <1>4 DEF FileOK

(* Crystallization: none begins and none ends. *)
LEMMA CrystalKeep ==
  ASSUME NEW c, CrystalOK(c), synth'[c] = synth[c], conv'[c].crystal = conv[c].crystal,
         \A q \in Requests : req'[q].chat = c /\ req'[q].pc = "distil" => req[q].chat = c /\ req[q].pc = "distil"
  PROVE  CrystalOK(c)'
<1>1. \A q \in Requests : req[q].chat = c /\ req[q].pc = "distil" =>
          ~conv[c].crystal /\ \A p \in Requests : req[p].chat = c /\ req[p].pc = "distil" => p = q
  BY DEF CrystalOK
<1>2. \A q \in Requests : req'[q].chat = c /\ req'[q].pc = "distil" =>
          ~conv'[c].crystal /\ \A p \in Requests : req'[p].chat = c /\ req'[p].pc = "distil" => p = q
  BY <1>1
<1>3. QED
  BY <1>2 DEF CrystalOK

(* Empty conversations: the stream that made one is between its commits, or was. *)
LEMMA EmptyKeep ==
  ASSUME NEW c, EmptyOK(c), AskInv, NEW r \in Requests, NEW n, Moved(r, n),
         conv'[c].live => conv[c].live, turns'[c] = {} => turns[c] = {}, cut \subseteq cut',
         req[r].kind = "stream" => n.chat = req[r].chat /\ n.kind = "stream" /\ (~req[r].new => ~n.new),
         req[r].kind = "stream" /\ req[r].chat = c /\ ~req[r].new /\ Active(r) /\ req[r].pc # "llm" =>
            r \in cut' \/ n.pc \notin Ended \cup {"idle", "llm"}
  PROVE  EmptyOK(c)'
<1> SUFFICES ASSUME conv'[c].live, turns'[c] = {}
             PROVE  \E q \in Requests : /\ req'[q].chat = c /\ req'[q].kind = "stream" /\ ~req'[q].new
                                        /\ q \in cut' \/ (Active(q)' /\ req'[q].pc # "llm")
  BY DEF EmptyOK
<1>1. req'[r] = n /\ \A q \in Requests \ {r} : req'[q] = req[q]
  BY MovedIs DEF AskInv
<1>2. PICK q \in Requests : /\ req[q].chat = c /\ req[q].kind = "stream" /\ ~req[q].new
                            /\ q \in cut \/ (Active(q) /\ req[q].pc # "llm")
  BY DEF EmptyOK
<1>3. CASE q # r
  BY <1>1, <1>2, <1>3 DEF Active
<1>4. CASE q = r
  BY <1>1, <1>2, <1>4 DEF Active
<1>5. QED
  BY <1>3, <1>4

(* A step leaves the conversations alone that its request is not about. *)
LEMMA OtherChat ==
  ASSUME AskInv, NEW r \in Requests, NEW n, Moved(r, n), NEW c \in Chats, n.chat # c,
         req[r].kind = "stream" => n.kind = "stream" /\ (~req[r].new => ~n.new),
         req[r].pc = "idle" \/ req[r].chat = n.chat,
         conv'[c] = conv[c], turns'[c] = turns[c], synth'[c] = synth[c], file'[c] = file[c], answer'[c] = answer[c],
         floor'[c] = floor[c], cut \subseteq cut', met \subseteq met', raced \subseteq raced', twin \subseteq twin'
  PROVE  ChatOK(c)'
<1>1. req'[r] = n /\ \A q \in Requests \ {r} : req'[q] = req[q]
  BY MovedIs DEF AskInv
<1>2. ReqTyped(req[r])
  BY DEF AskInv, AskTyped
<1>3. \A q \in Open(c, Questions)' : q \in Open(c, Questions) /\ req'[q].index = req[q].index
  BY <1>1 DEF Open
<1>4. r \notin Filers(c) /\ r \notin Filers(c)'
  BY <1>1 DEF Filers, Filing
<1>5. Filers(c)' = Filers(c) /\ \A q \in Filers(c) : req'[q] = req[q]
  BY <1>1, <1>4 DEF Filers
<1>6. c \notin met' => NumberOK(c)'
  <2>1. SUFFICES ASSUME c \notin met'
                 PROVE  NumberOK(c)'
    OBVIOUS
  <2>2. NumberOK(c)
    BY <2>1 DEF AskInv
  <2>3. \A t, u \in turns'[c] : t.index = u.index => t = u
    BY <2>2 DEF NumberOK
  <2>4. {t.index : t \in turns'[c]} = {t.index : t \in turns[c]}
    OBVIOUS
  <2>5. QED
    BY <1>3, <2>2, <2>3, <2>4, NumberKeep
<1>7. c \notin raced' => FileOK(c)'
  <2>1. SUFFICES ASSUME c \notin raced'
                 PROVE  FileOK(c)'
    OBVIOUS
  <2>2. FileOK(c)
    BY <2>1 DEF AskInv
  <2>3. By(turns[c]) \subseteq By(turns'[c])
    OBVIOUS
  <2>4. \A t \in turns'[c] : t.mark = Thread => \E u \in turns[c] : u.mark = Thread /\ u.by = t.by
    OBVIOUS
  <2>5. \A q \in Filers(c)' : /\ q \in Filers(c) /\ req'[q].begin = req[q].begin /\ req'[q].content = req[q].content
                              /\ req'[q].kind = req[q].kind /\ (req'[q].pc = "write" <=> req[q].pc = "write")
    BY <1>5
  <2>6. \A q \in Filers(c) \ Filers(c)' : req[q].pc = "write"
    BY <1>5
  <2>7. QED
    BY <2>2, <2>3, <2>4, <2>5, <2>6, FileKeep
<1>8. c \notin twin' => CrystalOK(c)'
  <2>1. SUFFICES ASSUME c \notin twin'
                 PROVE  CrystalOK(c)'
    OBVIOUS
  <2>2. CrystalOK(c)
    BY <2>1 DEF AskInv
  <2>3. \A q \in Requests : req'[q].chat = c /\ req'[q].pc = "distil" => req[q].chat = c /\ req[q].pc = "distil"
    BY <1>1
  <2>4. QED
    BY <2>2, <2>3, CrystalKeep
<1>9. EmptyOK(c)'
  <2>1. EmptyOK(c)
    BY DEF AskInv
  <2>2. req[r].kind = "stream" => n.chat = req[r].chat /\ n.kind = "stream" /\ (~req[r].new => ~n.new)
    BY <1>2 DEF ReqTyped
  <2>3. req[r].kind = "stream" => req[r].chat # c
    BY <1>2, <2>2
  <2>4. QED
    BY <2>1, <2>2, <2>3, EmptyKeep
<1>10. QED
  BY <1>6, <1>7, <1>8, <1>9 DEF ChatOK

(* The invariant after a step, from its parts. *)
LEMMA AskParts ==
  ASSUME AskTyped', LockOK', CountOK', ByOK', LiveOK', PriorIsThread', MarkOK', \A c \in Chats : ChatOK(c)'
  PROVE  AskInv'
BY DEF AskInv, ChatOK

(* The types after a step, but for what a step seldom changes. *)
LEMMA TypedStep ==
  ASSUME AskInv, NEW r \in Requests, NEW n, Moved(r, n),
         conv' \in [Chats -> ConvRow], turns' \in [Chats -> SUBSET Turn], \A c \in Chats : IsFiniteSet(turns'[c]),
         count' \in Nat, quota' \in Requests \cup {NoOne}, row' \in [Chats -> Requests \cup {NoOne}],
         answer' \in [Chats -> BOOLEAN], file' \in [Chats -> SUBSET Requests], floor' \in [Chats -> SUBSET Requests],
         synth' \in [Chats -> SUBSET Requests], picked' \subseteq [by : Requests, chat : Chats, turns : SUBSET Requests]
  PROVE  AskTyped'
<1>1. req' = [q \in Requests |-> req'[q]] /\ \A q \in Requests : ReqTyped(req'[q])
  BY MovedIs DEF AskInv
<1>2. QED
  BY <1>1 DEF AskTyped, ReqTyped, IsReq

(* A request that arrives is given the next number and the end of the thread. *)
LEMMA PreparedIs ==
  ASSUME AskInv, NEW r \in Requests, NEW kind \in Questions, NEW c \in Chats, NEW k \in ConvRow, k.live,
         NEW new \in BOOLEAN, _prepare_context(r, kind, c, k, new),
         new => Unused(c) /\ ~k.crystal /\ (kind = "fork" \/ k.parent = "none")
  PROVE  \E n : /\ Moved(r, n) /\ n.pc \in {"llm", "refused"} /\ n.kind = kind /\ n.chat = c /\ n.new = new /\ n.conv = k
                /\ n.index = _next_turn_index(c) /\ n.prior = LastOf(n.seen, MaxPrior)
                /\ met' = IF n.pc = "llm" /\ Open(c, Questions) # {} THEN met \cup {c} ELSE met
<1>1. PICK x : x = _next_turn_index(c)
  OBVIOUS
<1>2. turns[c] \subseteq Turn /\ IsFiniteSet(turns[c]) /\ x \in Nat /\ (turns[c] = {} => x = 0) /\ \A t \in turns[c] : t.index < x
  BY <1>1, NextIndex DEF AskInv, AskTyped
<1>3. PICK ix : ix = IF new /\ kind # "fork" THEN 0 ELSE _next_turn_index(c)
  OBVIOUS
<1>4. PICK pr : pr = IF new /\ kind # "fork" THEN <<>> ELSE _load_prior_turns(k, c, ix)
  OBVIOUS
<1>5. PICK sn : sn = IF k.parent = "none" THEN ByIndex(turns[c])
                     ELSE Shared[MaxRequests][k.parent] \o Before(k.parent, k.at) \o ByIndex(turns[c])
  OBVIOUS
<1>6. new /\ kind # "fork" => turns[c] = {}
  BY DEF AskInv, LiveOK, Unused
<1>7. ix = x
  BY <1>1, <1>2, <1>3, <1>6
<1>8. Before(c, ix) = ByIndex(turns[c])
  <2>1. {t \in turns[c] : t.index < ix} = turns[c]
    BY <1>2, <1>7
  <2>2. QED
    BY <2>1 DEF Before
<1>9. PICK s : s = ByIndex(turns[c])
  OBVIOUS
<1>10. s \in Seq(turns[c]) /\ Len(s) = Cardinality(turns[c])
  BY <1>2, <1>9, InOrder
<1>11. pr = LastOf(sn, MaxPrior)
  <2>1. CASE new /\ kind # "fork"
    <3>1. Len(s) = 0
      BY <1>6, <1>10, <2>1, FS_EmptySet
    <3>2. s = <<>> /\ sn = s /\ pr = <<>>
      <4>1. s = <<>>
        BY <1>10, <3>1, EmptySeq
      <4>2. k.parent = "none"
        BY <2>1
      <4>3. sn = s
        BY <1>5, <1>9, <4>2
      <4>4. pr = <<>>
        BY <1>4, <2>1
      <4>5. QED
        BY <4>1, <4>3, <4>4
    <3>3. SubSeq(s, 1, 0) = <<>>
      BY <3>2
    <3>4. LastOf(s, MaxPrior) = SubSeq(s, 1, 0)
      BY <3>1, AskAssumption DEF LastOf
    <3>5. QED
      BY <3>2, <3>3, <3>4
  <2>2. CASE ~(new /\ kind # "fork") /\ k.parent = "none"
    <3>1. pr = LET back == Reverse(s)
               IN  Reverse(SubSeq(back, 1, IF Len(back) < MaxPrior THEN Len(back) ELSE MaxPrior))
      BY <1>4, <1>8, <1>9, <2>2 DEF _load_prior_turns
    <3>2. pr = LastOf(s, MaxPrior)
      BY <1>10, <3>1, BackwardsIs, AskAssumption
    <3>3. QED
      BY <1>5, <1>9, <2>2, <3>2
  <2>3. CASE ~(new /\ kind # "fork") /\ k.parent # "none"
    BY <1>4, <1>5, <1>8, <2>3 DEF _load_prior_turns
  <2>4. QED
    BY <2>1, <2>2, <2>3
<1>12. PICK pc \in {"llm", "refused"} :
          /\ req' = [req EXCEPT ![r] = [Idle EXCEPT !.pc = pc, !.kind = kind, !.chat = c, !.new = new, !.conv = k,
                                            !.filed = k.filed, !.index = ix, !.prior = pr, !.seen = sn]]
          /\ met' = IF pc = "llm" /\ Open(c, Questions) # {} THEN met \cup {c} ELSE met
  BY <1>3, <1>4, <1>5 DEF _prepare_context
<1>12a. PICK kf : kf = k.filed
  OBVIOUS
<1>12b. PICK nw : nw = new
  OBVIOUS
<1>13. PICK n : n = [Idle EXCEPT !.pc = pc, !.kind = kind, !.chat = c, !.new = nw, !.conv = k,
                        !.filed = kf, !.index = ix, !.prior = pr, !.seen = sn]
  OBVIOUS
<1>14. n = [pc |-> pc, kind |-> kind, chat |-> c, new |-> nw, filed |-> kf, conv |-> k,
            index |-> ix, prior |-> pr, seen |-> sn, content |-> {}, begin |-> {}, wrote |-> FALSE]
  <2>1. PICK f : f = FALSE
    OBVIOUS
  <2>2. Idle = [pc |-> "idle", kind |-> "none", chat |-> "none", new |-> f, filed |-> f, conv |-> NoConv,
                index |-> 0, prior |-> <<>>, seen |-> <<>>, content |-> {}, begin |-> {}, wrote |-> f]
    BY <2>1 DEF Idle
  <2>3. n = [pc |-> pc, kind |-> kind, chat |-> c, new |-> nw, filed |-> kf, conv |-> k,
             index |-> ix, prior |-> pr, seen |-> sn, content |-> {}, begin |-> {}, wrote |-> f]
    BY <1>13, <2>2
  <2>4. QED
    BY <2>1, <2>3
<1>141. /\ n.pc = pc /\ n.kind = kind /\ n.chat = c /\ n.new = new /\ n.conv = k /\ n.index = ix
        /\ n.prior = pr /\ n.seen = sn /\ n.content = {} /\ n.begin = {} /\ n.wrote = FALSE
  BY <1>12b, <1>14
<1>15. req' = [q \in Requests |-> IF q = r THEN n ELSE req[q]]
  BY <1>12, <1>12a, <1>12b, <1>13 DEF AskInv, AskTyped
<1>16. ReqTyped(n)
  <2>1. IsReq(n) /\ n.content \in SUBSET Turn /\ n.begin \in SUBSET Turn
    BY <1>14 DEF IsReq
  <2>2. n.pc \in AskPCs /\ n.pc \notin {"idle", "distil", "persist", "flush", "article", "commit"} \cup Filing
    BY <1>12, <1>141 DEF AskPCs, Filing
  <2>3. n.new => ~n.conv.crystal
    BY <1>141
  <2>4. n.chat \in Chats /\ n.kind \in Questions /\ n.conv \in ConvRow /\ n.conv.live /\ n.index \in Nat /\ n.new \in BOOLEAN /\ n.wrote = FALSE
    BY <1>2, <1>7, <1>141
  <2>5. QED
    BY <2>1, <2>2, <2>3, <2>4 DEF ReqTyped
<1>17. QED
  BY <1>1, <1>7, <1>11, <1>12, <1>141, <1>15, <1>16 DEF Moved

(* The conversations when a question or a fork arrives. *)
LEMMA StartChats ==
  ASSUME AskInv, NEW r \in Requests, NEW n, Moved(r, n), NEW c \in Chats, req[r].pc = "idle",
         n.pc \in {"llm", "refused"}, n.kind \in Questions, n.chat = c, n.index = _next_turn_index(c),
         met' = IF n.pc = "llm" /\ Open(c, Questions) # {} THEN met \cup {c} ELSE met,
         UNCHANGED <<conv, turns, synth, file, answer, floor, raced, twin, cut>>
  PROVE  \A d \in Chats : ChatOK(d)'
<1>1. req'[r] = n /\ (\A q \in Requests \ {r} : req'[q] = req[q]) /\ req[r].kind = "none"
  BY MovedIs DEF AskInv, AskTyped, ReqTyped
<1>2. met \subseteq met'
  OBVIOUS
<1>3. ASSUME NEW d \in Chats, d # c
      PROVE  ChatOK(d)'
  BY <1>1, <1>2, <1>3, OtherChat
<1>4. c \notin met' => NumberOK(c)'
  <2>1. SUFFICES ASSUME c \notin met'
                 PROVE  NumberOK(c)'
    OBVIOUS
  <2>2. NumberOK(c) /\ (n.pc = "llm" => Open(c, Questions) = {})
    BY <2>1 DEF AskInv
  <2>3. CASE n.pc = "llm"
    BY <2>2, <2>3, NumberStart
  <2>4. CASE n.pc = "refused"
    <3>1. \A q \in Open(c, Questions)' : q \in Open(c, Questions) /\ req'[q].index = req[q].index
      BY <1>1, <2>4 DEF Open, Ended
    <3>2. \A t, u \in turns'[c] : t.index = u.index => t = u
      BY <2>2 DEF NumberOK
    <3>3. {t.index : t \in turns'[c]} = {t.index : t \in turns[c]}
      OBVIOUS
    <3>4. QED
      BY <2>2, <3>1, <3>2, <3>3, NumberKeep
  <2>5. QED
    BY <2>3, <2>4
<1>5. c \notin raced' => FileOK(c)'
  <2>1. SUFFICES ASSUME c \notin raced'
                 PROVE  FileOK(c)'
    OBVIOUS
  <2>2. FileOK(c)
    BY <2>1 DEF AskInv
  <2>3. Filers(c)' = Filers(c) /\ r \notin Filers(c)
    BY <1>1 DEF Filers, Filing
  <2>4. By(turns[c]) \subseteq By(turns'[c]) /\ \A t \in turns'[c] : t.mark = Thread => \E u \in turns[c] : u.mark = Thread /\ u.by = t.by
    OBVIOUS
  <2>5. \A q \in Filers(c)' : /\ q \in Filers(c) /\ req'[q].begin = req[q].begin /\ req'[q].content = req[q].content
                              /\ req'[q].kind = req[q].kind /\ (req'[q].pc = "write" <=> req[q].pc = "write")
    BY <1>1, <2>3 DEF Filers
  <2>6. QED
    BY <2>2, <2>3, <2>4, <2>5, FileKeep
<1>6. c \notin twin' => CrystalOK(c)'
  <2>1. SUFFICES ASSUME c \notin twin'
                 PROVE  CrystalOK(c)'
    OBVIOUS
  <2>2. CrystalOK(c)
    BY <2>1 DEF AskInv
  <2>3. \A q \in Requests : req'[q].chat = c /\ req'[q].pc = "distil" => req[q].chat = c /\ req[q].pc = "distil"
    BY <1>1
  <2>4. QED
    BY <2>2, <2>3, CrystalKeep
<1>7. EmptyOK(c)'
  <2>1. EmptyOK(c)
    BY DEF AskInv
  <2>2. QED
    BY <1>1, <2>1, EmptyKeep
<1>8. ChatOK(c)'
  BY <1>4, <1>5, <1>6, <1>7 DEF ChatOK
<1>9. QED
  BY <1>3, <1>8

(* A question arrives. *)
LEMMA AskAskStart ==
  ASSUME AskInv, NEW r \in Requests, NEW c \in Chats, NEW kind \in {"ask", "stream"}, AskStart(r, kind, c)
  PROVE  AskInv'
<1>1. PICK k : k = IF conv[c].live THEN conv[c] ELSE [NoConv EXCEPT !.live = TRUE]
  OBVIOUS
<1>2. k \in ConvRow /\ k.live /\ (~conv[c].live => ~k.crystal /\ k.parent = "none")
  <2>1. CASE conv[c].live
    BY <1>1, <2>1 DEF AskInv, AskTyped
  <2>2. CASE ~conv[c].live
    <3>1. k = [live |-> TRUE, parent |-> "none", at |-> 0, filed |-> FALSE, crystal |-> FALSE]
      BY <1>1, <2>2 DEF NoConv
    <3>2. QED
      BY <3>1 DEF ConvRow
  <2>3. QED
    BY <2>1, <2>2
<1>3. PICK w \in BOOLEAN : w = ~conv[c].live
  OBVIOUS
<1>4. _prepare_context(r, kind, c, k, w) /\ kind \in Questions
  BY <1>1, <1>3 DEF AskStart, Questions
<1>5. w => Unused(c)
  BY <1>3 DEF AskStart
<1>6. PICK n : /\ Moved(r, n) /\ n.pc \in {"llm", "refused"} /\ n.kind = kind /\ n.chat = c /\ n.new = w
               /\ n.index = _next_turn_index(c) /\ n.prior = LastOf(n.seen, MaxPrior)
               /\ met' = IF n.pc = "llm" /\ Open(c, Questions) # {} THEN met \cup {c} ELSE met
  <2>1. w => Unused(c) /\ ~k.crystal /\ (kind = "fork" \/ k.parent = "none")
    BY <1>2, <1>3, <1>5
  <2>2. QED
    BY <1>2, <1>4, <2>1, PreparedIs
<1>7. req'[r] = n /\ req[r].pc = "idle"
  BY <1>6, MovedIs DEF AskInv, AskStart, Arrives
<1>8. UNCHANGED <<conv, turns, count, row, synth, file, answer, floor, picked, raced, twin, cut>>
  BY DEF AskStart
<1>9. \/ quota' = quota /\ (MaxQueries = 0 \/ n.pc = "refused")
      \/ quota' = r /\ quota = NoOne /\ count < MaxQueries /\ n.pc = "llm"
  <2>1. count \in Nat
    BY DEF AskInv, AskTyped
  <2>2. QED
    BY <1>7, <2>1, AskAssumption DEF AskStart, check_query_quota
<1>10. AskTyped'
  <2>1. quota' \in Requests \cup {NoOne}
    BY <1>9 DEF AskInv, AskTyped
  <2>2. AskTyped
    BY DEF AskInv
  <2>3. QED
    BY <1>6, <1>8, <2>1, <2>2, TypedStep DEF AskTyped
<1>11. LockOK'
  BY <1>6, <1>7, <1>8, <1>9, LockStart
<1>12. CountOK'
  BY <1>6, <1>7, <1>8, <1>9, CountStart
<1>13. ByOK'
  BY <1>6, <1>7, <1>8, ByFrame
<1>14. LiveOK'
  <2>1. (n.new /\ n.kind \in Questions /\ Unused(n.chat)) \/ (~n.new /\ conv[n.chat].live)
    <3>1. CASE conv[c].live
      BY <1>3, <1>6, <3>1
    <3>2. CASE ~conv[c].live
      <4>1. w
        BY <1>3, <3>2
      <4>2. n.new /\ Unused(n.chat) /\ n.kind \in Questions
        BY <1>4, <1>5, <1>6, <4>1
      <4>3. QED
        BY <4>2
    <3>3. QED
      BY <3>1, <3>2
  <2>2. QED
    BY <1>6, <1>7, <1>8, <2>1, LiveStart
<1>15. PriorIsThread'
  BY <1>6, PriorStep
<1>16. MarkOK'
  BY <1>6, <1>8, MarkStep
<1>17. \A d \in Chats : ChatOK(d)'
  BY <1>4, <1>6, <1>7, <1>8, StartChats
<1>18. QED
  BY <1>10, <1>11, <1>12, <1>13, <1>14, <1>15, <1>16, <1>17, AskParts

(* A request after a change of its control state. *)
LEMMA WithPc ==
  ASSUME AskInv, NEW r \in Requests, NEW p, NEW n, n = [req[r] EXCEPT !.pc = p]
  PROVE  /\ IsReq(n) /\ n.pc = p /\ n.kind = req[r].kind /\ n.chat = req[r].chat /\ n.new = req[r].new
         /\ n.conv = req[r].conv /\ n.index = req[r].index /\ n.prior = req[r].prior /\ n.seen = req[r].seen
         /\ n.content = req[r].content /\ n.begin = req[r].begin /\ n.wrote = req[r].wrote
<1>1. PICK x : x = req[r]
  OBVIOUS
<1>2. IsReq(x)
  BY <1>1 DEF AskInv, AskTyped, ReqTyped
<1>3. n = [x EXCEPT !.pc = p]
  BY <1>1
<1>4. x = [pc |-> x.pc, kind |-> x.kind, chat |-> x.chat, new |-> x.new, filed |-> x.filed, conv |-> x.conv,
           index |-> x.index, prior |-> x.prior, seen |-> x.seen, content |-> x.content,
           begin |-> x.begin, wrote |-> x.wrote]
  BY <1>2 DEF IsReq
<1>5. n = [pc |-> p, kind |-> x.kind, chat |-> x.chat, new |-> x.new, filed |-> x.filed, conv |-> x.conv,
           index |-> x.index, prior |-> x.prior, seen |-> x.seen, content |-> x.content,
           begin |-> x.begin, wrote |-> x.wrote]
  BY <1>3, <1>4
<1>6. IsReq(n)
  BY <1>5 DEF IsReq
<1>7. QED
  BY <1>1, <1>5, <1>6

(* A fork arrives. *)
LEMMA AskFork ==
  ASSUME AskInv, NEW r \in Requests, NEW c \in Chats, NEW p \in Chats, NEW at \in Nat, fork_conversation(r, c, p, at)
  PROVE  AskInv'
<1>1. PICK k : k = [NoConv EXCEPT !.live = TRUE, !.parent = p, !.at = at]
  OBVIOUS
<1>2. k \in ConvRow /\ k.live /\ ~k.crystal
  <2>1. k = [live |-> TRUE, parent |-> p, at |-> at, filed |-> FALSE, crystal |-> FALSE]
    BY <1>1 DEF NoConv
  <2>2. QED
    BY <2>1 DEF ConvRow
<1>3. _prepare_context(r, "fork", c, k, TRUE) /\ "fork" \in Questions
  BY <1>1 DEF fork_conversation, Questions
<1>4. Unused(c)
  BY DEF fork_conversation
<1>5. PICK w \in BOOLEAN : w
  OBVIOUS
<1>5a. _prepare_context(r, "fork", c, k, w)
  BY <1>3, <1>5
<1>6. PICK n : /\ Moved(r, n) /\ n.pc \in {"llm", "refused"} /\ n.kind = "fork" /\ n.chat = c /\ n.new = w
               /\ n.index = _next_turn_index(c) /\ n.prior = LastOf(n.seen, MaxPrior)
               /\ met' = IF n.pc = "llm" /\ Open(c, Questions) # {} THEN met \cup {c} ELSE met
  BY <1>2, <1>3, <1>4, <1>5a, PreparedIs
<1>7. req'[r] = n /\ req[r].pc = "idle"
  BY <1>6, MovedIs DEF AskInv, fork_conversation, Arrives
<1>8. UNCHANGED <<conv, turns, count, row, quota, synth, file, answer, floor, picked, raced, twin, cut>>
  BY DEF fork_conversation
<1>10. AskTyped'
  <2>1. AskTyped
    BY DEF AskInv
  <2>2. QED
    BY <1>6, <1>8, <2>1, TypedStep DEF AskTyped
<1>11. LockOK'
  BY <1>6, <1>7, <1>8, LockStart
<1>12. CountOK'
  BY <1>6, <1>7, <1>8, CountStart
<1>13. ByOK'
  BY <1>6, <1>7, <1>8, ByFrame
<1>14. LiveOK'
  <2>1. n.new /\ n.kind \in Questions /\ Unused(n.chat)
    BY <1>3, <1>4, <1>5, <1>6
  <2>2. QED
    BY <1>6, <1>7, <1>8, <2>1, LiveStart
<1>15. PriorIsThread'
  BY <1>6, PriorStep
<1>16. MarkOK'
  BY <1>6, <1>8, MarkStep
<1>17. \A d \in Chats : ChatOK(d)'
  BY <1>3, <1>6, <1>7, <1>8, StartChats
<1>18. QED
  BY <1>10, <1>11, <1>12, <1>13, <1>14, <1>15, <1>16, <1>17, AskParts

(* The conversations when a request goes on, or fails. *)
LEMMA MoveChats ==
  ASSUME AskInv, NEW r \in Requests, NEW n, Moved(r, n), Active(r), n.pc \notin {"idle", "distil"},
         n.kind = req[r].kind, n.chat = req[r].chat, n.new = req[r].new, n.index = req[r].index,
         n.begin = req[r].begin, n.content = req[r].content,
         n.chat \in raced' \/ (req[r].pc \in Filing =>
            (req[r].pc = "write" /\ n.pc \notin Filing) \/ (req[r].pc # "write" /\ n.pc \in Filing \ {"write"})),
         n.pc \in Filing => req[r].pc \in Filing,
         UNCHANGED <<conv, turns, synth, file, answer, floor, met, twin>>, raced \subseteq raced', cut \subseteq cut',
         req[r].kind = "stream" /\ ~req[r].new /\ req[r].pc # "llm" => r \in cut' \/ n.pc \notin Ended \cup {"idle", "llm"}
  PROVE  \A d \in Chats : ChatOK(d)'
<1>1. req'[r] = n /\ (\A q \in Requests \ {r} : req'[q] = req[q])
  BY MovedIs DEF AskInv
<1>2. PICK c : c = n.chat
  OBVIOUS
<1>3. ASSUME NEW d \in Chats, d # c
      PROVE  ChatOK(d)'
  BY <1>1, <1>2, <1>3, OtherChat
<1>4. ASSUME c \in Chats
      PROVE  ChatOK(c)'
  <2>1. c \notin met' => NumberOK(c)'
    <3>1. SUFFICES ASSUME c \notin met'
                   PROVE  NumberOK(c)'
      OBVIOUS
    <3>2. NumberOK(c)
      BY <1>4, <3>1 DEF AskInv
    <3>3. \A q \in Open(c, Questions)' : q \in Open(c, Questions) /\ req'[q].index = req[q].index
      BY <1>1 DEF Open, Active
    <3>4. \A t, u \in turns'[c] : t.index = u.index => t = u
      BY <3>2 DEF NumberOK
    <3>5. {t.index : t \in turns'[c]} = {t.index : t \in turns[c]}
      OBVIOUS
    <3>6. QED
      BY <3>2, <3>3, <3>4, <3>5, NumberKeep
  <2>2. c \notin raced' => FileOK(c)'
    <3>1. SUFFICES ASSUME c \notin raced'
                   PROVE  FileOK(c)'
      OBVIOUS
    <3>2. FileOK(c)
      BY <1>4, <3>1 DEF AskInv
    <3>3. req[r].pc \in Filing => (req[r].pc = "write" /\ n.pc \notin Filing) \/ (req[r].pc # "write" /\ n.pc \in Filing \ {"write"})
      BY <1>2, <3>1
    <3>4. By(turns[c]) \subseteq By(turns'[c]) /\ \A t \in turns'[c] : t.mark = Thread => \E u \in turns[c] : u.mark = Thread /\ u.by = t.by
      OBVIOUS
    <3>5. \A q \in Filers(c)' : /\ q \in Filers(c) /\ req'[q].begin = req[q].begin /\ req'[q].content = req[q].content
                                /\ req'[q].kind = req[q].kind /\ (req'[q].pc = "write" <=> req[q].pc = "write")
      BY <1>1, <1>2, <3>3 DEF Filers
    <3>6. \A q \in Filers(c) \ Filers(c)' : req[q].pc = "write"
      BY <1>1, <1>2, <3>3 DEF Filers
    <3>7. QED
      BY <3>2, <3>4, <3>5, <3>6, FileKeep
  <2>3. c \notin twin' => CrystalOK(c)'
    <3>1. SUFFICES ASSUME c \notin twin'
                   PROVE  CrystalOK(c)'
      OBVIOUS
    <3>2. CrystalOK(c)
      BY <1>4, <3>1 DEF AskInv
    <3>3. \A q \in Requests : req'[q].chat = c /\ req'[q].pc = "distil" => req[q].chat = c /\ req[q].pc = "distil"
      BY <1>1
    <3>4. QED
      BY <3>2, <3>3, CrystalKeep
  <2>4. EmptyOK(c)'
    <3>1. EmptyOK(c)
      BY <1>4 DEF AskInv
    <3>2. QED
      BY <1>1, <3>1, EmptyKeep
  <2>5. QED
    BY <2>1, <2>2, <2>3, <2>4 DEF ChatOK
<1>5. QED
  BY <1>3, <1>4

(* The model answers. *)
LEMMA AskAnswer ==
  ASSUME AskInv, NEW r \in Requests, NEW filing \in BOOLEAN, _query_llm(r, filing)
  PROVE  AskInv'
<1>1. PICK p : p = IF filing THEN "flush" ELSE "persist"
  OBVIOUS
<1>2. PICK n : n = [req[r] EXCEPT !.pc = p]
  OBVIOUS
<1>3. /\ IsReq(n) /\ n.pc = p /\ n.kind = req[r].kind /\ n.chat = req[r].chat /\ n.new = req[r].new
      /\ n.conv = req[r].conv /\ n.index = req[r].index /\ n.prior = req[r].prior /\ n.seen = req[r].seen
      /\ n.content = req[r].content /\ n.begin = req[r].begin /\ n.wrote = req[r].wrote
  BY <1>2, WithPc
<1>4. p \in {"flush", "persist"} /\ req[r].pc = "llm" /\ req[r].kind \in Questions
  BY <1>1 DEF _query_llm
<1>5. ReqTyped(req[r])
  BY DEF AskInv, AskTyped
<1>6. ReqTyped(n)
  BY <1>3, <1>4, <1>5 DEF ReqTyped, AskPCs, Filing, Ended
<1>7. req' = [q \in Requests |-> IF q = r THEN n ELSE req[q]]
  BY <1>1, <1>2 DEF _query_llm, AskInv, AskTyped
<1>8. Moved(r, n) /\ Active(r) /\ n.pc \notin Ended \cup {"idle"}
  BY <1>3, <1>4, <1>6, <1>7 DEF Moved, Active, Ended
<1>9. UNCHANGED <<conv, turns, count, quota, row, slot, answer, file, synth, picked, met, raced, twin, early, cut, floor>>
  BY DEF _query_llm
<1>10. AskTyped'
  <2>1. AskTyped
    BY DEF AskInv
  <2>2. QED
    BY <1>8, <1>9, <2>1, TypedStep DEF AskTyped
<1>11. LockOK'
  BY <1>3, <1>4, <1>8, <1>9, LockMove DEF Filing
<1>12. CountOK'
  BY <1>3, <1>8, <1>9, CountMove
<1>13. ByOK'
  BY <1>4, <1>8, <1>9, ByFrame
<1>14. LiveOK'
  BY <1>3, <1>8, <1>9, LiveMove
<1>15. PriorIsThread'
  BY <1>3, <1>4, <1>8, PriorStep
<1>16. MarkOK'
  BY <1>8, <1>9, MarkStep
<1>17. \A d \in Chats : ChatOK(d)'
  <2>1. n.pc \notin {"idle", "distil"} /\ n.pc \notin Filing /\ req[r].pc \notin Filing
    BY <1>3, <1>4 DEF Filing
  <2>2. QED
    BY <1>3, <1>4, <1>8, <1>9, <2>1, MoveChats
<1>18. QED
  BY <1>10, <1>11, <1>12, <1>13, <1>14, <1>15, <1>16, <1>17, AskParts

(* A request fails. *)
LEMMA AskRollback ==
  ASSUME AskInv, NEW r \in Requests, Rollback(r)
  PROVE  AskInv'
<1>2. PICK n : n = [req[r] EXCEPT !.pc = "failed"]
  OBVIOUS
<1>3. /\ IsReq(n) /\ n.pc = "failed" /\ n.kind = req[r].kind /\ n.chat = req[r].chat /\ n.new = req[r].new
      /\ n.conv = req[r].conv /\ n.index = req[r].index /\ n.prior = req[r].prior /\ n.seen = req[r].seen
      /\ n.content = req[r].content /\ n.begin = req[r].begin /\ n.wrote = req[r].wrote
  BY <1>2, WithPc
<1>4. req[r].pc \notin Ended \cup {"idle"}
  BY DEF Rollback
<1>5. ReqTyped(req[r])
  BY DEF AskInv, AskTyped
<1>6. ReqTyped(n)
  BY <1>3, <1>4, <1>5 DEF ReqTyped, AskPCs, Filing, Ended
<1>7. req' = [q \in Requests |-> IF q = r THEN n ELSE req[q]]
  BY <1>2 DEF Rollback, AskInv, AskTyped
<1>8. Moved(r, n) /\ Active(r) /\ n.pc # "idle"
  BY <1>3, <1>4, <1>6, <1>7 DEF Moved, Active
<1>9. UNCHANGED <<conv, turns, count, answer, file, synth, picked, met, twin, early, floor>> /\ Release(r)
  BY DEF Rollback
<1>9a. LockOK' /\ quota' \in Requests \cup {NoOne} /\ row' \in [Chats -> Requests \cup {NoOne}]
  BY <1>8, <1>9, LockRelease
<1>10. AskTyped'
  <2>1. AskTyped
    BY DEF AskInv
  <2>2. QED
    BY <1>8, <1>9, <1>9a, <2>1, TypedStep DEF AskTyped
<1>12. CountOK'
  BY <1>3, <1>8, <1>9, CountEnd
<1>13. ByOK'
  BY <1>4, <1>8, <1>9, ByFrame DEF Ended
<1>14. LiveOK'
  BY <1>3, <1>8, <1>9, LiveMove
<1>15. PriorIsThread'
  BY <1>3, <1>8, PriorStep
<1>16. MarkOK'
  BY <1>8, <1>9, MarkStep
<1>17. \A d \in Chats : ChatOK(d)'
  <2>1. n.pc \notin {"idle", "distil"} /\ n.pc \notin Filing
    BY <1>3 DEF Filing
  <2>2. n.chat \in raced' \/ (req[r].pc \in Filing => req[r].pc = "write")
    BY <1>3, <1>5 DEF Rollback, ReqTyped, Filing
  <2>3. raced \subseteq raced' /\ cut \subseteq cut'
    BY DEF Rollback
  <2>4. req[r].kind = "stream" /\ ~req[r].new /\ req[r].pc # "llm" => r \in cut'
    BY DEF Rollback
  <2>5. QED
    BY <1>3, <1>8, <1>9, <2>1, <2>2, <2>3, <2>4, MoveChats
<1>18. QED
  BY <1>9a, <1>10, <1>12, <1>13, <1>14, <1>15, <1>16, <1>17, AskParts

(* The answer article is inserted, or updated. *)
LEMMA AskInsert ==
  ASSUME AskInv, NEW r \in Requests, InsertArticle(r)
  PROVE  AskInv'
<1>2. PICK n : n = [req[r] EXCEPT !.pc = "commit"]
  OBVIOUS
<1>3. /\ IsReq(n) /\ n.pc = "commit" /\ n.kind = req[r].kind /\ n.chat = req[r].chat /\ n.new = req[r].new
      /\ n.conv = req[r].conv /\ n.index = req[r].index /\ n.prior = req[r].prior /\ n.seen = req[r].seen
      /\ n.content = req[r].content /\ n.begin = req[r].begin /\ n.wrote = req[r].wrote
  BY <1>2, WithPc
<1>4. req[r].pc = "article"
  BY DEF InsertArticle
<1>5. ReqTyped(req[r])
  BY DEF AskInv, AskTyped
<1>6. ReqTyped(n)
  BY <1>3, <1>4, <1>5 DEF ReqTyped, AskPCs, Filing, Ended
<1>7. req' = [q \in Requests |-> IF q = r THEN n ELSE req[q]]
  BY <1>2 DEF InsertArticle, AskInv, AskTyped
<1>8. Moved(r, n) /\ Active(r) /\ n.pc \notin Ended \cup {"idle"}
  BY <1>3, <1>4, <1>6, <1>7 DEF Moved, Active, Ended
<1>9. UNCHANGED <<conv, turns, count, quota, row, answer, file, synth, picked, met, raced, twin, early, cut, floor>>
  BY DEF InsertArticle
<1>10. AskTyped'
  <2>1. AskTyped
    BY DEF AskInv
  <2>2. QED
    BY <1>8, <1>9, <2>1, TypedStep DEF AskTyped
<1>11. LockOK'
  BY <1>3, <1>4, <1>8, <1>9, LockMove DEF Filing
<1>12. CountOK'
  BY <1>3, <1>8, <1>9, CountMove
<1>13. ByOK'
  BY <1>4, <1>8, <1>9, ByFrame
<1>14. LiveOK'
  BY <1>3, <1>8, <1>9, LiveMove
<1>15. PriorIsThread'
  BY <1>3, <1>8, PriorStep
<1>16. MarkOK'
  BY <1>8, <1>9, MarkStep
<1>17. \A d \in Chats : ChatOK(d)'
  <2>1. n.pc \notin {"idle", "distil"} /\ n.pc \in Filing \ {"write"} /\ req[r].pc \in Filing /\ req[r].pc # "write"
    BY <1>3, <1>4 DEF Filing
  <2>2. n.pc \notin Ended \cup {"idle", "llm"}
    BY <1>3 DEF Ended
  <2>3. QED
    BY <1>3, <1>8, <1>9, <2>1, <2>2, MoveChats
<1>18. QED
  BY <1>10, <1>11, <1>12, <1>13, <1>14, <1>15, <1>16, <1>17, AskParts

(* The conversations when a filing begins or goes on, but for the file of its own. *)
LEMMA FilingChats ==
  ASSUME AskInv, NEW r \in Requests, NEW n, Moved(r, n), NEW c \in Chats, n.chat = c,
         n.pc \notin Ended \cup {"idle", "llm", "distil"},
         \/ Active(r) /\ n.kind = req[r].kind /\ req[r].chat = c /\ n.new = req[r].new /\ n.index = req[r].index
         \/ req[r].pc = "idle" /\ n.kind = "file",
         UNCHANGED <<conv, turns, synth, answer, floor, met, twin, cut>>, raced \subseteq raced',
         \A d \in Chats : d # c => file'[d] = file[d],
         c \notin raced' => FileOK(c)'
  PROVE  \A d \in Chats : ChatOK(d)'
<1>1. req'[r] = n /\ (\A q \in Requests \ {r} : req'[q] = req[q]) /\ ReqTyped(req[r])
  BY MovedIs DEF AskInv, AskTyped
<1>2. req[r].kind = "stream" => n.kind = "stream" /\ n.chat = req[r].chat /\ (~req[r].new => ~n.new)
  BY <1>1 DEF ReqTyped
<1>3. ASSUME NEW d \in Chats, d # c
      PROVE  ChatOK(d)'
  BY <1>1, <1>2, <1>3, OtherChat
<1>4. c \notin met' => NumberOK(c)'
  <2>1. SUFFICES ASSUME c \notin met'
                 PROVE  NumberOK(c)'
    OBVIOUS
  <2>2. NumberOK(c)
    BY <2>1 DEF AskInv
  <2>3. \A q \in Open(c, Questions)' : q \in Open(c, Questions) /\ req'[q].index = req[q].index
    BY <1>1 DEF Open, Active, Questions
  <2>4. \A t, u \in turns'[c] : t.index = u.index => t = u
    BY <2>2 DEF NumberOK
  <2>5. {t.index : t \in turns'[c]} = {t.index : t \in turns[c]}
    OBVIOUS
  <2>6. QED
    BY <2>2, <2>3, <2>4, <2>5, NumberKeep
<1>5. c \notin twin' => CrystalOK(c)'
  <2>1. SUFFICES ASSUME c \notin twin'
                 PROVE  CrystalOK(c)'
    OBVIOUS
  <2>2. CrystalOK(c)
    BY <2>1 DEF AskInv
  <2>3. \A q \in Requests : req'[q].chat = c /\ req'[q].pc = "distil" => req[q].chat = c /\ req[q].pc = "distil"
    BY <1>1
  <2>4. QED
    BY <2>2, <2>3, CrystalKeep
<1>6. EmptyOK(c)'
  <2>1. EmptyOK(c)
    BY DEF AskInv
  <2>2. QED
    BY <1>1, <1>2, <2>1, EmptyKeep
<1>7. ChatOK(c)'
  BY <1>4, <1>5, <1>6 DEF ChatOK
<1>8. QED
  BY <1>3, <1>7

(* A turn is flushed and the conversation read. *)
LEMMA AskFlush ==
  ASSUME AskInv, NEW r \in Requests, FlushTurn(r)
  PROVE  AskInv'
<1>1. PICK x : x = req[r]
  OBVIOUS
<1>2. ReqTyped(x) /\ x.pc = "flush" /\ x.kind \in Questions /\ x.chat \in Chats
  BY <1>1 DEF AskInv, AskTyped, ReqTyped, FlushTurn
<1>3. PICK c \in Chats : c = x.chat
  BY <1>2
<1>4. PICK m : m = Mine(r, Unmarked)
  OBVIOUS
<1>5. m = [by |-> r, index |-> x.index, mark |-> Unmarked] /\ m \in Turn /\ m.by = r
  BY <1>1, <1>2, <1>4 DEF Mine, Turn, ReqTyped
<1>6. PICK ct : ct = turns[c] \cup {m}
  OBVIOUS
<1>7. PICK bg : bg = turns[c]
  OBVIOUS
<1>8. ct \in SUBSET Turn /\ bg \in SUBSET Turn
  BY <1>5, <1>6, <1>7 DEF AskInv, AskTyped
<1>9. PICK n : n = [x EXCEPT !.pc = "write", !.content = ct, !.begin = bg]
  OBVIOUS
<1>10. n = [pc |-> "write", kind |-> x.kind, chat |-> x.chat, new |-> x.new, filed |-> x.filed, conv |-> x.conv,
            index |-> x.index, prior |-> x.prior, seen |-> x.seen, content |-> ct, begin |-> bg, wrote |-> x.wrote]
  <2>1. x = [pc |-> x.pc, kind |-> x.kind, chat |-> x.chat, new |-> x.new, filed |-> x.filed, conv |-> x.conv,
             index |-> x.index, prior |-> x.prior, seen |-> x.seen, content |-> x.content,
             begin |-> x.begin, wrote |-> x.wrote]
    BY <1>2 DEF ReqTyped, IsReq
  <2>2. QED
    BY <1>9, <2>1
<1>11. /\ n.pc = "write" /\ n.kind = x.kind /\ n.chat = c /\ n.new = x.new /\ n.conv = x.conv /\ n.index = x.index
       /\ n.content = ct /\ n.begin = bg /\ n.wrote = x.wrote
  BY <1>3, <1>10
<1>12. IsReq(n)
  BY <1>10 DEF IsReq
<1>13. ReqTyped(n)
  BY <1>2, <1>3, <1>8, <1>11, <1>12 DEF ReqTyped, AskPCs, Filing, Ended
<1>14. req' = [q \in Requests |-> IF q = r THEN n ELSE req[q]]
  BY <1>1, <1>3, <1>4, <1>6, <1>7, <1>9 DEF FlushTurn, AskInv, AskTyped
<1>15. Moved(r, n) /\ Active(r) /\ n.pc \notin Ended \cup {"idle"}
  BY <1>1, <1>2, <1>11, <1>13, <1>14 DEF Moved, Active, Ended
<1>16. UNCHANGED <<conv, turns, count, quota, slot, answer, file, synth, picked, met, twin, early, cut, floor>>
  BY DEF FlushTurn
<1>17. row' = [row EXCEPT ![c] = r] /\ row[c] = NoOne
  BY <1>1, <1>3 DEF FlushTurn
<1>18. AskTyped'
  <2>1. AskTyped
    BY DEF AskInv
  <2>2. row' \in [Chats -> Requests \cup {NoOne}]
    BY <1>17, <2>1 DEF AskTyped
  <2>3. QED
    BY <1>15, <1>16, <2>1, <2>2, TypedStep DEF AskTyped
<1>19. LockOK'
  <2>1. req[r].pc \notin Filing /\ n.pc \in Filing
    BY <1>1, <1>2, <1>11 DEF Filing
  <2>2. QED
    BY <1>1, <1>3, <1>11, <1>15, <1>16, <1>17, <2>1, LockMove
<1>20. CountOK'
  BY <1>1, <1>11, <1>15, <1>16, CountMove
<1>21. ByOK'
  BY <1>1, <1>2, <1>15, <1>16, ByFrame
<1>22. LiveOK'
  BY <1>1, <1>3, <1>11, <1>15, <1>16, LiveMove
<1>23. PriorIsThread'
  BY <1>11, <1>15, PriorStep
<1>24. MarkOK'
  BY <1>15, <1>16, MarkStep
<1>25. req'[r] = n /\ (\A q \in Requests \ {r} : req'[q] = req[q])
  BY <1>15, MovedIs DEF AskInv
<1>26. c \notin raced' => FileOK(c)'
  <2>1. SUFFICES ASSUME c \notin raced'
                 PROVE  FileOK(c)'
    OBVIOUS
  <2>2. c \notin raced /\ Filers(c) = {}
    <3>1. ~\E q \in Requests \ {r} : req[q].chat = c /\ req[q].pc \in {"write", "article", "commit"}
      BY <1>1, <1>3, <2>1 DEF FlushTurn
    <3>2. r \notin Filers(c)
      BY <1>1, <1>2 DEF Filers, Filing
    <3>3. c \notin raced
      BY <2>1 DEF FlushTurn
    <3>4. QED
      BY <3>1, <3>2, <3>3 DEF Filers, Filing
  <2>3. FileOK(c)
    BY <2>2 DEF AskInv
  <2>4. FiledOK(c)
    BY <2>2, <2>3 DEF FileOK
  <2>5. FiledOK(c)'
    <3>1. By(turns[c])' = By(turns[c])
      BY <1>16 DEF By
    <3>2. QED
      BY <1>16, <2>4, <3>1 DEF FiledOK
  <2>6. Filers(c)' = {r}
    BY <1>11, <1>25, <2>2 DEF Filers, Filing
  <2>7. FilerOK(c, r)'
    <3>1. By(ct) = By(turns[c]) \cup {r} /\ By(bg) = By(turns[c])
      BY <1>5, <1>6, <1>7 DEF By
    <3>2. By(req[r].content)' = By(ct) /\ By(req[r].begin)' = By(bg) /\ By(turns[c])' = By(turns[c])
      BY <1>11, <1>16, <1>25 DEF By
    <3>3. n.kind # "file"
      BY <1>2, <1>11 DEF Questions
    <3>4. \A t \in turns[c] : t.by \in By(turns[c])
      BY DEF By
    <3>5. QED
      BY <1>11, <1>16, <1>25, <3>1, <3>2, <3>3, <3>4 DEF FilerOK
  <2>8. QED
    BY <2>5, <2>6, <2>7 DEF FileOK
<1>27. \A d \in Chats : ChatOK(d)'
  <2>1. raced \subseteq raced' /\ n.pc \notin Ended \cup {"idle", "llm", "distil"}
    BY <1>11 DEF FlushTurn, Ended
  <2>2. QED
    BY <1>1, <1>3, <1>11, <1>15, <1>16, <1>26, <2>1, FilingChats
<1>28. QED
  BY <1>18, <1>19, <1>20, <1>21, <1>22, <1>23, <1>24, <1>27, AskParts

(* A conversation is filed at the user's request. *)
LEMMA AskFileBack ==
  ASSUME AskInv, NEW r \in Requests, NEW c \in Chats, file_back_conversation(r, c)
  PROVE  AskInv'
<1>1. PICK ct : ct = turns[c]
  OBVIOUS
<1>2. PICK k : k = conv[c]
  OBVIOUS
<1>3. ct \in SUBSET Turn /\ k \in ConvRow /\ k.live /\ req[r].pc = "idle"
  BY <1>1, <1>2 DEF AskInv, AskTyped, file_back_conversation, Arrives
<1>4. PICK kf : kf = k.filed
  OBVIOUS
<1>5. PICK n : n = [Idle EXCEPT !.pc = "write", !.kind = "file", !.chat = c, !.filed = kf,
                        !.conv = k, !.content = ct, !.begin = ct]
  OBVIOUS
<1>6. n = [pc |-> "write", kind |-> "file", chat |-> c, new |-> FALSE, filed |-> kf, conv |-> k,
           index |-> 0, prior |-> <<>>, seen |-> <<>>, content |-> ct, begin |-> ct, wrote |-> FALSE]
  <2>1. PICK f : f = FALSE
    OBVIOUS
  <2>2. Idle = [pc |-> "idle", kind |-> "none", chat |-> "none", new |-> f, filed |-> f, conv |-> NoConv,
                index |-> 0, prior |-> <<>>, seen |-> <<>>, content |-> {}, begin |-> {}, wrote |-> f]
    BY <2>1 DEF Idle
  <2>3. n = [pc |-> "write", kind |-> "file", chat |-> c, new |-> f, filed |-> kf, conv |-> k,
             index |-> 0, prior |-> <<>>, seen |-> <<>>, content |-> ct, begin |-> ct, wrote |-> f]
    BY <1>5, <2>2
  <2>4. QED
    BY <2>1, <2>3
<1>7. /\ n.pc = "write" /\ n.kind = "file" /\ n.chat = c /\ n.new = FALSE /\ n.conv = k /\ n.index = 0
      /\ n.content = ct /\ n.begin = ct /\ n.wrote = FALSE
  BY <1>6
<1>8. IsReq(n)
  BY <1>6 DEF IsReq
<1>9. ReqTyped(n)
  <2>1. n.pc \in AskPCs /\ n.new \in BOOLEAN /\ ~n.new /\ n.wrote \in BOOLEAN /\ ~n.wrote
    BY <1>7 DEF AskPCs
  <2>2. n.conv \in ConvRow /\ n.index \in Nat /\ n.content \in SUBSET Turn /\ n.begin \in SUBSET Turn /\ n.chat \in Chats
    BY <1>3, <1>7
  <2>3. n.kind = "file" /\ n.pc = "write"
    BY <1>7
  <2>4. QED
    BY <1>8, <2>1, <2>2, <2>3 DEF ReqTyped
<1>10. req' = [q \in Requests |-> IF q = r THEN n ELSE req[q]]
  BY <1>1, <1>2, <1>4, <1>5 DEF file_back_conversation, AskInv, AskTyped
<1>11. Moved(r, n)
  BY <1>9, <1>10 DEF Moved
<1>12. UNCHANGED <<conv, turns, count, quota, row, slot, answer, file, synth, picked, met, twin, early, cut, floor>>
  BY DEF file_back_conversation
<1>13. AskTyped'
  <2>1. AskTyped
    BY DEF AskInv
  <2>2. QED
    BY <1>11, <1>12, <2>1, TypedStep DEF AskTyped
<1>14. LockOK'
  BY <1>3, <1>11, <1>12, LockStart
<1>15. CountOK'
  BY <1>3, <1>7, <1>11, <1>12, CountStart
<1>16. ByOK'
  BY <1>3, <1>11, <1>12, ByFrame
<1>17. LiveOK'
  BY <1>2, <1>3, <1>7, <1>11, <1>12, LiveStart
<1>18. PriorIsThread'
  BY <1>7, <1>11, PriorStep
<1>19. MarkOK'
  BY <1>7, <1>11, <1>12, MarkStep
<1>20. req'[r] = n /\ (\A q \in Requests \ {r} : req'[q] = req[q])
  BY <1>11, MovedIs DEF AskInv
<1>21. c \notin raced' => FileOK(c)'
  <2>1. SUFFICES ASSUME c \notin raced'
                 PROVE  FileOK(c)'
    OBVIOUS
  <2>2. c \notin raced /\ Filers(c) = {}
    BY <2>1 DEF Filers, Filing, file_back_conversation
  <2>3. FileOK(c)
    BY <2>2 DEF AskInv
  <2>4. FiledOK(c)
    BY <2>2, <2>3 DEF FileOK
  <2>5. FiledOK(c)'
    <3>1. By(turns[c])' = By(turns[c])
      BY <1>12 DEF By
    <3>2. QED
      BY <1>12, <2>4, <3>1 DEF FiledOK
  <2>6. Filers(c)' = {r}
    BY <1>7, <1>20, <2>2 DEF Filers, Filing
  <2>7. FilerOK(c, r)'
    <3>1. By(req[r].content)' = By(ct) /\ By(req[r].begin)' = By(ct) /\ By(turns[c])' = By(ct) /\ turns'[c] = ct
      BY <1>1, <1>7, <1>12, <1>20 DEF By
    <3>2. \A t \in ct : t.by \in By(ct)
      BY DEF By
    <3>3. QED
      BY <1>7, <1>20, <3>1, <3>2 DEF FilerOK
  <2>8. QED
    BY <2>5, <2>6, <2>7 DEF FileOK
<1>22. \A d \in Chats : ChatOK(d)'
  <2>1. raced \subseteq raced' /\ n.pc \notin Ended \cup {"idle", "llm", "distil"}
    BY <1>7 DEF file_back_conversation, Ended
  <2>2. QED
    BY <1>3, <1>7, <1>11, <1>12, <1>21, <2>1, FilingChats
<1>23. QED
  BY <1>13, <1>14, <1>15, <1>16, <1>17, <1>18, <1>19, <1>22, AskParts

(* The file is written. *)
LEMMA AskWrite ==
  ASSUME AskInv, NEW r \in Requests, WriteFile(r)
  PROVE  AskInv'
<1>1. PICK x : x = req[r]
  OBVIOUS
<1>2. ReqTyped(x) /\ x.pc = "write" /\ x.chat \in Chats
  BY <1>1 DEF AskInv, AskTyped, ReqTyped, WriteFile
<1>3. PICK c \in Chats : c = x.chat
  BY <1>2
<1>4. PICK n : n = [x EXCEPT !.pc = "article", !.wrote = TRUE]
  OBVIOUS
<1>5. n = [pc |-> "article", kind |-> x.kind, chat |-> x.chat, new |-> x.new, filed |-> x.filed, conv |-> x.conv,
           index |-> x.index, prior |-> x.prior, seen |-> x.seen, content |-> x.content, begin |-> x.begin, wrote |-> TRUE]
  <2>1. x = [pc |-> x.pc, kind |-> x.kind, chat |-> x.chat, new |-> x.new, filed |-> x.filed, conv |-> x.conv,
             index |-> x.index, prior |-> x.prior, seen |-> x.seen, content |-> x.content,
             begin |-> x.begin, wrote |-> x.wrote]
    BY <1>2 DEF ReqTyped, IsReq
  <2>2. PICK y : y = TRUE
    OBVIOUS
  <2>3. n = [x EXCEPT !.pc = "article", !.wrote = y]
    BY <1>4, <2>2
  <2>4. n = [pc |-> "article", kind |-> x.kind, chat |-> x.chat, new |-> x.new, filed |-> x.filed, conv |-> x.conv,
             index |-> x.index, prior |-> x.prior, seen |-> x.seen, content |-> x.content, begin |-> x.begin, wrote |-> y]
    BY <2>1, <2>3
  <2>5. QED
    BY <2>2, <2>4
<1>6. /\ n.pc = "article" /\ n.kind = x.kind /\ n.chat = c /\ n.new = x.new /\ n.conv = x.conv /\ n.index = x.index
      /\ n.content = x.content /\ n.begin = x.begin /\ n.wrote = TRUE
  BY <1>3, <1>5
<1>7. IsReq(n)
  BY <1>5 DEF IsReq
<1>8. ReqTyped(n)
  BY <1>2, <1>3, <1>6, <1>7 DEF ReqTyped, AskPCs, Filing, Ended
<1>9. req' = [q \in Requests |-> IF q = r THEN n ELSE req[q]]
  BY <1>1, <1>4 DEF WriteFile, AskInv, AskTyped
<1>10. Moved(r, n) /\ Active(r) /\ n.pc \notin Ended \cup {"idle"}
  BY <1>1, <1>2, <1>6, <1>8, <1>9 DEF Moved, Active, Ended
<1>11. UNCHANGED <<conv, turns, count, quota, row, slot, answer, synth, picked, met, raced, twin, early, cut, floor>>
  BY DEF WriteFile
<1>12. file' = [file EXCEPT ![c] = By(x.content)] /\ By(x.content) \in SUBSET Requests
  BY <1>1, <1>2, <1>3 DEF WriteFile, serialize_conversation_to_markdown, ReqTyped, Turn, By
<1>13. AskTyped'
  <2>1. AskTyped
    BY DEF AskInv
  <2>2. file' \in [Chats -> SUBSET Requests]
    BY <1>12, <2>1 DEF AskTyped
  <2>3. QED
    BY <1>10, <1>11, <2>1, <2>2, TypedStep DEF AskTyped
<1>14. LockOK'
  <2>1. n.pc \in Filing
    BY <1>6 DEF Filing
  <2>2. QED
    BY <1>1, <1>3, <1>6, <1>10, <1>11, <2>1, LockMove
<1>15. CountOK'
  BY <1>1, <1>6, <1>10, <1>11, CountMove
<1>16. ByOK'
  BY <1>1, <1>2, <1>10, <1>11, ByFrame
<1>17. LiveOK'
  BY <1>1, <1>3, <1>6, <1>10, <1>11, LiveMove
<1>18. PriorIsThread'
  BY <1>6, <1>10, PriorStep
<1>19. MarkOK'
  BY <1>10, <1>11, MarkStep
<1>20. req'[r] = n /\ (\A q \in Requests \ {r} : req'[q] = req[q])
  BY <1>10, MovedIs DEF AskInv
<1>21. c \notin raced' => FileOK(c)'
  <2>1. SUFFICES ASSUME c \notin raced'
                 PROVE  FileOK(c)'
    OBVIOUS
  <2>2. FileOK(c) /\ r \in Filers(c)
    BY <1>1, <1>2, <1>3, <1>11, <2>1 DEF AskInv, Filers, Filing
  <2>3. Filers(c)' = {r}
    BY <1>6, <1>20, <2>2 DEF Filers, Filing, FileOK
  <2>4. FilerOK(c, r)
    BY <2>2 DEF FileOK
  <2>5. By(req[r].content)' = By(x.content) /\ By(req[r].begin)' = By(x.begin) /\ By(turns[c])' = By(turns[c])
    BY <1>6, <1>11, <1>20 DEF By
  <2>6. file'[c] = By(x.content)
    BY <1>12 DEF AskInv, AskTyped
  <2>7. FilerOK(c, r)'
    BY <1>1, <1>6, <1>11, <1>20, <2>4, <2>5, <2>6 DEF FilerOK
  <2>8. req'[r].pc # "write"
    BY <1>6, <1>20
  <2>9. QED
    BY <2>3, <2>7, <2>8 DEF FileOK
<1>22. \A d \in Chats : ChatOK(d)'
  <2>1. raced \subseteq raced' /\ n.pc \notin Ended \cup {"idle", "llm", "distil"}
    BY <1>6, <1>11 DEF Ended
  <2>2. \A d \in Chats : d # c => file'[d] = file[d]
    BY <1>12 DEF AskInv, AskTyped
  <2>3. QED
    BY <1>1, <1>3, <1>6, <1>10, <1>11, <1>21, <2>1, <2>2, FilingChats
<1>23. QED
  BY <1>13, <1>14, <1>15, <1>16, <1>17, <1>18, <1>19, <1>22, AskParts

(* After the commit of r, now n, about c, with the turn m if it is a question's. *)
Committed(r, n, c, m) ==
    /\ Moved(r, n) /\ n.pc = "done" /\ n.kind = req[r].kind /\ n.chat = c /\ n.new = req[r].new
    /\ conv' \in [Chats -> ConvRow] /\ conv'[c].live /\ conv'[c].crystal = conv[c].crystal
    /\ LET k == IF req[r].new THEN req[r].conv ELSE conv[c] IN conv'[c].parent = k.parent /\ conv'[c].at = k.at
    /\ \A d \in Chats : d # c => conv'[d] = conv[d]
    /\ turns' \in [Chats -> SUBSET Turn] /\ \A d \in Chats : IsFiniteSet(turns'[d])
    /\ \A d \in Chats : d # c => turns'[d] = turns[d]
    /\ turns'[c] = IF req[r].kind \in Questions THEN turns[c] \cup {m} ELSE turns[c]
    /\ m \in Turn /\ m.by = r /\ m.index = req[r].index

(* What a commit writes of the conversation, its turns, the count and the locks. *)
LEMMA CommitIs ==
  ASSUME AskInv, NEW r \in Requests, NEW mark \in {Unmarked, Thread}, NEW filed \in BOOLEAN, Commit(r, mark, filed),
         NEW c \in Chats, c = req[r].chat, Active(r), NEW n, n = [req[r] EXCEPT !.pc = "done"]
  PROVE  Committed(r, n, c, Mine(r, mark))
<1>1. AskTyped /\ ReqTyped(req[r]) /\ LiveOK
  BY DEF AskInv, AskTyped
<1>2. /\ IsReq(n) /\ n.pc = "done" /\ n.kind = req[r].kind /\ n.chat = req[r].chat /\ n.new = req[r].new
      /\ n.conv = req[r].conv /\ n.index = req[r].index /\ n.prior = req[r].prior /\ n.seen = req[r].seen
      /\ n.content = req[r].content /\ n.begin = req[r].begin /\ n.wrote = req[r].wrote
  BY WithPc
<1>3. ReqTyped(n)
  BY <1>1, <1>2 DEF ReqTyped, AskPCs, Filing, Ended, Active
<1>4. Moved(r, n)
  BY <1>1, <1>3 DEF Moved, Commit, AskTyped
<1>5. PICK m : m = Mine(r, mark)
  OBVIOUS
<1>6. m = [by |-> r, index |-> req[r].index, mark |-> mark]
  BY <1>5 DEF Mine
<1>7. m \in Turn /\ m.by = r /\ m.mark = mark /\ m.index = req[r].index
  BY <1>1, <1>6 DEF Turn, ReqTyped
<1>8. turns' = IF req[r].kind \in Questions THEN [turns EXCEPT ![c] = @ \cup {m}] ELSE turns
  BY <1>5 DEF Commit
<1>9. turns \in [Chats -> SUBSET Turn] /\ \A d \in Chats : IsFiniteSet(turns[d])
  BY <1>1 DEF AskTyped
<1>10. /\ \A d \in Chats : d # c => turns'[d] = turns[d]
       /\ turns'[c] = IF req[r].kind \in Questions THEN turns[c] \cup {m} ELSE turns[c]
       /\ turns' \in [Chats -> SUBSET Turn]
  BY <1>7, <1>8, <1>9
<1>11. IsFiniteSet(turns[c] \cup {m})
  BY <1>9, FS_AddElement
<1>12. \A d \in Chats : IsFiniteSet(turns'[d])
  BY <1>9, <1>10, <1>11
<1>13. PICK k0 : k0 = IF req[r].new THEN req[r].conv ELSE conv[c]
  OBVIOUS
<1>14. k0 \in ConvRow /\ k0.live /\ k0.crystal = conv[c].crystal
  <2>1. CASE req[r].new
    <3>1. k0 = req[r].conv /\ k0.live /\ ~k0.crystal /\ k0 \in ConvRow
      BY <1>1, <1>13, <2>1 DEF ReqTyped
    <3>2. conv[c] \in ConvRow /\ ~conv[c].live
      BY <1>1, <2>1 DEF LiveOK, AskTyped
    <3>3. ~conv[c].crystal
      BY <1>1, <3>2 DEF LiveOK
    <3>4. QED
      BY <3>1, <3>2, <3>3 DEF ConvRow
  <2>2. CASE ~req[r].new
    BY <1>1, <1>13, <2>2 DEF LiveOK, AskTyped
  <2>3. QED
    BY <2>1, <2>2
<1>15. PICK f \in BOOLEAN : f = (k0.filed \/ filed)
  OBVIOUS
<1>16. PICK k : k = [k0 EXCEPT !.filed = f]
  OBVIOUS
<1>17. k \in ConvRow /\ k.live = k0.live /\ k.crystal = k0.crystal /\ k.parent = k0.parent /\ k.at = k0.at
  BY <1>14, <1>16 DEF ConvRow
<1>18. conv' = [conv EXCEPT ![c] = k]
  BY <1>13, <1>15, <1>16 DEF Commit
<1>19. conv' \in [Chats -> ConvRow] /\ conv'[c] = k /\ \A d \in Chats : d # c => conv'[d] = conv[d]
  BY <1>1, <1>17, <1>18 DEF AskTyped
<1>20. LET w == IF req[r].new THEN req[r].conv ELSE conv[c] IN conv'[c].parent = w.parent /\ conv'[c].at = w.at
  BY <1>13, <1>17, <1>19
<1>21. QED
  BY <1>2, <1>4, <1>5, <1>7, <1>10, <1>12, <1>14, <1>17, <1>19, <1>20 DEF Committed

(* The conversations after a commit, but for the file of its own. *)
LEMMA CommitChats ==
  ASSUME AskInv, NEW r \in Requests, NEW n, Moved(r, n), NEW c \in Chats, n.chat = c, req[r].chat = c, Active(r),
         n.pc = "done", n.kind = req[r].kind, n.new = req[r].new, req[r].pc # "distil", conv'[c].crystal = conv[c].crystal,
         \A d \in Chats : d # c => conv'[d] = conv[d],
         \A d \in Chats : d # c => turns'[d] = turns[d] /\ answer'[d] = answer[d] /\ floor'[d] = floor[d],
         NEW m, m.index = req[r].index,
         turns'[c] = IF req[r].kind \in Questions THEN turns[c] \cup {m} ELSE turns[c],
         UNCHANGED <<synth, file, met, raced, twin, cut>>, c \notin raced' => FileOK(c)'
  PROVE  \A d \in Chats : ChatOK(d)'
<1>1. req'[r] = n /\ (\A q \in Requests \ {r} : req'[q] = req[q]) /\ ReqTyped(req[r]) /\ LiveOK
  BY MovedIs DEF AskInv, AskTyped
<1>2. ASSUME NEW d \in Chats, d # c
      PROVE  ChatOK(d)'
  BY <1>1, <1>2, OtherChat
<1>3. c \notin met' => NumberOK(c)'
  <2>1. SUFFICES ASSUME c \notin met'
                 PROVE  NumberOK(c)'
    OBVIOUS
  <2>2. NumberOK(c)
    BY <2>1 DEF AskInv
  <2>3. CASE req[r].kind \in Questions
    <3>1. r \in Open(c, Questions) /\ turns'[c] = turns[c] \cup {m}
      BY <2>3 DEF Open, Active
    <3>2. QED
      BY <2>2, <3>1, NumberCommit
  <2>4. CASE req[r].kind \notin Questions
    <3>1. \A q \in Open(c, Questions)' : q \in Open(c, Questions) /\ req'[q].index = req[q].index
      BY <1>1 DEF Open, Ended
    <3>2. (\A t, u \in turns'[c] : t.index = u.index => t = u) /\ {t.index : t \in turns'[c]} = {t.index : t \in turns[c]}
      BY <2>2, <2>4 DEF NumberOK
    <3>3. QED
      BY <2>2, <3>1, <3>2, NumberKeep
  <2>5. QED
    BY <2>3, <2>4
<1>4. c \notin twin' => CrystalOK(c)'
  <2>1. SUFFICES ASSUME c \notin twin'
                 PROVE  CrystalOK(c)'
    OBVIOUS
  <2>2. CrystalOK(c)
    BY <2>1 DEF AskInv
  <2>3. \A q \in Requests : req'[q].chat = c /\ req'[q].pc = "distil" => req[q].chat = c /\ req[q].pc = "distil"
    BY <1>1
  <2>4. QED
    BY <2>2, <2>3, CrystalKeep
<1>5. EmptyOK(c)'
  <2>1. CASE req[r].kind \in Questions
    BY <2>1 DEF EmptyOK
  <2>2. CASE req[r].kind \notin Questions
    <3>1. EmptyOK(c)
      BY DEF AskInv
    <3>2. conv[c].live
      BY <1>1, <2>2 DEF ReqTyped, LiveOK
    <3>3. req[r].kind # "stream" /\ turns'[c] = turns[c]
      BY <2>2 DEF Questions
    <3>4. QED
      BY <1>1, <3>1, <3>2, <3>3, EmptyKeep
  <2>3. QED
    BY <2>1, <2>2
<1>6. ChatOK(c)'
  BY <1>3, <1>4, <1>5 DEF ChatOK
<1>7. QED
  BY <1>2, <1>6

(* A question is answered and not filed. *)
LEMMA AskPersist ==
  ASSUME AskInv, NEW r \in Requests, _persist_query(r)
  PROVE  AskInv'
<1>1. PICK n : n = [req[r] EXCEPT !.pc = "done"]
  OBVIOUS
<1>2. req[r].pc = "persist" /\ Commit(r, Unmarked, FALSE)
  BY DEF _persist_query
<1>3. ReqTyped(req[r]) /\ AskTyped
  BY DEF AskInv, AskTyped
<1>4. PICK c \in Chats : c = req[r].chat
  BY <1>2, <1>3 DEF ReqTyped
<1>5. Active(r) /\ req[r].kind \in Questions
  BY <1>2, <1>3 DEF Active, Ended, ReqTyped
<1>6. PICK fl \in BOOLEAN : fl = FALSE
  OBVIOUS
<1>7. Commit(r, Unmarked, fl) /\ Unmarked \in {Unmarked, Thread}
  BY <1>2, <1>6
<1>8. PICK m : m = Mine(r, Unmarked)
  OBVIOUS
<1>8a. Committed(r, n, c, m)
  BY <1>1, <1>4, <1>5, <1>7, <1>8, CommitIs
<1>8b. m.mark = Unmarked
  BY <1>8 DEF Mine
<1>9. /\ Moved(r, n) /\ n.pc = "done" /\ n.kind = req[r].kind /\ n.chat = c /\ n.new = req[r].new
      /\ conv' \in [Chats -> ConvRow] /\ conv'[c].live /\ conv'[c].crystal = conv[c].crystal
      /\ \A d \in Chats : d # c => conv'[d] = conv[d]
      /\ turns' \in [Chats -> SUBSET Turn] /\ \A d \in Chats : IsFiniteSet(turns'[d])
      /\ \A d \in Chats : d # c => turns'[d] = turns[d]
      /\ turns'[c] = IF req[r].kind \in Questions THEN turns[c] \cup {m} ELSE turns[c]
      /\ m \in Turn /\ m.by = r /\ m.index = req[r].index
  BY <1>8a DEF Committed
<1>10. UNCHANGED <<answer, file, synth, picked, met, raced, twin, early, cut, floor>>
  BY DEF _persist_query
<1>11. Release(r) /\ count' = IF quota = r THEN count + 1 ELSE count
  BY <1>2 DEF Commit
<1>12. LockOK' /\ quota' \in Requests \cup {NoOne} /\ row' \in [Chats -> Requests \cup {NoOne}]
  BY <1>9, <1>11, LockRelease
<1>13. CountOK' /\ count' \in Nat
  BY <1>5, <1>9, <1>11, CountCommit
<1>14. AskTyped'
  BY <1>3, <1>9, <1>10, <1>12, <1>13, TypedStep DEF AskTyped
<1>15. turns'[c] = turns[c] \cup {m}
  BY <1>5, <1>9
<1>16. ByOK'
  BY <1>5, <1>9, <1>15, ByCommit
<1>17. LiveOK'
  <2>1. synth' = synth
    BY <1>10
  <2>2. \A d \in Chats : d # n.chat => conv'[d] = conv[d] /\ turns'[d] = turns[d] /\ synth'[d] = synth[d]
    BY <1>9, <2>1
  <2>3. QED
    BY <1>4, <1>5, <1>9, <2>2, LiveCommit
<1>18. PriorIsThread'
  BY <1>9, PriorStep
<1>19. MarkOK'
  <2>1. \A d \in Chats : \A t \in turns'[d] : t \in turns[d] \/ t.mark \in {Unmarked, Thread}
    BY <1>8b, <1>9, <1>15
  <2>2. QED
    BY <1>9, <1>10, <2>1, MarkStep
<1>20. req'[r] = n /\ (\A q \in Requests \ {r} : req'[q] = req[q])
  BY <1>9, MovedIs DEF AskInv
<1>21. c \notin raced' => FileOK(c)'
  <2>1. SUFFICES ASSUME c \notin raced'
                 PROVE  FileOK(c)'
    OBVIOUS
  <2>2. FileOK(c) /\ r \notin Filers(c)
    BY <1>2, <1>10, <2>1 DEF AskInv, Filers, Filing
  <2>3. Filers(c)' = Filers(c)
    BY <1>9, <1>20, <2>2 DEF Filers, Filing
  <2>4. By(turns[c]) \subseteq By(turns'[c])
    BY <1>15 DEF By
  <2>5. Unmarked # Thread
    BY AskAssumption DEF Unmarked, Thread
  <2>6. \A t \in turns'[c] : t.mark = Thread => \E u \in turns[c] : u.mark = Thread /\ u.by = t.by
    BY <1>8b, <1>9, <1>15, <2>5
  <2>7. \A q \in Filers(c)' : /\ q \in Filers(c) /\ req'[q].begin = req[q].begin /\ req'[q].content = req[q].content
                              /\ req'[q].kind = req[q].kind /\ (req'[q].pc = "write" <=> req[q].pc = "write")
    BY <1>20, <2>2, <2>3 DEF Filers
  <2>8. file'[c] = file[c] /\ answer'[c] = answer[c] /\ floor'[c] = floor[c]
    BY <1>10
  <2>9. QED
    BY <2>2, <2>3, <2>4, <2>6, <2>7, <2>8, FileKeep
<1>22. \A d \in Chats : ChatOK(d)'
  <2>1. req[r].pc # "distil" /\ \A d \in Chats : d # c => turns'[d] = turns[d] /\ answer'[d] = answer[d] /\ floor'[d] = floor[d]
    BY <1>2, <1>9, <1>10
  <2>2. QED
    BY <1>4, <1>5, <1>9, <1>10, <1>21, <2>1, CommitChats
<1>23. QED
  BY <1>12, <1>13, <1>14, <1>16, <1>17, <1>18, <1>19, <1>22, AskParts

(* A filing is committed. *)
LEMMA AskCommitFiled ==
  ASSUME AskInv, NEW r \in Requests, CommitFiled(r)
  PROVE  AskInv'
<1>1. PICK n : n = [req[r] EXCEPT !.pc = "done"]
  OBVIOUS
<1>2. req[r].pc = "commit" /\ Commit(r, Thread, TRUE)
  BY DEF CommitFiled
<1>3. ReqTyped(req[r]) /\ AskTyped
  BY DEF AskInv, AskTyped
<1>4. PICK c \in Chats : c = req[r].chat
  BY <1>2, <1>3 DEF ReqTyped
<1>5. Active(r) /\ req[r].kind \in Questions \cup {"file"} /\ req[r].begin \in SUBSET Turn /\ r \in Filers(c)
  BY <1>2, <1>3, <1>4 DEF Active, Ended, ReqTyped, Filing, Filers
<1>6. PICK fl \in BOOLEAN : fl = TRUE
  OBVIOUS
<1>7. Commit(r, Thread, fl) /\ Thread \in {Unmarked, Thread}
  BY <1>2, <1>6
<1>8. PICK m : m = Mine(r, Thread)
  OBVIOUS
<1>8a. Committed(r, n, c, m)
  BY <1>1, <1>4, <1>5, <1>7, <1>8, CommitIs
<1>8b. m.mark = Thread
  BY <1>8 DEF Mine
<1>9. /\ Moved(r, n) /\ n.pc = "done" /\ n.kind = req[r].kind /\ n.chat = c /\ n.new = req[r].new
      /\ conv' \in [Chats -> ConvRow] /\ conv'[c].live /\ conv'[c].crystal = conv[c].crystal
      /\ \A d \in Chats : d # c => conv'[d] = conv[d]
      /\ turns' \in [Chats -> SUBSET Turn] /\ \A d \in Chats : IsFiniteSet(turns'[d])
      /\ \A d \in Chats : d # c => turns'[d] = turns[d]
      /\ turns'[c] = IF req[r].kind \in Questions THEN turns[c] \cup {m} ELSE turns[c]
      /\ m \in Turn /\ m.by = r /\ m.index = req[r].index
  BY <1>8a DEF Committed
<1>10. /\ UNCHANGED <<file, synth, picked, met, raced, twin, early, cut>>
       /\ answer' = [answer EXCEPT ![c] = TRUE] /\ floor' = [floor EXCEPT ![c] = By(req[r].begin)]
  BY <1>4 DEF CommitFiled
<1>11. Release(r) /\ count' = IF quota = r THEN count + 1 ELSE count
  BY <1>2 DEF Commit
<1>12. LockOK' /\ quota' \in Requests \cup {NoOne} /\ row' \in [Chats -> Requests \cup {NoOne}]
  BY <1>9, <1>11, LockRelease
<1>13. CountOK' /\ count' \in Nat
  BY <1>5, <1>9, <1>11, CountCommit
<1>14. By(req[r].begin) \in SUBSET Requests
  BY <1>5 DEF By, Turn
<1>15. answer' \in [Chats -> BOOLEAN] /\ floor' \in [Chats -> SUBSET Requests]
       /\ answer'[c] = TRUE /\ floor'[c] = By(req[r].begin)
       /\ \A d \in Chats : d # c => answer'[d] = answer[d] /\ floor'[d] = floor[d]
  BY <1>3, <1>10, <1>14 DEF AskTyped
<1>16. AskTyped'
  BY <1>3, <1>9, <1>10, <1>12, <1>13, <1>15, TypedStep DEF AskTyped
<1>17. \A d \in Chats : turns'[d] = turns[d] \/ (turns'[d] = turns[d] \cup {m} /\ d = c)
  BY <1>9
<1>18. ByOK'
  BY <1>5, <1>9, <1>17, ByCommit
<1>19. LiveOK'
  <2>1. synth' = synth
    BY <1>10
  <2>2. \A d \in Chats : d # n.chat => conv'[d] = conv[d] /\ turns'[d] = turns[d] /\ synth'[d] = synth[d]
    BY <1>9, <2>1
  <2>3. QED
    BY <1>4, <1>5, <1>9, <2>2, LiveCommit
<1>20. PriorIsThread'
  BY <1>9, PriorStep
<1>21. MarkOK'
  <2>1. \A d \in Chats : \A t \in turns'[d] : t \in turns[d] \/ t.mark \in {Unmarked, Thread}
    BY <1>8b, <1>9, <1>17
  <2>2. QED
    BY <1>9, <1>10, <2>1, MarkStep
<1>22. req'[r] = n /\ (\A q \in Requests \ {r} : req'[q] = req[q])
  BY <1>9, MovedIs DEF AskInv
<1>23. c \notin raced' => FileOK(c)'
  <2>1. SUFFICES ASSUME c \notin raced'
                 PROVE  FileOK(c)'
    OBVIOUS
  <2>2. FileOK(c)
    BY <1>10, <2>1 DEF AskInv
  <2>3. Filers(c)' = {}
    BY <1>5, <1>9, <1>22, <2>2 DEF Filers, Filing, FileOK
  <2>4. FilerOK(c, r)
    BY <1>5, <2>2 DEF FileOK
  <2>5. file'[c] = By(req[r].content)
    BY <1>2, <1>10, <2>4 DEF FilerOK
  <2>6. floor'[c] \subseteq file'[c]
    BY <1>15, <2>4, <2>5 DEF FilerOK
  <2>7. file'[c] \subseteq By(turns'[c])
    <3>1. CASE req[r].kind = "file"
      <4>1. turns'[c] = turns[c]
        BY <1>9, <3>1 DEF Questions
      <4>2. QED
        BY <2>4, <2>5, <3>1, <4>1 DEF FilerOK
    <3>2. CASE req[r].kind # "file"
      <4>1. turns'[c] = turns[c] \cup {m}
        BY <1>5, <1>9, <3>2
      <4>2. By(turns'[c]) = By(turns[c]) \cup {r}
        BY <1>9, <4>1 DEF By
      <4>3. QED
        BY <2>4, <2>5, <3>2, <4>2 DEF FilerOK
    <3>3. QED
      BY <3>1, <3>2
  <2>8. \A t \in turns'[c] : t.mark = Thread => t.by \in file'[c]
    <3>1. \A t \in turns[c] : t.mark = Thread => t.by \in file'[c]
      BY <2>4, <2>5 DEF FilerOK
    <3>2. req[r].kind \in Questions => r \in file'[c]
      BY <2>4, <2>5 DEF FilerOK, Questions
    <3>3. QED
      BY <1>8b, <1>9, <3>1, <3>2
  <2>9. FiledOK(c)'
    <3>1. By(turns[c])' = By(turns'[c])
      BY DEF By
    <3>2. QED
      BY <1>15, <2>6, <2>7, <2>8, <3>1 DEF FiledOK
  <2>10. QED
    BY <2>3, <2>9 DEF FileOK
<1>24. \A d \in Chats : ChatOK(d)'
  <2>1. req[r].pc # "distil" /\ \A d \in Chats : d # c => turns'[d] = turns[d] /\ answer'[d] = answer[d] /\ floor'[d] = floor[d]
    BY <1>2, <1>9, <1>15
  <2>2. QED
    <3>1. UNCHANGED <<synth, file, met, raced, twin, cut>>
      BY <1>10
    <3>2. req[r].chat = c
      BY <1>4
    <3>3. QED
      BY <1>5, <1>9, <1>23, <2>1, <3>1, <3>2, CommitChats
<1>25. QED
  BY <1>12, <1>13, <1>16, <1>18, <1>19, <1>20, <1>21, <1>24, AskParts

(* A stream commits the cost of its call, and the conversation it makes. *)
LEMMA AskStream ==
  ASSUME AskInv, NEW r \in Requests, answer_stream(r)
  PROVE  AskInv'
<1>1. PICK x : x = req[r]
  OBVIOUS
<1>2. ReqTyped(x) /\ x.pc = "llm" /\ x.kind = "stream" /\ x.chat \in Chats /\ AskTyped /\ LiveOK
  BY <1>1 DEF AskInv, AskTyped, ReqTyped, answer_stream
<1>3. PICK c \in Chats : c = x.chat
  BY <1>2
<1>4. PICK p \in {"flush", "persist"} : req' = [req EXCEPT ![r].pc = p, ![r].new = FALSE]
  BY DEF answer_stream
<1>5. PICK f : f = FALSE
  OBVIOUS
<1>6. PICK n : n = [x EXCEPT !.pc = p, !.new = f]
  OBVIOUS
<1>7. n = [pc |-> p, kind |-> x.kind, chat |-> x.chat, new |-> f, filed |-> x.filed, conv |-> x.conv,
           index |-> x.index, prior |-> x.prior, seen |-> x.seen, content |-> x.content, begin |-> x.begin, wrote |-> x.wrote]
  <2>1. x = [pc |-> x.pc, kind |-> x.kind, chat |-> x.chat, new |-> x.new, filed |-> x.filed, conv |-> x.conv,
             index |-> x.index, prior |-> x.prior, seen |-> x.seen, content |-> x.content,
             begin |-> x.begin, wrote |-> x.wrote]
    BY <1>2 DEF ReqTyped, IsReq
  <2>2. QED
    BY <1>6, <2>1
<1>8. /\ n.pc = p /\ n.kind = "stream" /\ n.chat = c /\ ~n.new /\ n.new \in BOOLEAN /\ n.conv = x.conv /\ n.index = x.index
      /\ n.content = x.content /\ n.begin = x.begin /\ n.wrote = x.wrote
  BY <1>2, <1>3, <1>5, <1>7
<1>9. IsReq(n)
  BY <1>7 DEF IsReq
<1>10. ReqTyped(n)
  <2>1. n.pc \in AskPCs /\ n.pc \in {"flush", "persist"} /\ n.pc \notin Filing /\ n.kind \in Questions /\ ~n.wrote
    BY <1>2, <1>8 DEF AskPCs, Filing, ReqTyped, Ended, Questions
  <2>2. n.wrote \in BOOLEAN /\ n.conv \in ConvRow /\ n.index \in Nat /\ n.content \in SUBSET Turn /\ n.begin \in SUBSET Turn
    BY <1>2, <1>8 DEF ReqTyped
  <2>3. QED
    BY <1>3, <1>8, <1>9, <2>1, <2>2 DEF ReqTyped
<1>11. req' = [q \in Requests |-> IF q = r THEN n ELSE req[q]]
  BY <1>1, <1>2, <1>4, <1>5, <1>6 DEF AskTyped
<1>12. Moved(r, n) /\ Active(r) /\ n.pc \notin Ended \cup {"idle"}
  BY <1>1, <1>2, <1>8, <1>10, <1>11 DEF Moved, Active, Ended
<1>13. UNCHANGED <<turns, answer, file, synth, picked, met, raced, twin, early, cut, floor>>
  BY DEF answer_stream
<1>14. Release(r) /\ count' = IF quota = r THEN count + 1 ELSE count
  BY DEF answer_stream
<1>15. PICK k : k = IF x.new THEN x.conv ELSE conv[c]
  OBVIOUS
<1>16. conv' = [conv EXCEPT ![c] = k]
  BY <1>1, <1>3, <1>15 DEF answer_stream
<1>17. k \in ConvRow /\ k.live /\ k.crystal = conv[c].crystal
  <2>1. CASE x.new
    <3>1. k = x.conv /\ k.live /\ ~k.crystal /\ k \in ConvRow
      BY <1>2, <1>15, <2>1 DEF ReqTyped
    <3>2. conv[c] \in ConvRow /\ ~conv[c].live
      BY <1>1, <1>2, <1>3, <1>12, <2>1 DEF LiveOK, AskTyped
    <3>3. ~conv[c].crystal
      BY <1>2, <3>2 DEF LiveOK
    <3>4. QED
      BY <3>1, <3>2, <3>3 DEF ConvRow
  <2>2. CASE ~x.new
    <3>1. conv[c].live /\ conv[c] \in ConvRow
      BY <1>1, <1>2, <1>3, <1>12, <2>2 DEF LiveOK, AskTyped
    <3>2. QED
      BY <1>15, <2>2, <3>1
  <2>3. QED
    BY <2>1, <2>2
<1>18. conv' \in [Chats -> ConvRow] /\ conv'[c] = k /\ \A d \in Chats : d # c => conv'[d] = conv[d]
  BY <1>2, <1>16, <1>17 DEF AskTyped
<1>19. LockOK' /\ quota' \in Requests \cup {NoOne} /\ row' \in [Chats -> Requests \cup {NoOne}]
  BY <1>12, <1>14, LockRelease
<1>20. CountOK' /\ count' \in Nat
  <2>1. n.kind = req[r].kind /\ n.pc \notin {"idle", "refused", "failed"}
    BY <1>1, <1>2, <1>8
  <2>2. QED
    BY <1>12, <1>14, <2>1, CountCommit
<1>21. AskTyped'
  BY <1>2, <1>12, <1>13, <1>18, <1>19, <1>20, TypedStep DEF AskTyped
<1>22. ByOK'
  BY <1>1, <1>2, <1>12, <1>13, ByFrame
<1>23. LiveOK'
  BY <1>1, <1>2, <1>3, <1>8, <1>12, <1>13, <1>17, <1>18, LiveCommit
<1>24. PriorIsThread'
  BY <1>8, <1>12, PriorStep
<1>25. MarkOK'
  BY <1>12, <1>13, MarkStep
<1>26. req'[r] = n /\ (\A q \in Requests \ {r} : req'[q] = req[q])
  BY <1>12, MovedIs DEF AskInv
<1>27. ASSUME NEW d \in Chats, d # c
       PROVE  ChatOK(d)'
  BY <1>1, <1>2, <1>3, <1>8, <1>12, <1>13, <1>18, <1>27, OtherChat
<1>28. c \notin met' => NumberOK(c)'
  <2>1. SUFFICES ASSUME c \notin met'
                 PROVE  NumberOK(c)'
    OBVIOUS
  <2>2. NumberOK(c)
    BY <1>13, <2>1 DEF AskInv
  <2>3. \A q \in Open(c, Questions)' : q \in Open(c, Questions) /\ req'[q].index = req[q].index
    BY <1>1, <1>2, <1>3, <1>8, <1>12, <1>26 DEF Open, Active, Questions
  <2>4. (\A t, u \in turns'[c] : t.index = u.index => t = u) /\ {t.index : t \in turns'[c]} = {t.index : t \in turns[c]}
    BY <1>13, <2>2 DEF NumberOK
  <2>5. QED
    BY <2>2, <2>3, <2>4, NumberKeep
<1>29. c \notin raced' => FileOK(c)'
  <2>1. SUFFICES ASSUME c \notin raced'
                 PROVE  FileOK(c)'
    OBVIOUS
  <2>2. FileOK(c) /\ r \notin Filers(c)
    BY <1>1, <1>2, <1>13, <2>1 DEF AskInv, Filers, Filing
  <2>3. Filers(c)' = Filers(c)
    BY <1>8, <1>26, <2>2 DEF Filers, Filing
  <2>4. By(turns[c]) \subseteq By(turns'[c]) /\ \A t \in turns'[c] : t.mark = Thread => \E u \in turns[c] : u.mark = Thread /\ u.by = t.by
    BY <1>13
  <2>5. \A q \in Filers(c)' : /\ q \in Filers(c) /\ req'[q].begin = req[q].begin /\ req'[q].content = req[q].content
                              /\ req'[q].kind = req[q].kind /\ (req'[q].pc = "write" <=> req[q].pc = "write")
    BY <1>26, <2>2, <2>3 DEF Filers
  <2>6. file'[c] = file[c] /\ answer'[c] = answer[c] /\ floor'[c] = floor[c]
    BY <1>13
  <2>7. QED
    BY <2>2, <2>3, <2>4, <2>5, <2>6, FileKeep
<1>30. c \notin twin' => CrystalOK(c)'
  <2>1. SUFFICES ASSUME c \notin twin'
                 PROVE  CrystalOK(c)'
    OBVIOUS
  <2>2. CrystalOK(c) /\ synth'[c] = synth[c] /\ conv'[c].crystal = conv[c].crystal
    BY <1>13, <1>17, <1>18, <2>1 DEF AskInv
  <2>3. \A q \in Requests : req'[q].chat = c /\ req'[q].pc = "distil" => req[q].chat = c /\ req[q].pc = "distil"
    BY <1>8, <1>26
  <2>4. QED
    BY <2>2, <2>3, CrystalKeep
<1>31. EmptyOK(c)'
  <2>1. req'[r].chat = c /\ req'[r].kind = "stream" /\ ~req'[r].new /\ Active(r)' /\ req'[r].pc # "llm"
    BY <1>8, <1>12, <1>26 DEF Active
  <2>2. QED
    BY <2>1 DEF EmptyOK
<1>32. \A d \in Chats : ChatOK(d)'
  BY <1>27, <1>28, <1>29, <1>30, <1>31 DEF ChatOK
<1>33. QED
  BY <1>19, <1>20, <1>21, <1>22, <1>23, <1>24, <1>25, <1>32, AskParts

(* The conversations when a request begins that is no question and no filing, or a crystallization ends. *)
LEMMA AsideChats ==
  ASSUME AskInv, NEW r \in Requests, NEW n, Moved(r, n), NEW c \in Chats, n.chat = c,
         n.pc \in {"distil", "done", "refused"}, n.kind \notin Questions,
         req[r].pc = "idle" \/ (req[r].pc = "distil" /\ req[r].chat = c),
         \A d \in Chats : conv'[d].live = conv[d].live /\ (d # c => conv'[d] = conv[d] /\ turns'[d] = turns[d] /\ synth'[d] = synth[d]),
         By(turns'[c]) = By(turns[c]), {t.index : t \in turns'[c]} = {t.index : t \in turns[c]},
         \A t, u \in turns'[c] : t.index = u.index => \E v, w \in turns[c] : v.index = t.index /\ w.index = u.index /\ (v = w => t = u),
         \A t \in turns'[c] : t.mark = Thread => \E u \in turns[c] : u.mark = Thread /\ u.by = t.by,
         UNCHANGED <<file, answer, floor, met, raced, cut>>, twin \subseteq twin', c \notin twin' => CrystalOK(c)'
  PROVE  \A d \in Chats : ChatOK(d)'
<1>1. req'[r] = n /\ (\A q \in Requests \ {r} : req'[q] = req[q]) /\ ReqTyped(req[r])
  BY MovedIs DEF AskInv, AskTyped
<1>2. req[r].kind \notin Questions /\ req[r].kind # "stream"
  BY <1>1 DEF ReqTyped, Questions
<1>3. ASSUME NEW d \in Chats, d # c
      PROVE  ChatOK(d)'
  BY <1>1, <1>2, <1>3, OtherChat
<1>4. c \notin met' => NumberOK(c)'
  <2>1. SUFFICES ASSUME c \notin met'
                 PROVE  NumberOK(c)'
    OBVIOUS
  <2>2. NumberOK(c)
    BY <2>1 DEF AskInv
  <2>3. \A q \in Open(c, Questions)' : q \in Open(c, Questions) /\ req'[q].index = req[q].index
    BY <1>1 DEF Open
  <2>4. \A v, w \in turns[c] : v.index = w.index => v = w
    BY <2>2 DEF NumberOK
  <2>5. \A t, u \in turns'[c] : t.index = u.index => t = u
    BY <2>4
  <2>6. QED
    BY <2>2, <2>3, <2>5, NumberKeep
<1>5. c \notin raced' => FileOK(c)'
  <2>1. SUFFICES ASSUME c \notin raced'
                 PROVE  FileOK(c)'
    OBVIOUS
  <2>2. FileOK(c) /\ r \notin Filers(c)
    BY <2>1 DEF AskInv, Filers, Filing
  <2>3. Filers(c)' = Filers(c)
    BY <1>1, <2>2 DEF Filers, Filing
  <2>4. By(turns[c]) \subseteq By(turns'[c])
    OBVIOUS
  <2>5. \A q \in Filers(c)' : /\ q \in Filers(c) /\ req'[q].begin = req[q].begin /\ req'[q].content = req[q].content
                              /\ req'[q].kind = req[q].kind /\ (req'[q].pc = "write" <=> req[q].pc = "write")
    BY <1>1, <2>2, <2>3 DEF Filers
  <2>6. file'[c] = file[c] /\ answer'[c] = answer[c] /\ floor'[c] = floor[c]
    OBVIOUS
  <2>7. QED
    BY <2>2, <2>3, <2>4, <2>5, <2>6, FileKeep
<1>6. EmptyOK(c)'
  <2>1. EmptyOK(c)
    BY DEF AskInv
  <2>2. turns'[c] = {} => turns[c] = {}
    <3>1. \A t \in turns[c] : t.by \in By(turns'[c])
      BY DEF By
    <3>2. By({}) = {}
      BY DEF By
    <3>3. QED
      BY <3>1, <3>2
  <2>3. conv'[c].live => conv[c].live
    OBVIOUS
  <2>4. QED
    BY <1>1, <1>2, <2>1, <2>2, <2>3, EmptyKeep
<1>7. ChatOK(c)'
  BY <1>4, <1>5, <1>6 DEF ChatOK
<1>8. QED
  BY <1>3, <1>7

(* A crystallization begins. *)
LEMMA AskCrystal ==
  ASSUME AskInv, NEW r \in Requests, NEW c \in Chats, crystallize_conversation(r, c)
  PROVE  AskInv'
<1>1. PICK k : k = conv[c]
  OBVIOUS
<1>2. k \in ConvRow /\ k.live /\ req[r].pc = "idle"
  BY <1>1 DEF AskInv, AskTyped, crystallize_conversation, Arrives
<1>3. PICK p : p = IF _check_already_crystallized(c) THEN "done" ELSE IF turns[c] = {} THEN "refused" ELSE "distil"
  OBVIOUS
<1>4. p \in {"done", "refused", "distil"} /\ (p = "distil" => ~k.crystal)
  BY <1>1, <1>3 DEF _check_already_crystallized
<1>5. PICK n : n = [Idle EXCEPT !.kind = "crystal", !.chat = c, !.conv = k, !.pc = p]
  OBVIOUS
<1>6. PICK f : f = FALSE
  OBVIOUS
<1>7. n = [pc |-> p, kind |-> "crystal", chat |-> c, new |-> f, filed |-> f, conv |-> k,
           index |-> 0, prior |-> <<>>, seen |-> <<>>, content |-> {}, begin |-> {}, wrote |-> f]
  <2>1. Idle = [pc |-> "idle", kind |-> "none", chat |-> "none", new |-> f, filed |-> f, conv |-> NoConv,
                index |-> 0, prior |-> <<>>, seen |-> <<>>, content |-> {}, begin |-> {}, wrote |-> f]
    BY <1>6 DEF Idle
  <2>2. QED
    BY <1>5, <2>1
<1>8. /\ n.pc = p /\ n.kind = "crystal" /\ n.chat = c /\ n.new = f /\ n.conv = k /\ n.index = 0
      /\ n.content = {} /\ n.begin = {} /\ n.wrote = f
  BY <1>7
<1>9. IsReq(n)
  BY <1>7 DEF IsReq
<1>10. ReqTyped(n)
  <2>1. n.pc \in AskPCs /\ n.new \in BOOLEAN /\ ~n.new /\ n.wrote \in BOOLEAN /\ ~n.wrote /\ n.pc \notin Filing
    BY <1>4, <1>6, <1>8 DEF AskPCs, Filing
  <2>2. n.conv \in ConvRow /\ n.index \in Nat /\ n.content \in SUBSET Turn /\ n.begin \in SUBSET Turn /\ n.chat \in Chats
    BY <1>2, <1>8
  <2>3. n.kind = "crystal" /\ n.pc \in {"done", "refused", "distil"}
    BY <1>4, <1>8
  <2>4. QED
    BY <1>9, <2>1, <2>2, <2>3 DEF ReqTyped
<1>11. req' = [q \in Requests |-> IF q = r THEN n ELSE req[q]]
  BY <1>1, <1>3, <1>5 DEF crystallize_conversation, AskInv, AskTyped
<1>12. Moved(r, n)
  BY <1>10, <1>11 DEF Moved
<1>13. req'[r] = n /\ (\A q \in Requests \ {r} : req'[q] = req[q])
  BY <1>12, MovedIs DEF AskInv
<1>14. UNCHANGED <<conv, turns, count, quota, row, slot, answer, file, synth, picked, met, raced, early, cut, floor>>
  BY DEF crystallize_conversation
<1>15. AskTyped'
  <2>1. AskTyped
    BY DEF AskInv
  <2>2. QED
    BY <1>12, <1>14, <2>1, TypedStep DEF AskTyped
<1>16. LockOK'
  BY <1>2, <1>12, <1>14, LockStart
<1>17. CountOK'
  BY <1>2, <1>4, <1>8, <1>12, <1>14, CountStart
<1>18. ByOK'
  BY <1>2, <1>12, <1>14, ByFrame
<1>19. LiveOK'
  <2>1. ~n.new /\ conv[n.chat].live
    BY <1>1, <1>2, <1>6, <1>8
  <2>2. QED
    BY <1>2, <1>12, <1>14, <2>1, LiveStart
<1>20. PriorIsThread'
  BY <1>4, <1>8, <1>12, PriorStep
<1>21. MarkOK'
  BY <1>4, <1>8, <1>12, <1>14, MarkStep
<1>22. twin \subseteq twin' /\ (n.pc = "distil" /\ Open(c, {"crystal"}) # {} => c \in twin')
  BY <1>13 DEF crystallize_conversation
<1>23. c \notin twin' => CrystalOK(c)'
  <2>1. SUFFICES ASSUME c \notin twin'
                 PROVE  CrystalOK(c)'
    OBVIOUS
  <2>2. CrystalOK(c) /\ synth'[c] = synth[c] /\ conv'[c].crystal = conv[c].crystal
    BY <1>14, <1>22, <2>1 DEF AskInv
  <2>3. CASE n.pc = "distil"
    <3>1. Open(c, {"crystal"}) = {}
      BY <1>22, <2>1, <2>3
    <3>2. \A q \in Requests : ~(req[q].chat = c /\ req[q].pc = "distil")
      <4>1. \A q \in Requests : req[q].pc = "distil" => req[q].kind = "crystal"
        BY DEF AskInv, AskTyped, ReqTyped
      <4>2. QED
        BY <3>1, <4>1 DEF Open, Ended
    <3>3. \A q \in Requests : req'[q].chat = c /\ req'[q].pc = "distil" => q = r
      BY <1>13, <3>2
    <3>4. ~conv'[c].crystal
      BY <1>1, <1>4, <1>8, <1>14, <2>3
    <3>5. QED
      BY <2>2, <3>3, <3>4 DEF CrystalOK
  <2>4. CASE n.pc # "distil"
    <3>1. \A q \in Requests : req'[q].chat = c /\ req'[q].pc = "distil" => req[q].chat = c /\ req[q].pc = "distil"
      BY <1>13, <2>4
    <3>2. QED
      BY <2>2, <3>1, CrystalKeep
  <2>5. QED
    BY <2>3, <2>4
<1>24. \A d \in Chats : ChatOK(d)'
  <2>1. n.kind \notin Questions /\ n.pc \in {"distil", "done", "refused"}
    BY <1>4, <1>8 DEF Questions
  <2>2. turns' = turns /\ conv' = conv /\ synth' = synth
    BY <1>14
  <2>3. By(turns'[c]) = By(turns[c])
    BY <2>2
  <2>4. QED
    BY <1>2, <1>8, <1>12, <1>14, <1>22, <1>23, <2>1, <2>2, <2>3, AsideChats
<1>25. QED
  BY <1>15, <1>16, <1>17, <1>18, <1>19, <1>20, <1>21, <1>24, AskParts

(* A crystallization ends. *)
LEMMA AskCrystallize ==
  ASSUME AskInv, NEW r \in Requests, Crystallize(r)
  PROVE  AskInv'
<1>1. PICK n : n = [req[r] EXCEPT !.pc = "done"]
  OBVIOUS
<1>2. /\ IsReq(n) /\ n.pc = "done" /\ n.kind = req[r].kind /\ n.chat = req[r].chat /\ n.new = req[r].new
      /\ n.conv = req[r].conv /\ n.index = req[r].index /\ n.prior = req[r].prior /\ n.seen = req[r].seen
      /\ n.content = req[r].content /\ n.begin = req[r].begin /\ n.wrote = req[r].wrote
  BY <1>1, WithPc
<1>3. AskTyped /\ ReqTyped(req[r]) /\ LiveOK /\ req[r].pc = "distil"
  BY DEF AskInv, AskTyped, Crystallize
<1>4. req[r].kind = "crystal" /\ ~req[r].new /\ req[r].chat \in Chats
  BY <1>3 DEF ReqTyped, Questions
<1>5. PICK c \in Chats : c = req[r].chat
  BY <1>4
<1>6. Active(r)
  BY <1>3 DEF Active, Ended
<1>7. conv[c].live /\ conv[c] \in ConvRow
  BY <1>3, <1>4, <1>5, <1>6 DEF LiveOK, AskTyped
<1>8. ReqTyped(n)
  BY <1>2, <1>3, <1>4 DEF ReqTyped, AskPCs, Filing, Ended
<1>9. Moved(r, n)
  BY <1>1, <1>3, <1>8 DEF Moved, Crystallize, AskTyped
<1>10. req'[r] = n /\ (\A q \in Requests \ {r} : req'[q] = req[q])
  BY <1>9, MovedIs DEF AskInv
<1>11. UNCHANGED <<turns, count, quota, row, slot, answer, file, picked, met, raced, twin, early, cut, floor>>
  BY DEF Crystallize
<1>12. PICK k : k = [conv[c] EXCEPT !.crystal = TRUE]
  OBVIOUS
<1>13. k \in ConvRow /\ k.live = conv[c].live /\ k.crystal = TRUE
  BY <1>7, <1>12 DEF ConvRow
<1>14. conv' = [conv EXCEPT ![c] = k] /\ synth' = [synth EXCEPT ![c] = @ \cup {r}]
  BY <1>3, <1>5, <1>12 DEF Crystallize, AskTyped
<1>15. /\ conv' \in [Chats -> ConvRow] /\ conv'[c] = k /\ synth' \in [Chats -> SUBSET Requests] /\ synth'[c] = synth[c] \cup {r}
       /\ \A d \in Chats : d # c => conv'[d] = conv[d] /\ synth'[d] = synth[d]
  BY <1>3, <1>13, <1>14 DEF AskTyped
<1>16. AskTyped'
  BY <1>3, <1>9, <1>11, <1>15, TypedStep DEF AskTyped
<1>17. LockOK'
  BY <1>3, <1>9, <1>11, LockDone
<1>18. CountOK'
  BY <1>2, <1>4, <1>6, <1>9, <1>11, CountEnd
<1>19. ByOK'
  BY <1>3, <1>9, <1>11, ByFrame
<1>20. LiveOK'
  <2>1. n.chat = c /\ conv'[c].live
    BY <1>2, <1>5, <1>7, <1>13, <1>15
  <2>2. QED
    BY <1>2, <1>4, <1>6, <1>9, <1>11, <1>15, <2>1, LiveCommit
<1>21. PriorIsThread'
  BY <1>2, <1>9, PriorStep
<1>22. MarkOK'
  BY <1>2, <1>9, <1>11, MarkStep
<1>23. c \notin twin' => CrystalOK(c)'
  <2>1. SUFFICES ASSUME c \notin twin'
                 PROVE  CrystalOK(c)'
    OBVIOUS
  <2>2. CrystalOK(c)
    BY <1>11, <2>1 DEF AskInv
  <2>3. ~conv[c].crystal /\ synth[c] = {} /\ \A q \in Requests : req[q].chat = c /\ req[q].pc = "distil" => q = r
    BY <1>3, <1>5, <2>2 DEF CrystalOK
  <2>4. synth'[c] = {r} /\ conv'[c].crystal
    BY <1>13, <1>15, <2>3
  <2>5. \A q \in Requests : ~(req'[q].chat = c /\ req'[q].pc = "distil")
    BY <1>2, <1>10, <2>3
  <2>6. QED
    BY <2>4, <2>5 DEF CrystalOK
<1>24. \A d \in Chats : ChatOK(d)'
  <2>1. n.kind \notin Questions /\ n.pc \in {"distil", "done", "refused"} /\ n.chat = c /\ req[r].chat = c
    BY <1>2, <1>4, <1>5 DEF Questions
  <2>2. turns' = turns
    BY <1>11
  <2>3. By(turns'[c]) = By(turns[c])
    BY <2>2
  <2>4. \A d \in Chats : conv'[d].live = conv[d].live /\ (d # c => conv'[d] = conv[d] /\ turns'[d] = turns[d] /\ synth'[d] = synth[d])
    BY <1>13, <1>15, <2>2
  <2>5. QED
    BY <1>3, <1>9, <1>11, <1>23, <2>1, <2>2, <2>3, <2>4, AsideChats
<1>25. QED
  BY <1>16, <1>17, <1>18, <1>19, <1>20, <1>21, <1>22, <1>24, AskParts

(* A set of turns after some of them are marked. *)
Marked(T, sel, r) == {IF t \in sel THEN [t EXCEPT !.mark = r] ELSE t : t \in T}

(* Marking touches nothing else of a turn. *)
LEMMA MarkedAre ==
  ASSUME NEW T, T \subseteq Turn, IsFiniteSet(T), NEW sel, NEW r \in Requests,
         \A t, u \in T : u.by = t.by => u = t,
         NEW M, M = Marked(T, sel, r)
  PROVE  /\ M \subseteq Turn /\ IsFiniteSet(M)
         /\ \A t \in T : \E u \in M : u.by = t.by /\ u.index = t.index
         /\ \A u \in M : \E t \in T : u.by = t.by /\ u.index = t.index /\ ((u.mark = r /\ t \in sel) \/ u = t)
         /\ \A u, v \in M : u.by = v.by => u = v
<1>1. \A t \in T : t = [by |-> t.by, index |-> t.index, mark |-> t.mark] /\ t.by \in Requests /\ t.index \in Nat
  BY DEF Turn
<1>2. PICK f : f = [t \in T |-> IF t \in sel THEN [t EXCEPT !.mark = r] ELSE t]
  OBVIOUS
<1>3. \A t \in T : f[t].by = t.by /\ f[t].index = t.index /\ f[t] \in Turn /\ ((f[t].mark = r /\ t \in sel) \/ f[t] = t)
  BY <1>1, <1>2 DEF Turn
<1>4. M = {f[t] : t \in T}
  BY <1>2 DEF Marked
<1>5. IsFiniteSet(M)
  BY <1>2, <1>4, ImageFinite
<1>6. \A u, v \in M : u.by = v.by => u = v
  BY <1>3, <1>4
<1>7. QED
  BY <1>3, <1>4, <1>5, <1>6

(* Selected turns are filed and marked. *)
LEMMA AskSelect ==
  ASSUME AskInv, NEW r \in Requests, NEW c \in Chats, NEW S, file_back_selection(r, c, S)
  PROVE  AskInv'
<1>1. PICK sel : sel = SelectedTurns(c, S)
  OBVIOUS
<1>2. PICK ok \in BOOLEAN : ok <=> S \subseteq {t.index : t \in sel}
  OBVIOUS
<1>3. PICK p : p = IF ok THEN "done" ELSE "refused"
  OBVIOUS
<1>4. PICK n : n = [Idle EXCEPT !.pc = p, !.kind = "select", !.chat = c]
  OBVIOUS
<1>5. PICK f : f = FALSE
  OBVIOUS
<1>6. n = [pc |-> p, kind |-> "select", chat |-> c, new |-> f, filed |-> f, conv |-> NoConv,
           index |-> 0, prior |-> <<>>, seen |-> <<>>, content |-> {}, begin |-> {}, wrote |-> f]
  <2>1. Idle = [pc |-> "idle", kind |-> "none", chat |-> "none", new |-> f, filed |-> f, conv |-> NoConv,
                index |-> 0, prior |-> <<>>, seen |-> <<>>, content |-> {}, begin |-> {}, wrote |-> f]
    BY <1>5 DEF Idle
  <2>2. QED
    BY <1>4, <2>1
<1>7. /\ n.pc = p /\ n.kind = "select" /\ n.chat = c /\ n.new = f /\ n.conv = NoConv /\ n.index = 0
      /\ n.content = {} /\ n.begin = {} /\ n.wrote = f
  BY <1>6
<1>8. IsReq(n)
  BY <1>6 DEF IsReq
<1>9. NoConv \in ConvRow
  BY DEF NoConv, ConvRow
<1>10. n.pc \in {"done", "refused"} /\ n.kind \notin Questions \cup {"ask", "stream"}
  BY <1>3, <1>7 DEF Questions
<1>11. ReqTyped(n)
  <2>1. n.pc \in AskPCs /\ n.new \in BOOLEAN /\ ~n.new /\ n.wrote \in BOOLEAN /\ ~n.wrote /\ n.pc \notin Filing
    BY <1>5, <1>7, <1>10 DEF AskPCs, Filing
  <2>2. n.conv \in ConvRow /\ n.index \in Nat /\ n.content \in SUBSET Turn /\ n.begin \in SUBSET Turn /\ n.chat \in Chats
    BY <1>7, <1>9
  <2>3. QED
    BY <1>8, <1>10, <2>1, <2>2 DEF ReqTyped
<1>12. req[r].pc = "idle" /\ conv[c].live /\ AskTyped /\ LiveOK
  BY DEF file_back_selection, Arrives, AskInv
<1>13. req' = [q \in Requests |-> IF q = r THEN n ELSE req[q]]
  <2>1. req' = [req EXCEPT ![r] = n]
    <3>1. req' = [req EXCEPT ![r] = [Idle EXCEPT !.pc = IF S \subseteq {t.index : t \in sel} THEN "done" ELSE "refused",
                                                 !.kind = "select", !.chat = c]]
      BY <1>1 DEF file_back_selection
    <3>2. p = IF S \subseteq {t.index : t \in sel} THEN "done" ELSE "refused"
      BY <1>2, <1>3
    <3>3. QED
      BY <1>4, <3>1, <3>2
  <2>2. QED
    BY <1>12, <2>1 DEF AskTyped
<1>14. Moved(r, n)
  BY <1>11, <1>13 DEF Moved
<1>15. req'[r] = n /\ (\A q \in Requests \ {r} : req'[q] = req[q])
  BY <1>14, MovedIs DEF AskInv
<1>16. UNCHANGED <<conv, count, quota, row, slot, answer, file, synth, met, raced, twin, early, cut, floor>>
  BY DEF file_back_selection
<1>17. PICK P : P = [by |-> r, chat |-> c, turns |-> By(sel)]
  OBVIOUS
<1>18. picked' = IF ok THEN picked \cup {P} ELSE picked
  BY <1>1, <1>2, <1>17 DEF file_back_selection
<1>19. turns' = IF ok THEN [d \in Chats |-> {IF t \in sel THEN [t EXCEPT !.mark = r] ELSE t : t \in turns[d]}] ELSE turns
  BY <1>1, <1>2 DEF file_back_selection
<1>20. sel \subseteq turns[c]
  BY <1>1 DEF SelectedTurns
<1>21. \A d \in Chats : turns[d] \subseteq Turn /\ IsFiniteSet(turns[d]) /\ \A t, u \in turns[d] : u.by = t.by => u = t
  BY <1>12 DEF AskTyped, AskInv, ByOK
<1>22. \A d \in Chats : d # c => turns'[d] = turns[d]
  <2>1. SUFFICES ASSUME NEW d \in Chats, d # c, ok
                 PROVE  turns'[d] = turns[d]
    BY <1>19
  <2>2. \A t \in turns[d] : t \notin sel
    <3>1. \A t \in turns[d] : req[t.by].chat = d
      BY DEF AskInv, ByOK
    <3>2. \A t \in turns[c] : req[t.by].chat = c
      BY DEF AskInv, ByOK
    <3>3. QED
      BY <1>20, <2>1, <3>1, <3>2
  <2>3. turns'[d] = {IF t \in sel THEN [t EXCEPT !.mark = r] ELSE t : t \in turns[d]}
    BY <1>19, <2>1
  <2>4. QED
    BY <2>2, <2>3
<1>23. /\ turns'[c] \subseteq Turn /\ IsFiniteSet(turns'[c])
       /\ \A t \in turns[c] : \E u \in turns'[c] : u.by = t.by /\ u.index = t.index
       /\ \A u \in turns'[c] : \E t \in turns[c] : u.by = t.by /\ u.index = t.index /\ ((ok /\ u.mark = r /\ t \in sel) \/ u = t)
       /\ \A u, v \in turns'[c] : u.by = v.by => u = v
  <2>1. CASE ~ok
    BY <1>19, <1>21, <2>1
  <2>2. CASE ok
    <3>1. turns'[c] = {IF t \in sel THEN [t EXCEPT !.mark = r] ELSE t : t \in turns[c]}
      BY <1>19, <2>2
    <3>2. turns[c] \subseteq Turn /\ IsFiniteSet(turns[c]) /\ \A t, u \in turns[c] : u.by = t.by => u = t
      BY <1>21
    <3>3. PICK M : M = Marked(turns[c], sel, r)
      OBVIOUS
    <3>4. /\ M \subseteq Turn /\ IsFiniteSet(M)
          /\ \A t \in turns[c] : \E u \in M : u.by = t.by /\ u.index = t.index
          /\ \A u \in M : \E t \in turns[c] : u.by = t.by /\ u.index = t.index /\ ((u.mark = r /\ t \in sel) \/ u = t)
          /\ \A u, v \in M : u.by = v.by => u = v
      BY <3>2, <3>3, MarkedAre
    <3>5. turns'[c] = M
      BY <3>1, <3>3 DEF Marked
    <3>6. QED
      BY <2>2, <3>4, <3>5
  <2>3. QED
    BY <2>1, <2>2
<1>24. turns' \in [Chats -> SUBSET Turn] /\ \A d \in Chats : IsFiniteSet(turns'[d])
  <2>1. \A d \in Chats : turns'[d] \subseteq Turn /\ IsFiniteSet(turns'[d])
    BY <1>21, <1>22, <1>23
  <2>2. turns' = [d \in Chats |-> turns'[d]]
    BY <1>12, <1>19 DEF AskTyped
  <2>3. QED
    BY <2>1, <2>2
<1>25. By(sel) \in SUBSET Requests
  BY <1>20, <1>21 DEF By, Turn
<1>26. AskTyped'
  <2>1. picked' \subseteq [by : Requests, chat : Chats, turns : SUBSET Requests]
    BY <1>12, <1>17, <1>18, <1>25 DEF AskTyped
  <2>2. QED
    BY <1>12, <1>14, <1>16, <1>24, <2>1, TypedStep DEF AskTyped
<1>27. LockOK'
  BY <1>12, <1>14, <1>16, LockStart
<1>28. CountOK'
  BY <1>10, <1>12, <1>14, <1>16, CountStart
<1>29. ByOK'
  <2>1. \A d \in Chats : \A t \in turns[d] : t.by \in Requests \ {r} /\ req[t.by].pc = "done" /\ req[t.by].chat = d
    BY <1>12, <1>21 DEF AskInv, ByOK, Turn
  <2>2. \A d \in Chats : \A u \in turns'[d] : \E t \in turns[d] : u.by = t.by
    BY <1>22, <1>23
  <2>3. \A d \in Chats : \A u, v \in turns'[d] : u.by = v.by => u = v
    BY <1>21, <1>22, <1>23
  <2>4. QED
    BY <1>15, <2>1, <2>2, <2>3 DEF ByOK
<1>30. LiveOK'
  <2>1. \A d \in Chats : turns[d] = {} => turns'[d] = {}
    BY <1>22, <1>23
  <2>2. n.pc \in Ended
    BY <1>10 DEF Ended
  <2>3. QED
    BY <1>12, <1>14, <1>16, <2>1, <2>2, LiveStart
<1>31. PriorIsThread'
  BY <1>10, <1>14, PriorStep
<1>32. MarkOK'
  <2>1. /\ \A d \in Chats : \A t \in turns[d] :
              /\ t.mark \in Requests => req[t.mark].pc # "idle"
              /\ \A q \in picked : t.mark = q.by => t.by \in q.turns /\ d = q.chat
        /\ \A q \in picked : req[q.by].pc # "idle" /\ q.by \in Requests
    BY <1>12 DEF AskInv, MarkOK, AskTyped
  <2>2. \A q \in Requests : req[q].pc # "idle" => req'[q].pc # "idle"
    BY <1>10, <1>15
  <2>3. \A q \in picked : q.by # r
    BY <1>12, <2>1
  <2>4. \A d \in Chats : \A t \in turns[d] : t.mark # r
    BY <1>12, <2>1
  <2>5. \A d \in Chats : \A u \in turns'[d] : u \in turns[d] \/ (ok /\ d = c /\ u.mark = r /\ \E t \in sel : u.by = t.by)
    BY <1>22, <1>23
  <2>6. \A u : (\E t \in sel : u.by = t.by) => u.by \in By(sel)
    BY DEF By
  <2>7. P.by = r /\ P.chat = c /\ P.turns = By(sel)
    BY <1>17
  <2>8. \A d \in Chats : \A u \in turns'[d] : u.mark \in Requests => req'[u.mark].pc # "idle"
    BY <1>10, <1>15, <2>1, <2>2, <2>5
  <2>9. \A d \in Chats : \A u \in turns'[d] : \A q \in picked' : u.mark = q.by => u.by \in q.turns /\ d = q.chat
    <3>1. SUFFICES ASSUME NEW d \in Chats, NEW u \in turns'[d], NEW q \in picked', u.mark = q.by
                   PROVE  u.by \in q.turns /\ d = q.chat
      OBVIOUS
    <3>2. CASE u.mark = r
      <4>1. d = c /\ u.by \in By(sel)
        BY <2>4, <2>5, <2>6, <3>2
      <4>2. q = P
        BY <1>18, <2>3, <3>1, <3>2
      <4>3. QED
        BY <2>7, <4>1, <4>2
    <3>3. CASE u.mark # r
      <4>1. u \in turns[d]
        BY <2>5, <3>3
      <4>2. q \in picked
        BY <1>18, <2>7, <3>1, <3>3
      <4>3. QED
        BY <2>1, <3>1, <4>1, <4>2
    <3>4. QED
      BY <3>2, <3>3
  <2>10. \A q \in picked' : req'[q.by].pc # "idle"
    BY <1>10, <1>15, <1>18, <2>1, <2>2, <2>7
  <2>11. QED
    BY <2>8, <2>9, <2>10 DEF MarkOK
<1>33. c \notin twin' => CrystalOK(c)'
  <2>1. SUFFICES ASSUME c \notin twin'
                 PROVE  CrystalOK(c)'
    OBVIOUS
  <2>2. CrystalOK(c) /\ synth'[c] = synth[c] /\ conv'[c].crystal = conv[c].crystal
    BY <1>16, <2>1 DEF AskInv
  <2>3. \A q \in Requests : req'[q].chat = c /\ req'[q].pc = "distil" => req[q].chat = c /\ req[q].pc = "distil"
    BY <1>10, <1>15
  <2>4. QED
    BY <2>2, <2>3, CrystalKeep
<1>34. \A d \in Chats : ChatOK(d)'
  <2>1. By(turns'[c]) = By(turns[c])
    BY <1>23 DEF By
  <2>2. {t.index : t \in turns'[c]} = {t.index : t \in turns[c]}
    BY <1>23
  <2>3. \A t, u \in turns'[c] : t.index = u.index => \E v, w \in turns[c] : v.index = t.index /\ w.index = u.index /\ (v = w => t = u)
    <3>1. SUFFICES ASSUME NEW t \in turns'[c], NEW u \in turns'[c], t.index = u.index
                   PROVE  \E v, w \in turns[c] : v.index = t.index /\ w.index = u.index /\ (v = w => t = u)
      OBVIOUS
    <3>2. PICK v \in turns[c] : t.by = v.by /\ t.index = v.index
      BY <1>23
    <3>3. PICK w \in turns[c] : u.by = w.by /\ u.index = w.index
      BY <1>23
    <3>4. v = w => t = u
      BY <1>23, <3>2, <3>3
    <3>5. QED
      BY <3>2, <3>3, <3>4
  <2>4. \A t \in turns'[c] : t.mark = Thread => \E u \in turns[c] : u.mark = Thread /\ u.by = t.by
    <3>1. Thread # r
      BY AskAssumption DEF Thread, Requests
    <3>2. QED
      BY <1>23, <3>1
  <2>5. conv' = conv /\ synth' = synth
    BY <1>16
  <2>6. n.kind \notin Questions /\ n.pc \in {"distil", "done", "refused"}
    BY <1>10
  <2>7. QED
    BY <1>7, <1>12, <1>14, <1>16, <1>22, <1>33, <2>1, <2>2, <2>3, <2>4, <2>5, <2>6, AsideChats
<1>35. QED
  BY <1>26, <1>27, <1>28, <1>29, <1>30, <1>31, <1>32, <1>34, AskParts

(* A step that changes nothing. *)
LEMMA AskStutter == AskInv /\ UNCHANGED askVars => AskInv'
<1> SUFFICES ASSUME AskInv, UNCHANGED askVars
             PROVE  AskInv'
  OBVIOUS
<1>1. UNCHANGED <<conv, turns, count, quota, row, slot, answer, file, synth, picked, req, met, raced, twin, early, cut, floor>>
  BY DEF askVars
<1>2. AskTyped' /\ LockOK' /\ CountOK' /\ ByOK' /\ LiveOK' /\ PriorIsThread' /\ MarkOK'
  <2>1. AskTyped'
    BY <1>1 DEF AskInv, AskTyped
  <2>2. LockOK'
    BY <1>1 DEF AskInv, LockOK, Active, Filers
  <2>3. CountOK'
    BY <1>1 DEF AskInv, CountOK, Started, Counted, Active
  <2>4. ByOK'
    BY <1>1 DEF AskInv, ByOK
  <2>5. LiveOK'
    BY <1>1 DEF AskInv, LiveOK, Active, Open
  <2>6. PriorIsThread' /\ MarkOK'
    BY <1>1 DEF AskInv, PriorIsThread, MarkOK
  <2>7. QED
    BY <2>1, <2>2, <2>3, <2>4, <2>5, <2>6
<1>3. \A c : NumberOK(c)' = NumberOK(c)
  BY <1>1 DEF NumberOK, Open
<1>4. \A c : FileOK(c)' = FileOK(c)
  BY <1>1 DEF FileOK, FilerOK, FiledOK, Filers, By
<1>5. \A c : CrystalOK(c)' = CrystalOK(c)
  BY <1>1 DEF CrystalOK
<1>6. \A c : EmptyOK(c)' = EmptyOK(c)
  BY <1>1 DEF EmptyOK, Active
<1>7. QED
  BY <1>1, <1>2, <1>3, <1>4, <1>5, <1>6 DEF AskInv

(* Every step keeps the invariant. *)
LEMMA NextAsk == AskInv /\ [AskNext]_askVars => AskInv'
<1> SUFFICES ASSUME AskInv, [AskNext]_askVars
             PROVE  AskInv'
  OBVIOUS
<1>1. CASE UNCHANGED askVars
  BY <1>1, AskStutter
<1>2. ASSUME NEW r \in Requests, NEW c \in Chats,
             \/ \E kind \in {"ask", "stream"} : AskStart(r, kind, c)
             \/ \E p \in Chats, at \in 0 .. MaxRequests - 1 : fork_conversation(r, c, p, at)
             \/ file_back_conversation(r, c)
             \/ crystallize_conversation(r, c)
             \/ \E S \in SUBSET (0 .. MaxRequests - 2) : file_back_selection(r, c, S)
      PROVE  AskInv'
  <2>1. CASE \E kind \in {"ask", "stream"} : AskStart(r, kind, c)
    BY <2>1, AskAskStart
  <2>2. CASE \E p \in Chats, at \in 0 .. MaxRequests - 1 : fork_conversation(r, c, p, at)
    <3>1. PICK p \in Chats, at \in 0 .. MaxRequests - 1 : fork_conversation(r, c, p, at)
      BY <2>2
    <3>2. at \in Nat
      BY AskAssumption
    <3>3. QED
      BY <3>1, <3>2, AskFork
  <2>3. CASE file_back_conversation(r, c)
    BY <2>3, AskFileBack
  <2>4. CASE crystallize_conversation(r, c)
    BY <2>4, AskCrystal
  <2>5. CASE \E S \in SUBSET (0 .. MaxRequests - 2) : file_back_selection(r, c, S)
    BY <2>5, AskSelect
  <2>6. QED
    BY <1>2, <2>1, <2>2, <2>3, <2>4, <2>5
<1>3. ASSUME NEW r \in Requests,
             \/ \E filing \in BOOLEAN : _query_llm(r, filing)
             \/ answer_stream(r) \/ _persist_query(r)
             \/ FlushTurn(r) \/ WriteFile(r) \/ InsertArticle(r) \/ CommitFiled(r)
             \/ Crystallize(r)
             \/ Rollback(r)
      PROVE  AskInv'
  BY <1>3, AskAnswer, AskStream, AskPersist, AskFlush, AskWrite, AskInsert, AskCommitFiled, AskCrystallize, AskRollback
<1>4. QED
  BY <1>1, <1>2, <1>3 DEF AskNext

-----------------------------------------------------------------------------
(* Questions and conversations: a thread only grows *)

(* What ancestors show of a thread, for the conversations K and their turns T. *)
IsShared(f, K, T, m) ==
    f = [n \in 0 .. m |-> [c \in Chats |->
           IF K[c].parent = "none" \/ n = 0 THEN <<>>
           ELSE f[n - 1][K[c].parent] \o ByIndex({t \in T[K[c].parent] : t.index < K[c].at})]]

(* There is such a function, whatever the conversations are. *)
LEMMA SharedExists ==
  ASSUME NEW K, NEW T, NEW m \in Nat
  PROVE  \E f : IsShared(f, K, T, m)
<1>1. PICK B : B = {k \in Nat : ~\E f : IsShared(f, K, T, k)}
  OBVIOUS
<1>2. ASSUME B # {}
      PROVE  FALSE
  <2>1. PICK k \in B : \A y \in B : k <= y
    BY <1>1, <1>2, LeastNumber
  <2>2. k \in Nat /\ ~\E f : IsShared(f, K, T, k)
    BY <1>1, <2>1
  <2>3. CASE k = 0
    <3>1. PICK f : f = [n \in 0 .. 0 |-> [c \in Chats |-> <<>>]]
      OBVIOUS
    <3>2. f = [n \in 0 .. 0 |-> [c \in Chats |->
                 IF K[c].parent = "none" \/ n = 0 THEN <<>>
                 ELSE f[n - 1][K[c].parent] \o ByIndex({t \in T[K[c].parent] : t.index < K[c].at})]]
      BY <3>1
    <3>3. QED
      BY <2>2, <2>3, <3>2 DEF IsShared
  <2>4. CASE k # 0
    <3>1. k - 1 \in Nat /\ k - 1 \notin B
      BY <2>1, <2>2, <2>4
    <3>2. PICK g : IsShared(g, K, T, k - 1)
      BY <1>1, <3>1
    <3>3. PICK row1 : row1 = [c \in Chats |->
                 IF K[c].parent = "none" \/ k = 0 THEN <<>>
                 ELSE g[k - 1][K[c].parent] \o ByIndex({t \in T[K[c].parent] : t.index < K[c].at})]
      OBVIOUS
    <3>4. PICK f : f = [n \in 0 .. k |-> IF n = k THEN row1 ELSE g[n]]
      OBVIOUS
    <3>5. \A n \in 0 .. k - 1 : g[n] = [c \in Chats |->
                 IF K[c].parent = "none" \/ n = 0 THEN <<>>
                 ELSE g[n - 1][K[c].parent] \o ByIndex({t \in T[K[c].parent] : t.index < K[c].at})]
      BY <3>2 DEF IsShared
    <3>6. \A n \in 0 .. k : n # k => n \in 0 .. k - 1
      BY <2>2
    <3>7. \A n \in 0 .. k : n # 0 => f[n - 1] = g[n - 1]
      BY <2>2, <3>4
    <3>8. \A n \in 0 .. k : f[n] = [c \in Chats |->
                 IF K[c].parent = "none" \/ n = 0 THEN <<>>
                 ELSE f[n - 1][K[c].parent] \o ByIndex({t \in T[K[c].parent] : t.index < K[c].at})]
      <4> TAKE n \in 0 .. k
      <4>1. CASE n = k
        <5>1. f[n] = row1
          BY <3>4, <4>1
        <5>2. QED
          BY <2>2, <2>4, <3>3, <3>7, <4>1, <5>1
      <4>2. CASE n # k
        <5>1. f[n] = g[n] /\ n \in 0 .. k - 1
          BY <3>4, <3>6, <4>2
        <5>2. CASE n = 0
          BY <3>5, <5>1, <5>2
        <5>3. CASE n # 0
          BY <3>5, <3>7, <5>1, <5>3
        <5>4. QED
          BY <5>2, <5>3
      <4>3. QED
        BY <4>1, <4>2
    <3>9. f = [n \in 0 .. k |-> f[n]]
      BY <3>4
    <3>10. IsShared(f, K, T, k)
      BY <3>8, <3>9 DEF IsShared
    <3>11. QED
      BY <2>2, <3>10
  <2>5. QED
    BY <2>3, <2>4
<1>3. QED
  BY <1>1, <1>2

(* The shared turns are what their definition says, before and after a step. *)
LEMMA SharedIs == IsShared(Shared, conv, turns, MaxRequests) /\ IsShared(Shared', conv', turns', MaxRequests)
<1>1. IsShared(CHOOSE f : IsShared(f, conv, turns, MaxRequests), conv, turns, MaxRequests)
  BY SharedExists, AskAssumption
<1>2. IsShared(CHOOSE f : IsShared(f, conv', turns', MaxRequests), conv', turns', MaxRequests)
  BY SharedExists, AskAssumption
<1>3. Shared = CHOOSE f : IsShared(f, conv, turns, MaxRequests)
  BY Zenon DEF Shared, IsShared, Before
<1>4. Shared' = CHOOSE f : IsShared(f, conv', turns', MaxRequests)
  BY Zenon DEF Shared, IsShared, Before
<1>5. QED
  BY <1>1, <1>2, <1>3, <1>4

(* Turns numbered 0 to n - 1. *)
Numbered(U, n) ==
    /\ U \subseteq Turn /\ IsFiniteSet(U) /\ n \in Nat
    /\ {t.index : t \in U} = 0 .. n - 1 /\ \A t, u \in U : t.index = u.index => t = u

(* In order each turn is at the place its number says. *)
LEMMA OrderedAt ==
  ASSUME NEW U, NEW n, Numbered(U, n), NEW s, s = ByIndex(U)
  PROVE  s \in Seq(Turn) /\ Len(s) = n /\ \A i \in 1 .. n : s[i] \in U /\ s[i].index = i - 1
<1>1. s \in Seq(U) /\ Len(s) = Cardinality(U) /\ s \in SetToSeqs(U) /\ Sorted(s)
  BY InOrder DEF Numbered
<1>2. Cardinality(U) = n /\ n \in Nat
  BY NumberedCount DEF Numbered
<1>3. s \in [1 .. n -> U] /\ \A i, j \in 1 .. n : i # j => s[i] # s[j]
  BY <1>1, <1>2 DEF SetToSeqs
<1>4. \A x \in U : \E i \in 1 .. n : s[i] = x
  BY <1>2, <1>3, AllTaken DEF Numbered
<1>5. \A t, u \in U : t.index = u.index => t = u
  BY DEF Numbered
<1>6. \A t \in U : t.index \in 0 .. n - 1
  BY DEF Numbered
<1>7. \A k \in 0 .. n - 1 : \E t \in U : t.index = k
  BY DEF Numbered
<1>8. PICK B : B = {i \in 1 .. n : s[i].index # i - 1}
  OBVIOUS
<1>9. ASSUME B # {}
      PROVE  FALSE
  <2>1. B \in SUBSET Nat
    BY <1>2, <1>8
  <2>2. PICK i \in B : \A y \in B : i <= y
    BY <1>9, <2>1, LeastNumber
  <2>3. i \in 1 .. n /\ s[i].index # i - 1 /\ s[i] \in U /\ s[i].index \in Nat
    BY <1>3, <1>6, <1>8, <2>2
  <2>4. \A j \in 1 .. n : j < i => s[j].index = j - 1
    BY <1>2, <1>8, <2>2, <2>3
  <2>5. PICK t \in U : t.index = i - 1
    BY <1>2, <1>7, <2>3
  <2>6. PICK k \in 1 .. n : s[k] = t
    BY <1>4
  <2>7. k > i
    BY <1>2, <2>3, <2>4, <2>5, <2>6
  <2>8. s[i].index <= i - 1
    BY <1>1, <1>2, <1>3, <2>3, <2>5, <2>6, <2>7 DEF Sorted
  <2>9. s[i].index < i - 1
    BY <1>2, <2>3, <2>8
  <2>10. PICK j \in 1 .. n : j = s[i].index + 1 /\ j < i
    BY <1>2, <2>3, <2>9
  <2>11. s[j].index = s[i].index /\ s[j] \in U
    BY <1>2, <1>3, <2>3, <2>4, <2>10
  <2>12. s[j] = s[i]
    BY <1>5, <2>3, <2>11
  <2>13. QED
    BY <1>2, <1>3, <2>3, <2>10, <2>12
<1>10. \A i \in 1 .. n : s[i] \in U /\ s[i].index = i - 1
  BY <1>3, <1>8, <1>9
<1>11. U \subseteq Turn
  BY DEF Numbered
<1>12. s \in Seq(Turn)
  BY <1>2, <1>3, <1>11, FunIsSeq
<1>13. QED
  BY <1>1, <1>2, <1>10, <1>12

(* Turns of the first numbers are numbered. *)
LEMMA FirstTurns ==
  ASSUME NEW U, NEW n, Numbered(U, n), NEW k \in Nat, \A i \in 0 .. k - 1 : \E t \in U : t.index = i
  PROVE  Numbered({t \in U : t.index < k}, k)
<1>1. PICK W : W = {t \in U : t.index < k}
  OBVIOUS
<1>2. W \subseteq U /\ U \subseteq Turn /\ IsFiniteSet(U) /\ \A t \in U : t.index \in Nat
  BY <1>1 DEF Numbered, Turn
<1>3. IsFiniteSet(W)
  BY <1>2, FS_Subset
<1>4. {t.index : t \in W} = 0 .. k - 1
  BY <1>1, <1>2
<1>5. \A t, u \in W : t.index = u.index => t = u
  BY <1>2 DEF Numbered
<1>6. QED
  BY <1>1, <1>2, <1>3, <1>4, <1>5 DEF Numbered

(* Two threads that begin with the same turns. *)
Begins(a, b) ==
    /\ a \in Seq(Turn) /\ b \in Seq(Turn) /\ Len(a) <= Len(b)
    /\ \A i \in 1 .. Len(a) : a[i].by = b[i].by

(* Turns that are kept under their numbers stay where they are. *)
LEMMA KeptInOrder ==
  ASSUME NEW U, NEW V, NEW n, NEW m, Numbered(U, n), Numbered(V, m), \A t \in U : \E u \in V : u.by = t.by /\ u.index = t.index
  PROVE  Begins(ByIndex(U), ByIndex(V)) /\ Len(ByIndex(U)) = n /\ Len(ByIndex(V)) = m
<1>1. PICK a : a = ByIndex(U)
  OBVIOUS
<1>2. PICK b : b = ByIndex(V)
  OBVIOUS
<1>3. a \in Seq(Turn) /\ Len(a) = n /\ \A i \in 1 .. n : a[i] \in U /\ a[i].index = i - 1
  BY <1>1, OrderedAt
<1>4. b \in Seq(Turn) /\ Len(b) = m /\ \A i \in 1 .. m : b[i] \in V /\ b[i].index = i - 1
  BY <1>2, OrderedAt
<1>5. n \in Nat /\ m \in Nat
  BY DEF Numbered
<1>6. \A i \in 1 .. n : \E u \in V : u.by = a[i].by /\ u.index = i - 1
  BY <1>3
<1>7. \A u \in V : u.index \in 0 .. m - 1
  BY DEF Numbered
<1>8. \A i \in 1 .. n : i <= m
  BY <1>5, <1>6, <1>7
<1>9. n <= m
  BY <1>5, <1>8
<1>10. \A i \in 1 .. n : a[i].by = b[i].by
  <2> TAKE i \in 1 .. n
  <2>1. PICK u \in V : u.by = a[i].by /\ u.index = i - 1
    BY <1>6
  <2>2. b[i] \in V /\ b[i].index = i - 1
    BY <1>4, <1>5, <1>8
  <2>3. u = b[i]
    BY <2>1, <2>2 DEF Numbered
  <2>4. QED
    BY <2>1, <2>3
<1>11. QED
  BY <1>1, <1>2, <1>3, <1>4, <1>9, <1>10 DEF Begins

(* A thread after one of the same length. *)
LEMMA JoinBegins ==
  ASSUME NEW a, NEW b, NEW c, NEW d, Begins(a, b), Len(a) = Len(b), Begins(c, d)
  PROVE  Begins(a \o c, b \o d) /\ (Len(c) = Len(d) => Len(a \o c) = Len(b \o d))
<1>1. a \in Seq(Turn) /\ b \in Seq(Turn) /\ c \in Seq(Turn) /\ d \in Seq(Turn)
  BY DEF Begins
<1>2. Len(a) \in Nat /\ Len(c) \in Nat /\ Len(d) \in Nat /\ Len(c) <= Len(d)
  BY <1>1, LenProperties DEF Begins
<1>3. /\ a \o c \in Seq(Turn) /\ Len(a \o c) = Len(a) + Len(c)
      /\ b \o d \in Seq(Turn) /\ Len(b \o d) = Len(a) + Len(d)
  <2>1. a \o c \in Seq(Turn) /\ Len(a \o c) = Len(a) + Len(c)
    BY <1>1, ConcatProperties
  <2>2. b \o d \in Seq(Turn) /\ Len(b \o d) = Len(b) + Len(d)
    BY <1>1, ConcatProperties
  <2>3. QED
    BY <2>1, <2>2
<1>4. ASSUME NEW i \in 1 .. Len(a) + Len(c)
      PROVE  (a \o c)[i].by = (b \o d)[i].by
  <2>1. CASE i <= Len(a)
    <3>1. (a \o c)[i] = a[i] /\ (b \o d)[i] = b[i]
      BY <1>1, <1>2, <2>1, ConcatProperties
    <3>2. i \in 1 .. Len(a)
      BY <1>2, <2>1
    <3>3. QED
      BY <3>1, <3>2 DEF Begins
  <2>2. CASE ~(i <= Len(a))
    <3>0. i - Len(a) \in 1 .. Len(c)
      BY <1>2, <2>2
    <3>1. PICK j \in 1 .. Len(c) : j = i - Len(a)
      BY <3>0
    <3>2. (a \o c)[i] = c[j]
      BY <1>1, <1>2, <2>2, <3>1, ConcatProperties
    <3>3. (b \o d)[i] = d[j]
      BY <1>1, <1>2, <2>2, <3>1, ConcatProperties
    <3>4. QED
      BY <3>1, <3>2, <3>3 DEF Begins
  <2>3. QED
    BY <2>1, <2>2
<1>5. Len(a) + Len(c) <= Len(a) + Len(d) /\ \A i \in 1 .. Len(a \o c) : (a \o c)[i].by = (b \o d)[i].by
  BY <1>2, <1>3, <1>4
<1>6. Begins(a \o c, b \o d)
  BY <1>3, <1>5 DEF Begins
<1>7. QED
  BY <1>3, <1>6

(* What is shown of a thread that another begins with is a prefix. *)
LEMMA BeginsIsPrefix ==
  ASSUME NEW a, NEW b, Begins(a, b)
  PROVE  IsPrefix(Indices(a), Indices(b))
<1>1. PICK n \in Nat : n = Len(a)
  BY LenProperties DEF Begins
<1>2. PICK m \in Nat : m = Len(b)
  BY LenProperties DEF Begins
<1>3. n <= m /\ \A i \in 1 .. n : a[i].by = b[i].by
  BY <1>1, <1>2 DEF Begins
<1>4. PICK x : x = Indices(a)
  OBVIOUS
<1>5. PICK y : y = Indices(b)
  OBVIOUS
<1>6. x = [i \in 1 .. n |-> a[i].by] /\ y = [i \in 1 .. m |-> b[i].by]
  BY <1>1, <1>2, <1>4, <1>5, LenProperties DEF Indices, Begins
<1>7. /\ \A i \in 1 .. n : a[i].by \in Requests
      /\ \A i \in 1 .. m : b[i].by \in Requests
  <2>1. \A i \in 1 .. n : a[i] \in Turn
    BY <1>1, ElementOfSeq DEF Begins
  <2>2. \A i \in 1 .. m : b[i] \in Turn
    BY <1>2, ElementOfSeq DEF Begins
  <2>3. \A t \in Turn : t.by \in Requests
    BY DEF Turn
  <2>4. QED
    BY <2>1, <2>2, <2>3
<1>8. x \in Seq(Requests) /\ Len(x) = n /\ y \in Seq(Requests) /\ Len(y) = m
  BY <1>6, <1>7, FunIsSeq
<1>9. SubSeq(x, 1, n) = [i \in 1 .. n |-> x[i]] /\ SubSeq(y, 1, n) = [i \in 1 .. n |-> y[i]]
  BY <1>3, <1>8
<1>10. \A i \in 1 .. n : x[i] = y[i]
  BY <1>3, <1>6
<1>11. SubSeq(x, 1, n) = SubSeq(y, 1, n)
  BY <1>9, <1>10
<1>12. QED
  BY <1>3, <1>4, <1>5, <1>8, <1>11 DEF IsPrefix

-----------------------------------------------------------------------------
(* Questions and conversations: where a fork begins *)

(* A fork's parent is there, with the turns before the fork, unless the fork *)
(* was made past its end or questions to it overlapped.                      *)
Branch(c, k) ==
    k.parent # "none" =>
        /\ conv[k.parent].live
        /\ c \notin early /\ k.parent \notin met => \A i \in 0 .. k.at - 1 : \E t \in turns[k.parent] : t.index = i

BranchOK ==
    /\ \A c \in Chats : conv[c].live => Branch(c, conv[c])
    /\ \A r \in Requests : Active(r) /\ req[r].new => Branch(req[r].chat, req[r].conv)

(* The same after a step. *)
BranchThen(c, k) ==
    k.parent # "none" =>
        /\ conv'[k.parent].live
        /\ c \notin early' /\ k.parent \notin met' => \A i \in 0 .. k.at - 1 : \E t \in turns'[k.parent] : t.index = i

(* What a step keeps: conversations and turns stay, a conversation is made   *)
(* by a request for it, and a request for a new one begins with its branch.  *)
Onward ==
    /\ met \subseteq met' /\ early \subseteq early'
    /\ \A c \in Chats : conv[c].live => conv'[c].live /\ conv'[c].parent = conv[c].parent /\ conv'[c].at = conv[c].at
    /\ \A c \in Chats : \A t \in turns[c] : \E u \in turns'[c] : u.by = t.by /\ u.index = t.index
    /\ \A c \in Chats : conv'[c].live /\ ~conv[c].live =>
          \E r \in Requests : /\ Active(r) /\ req[r].new /\ req[r].chat = c
                              /\ conv'[c].parent = req[r].conv.parent /\ conv'[c].at = req[r].conv.at
    /\ \A r \in Requests : Active(r)' /\ req'[r].new =>
          \/ Active(r) /\ req[r].new /\ req'[r].chat = req[r].chat /\ req'[r].conv = req[r].conv
          \/ BranchThen(req'[r].chat, req'[r].conv)

(* A branch stays one. *)
LEMMA BranchStays ==
  ASSUME Onward, NEW c, NEW k \in ConvRow, Branch(c, k)
  PROVE  BranchThen(c, k)
<1> SUFFICES ASSUME k.parent # "none"
             PROVE  /\ conv'[k.parent].live
                    /\ c \notin early' /\ k.parent \notin met' => \A i \in 0 .. k.at - 1 : \E t \in turns'[k.parent] : t.index = i
  BY DEF BranchThen
<1>1. k.parent \in Chats
  BY DEF ConvRow
<1>2. conv[k.parent].live
  BY DEF Branch
<1>3. conv'[k.parent].live
  BY <1>1, <1>2 DEF Onward
<1>4. ASSUME c \notin early', k.parent \notin met', NEW i \in 0 .. k.at - 1
      PROVE  \E t \in turns'[k.parent] : t.index = i
  <2>1. c \notin early /\ k.parent \notin met
    BY <1>4 DEF Onward
  <2>2. PICK t \in turns[k.parent] : t.index = i
    BY <2>1 DEF Branch
  <2>3. QED
    BY <1>1, <2>2 DEF Onward
<1>5. QED
  BY <1>3, <1>4

(* And every step keeps them. *)
LEMMA BranchKept ==
  ASSUME AskInv, BranchOK, Onward
  PROVE  BranchOK'
<1>1. (\A c \in Chats : conv[c] \in ConvRow) /\ \A r \in Requests : req[r].conv \in ConvRow
  BY DEF AskInv, AskTyped, ReqTyped
<1>2. ASSUME NEW c \in Chats, conv'[c].live
      PROVE  BranchThen(c, conv'[c])
  <2>1. CASE conv[c].live
    <3>1. BranchThen(c, conv[c])
      BY <1>1, <2>1, BranchStays DEF BranchOK
    <3>2. conv'[c].parent = conv[c].parent /\ conv'[c].at = conv[c].at
      BY <2>1 DEF Onward
    <3>3. QED
      BY <3>1, <3>2 DEF BranchThen
  <2>2. CASE ~conv[c].live
    <3>1. PICK r \in Requests : /\ Active(r) /\ req[r].new /\ req[r].chat = c
                                /\ conv'[c].parent = req[r].conv.parent /\ conv'[c].at = req[r].conv.at
      BY <1>2, <2>2 DEF Onward
    <3>2. Branch(c, req[r].conv)
      BY <3>1 DEF BranchOK
    <3>3. BranchThen(c, req[r].conv)
      BY <1>1, <3>2, BranchStays
    <3>4. QED
      BY <3>1, <3>3 DEF BranchThen
  <2>3. QED
    BY <2>1, <2>2
<1>3. ASSUME NEW r \in Requests, Active(r)', req'[r].new
      PROVE  BranchThen(req'[r].chat, req'[r].conv)
  <2>1. CASE Active(r) /\ req[r].new /\ req'[r].chat = req[r].chat /\ req'[r].conv = req[r].conv
    <3>1. Branch(req[r].chat, req[r].conv)
      BY <2>1 DEF BranchOK
    <3>2. BranchThen(req[r].chat, req[r].conv)
      BY <1>1, <3>1, BranchStays
    <3>3. QED
      BY <2>1, <3>2
  <2>2. CASE ~(Active(r) /\ req[r].new /\ req'[r].chat = req[r].chat /\ req'[r].conv = req[r].conv)
    BY <1>3, <2>2 DEF Onward
  <2>3. QED
    BY <2>1, <2>2
<1>4. \A c \in Chats : conv'[c].live => Branch(c, conv[c])'
  BY <1>2 DEF Branch, BranchThen
<1>5. \A r \in Requests : Active(r)' /\ req'[r].new => Branch(req[r].chat, req[r].conv)'
  BY <1>3 DEF Branch, BranchThen
<1>6. QED
  BY <1>4, <1>5 DEF BranchOK

(* A request begins, goes on or ends, and writes nothing of conversations. *)
LEMMA OnwardMove ==
  ASSUME NEW r \in Requests, NEW n, req' = [q \in Requests |-> IF q = r THEN n ELSE req[q]],
         UNCHANGED <<conv, turns>>, met \subseteq met', early \subseteq early',
         n.new => \/ Active(r) /\ req[r].new /\ n.chat = req[r].chat /\ n.conv = req[r].conv
                  \/ BranchThen(n.chat, n.conv)
  PROVE  Onward
<1>1. \A q \in Requests : req'[q] = IF q = r THEN n ELSE req[q]
  OBVIOUS
<1>2. ASSUME NEW q \in Requests, Active(q)', req'[q].new
      PROVE  \/ Active(q) /\ req[q].new /\ req'[q].chat = req[q].chat /\ req'[q].conv = req[q].conv
             \/ BranchThen(req'[q].chat, req'[q].conv)
  <2>1. CASE q = r
    BY <1>1, <1>2, <2>1
  <2>2. CASE q # r
    <3>1. req'[q] = req[q]
      BY <1>1, <2>2
    <3>2. QED
      BY <1>2, <3>1 DEF Active
  <2>3. QED
    BY <2>1, <2>2
<1>3. \A c \in Chats : conv'[c] = conv[c] /\ turns'[c] = turns[c]
  OBVIOUS
<1>4. QED
  BY <1>2, <1>3 DEF Onward

(* A request commits what it is about: its conversation, and perhaps a turn. *)
LEMMA OnwardCommit ==
  ASSUME AskInv, NEW r \in Requests, NEW n, req' = [q \in Requests |-> IF q = r THEN n ELSE req[q]],
         Active(r), n.pc = "done" \/ ~n.new, NEW c \in Chats, c = req[r].chat,
         NEW k, k = (IF req[r].new THEN req[r].conv ELSE conv[c]),
         conv'[c].live, conv'[c].parent = k.parent, conv'[c].at = k.at, \A d \in Chats : d # c => conv'[d] = conv[d],
         \A d \in Chats : turns[d] \subseteq turns'[d], met' = met, early' = early
  PROVE  Onward
<1>1. \A q \in Requests : req'[q] = IF q = r THEN n ELSE req[q]
  OBVIOUS
<1>2. (req[r].new => ~conv[c].live) /\ (~req[r].new => conv[c].live)
  BY DEF AskInv, LiveOK
<1>3. ASSUME NEW q \in Requests, Active(q)', req'[q].new
      PROVE  Active(q) /\ req[q].new /\ req'[q].chat = req[q].chat /\ req'[q].conv = req[q].conv
  <2>1. q # r
    BY <1>1, <1>3 DEF Active, Ended
  <2>2. req'[q] = req[q]
    BY <1>1, <2>1
  <2>3. QED
    BY <1>3, <2>2 DEF Active
<1>4. ASSUME NEW d \in Chats, conv[d].live
      PROVE  conv'[d].live /\ conv'[d].parent = conv[d].parent /\ conv'[d].at = conv[d].at
  BY <1>2, <1>4
<1>5. ASSUME NEW d \in Chats, conv'[d].live, ~conv[d].live
      PROVE  \E q \in Requests : /\ Active(q) /\ req[q].new /\ req[q].chat = d
                                 /\ conv'[d].parent = req[q].conv.parent /\ conv'[d].at = req[q].conv.at
  <2>1. d = c /\ req[r].new /\ k = req[r].conv
    BY <1>2, <1>5
  <2>2. QED
    BY <2>1
<1>6. QED
  BY <1>3, <1>4, <1>5 DEF Onward

(* A question that arrives begins no branch. *)
LEMMA OnwardStart ==
  ASSUME AskInv, NEW r \in Requests, NEW c \in Chats, NEW kind \in {"ask", "stream"}, AskStart(r, kind, c)
  PROVE  Onward
<1>1. PICK k : k = IF conv[c].live THEN conv[c] ELSE [NoConv EXCEPT !.live = TRUE]
  OBVIOUS
<1>2. k \in ConvRow /\ k.live /\ (~conv[c].live => ~k.crystal /\ k.parent = "none")
  <2>1. CASE conv[c].live
    BY <1>1, <2>1 DEF AskInv, AskTyped
  <2>2. CASE ~conv[c].live
    <3>1. k = [live |-> TRUE, parent |-> "none", at |-> 0, filed |-> FALSE, crystal |-> FALSE]
      BY <1>1, <2>2 DEF NoConv
    <3>2. QED
      BY <3>1 DEF ConvRow
  <2>3. QED
    BY <2>1, <2>2
<1>3. PICK w \in BOOLEAN : w = ~conv[c].live
  OBVIOUS
<1>4. _prepare_context(r, kind, c, k, w) /\ kind \in Questions
  BY <1>1, <1>3 DEF AskStart, Questions
<1>5. w => Unused(c) /\ ~k.crystal /\ (kind = "fork" \/ k.parent = "none")
  BY <1>2, <1>3 DEF AskStart
<1>6. PICK n : /\ Moved(r, n) /\ n.chat = c /\ n.new = w /\ n.conv = k
               /\ met' = IF n.pc = "llm" /\ Open(c, Questions) # {} THEN met \cup {c} ELSE met
  BY <1>2, <1>4, <1>5, PreparedIs
<1>7. n.new => BranchThen(n.chat, n.conv)
  BY <1>2, <1>3, <1>6 DEF BranchThen
<1>8. req' = [q \in Requests |-> IF q = r THEN n ELSE req[q]]
  BY <1>6 DEF Moved
<1>9. UNCHANGED <<conv, turns, early>> /\ met \subseteq met'
  BY <1>6 DEF AskStart
<1>10. QED
  BY <1>7, <1>8, <1>9, OnwardMove

(* A fork that arrives begins one. *)
LEMMA OnwardFork ==
  ASSUME AskInv, NEW r \in Requests, NEW c \in Chats, NEW p \in Chats, NEW at \in Nat, fork_conversation(r, c, p, at)
  PROVE  Onward
<1>1. PICK k : k = [NoConv EXCEPT !.live = TRUE, !.parent = p, !.at = at]
  OBVIOUS
<1>2. k \in ConvRow /\ k.live /\ ~k.crystal /\ k.parent = p /\ k.at = at
  <2>1. k = [live |-> TRUE, parent |-> p, at |-> at, filed |-> FALSE, crystal |-> FALSE]
    BY <1>1 DEF NoConv
  <2>2. QED
    BY <2>1 DEF ConvRow
<1>3. _prepare_context(r, "fork", c, k, TRUE) /\ "fork" \in Questions
  BY <1>1 DEF fork_conversation, Questions
<1>4. Unused(c)
  BY DEF fork_conversation
<1>5. PICK w \in BOOLEAN : w
  OBVIOUS
<1>6. _prepare_context(r, "fork", c, k, w)
  BY <1>3, <1>5
<1>7. PICK n : /\ Moved(r, n) /\ n.chat = c /\ n.new = w /\ n.conv = k
               /\ met' = IF n.pc = "llm" /\ Open(c, Questions) # {} THEN met \cup {c} ELSE met
  BY <1>2, <1>3, <1>4, <1>6, PreparedIs
<1>8. UNCHANGED <<conv, turns>> /\ met \subseteq met'
  BY <1>7 DEF fork_conversation
<1>9. PICK x : x = _next_turn_index(p)
  OBVIOUS
<1>10. conv[p].live /\ early' = IF at > x THEN early \cup {c} ELSE early
  BY <1>9 DEF fork_conversation
<1>11. /\ x \in Nat /\ (turns[p] = {} => x = 0)
       /\ turns[p] # {} => \E t \in turns[p] : t.index = x - 1
  BY <1>9, NextIndex DEF AskInv
<1>12. ASSUME c \notin early', p \notin met', NEW i \in 0 .. at - 1
       PROVE  \E t \in turns[p] : t.index = i
  <2>1. at <= x
    BY <1>10, <1>11, <1>12
  <2>2. PICK m \in Nat : {t.index : t \in turns[p]} = 0 .. m - 1
    BY <1>8, <1>12 DEF AskInv, NumberOK
  <2>3. turns[p] # {} /\ i \in Nat /\ i <= x - 1
    BY <1>11, <1>12, <2>1
  <2>4. x - 1 \in 0 .. m - 1
    BY <1>11, <2>2, <2>3
  <2>5. i \in 0 .. m - 1
    BY <1>11, <2>2, <2>3, <2>4
  <2>6. QED
    BY <2>2, <2>5
<1>13. BranchThen(n.chat, n.conv)
  BY <1>2, <1>7, <1>8, <1>10, <1>12 DEF BranchThen
<1>14. req' = [q \in Requests |-> IF q = r THEN n ELSE req[q]]
  BY <1>7 DEF Moved
<1>15. early \subseteq early'
  BY <1>10
<1>16. QED
  BY <1>8, <1>13, <1>14, <1>15, OnwardMove

(* Filings and crystallizations begin none. *)
LEMMA OnwardAside ==
  ASSUME AskInv, NEW r \in Requests, NEW c \in Chats, file_back_conversation(r, c) \/ crystallize_conversation(r, c)
  PROVE  Onward
<1>1. PICK f : f = FALSE
  OBVIOUS
<1>2. Idle = [pc |-> "idle", kind |-> "none", chat |-> "none", new |-> f, filed |-> f, conv |-> NoConv,
              index |-> 0, prior |-> <<>>, seen |-> <<>>, content |-> {}, begin |-> {}, wrote |-> f]
  BY <1>1 DEF Idle
<1>3. UNCHANGED <<conv, turns, met, early>>
  BY DEF file_back_conversation, crystallize_conversation
<1>4. PICK n : req' = [req EXCEPT ![r] = n] /\ n.new = f
  <2>1. CASE file_back_conversation(r, c)
    <3>1. PICK kf : kf = conv[c].filed
      OBVIOUS
    <3>2. PICK n : n = [Idle EXCEPT !.pc = "write", !.kind = "file", !.chat = c, !.filed = kf,
                                    !.conv = conv[c], !.content = turns[c], !.begin = turns[c]]
      OBVIOUS
    <3>3. n.new = f
      BY <1>2, <3>2
    <3>4. req' = [req EXCEPT ![r] = n]
      BY <2>1, <3>1, <3>2 DEF file_back_conversation
    <3>5. QED
      BY <3>3, <3>4
  <2>2. CASE crystallize_conversation(r, c)
    <3>1. PICK p : p = IF _check_already_crystallized(c) THEN "done" ELSE IF turns[c] = {} THEN "refused" ELSE "distil"
      OBVIOUS
    <3>2. PICK n : n = [Idle EXCEPT !.kind = "crystal", !.chat = c, !.conv = conv[c], !.pc = p]
      OBVIOUS
    <3>3. n.new = f
      BY <1>2, <3>2
    <3>4. req' = [req EXCEPT ![r] = n]
      BY <2>2, <3>1, <3>2 DEF crystallize_conversation
    <3>5. QED
      BY <3>3, <3>4
  <2>3. QED
    BY <2>1, <2>2
<1>5. req' = [q \in Requests |-> IF q = r THEN n ELSE req[q]]
  BY <1>4 DEF AskInv, AskTyped
<1>6. ~n.new
  BY <1>1, <1>4
<1>7. QED
  BY <1>3, <1>5, <1>6, OnwardMove

(* Selected turns keep their numbers when they are marked. *)
LEMMA OnwardSelect ==
  ASSUME AskInv, NEW r \in Requests, NEW c \in Chats, NEW S, file_back_selection(r, c, S)
  PROVE  Onward
<1>1. PICK sel : sel = SelectedTurns(c, S)
  OBVIOUS
<1>2. PICK ok \in BOOLEAN : ok <=> S \subseteq {t.index : t \in sel}
  OBVIOUS
<1>3. PICK p : p = IF S \subseteq {t.index : t \in sel} THEN "done" ELSE "refused"
  OBVIOUS
<1>4. PICK n : n = [Idle EXCEPT !.pc = p, !.kind = "select", !.chat = c]
  OBVIOUS
<1>5. PICK f : f = FALSE
  OBVIOUS
<1>6. n.new = f
  <2>1. Idle = [pc |-> "idle", kind |-> "none", chat |-> "none", new |-> f, filed |-> f, conv |-> NoConv,
                index |-> 0, prior |-> <<>>, seen |-> <<>>, content |-> {}, begin |-> {}, wrote |-> f]
    BY <1>5 DEF Idle
  <2>2. QED
    BY <1>4, <2>1
<1>7. req' = [req EXCEPT ![r] = n]
  BY <1>1, <1>3, <1>4 DEF file_back_selection
<1>8. req' = [q \in Requests |-> IF q = r THEN n ELSE req[q]] /\ ~n.new
  BY <1>5, <1>6, <1>7 DEF AskInv, AskTyped
<1>9. UNCHANGED <<conv, met, early>>
  BY DEF file_back_selection
<1>10. turns' = IF ok THEN [d \in Chats |-> Marked(turns[d], sel, r)] ELSE turns
  BY <1>1, <1>2 DEF file_back_selection, Marked
<1>11. ASSUME NEW d \in Chats
       PROVE  \A t \in turns[d] : \E u \in turns'[d] : u.by = t.by /\ u.index = t.index
  <2>1. CASE ok
    <3>1. turns[d] \subseteq Turn /\ IsFiniteSet(turns[d]) /\ \A t, u \in turns[d] : u.by = t.by => u = t
      BY DEF AskInv, AskTyped, ByOK
    <3>2. PICK M : M = Marked(turns[d], sel, r)
      OBVIOUS
    <3>3. \A t \in turns[d] : \E u \in M : u.by = t.by /\ u.index = t.index
      BY <3>1, <3>2, MarkedAre
    <3>4. QED
      BY <1>10, <2>1, <3>2, <3>3
  <2>2. CASE ~ok
    BY <1>10, <2>2
  <2>3. QED
    BY <2>1, <2>2
<1>12. ASSUME NEW q \in Requests, Active(q)', req'[q].new
       PROVE  Active(q) /\ req[q].new /\ req'[q].chat = req[q].chat /\ req'[q].conv = req[q].conv
  <2>1. q # r
    BY <1>8, <1>12
  <2>2. req'[q] = req[q]
    BY <1>8, <2>1
  <2>3. QED
    BY <1>12, <2>2 DEF Active
<1>13. QED
  BY <1>9, <1>11, <1>12 DEF Onward

(* A request that goes on, or fails, is about the same conversation. *)
LEMMA OnwardGo ==
  ASSUME AskInv, NEW r \in Requests,
         \/ \E filing \in BOOLEAN : _query_llm(r, filing)
         \/ FlushTurn(r) \/ WriteFile(r) \/ InsertArticle(r) \/ Rollback(r)
  PROVE  Onward
<1>1. PICK x : x = req[r]
  OBVIOUS
<1>2. x = [pc |-> x.pc, kind |-> x.kind, chat |-> x.chat, new |-> x.new, filed |-> x.filed, conv |-> x.conv,
           index |-> x.index, prior |-> x.prior, seen |-> x.seen, content |-> x.content,
           begin |-> x.begin, wrote |-> x.wrote]
  BY <1>1 DEF AskInv, AskTyped, ReqTyped, IsReq
<1>3. Active(r)
  BY DEF Active, Ended, _query_llm, FlushTurn, WriteFile, InsertArticle, Rollback
<1>4. UNCHANGED <<conv, turns, met, early>>
  BY DEF _query_llm, FlushTurn, WriteFile, InsertArticle, Rollback
<1>5. PICK n : req' = [req EXCEPT ![r] = n] /\ n.new = x.new /\ n.chat = x.chat /\ n.conv = x.conv
  <2>1. ASSUME NEW p, req' = [req EXCEPT ![r].pc = p]
        PROVE  \E n : req' = [req EXCEPT ![r] = n] /\ n.new = x.new /\ n.chat = x.chat /\ n.conv = x.conv
    <3>1. PICK n : n = [x EXCEPT !.pc = p]
      OBVIOUS
    <3>2. n.new = x.new /\ n.chat = x.chat /\ n.conv = x.conv
      BY <1>2, <3>1
    <3>3. req' = [req EXCEPT ![r] = n]
      BY <1>1, <2>1, <3>1
    <3>4. QED
      BY <3>2, <3>3
  <2>2. CASE FlushTurn(r)
    <3>1. PICK c : c = req[r].chat
      OBVIOUS
    <3>2. PICK ct : ct = turns[c] \cup {Mine(r, Unmarked)}
      OBVIOUS
    <3>3. PICK bg : bg = turns[c]
      OBVIOUS
    <3>4. PICK n : n = [x EXCEPT !.pc = "write", !.content = ct, !.begin = bg]
      OBVIOUS
    <3>5. n.new = x.new /\ n.chat = x.chat /\ n.conv = x.conv
      BY <1>2, <3>4
    <3>6. req' = [req EXCEPT ![r] = n]
      BY <1>1, <2>2, <3>1, <3>2, <3>3, <3>4 DEF FlushTurn
    <3>7. QED
      BY <3>5, <3>6
  <2>3. CASE WriteFile(r)
    <3>1. PICK y : y = TRUE
      OBVIOUS
    <3>2. PICK n : n = [x EXCEPT !.pc = "article", !.wrote = y]
      OBVIOUS
    <3>3. n.new = x.new /\ n.chat = x.chat /\ n.conv = x.conv
      BY <1>2, <3>2
    <3>4. req' = [req EXCEPT ![r] = n]
      BY <1>1, <2>3, <3>1, <3>2 DEF WriteFile
    <3>5. QED
      BY <3>3, <3>4
  <2>4. CASE \E filing \in BOOLEAN : _query_llm(r, filing)
    <3>1. PICK filing \in BOOLEAN : _query_llm(r, filing)
      BY <2>4
    <3>2. PICK p : p = IF filing THEN "flush" ELSE "persist"
      OBVIOUS
    <3>3. req' = [req EXCEPT ![r].pc = p]
      BY <3>1, <3>2 DEF _query_llm
    <3>4. QED
      BY <2>1, <3>3
  <2>5. CASE InsertArticle(r)
    BY <2>1, <2>5 DEF InsertArticle
  <2>6. CASE Rollback(r)
    BY <2>1, <2>6 DEF Rollback
  <2>7. QED
    BY <2>2, <2>3, <2>4, <2>5, <2>6
<1>6. req' = [q \in Requests |-> IF q = r THEN n ELSE req[q]]
  BY <1>5 DEF AskInv, AskTyped
<1>7. QED
  BY <1>1, <1>3, <1>4, <1>5, <1>6, OnwardMove

(* A request that is answered, or filed, makes its conversation if it is new. *)
LEMMA OnwardDone ==
  ASSUME AskInv, NEW r \in Requests, _persist_query(r) \/ CommitFiled(r)
  PROVE  Onward
<1>1. PICK mark \in {Unmarked, Thread}, fl \in BOOLEAN : Commit(r, mark, fl)
  BY DEF _persist_query, CommitFiled
<1>2. Active(r) /\ met' = met /\ early' = early
  BY DEF Active, Ended, _persist_query, CommitFiled
<1>3. PICK c \in Chats : c = req[r].chat
  BY <1>2 DEF Active, AskInv, AskTyped, ReqTyped
<1>4. PICK n : n = [req[r] EXCEPT !.pc = "done"]
  OBVIOUS
<1>5. PICK m : m = Mine(r, mark)
  OBVIOUS
<1>6. Committed(r, n, c, m)
  BY <1>1, <1>2, <1>3, <1>4, <1>5, CommitIs
<1>7. PICK k : k = IF req[r].new THEN req[r].conv ELSE conv[c]
  OBVIOUS
<1>8. /\ req' = [q \in Requests |-> IF q = r THEN n ELSE req[q]] /\ n.pc = "done"
      /\ conv'[c].live /\ conv'[c].parent = k.parent /\ conv'[c].at = k.at
      /\ \A d \in Chats : d # c => conv'[d] = conv[d]
      /\ \A d \in Chats : d # c => turns'[d] = turns[d]
      /\ turns'[c] = IF req[r].kind \in Questions THEN turns[c] \cup {m} ELSE turns[c]
  BY <1>6, <1>7 DEF Committed, Moved
<1>9. \A d \in Chats : turns[d] \subseteq turns'[d]
  BY <1>8
<1>10. QED
  BY <1>2, <1>3, <1>7, <1>8, <1>9, OnwardCommit

(* And so does a stream when it commits its cost. *)
LEMMA OnwardStream ==
  ASSUME AskInv, NEW r \in Requests, answer_stream(r)
  PROVE  Onward
<1>1. PICK x : x = req[r]
  OBVIOUS
<1>2. ReqTyped(x) /\ x.chat \in Chats /\ Active(r) /\ AskTyped /\ LiveOK
  BY <1>1 DEF AskInv, AskTyped, ReqTyped, answer_stream, Active, Ended
<1>3. PICK c \in Chats : c = x.chat
  BY <1>2
<1>4. PICK p \in {"flush", "persist"} : req' = [req EXCEPT ![r].pc = p, ![r].new = FALSE]
  BY DEF answer_stream
<1>5. PICK f : f = FALSE
  OBVIOUS
<1>6. PICK n : n = [x EXCEPT !.pc = p, !.new = f]
  OBVIOUS
<1>7. n.new = f
  <2>1. x = [pc |-> x.pc, kind |-> x.kind, chat |-> x.chat, new |-> x.new, filed |-> x.filed, conv |-> x.conv,
             index |-> x.index, prior |-> x.prior, seen |-> x.seen, content |-> x.content,
             begin |-> x.begin, wrote |-> x.wrote]
    BY <1>2 DEF ReqTyped, IsReq
  <2>2. QED
    BY <1>6, <2>1
<1>8. req' = [q \in Requests |-> IF q = r THEN n ELSE req[q]] /\ ~n.new
  BY <1>1, <1>2, <1>4, <1>5, <1>6, <1>7 DEF AskTyped
<1>9. PICK k : k = IF req[r].new THEN req[r].conv ELSE conv[c]
  OBVIOUS
<1>10. conv' = [conv EXCEPT ![c] = k] /\ UNCHANGED <<turns, met, early>>
  BY <1>1, <1>3, <1>9 DEF answer_stream
<1>11. k.live
  BY <1>1, <1>2, <1>3, <1>9 DEF ReqTyped, LiveOK
<1>12. conv'[c] = k /\ (\A d \in Chats : d # c => conv'[d] = conv[d]) /\ \A d \in Chats : turns[d] \subseteq turns'[d]
  BY <1>2, <1>10 DEF AskTyped
<1>13. QED
  BY <1>1, <1>2, <1>3, <1>8, <1>9, <1>10, <1>11, <1>12, OnwardCommit

(* A conversation is marked as crystallized. *)
LEMMA OnwardCrystallize ==
  ASSUME AskInv, NEW r \in Requests, Crystallize(r)
  PROVE  Onward
<1>1. PICK n : n = [req[r] EXCEPT !.pc = "done"]
  OBVIOUS
<1>2. n.pc = "done" /\ n.new = req[r].new
  BY <1>1, WithPc
<1>3. AskTyped /\ ReqTyped(req[r]) /\ LiveOK /\ Active(r)
  BY DEF AskInv, AskTyped, Crystallize, Active, Ended
<1>4. ~req[r].new /\ req[r].chat \in Chats
  BY <1>3 DEF ReqTyped, Questions, Crystallize
<1>5. PICK c \in Chats : c = req[r].chat
  BY <1>4
<1>6. conv[c].live /\ conv[c] \in ConvRow
  BY <1>3, <1>4, <1>5 DEF LiveOK, AskTyped
<1>7. PICK k : k = [conv[c] EXCEPT !.crystal = TRUE]
  OBVIOUS
<1>8. k \in ConvRow /\ k.live = conv[c].live /\ k.parent = conv[c].parent /\ k.at = conv[c].at
  BY <1>6, <1>7 DEF ConvRow
<1>9. conv' = [conv EXCEPT ![c] = k] /\ UNCHANGED <<turns, met, early>>
  BY <1>3, <1>5, <1>7 DEF Crystallize, AskTyped
<1>10. /\ conv'[c] = k /\ (\A d \in Chats : d # c => conv'[d] = conv[d])
       /\ \A d \in Chats : turns[d] \subseteq turns'[d]
  BY <1>3, <1>9 DEF AskTyped
<1>11. req' = [q \in Requests |-> IF q = r THEN n ELSE req[q]]
  BY <1>1, <1>3 DEF Crystallize, AskTyped
<1>12. PICK w : w = IF req[r].new THEN req[r].conv ELSE conv[c]
  OBVIOUS
<1>13. conv'[c].live /\ conv'[c].parent = w.parent /\ conv'[c].at = w.at
  BY <1>4, <1>5, <1>6, <1>8, <1>10, <1>12
<1>14. QED
  BY <1>2, <1>3, <1>5, <1>9, <1>10, <1>11, <1>12, <1>13, OnwardCommit

(* Every step is one. *)
LEMMA NextOnward == AskInv /\ [AskNext]_askVars => Onward
<1> SUFFICES ASSUME AskInv, [AskNext]_askVars
             PROVE  Onward
  OBVIOUS
<1>1. CASE UNCHANGED askVars
  BY <1>1 DEF askVars, Onward, Active
<1>2. ASSUME NEW r \in Requests, NEW c \in Chats,
             \/ \E kind \in {"ask", "stream"} : AskStart(r, kind, c)
             \/ \E p \in Chats, at \in 0 .. MaxRequests - 1 : fork_conversation(r, c, p, at)
             \/ file_back_conversation(r, c)
             \/ crystallize_conversation(r, c)
             \/ \E S \in SUBSET (0 .. MaxRequests - 2) : file_back_selection(r, c, S)
      PROVE  Onward
  <2>1. CASE \E kind \in {"ask", "stream"} : AskStart(r, kind, c)
    BY <2>1, OnwardStart
  <2>2. CASE \E p \in Chats, at \in 0 .. MaxRequests - 1 : fork_conversation(r, c, p, at)
    <3>1. PICK p \in Chats, at \in 0 .. MaxRequests - 1 : fork_conversation(r, c, p, at)
      BY <2>2
    <3>2. at \in Nat
      BY AskAssumption
    <3>3. QED
      BY <3>1, <3>2, OnwardFork
  <2>3. CASE file_back_conversation(r, c) \/ crystallize_conversation(r, c)
    BY <2>3, OnwardAside
  <2>4. CASE \E S \in SUBSET (0 .. MaxRequests - 2) : file_back_selection(r, c, S)
    BY <2>4, OnwardSelect
  <2>5. QED
    BY <1>2, <2>1, <2>2, <2>3, <2>4
<1>3. ASSUME NEW r \in Requests,
             \/ \E filing \in BOOLEAN : _query_llm(r, filing)
             \/ answer_stream(r) \/ _persist_query(r)
             \/ FlushTurn(r) \/ WriteFile(r) \/ InsertArticle(r) \/ CommitFiled(r)
             \/ Crystallize(r)
             \/ Rollback(r)
      PROVE  Onward
  BY <1>3, OnwardGo, OnwardDone, OnwardStream, OnwardCrystallize
<1>4. QED
  BY <1>1, <1>2, <1>3 DEF AskNext

(* So forks are branches in every state. *)
LEMMA NextBranch == AskInv /\ BranchOK /\ [AskNext]_askVars => BranchOK'
  BY NextOnward, BranchKept

LEMMA InitBranch == AskInit => BranchOK
<1> SUFFICES ASSUME AskInit
             PROVE  BranchOK
  OBVIOUS
<1>1. ~NoConv.live /\ Idle.pc = "idle"
  BY DEF NoConv, Idle
<1>2. QED
  BY <1>1 DEF AskInit, BranchOK, Active

-----------------------------------------------------------------------------
(* Questions and conversations: what a step does to a thread *)

Same(a, b) == Begins(a, b) /\ Len(a) = Len(b)

LEMMA NumberedFrom ==
  ASSUME NEW U, U \subseteq Turn, IsFiniteSet(U), \A t, u \in U : t.index = u.index => t = u,
         \E n \in Nat : {t.index : t \in U} = 0 .. n - 1
  PROVE  \E n : Numbered(U, n)
BY DEF Numbered

(* A conversation's turns before and after a step, if its questions do not   *)
(* overlap.                                                                  *)
LEMMA TurnsStay ==
  ASSUME AskInv, AskInv', Onward, NEW c \in Chats, c \notin met'
  PROVE  /\ \E n : Numbered(turns[c], n)
         /\ \E m : Numbered(turns'[c], m)
         /\ \A t \in turns[c] : \E u \in turns'[c] : u.by = t.by /\ u.index = t.index
<1>1. NumberOK(c) /\ turns[c] \subseteq Turn /\ IsFiniteSet(turns[c])
  BY DEF AskInv, AskTyped, Onward
<1>2. NumberOK(c)' /\ turns'[c] \subseteq Turn /\ IsFiniteSet(turns'[c])
  BY DEF AskInv, AskTyped
<1>3. /\ \A t, u \in turns[c] : t.index = u.index => t = u
      /\ \E n \in Nat : {t.index : t \in turns[c]} = 0 .. n - 1
  BY <1>1 DEF NumberOK
<1>4. /\ \A t, u \in turns'[c] : t.index = u.index => t = u
      /\ \E n \in Nat : {t.index : t \in turns'[c]} = 0 .. n - 1
  BY <1>2 DEF NumberOK
<1>5. \A t \in turns[c] : \E u \in turns'[c] : u.by = t.by /\ u.index = t.index
  BY DEF Onward
<1>6. QED
  BY <1>1, <1>2, <1>3, <1>4, <1>5, NumberedFrom

(* The first turns of a conversation that are all there stay the first. *)
LEMMA FirstStay ==
  ASSUME NEW U, NEW V, NEW n, NEW m, Numbered(U, n), Numbered(V, m), NEW k \in Nat,
         \A t \in U : \E u \in V : u.by = t.by /\ u.index = t.index,
         \A i \in 0 .. k - 1 : \E t \in U : t.index = i
  PROVE  Same(ByIndex({t \in U : t.index < k}), ByIndex({t \in V : t.index < k}))
<1>1. \A i \in 0 .. k - 1 : \E u \in V : u.index = i
  OBVIOUS
<1>2. PICK A : A = {t \in U : t.index < k}
  OBVIOUS
<1>3. PICK B : B = {t \in V : t.index < k}
  OBVIOUS
<1>4. Numbered(A, k) /\ Numbered(B, k)
  BY <1>1, <1>2, <1>3, FirstTurns
<1>5. \A t \in A : \E u \in B : u.by = t.by /\ u.index = t.index
  BY <1>2, <1>3
<1>6. Begins(ByIndex(A), ByIndex(B)) /\ Len(ByIndex(A)) = k /\ Len(ByIndex(B)) = k
  BY <1>4, <1>5, KeptInOrder
<1>7. QED
  BY <1>2, <1>3, <1>6 DEF Same

(* What a fork shows of its parent stays as it is. *)
LEMMA ParentStays ==
  ASSUME AskInv, AskInv', BranchOK, Onward, NEW d \in Chats, conv[d].live, d \notin early',
         NEW p \in Chats, p = conv[d].parent, p \notin met', NEW k \in Nat, k = conv[d].at
  PROVE  Same(ByIndex({t \in turns[p] : t.index < k}), ByIndex({t \in turns'[p] : t.index < k}))
<1>1. PICK n, m : Numbered(turns[p], n) /\ Numbered(turns'[p], m)
  BY TurnsStay
<1>2. \A t \in turns[p] : \E u \in turns'[p] : u.by = t.by /\ u.index = t.index
  BY DEF Onward
<1>3. p # "none"
  BY AskAssumption
<1>4. \A i \in 0 .. k - 1 : \E t \in turns[p] : t.index = i
  BY <1>3 DEF BranchOK, Branch, Onward
<1>5. QED
  BY <1>1, <1>2, <1>4, FirstStay

(* The turns of a fork's parent before the fork. *)
Upto(K, T, c) == ByIndex({t \in T[K[c].parent] : t.index < K[c].at})

(* Shared turns, one conversation at a time. *)
LEMMA SharedAt ==
  ASSUME NEW f, NEW K, NEW T, NEW m \in Nat, IsShared(f, K, T, m), NEW n \in 0 .. m, NEW c \in Chats
  PROVE  f[n][c] = IF K[c].parent = "none" \/ n = 0 THEN <<>> ELSE f[n - 1][K[c].parent] \o Upto(K, T, c)
<1>1. f[n] = [x \in Chats |-> IF K[x].parent = "none" \/ n = 0 THEN <<>>
                ELSE f[n - 1][K[x].parent] \o ByIndex({t \in T[K[x].parent] : t.index < K[x].at})]
  BY DEF IsShared
<1>2. QED
  BY <1>1 DEF Upto

(* What conversations without overlap show of their ancestors stays as it is. *)
LEMMA SharedStays ==
  ASSUME AskInv, AskInv', BranchOK, Onward, NEW S \in SUBSET Chats, \A d \in S : conv[d].parent \in S \cup {"none"},
         S \cap (met' \cup early') = {}, NEW f, NEW g,
         IsShared(f, conv, turns, MaxRequests), IsShared(g, conv', turns', MaxRequests)
  PROVE  \A n \in 0 .. MaxRequests, d \in S : conv[d].live => Same(f[n][d], g[n][d])
<1>1. PICK B : B = {n \in 0 .. MaxRequests : \E d \in S : conv[d].live /\ ~Same(f[n][d], g[n][d])}
  OBVIOUS
<1>2. Same(<<>>, <<>>)
  BY EmptySeq DEF Same, Begins
<1>3. ASSUME B # {}
      PROVE  FALSE
  <2>1. B \in SUBSET Nat
    BY <1>1, AskAssumption
  <2>2. PICK n \in B : \A y \in B : n <= y
    BY <1>3, <2>1, LeastNumber
  <2>3. PICK d \in S : conv[d].live /\ ~Same(f[n][d], g[n][d])
    BY <1>1, <2>2
  <2>4. n \in 0 .. MaxRequests /\ n \in Nat /\ MaxRequests \in Nat /\ d \in Chats
    BY <1>1, <2>2, AskAssumption
  <2>5. PICK p : p = conv[d].parent
    OBVIOUS
  <2>6. PICK k : k = conv[d].at
    OBVIOUS
  <2>7. conv'[d].parent = p /\ conv'[d].at = k
    BY <2>3, <2>4, <2>5, <2>6 DEF Onward
  <2>8. f[n][d] = IF p = "none" \/ n = 0 THEN <<>> ELSE f[n - 1][p] \o ByIndex({t \in turns[p] : t.index < k})
    <3>1. f[n][d] = IF conv[d].parent = "none" \/ n = 0 THEN <<>> ELSE f[n - 1][conv[d].parent] \o Upto(conv, turns, d)
      BY <2>4, SharedAt
    <3>2. QED
      BY <2>5, <2>6, <3>1 DEF Upto
  <2>9. g[n][d] = IF p = "none" \/ n = 0 THEN <<>> ELSE g[n - 1][p] \o ByIndex({t \in turns'[p] : t.index < k})
    <3>1. g[n][d] = IF conv'[d].parent = "none" \/ n = 0 THEN <<>> ELSE g[n - 1][conv'[d].parent] \o Upto(conv', turns', d)
      BY <2>4, SharedAt
    <3>2. QED
      BY <2>7, <3>1 DEF Upto
  <2>10. p # "none" /\ n # 0
    BY <1>2, <2>3, <2>8, <2>9
  <2>11. p \in S /\ p \in Chats /\ conv[p].live
    <3>1. Branch(d, conv[d])
      BY <2>3, <2>4 DEF BranchOK
    <3>2. QED
      BY <2>5, <2>10, <3>1 DEF Branch
  <2>12. n - 1 \in 0 .. MaxRequests /\ n - 1 \notin B
    BY <2>2, <2>4, <2>10
  <2>13. Same(f[n - 1][p], g[n - 1][p])
    BY <1>1, <2>11, <2>12
  <2>14. k \in Nat
    BY <2>4, <2>6 DEF AskInv, AskTyped, ConvRow
  <2>15. PICK a : a = ByIndex({t \in turns[p] : t.index < k})
    OBVIOUS
  <2>16. PICK b : b = ByIndex({t \in turns'[p] : t.index < k})
    OBVIOUS
  <2>17. Same(a, b)
    BY <2>3, <2>4, <2>5, <2>6, <2>11, <2>14, <2>15, <2>16, ParentStays
  <2>18. Same(f[n - 1][p] \o a, g[n - 1][p] \o b)
    BY <2>13, <2>17, JoinBegins DEF Same
  <2>19. QED
    BY <2>3, <2>8, <2>9, <2>10, <2>15, <2>16, <2>18
<1>4. QED
  BY <1>1, <1>3

(* A thread is only extended at its end. *)
LEMMA ThreadStays ==
  ASSUME AskInv, AskInv', BranchOK, Onward, NEW c \in Chats, conv[c].live,
         \E S \in Lineages(c) : S \cap (met' \cup early') = {}
  PROVE  IsPrefix(Indices(_materialize_thread(c)), Indices(_materialize_thread(c)'))
<1>1. PICK S \in Lineages(c) : S \cap (met' \cup early') = {}
  OBVIOUS
<1>2. S \in SUBSET Chats /\ c \in S /\ \A d \in S : conv[d].parent \in S \cup {"none"}
  BY DEF Lineages
<1>3. PICK f : f = Shared
  OBVIOUS
<1>4. PICK g : g = Shared'
  OBVIOUS
<1>5. IsShared(f, conv, turns, MaxRequests) /\ IsShared(g, conv', turns', MaxRequests)
  BY <1>3, <1>4, SharedIs
<1>6. \A n \in 0 .. MaxRequests, d \in S : conv[d].live => Same(f[n][d], g[n][d])
  BY <1>1, <1>2, <1>5, SharedStays
<1>7. Same(f[MaxRequests][c], g[MaxRequests][c])
  BY <1>2, <1>6, AskAssumption
<1>8. PICK a : a = ByIndex(turns[c])
  OBVIOUS
<1>9. PICK b : b = ByIndex(turns'[c])
  OBVIOUS
<1>10. Begins(a, b)
  <2>1. c \notin met'
    BY <1>1, <1>2
  <2>2. PICK n, m : Numbered(turns[c], n) /\ Numbered(turns'[c], m)
    BY <2>1, TurnsStay
  <2>3. \A t \in turns[c] : \E u \in turns'[c] : u.by = t.by /\ u.index = t.index
    BY DEF Onward
  <2>4. QED
    BY <1>8, <1>9, <2>2, <2>3, KeptInOrder
<1>11. Begins(f[MaxRequests][c] \o a, g[MaxRequests][c] \o b)
  BY <1>7, <1>10, JoinBegins DEF Same
<1>12. _materialize_thread(c) = f[MaxRequests][c] \o a
  BY <1>3, <1>8 DEF _materialize_thread
<1>13. _materialize_thread(c)' = g[MaxRequests][c] \o b
  BY <1>4, <1>9 DEF _materialize_thread
<1>14. PICK v : v = _materialize_thread(c)
  OBVIOUS
<1>15. PICK w : w = _materialize_thread(c)'
  OBVIOUS
<1>16. IsPrefix(Indices(v), Indices(w))
  BY <1>11, <1>12, <1>13, <1>14, <1>15, BeginsIsPrefix
<1>17. Indices(_materialize_thread(c)) = Indices(v) /\ Indices(_materialize_thread(c)') = Indices(w)
  BY <1>14, <1>15
<1>18. QED
  BY <1>16, <1>17

-----------------------------------------------------------------------------
(* The components together *)

(* services/taxonomy.py, engine/confidence.py, engine/concept_compiler.py    *)
(* and engine/synthesis_compiler.py: the concept tree stays a forest of      *)
(* bounded depth whose counts are those of the stored articles, the score of *)
(* an article is that of its claims and its decay bounded, a concept page    *)
(* has the sources its record says, and a synthesis stays within its limit   *)
(* and can be read, however requests, jobs and rebuilds interleave.          *)
THEOREM PagesAlwaysSound == ReadingSpec => []PagesSound
<1>1. ReadingInit => TaxInv /\ FreshInv /\ PagesInv /\ SynthInv
  BY InitTax, InitFresh, InitPages, InitSynth DEF ReadingInit
<1>2. TaxInv /\ [ReadingNext]_readingVars => TaxInv'
  BY NextTax DEF ReadingNext, readingVars
<1>3. FreshInv /\ [ReadingNext]_readingVars => FreshInv'
  BY NextFresh DEF ReadingNext, readingVars
<1>4. PagesInv /\ [ReadingNext]_readingVars => PagesInv'
  BY NextPages DEF ReadingNext, readingVars
<1>5. SynthInv /\ [ReadingNext]_readingVars => SynthInv'
  BY NextSynth DEF ReadingNext, readingVars
<1>6. TaxInv /\ FreshInv /\ PagesInv /\ SynthInv => PagesSound
  BY TaxEnough, FreshEnough, PagesEnough DEF PagesSound, SynthInv
<1>7. QED
  BY <1>1, <1>2, <1>3, <1>4, <1>5, <1>6, PTL DEF ReadingSpec

(* engine/qa_agent.py, services/query.py, services/crystallization.py and    *)
(* services/discussion.py: turns are numbered without gaps, the model is     *)
(* given the end of the thread, a day's questions are counted and limited,   *)
(* a filed article has the turns it is said to have, a conversation is       *)
(* crystallized once and a discussion shown in turn, for every number of     *)
(* requests and conversations and every interleaving of them, unless two     *)
(* questions, filings or crystallizations of one conversation overlapped.    *)
THEOREM ThreadsAlwaysSound == ReadingSpec => []ThreadsSound
<1>1. ReadingInit => AskInv /\ TalkInv
  BY InitAsk, InitTalk DEF ReadingInit
<1>2. AskInv /\ [ReadingNext]_readingVars => AskInv'
  BY NextAsk DEF ReadingNext, readingVars
<1>3. TalkInv /\ [ReadingNext]_readingVars => TalkInv'
  BY NextTalk DEF ReadingNext, readingVars
<1>4. AskInv /\ TalkInv => ThreadsSound
  BY AskEnough, TalkEnough DEF ThreadsSound
<1>5. QED
  BY <1>1, <1>2, <1>3, <1>4, PTL DEF ReadingSpec

(* models/tables/qa.py, services/query.py: what a conversation shows is only *)
(* ever extended at its end, with the turns a fork shares with all those it  *)
(* descends from, for every number of conversations, forks of forks and      *)
(* requests, unless questions to one of them overlapped or a fork was made   *)
(* past its parent's end.                                                    *)
THEOREM ThreadsOnlyGrow == ReadingSpec => ThreadGrows
<1>1. ReadingInit => AskInv /\ BranchOK
  BY InitAsk, InitBranch DEF ReadingInit
<1>2. AskInv /\ [ReadingNext]_readingVars => AskInv'
  BY NextAsk DEF ReadingNext, readingVars
<1>3. AskInv /\ BranchOK /\ [ReadingNext]_readingVars => BranchOK'
  BY NextBranch DEF ReadingNext, readingVars
<1>4. AskInv /\ [ReadingNext]_readingVars => Onward
  BY NextOnward DEF ReadingNext, readingVars
<1>5. AskInv /\ AskInv' /\ BranchOK /\ Onward
         => \A c \in Chats : conv[c].live /\ (\E S \in Lineages(c) : S \cap (met' \cup early') = {})
               => IsPrefix(Indices(_materialize_thread(c)), Indices(_materialize_thread(c)'))
  BY ThreadStays
<1>6. QED
  BY <1>1, <1>2, <1>3, <1>4, <1>5, PTL DEF ReadingSpec, ThreadGrows
==============================================================================
