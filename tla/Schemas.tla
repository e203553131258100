------------------------------ MODULE Schemas ------------------------------
(***************************************************************************)
(* The compilation schemas of one user (services/compilation_schema.py)    *)
(* and the one the compiler follows (engine/compiler.py).                  *)
(*                                                                         *)
(* A request reads, and commits what it changed when it ends: between the  *)
(* two another request may commit.                                         *)
(***************************************************************************)
EXTENDS Naturals, FiniteSets

CONSTANTS SchemaIds, SchemaNames, SchemaRequests, NoSchema

ASSUME SchemasAssumption == NoSchema \notin SchemaIds \cup SchemaNames

VARIABLES schema,       \* committed rows
          edit,         \* a request: what it read and what it will commit
          wanted,       \* history: the schema last activated, while that stands
          crossed       \* history: two requests were open at once

schemaVars == <<schema, edit, wanted, crossed>>

NoEdit == [kind |-> "none", id |-> NoSchema, name |-> NoSchema, flag |-> "keep", off |-> {}, was |-> {}]
SchemaRows == {s.id : s \in schema}
ActiveIds == {s.id : s \in {t \in schema : t.active}}

SchemaTypeOK ==
    /\ schema \subseteq [id : SchemaIds, name : SchemaNames, active : BOOLEAN]
    /\ \A s, t \in schema : s # t => s.id # t.id /\ s.name # t.name
    /\ wanted \in SchemaRows \cup {NoSchema} /\ crossed \in BOOLEAN
    /\ \A r \in SchemaRequests : edit[r].flag \in {"keep", "on", "off"} /\ edit[r].off \subseteq edit[r].was

SchemasInit ==
    /\ schema = {} /\ wanted = NoSchema /\ crossed = FALSE
    /\ edit = [r \in SchemaRequests |-> NoEdit]

(* Mutant of _deactivate_all: the schemas that are active stay so.           *)
LeaveActive == {}

_deactivate_all == ActiveIds

OpenEdit(r, kind, id, name, flag) ==
    /\ edit[r] = NoEdit
    /\ edit' = [edit EXCEPT ![r] = [kind |-> kind, id |-> id, name |-> name, flag |-> flag,
                                    off |-> IF flag = "on" THEN _deactivate_all ELSE {}, was |-> ActiveIds]]
    /\ crossed' = (crossed \/ \E q \in SchemaRequests \ {r} : edit[q] # NoEdit)
    /\ UNCHANGED <<schema, wanted>>

create_schema(r, id, name, flag) ==
    /\ id \notin SchemaRows /\ \A q \in SchemaRequests : edit[q].id # id
    /\ OpenEdit(r, "create", id, name, flag)

(* The caller's own schema or 404. *)
_get_schema(id) == id \in SchemaRows

update_schema(r, id, name, flag) == _get_schema(id) /\ OpenEdit(r, "update", id, name, flag)

delete_schema(r, id) == _get_schema(id) /\ OpenEdit(r, "delete", id, NoSchema, "keep")

(* An UPDATE sets the columns whose value is not the one read.               *)
Updated(e, s) ==
    LET mine == s.id = e.id
        flag == IF mine /\ e.flag # "keep" THEN e.flag = "on" ELSE s.id \in e.was \ e.off
    IN  [s EXCEPT !.active = IF flag = (s.id \in e.was) THEN @ ELSE flag,
                  !.name = IF mine /\ e.name # NoSchema THEN e.name ELSE @]

After(e) ==
    CASE e.kind = "create" -> {Updated(e, s) : s \in schema}
                                 \cup {[id |-> e.id, name |-> e.name, active |-> e.flag = "on"]}
      [] e.kind = "update" -> {Updated(e, s) : s \in schema}
      [] e.kind = "delete" -> {s \in schema : s.id # e.id}

(* Refused: the name is another's (uq_compilationschema_user_name), or a row *)
(* to update is gone.                                                        *)
Refused(e) ==
    \/ e.kind # "delete" /\ \E s \in schema : s.id # e.id /\ s.name = e.name
    \/ ~(e.off \subseteq SchemaRows)
    \/ e.kind = "update" /\ e.id \notin SchemaRows

CommitEdit(r) ==
    LET e == edit[r]
    IN  /\ e # NoEdit /\ edit' = [edit EXCEPT ![r] = NoEdit]
        /\ \/ Refused(e) /\ UNCHANGED <<schema, wanted>>
           \/ /\ ~Refused(e)
              /\ schema' = After(e)
              /\ wanted' = CASE e.flag = "on" -> e.id
                             [] e.flag # "on" /\ e.id = wanted /\ (e.flag = "off" \/ e.kind = "delete") -> NoSchema
                             [] OTHER -> wanted
        /\ UNCHANGED crossed

SchemasNext ==
    \E r \in SchemaRequests :
        \/ CommitEdit(r)
        \/ \E id \in SchemaIds, flag \in {"keep", "on", "off"} :
              \/ flag # "keep" /\ \E name \in SchemaNames : create_schema(r, id, name, flag)
              \/ \E name \in SchemaNames \cup {NoSchema} : update_schema(r, id, name, flag)
        \/ \E id \in SchemaIds : delete_schema(r, id)

(* The compiler's query for the active schema: it fails on two of them.     *)
active_schema == IF ActiveIds = {} THEN NoSchema
                 ELSE IF Cardinality(ActiveIds) = 1 THEN CHOOSE i \in ActiveIds : TRUE ELSE "MultipleResultsFound"

----------------------------------------------------------------------------
(* CompilationSchema: "Only one schema per user can be active at a time".    *)
(* While no two requests were open at once, a compilation finds the schema   *)
(* activated last, unless that was switched off or deleted since, and never  *)
(* fails on two.                                                             *)
SchemaObeyed == ~crossed => active_schema = wanted
=============================================================================
