------------------------------ MODULE Accounts ------------------------------
(***************************************************************************)
(* Deleting an account: UserService.delete_account and the route before    *)
(* it. The database is the set of tables in which the user has a row; a    *)
(* table refers to the ones its foreign keys name. Postgres refuses to     *)
(* delete a row another one refers to, SQLite is opened without foreign    *)
(* keys. A row that refers to another only sometimes is a table of its     *)
(* own: a conversation filed as an article, a report of a job.             *)
(***************************************************************************)
EXTENDS Naturals, Sequences, FiniteSets, FiniteSetsExt, SequencesExt

CONSTANTS MaxTables,        \* bound on tables with rows
          BillingEnabled    \* settings.billing_enabled

ASSUME AccountsAssumption == MaxTables \in Nat /\ BillingEnabled \in BOOLEAN

VARIABLES rows,        \* tables with a row of the user
          enforced,    \* the database checks foreign keys
          outcome      \* of the last deletion

accountVars == <<rows, enforced, outcome>>

(* models/tables: the foreign keys besides user.id, which all but the last   *)
(* group have.                                                               *)
ForeignKeys ==
    [Article |-> {}, Source |-> {}, Concept |-> {}, Conversation |-> {}, FiledConversation |-> {"Article"}, Job |-> {},
     LintReport |-> {}, JobReport |-> {"Job"}, CostLog |-> {}, SyncLog |-> {}, UserApiKey |-> {}, UserPreference |-> {},
     ArticleConcept |-> {"Article"}, ArticleSource |-> {"Article", "Source"}, Backlink |-> {"Article"},
     ContradictionFinding |-> {"Article", "LintReport"}, OrphanFinding |-> {"Article", "LintReport"},
     StructuralFinding |-> {"Article", "LintReport"}, Query |-> {"Conversation"},
     CompiledClaim |-> {"Article"}, CompilationDraft |-> {"Source"}, ConceptCluster |-> {}, Contradiction |-> {"Article"},
     ReinforcementEvent |-> {"Article"}, DiscussionMessage |-> {"Article"}, ShareLink |-> {"Article"}, SavedSearch |-> {},
     Tag |-> {}, ArticleTag |-> {"Article", "Tag"}, CompilationSchema |-> {}, MCPAccessToken |-> {},
     OAuthAccessToken |-> {}, OAuthAuthorizationCode |-> {}, CaptureSource |-> {}, AmbientAdapterSetting |-> {},
     RssFeed |-> {}, LLMTrace |-> {},
     SourceSpan |-> {"Source"}, SourceImage |-> {"Source"},
     Subscription |-> {}, StorageUsage |-> {}, QueryCount |-> {}]

Tables == DOMAIN ForeignKeys
NoUserKey == {"Subscription", "StorageUsage", "QueryCount"}     \* no foreign key to user
Cascading == {"SourceSpan", "SourceImage"}                      \* ON DELETE CASCADE

(* Mutant of DeletionOrder: articles go first. *)
ArticlesFirst ==
    <<"Article", "ArticleConcept", "ArticleSource", "ContradictionFinding", "OrphanFinding", "StructuralFinding", "Query",
      "Backlink", "Source", "Concept", "Conversation", "FiledConversation", "Job", "CostLog", "SyncLog",
      "LintReport", "JobReport", "UserApiKey", "UserPreference">>

(* The tables delete_account empties, in its order; conversations and        *)
(* reports go by one statement each.                                         *)
DeletionOrder ==
    <<"ArticleConcept", "ArticleSource", "ContradictionFinding", "OrphanFinding", "StructuralFinding", "Query",
      "Backlink", "Article", "Source", "Concept", "Conversation", "FiledConversation", "Job", "CostLog", "SyncLog",
      "LintReport", "JobReport", "UserApiKey", "UserPreference">>

AccountsTypeOK ==
    /\ rows \subseteq Tables \cup {"User"}
    /\ outcome \in {"none", "deleted", "refused"}
    /\ enforced /\ "User" \notin rows => rows \subseteq NoUserKey

AccountsInit == rows = {"User"} /\ enforced \in BOOLEAN /\ outcome = "none"

----------------------------------------------------------------------------
(* Somewhere in the program a row is inserted: the rows it refers to exist. *)
Insert(t) ==
    /\ "User" \in rows /\ Cardinality(rows) <= MaxTables
    /\ ForeignKeys[t] \subseteq rows
    /\ rows' = rows \cup {t}
    /\ outcome' = "none" /\ UNCHANGED enforced

(* One DELETE, on the tables left or "refused": what refers to the table     *)
(* must be gone, or go with it.                                              *)
Referrers(S, t) == {c \in S \ {"User"} : t \in ForeignKeys[c]}
DeleteRows(S, t) ==
    IF S = {"refused"} \/ t \notin S THEN S
    ELSE IF enforced /\ ~(Referrers(S, t) \subseteq Cascading) THEN {"refused"}
    ELSE IF enforced THEN S \ ({t} \cup Referrers(S, t))
    ELSE S \ {t}

(* The route's own part: the subscription is cancelled, if that works, and   *)
(* the billing rows go. Without billing they stay.                           *)
BillingRows == IF BillingEnabled THEN NoUserKey ELSE {}

(* delete_account: all or nothing. *)
delete_account ==
    /\ "User" \in rows
    /\ LET left == FoldLeft(DeleteRows, rows \ BillingRows, DeletionOrder)
           ok == left # {"refused"} /\ (enforced => left \ {"User"} \subseteq NoUserKey)
       IN /\ rows' = IF ok THEN left \ {"User"} ELSE rows
          /\ outcome' = IF ok THEN "deleted" ELSE "refused"
    /\ UNCHANGED enforced

AccountsNext == delete_account \/ \E t \in Tables : Insert(t)

----------------------------------------------------------------------------
(* What the code deletes; the two kinds of rows its order does not allow for *)
(* are left out.                                                             *)
Deletable == (Range(DeletionOrder) \ {"FiledConversation", "JobReport"}) \cup NoUserKey \cup Cascading \cup {"User"}

(* An account that has rows only in tables delete_account knows is deleted,  *)
(* and nothing of it is left but, without billing, the billing rows, and,    *)
(* without foreign keys, what only a cascade would remove.                   *)
DeletionIsWhole ==
    [][/\ outcome' = "refused" => ~(rows \subseteq Deletable)
       /\ outcome' = "deleted" =>
             rows' \subseteq (NoUserKey \ BillingRows) \cup (IF enforced THEN {} ELSE Cascading \cup (Tables \ Deletable))
      ]_accountVars
=============================================================================
