------------------------------ MODULE Sharing ------------------------------
(***************************************************************************)
(* Public links to articles: services/sharing.py, api/routes/sharing.py    *)
(* and the quota on active links (services/quota.py). A request is one     *)
(* transaction that commits at its end (database.get_session); the link is *)
(* read before the article and its file, and the view is saved after.      *)
(***************************************************************************)
EXTENDS Naturals, FiniteSets, FiniteSetsExt

CONSTANTS Creates,      \* requests for a link
          Views,        \* requests of a public page
          MaxActive,    \* the plan's limit on active links, 0 for none
          MaxLinks,     \* bound on links
          MaxViews,     \* bound on views of a link
          Horizon       \* bound on the clock

ASSUME SharingAssumption == /\ {MaxActive, MaxLinks, MaxViews, Horizon} \subseteq Nat
                            /\ "nobody" \notin Creates

VARIABLES share,        \* ShareLink rows of one user, by number
          create,       \* requests for a link in progress
          lock,         \* the advisory lock "<user>:share"
          view,         \* views in progress: the row they read
          hour,
          served,       \* history: pages served for each link
          crossed       \* history: links two views of which overlapped

shareVars == <<share, create, lock, view, hour, served, crossed>>

Links == 1 .. MaxLinks
Nobody == "nobody"
Waiting == [pc |-> "idle"]

SharingTypeOK ==
    /\ DOMAIN share \subseteq Links
    /\ \A l \in DOMAIN share : share[l].views \in Nat /\ share[l].revoked \in BOOLEAN
    /\ lock \in Creates \cup {Nobody}
    /\ create \in [Creates -> {"idle", "checked", "done", "refused"}]
    /\ lock # Nobody => create[lock] = "checked"

SharingInit ==
    /\ share = <<>> /\ lock = Nobody /\ hour = 0
    /\ create = [r \in Creates |-> "idle"]
    /\ view = [v \in Views |-> Waiting]
    /\ served = [l \in Links |-> 0] /\ crossed = {}

----------------------------------------------------------------------------
Active == {l \in DOMAIN share : ~share[l].revoked}

(* Mutant of check_share_quota: no lock is taken. *)
CountUnlocked(r) ==
    /\ create[r] = "idle"
    /\ create' = [create EXCEPT ![r] = IF MaxActive > 0 /\ Cardinality(Active) >= MaxActive THEN "refused" ELSE "checked"]
    /\ UNCHANGED <<share, lock, view, hour, served, crossed>>

(* check_share_quota: with the lock, which the transaction keeps; without a  *)
(* limit there is no lock. Expired links count as active.                    *)
check_share_quota(r) ==
    /\ create[r] = "idle" /\ lock = Nobody
    /\ LET over == MaxActive > 0 /\ Cardinality(Active) >= MaxActive IN
       /\ create' = [create EXCEPT ![r] = IF over THEN "refused" ELSE "checked"]
       /\ lock' = IF over \/ MaxActive = 0 THEN Nobody ELSE r
    /\ UNCHANGED <<share, view, hour, served, crossed>>

(* create_share_link and the commit at the end of the request, which frees   *)
(* the lock.                                                                 *)
create_share_link(r, hours) ==
    /\ create[r] = "checked" /\ Cardinality(DOMAIN share) < MaxLinks
    /\ share' = [l \in DOMAIN share \cup {Cardinality(DOMAIN share) + 1} |->
                    IF l \in DOMAIN share THEN share[l]
                    ELSE [views |-> 0, revoked |-> FALSE, expires |-> hour + hours]]
    /\ create' = [create EXCEPT ![r] = "done"]
    /\ lock' = Nobody
    /\ UNCHANGED <<view, hour, served, crossed>>

(* The request fails after the check: its transaction is rolled back. *)
AbandonCreate(r) ==
    /\ create[r] = "checked"
    /\ create' = [create EXCEPT ![r] = "refused"]
    /\ lock' = Nobody
    /\ UNCHANGED <<share, view, hour, served, crossed>>

revoke_share_link(l) ==
    /\ l \in Active
    /\ share' = [share EXCEPT ![l].revoked = TRUE]
    /\ UNCHANGED <<create, lock, view, hour, served, crossed>>

(* get_public_article reads the link: not one that was revoked or expired. *)
get_public_article(v, l) ==
    /\ view[v].pc = "idle" /\ served[l] < MaxViews
    /\ l \in DOMAIN share /\ ~share[l].revoked /\ hour <= share[l].expires
    /\ view' = [view EXCEPT ![v] = [pc |-> "render", link |-> l, row |-> share[l]]]
    /\ crossed' = IF \E w \in Views : view[w].pc = "render" /\ view[w].link = l THEN crossed \cup {l} ELSE crossed
    /\ UNCHANGED <<share, create, lock, hour, served>>

(* The columns a view changes: the count it read, plus one. *)
SavedView(v) == [share[view[v].link] EXCEPT !.views = view[v].row.views + 1]

ServeView(v) ==
    /\ view[v].pc = "render"
    /\ share' = [share EXCEPT ![view[v].link] = SavedView(v)]
    /\ served' = [served EXCEPT ![view[v].link] = @ + 1]
    /\ view' = [view EXCEPT ![v] = Waiting]
    /\ UNCHANGED <<create, lock, hour, crossed>>

(* The article is gone, or its file cannot be read: nothing is saved. *)
FailView(v) ==
    /\ view[v].pc = "render"
    /\ view' = [view EXCEPT ![v] = Waiting]
    /\ UNCHANGED <<share, create, lock, hour, served, crossed>>

HourPasses ==
    /\ hour < Horizon /\ hour' = hour + 1
    /\ UNCHANGED <<share, create, lock, view, served, crossed>>

SharingNext ==
    \/ \E r \in Creates :
          \/ check_share_quota(r) \/ AbandonCreate(r)
          \/ \E hours \in 0 .. Horizon : create_share_link(r, hours)
    \/ \E l \in Links : revoke_share_link(l) \/ \E v \in Views : get_public_article(v, l)
    \/ \E v \in Views : ServeView(v) \/ FailView(v)
    \/ HourPasses

----------------------------------------------------------------------------
(* The user never has more active links than the plan allows, however many   *)
(* are asked for at once.                                                    *)
SharesWithinPlan == MaxActive > 0 => Cardinality(Active) <= MaxActive

(* A link's count is the number of pages served, unless views of it          *)
(* overlapped; then it may be too low, never too high.                       *)
ViewsCounted ==
    \A l \in DOMAIN share :
        /\ share[l].views <= served[l]
        /\ l \notin crossed => share[l].views = served[l]
=============================================================================
