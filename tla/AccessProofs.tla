---------------------------- MODULE AccessProofs ----------------------------
(***************************************************************************)
(* Theorems of MCAccess: public links, tokens, logins, stored keys, the     *)
(* administrator's counts and retries, the deletion of accounts and the     *)
(* readers' views, for every number of requests, users, clients,            *)
(* identities, sources, links, articles, words and tags.                    *)
(***************************************************************************)
EXTENDS MCAccess, DataLemmas

-----------------------------------------------------------------------------
(* Public links *)

ShareRow == [views : Nat, revoked : BOOLEAN, expires : Nat]
ViewState == {Waiting} \cup [pc : {"render"}, link : Links, row : ShareRow]

(* Links are numbered without gaps; with a limit, the request that may add a *)
(* link is the one that holds the lock, and there is room for it.            *)
LinksCounted ==
    /\ \E n \in 0 .. MaxLinks : DOMAIN share = 1 .. n
    /\ MaxActive > 0 => \A r \in Creates : create[r] = "checked" => lock = r
    /\ lock # Nobody => create[lock] = "checked" /\ Cardinality(Active) < MaxActive

(* A view under way has read a count that is no higher than the pages served; *)
(* alone, it is the count.                                                    *)
ViewsRead ==
    /\ \A l \in Links \ DOMAIN share : served[l] = 0
    /\ \A v \in Views : view[v].pc = "render" =>
          LET l == view[v].link IN
          /\ l \in DOMAIN share /\ view[v].row.views <= served[l]
          /\ l \notin crossed =>
                /\ view[v].row.views = share[l].views
                /\ \A w \in Views : view[w].pc = "render" /\ view[w].link = l => w = v

ShareInv ==
    /\ share \in [DOMAIN share -> ShareRow] /\ DOMAIN share \subseteq Links
    /\ lock \in Creates \cup {Nobody} /\ hour \in Nat
    /\ create \in [Creates -> {"idle", "checked", "done", "refused"}]
    /\ view \in [Views -> ViewState] /\ served \in [Links -> Nat]
    /\ LinksCounted /\ SharesWithinPlan /\ ViewsRead /\ ViewsCounted

-----------------------------------------------------------------------------
(* Tokens *)

TokenRow == [id : 1 .. MaxTokens, kind : {"oauth", "pat"}, user : Owners,
             client : Clients \cup Owners, req : Requests \cup {"none"}, at : Nat,
             expires : Nat, revoked : BOOLEAN]
CodeRow == [user : Owners, client : Clients, challenge : Clients, expires : Nat,
            used : BOOLEAN]
ExchangeState == {None} \cup [pc : {"issue"}, req : Requests, client : Clients]

(* A request is pending or decided, and what is known of it is what its      *)
(* client asked and its user approved.                                       *)
RequestsKept ==
    /\ DOMAIN pending \subseteq Requests \cap DOMAIN asked
    /\ DOMAIN code \subseteq Requests \cap DOMAIN asked \cap DOMAIN approved
    /\ DOMAIN pending \cap DOMAIN code = {}
    /\ \A r \in DOMAIN pending :
          /\ pending[r].client \in Clients /\ pending[r].challenge \in Clients
          /\ pending[r].client = asked[r] /\ pending[r].at \in 0 .. time
    /\ \A r \in DOMAIN code : code[r].client = asked[r] /\ code[r].user = approved[r].user

(* Tokens are numbered without gaps; one of a request is of its code, which  *)
(* is used up.                                                               *)
TokensNumbered ==
    /\ IsFiniteSet(token) /\ token \subseteq TokenRow
    /\ \A t, s \in token : t.id = s.id => t = s
    /\ \A t \in token : t.id <= Cardinality(token)
    /\ \A t \in token : t.req # "none" => t.req \in DOMAIN code /\ code[t.req].used
    /\ \A t \in token : t.kind = "oauth" => t.req # "none"

(* An exchange under way holds the code of its client; unless another held   *)
(* it at the same time, it is the only one, and has no token yet.            *)
ExchangesHold ==
    \A x \in Exchanges : exchange[x].pc = "issue" =>
        LET r == exchange[x].req IN
        /\ r \in DOMAIN code /\ exchange[x].client = asked[r]
        /\ r \notin raced =>
              /\ \A t \in token : t.req # r
              /\ \A y \in Exchanges : exchange[y].pc = "issue" /\ exchange[y].req = r => y = x

(* CodeOnce, without counting. *)
OneToken == \A t, s \in token : t.req = s.req /\ t.req \notin raced \cup {"none"} => t = s

TokenInv ==
    /\ time \in Nat /\ code \in [DOMAIN code -> CodeRow]
    /\ exchange \in [Exchanges -> ExchangeState]
    /\ RequestsKept /\ TokensNumbered /\ ExchangesHold /\ TokenFromConsent /\ OneToken

-----------------------------------------------------------------------------
(* Logins *)

(* The address a new account of i gets. *)
AddressOf(i) == IF mail[i] = NoEmail THEN <<"noemail", i>> ELSE mail[i]

IsOf(u, i) == u.provider = i.provider /\ u.pid = i.pid

(* A new row, not numbered yet. *)
Fresh(row) ==
    row = [id |-> NoUser, provider |-> row.provider, pid |-> row.pid, email |-> row.email]

(* What a login holds between its lookup and its commit: a new row is of the *)
(* identity that signs in, under its address; a row found is the identity's, *)
(* or carries its address. It ends with such a row.                          *)
NewOK(who, row) ==
    IF who \in Identities
    THEN IsOf(row, who) /\ (who \notin moved => row.email = AddressOf(who))
    ELSE row.provider = "magic_link"

RowOK(who, row) ==
    who \in Identities \ moved => IsOf(row, who) \/ row.email = mail[who]

AttemptsOK ==
    /\ attempt = [a \in Attempts |-> attempt[a]]
    /\ \A a \in Attempts : attempt[a].pc = "save" =>
          /\ RowOK(attempt[a].who, attempt[a].row)
          /\ attempt[a].row.id = NoUser =>
                Fresh(attempt[a].row) /\ NewOK(attempt[a].who, attempt[a].row)
    /\ \A a \in Attempts : attempt[a].pc = "done" => RowOK(attempt[a].who, attempt[a].user)

(* The account of an identity that never changed its address carries it. *)
AddressesKept == \A u \in user, i \in Identities \ moved : IsOf(u, i) => u.email = AddressOf(i)

LoginInv ==
    /\ LoginsTypeOK /\ made \in Nat /\ mail \in [Identities -> Emails \cup {NoEmail}]
    /\ AttemptsOK /\ AddressesKept

-----------------------------------------------------------------------------
(* Keys *)

(* A stored key can be read with the secret it was stored under, and is the  *)
(* one its request was told of.                                              *)
KeyInv ==
    /\ ApiKeysTypeOK
    /\ latest \in [Slots -> Puts \cup {NoRow}]
    /\ \A k \in Slots :
          IF k \in DOMAIN keyRow
          THEN keyRow[k].cipher.salt = keyRow[k].salt /\ keyRow[k].cipher.key = latest[k]
          ELSE latest[k] = NoRow
    /\ \A r \in Puts : put[r].pc = "write" =>
          /\ put[r].slot \in Slots
          /\ put[r].new.cipher.salt = put[r].new.salt /\ put[r].new.cipher.key = r

(* The administrator's rows: numbered without gaps, and what is queued is of *)
(* a row that has a file.                                                    *)
ItemRow == [id : Nat, owner : People, status : Statuses, at : Nat, file : BOOLEAN,
            by : People, page : People \cup {Nobody1}]
ItemInv ==
    /\ items \subseteq ItemRow /\ IsFiniteSet(items) /\ minute \in Nat
    /\ queued \subseteq [source : Nat, user : People]
    /\ \A s \in items : s.id <= Cardinality(items)
    /\ AdminTypeOK /\ RetryRuns

-----------------------------------------------------------------------------
(* The readers' views *)

(* Pages: numbered and, for each user, named apart; sources are their        *)
(* owner's.                                                                  *)
PageRow(p) ==
    /\ p = [id |-> p.id, owner |-> p.owner, title |-> p.title, slug |-> p.slug, kind |-> p.kind,
            topics |-> p.topics, words |-> p.words, sources |-> p.sources]
    /\ p.id \in Ids /\ p.owner \in Readers
    /\ IsFiniteSet(p.sources) /\ \A s \in p.sources : s.owner = p.owner
PagesOK ==
    /\ \A p \in page : PageRow(p)
    /\ \A p, q \in page : p.id = q.id => p = q
    /\ \A p, q \in page : p.owner = q.owner /\ p.slug = q.slug => p = q

(* Links, tags, index and vectors lead to rows of one user. *)
LinksOK == \A l \in link : \E p, q \in page : l.from = p.id /\ l.to = q.id /\ p.owner = l.owner /\ q.owner = l.owner
TagsOK ==
    /\ IsFiniteSet(tag) /\ \A t \in tag : t.id \in Nat
    /\ \A t, s \in tag : t.id = s.id => t = s
    /\ \A t, s \in tag : t.owner = s.owner /\ t.name = s.name => t = s
TaggedOK ==
    /\ IsFiniteSet(tagged)
    /\ \A x \in tagged : /\ x = [page |-> x.page, tag |-> x.tag]
                         /\ \E p \in page, t \in tag : x.page = p.id /\ x.tag = t.id /\ t.owner = p.owner
IndexOK ==
    /\ \A f \in fts : \E p \in page : f.id = p.id
    /\ \A f, g \in fts : f.id = g.id => f = g
    /\ \A p \in page : p.id \notin unindexed => Index(p) \in fts
VectorsOK ==
    /\ IsFiniteSet(vec) /\ \A v \in vec : v.id \in Nat
    /\ \A v \in vec, p \in page : p.id = v.id => p.owner = v.owner

LibInv == PagesOK /\ LinksOK /\ TagsOK /\ TaggedOK /\ IndexOK /\ VectorsOK

-----------------------------------------------------------------------------
(* Public links: the proofs *)

(* Without links there is nothing to count. *)
LEMMA InitShare == SharingInit => ShareInv
<1> SUFFICES ASSUME SharingInit
             PROVE  ShareInv
  OBVIOUS
<1>1. DOMAIN share = {} /\ DOMAIN share = 1 .. 0
  BY DEF SharingInit
<1>2. share \in [DOMAIN share -> ShareRow]
  BY <1>1 DEF SharingInit
<1>3. Active = {} /\ Cardinality(Active) = 0
  BY <1>1, FS_EmptySet DEF Active
<1>4. LinksCounted /\ SharesWithinPlan
  BY <1>1, <1>3, SharingAssumption DEF LinksCounted, SharesWithinPlan, SharingInit
<1>5. ViewsRead /\ ViewsCounted
  BY <1>1 DEF ViewsRead, ViewsCounted, SharingInit, Waiting
<1>6. QED
  BY <1>1, <1>2, <1>4, <1>5 DEF ShareInv, SharingInit, ViewState

(* There are finitely many links, so that active ones can be counted. *)
LEMMA ActiveFinite ==
  ASSUME ShareInv
  PROVE  IsFiniteSet(Active) /\ Cardinality(Active) \in Nat
<1>1. PICK n \in 0 .. MaxLinks : DOMAIN share = 1 .. n
  BY DEF ShareInv, LinksCounted
<1>2. IsFiniteSet(1 .. n)
  BY FS_Interval
<1>3. Active \subseteq 1 .. n
  BY <1>1 DEF Active
<1>4. QED
  BY <1>2, <1>3, FS_Subset, FS_CardinalityType

(* A request asks for a link, or gives up. *)
LEMMA CreateKeepsShares ==
  ASSUME ShareInv, NEW r \in Creates, check_share_quota(r) \/ AbandonCreate(r)
  PROVE  ShareInv'
<1>1. UNCHANGED <<share, view, hour, served, crossed>>
  BY DEF check_share_quota, AbandonCreate
<1>2. /\ lock' \in Creates \cup {Nobody}
      /\ create' \in [Creates -> {"idle", "checked", "done", "refused"}]
  BY DEF check_share_quota, AbandonCreate, ShareInv
<1>3. LinksCounted'
  <2>1. Active' = Active
    BY <1>1 DEF Active
  <2>2. CASE check_share_quota(r)
    BY <1>1, <2>1, <2>2, ActiveFinite, SharingAssumption
       DEF check_share_quota, ShareInv, LinksCounted, Nobody
  <2>3. CASE AbandonCreate(r)
    BY <1>1, <2>1, <2>3, SharingAssumption DEF AbandonCreate, ShareInv, LinksCounted, Nobody
  <2>4. QED
    BY <2>2, <2>3
<1>4. SharesWithinPlan' /\ ViewsRead' /\ ViewsCounted'
  BY <1>1 DEF ShareInv, SharesWithinPlan, Active, ViewsRead, ViewsCounted
<1>5. QED
  BY <1>1, <1>2, <1>3, <1>4 DEF ShareInv

(* A link is added by the holder of the lock, for which there is room. *)
LEMMA AddKeepsShares ==
  ASSUME ShareInv, NEW r \in Creates, NEW hours \in 0 .. Horizon, create_share_link(r, hours)
  PROVE  ShareInv'
<1> DEFINE new == [views |-> 0, revoked |-> FALSE, expires |-> hour + hours]
<1>1. PICK n \in 0 .. MaxLinks : DOMAIN share = 1 .. n
  BY DEF ShareInv, LinksCounted
<1>2. Cardinality(DOMAIN share) = n
  <2>1. n \in Nat
    BY SharingAssumption
  <2>2. Cardinality(1 .. n) = IF 1 > n THEN 0 ELSE n - 1 + 1
    BY <2>1, FS_Interval
  <2>3. QED
    BY <1>1, <2>1, <2>2
<1>3. n < MaxLinks
  BY <1>2 DEF create_share_link
<1>4. /\ DOMAIN share' = 1 .. (n + 1) /\ share'[n + 1] = new
      /\ \A l \in DOMAIN share : share'[l] = share[l]
      /\ share' \in [DOMAIN share' -> ShareRow]
  <2>1. share' = [l \in DOMAIN share \cup {n + 1} |-> IF l \in DOMAIN share THEN share[l] ELSE new]
    BY <1>2 DEF create_share_link
  <2>2. DOMAIN share \cup {n + 1} = 1 .. (n + 1) /\ n + 1 \notin DOMAIN share
    BY <1>1
  <2>3. new \in ShareRow
    BY SharingAssumption DEF ShareRow, ShareInv
  <2> HIDE DEF new
  <2>4. QED
    BY <2>1, <2>2, <2>3 DEF ShareInv
<1>5. /\ create[r] = "checked" /\ create' = [create EXCEPT ![r] = "done"] /\ lock' = Nobody
      /\ UNCHANGED <<view, hour, served, crossed>>
  BY DEF create_share_link
<1>6. Active' = Active \cup {n + 1} /\ n + 1 \notin Active
  BY <1>1, <1>4 DEF Active
<1>7. Cardinality(Active') = Cardinality(Active) + 1
  BY <1>6, ActiveFinite, FS_AddElement
<1>8. MaxActive > 0 => Cardinality(Active) < MaxActive
  BY <1>5, SharingAssumption DEF ShareInv, LinksCounted, Nobody
<1>9. LinksCounted'
  <2>1. n + 1 \in 0 .. MaxLinks
    BY <1>1, <1>3, SharingAssumption
  <2>2. MaxActive > 0 => \A q \in Creates : create'[q] # "checked"
    BY <1>5 DEF ShareInv, LinksCounted
  <2>3. QED
    BY <1>4, <1>5, <2>1, <2>2 DEF LinksCounted
<1>10. SharesWithinPlan'
  BY <1>7, <1>8, ActiveFinite, SharingAssumption DEF SharesWithinPlan
<1>11. served[n + 1] = 0 /\ n + 1 \in Links
  BY <1>1, <1>3, SharingAssumption DEF Links, ShareInv, ViewsRead
<1>12. ViewsRead'
  <2>1. \A l \in Links \ DOMAIN share' : served[l] = 0
    BY <1>1, <1>4 DEF ShareInv, ViewsRead
  <2>2. DOMAIN share \subseteq DOMAIN share'
    BY <1>1, <1>4
  <2>3. QED
    BY <1>4, <1>5, <2>1, <2>2 DEF ShareInv, ViewsRead
<1>13. ViewsCounted'
  <2> SUFFICES ASSUME NEW l \in DOMAIN share'
               PROVE  /\ share'[l].views <= served[l]
                      /\ l \notin crossed => share'[l].views = served[l]
    BY <1>5 DEF ViewsCounted
  <2>1. CASE l \in DOMAIN share
    BY <1>4, <2>1 DEF ShareInv, ViewsCounted
  <2>2. CASE l = n + 1
    BY <1>4, <1>11, <2>2
  <2>3. QED
    BY <1>1, <1>4, <2>1, <2>2
<1>14. DOMAIN share' \subseteq Links /\ lock' \in Creates \cup {Nobody}
       /\ create' \in [Creates -> {"idle", "checked", "done", "refused"}]
  BY <1>1, <1>3, <1>4, <1>5, SharingAssumption DEF ShareInv, Links
<1>15. QED
  BY <1>4, <1>5, <1>9, <1>10, <1>12, <1>13, <1>14 DEF ShareInv

(* Revoking a link makes room. *)
LEMMA RevokeKeepsShares ==
  ASSUME ShareInv, NEW l \in Links, revoke_share_link(l)
  PROVE  ShareInv'
<1>1. /\ l \in DOMAIN share /\ share' = [share EXCEPT ![l].revoked = TRUE]
      /\ UNCHANGED <<create, lock, view, hour, served, crossed>>
  BY DEF revoke_share_link, Active
<1>2. /\ DOMAIN share' = DOMAIN share /\ share' \in [DOMAIN share' -> ShareRow]
      /\ \A k \in DOMAIN share : /\ share'[k].views = share[k].views
                                 /\ share[k].revoked => share'[k].revoked
  BY <1>1 DEF ShareInv, ShareRow
<1>3. Active' \subseteq Active
  BY <1>2 DEF Active
<1>4. Cardinality(Active') <= Cardinality(Active) /\ Cardinality(Active') \in Nat
  BY <1>3, ActiveFinite, FS_Subset, FS_CardinalityType
<1>5. LinksCounted' /\ SharesWithinPlan'
  BY <1>1, <1>2, <1>4, ActiveFinite, SharingAssumption DEF ShareInv, LinksCounted, SharesWithinPlan
<1>6. ViewsRead' /\ ViewsCounted'
  BY <1>1, <1>2 DEF ShareInv, ViewsRead, ViewsCounted
<1>7. QED
  BY <1>1, <1>2, <1>5, <1>6 DEF ShareInv

(* A view reads the row; a second one of the same link makes it crossed. *)
LEMMA ReadKeepsShares ==
  ASSUME ShareInv, NEW v \in Views, NEW l \in Links, get_public_article(v, l)
  PROVE  ShareInv'
<1>1. /\ view[v].pc = "idle" /\ l \in DOMAIN share
      /\ view' = [view EXCEPT ![v] = [pc |-> "render", link |-> l, row |-> share[l]]]
      /\ crossed' = IF \E w \in Views : view[w].pc = "render" /\ view[w].link = l
                    THEN crossed \cup {l} ELSE crossed
      /\ UNCHANGED <<share, create, lock, hour, served>>
  BY DEF get_public_article
<1>2. /\ view' \in [Views -> ViewState]
      /\ view'[v] = [pc |-> "render", link |-> l, row |-> share[l]]
      /\ \A w \in Views \ {v} : view'[w] = view[w]
  <2>1. share[l] \in ShareRow
    BY <1>1 DEF ShareInv
  <2>2. [pc |-> "render", link |-> l, row |-> share[l]] \in ViewState
    BY <2>1 DEF ViewState
  <2>3. QED
    BY <1>1, <2>2 DEF ShareInv
<1>3. ViewsRead'
  <2> SUFFICES ASSUME NEW w \in Views, view'[w].pc = "render"
               PROVE  LET k == view'[w].link IN
                      /\ k \in DOMAIN share /\ view'[w].row.views <= served[k]
                      /\ k \notin crossed' =>
                            /\ view'[w].row.views = share[k].views
                            /\ \A u \in Views : view'[u].pc = "render" /\ view'[u].link = k => u = w
    BY <1>1 DEF ShareInv, ViewsRead
  <2>1. CASE w = v
    BY <1>1, <1>2, <2>1 DEF ShareInv, ViewsCounted
  <2>2. CASE w # v
    <3>1. view'[w] = view[w] /\ view[w].pc = "render"
      BY <1>2, <2>2
    <3>2. QED
      BY <1>1, <1>2, <2>2, <3>1 DEF ShareInv, ViewsRead
  <2>3. QED
    BY <2>1, <2>2
<1>4. LinksCounted' /\ SharesWithinPlan' /\ ViewsCounted'
  BY <1>1 DEF ShareInv, LinksCounted, SharesWithinPlan, ViewsCounted, Active
<1>5. QED
  BY <1>1, <1>2, <1>3, <1>4 DEF ShareInv

(* A view is saved or fails; the count is the one it read, plus one, in the     *)
(* row as it is now.                                                            *)
LEMMA ServeKeepsShares ==
  ASSUME ShareInv, NEW v \in Views, ServeView(v) \/ FailView(v)
  PROVE  ShareInv'
<1>1. view[v].pc = "render" /\ view' = [view EXCEPT ![v] = Waiting]
      /\ UNCHANGED <<create, lock, hour, crossed>>
  BY DEF ServeView, FailView
<1>2. /\ view' \in [Views -> ViewState] /\ view'[v].pc # "render"
      /\ \A w \in Views \ {v} : view'[w] = view[w]
  BY <1>1 DEF ShareInv, ViewState, Waiting
<1>3. CASE FailView(v)
  <2>1. share' = share /\ served' = served
    BY <1>3 DEF FailView
  <2>2. ViewsRead'
    BY <1>1, <1>2, <2>1 DEF ShareInv, ViewsRead
  <2>3. LinksCounted' /\ SharesWithinPlan' /\ ViewsCounted'
    BY <1>1, <2>1 DEF ShareInv, LinksCounted, SharesWithinPlan, ViewsCounted, Active
  <2>4. QED
    BY <1>1, <1>2, <2>1, <2>2, <2>3 DEF ShareInv
<1>4. CASE ServeView(v)
  <2>1. PICK l \in Links : /\ l = view[v].link /\ l \in DOMAIN share
                           /\ view[v].row.views <= served[l] /\ view[v].row.views \in Nat
    BY <1>1 DEF ShareInv, ViewsRead, ViewState, Waiting, ShareRow
  <2>2. /\ share' = [share EXCEPT ![l] = [share[l] EXCEPT !.views = view[v].row.views + 1]]
        /\ served' = [served EXCEPT ![l] = @ + 1]
    BY <1>4, <2>1 DEF ServeView, SavedView
  <2>3. /\ DOMAIN share' = DOMAIN share /\ share' \in [DOMAIN share' -> ShareRow]
        /\ share'[l].views = view[v].row.views + 1
        /\ \A k \in DOMAIN share : share'[k].revoked = share[k].revoked
        /\ \A k \in DOMAIN share \ {l} : share'[k] = share[k]
    BY <2>1, <2>2 DEF ShareInv, ShareRow
  <2>4. /\ served' \in [Links -> Nat] /\ served'[l] = served[l] + 1 /\ served[l] \in Nat
        /\ \A k \in Links \ {l} : served'[k] = served[k]
    BY <2>2 DEF ShareInv
  <2>5. Active' = Active
    BY <2>3 DEF Active
  <2>6. LinksCounted' /\ SharesWithinPlan'
    BY <1>1, <2>3, <2>5 DEF ShareInv, LinksCounted, SharesWithinPlan
  <2>7. l \notin crossed => /\ view[v].row.views = share[l].views
                            /\ \A w \in Views \ {v} : view[w].pc # "render" \/ view[w].link # l
    BY <1>1, <2>1 DEF ShareInv, ViewsRead
  <2>8. ViewsCounted'
    <3> SUFFICES ASSUME NEW k \in DOMAIN share
                 PROVE  /\ share'[k].views <= served'[k]
                        /\ k \notin crossed => share'[k].views = served'[k]
      BY <1>1, <2>3 DEF ViewsCounted
    <3>1. /\ share[k].views <= served[k] /\ k \in Links
          /\ k \notin crossed => share[k].views = served[k]
      BY DEF ShareInv, ViewsCounted
    <3>2. CASE k = l
      BY <2>1, <2>3, <2>4, <2>7, <3>1, <3>2
    <3>3. CASE k # l
      BY <2>3, <2>4, <3>1, <3>3
    <3>4. QED
      BY <3>2, <3>3
  <2>9. ViewsRead'
    <3>1. \A k \in Links \ DOMAIN share : served'[k] = 0
      BY <2>1, <2>4 DEF ShareInv, ViewsRead
    <3>2. ASSUME NEW w \in Views, view'[w].pc = "render"
          PROVE  LET k == view'[w].link IN
                 /\ k \in DOMAIN share /\ view'[w].row.views <= served'[k]
                 /\ k \notin crossed =>
                       /\ view'[w].row.views = share'[k].views
                       /\ \A u \in Views : view'[u].pc = "render" /\ view'[u].link = k => u = w
      <4>1. w # v /\ view'[w] = view[w] /\ view[w].pc = "render"
        BY <1>2, <3>2
      <4>2. PICK k \in Links : k = view[w].link /\ view[w].row.views \in Nat
        BY <4>1 DEF ShareInv, ViewState, Waiting, ShareRow
      <4>3. /\ k \in DOMAIN share /\ view[w].row.views <= served[k]
            /\ k \notin crossed =>
                  /\ view[w].row.views = share[k].views
                  /\ \A u \in Views : view[u].pc = "render" /\ view[u].link = k => u = w
        BY <4>1, <4>2 DEF ShareInv, ViewsRead
      <4>4. k \notin crossed => k # l
        BY <2>7, <4>1, <4>2
      <4>5. view[w].row.views <= served'[k]
        BY <2>4, <4>2, <4>3
      <4>6. QED
        BY <1>2, <2>3, <4>1, <4>2, <4>3, <4>4, <4>5
    <3>3. QED
      BY <1>1, <2>3, <3>1, <3>2 DEF ViewsRead
  <2>10. QED
    BY <1>1, <1>2, <2>3, <2>4, <2>6, <2>8, <2>9 DEF ShareInv
<1>5. QED
  BY <1>3, <1>4

(* Every step keeps what is said of links. *)
LEMMA NextShare == ShareInv /\ (SharingNext \/ UNCHANGED shareVars) => ShareInv'
<1> SUFFICES ASSUME ShareInv, SharingNext \/ UNCHANGED shareVars
             PROVE  ShareInv'
  OBVIOUS
<1>1. CASE HourPasses \/ UNCHANGED shareVars
  <2>1. UNCHANGED <<share, create, lock, view, served, crossed>> /\ hour' \in Nat
    BY <1>1 DEF HourPasses, shareVars, ShareInv
  <2>2. LinksCounted' /\ SharesWithinPlan'
    BY <2>1 DEF ShareInv, LinksCounted, SharesWithinPlan, Active
  <2>3. ViewsRead' /\ ViewsCounted'
    BY <2>1 DEF ShareInv, ViewsRead, ViewsCounted
  <2>4. QED
    BY <2>1, <2>2, <2>3 DEF ShareInv
<1>2. QED
  BY <1>1, CreateKeepsShares, AddKeepsShares, RevokeKeepsShares, ReadKeepsShares, ServeKeepsShares
     DEF SharingNext

(* It holds in every reachable state. *)
LEMMA SharesAlways == AccessSpec => []ShareInv
<1>1. AccessInit => ShareInv
  BY InitShare DEF AccessInit
<1>2. ShareInv /\ [AccessNext]_allVars => ShareInv'
  BY NextShare DEF AccessNext, allVars, shareVars
<1>3. QED
  BY <1>1, <1>2, PTL DEF AccessSpec

(* services/sharing.py, services/quota.py: however many requests and views       *)
(* overlap, the user never has more active links than the plan allows, and a    *)
(* link's count is the number of pages served, or lower when views crossed.      *)
THEOREM SharesAlwaysSound == AccessSpec => []SharesSound
<1>1. ShareInv => SharesSound
  BY DEF ShareInv, SharesSound, SharingTypeOK, ShareRow, LinksCounted
<1>2. QED
  BY <1>1, SharesAlways, PTL

-----------------------------------------------------------------------------
(* Tokens: the proofs *)

(* Nobody has asked for anything. *)
LEMMA InitTokens == TokensInit => TokenInv
<1> SUFFICES ASSUME TokensInit
             PROVE  TokenInv
  OBVIOUS
<1>1. DOMAIN pending = {} /\ DOMAIN code = {} /\ token = {} /\ time = 0
  BY DEF TokensInit
<1>2. code \in [DOMAIN code -> CodeRow] /\ exchange \in [Exchanges -> ExchangeState]
  BY <1>1 DEF TokensInit, ExchangeState
<1>3. RequestsKept /\ TokenFromConsent /\ OneToken
  BY <1>1 DEF RequestsKept, TokenFromConsent, OneToken
<1>4. TokensNumbered
  BY <1>1, FS_EmptySet DEF TokensNumbered
<1>5. ExchangesHold
  BY DEF ExchangesHold, TokensInit, None
<1>6. QED
  BY <1>1, <1>2, <1>3, <1>4, <1>5 DEF TokenInv

(* Steps that leave codes, tokens and exchanges alone. *)
LEMMA TokenFrame ==
  ASSUME TokenInv, UNCHANGED <<code, token, exchange, approved, raced>>,
         time' \in Nat, RequestsKept',
         DOMAIN asked \subseteq DOMAIN asked', \A r \in DOMAIN asked : asked'[r] = asked[r]
  PROVE  TokenInv'
<1>1. \A t \in token : t.kind = "oauth" => t.req \in DOMAIN asked /\ t.req \in DOMAIN code
  BY DEF TokenInv, TokensNumbered, RequestsKept
<1>2. TokenFromConsent' /\ OneToken' /\ TokensNumbered'
  BY <1>1 DEF TokenInv, TokenFromConsent, OneToken, TokensNumbered
<1>3. ExchangesHold'
  BY DEF TokenInv, ExchangesHold, RequestsKept
<1>4. QED
  BY <1>2, <1>3 DEF TokenInv

(* A client asks; its request is new. *)
LEMMA AuthorizeKeeps ==
  ASSUME TokenInv, NEW r \in Requests, NEW cl \in Clients, authorize(r, cl)
  PROVE  TokenInv'
<1>1. /\ r \notin DOMAIN asked /\ r \notin DOMAIN pending /\ r \notin DOMAIN code
      /\ UNCHANGED <<code, token, exchange, approved, raced, time>>
  BY DEF authorize, TokenInv, RequestsKept
<1> DEFINE p == [client |-> cl, challenge |-> cl, at |-> time]
<1>2. /\ DOMAIN pending' = DOMAIN pending \cup {r} /\ pending'[r] = p
      /\ \A x \in DOMAIN pending : pending'[x] = pending[x]
      /\ DOMAIN asked' = DOMAIN asked \cup {r} /\ asked'[r] = cl
      /\ \A x \in DOMAIN asked : asked'[x] = asked[x]
  <2>1. pending' = Put(pending, r, p) /\ asked' = Put(asked, r, cl)
    BY DEF authorize
  <2>2. QED
    BY <1>1, <2>1 DEF Put
<1>3. p.client = cl /\ p.challenge = cl /\ p.at = time /\ time \in 0 .. time /\ time \in Nat
  BY DEF TokenInv
<1> HIDE DEF p
<1>4. RequestsKept'
  BY <1>1, <1>2, <1>3 DEF RequestsKept, TokenInv
<1>5. QED
  BY <1>1, <1>2, <1>4, TokenFrame DEF TokenInv

(* A request that expired is dropped; time passes; a token is checked. *)
LEMMA QuietKeepsTokens ==
  ASSUME TokenInv,
         \/ \E r \in Requests : authorize_resume(r)
         \/ \E c \in Checks : verify_token(c) \/ \E t \in token : CheckToken(c, t)
         \/ TimePasses \/ UNCHANGED tokenVars
  PROVE  TokenInv'
<1>1. /\ UNCHANGED <<code, token, exchange, approved, raced, asked>>
      /\ time' \in {time, time + 1} /\ time \in Nat
      /\ pending' = pending \/ \E r \in Requests : pending' = Drop(pending, r) /\ time' = time
  BY DEF authorize_resume, verify_token, StampRow, CheckToken, TimePasses, tokenVars, TokenInv
<1>2. /\ DOMAIN pending' \subseteq DOMAIN pending
      /\ \A x \in DOMAIN pending' : pending'[x] = pending[x]
  BY <1>1 DEF Drop
<1>3. \A n \in 0 .. time : n \in 0 .. time'
  BY <1>1
<1>4. RequestsKept'
  BY <1>1, <1>2, <1>3 DEF RequestsKept, TokenInv
<1>5. QED
  BY <1>1, <1>4, TokenFrame

(* The user decides: an approval makes the code of a request that had none. *)
LEMMA DecideKeeps ==
  ASSUME TokenInv, NEW r \in Requests, NEW u, NEW d, authorize_decide(r, u, d)
  PROVE  TokenInv'
<1>1. /\ r \in DOMAIN pending /\ r \notin DOMAIN code /\ pending' = Drop(pending, r)
      /\ r \in DOMAIN asked /\ pending[r].client = asked[r]
      /\ pending[r].client \in Clients /\ pending[r].challenge \in Clients
      /\ UNCHANGED <<token, exchange, check, time, asked, raced>> /\ time \in Nat
  BY DEF authorize_decide, TokenInv, RequestsKept
<1>2. /\ DOMAIN pending' = DOMAIN pending \ {r}
      /\ \A x \in DOMAIN pending' : pending'[x] = pending[x]
  BY <1>1 DEF Drop
<1>3. CASE UNCHANGED <<code, approved>>
  <2>1. RequestsKept'
    BY <1>1, <1>2, <1>3 DEF RequestsKept, TokenInv
  <2>2. QED
    BY <1>1, <1>3, <2>1, TokenFrame
<1>4. CASE ~UNCHANGED <<code, approved>>
  <2> DEFINE c == [user |-> u, client |-> pending[r].client,
                   challenge |-> pending[r].challenge, expires |-> time + CodeTTL, used |-> FALSE]
             w == [user |-> u, at |-> time]
  <2>1. u \in Owners /\ code' = Put(code, r, c) /\ approved' = Put(approved, r, w)
    BY <1>4 DEF authorize_decide
  <2>2. c \in CodeRow /\ c.user = u /\ c.client = asked[r] /\ w.user = u
    BY <1>1, <2>1, TokensAssumption DEF CodeRow
  <2> HIDE DEF c, w
  <2>3. /\ DOMAIN code' = DOMAIN code \cup {r} /\ code'[r] = c
        /\ \A x \in DOMAIN code : code'[x] = code[x]
        /\ code' \in [DOMAIN code' -> CodeRow]
    BY <1>1, <2>1, <2>2 DEF Put, TokenInv
  <2>4. /\ DOMAIN approved' = DOMAIN approved \cup {r} /\ approved'[r] = w
        /\ \A x \in DOMAIN approved \ {r} : approved'[x] = approved[x]
    BY <2>1 DEF Put
  <2>5. RequestsKept'
    <3>1. \A x \in DOMAIN code' : code'[x].client = asked[x] /\ code'[x].user = approved'[x].user
      BY <1>1, <2>2, <2>3, <2>4 DEF TokenInv, RequestsKept
    <3>2. QED
      BY <1>1, <1>2, <2>3, <2>4, <3>1 DEF TokenInv, RequestsKept
  <2>6. \A t \in token : t.req # r
    BY <1>1, TokensAssumption DEF TokenInv, TokensNumbered
  <2>7. TokensNumbered' /\ OneToken'
    BY <1>1, <2>3 DEF TokenInv, TokensNumbered, OneToken
  <2>8. TokenFromConsent'
    BY <1>1, <2>4, <2>6 DEF TokenInv, TokenFromConsent
  <2>9. ExchangesHold'
    BY <1>1, <2>3 DEF TokenInv, ExchangesHold
  <2>10. QED
    BY <1>1, <2>3, <2>5, <2>7, <2>8, <2>9 DEF TokenInv
<1>5. QED
  BY <1>3, <1>4

(* An exchange reads a code that is not used up: no token of it exists. *)
LEMMA ReadCodeKeeps ==
  ASSUME TokenInv, NEW x \in Exchanges, NEW r \in Requests, NEW cl \in Clients,
         NEW v \in Clients, ReadCode(x, r, cl, v)
  PROVE  TokenInv'
<1>1. /\ exchange[x].pc = "idle" /\ r \in DOMAIN code /\ ~code[r].used /\ code[r].client = cl
      /\ exchange' = [exchange EXCEPT ![x] = [pc |-> "issue", req |-> r, client |-> cl]]
      /\ raced' = IF \E y \in Exchanges : exchange[y].pc = "issue" /\ exchange[y].req = r
                  THEN raced \cup {r} ELSE raced
      /\ UNCHANGED <<pending, code, token, check, time, asked, approved>>
  BY DEF ReadCode, _validate_auth_code
<1>2. /\ exchange' \in [Exchanges -> ExchangeState]
      /\ exchange'[x].pc = "issue" /\ exchange'[x].req = r /\ exchange'[x].client = cl
      /\ \A y \in Exchanges \ {x} : exchange'[y] = exchange[y]
  <2>1. [pc |-> "issue", req |-> r, client |-> cl] \in ExchangeState
    BY DEF ExchangeState
  <2>2. QED
    BY <1>1, <2>1 DEF TokenInv
<1>3. asked[r] = cl /\ \A t \in token : t.req # r
  BY <1>1, TokensAssumption DEF TokenInv, RequestsKept, TokensNumbered
<1>4. ExchangesHold'
  <2> SUFFICES ASSUME NEW y \in Exchanges, exchange'[y].pc = "issue"
               PROVE  LET q == exchange'[y].req IN
                      /\ q \in DOMAIN code /\ exchange'[y].client = asked[q]
                      /\ q \notin raced' =>
                            /\ \A t \in token : t.req # q
                            /\ \A z \in Exchanges : exchange'[z].pc = "issue" /\ exchange'[z].req = q
                                                       => z = y
    BY <1>1 DEF ExchangesHold
  <2>1. CASE y = x
    BY <1>1, <1>2, <1>3, <2>1
  <2>2. CASE y # x
    BY <1>1, <1>2, <2>2 DEF TokenInv, ExchangesHold
  <2>3. QED
    BY <2>1, <2>2
<1>5. RequestsKept' /\ TokensNumbered' /\ TokenFromConsent' /\ OneToken'
  BY <1>1 DEF TokenInv, RequestsKept, TokensNumbered, TokenFromConsent, OneToken
<1>6. QED
  BY <1>1, <1>2, <1>4, <1>5 DEF TokenInv

(* The next number is free. *)
LEMMA AddToken ==
  ASSUME TokenInv, NextToken <= MaxTokens, NEW new \in TokenRow, new.id = NextToken
  PROVE  /\ new \notin token /\ IsFiniteSet(token \cup {new})
         /\ token \cup {new} \subseteq TokenRow
         /\ \A t, s \in token \cup {new} : t.id = s.id => t = s
         /\ \A t \in token \cup {new} : t.id <= Cardinality(token \cup {new})
<1>1. IsFiniteSet(token) /\ Cardinality(token) \in Nat /\ token \subseteq TokenRow
  BY FS_CardinalityType DEF TokenInv, TokensNumbered
<1>2. \A t \in token : t.id <= Cardinality(token) /\ t.id \in Nat
  BY TokensAssumption DEF TokenInv, TokensNumbered, TokenRow
<1>3. \A t \in token : t.id # new.id
  BY <1>1, <1>2 DEF NextToken
<1>4. IsFiniteSet(token \cup {new}) /\ Cardinality(token \cup {new}) = Cardinality(token) + 1
  BY <1>1, <1>3, FS_AddElement
<1>5. \A t, s \in token : t.id = s.id => t = s
  BY DEF TokenInv, TokensNumbered
<1>6. \A t, s \in token \cup {new} : t.id = s.id => t = s
  BY <1>3, <1>5
<1>7. \A t \in token \cup {new} : t.id <= Cardinality(token) + 1
  BY <1>1, <1>2 DEF NextToken
<1>8. QED
  BY <1>1, <1>3, <1>4, <1>6, <1>7

(* A code is exchanged for a token of its user and client. *)
LEMMA ExchangeKeeps ==
  ASSUME TokenInv, NEW x \in Exchanges, token_exchange(x)
  PROVE  TokenInv'
<1>1. exchange[x].pc = "issue" /\ exchange[x] \in ExchangeState
  BY DEF token_exchange, TokenInv
<1>2. PICK r \in Requests, cl \in Clients :
         /\ r = exchange[x].req /\ cl = exchange[x].client
         /\ r \in DOMAIN code /\ cl = asked[r]
         /\ r \notin raced => /\ \A t \in token : t.req # r
                              /\ \A y \in Exchanges : exchange[y].pc = "issue" /\ exchange[y].req = r
                                                         => y = x
  BY <1>1 DEF TokenInv, ExchangesHold, ExchangeState, None
<1> DEFINE new == [id |-> NextToken, kind |-> "oauth", user |-> code[r].user,
                   client |-> cl, req |-> r, at |-> time, expires |-> time + TokenTTL,
                   revoked |-> FALSE]
<1>3. /\ NextToken <= MaxTokens /\ code' = [code EXCEPT ![r].used = TRUE]
      /\ token' = token \cup {new} /\ exchange' = [exchange EXCEPT ![x] = None]
      /\ UNCHANGED <<pending, check, time, asked, approved, raced>>
  BY <1>2 DEF token_exchange
<1>4. NextToken \in 1 .. MaxTokens /\ code[r] \in CodeRow /\ time \in Nat
  BY <1>2, <1>3, FS_CardinalityType, TokensAssumption DEF TokenInv, TokensNumbered, NextToken
<1>5. /\ new \in TokenRow /\ new.id = NextToken /\ new.req = r /\ new.kind = "oauth"
      /\ new.client = cl /\ new.user = code[r].user
  BY <1>2, <1>4, TokensAssumption DEF TokenRow, CodeRow
<1> HIDE DEF new
<1>6. /\ DOMAIN code' = DOMAIN code /\ code' \in [DOMAIN code' -> CodeRow] /\ code'[r].used
      /\ \A q \in DOMAIN code : /\ code'[q].user = code[q].user
                                /\ code'[q].client = code[q].client
                                /\ code[q].used => code'[q].used
  BY <1>2, <1>3, <1>4 DEF TokenInv, CodeRow
<1>7. /\ exchange' \in [Exchanges -> ExchangeState] /\ exchange'[x].pc # "issue"
      /\ \A y \in Exchanges \ {x} : exchange'[y] = exchange[y]
  BY <1>3 DEF TokenInv, ExchangeState, None
<1>8. RequestsKept'
  BY <1>3, <1>6 DEF TokenInv, RequestsKept
<1>9. r # "none" /\ r \in DOMAIN approved /\ code[r].user = approved[r].user
  BY <1>2, TokensAssumption DEF TokenInv, RequestsKept
<1>10. TokensNumbered'
  <2>1. /\ IsFiniteSet(token') /\ token' \subseteq TokenRow
        /\ \A t, s \in token' : t.id = s.id => t = s
        /\ \A t \in token' : t.id <= Cardinality(token')
    BY <1>3, <1>5, AddToken
  <2>2. /\ \A t \in token' : t.req # "none" => t.req \in DOMAIN code' /\ code'[t.req].used
        /\ \A t \in token' : t.kind = "oauth" => t.req # "none"
    BY <1>2, <1>3, <1>5, <1>6, <1>9 DEF TokenInv, TokensNumbered
  <2>3. QED
    BY <2>1, <2>2 DEF TokensNumbered
<1>11. TokenFromConsent'
  BY <1>2, <1>3, <1>5, <1>9 DEF TokenInv, TokenFromConsent
<1>12. OneToken'
  BY <1>2, <1>3, <1>5, <1>9 DEF TokenInv, OneToken
<1>13. ExchangesHold'
  <2> SUFFICES ASSUME NEW y \in Exchanges, exchange'[y].pc = "issue"
               PROVE  LET q == exchange'[y].req IN
                      /\ q \in DOMAIN code /\ exchange'[y].client = asked[q]
                      /\ q \notin raced =>
                            /\ \A t \in token' : t.req # q
                            /\ \A z \in Exchanges : exchange'[z].pc = "issue" /\ exchange'[z].req = q
                                                       => z = y
    BY <1>3, <1>6 DEF ExchangesHold
  <2>1. y # x /\ exchange'[y] = exchange[y]
    BY <1>7
  <2>2. exchange[y].req \notin raced => exchange[y].req # r
    BY <1>2, <2>1
  <2>3. QED
    BY <1>3, <1>5, <1>7, <2>1, <2>2 DEF TokenInv, ExchangesHold
<1>14. QED
  BY <1>3, <1>6, <1>7, <1>8, <1>10, <1>11, <1>12, <1>13 DEF TokenInv

(* A personal token has no request. *)
LEMMA PersonalKeeps ==
  ASSUME TokenInv, NEW u \in Owners, create_mcp_token(u)
  PROVE  TokenInv'
<1> DEFINE new == [id |-> NextToken, kind |-> "pat", user |-> u, client |-> u, req |-> "none",
                   at |-> time, expires |-> EndOfTime + 1, revoked |-> FALSE]
<1>1. /\ NextToken <= MaxTokens /\ token' = token \cup {new}
      /\ UNCHANGED <<pending, code, exchange, check, time, asked, approved, raced>>
  BY DEF create_mcp_token
<1>2. NextToken \in 1 .. MaxTokens /\ time \in Nat
  BY <1>1, FS_CardinalityType, TokensAssumption DEF TokenInv, TokensNumbered, NextToken
<1>3. new \in TokenRow /\ new.id = NextToken /\ new.req = "none" /\ new.kind = "pat"
  BY <1>2, TokensAssumption DEF TokenRow
<1> HIDE DEF new
<1>4. TokensNumbered'
  <2>1. /\ IsFiniteSet(token') /\ token' \subseteq TokenRow
        /\ \A t, s \in token' : t.id = s.id => t = s
        /\ \A t \in token' : t.id <= Cardinality(token')
    BY <1>1, <1>3, AddToken
  <2>2. QED
    BY <1>1, <1>3, <2>1 DEF TokenInv, TokensNumbered
<1>5. RequestsKept' /\ TokenFromConsent' /\ OneToken'
  BY <1>1, <1>3 DEF TokenInv, RequestsKept, TokenFromConsent, OneToken
<1>6. ExchangesHold'
  BY <1>1, <1>3, TokensAssumption DEF TokenInv, ExchangesHold, RequestsKept
<1>7. QED
  BY <1>1, <1>4, <1>5, <1>6 DEF TokenInv

(* Revoking replaces a row by one of the same number. *)
LEMMA RevokeKeeps ==
  ASSUME TokenInv, NEW t \in token, Revoke(t)
  PROVE  TokenInv'
<1> DEFINE new == [t EXCEPT !.revoked = TRUE]
<1>1. /\ token' = (token \ {t}) \cup {new} /\ ~t.revoked /\ t \in TokenRow
      /\ UNCHANGED <<pending, code, exchange, check, time, asked, approved, raced>>
  BY DEF Revoke, TokenInv, TokensNumbered
<1>2. /\ new \in TokenRow /\ new.id = t.id /\ new.req = t.req /\ new.kind = t.kind
      /\ new.client = t.client /\ new.user = t.user /\ new.revoked
  BY <1>1 DEF TokenRow
<1> HIDE DEF new
<1>3. new \notin token
  BY <1>1, <1>2 DEF TokenInv, TokensNumbered
<1>4. IsFiniteSet(token') /\ Cardinality(token') = Cardinality(token)
  <2>1. IsFiniteSet(token) /\ Cardinality(token) \in Nat
    BY FS_CardinalityType DEF TokenInv, TokensNumbered
  <2>2. IsFiniteSet(token \ {t}) /\ Cardinality(token \ {t}) = Cardinality(token) - 1
    BY <2>1, FS_RemoveElement
  <2>3. IsFiniteSet((token \ {t}) \cup {new})
        /\ Cardinality((token \ {t}) \cup {new}) = Cardinality(token \ {t}) + 1
    BY <1>3, <2>2, FS_AddElement
  <2>4. QED
    BY <1>1, <2>1, <2>2, <2>3
<1>5. TokensNumbered'
  <2>1. \A s \in token' : \E o \in token : /\ s.id = o.id /\ s.req = o.req /\ s.kind = o.kind
                                           /\ s = IF o = t THEN new ELSE o
    BY <1>1, <1>2
  <2>2. \A s, o \in token' : s.id = o.id => s = o
    BY <1>1, <1>2 DEF TokenInv, TokensNumbered
  <2>3. token' \subseteq TokenRow
    BY <1>1, <1>2 DEF TokenInv, TokensNumbered
  <2>4. \A s \in token' : s.id <= Cardinality(token')
    BY <1>4, <2>1 DEF TokenInv, TokensNumbered
  <2>5. /\ \A s \in token' : s.req # "none" => s.req \in DOMAIN code' /\ code'[s.req].used
        /\ \A s \in token' : s.kind = "oauth" => s.req # "none"
    BY <1>1, <2>1 DEF TokenInv, TokensNumbered
  <2>6. QED
    BY <1>4, <2>2, <2>3, <2>4, <2>5 DEF TokensNumbered
<1>6. RequestsKept' /\ TokenFromConsent' /\ OneToken'
  BY <1>1, <1>2 DEF TokenInv, RequestsKept, TokenFromConsent, OneToken
<1>7. ExchangesHold'
  BY <1>1, <1>2 DEF TokenInv, ExchangesHold
<1>8. QED
  BY <1>1, <1>5, <1>6, <1>7 DEF TokenInv

(* A restart forgets what was under way. *)
LEMMA RestartKeeps ==
  ASSUME TokenInv, ServerRestart
  PROVE  TokenInv'
<1>1. /\ DOMAIN pending' = {} /\ \A x \in Exchanges : exchange'[x] = None
      /\ exchange' \in [Exchanges -> ExchangeState]
      /\ UNCHANGED <<code, token, time, asked, approved, raced>>
  BY DEF ServerRestart, ExchangeState
<1>2. ExchangesHold'
  BY <1>1 DEF ExchangesHold, None
<1>3. RequestsKept' /\ TokensNumbered' /\ TokenFromConsent' /\ OneToken'
  BY <1>1 DEF TokenInv, RequestsKept, TokensNumbered, TokenFromConsent, OneToken
<1>4. QED
  BY <1>1, <1>2, <1>3 DEF TokenInv

(* Every step keeps what is said of tokens. *)
LEMMA NextTokens == TokenInv /\ (TokensNext \/ UNCHANGED tokenVars) => TokenInv'
  BY AuthorizeKeeps, QuietKeepsTokens, DecideKeeps, ReadCodeKeeps, ExchangeKeeps,
     PersonalKeeps, RevokeKeeps, RestartKeeps DEF TokensNext

(* It holds in every reachable state. *)
LEMMA TokensAlways == AccessSpec => []TokenInv
<1>1. AccessInit => TokenInv
  BY InitTokens DEF AccessInit
<1>2. TokenInv /\ [AccessNext]_allVars => TokenInv'
  BY NextTokens DEF AccessNext, allVars, tokenVars
<1>3. QED
  BY <1>1, <1>2, PTL DEF AccessSpec

(* api/routes/mcp_oauth.py: every OAuth token goes to the client that asked, for *)
(* the user who approved, and a code gives one token unless two exchanges of it  *)
(* overlapped, whatever expires, is denied, revoked or restarted.                *)
THEOREM GrantsAlwaysSound == AccessSpec => []GrantsSound
<1>1. TokenInv => GrantsSound
  <2> SUFFICES ASSUME TokenInv
               PROVE  TokensTypeOK /\ TokenFromConsent /\ CodeOnce
    BY DEF GrantsSound
  <2>1. TokensTypeOK
    BY DEF TokenInv, TokensTypeOK, RequestsKept, TokensNumbered, TokenRow, CodeRow
  <2>2. CodeOnce
    <3> SUFFICES ASSUME NEW r \in DOMAIN code, r \notin raced
                 PROVE  Cardinality({t \in token : t.req = r}) <= 1
      BY DEF CodeOnce
    <3> DEFINE S == {t \in token : t.req = r}
    <3>1. \A t, s \in S : t = s
      BY TokensAssumption DEF TokenInv, OneToken, RequestsKept
    <3>2. S = {} \/ \E t \in S : S = {t}
      BY <3>1
    <3> HIDE DEF S
    <3>3. Cardinality(S) <= 1
      <4>1. CASE S = {}
        BY <4>1, FS_EmptySet
      <4>2. ASSUME NEW t, S = {t} PROVE Cardinality(S) <= 1
        BY <4>2, FS_Singleton
      <4>3. QED
        BY <3>2, <4>1, <4>2
    <3>4. QED
      BY <3>3 DEF S
  <2>3. QED
    BY <2>1, <2>2 DEF TokenInv
<1>2. QED
  BY <1>1, TokensAlways, PTL

-----------------------------------------------------------------------------
(* Logins: the proofs *)

(* Nobody has an account yet. *)
LEMMA InitLogins == LoginsInit => LoginInv
  BY LoginsAssumption DEF LoginsInit, LoginInv, LoginsTypeOK, AttemptsOK, AddressesKept, Idle

(* Nothing is said of attempts but through addresses that do not change. *)
LEMMA AttemptsFrame ==
  ASSUME AttemptsOK, UNCHANGED <<attempt, mail, moved>>
  PROVE  AttemptsOK'
  BY DEF AttemptsOK, RowOK, NewOK, Fresh, IsOf, AddressOf

(* Links and states, and tokens of accounts there are, come and go. *)
LEMMA QuietLogins ==
  ASSUME LoginInv, UNCHANGED <<user, attempt, mail, made, moved>>,
         clock' \in 0 .. MaxTime, \A j \in jwt' : j.sub \in 1 .. made
  PROVE  LoginInv'
  BY AttemptsFrame DEF LoginInv, LoginsTypeOK, AddressesKept, IsOf, AddressOf

(* What an attempt is given is sound, and the others keep theirs. *)
LEMMA AttemptKeeps ==
  ASSUME AttemptsOK, NEW a \in Attempts, NEW new,
         attempt' = [attempt EXCEPT ![a] = new], UNCHANGED <<mail, moved>>,
         new.pc = "save" => /\ RowOK(new.who, new.row)
                            /\ new.row.id = NoUser => Fresh(new.row) /\ NewOK(new.who, new.row),
         new.pc = "done" => RowOK(new.who, new.user)
  PROVE  AttemptsOK'
<1>1. attempt' = [b \in Attempts |-> attempt'[b]] /\ attempt'[a] = new
      /\ \A b \in Attempts \ {a} : attempt'[b] = attempt[b]
  BY DEF AttemptsOK
<1>2. \A b \in Attempts :
         /\ attempt'[b].pc = "save" =>
               /\ RowOK(attempt'[b].who, attempt'[b].row)
               /\ attempt'[b].row.id = NoUser =>
                     Fresh(attempt'[b].row) /\ NewOK(attempt'[b].who, attempt'[b].row)
         /\ attempt'[b].pc = "done" => RowOK(attempt'[b].who, attempt'[b].user)
  BY <1>1 DEF AttemptsOK
<1>3. QED
  BY <1>1, <1>2, SMTT(30) DEF AttemptsOK, RowOK, NewOK, IsOf, AddressOf, Fresh

(* An attempt moves on, and perhaps a token of an account is given out. *)
LEMMA OnlyAttempt ==
  ASSUME LoginInv, AttemptsOK', UNCHANGED <<user, mail, clock, made, moved>>,
         \A j \in jwt' : j.sub \in 1 .. made
  PROVE  LoginInv'
  BY DEF LoginInv, LoginsTypeOK, AddressesKept, IsOf, AddressOf

(* The lookup finds the identity's row, or one with its address. *)
LEMMA CallbackKeeps ==
  ASSUME LoginInv, NEW a \in Attempts, NEW i \in Identities, callback(a, i)
  PROVE  LoginInv'
<1>1. PICK found : found = FindOAuthUser(i, mail[i])
  OBVIOUS
<1>2. found \subseteq user /\ \A u \in found : IsOf(u, i) \/ u.email = mail[i]
  BY <1>1 DEF FindOAuthUser, IsOf
<1>3. PICK fresh : fresh = NewUser(a, i)
  OBVIOUS
<1>4. Fresh(fresh) /\ IsOf(fresh, i) /\ fresh.email = AddressOf(i) /\ fresh.id = NoUser
  BY <1>3 DEF NewUser, Fresh, IsOf, AddressOf
<1>5. PICK row : row = IF found = {} THEN fresh ELSE CHOOSE u \in found : TRUE
  OBVIOUS
<1>6. RowOK(i, row) /\ (row.id = NoUser => Fresh(row) /\ NewOK(i, row))
  <2>1. CASE found = {}
    BY <1>4, <1>5, <2>1 DEF RowOK, NewOK
  <2>2. CASE found # {}
    <3>1. row \in found
      BY <1>5, <2>2
    <3>2. row.id # NoUser
      BY <1>2, <3>1 DEF LoginInv, LoginsTypeOK, NoUser
    <3>3. QED
      BY <1>2, <3>1, <3>2 DEF RowOK
  <2>3. QED
    BY <2>1, <2>2
<1>7. PICK new : new = IF Cardinality(found) > 1 THEN [pc |-> "failed", who |-> i]
                       ELSE [pc |-> "save", who |-> i, row |-> row]
  OBVIOUS
<1>8. attempt' = [attempt EXCEPT ![a] = new] /\ UNCHANGED <<user, signed, jwt, mail, clock, made, moved>>
  BY <1>1, <1>3, <1>5, <1>7 DEF callback
<1>9. /\ new.pc = "save" => new.who = i /\ new.row = row
      /\ new.pc # "done"
  BY <1>7
<1>10. QED
  BY <1>6, <1>8, <1>9, AttemptKeeps, OnlyAttempt DEF LoginInv, LoginsTypeOK

(* A magic link's address is no identity: nothing is promised of it but its mark. *)
LEMMA MagicKeeps ==
  ASSUME LoginInv, NEW a \in Attempts, NEW e \in Emails, verify_magic_link(a, e)
  PROVE  LoginInv'
<1>1. e \notin Identities
  BY IdentitiesAssumption
<1>2. CASE \E u \in user : u.email = e /\ Finished(a, e, u) /\ jwt' = jwt \cup {create_jwt(u)}
  <2>1. PICK u \in user : Finished(a, e, u) /\ jwt' = jwt \cup {create_jwt(u)}
    BY <1>2
  <2>2. PICK new : new = [pc |-> "done", who |-> e, user |-> u]
    OBVIOUS
  <2>3. \A j \in jwt' : j.sub \in 1 .. made
    BY <2>1 DEF create_jwt, LoginInv, LoginsTypeOK
  <2>4. QED
    BY <1>1, <2>1, <2>2, <2>3, AttemptKeeps, OnlyAttempt DEF Finished, verify_magic_link, RowOK, LoginInv
<1>3. CASE /\ attempt' = [attempt EXCEPT ![a] =
                 [pc |-> "save", who |-> e,
                  row |-> [id |-> NoUser, provider |-> "magic_link", pid |-> e, email |-> e]]]
           /\ UNCHANGED jwt
  <2>1. PICK row : row = [id |-> NoUser, provider |-> "magic_link", pid |-> e, email |-> e]
    OBVIOUS
  <2>2. PICK new : new = [pc |-> "save", who |-> e, row |-> row]
    OBVIOUS
  <2>3. Fresh(row) /\ NewOK(e, row) /\ RowOK(e, row)
    BY <1>1, <2>1 DEF Fresh, NewOK, RowOK
  <2>4. QED
    BY <1>3, <2>1, <2>2, <2>3, AttemptKeeps, OnlyAttempt DEF verify_magic_link, LoginInv, LoginsTypeOK
<1>4. QED
  BY <1>2, <1>3 DEF verify_magic_link

(* An account more: its address and number are new, and if it is of an       *)
(* identity that never moved, the address is the identity's.                 *)
LEMMA AccountAdded ==
  ASSUME LoginInv, NEW row, user' = user \cup {row}, UNCHANGED <<mail, clock, moved>>,
         AttemptsOK',
         made' \in Nat, made <= made', row.id \in 1 .. made',
         \A u \in user : u.id # row.id /\ u.email # row.email,
         \A j \in jwt' : j.sub \in 1 .. made',
         \A i \in Identities \ moved : IsOf(row, i) => row.email = AddressOf(i)
  PROVE  LoginInv'
<1>1. \A b, c \in user' : (b.id = c.id \/ b.email = c.email) => b = c
  BY DEF LoginInv, LoginsTypeOK
<1>2. \A u \in user' : u.id \in 1 .. made'
  BY DEF LoginInv, LoginsTypeOK
<1>3. \A u \in user', i \in Identities \ moved : IsOf(u, i) => u.email = AddressOf(i)
  BY DEF LoginInv, AddressesKept
<1>4. QED
  BY <1>1, <1>2, <1>3 DEF LoginInv, LoginsTypeOK, AddressesKept, IsOf, AddressOf

(* The commit: what was found is still there, what is new is unique, or it fails. *)
LEMMA UpsertKeeps ==
  ASSUME LoginInv, NEW a \in Attempts, upsert_oauth_user(a)
  PROVE  LoginInv'
<1>1. PICK row : row = attempt[a].row
  OBVIOUS
<1>2. PICK who : who = attempt[a].who
  OBVIOUS
<1>3. PICK new : new = [row EXCEPT !.id = made + 1]
  OBVIOUS
<1>4. /\ RowOK(who, row) /\ (row.id = NoUser => Fresh(row) /\ NewOK(who, row))
      /\ UNCHANGED <<signed, mail, clock, moved>>
  BY <1>1, <1>2 DEF upsert_oauth_user, LoginInv, AttemptsOK
<1>5. CASE /\ row \in user /\ Finished(a, attempt[a].who, row)
           /\ jwt' = jwt \cup {create_jwt(row)} /\ UNCHANGED <<user, made>>
  <2>1. PICK st : st = [pc |-> "done", who |-> who, user |-> row]
    OBVIOUS
  <2>2. \A j \in jwt' : j.sub \in 1 .. made
    BY <1>5 DEF create_jwt, LoginInv, LoginsTypeOK
  <2>3. attempt' = [attempt EXCEPT ![a] = st] /\ st.pc = "done" /\ st.who = who /\ st.user = row
    BY <1>2, <1>5, <2>1 DEF Finished
  <2>4. AttemptsOK'
    BY <1>4, <2>3, AttemptKeeps DEF LoginInv
  <2>5. QED
    BY <1>4, <1>5, <2>2, <2>4, OnlyAttempt
<1>6. CASE /\ row.id = NoUser /\ Unique(row) /\ user' = user \cup {new} /\ made' = made + 1
           /\ Finished(a, attempt[a].who, new) /\ jwt' = jwt \cup {create_jwt(new)}
  <2>1. new = [id |-> made + 1, provider |-> row.provider, pid |-> row.pid, email |-> row.email]
    BY <1>3, <1>4, <1>6 DEF Fresh
  <2>2. PICK st : st = [pc |-> "done", who |-> who, user |-> new]
    OBVIOUS
  <2>3. attempt' = [attempt EXCEPT ![a] = st] /\ st.pc = "done" /\ st.who = who /\ st.user = new
    BY <1>2, <1>6, <2>2 DEF Finished
  <2>4. RowOK(who, new)
    BY <1>4, <2>1 DEF RowOK, IsOf
  <2>5. AttemptsOK'
    BY <1>4, <2>3, <2>4, AttemptKeeps DEF LoginInv
  <2>6. new.id = made + 1 /\ new.email = row.email /\ made \in Nat
    BY <2>1 DEF LoginInv
  <2>7. \A u \in user : u.id # new.id /\ u.email # new.email
    BY <1>6, <2>6 DEF Unique, LoginInv, LoginsTypeOK
  <2>8. \A j \in jwt' : j.sub \in 1 .. made'
    BY <1>6, <2>6 DEF create_jwt, LoginInv, LoginsTypeOK
  <2>9. ASSUME NEW i \in Identities \ moved, IsOf(new, i) PROVE new.email = AddressOf(i)
    <3>1. who \in Identities
      BY <1>4, <1>6, <2>1, <2>9, IdentitiesAssumption DEF NewOK, IsOf
    <3>2. IsOf(row, who) /\ IsOf(row, i)
      BY <1>4, <1>6, <2>1, <2>9, <3>1 DEF NewOK, IsOf
    <3>3. who = i
      BY <3>1, <3>2, IdentitiesAssumption DEF IsOf
    <3>4. QED
      BY <1>4, <1>6, <2>6, <3>1, <3>3 DEF NewOK
  <2>10. QED
    BY <1>4, <1>6, <2>5, <2>6, <2>7, <2>8, <2>9, AccountAdded
<1>7. CASE Failed(a, attempt[a].who) /\ UNCHANGED <<user, jwt, made>>
  <2>1. PICK st : st = [pc |-> "failed", who |-> who]
    OBVIOUS
  <2>2. attempt' = [attempt EXCEPT ![a] = st] /\ st.pc = "failed"
    BY <1>2, <1>7, <2>1 DEF Failed
  <2>3. AttemptsOK'
    BY <1>4, <2>2, AttemptKeeps DEF LoginInv
  <2>4. QED
    BY <1>4, <1>7, <2>3, OnlyAttempt DEF LoginInv, LoginsTypeOK
<1>8. QED
  BY <1>1, <1>3, <1>5, <1>6, <1>7 DEF upsert_oauth_user

(* The account of a JWT is made again under its number, and is of no identity. *)
LEMMA GetOrCreateKeeps ==
  ASSUME LoginInv, NEW j \in jwt, NEW e, get_or_create(j, e),
         UNCHANGED <<signed, attempt, mail, clock, made, moved>>,
         \A k \in jwt' : k.sub \in 1 .. made
  PROVE  LoginInv'
<1>1. PICK row : row = [id |-> j.sub, email |-> e, provider |-> "jwt", pid |-> j.sub]
  OBVIOUS
<1>2. user' = user \cup {row} /\ \A u \in user : u.id # row.id /\ u.email # row.email
  BY <1>1 DEF get_or_create
<1>3. row.id \in 1 .. made /\ \A i \in Identities : ~IsOf(row, i)
  BY <1>1, IdentitiesAssumption DEF LoginInv, LoginsTypeOK, IsOf
<1>4. AttemptsOK'
  BY AttemptsFrame DEF LoginInv
<1>5. QED
  BY <1>2, <1>3, <1>4, AccountAdded DEF LoginInv

(* A session asks who it is, for a token, or to be forgotten. *)
LEMMA SessionKeeps ==
  ASSUME LoginInv, NEW j \in jwt, me(j) \/ create_api_token(j) \/ DeleteUser(j)
  PROVE  LoginInv'
<1>1. CASE me(j)
  <2>1. PICK e : e = j.email
    OBVIOUS
  <2>2. get_or_create(j, e) /\ UNCHANGED <<signed, jwt, attempt, mail, clock, made, moved>>
    BY <1>1, <2>1 DEF me, get_or_create
  <2>3. QED
    BY <2>2, GetOrCreateKeeps DEF LoginInv, LoginsTypeOK
<1>2. CASE create_api_token(j)
  <2>1. UNCHANGED <<signed, attempt, mail, clock, made, moved>>
    BY <1>2 DEF create_api_token
  <2>2. CASE \E u \in user : u.id = j.sub
    <3>1. UNCHANGED user /\ \A k \in jwt' : k.sub \in 1 .. made
      BY <1>2, <2>2 DEF create_api_token, create_jwt, LoginInv, LoginsTypeOK
    <3>2. QED
      BY <2>1, <3>1, QuietLogins DEF LoginInv, LoginsTypeOK
  <2>3. CASE ~\E u \in user : u.id = j.sub
    <3>1. PICK e : e = <<"jwt.local", j.sub>>
      OBVIOUS
    <3>2. get_or_create(j, e) /\ jwt' = jwt \cup {[sub |-> j.sub, email |-> e, exp |-> clock + JwtTTL]}
      BY <1>2, <2>3, <3>1 DEF create_api_token, get_or_create
    <3>3. \A k \in jwt' : k.sub \in 1 .. made
      BY <3>2 DEF LoginInv, LoginsTypeOK
    <3>4. QED
      BY <2>1, <3>2, <3>3, GetOrCreateKeeps
  <2>4. QED
    BY <2>2, <2>3
<1>3. CASE DeleteUser(j)
  <2>1. user' \subseteq user /\ UNCHANGED <<signed, jwt, attempt, mail, clock, made, moved>>
    BY <1>3 DEF DeleteUser
  <2>2. QED
    BY <2>1, AttemptsFrame DEF LoginInv, LoginsTypeOK, AddressesKept, IsOf, AddressOf
<1>4. QED
  BY <1>1, <1>2, <1>3

(* A changed address is nobody's whose address never changed. *)
LEMMA MovedKeeps ==
  ASSUME LoginInv, NEW i \in Identities, NEW e \in Emails, ChangeMail(i, e)
  PROVE  LoginInv'
<1>1. /\ mail' = [mail EXCEPT ![i] = e] /\ moved' = moved \cup {i}
      /\ UNCHANGED <<user, signed, jwt, attempt, clock, made>>
  BY DEF ChangeMail
<1>2. /\ mail' \in [Identities -> Emails \cup {NoEmail}]
      /\ \A k \in Identities \ moved' : mail'[k] = mail[k] /\ k \notin moved
  BY <1>1 DEF LoginInv
<1>3. LoginsTypeOK' /\ made' \in Nat
  BY <1>1 DEF LoginInv, LoginsTypeOK
<1>4. AttemptsOK'
  BY <1>1, <1>2 DEF LoginInv, AttemptsOK, RowOK, NewOK, Fresh, IsOf, AddressOf
<1>5. AddressesKept'
  BY <1>1, <1>2 DEF LoginInv, AddressesKept, IsOf, AddressOf
<1>6. QED
  BY <1>2, <1>3, <1>4, <1>5 DEF LoginInv

(* Every step keeps what is said of logins. *)
LEMMA NextLogins == LoginInv /\ (LoginsNext \/ UNCHANGED loginVars) => LoginInv'
<1> SUFFICES ASSUME LoginInv, LoginsNext \/ UNCHANGED loginVars
             PROVE  LoginInv'
  OBVIOUS
<1>1. CASE \/ \E i \in Identities : login(i.provider)
           \/ \E e \in Emails : request_magic_link(e)
           \/ UNCHANGED loginVars
  BY <1>1, QuietLogins DEF login, request_magic_link, loginVars, LoginInv, LoginsTypeOK
<1>2. CASE Pass
  <2>1. jwt' \subseteq jwt /\ clock' \in 0 .. MaxTime /\ UNCHANGED <<user, attempt, mail, made, moved>>
    BY <1>2, LoginsAssumption DEF Pass, LoginInv, LoginsTypeOK
  <2>2. QED
    BY <2>1, QuietLogins DEF LoginInv, LoginsTypeOK
<1>3. QED
  BY <1>1, <1>2, CallbackKeeps, MagicKeeps, UpsertKeeps, SessionKeeps, MovedKeeps DEF LoginsNext

(* services/user.py, api/routes/auth.py: an identity whose address never       *)
(* changed is signed in to an account that is its own or carries its address,  *)
(* and has at most one account, however logins, JWTs and deletions overlap.    *)
THEOREM LoginsAlwaysSound == AccessSpec => []LoginsSound
<1>1. AccessInit => LoginInv
  BY InitLogins DEF AccessInit
<1>2. LoginInv /\ [AccessNext]_allVars => LoginInv'
  BY NextLogins DEF AccessNext, allVars, loginVars
<1>3. LoginInv => LoginsSound
  <2> SUFFICES ASSUME LoginInv
               PROVE  LoginsTypeOK /\ OwnAccount /\ NotLockedOut
    BY DEF LoginsSound
  <2>1. OwnAccount
    BY DEF LoginInv, AttemptsOK, RowOK, IsOf, OwnAccount
  <2>2. NotLockedOut
    <3> SUFFICES ASSUME NEW i \in Identities \ moved
                 PROVE  Cardinality({u \in user : u.provider = i.provider /\ u.pid = i.pid}) <= 1
      BY DEF NotLockedOut
    <3> DEFINE S == {u \in user : u.provider = i.provider /\ u.pid = i.pid}
    <3>1. \A u, v \in S : u = v
      BY DEF LoginInv, LoginsTypeOK, AddressesKept, IsOf
    <3>2. S = {} \/ \E u \in S : S = {u}
      BY <3>1
    <3> HIDE DEF S
    <3>3. Cardinality(S) <= 1
      <4>1. CASE S = {}
        BY <4>1, FS_EmptySet
      <4>2. ASSUME NEW u, S = {u} PROVE Cardinality(S) <= 1
        BY <4>2, FS_Singleton
      <4>3. QED
        BY <3>2, <4>1, <4>2
    <3>4. QED
      BY <3>3 DEF S
  <2>3. QED
    BY <2>1, <2>2 DEF LoginInv
<1>4. QED
  BY <1>1, <1>2, <1>3, PTL DEF AccessSpec

-----------------------------------------------------------------------------
(* Keys: the proofs *)

(* Every step keeps what is said of keys: a row is replaced whole, cipher and *)
(* salt together, by the request that is told so.                             *)
LEMMA NextKeys == KeyInv /\ (ApiKeysNext \/ UNCHANGED keyVars) => KeyInv'
<1> SUFFICES ASSUME KeyInv, ApiKeysNext \/ UNCHANGED keyVars
             PROVE  KeyInv'
  OBVIOUS
<1>1. ASSUME NEW r \in Puts, set_api_key(r) PROVE KeyInv'
  <2>1. PICK k \in Slots : k = put[r].slot
    BY <1>1 DEF KeyInv, set_api_key
  <2>2. PICK row : row = put[r].new
    OBVIOUS
  <2>3. row.cipher.salt = row.salt /\ row.cipher.key = r
    BY <1>1, <2>2 DEF KeyInv, set_api_key
  <2>4. put' = [put EXCEPT ![r] = [pc |-> "done"]] /\ UNCHANGED secret
    BY <1>1 DEF set_api_key
  <2>5. CASE /\ keyRow' = [x \in DOMAIN keyRow \cup {k} |-> IF x = k THEN row ELSE keyRow[x]]
             /\ latest' = [latest EXCEPT ![k] = r]
    BY <2>1, <2>3, <2>4, <2>5 DEF KeyInv, ApiKeysTypeOK
  <2>6. CASE UNCHANGED <<keyRow, latest>>
    BY <2>4, <2>6 DEF KeyInv, ApiKeysTypeOK
  <2>7. QED
    BY <1>1, <2>1, <2>2, <2>5, <2>6 DEF set_api_key, NewRow
<1>2. ASSUME NEW r \in Puts, NEW k \in Slots, set_user_api_key(r, k) PROVE KeyInv'
  BY <1>2 DEF KeyInv, ApiKeysTypeOK, set_user_api_key, encrypt_api_key
<1>3. ASSUME NEW k \in Slots, delete_user_api_key(k) PROVE KeyInv'
  BY <1>3 DEF KeyInv, ApiKeysTypeOK, delete_user_api_key
<1>4. CASE ChangeSecret
  BY <1>4, ApiKeysAssumption DEF KeyInv, ApiKeysTypeOK, ChangeSecret
<1>5. CASE UNCHANGED keyVars
  BY <1>5 DEF KeyInv, ApiKeysTypeOK, keyVars
<1>6. QED
  BY <1>1, <1>2, <1>3, <1>4, <1>5 DEF ApiKeysNext

(* services/api_keys.py: the key in use is the one last stored, by whichever   *)
(* requests overlapped; it is unreadable only when the secret changed since.   *)
THEOREM KeysAlwaysLatest == AccessSpec => [](ApiKeysTypeOK /\ KeyIsLatest)
<1>1. AccessInit => KeyInv
  <2> SUFFICES ASSUME ApiKeysInit
               PROVE  KeyInv
    BY DEF AccessInit
  <2>1. DOMAIN keyRow = {}
    BY DEF ApiKeysInit
  <2>2. QED
    BY <2>1, ApiKeysAssumption DEF ApiKeysInit, KeyInv, ApiKeysTypeOK
<1>2. KeyInv /\ [AccessNext]_allVars => KeyInv'
  BY NextKeys DEF AccessNext, allVars, keyVars
<1>3. KeyInv => ApiKeysTypeOK /\ KeyIsLatest
  BY DEF KeyInv, KeyIsLatest, get_user_api_key, decrypt_api_key
<1>4. QED
  BY <1>1, <1>2, <1>3, PTL DEF AccessSpec

-----------------------------------------------------------------------------
(* The administrator's rows: the proofs *)

(* A row is replaced by one of the same number and file; what is queued      *)
(* besides is that row, if it has a file.                                    *)
LEMMA ReplaceItem ==
  ASSUME ItemInv, NEW s \in items, NEW t \in ItemRow, items' = (items \ {s}) \cup {t},
         t.id = s.id, t.file = s.file, t.at <= minute, UNCHANGED minute,
         \A q \in queued' : \/ q \in queued
                            \/ q \in [source : Nat, user : People] /\ q.source = s.id /\ s.file
  PROVE  ItemInv'
<1>1. \A x \in items \ {s} : x.id # s.id
  BY DEF ItemInv, AdminTypeOK
<1>2. t \notin items \ {s}
  BY <1>1
<1>3. IsFiniteSet(items') /\ Cardinality(items') = Cardinality(items)
  <2>1. IsFiniteSet(items \ {s}) /\ Cardinality(items \ {s}) = Cardinality(items) - 1
    BY FS_RemoveElement DEF ItemInv
  <2>2. IsFiniteSet(items') /\ Cardinality(items') = Cardinality(items \ {s}) + 1
    BY <1>2, <2>1, FS_AddElement
  <2>3. Cardinality(items) \in Nat
    BY FS_CardinalityType DEF ItemInv
  <2>4. QED
    BY <2>1, <2>2, <2>3
<1>4. items' \subseteq ItemRow /\ queued' \subseteq [source : Nat, user : People]
  BY DEF ItemInv
<1>5. \A x \in items' : x.id <= Cardinality(items')
  BY <1>3 DEF ItemInv
<1>6. AdminTypeOK'
  <2>1. \A x \in items' : x.status \in Statuses /\ x.owner \in People /\ x.at <= minute
    BY DEF ItemInv, AdminTypeOK, ItemRow
  <2>2. \A x, y \in items' : x.id = y.id => x = y
    BY <1>1 DEF ItemInv, AdminTypeOK
  <2>3. {x.id : x \in items} \subseteq {x.id : x \in items'}
    OBVIOUS
  <2>4. \A q \in queued' : q.source \in {x.id : x \in items'} /\ q.user \in People
    BY <2>3 DEF ItemInv, AdminTypeOK
  <2>5. QED
    BY <2>1, <2>2, <2>4 DEF AdminTypeOK
<1>7. RetryRuns'
  BY <1>1 DEF ItemInv, RetryRuns
<1>8. QED
  BY <1>3, <1>4, <1>5, <1>6, <1>7 DEF ItemInv

(* A new row has the next number. *)
LEMMA IngestItemKeeps ==
  ASSUME ItemInv, NEW u \in People, NEW file \in BOOLEAN, IngestItem(u, file)
  PROVE  ItemInv'
<1>1. PICK n \in Nat : n = Cardinality(items)
  BY FS_CardinalityType DEF ItemInv
<1>2. PICK new : new = [id |-> n + 1, owner |-> u, status |-> IF file THEN "pending" ELSE "processing",
                        at |-> minute, file |-> file, by |-> u, page |-> Nobody1]
  OBVIOUS
<1>3. /\ items' = items \cup {new} /\ UNCHANGED minute
      /\ queued' = IF file THEN queued \cup {[source |-> n + 1, user |-> u]} ELSE queued
  BY <1>1, <1>2 DEF IngestItem
<1>4. /\ new \in ItemRow /\ new.id = n + 1 /\ new.at = minute /\ new.file = file
  BY <1>2 DEF ItemRow, Statuses, ItemInv
<1>5. \A x \in items : x.id \in Nat /\ x.id <= n
  BY <1>1 DEF ItemInv, ItemRow
<1>6. new \notin items
  BY <1>4, <1>5
<1>7. IsFiniteSet(items') /\ Cardinality(items') = n + 1
  BY <1>1, <1>3, <1>6, FS_AddElement DEF ItemInv
<1>8. items' \subseteq ItemRow /\ \A x \in items' : x.id <= n + 1
  BY <1>3, <1>4, <1>5 DEF ItemInv
<1>9. \A q \in queued' : \/ q \in queued
                         \/ q = [source |-> n + 1, user |-> u] /\ file
  BY <1>3
<1>10. queued' \subseteq [source : Nat, user : People]
  BY <1>9 DEF ItemInv
<1>11. AdminTypeOK'
  <2>1. \A x \in items' : x.status \in Statuses /\ x.owner \in People /\ x.at <= minute
    BY <1>3, <1>4 DEF ItemInv, AdminTypeOK, ItemRow
  <2>2. \A x, y \in items' : x.id = y.id => x = y
    BY <1>3, <1>4, <1>5 DEF ItemInv, AdminTypeOK
  <2>3. \A q \in queued' : q.source \in {x.id : x \in items'} /\ q.user \in People
    BY <1>3, <1>4, <1>9 DEF ItemInv, AdminTypeOK
  <2>4. QED
    BY <1>3, <2>1, <2>2, <2>3 DEF AdminTypeOK
<1>12. RetryRuns'
  <2> SUFFICES ASSUME NEW q \in queued', NEW x \in items', x.id = q.source
               PROVE  x.file
    BY DEF RetryRuns
  <2>1. CASE q \in queued
    <3>1. q.source <= n
      BY <1>5, <2>1 DEF ItemInv, AdminTypeOK
    <3>2. x \in items
      BY <1>3, <1>4, <3>1
    <3>3. QED
      BY <2>1, <3>2 DEF ItemInv, RetryRuns
  <2>2. CASE q = [source |-> n + 1, user |-> u] /\ file
    <3>1. x.id = n + 1
      BY <2>2
    <3>2. x = new
      BY <1>3, <1>5, <3>1
    <3>3. QED
      BY <1>4, <2>2, <3>2
  <2>3. QED
    BY <1>9, <2>1, <2>2
<1>13. QED
  BY <1>3, <1>7, <1>8, <1>10, <1>11, <1>12 DEF ItemInv

(* Every step keeps what is said of the rows. *)
LEMMA NextItems == ItemInv /\ (AdminNext \/ UNCHANGED adminVars) => ItemInv'
<1> SUFFICES ASSUME ItemInv, AdminNext \/ UNCHANGED adminVars
             PROVE  ItemInv'
  OBVIOUS
<1>1. ASSUME NEW q \in queued, RunItem(q) PROVE ItemInv'
  <2>1. PICK s \in items : items' = (items \ {s}) \cup {[s EXCEPT !.status = "processing", !.by = q.user]}
    BY <1>1 DEF RunItem, Set
  <2>2. PICK t : t = [s EXCEPT !.status = "processing", !.by = q.user]
    OBVIOUS
  <2>3. t \in ItemRow /\ t.id = s.id /\ t.file = s.file /\ t.at <= minute
    BY <2>2 DEF ItemInv, AdminTypeOK, ItemRow, Statuses
  <2>4. queued' \subseteq queued /\ UNCHANGED minute
    BY <1>1 DEF RunItem
  <2>5. QED
    BY <2>1, <2>2, <2>3, <2>4, ReplaceItem
<1>2. ASSUME NEW s \in items, retry_stuck_source(s) PROVE ItemInv'
  <2>1. PICK t : t = [s EXCEPT !.status = "pending"]
    OBVIOUS
  <2>2. t \in ItemRow /\ t.id = s.id /\ t.file = s.file /\ t.at <= minute
    BY <2>1 DEF ItemInv, AdminTypeOK, ItemRow, Statuses
  <2>3. [source |-> s.id, user |-> Boss] \in [source : Nat, user : People]
    BY AdminAssumption DEF ItemInv, ItemRow
  <2>4. /\ s.file /\ items' = (items \ {s}) \cup {t} /\ UNCHANGED minute
        /\ queued' = queued \cup {[source |-> s.id, user |-> Boss]}
    BY <1>2, <2>1 DEF retry_stuck_source, Set
  <2>5. \A q \in queued' : \/ q \in queued
                           \/ q \in [source : Nat, user : People] /\ q.source = s.id /\ s.file
    BY <2>3, <2>4
  <2>6. QED
    BY <2>2, <2>4, <2>5, ReplaceItem
<1>3. ASSUME NEW s \in items, NEW st \in {"compiled", "failed"}, EndItem(s, st) PROVE ItemInv'
  <2>1. PICK t : t = [s EXCEPT !.status = st, !.page = IF st = "compiled" THEN PageOwner(s) ELSE @]
    OBVIOUS
  <2>2. s \in ItemRow
    BY DEF ItemInv
  <2>3. PageOwner(s) \in People \cup {Nobody1}
    BY <2>2 DEF PageOwner, ItemRow
  <2>4. t \in ItemRow /\ t.id = s.id /\ t.file = s.file /\ t.at = s.at
    BY <2>1, <2>2, <2>3 DEF ItemRow, Statuses
  <2>5. items' = (items \ {s}) \cup {t} /\ UNCHANGED <<queued, minute>>
    BY <1>3, <2>1 DEF EndItem, Set
  <2>6. t.at <= minute
    BY <2>4 DEF ItemInv, AdminTypeOK
  <2>7. QED
    BY <2>4, <2>5, <2>6, ReplaceItem
<1>4. CASE MinutePasses
  BY <1>4 DEF ItemInv, AdminTypeOK, RetryRuns, MinutePasses, ItemRow
<1>5. CASE UNCHANGED adminVars
  BY <1>5 DEF ItemInv, AdminTypeOK, RetryRuns, adminVars
<1>6. QED
  BY <1>1, <1>2, <1>3, <1>4, <1>5, IngestItemKeeps DEF AdminNext

(* It holds in every reachable state. *)
LEMMA ItemsAlways == AccessSpec => []ItemInv
<1>1. AccessInit => ItemInv
  BY FS_EmptySet DEF AccessInit, AdminInit, ItemInv, AdminTypeOK, RetryRuns
<1>2. ItemInv /\ [AccessNext]_allVars => ItemInv'
  BY NextItems DEF AccessNext, allVars, adminVars
<1>3. QED
  BY <1>1, <1>2, PTL DEF AccessSpec

(* A number by key, or none. *)
Entry(f, k) == IF k \in DOMAIN f THEN f[k] ELSE 0

(* The sources of one status. *)
LEMMA ByStatusIs ==
  ASSUME NEW S, NEW st
  PROVE  Entry(ByStatus(S), st) = Cardinality({s \in S : s.status = st})
<1>1. DOMAIN ByStatus(S) = {s.status : s \in S}
  BY DEF ByStatus
<1>2. CASE st \in {s.status : s \in S}
  BY <1>1, <1>2 DEF ByStatus, Entry
<1>3. CASE st \notin {s.status : s \in S}
  <2>1. {s \in S : s.status = st} = {}
    BY <1>3
  <2>2. QED
    BY <1>1, <1>3, <2>1, FS_EmptySet DEF Entry
<1>4. QED
  BY <1>2, <1>3

(* Totals of the rows are sums over the users. *)
LEMMA StatsAre == ItemInv => StatsAddUp
<1> SUFFICES ASSUME ItemInv
             PROVE  StatsAddUp
  OBVIOUS
<1>1. IsFiniteSet(items) /\ IsFiniteSet(People) /\ Nobody1 \notin People
  BY AdminAssumption DEF ItemInv, Nobody1
<1>2. \A s \in items : s.owner \in People /\ s.page \in People \cup {Nobody1}
  BY DEF ItemInv, ItemRow
<1>3. get_stats.sources = FoldFunction(+, 0, [u \in People |-> list_users[u].sources])
  <2>1. PICK g : g = [u \in People |-> list_users[u].sources]
    OBVIOUS
  <2>2. PICK own : own = [s \in items |-> s.owner]
    OBVIOUS
  <2>3. own \in [items -> People]
    BY <1>2, <2>2
  <2>4. \A u \in People : {s \in items : s.owner = u} = {s \in items : own[s] = u}
    BY <2>2
  <2>5. g = PartsOf(items, own, People)
    BY <2>1, <2>4 DEF list_users, PartsOf
  <2>6. FoldFunction(+, 0, g) = Cardinality(items)
    BY <1>1, <2>3, <2>5, SumOfParts
  <2>7. QED
    BY <2>1, <2>6 DEF get_stats
<1>4. get_stats.articles = FoldFunction(+, 0, [u \in People |-> list_users[u].articles])
  <2>1. PICK g : g = [u \in People |-> list_users[u].articles]
    OBVIOUS
  <2>2. PICK S : S = {s \in items : s.page # Nobody1}
    OBVIOUS
  <2>3. PICK own : own = [s \in S |-> s.page]
    OBVIOUS
  <2>4. own \in [S -> People] /\ IsFiniteSet(S)
    BY <1>1, <1>2, <2>2, <2>3, FS_Subset
  <2>5. \A u \in People : {s \in items : s.page = u} = {s \in S : own[s] = u}
    BY <1>1, <2>2, <2>3
  <2>6. g = PartsOf(S, own, People)
    BY <2>1, <2>5 DEF list_users, PartsOf
  <2>7. FoldFunction(+, 0, g) = Cardinality(S)
    BY <1>1, <2>4, <2>6, SumOfParts
  <2>8. QED
    BY <2>1, <2>2, <2>7 DEF get_stats
<1>5. ASSUME NEW st \in Statuses
      PROVE  Entry(get_stats.byStatus, st)
                = FoldFunction(+, 0, [u \in People |-> Entry(get_user_detail(u).byStatus, st)])
  <2>1. PICK g : g = [u \in People |-> Entry(get_user_detail(u).byStatus, st)]
    OBVIOUS
  <2>2. PICK S : S = {s \in items : s.status = st}
    OBVIOUS
  <2>3. PICK own : own = [s \in S |-> s.owner]
    OBVIOUS
  <2>4. own \in [S -> People] /\ IsFiniteSet(S)
    BY <1>1, <1>2, <2>2, <2>3, FS_Subset
  <2>5. ASSUME NEW u \in People
        PROVE  g[u] = Cardinality({s \in S : own[s] = u})
    <3>1. PICK R : R = {s \in items : s.owner = u}
      OBVIOUS
    <3>2. {s \in R : s.status = st} = {s \in S : own[s] = u}
      BY <2>2, <2>3, <3>1
    <3>3. get_user_detail(u).byStatus = ByStatus(R)
      BY <3>1 DEF get_user_detail
    <3>4. QED
      BY <2>1, <3>2, <3>3, ByStatusIs
  <2>6. g = PartsOf(S, own, People)
    <3>1. g = [u \in People |-> g[u]]
      BY <2>1
    <3>2. QED
      BY <2>5, <3>1 DEF PartsOf
  <2>7. FoldFunction(+, 0, g) = Cardinality(S)
    BY <1>1, <2>4, <2>6, SumOfParts
  <2>8. get_stats.byStatus = ByStatus(items)
    BY DEF get_stats
  <2>9. QED
    BY <2>1, <2>2, <2>7, <2>8, ByStatusIs
<1>6. QED
  BY <1>3, <1>4, <1>5 DEF StatsAddUp, Entry

(* services/admin.py: a retried source can run, and every job queued is of a   *)
(* source there is.                                                            *)
THEOREM RetriesAlwaysRun == AccessSpec => [](AdminTypeOK /\ RetryRuns)
  BY ItemsAlways, PTL DEF ItemInv

-----------------------------------------------------------------------------
(* Deletion of an account: the proofs *)

(* What the library's fold computes: the tables left after each set of the   *)
(* statements.                                                               *)
IsDeletion(f, B, n) ==
    f = [s \in SUBSET (1 .. n) |-> IF s = {} THEN B
                                   ELSE LET x == Max(s) IN DeleteRows(f[s \ {x}], DeletionOrder[x])]

(* The same, for the sets of at most K statements. *)
IsDeletionTo(f, B, n, K) ==
    \A s \in SUBSET (1 .. n) : Cardinality(s) <= K =>
        f[s] = IF s = {} THEN B ELSE LET x == Max(s) IN DeleteRows(f[s \ {x}], DeletionOrder[x])

(* It exists. *)
LEMMA DeletionExists ==
  ASSUME NEW n \in Nat, NEW B
  PROVE  \E f : IsDeletion(f, B, n)
<1>0. \A s \in SUBSET (1 .. n) : IsFiniteSet(s) /\ Cardinality(s) \in Nat /\ Cardinality(s) <= n
  <2>1. IsFiniteSet(1 .. n) /\ Cardinality(1 .. n) = n
    BY FS_Interval
  <2>2. QED
    BY <2>1, FS_Subset, FS_CardinalityType
<1>1. PICK T : T = {K \in Nat : ~\E f : IsDeletionTo(f, B, n, K)}
  OBVIOUS
<1>2. ASSUME T # {}
      PROVE  FALSE
  <2>1. PICK K \in T : \A y \in T : K <= y
    BY <1>1, <1>2, LeastNumber
  <2>2. K \in Nat
    BY <1>1, <2>1
  <2>3. CASE K = 0
    <3>1. PICK f : f = [s \in SUBSET (1 .. n) |-> B]
      OBVIOUS
    <3>2. ASSUME NEW s \in SUBSET (1 .. n), Cardinality(s) <= 0
          PROVE  s = {}
      BY <1>0, <3>2, FS_EmptySet
    <3>3. IsDeletionTo(f, B, n, K)
      BY <2>3, <3>1, <3>2 DEF IsDeletionTo
    <3>4. QED
      BY <1>1, <2>1, <3>3
  <2>4. CASE K # 0
    <3>1. K - 1 \in Nat /\ K - 1 \notin T
      BY <2>1, <2>2, <2>4
    <3>2. PICK f : IsDeletionTo(f, B, n, K - 1)
      BY <1>1, <3>1
    <3>3. PICK h : h = [s \in SUBSET (1 .. n) |-> IF s = {} THEN B
                                           ELSE LET x == Max(s) IN DeleteRows(f[s \ {x}], DeletionOrder[x])]
      OBVIOUS
    <3>4. ASSUME NEW s \in SUBSET (1 .. n), Cardinality(s) <= K - 1
          PROVE  h[s] = f[s]
      BY <3>2, <3>3, <3>4 DEF IsDeletionTo
    <3>5. ASSUME NEW s \in SUBSET (1 .. n), Cardinality(s) <= K, s # {}, NEW x, x = Max(s)
          PROVE  h[s] = DeleteRows(h[s \ {x}], DeletionOrder[x])
      <4>1. s \ {x} \in SUBSET (1 .. n) /\ Cardinality(s) \in Nat /\ Cardinality(s \ {x}) = Cardinality(s) - 1
        BY <3>5, MaxLeft
      <4>2. Cardinality(s \ {x}) <= K - 1
        BY <2>2, <3>5, <4>1
      <4>3. h[s \ {x}] = f[s \ {x}]
        BY <3>4, <4>1, <4>2
      <4>4. QED
        BY <3>3, <3>5, <4>3
    <3>6. h[{}] = B
      BY <3>3
    <3>7. IsDeletionTo(h, B, n, K)
      BY <3>5, <3>6 DEF IsDeletionTo
    <3>8. QED
      BY <1>1, <2>1, <3>7
  <2>5. QED
    BY <2>3, <2>4
<1>3. PICK f : IsDeletionTo(f, B, n, n)
  BY <1>1, <1>2
<1>4. PICK h : h = [s \in SUBSET (1 .. n) |-> f[s]]
  OBVIOUS
<1>5. ASSUME NEW s \in SUBSET (1 .. n), s # {}, NEW x, x = Max(s)
      PROVE  h[s] = DeleteRows(h[s \ {x}], DeletionOrder[x])
  <2>1. s \ {x} \in SUBSET (1 .. n)
    OBVIOUS
  <2>2. f[s] = DeleteRows(f[s \ {x}], DeletionOrder[x])
    BY <1>0, <1>3, <1>5 DEF IsDeletionTo
  <2>3. QED
    BY <1>4, <2>1, <2>2
<1>6. h[{}] = B
  BY <1>0, <1>3, <1>4 DEF IsDeletionTo
<1>7. h = [s \in SUBSET (1 .. n) |-> IF s = {} THEN B ELSE LET x == Max(s) IN DeleteRows(h[s \ {x}], DeletionOrder[x])]
  <2>1. h = [s \in SUBSET (1 .. n) |-> h[s]]
    BY <1>4
  <2>2. \A s \in SUBSET (1 .. n) : h[s] = IF s = {} THEN B ELSE LET x == Max(s) IN DeleteRows(h[s \ {x}], DeletionOrder[x])
    BY <1>5, <1>6
  <2>3. QED
    BY <2>1, <2>2
<1>8. QED
  BY <1>7 DEF IsDeletion

(* The statements one after the other. *)
LEMMA DeletionSteps ==
  ASSUME NEW B
  PROVE  \E w : /\ w[0] = B /\ w[19] = FoldLeft(DeleteRows, B, DeletionOrder)
                /\ \A k \in 1 .. 19 : w[k] = DeleteRows(w[k - 1], DeletionOrder[k])
<1>1. DOMAIN DeletionOrder = 1 .. 19
  BY DEF DeletionOrder
<1>2. PICK i : i = CHOOSE f : IsDeletion(f, B, 19)
  OBVIOUS
<1>3. IsDeletion(i, B, 19)
  BY <1>2, DeletionExists
<1>4. FoldLeft(DeleteRows, B, DeletionOrder) = i[1 .. 19]
  BY <1>1, <1>2 DEF IsDeletion, FoldLeft, MapThenFoldSet
<1>5. PICK w : w = [k \in 0 .. 19 |-> i[1 .. k]]
  OBVIOUS
<1>6. 1 .. 0 = {}
  OBVIOUS
<1>7. w[0] = B
  BY <1>3, <1>5, <1>6 DEF IsDeletion
<1>8. ASSUME NEW k \in 1 .. 19
      PROVE  w[k] = DeleteRows(w[k - 1], DeletionOrder[k])
  <2>1. Max(1 .. k) = k /\ (1 .. k) \ {k} = 1 .. k - 1 /\ 1 .. k # {}
    BY MaxInterval
  <2>2. PICK s : s = 1 .. k
    OBVIOUS
  <2>3. s \in SUBSET (1 .. 19) /\ s # {} /\ Max(s) = k /\ s \ {k} = 1 .. k - 1
    BY <2>1, <2>2
  <2>4. i[s] = DeleteRows(i[s \ {k}], DeletionOrder[k])
    BY <1>3, <2>3 DEF IsDeletion
  <2>5. k \in 0 .. 19 /\ k - 1 \in 0 .. 19
    OBVIOUS
  <2>6. w[k] = i[1 .. k] /\ w[k - 1] = i[1 .. k - 1]
    BY <1>5, <2>5
  <2>7. QED
    BY <2>2, <2>3, <2>4, <2>6
<1>9. QED
  BY <1>4, <1>5, <1>7, <1>8

(* Foreign keys lead to rows. *)
Closed(S) == \A c \in S \cap Tables : ForeignKeys[c] \subseteq S

(* Rows are of the tables there are; enforced foreign keys are kept.         *)
AccountInv ==
    /\ rows \subseteq Tables \cup {"User"} /\ enforced \in BOOLEAN
    /\ outcome \in {"none", "deleted", "refused"}
    /\ enforced /\ "User" \notin rows => rows \subseteq NoUserKey
    /\ enforced => Closed(rows)

(* Foreign keys name tables, none of which cascades or holds billing rows.   *)
LEMMA KeysAre ==
  ASSUME NEW c \in Tables
  PROVE  /\ ForeignKeys[c] \in SUBSET {"Article", "Source", "Conversation", "Job", "LintReport", "Tag"}
         /\ c \in NoUserKey => ForeignKeys[c] = {}
         /\ c \in Cascading => ForeignKeys[c] = {"Source"}
  BY DEF Tables, ForeignKeys, NoUserKey, Cascading

(* The order of the statements. *)
LEMMA OrderIs ==
  /\ DeletionOrder[1] = "ArticleConcept" /\ DeletionOrder[2] = "ArticleSource"
  /\ DeletionOrder[3] = "ContradictionFinding" /\ DeletionOrder[4] = "OrphanFinding"
  /\ DeletionOrder[5] = "StructuralFinding" /\ DeletionOrder[6] = "Query"
  /\ DeletionOrder[7] = "Backlink" /\ DeletionOrder[8] = "Article" /\ DeletionOrder[9] = "Source"
  /\ DeletionOrder[10] = "Concept" /\ DeletionOrder[11] = "Conversation"
  /\ DeletionOrder[12] = "FiledConversation" /\ DeletionOrder[13] = "Job"
  /\ DeletionOrder[14] = "CostLog" /\ DeletionOrder[15] = "SyncLog"
  /\ DeletionOrder[16] = "LintReport" /\ DeletionOrder[17] = "JobReport"
  /\ DeletionOrder[18] = "UserApiKey" /\ DeletionOrder[19] = "UserPreference"
  BY DEF DeletionOrder

(* Its tables. *)
Emptied == {"ArticleConcept", "ArticleSource", "ContradictionFinding", "OrphanFinding", "StructuralFinding", "Query",
            "Backlink", "Article", "Source", "Concept", "Conversation", "FiledConversation", "Job", "CostLog", "SyncLog",
            "LintReport", "JobReport", "UserApiKey", "UserPreference"}

LEMMA EmptiedAre == Range(DeletionOrder) = Emptied /\ \A t \in Emptied : \E k \in 1 .. 19 : DeletionOrder[k] = t
<1>1. \A t \in Emptied : \E k \in 1 .. 19 : DeletionOrder[k] = t
  BY OrderIs DEF Emptied
<1>2. DOMAIN DeletionOrder = 1 .. 19
  BY DEF DeletionOrder
<1>3. \A k \in 1 .. 19 : DeletionOrder[k] \in Emptied
  <2> SUFFICES ASSUME NEW k \in 1 .. 19
               PROVE  DeletionOrder[k] \in Emptied
    OBVIOUS
  <2>1. \/ k = 1 \/ k = 2 \/ k = 3 \/ k = 4 \/ k = 5 \/ k = 6 \/ k = 7 \/ k = 8 \/ k = 9 \/ k = 10
        \/ k = 11 \/ k = 12 \/ k = 13 \/ k = 14 \/ k = 15 \/ k = 16 \/ k = 17 \/ k = 18 \/ k = 19
    OBVIOUS
  <2>2. QED
    BY <2>1, OrderIs DEF Emptied
<1>4. QED
  BY <1>1, <1>2, <1>3 DEF Range

(* What refers to a table that is being emptied is empty already, cascades,  *)
(* or is a kind of row the order does not allow for.                         *)
LEMMA OrderAllows ==
  ASSUME NEW k \in 1 .. 19, NEW c \in Tables \cap Deletable, DeletionOrder[k] \in ForeignKeys[c]
  PROVE  c \in Cascading \/ \E j \in 1 .. k - 1 : DeletionOrder[j] = c
<1>1. c \in (Emptied \ {"FiledConversation", "JobReport"}) \cup NoUserKey \cup Cascading
  BY EmptiedAre DEF Deletable, Tables, ForeignKeys
<1>2. ForeignKeys[c] # {} => c \in Cascading \cup {"ArticleConcept", "ArticleSource", "ContradictionFinding",
                                  "OrphanFinding", "StructuralFinding", "Query", "Backlink"}
  BY <1>1 DEF Emptied, NoUserKey, Cascading, ForeignKeys
<1>3. CASE c \in {"ArticleConcept", "ArticleSource", "ContradictionFinding", "OrphanFinding", "StructuralFinding", "Query",
                  "Backlink"}
  <2>1. ForeignKeys[c] \subseteq {"Article", "Source", "LintReport", "Conversation"}
    BY <1>3 DEF ForeignKeys
  <2>2. DeletionOrder[k] \in {"Article", "Source", "LintReport", "Conversation"}
    BY <2>1
  <2>3. k \notin 1 .. 7
    <3> SUFFICES ASSUME k \in 1 .. 7
                 PROVE  FALSE
      OBVIOUS
    <3>1. k = 1 \/ k = 2 \/ k = 3 \/ k = 4 \/ k = 5 \/ k = 6 \/ k = 7
      OBVIOUS
    <3>2. QED
      BY <2>2, <3>1, OrderIs
  <2>4. \E j \in 1 .. 7 : DeletionOrder[j] = c
    BY <1>3, OrderIs
  <2>5. QED
    BY <2>3, <2>4
<1>4. QED
  BY <1>2, <1>3

(* The tables left after the statements: those of the start without the ones *)
(* emptied, unless the database refused.                                     *)
LEMMA LeftAfter ==
  ASSUME NEW B, B \subseteq Tables \cup {"User"}, NEW w, w[0] = B,
         \A k \in 1 .. 19 : w[k] = DeleteRows(w[k - 1], DeletionOrder[k])
  PROVE  \A k \in 0 .. 19 : \/ w[k] = {"refused"} /\ enforced
                            \/ /\ w[k] \subseteq B /\ "refused" \notin w[k]
                               /\ \A j \in 1 .. k : DeletionOrder[j] \notin w[k]
                               /\ enforced /\ Closed(B) => Closed(w[k])
<1> DEFINE P(k) == \/ w[k] = {"refused"} /\ enforced
                   \/ /\ w[k] \subseteq B /\ "refused" \notin w[k]
                      /\ \A j \in 1 .. k : DeletionOrder[j] \notin w[k]
                      /\ enforced /\ Closed(B) => Closed(w[k])
<1>0. "refused" \notin B
  BY DEF Tables, ForeignKeys
<1>1. P(0)
  BY <1>0
<1>2. ASSUME NEW k \in 1 .. 19, P(k - 1)
      PROVE  P(k)
  <2>1. PICK S, t : S = w[k - 1] /\ t = DeletionOrder[k]
    OBVIOUS
  <2>2. w[k] = DeleteRows(S, t)
    BY <2>1
  <2>3. \A j \in 1 .. k : j = k \/ j \in 1 .. k - 1
    OBVIOUS
  <2>4. CASE S = {"refused"}
    BY <1>2, <2>1, <2>2, <2>4 DEF DeleteRows
  <2>5. CASE S # {"refused"} /\ t \notin S
    BY <1>2, <2>1, <2>2, <2>3, <2>5 DEF DeleteRows
  <2>6. CASE S # {"refused"} /\ t \in S /\ ~enforced
    BY <1>2, <2>1, <2>2, <2>3, <2>6 DEF DeleteRows
  <2>7. CASE S # {"refused"} /\ t \in S /\ enforced /\ ~(Referrers(S, t) \subseteq Cascading)
    BY <2>2, <2>7 DEF DeleteRows
  <2>8. CASE S # {"refused"} /\ t \in S /\ enforced /\ Referrers(S, t) \subseteq Cascading
    <3>1. w[k] = S \ ({t} \cup Referrers(S, t))
      BY <2>2, <2>8 DEF DeleteRows
    <3>2. S \subseteq B /\ "refused" \notin S /\ \A j \in 1 .. k - 1 : DeletionOrder[j] \notin S
      BY <1>2, <2>1, <2>8
    <3>3. \A j \in 1 .. k : DeletionOrder[j] \notin w[k]
      BY <2>1, <2>3, <3>1, <3>2
    <3>4. ASSUME Closed(S), NEW c \in w[k] \cap Tables, NEW d \in ForeignKeys[c]
          PROVE  d \in w[k]
      <4>1. d \in S
        BY <3>1, <3>4 DEF Closed
      <4>2. c \in S \ {"User"}
        BY <3>1 DEF Tables, ForeignKeys
      <4>3. d # t
        BY <3>1, <4>2 DEF Referrers
      <4>4. d \notin Cascading
        BY KeysAre DEF Cascading
      <4>5. QED
        BY <2>8, <3>1, <4>1, <4>3, <4>4
    <3>5. Closed(S) => Closed(w[k])
      BY <3>4 DEF Closed
    <3>6. enforced /\ Closed(B) => Closed(S)
      BY <1>2, <2>1, <2>8
    <3>7. QED
      BY <3>1, <3>2, <3>3, <3>5, <3>6
  <2>9. QED
    BY <2>4, <2>5, <2>6, <2>7, <2>8
<1>3. QED
  <2>1. PICK T : T = {k \in Nat : k <= 19 /\ ~P(k)}
    OBVIOUS
  <2>2. ASSUME T # {}
        PROVE  FALSE
    <3>1. PICK k \in T : \A y \in T : k <= y
      BY <2>1, <2>2, LeastNumber
    <3>2. k \in Nat /\ k <= 19 /\ ~P(k)
      BY <2>1, <3>1
    <3>3. k # 0
      BY <1>1, <3>2
    <3>4. k \in 1 .. 19 /\ k - 1 \in Nat /\ k - 1 \notin T /\ k - 1 <= 19
      BY <3>1, <3>2, <3>3
    <3>5. P(k - 1)
      BY <2>1, <3>4
    <3>6. QED
      BY <1>2, <3>2, <3>4, <3>5
  <2>3. QED
    BY <2>1, <2>2

(* With rows of known tables only, the database never refuses. *)
LEMMA NotRefused ==
  ASSUME NEW B, B \subseteq (Tables \cup {"User"}) \cap Deletable, NEW w, w[0] = B,
         \A k \in 1 .. 19 : w[k] = DeleteRows(w[k - 1], DeletionOrder[k])
  PROVE  w[19] # {"refused"}
<1>1. "refused" \notin B /\ B \subseteq Tables \cup {"User"}
  BY DEF Tables, ForeignKeys
<1>2. \A k \in 0 .. 19 : \/ w[k] = {"refused"} /\ enforced
                         \/ /\ w[k] \subseteq B /\ "refused" \notin w[k]
                            /\ \A j \in 1 .. k : DeletionOrder[j] \notin w[k]
                            /\ enforced /\ Closed(B) => Closed(w[k])
  BY <1>1, LeftAfter
<1>3. PICK T : T = {k \in Nat : k <= 19 /\ w[k] = {"refused"}}
  OBVIOUS
<1>4. ASSUME T # {}
      PROVE  FALSE
  <2>1. PICK k \in T : \A y \in T : k <= y
    BY <1>3, <1>4, LeastNumber
  <2>2. k \in Nat /\ k <= 19 /\ w[k] = {"refused"}
    BY <1>3, <2>1
  <2>3. k # 0
    BY <1>1, <2>2
  <2>4. k \in 1 .. 19 /\ k - 1 \in Nat /\ k - 1 \notin T /\ k - 1 \in 0 .. 19
    BY <2>1, <2>2, <2>3
  <2>5. PICK S, t : S = w[k - 1] /\ t = DeletionOrder[k]
    OBVIOUS
  <2>6. S # {"refused"} /\ w[k] = DeleteRows(S, t)
    BY <1>3, <2>4, <2>5
  <2>7. S \subseteq B /\ "refused" \notin S /\ \A j \in 1 .. k - 1 : DeletionOrder[j] \notin S
    BY <1>2, <2>4, <2>5, <2>6
  <2>8. Referrers(S, t) \subseteq Cascading
    <3> SUFFICES ASSUME NEW c \in Referrers(S, t)
                 PROVE  c \in Cascading
      OBVIOUS
    <3>1. c \in S /\ c # "User" /\ t \in ForeignKeys[c]
      BY DEF Referrers
    <3>2. c \in Tables \cap Deletable
      BY <2>7, <3>1
    <3>3. c \in Cascading \/ \E j \in 1 .. k - 1 : DeletionOrder[j] = c
      BY <2>4, <2>5, <3>1, <3>2, OrderAllows
    <3>4. QED
      BY <2>7, <3>1, <3>3
  <2>9. "refused" \notin w[k]
    BY <2>6, <2>7, <2>8 DEF DeleteRows
  <2>10. QED
    BY <2>2, <2>9
<1>5. QED
  BY <1>3, <1>4

(* One deletion. *)
LEMMA DeleteIs ==
  ASSUME AccountInv, delete_account
  PROVE  /\ AccountInv'
         /\ outcome' = "refused" => ~(rows \subseteq Deletable)
         /\ outcome' = "deleted" =>
               rows' \subseteq (NoUserKey \ BillingRows) \cup (IF enforced THEN {} ELSE Cascading \cup (Tables \ Deletable))
<1>1. PICK B : B = rows \ BillingRows
  OBVIOUS
<1>2. PICK w : /\ w[0] = B /\ w[19] = FoldLeft(DeleteRows, B, DeletionOrder)
               /\ \A k \in 1 .. 19 : w[k] = DeleteRows(w[k - 1], DeletionOrder[k])
  BY DeletionSteps
<1>3. PICK left : left = w[19]
  OBVIOUS
<1>4. PICK ok : ok = (left # {"refused"} /\ (enforced => left \ {"User"} \subseteq NoUserKey))
  OBVIOUS
<1>5. /\ rows' = (IF ok THEN left \ {"User"} ELSE rows)
      /\ outcome' = (IF ok THEN "deleted" ELSE "refused")
      /\ UNCHANGED enforced
  BY <1>1, <1>2, <1>3, <1>4 DEF delete_account
<1>6. B \subseteq Tables \cup {"User"} /\ B \subseteq rows
  BY <1>1 DEF AccountInv
<1>7. enforced => Closed(B)
  <2> SUFFICES ASSUME enforced, NEW c \in B \cap Tables, NEW d \in ForeignKeys[c]
               PROVE  d \in B
    BY DEF Closed
  <2>1. d \in rows
    BY <1>6 DEF AccountInv, Closed
  <2>2. d \notin NoUserKey
    BY KeysAre DEF NoUserKey
  <2>3. QED
    BY <1>1, <2>1, <2>2 DEF BillingRows
<1>8. \/ left = {"refused"}
      \/ /\ left \subseteq B /\ "refused" \notin left
         /\ \A j \in 1 .. 19 : DeletionOrder[j] \notin left
         /\ enforced => Closed(left)
  <2>1. \A k \in 0 .. 19 : \/ w[k] = {"refused"} /\ enforced
                           \/ /\ w[k] \subseteq B /\ "refused" \notin w[k]
                              /\ \A j \in 1 .. k : DeletionOrder[j] \notin w[k]
                              /\ enforced /\ Closed(B) => Closed(w[k])
    BY <1>2, <1>6, LeftAfter
  <2>2. 19 \in 0 .. 19
    OBVIOUS
  <2>3. QED
    BY <1>3, <1>7, <2>1, <2>2
<1>9. left # {"refused"} => left \cap Emptied = {}
  BY <1>8, EmptiedAre
<1>10. rows \subseteq Deletable => ok
  <2> SUFFICES ASSUME rows \subseteq Deletable
               PROVE  ok
    OBVIOUS
  <2>1. left # {"refused"}
    BY <1>2, <1>3, <1>6, NotRefused
  <2>2. ASSUME enforced
        PROVE  left \ {"User"} \subseteq NoUserKey
    <3> SUFFICES ASSUME NEW c \in left \ {"User"}, c \notin NoUserKey
                 PROVE  FALSE
      OBVIOUS
    <3>1. c \in Cascading /\ c \in Tables
      BY <1>6, <1>8, <1>9, <2>1, EmptiedAre DEF Deletable
    <3>2. "Source" \in left
      BY <1>8, <2>1, <2>2, <3>1, KeysAre DEF Closed
    <3>3. QED
      BY <1>9, <2>1, <3>2 DEF Emptied
  <2>3. QED
    BY <1>4, <2>1, <2>2
<1>11. ok => rows' \subseteq (NoUserKey \ BillingRows) \cup (IF enforced THEN {} ELSE Cascading \cup (Tables \ Deletable))
  <2> SUFFICES ASSUME ok, NEW c \in rows'
               PROVE  c \in (NoUserKey \ BillingRows) \cup (IF enforced THEN {} ELSE Cascading \cup (Tables \ Deletable))
    OBVIOUS
  <2>1. c \in left \ {"User"} /\ c \in B /\ c \in Tables /\ c \notin Emptied /\ c \notin BillingRows
    BY <1>1, <1>4, <1>5, <1>6, <1>8, <1>9
  <2>2. enforced => c \in NoUserKey
    BY <1>4, <2>1
  <2>3. c \in Deletable => c \in NoUserKey \cup Cascading
    BY <2>1, EmptiedAre DEF Deletable
  <2>4. QED
    BY <2>1, <2>2, <2>3
<1>12. ASSUME ok
       PROVE  AccountInv'
  <2>1. rows' = left \ {"User"} /\ rows' \subseteq Tables /\ outcome' = "deleted" /\ enforced' = enforced
    BY <1>4, <1>5, <1>6, <1>8, <1>12
  <2>2. enforced => rows' \subseteq NoUserKey
    BY <1>4, <1>12, <2>1
  <2>3. enforced => Closed(rows')
    BY <2>1, <2>2, KeysAre DEF Closed
  <2>4. Closed(rows)' = Closed(rows')
    BY DEF Closed
  <2>5. QED
    BY <2>1, <2>2, <2>3, <2>4 DEF AccountInv
<1>13. ASSUME ~ok
       PROVE  AccountInv'
  <2>1. rows' = rows /\ outcome' = "refused" /\ enforced' = enforced
    BY <1>5, <1>13
  <2>2. QED
    BY <2>1 DEF AccountInv, Closed
<1>14. QED
  BY <1>5, <1>10, <1>11, <1>12, <1>13

(* An insertion keeps what is said of the rows. *)
LEMMA InsertKeeps ==
  ASSUME AccountInv, NEW t \in Tables, Insert(t)
  PROVE  AccountInv'
<1>1. /\ "User" \in rows /\ ForeignKeys[t] \subseteq rows
      /\ rows' = rows \cup {t} /\ outcome' = "none" /\ enforced' = enforced
  BY DEF Insert
<1>2. enforced => Closed(rows')
  BY <1>1 DEF AccountInv, Closed
<1>3. Closed(rows)' = Closed(rows')
  BY DEF Closed
<1>4. QED
  BY <1>1, <1>2, <1>3 DEF AccountInv

(* It holds in every reachable state. *)
LEMMA AccountsAlways == AccessSpec => []AccountInv
<1>1. AccessInit => AccountInv
  <2> SUFFICES ASSUME AccessInit
               PROVE  AccountInv
    OBVIOUS
  <2>1. AccountsInit
    BY DEF AccessInit
  <2>2. "User" \notin Tables
    BY DEF Tables, ForeignKeys
  <2>3. QED
    BY <2>1, <2>2 DEF AccountsInit, AccountInv, Closed
<1>2. AccountInv /\ (AccountsNext \/ UNCHANGED accountVars) => AccountInv'
  <2>1. ASSUME AccountInv, UNCHANGED accountVars
        PROVE  AccountInv'
    BY <2>1 DEF AccountInv, accountVars, Closed
  <2>2. QED
    BY <2>1, DeleteIs, InsertKeeps DEF AccountsNext
<1>3. AccountInv /\ [AccessNext]_allVars => AccountInv'
  BY <1>2 DEF AccessNext, allVars, accountVars
<1>4. QED
  BY <1>1, <1>3, PTL DEF AccessSpec

(* services/user.py, delete_account: an account with rows only in the tables *)
(* it empties is deleted, whatever rows there are of them and whether the    *)
(* database checks foreign keys or not; and nothing that it should remove    *)
(* is left.                                                                  *)
THEOREM DeletionAlwaysWhole == AccessSpec => DeletionIsWhole
<1> DEFINE Whole ==
       /\ outcome' = "refused" => ~(rows \subseteq Deletable)
       /\ outcome' = "deleted" =>
             rows' \subseteq (NoUserKey \ BillingRows) \cup (IF enforced THEN {} ELSE Cascading \cup (Tables \ Deletable))
<1>1. AccountInv /\ [AccessNext]_allVars => [Whole]_accountVars
  <2> SUFFICES ASSUME AccountInv, [AccessNext]_allVars
               PROVE  [Whole]_accountVars
    OBVIOUS
  <2>1. AccountsNext \/ UNCHANGED accountVars
    BY DEF AccessNext, allVars, accountVars
  <2>2. ASSUME NEW t \in Tables, Insert(t)
        PROVE  outcome' = "none"
    BY <2>2 DEF Insert
  <2>3. QED
    BY <2>1, <2>2, DeleteIs DEF AccountsNext
<1>2. QED
  BY <1>1, AccountsAlways, PTL DEF AccessSpec, DeletionIsWhole

(* services/api_keys.py, services/admin.py, services/user.py: the key of a   *)
(* provider is the one saved last, the administrator's totals are the sums   *)
(* over the users, what is retried can run, and no row outlives its account  *)
(* where foreign keys are enforced.                                          *)
THEOREM KeysAndJobsAlwaysSound == AccessSpec => []KeysAndJobsSound
<1>1. AccountInv => AccountsTypeOK
  BY DEF AccountInv, AccountsTypeOK
<1>2. ItemInv => AdminTypeOK /\ StatsAddUp /\ RetryRuns
  BY StatsAre DEF ItemInv
<1>3. AccountInv /\ ItemInv /\ ApiKeysTypeOK /\ KeyIsLatest => KeysAndJobsSound
  BY <1>1, <1>2 DEF KeysAndJobsSound
<1>4. QED
  BY <1>3, AccountsAlways, ItemsAlways, KeysAlwaysLatest, PTL

-----------------------------------------------------------------------------
(* Results in order: the proofs *)

InRank(score, s) == \A i, j \in DOMAIN s : i < j => Better(score, s[i], s[j])

(* Of finitely many scored ids one is behind all others. *)
LEMMA WorstExists ==
  ASSUME NEW S \in SUBSET Nat, IsFiniteSet(S), S # {}, NEW score, \A x \in S : score[x] \in Nat
  PROVE  \E x \in S : \A t \in S \ {x} : Better(score, t, x)
<1>1. PICK I : I = {score[t] : t \in S}
  OBVIOUS
<1>2. I \in SUBSET Nat /\ I # {}
  BY <1>1
<1>3. PICK m \in I : \A y \in I : m <= y
  BY <1>2, LeastNumber
<1>4. PICK C : C = {t \in S : score[t] = m}
  OBVIOUS
<1>5. C \in SUBSET Nat /\ IsFiniteSet(C) /\ C # {}
  BY <1>1, <1>3, <1>4, FS_Subset
<1>6. PICK x \in C : \A y \in C : y <= x
  BY <1>5, GreatestNumber
<1>7. ASSUME NEW t \in S \ {x}
      PROVE  Better(score, t, x)
  <2>1. score[x] = m /\ score[t] \in Nat /\ m \in Nat /\ m <= score[t]
    BY <1>1, <1>2, <1>3, <1>4, <1>6
  <2>2. CASE score[t] = m
    <3>1. t <= x /\ t # x /\ t \in Nat /\ x \in Nat
      BY <1>4, <1>5, <1>6, <1>7, <2>2
    <3>2. QED
      BY <2>1, <2>2, <3>1 DEF Better
  <2>3. CASE score[t] # m
    BY <2>1, <2>3 DEF Better
  <2>4. QED
    BY <2>2, <2>3
<1>8. QED
  BY <1>4, <1>6, <1>7

(* Finitely many scored ids can be put in order. *)
LEMMA RankExists ==
  ASSUME NEW U \in SUBSET Nat, IsFiniteSet(U), NEW score, \A x \in U : score[x] \in Nat
  PROVE  \E s \in SetToSeqs(U) : InRank(score, s)
<1>1. PICK B : B = {k \in Nat : \E S \in SUBSET U : IsFiniteSet(S) /\ Cardinality(S) = k /\ ~\E s \in SetToSeqs(S) : InRank(score, s)}
  OBVIOUS
<1>2. ASSUME B # {}
      PROVE  FALSE
  <2>1. PICK k \in B : \A y \in B : k <= y
    BY <1>1, <1>2, LeastNumber
  <2>2. k \in Nat
    BY <1>1, <2>1
  <2>3. PICK S \in SUBSET U : IsFiniteSet(S) /\ Cardinality(S) = k /\ ~\E s \in SetToSeqs(S) : InRank(score, s)
    BY <1>1, <2>1
  <2>4. CASE S = {}
    <3>1. k = 0
      BY <2>3, <2>4, FS_EmptySet
    <3>2. PICK s : s = [i \in 1 .. 0 |-> 0]
      OBVIOUS
    <3>3. s \in [1 .. Cardinality(S) -> S] /\ DOMAIN s = {} /\ 1 .. Cardinality(S) = {}
      BY <2>3, <2>4, <3>1, <3>2
    <3>4. s \in SetToSeqs(S) /\ InRank(score, s)
      BY <3>3 DEF SetToSeqs, InRank
    <3>5. QED
      BY <2>3, <3>4
  <2>5. CASE S # {}
    <3>1. S \in SUBSET Nat /\ \A x \in S : score[x] \in Nat
      OBVIOUS
    <3>2. PICK x \in S : \A t \in S \ {x} : Better(score, t, x)
      BY <2>3, <2>5, <3>1, WorstExists
    <3>6. PICK R : R = S \ {x}
      OBVIOUS
    <3>7. R \in SUBSET U /\ IsFiniteSet(R) /\ Cardinality(R) = k - 1 /\ Cardinality(R) \in Nat
      BY <2>3, <3>2, <3>6, FS_RemoveElement, FS_CardinalityType
    <3>8. Cardinality(R) \notin B
      BY <2>1, <2>2, <3>7
    <3>9. PICK s \in SetToSeqs(R) : InRank(score, s)
      BY <1>1, <3>7, <3>8
    <3>10. s \in [1 .. k - 1 -> R] /\ \A i, j \in 1 .. k - 1 : i # j => s[i] # s[j]
      BY <3>7, <3>9 DEF SetToSeqs
    <3>11. PICK u : u = [i \in 1 .. k |-> IF i = k THEN x ELSE s[i]]
      OBVIOUS
    <3>12. k - 1 \in Nat /\ \A i \in 1 .. k : i # k => i \in 1 .. k - 1
      BY <2>2, <3>7
    <3>13. u \in [1 .. k -> S]
      BY <3>2, <3>6, <3>10, <3>11, <3>12
    <3>14. \A i, j \in 1 .. k : i # j => u[i] # u[j]
      BY <3>6, <3>10, <3>11, <3>12
    <3>15. ASSUME NEW i \in 1 .. k, NEW j \in 1 .. k, i < j
           PROVE  Better(score, u[i], u[j])
      <4>1. i \in 1 .. k - 1
        BY <2>2, <3>15
      <4>2. u[i] = s[i] /\ s[i] \in S \ {x}
        BY <2>2, <3>6, <3>10, <3>11, <4>1
      <4>3. CASE j = k
        BY <3>2, <3>11, <4>2, <4>3
      <4>4. CASE j # k
        <5>1. j \in 1 .. k - 1 /\ u[j] = s[j]
          BY <3>11, <3>12, <4>4
        <5>2. QED
          BY <3>9, <3>10, <3>15, <4>1, <4>2, <5>1 DEF InRank
      <4>5. QED
        BY <4>3, <4>4
    <3>16. u \in SetToSeqs(S)
      BY <2>3, <3>13, <3>14 DEF SetToSeqs
    <3>17. InRank(score, u)
      BY <3>13, <3>15 DEF InRank
    <3>18. QED
      BY <2>3, <3>16, <3>17
  <2>6. QED
    BY <2>4, <2>5
<1>3. Cardinality(U) \in Nat
  BY FS_CardinalityType
<1>4. QED
  BY <1>1, <1>2, <1>3

(* What Ranked returns: each id once. *)
LEMMA RankedIs ==
  ASSUME NEW U \in SUBSET Nat, IsFiniteSet(U), NEW score, \A x \in U : score[x] \in Nat
  PROVE  /\ Ranked(U, score) \in Seq(U) /\ Len(Ranked(U, score)) = Cardinality(U)
         /\ Range(Ranked(U, score)) = U
<1>1. \E s \in SetToSeqs(U) : \A i, j \in DOMAIN s : i < j => Better(score, s[i], s[j])
  BY RankExists DEF InRank
<1>2. PICK s : s = Ranked(U, score)
  OBVIOUS
<1>3. s \in SetToSeqs(U)
  BY <1>1, <1>2 DEF Ranked
<1>4. /\ s \in [1 .. Cardinality(U) -> U] /\ Cardinality(U) \in Nat
      /\ \A i, j \in 1 .. Cardinality(U) : i # j => s[i] # s[j]
  BY <1>3, FS_CardinalityType DEF SetToSeqs
<1>5. s \in Seq(U) /\ Len(s) = Cardinality(U)
  BY <1>4, FunIsSeq
<1>6. \A x \in U : \E i \in 1 .. Cardinality(U) : s[i] = x
  BY <1>4, AllTaken
<1>7. Range(s) = U
  BY <1>4, <1>6 DEF Range
<1>8. QED
  BY <1>2, <1>5, <1>7

(* What Keep returns: a sequence, at most as long. *)
LEMMA KeepIs ==
  ASSUME NEW U, NEW s \in Seq(U), NEW S
  PROVE  /\ Keep(s, S) = [k \in 1 .. Len(Keep(s, S)) |-> Keep(s, S)[k]]
         /\ Len(Keep(s, S)) \in Nat /\ Len(Keep(s, S)) <= Len(s)
         /\ \E V : Keep(s, S) \in Seq(V)
<1>1. PICK at : at = {i \in DOMAIN s : s[i] \in S}
  OBVIOUS
<1>2. DOMAIN s = 1 .. Len(s) /\ Len(s) \in Nat
  BY LenProperties
<1>3. IsFiniteSet(1 .. Len(s)) /\ Cardinality(1 .. Len(s)) = Len(s)
  BY <1>2, FS_Interval
<1>4. Cardinality(at) \in Nat /\ Cardinality(at) <= Len(s)
  BY <1>1, <1>2, <1>3, FS_Subset, FS_CardinalityType
<1>5. PICK t : t = Keep(s, S)
  OBVIOUS
<1>6. DOMAIN t = 1 .. Cardinality(at) /\ t = [k \in 1 .. Cardinality(at) |-> t[k]]
  BY <1>1, <1>5 DEF Keep
<1>7. PICK V : V = {t[k] : k \in 1 .. Cardinality(at)}
  OBVIOUS
<1>8. t \in [1 .. Cardinality(at) -> V]
  BY <1>6, <1>7
<1>9. t \in Seq(V) /\ Len(t) = Cardinality(at)
  BY <1>4, <1>8, FunIsSeq
<1>10. QED
  BY <1>4, <1>5, <1>6, <1>9

-----------------------------------------------------------------------------
(* The readers' tables: the proofs *)

(* There are finitely many pages, no more than ids. *)
LEMMA PagesFinite ==
  ASSUME PagesOK
  PROVE  IsFiniteSet(page) /\ Cardinality(page) \in Nat /\ Cardinality(page) <= MaxPages
<1>1. PICK f : f = [p \in page |-> p.id]
  OBVIOUS
<1>2. f \in [page -> 1 .. MaxPages]
  BY <1>1 DEF PagesOK, PageRow, Ids
<1>3. \A p, q \in page : f[p] = f[q] => p = q
  BY <1>1 DEF PagesOK
<1>4. f \in Injection(page, 1 .. MaxPages)
  BY <1>2, <1>3 DEF Injection, IsInjective
<1>5. MaxPages \in Nat /\ IsFiniteSet(1 .. MaxPages) /\ Cardinality(1 .. MaxPages) = MaxPages
  BY LibraryAssumption, FS_Interval
<1>6. IsFiniteSet(page) /\ Cardinality(page) <= MaxPages
  BY <1>4, <1>5, FS_Injection
<1>7. QED
  BY <1>6, FS_CardinalityType

(* A new row's number is new. *)
LEMMA NextIdIs ==
  ASSUME PagesOK, VectorsOK
  PROVE  NextId \in Nat /\ (\A p \in page : p.id # NextId) /\ (\A v \in vec : v.id # NextId)
<1>1. PICK P : P = {p.id : p \in page}
  OBVIOUS
<1>2. PICK V : V = {v.id : v \in vec}
  OBVIOUS
<1>3. PICK f, g : f = [p \in page |-> p.id] /\ g = [v \in vec |-> v.id]
  OBVIOUS
<1>4. P = {f[p] : p \in page} /\ V = {g[v] : v \in vec}
  BY <1>1, <1>2, <1>3
<1>5. IsFiniteSet(P)
  BY <1>3, <1>4, PagesFinite, ImageFinite
<1>6. IsFiniteSet(V)
  BY <1>3, <1>4, ImageFinite DEF VectorsOK
<1>7. PICK T : T = P \cup V \cup {0}
  OBVIOUS
<1>8. IsFiniteSet(T)
  <2>1. IsFiniteSet(P \cup V)
    BY <1>5, <1>6, FS_Union
  <2>2. QED
    BY <1>7, <2>1, FS_AddElement
<1>9. T \in SUBSET Nat /\ T # {}
  BY <1>1, <1>2, <1>7 DEF PagesOK, PageRow, Ids, VectorsOK
<1>10. PICK m : m = Max(T)
  OBVIOUS
<1>11. m \in T /\ \A y \in T : y <= m
  BY <1>8, <1>9, <1>10, MaxIs
<1>12. NextId = m + 1
  BY <1>1, <1>2, <1>7, <1>10 DEF NextId
<1>13. QED
  BY <1>1, <1>2, <1>7, <1>9, <1>11, <1>12

(* A number that a finite set leaves free. *)
LEMMA SlugIsFree ==
  ASSUME PagesOK, NEW u, NEW title
  PROVE  \A p \in page : p.owner = u => p.slug # generate_unique_slug(u, title)
<1>1. PICK used : used = {p.slug : p \in {q \in page : q.owner = u}}
  OBVIOUS
<1>2. PICK own : own = {q \in page : q.owner = u}
  OBVIOUS
<1>3. IsFiniteSet(own) /\ Cardinality(own) \in Nat /\ Cardinality(own) <= MaxPages
  BY <1>2, PagesFinite, FS_Subset, FS_CardinalityType, LibraryAssumption
<1>4. IsFiniteSet(used) /\ Cardinality(used) <= Cardinality(own)
  <2>1. PICK f : f = [q \in own |-> q.slug]
    OBVIOUS
  <2>2. used = {f[q] : q \in own}
    BY <1>1, <1>2, <2>1
  <2>3. QED
    BY <1>3, <2>1, <2>2, ImageFinite
<1>5. PICK T : T = {n \in 1 .. MaxPages + 1 : <<title.low, n>> \notin used}
  OBVIOUS
<1>6. T # {}
  <2> SUFFICES ASSUME T = {}
               PROVE  FALSE
    OBVIOUS
  <2>1. MaxPages \in Nat
    BY LibraryAssumption
  <2>2. PICK f : f = [n \in 1 .. MaxPages + 1 |-> <<title.low, n>>]
    OBVIOUS
  <2>3. f \in [1 .. MaxPages + 1 -> used]
    BY <1>5, <2>2
  <2>4. \A m, n \in 1 .. MaxPages + 1 : f[m] = f[n] => m = n
    BY <2>2
  <2>5. f \in Injection(1 .. MaxPages + 1, used)
    BY <2>3, <2>4 DEF Injection, IsInjective
  <2>6. Cardinality(1 .. MaxPages + 1) <= Cardinality(used)
    BY <1>4, <2>5, FS_Injection
  <2>7. Cardinality(1 .. MaxPages + 1) = MaxPages + 1
    BY <2>1, FS_Interval
  <2>8. Cardinality(used) \in Nat
    BY <1>4, FS_CardinalityType
  <2>9. QED
    BY <1>3, <1>4, <2>1, <2>6, <2>7, <2>8
<1>7. T \in SUBSET Nat
  BY <1>5
<1>8. PICK n \in T : \A m \in T : n <= m
  BY <1>6, <1>7, LeastNumber
<1>9. PICK X : X = {<<title.low, m>> : m \in 1 .. MaxPages + 1}
  OBVIOUS
<1>10. PICK z : z = <<title.low, n>>
  OBVIOUS
<1>11. z \in X /\ z \notin used /\ z[2] = n
  BY <1>5, <1>8, <1>9, <1>10
<1>12. \A m \in 1 .. n - 1 : <<title.low, m>> \in used
  BY <1>5, <1>8, LibraryAssumption
<1>13. \E s \in X : s \notin used /\ \A m \in 1 .. s[2] - 1 : <<title.low, m>> \in used
  BY <1>11, <1>12
<1>14. generate_unique_slug(u, title) = CHOOSE s \in X : s \notin used /\ \A m \in 1 .. s[2] - 1 : <<title.low, m>> \in used
  BY <1>1, <1>9 DEF generate_unique_slug
<1>15. generate_unique_slug(u, title) \notin used
  BY <1>13, <1>14
<1>16. QED
  BY <1>1, <1>15

(* A page is added: with its index, or as one that is not indexed.           *)
LEMMA PageAdded ==
  ASSUME LibInv, NEW u \in Readers, NEW f, IsFiniteSet(f.kinds), NEW p, p = Row(u, f), p.id \in Ids,
         page' = page \cup {p}, UNCHANGED <<link, tag, tagged>>,
         \/ fts' = fts \cup {Index(p)} /\ UNCHANGED unindexed
         \/ UNCHANGED fts /\ unindexed' = unindexed \cup {p.id},
         vec' = vec \/ \E v : vec' = vec \cup {v} /\ v.id = p.id /\ v.owner = u
  PROVE  LibInv'
<1>1. /\ p.id = NextId /\ p.owner = u /\ p.slug = generate_unique_slug(u, f.title)
      /\ p.sources = {[owner |-> u, kind |-> k] : k \in f.kinds}
      /\ p = [id |-> p.id, owner |-> p.owner, title |-> p.title, slug |-> p.slug, kind |-> p.kind,
              topics |-> p.topics, words |-> p.words, sources |-> p.sources]
  BY DEF Row
<1>2. PagesOK /\ LinksOK /\ TagsOK /\ TaggedOK /\ IndexOK /\ VectorsOK
  BY DEF LibInv
<1>3. p.id \in Nat /\ (\A q \in page : q.id # p.id) /\ (\A v \in vec : v.id # p.id)
  BY <1>1, <1>2, NextIdIs
<1>4. \A q \in page : q.owner = u => q.slug # p.slug
  BY <1>1, <1>2, SlugIsFree
<1>5. IsFiniteSet(p.sources)
  <2>1. PICK g : g = [k \in f.kinds |-> [owner |-> u, kind |-> k]]
    OBVIOUS
  <2>2. p.sources = {g[k] : k \in f.kinds}
    BY <1>1, <2>1
  <2>3. QED
    BY <2>1, <2>2, ImageFinite
<1>6. PageRow(p)
  BY <1>1, <1>5 DEF PageRow
<1>7. PagesOK'
  BY <1>1, <1>2, <1>3, <1>4, <1>6 DEF PagesOK
<1>8. LinksOK'
  BY <1>2 DEF LinksOK
<1>9. TagsOK' /\ TaggedOK'
  BY <1>2 DEF TagsOK, TaggedOK
<1>10. IndexOK'
  <2>1. Index(p).id = p.id
    BY DEF Index
  <2>2. CASE fts' = fts \cup {Index(p)} /\ UNCHANGED unindexed
    <3>1. \A g \in fts : g.id # p.id
      BY <1>2, <1>3 DEF IndexOK
    <3>2. QED
      BY <1>2, <2>1, <2>2, <3>1 DEF IndexOK
  <2>3. CASE UNCHANGED fts /\ unindexed' = unindexed \cup {p.id}
    BY <1>2, <2>3 DEF IndexOK
  <2>4. QED
    BY <2>2, <2>3
<1>11. VectorsOK'
  <2>1. CASE vec' = vec
    BY <1>2, <1>3, <2>1 DEF VectorsOK
  <2>2. CASE \E v : vec' = vec \cup {v} /\ v.id = p.id /\ v.owner = u
    <3>1. PICK v : vec' = vec \cup {v} /\ v.id = p.id /\ v.owner = u
      BY <2>2
    <3>2. IsFiniteSet(vec')
      BY <1>2, <3>1, FS_AddElement DEF VectorsOK
    <3>3. QED
      BY <1>1, <1>2, <1>3, <3>1, <3>2 DEF VectorsOK
  <2>3. QED
    BY <2>1, <2>2
<1>12. QED
  BY <1>7, <1>8, <1>9, <1>10, <1>11 DEF LibInv

(* A page's words are edited. *)
LEMMA WordsEdited ==
  ASSUME LibInv, NEW p \in page, NEW S, EditWords(p, S)
  PROVE  LibInv'
<1>1. PICK n : n = [p EXCEPT !.words = S]
  OBVIOUS
<1>2. /\ page' = (page \ {p}) \cup {n} /\ unindexed' = unindexed \cup {p.id}
      /\ UNCHANGED <<link, tag, tagged, fts, vec>>
  BY <1>1 DEF EditWords
<1>3. PagesOK /\ LinksOK /\ TagsOK /\ TaggedOK /\ IndexOK /\ VectorsOK /\ PageRow(p)
  BY DEF LibInv, PagesOK
<1>4. n = [id |-> p.id, owner |-> p.owner, title |-> p.title, slug |-> p.slug, kind |-> p.kind,
           topics |-> p.topics, words |-> S, sources |-> p.sources]
  BY <1>1, <1>3 DEF PageRow
<1>5. n.id = p.id /\ n.owner = p.owner /\ n.slug = p.slug /\ PageRow(n)
  BY <1>3, <1>4 DEF PageRow
<1>6. PagesOK'
  BY <1>2, <1>3, <1>5 DEF PagesOK
<1>7. \A q \in page : \E r \in page' : r.id = q.id /\ r.owner = q.owner
  BY <1>2, <1>5
<1>8. LinksOK'
  BY <1>2, <1>3, <1>7 DEF LinksOK
<1>9. TagsOK'
  BY <1>2, <1>3 DEF TagsOK
<1>10. TaggedOK'
  BY <1>2, <1>3, <1>7 DEF TaggedOK
<1>11. IndexOK'
  BY <1>2, <1>3, <1>5, <1>7 DEF IndexOK
<1>12. VectorsOK'
  BY <1>2, <1>3, <1>5 DEF VectorsOK
<1>13. QED
  BY <1>6, <1>8, <1>9, <1>10, <1>11, <1>12 DEF LibInv

(* A page is removed. *)
LEMMA PageRemoved ==
  ASSUME LibInv, NEW p \in page, RemovePage(p)
  PROVE  LibInv'
<1>1. /\ page' = page \ {p} /\ link' = {l \in link : p.id \notin {l.from, l.to}}
      /\ fts' = {f \in fts : f.id # p.id} /\ unindexed' = unindexed \ {p.id}
      /\ UNCHANGED <<tag, tagged, vec>> /\ \A x \in tagged : x.page # p.id
  BY DEF RemovePage, LinksWithout
<1>2. PagesOK /\ LinksOK /\ TagsOK /\ TaggedOK /\ IndexOK /\ VectorsOK
  BY DEF LibInv
<1>3. PagesOK'
  BY <1>1, <1>2 DEF PagesOK
<1>4. LinksOK'
  BY <1>1, <1>2 DEF LinksOK
<1>5. TagsOK' /\ VectorsOK'
  BY <1>1, <1>2 DEF TagsOK, VectorsOK
<1>6. TaggedOK'
  BY <1>1, <1>2 DEF TaggedOK
<1>7. \A q \in page' : q.id # p.id /\ Index(q).id = q.id
  BY <1>1, <1>2 DEF PagesOK, Index
<1>8. IndexOK'
  BY <1>1, <1>2, <1>7 DEF IndexOK
<1>9. QED
  BY <1>3, <1>4, <1>5, <1>6, <1>8 DEF LibInv

(* The index is rebuilt. *)
LEMMA IndexRebuilt ==
  ASSUME LibInv, RebuildIndex
  PROVE  LibInv'
<1>1. /\ fts' = {Index(p) : p \in page} /\ UNCHANGED <<page, link, tag, tagged, vec>>
  BY DEF RebuildIndex, rebuild_fts_index
<1>2. \A p \in page : Index(p).id = p.id
  BY DEF Index
<1>3. IndexOK'
  BY <1>1, <1>2 DEF IndexOK, LibInv, PagesOK
<1>4. QED
  BY <1>1, <1>3 DEF LibInv, PagesOK, LinksOK, TagsOK, TaggedOK, VectorsOK

(* A compiled page links to one of the same user. *)
LEMMA LinkAdded ==
  ASSUME LibInv, NEW p \in page, NEW text, NEW relation, AddLink(p, text, relation)
  PROVE  LibInv'
<1>1. PICK q \in resolve_backlink_candidates(D, p.owner, text, p.id) :
         link' = link \cup {[from |-> p.id, to |-> q.id, relation |-> relation, owner |-> p.owner]}
  BY DEF AddLink
<1>2. q \in page /\ q.owner = p.owner
  BY DEF resolve_backlink_candidates, First, D
<1>3. UNCHANGED <<page, tag, tagged, fts, vec, unindexed>>
  BY DEF AddLink
<1>4. LinksOK'
  BY <1>1, <1>2, <1>3 DEF LibInv, LinksOK
<1>5. QED
  BY <1>3, <1>4 DEF LibInv, PagesOK, TagsOK, TaggedOK, IndexOK, VectorsOK

(* A tag is added. *)
LEMMA TagAdded ==
  ASSUME LibInv, NEW u, NEW name, create_tag(u, name)
  PROVE  LibInv'
<1>1. PICK I : I = {t.id : t \in tag}
  OBVIOUS
<1>2. IsFiniteSet(tag) /\ (\A t \in tag : t.id \in Nat)
  BY DEF LibInv, TagsOK
<1>3. IsFiniteSet(I \cup {0}) /\ I \cup {0} \in SUBSET Nat
  <2>1. PICK f : f = [t \in tag |-> t.id]
    OBVIOUS
  <2>2. I = {f[t] : t \in tag}
    BY <1>1, <2>1
  <2>3. IsFiniteSet(I)
    BY <1>2, <2>1, <2>2, ImageFinite
  <2>4. QED
    BY <1>1, <1>2, <2>3, FS_AddElement
<1>4. PICK m : m = Max(I \cup {0})
  OBVIOUS
<1>5. m \in Nat /\ \A y \in I : y <= m
  <2>1. I \cup {0} # {}
    OBVIOUS
  <2>2. m \in I \cup {0} /\ \A y \in I \cup {0} : y <= m
    BY <1>3, <1>4, <2>1, MaxIs
  <2>3. QED
    BY <1>3, <2>2
<1>6. PICK n : n = [id |-> m + 1, owner |-> u, name |-> name]
  OBVIOUS
<1>7. /\ tag' = tag \cup {n} /\ UNCHANGED <<page, link, tagged, fts, vec, unindexed>>
      /\ ~\E t \in tag : t.owner = u /\ t.name = name
  BY <1>1, <1>4, <1>6 DEF create_tag
<1>8. \A t \in tag : t.id # m + 1
  BY <1>1, <1>2, <1>5
<1>9. IsFiniteSet(tag')
  BY <1>2, <1>7, FS_AddElement
<1>10. TagsOK'
  BY <1>5, <1>6, <1>7, <1>8, <1>9 DEF LibInv, TagsOK
<1>11. TaggedOK'
  BY <1>7 DEF LibInv, TaggedOK
<1>12. QED
  BY <1>7, <1>10, <1>11 DEF LibInv, PagesOK, LinksOK, IndexOK, VectorsOK

(* A page is tagged, or no longer. *)
LEMMA TagPut ==
  ASSUME LibInv, NEW u, NEW t, NEW p, tag_article(u, t, p)
  PROVE  LibInv'
<1>1. PICK x : x = [page |-> p.id, tag |-> t.id]
  OBVIOUS
<1>2. /\ tagged' = tagged \cup {x} /\ UNCHANGED <<page, link, tag, fts, vec, unindexed>>
      /\ t \in tag /\ p \in page /\ t.owner = p.owner
  BY <1>1 DEF tag_article, _get_tag, _get_article
<1>3. IsFiniteSet(tagged')
  BY <1>2, FS_AddElement DEF LibInv, TaggedOK
<1>4. TaggedOK'
  BY <1>1, <1>2, <1>3 DEF LibInv, TaggedOK
<1>5. QED
  BY <1>2, <1>4 DEF LibInv, PagesOK, LinksOK, TagsOK, IndexOK, VectorsOK

LEMMA TagTaken ==
  ASSUME LibInv, NEW u, NEW t, NEW x, untag_article(u, t, x)
  PROVE  LibInv'
<1>1. tagged' = tagged \ {x} /\ UNCHANGED <<page, link, tag, fts, vec, unindexed>>
  BY DEF untag_article
<1>2. IsFiniteSet(tagged')
  BY <1>1, FS_RemoveElement DEF LibInv, TaggedOK
<1>3. TaggedOK'
  BY <1>1, <1>2 DEF LibInv, TaggedOK
<1>4. QED
  BY <1>1, <1>3 DEF LibInv, PagesOK, LinksOK, TagsOK, IndexOK, VectorsOK

(* A tag is deleted, with its uses. *)
LEMMA TagDeleted ==
  ASSUME LibInv, NEW u, NEW t \in tag, delete_tag(u, t)
  PROVE  LibInv'
<1>1. /\ tagged' = {x \in tagged : x.tag # t.id} /\ tag' = tag \ {t}
      /\ UNCHANGED <<page, link, fts, vec, unindexed>>
  BY DEF delete_tag
<1>2. IsFiniteSet(tagged') /\ IsFiniteSet(tag')
  BY <1>1, FS_Subset, FS_RemoveElement DEF LibInv, TaggedOK, TagsOK
<1>3. TagsOK'
  BY <1>1, <1>2 DEF LibInv, TagsOK
<1>4. TaggedOK'
  BY <1>1, <1>2 DEF LibInv, TaggedOK
<1>5. QED
  BY <1>1, <1>3, <1>4 DEF LibInv, PagesOK, LinksOK, IndexOK, VectorsOK

(* Every step keeps what is said of the tables. *)
LEMMA NextLibrary == LibInv /\ (LibraryNext \/ UNCHANGED libVars) => LibInv'
<1> SUFFICES ASSUME LibInv, LibraryNext \/ UNCHANGED libVars
             PROVE  LibInv'
  OBVIOUS
<1>1. ASSUME NEW u \in Readers, NEW f \in Profiles, NEW embedded \in BOOLEAN, CompilePage(u, f, embedded)
      PROVE  LibInv'
  <2>1. PICK p : p = Row(u, f)
    OBVIOUS
  <2>2. /\ p.id \in Ids /\ page' = page \cup {p} /\ fts' = fts \cup {Index(p)}
        /\ vec' = IF embedded THEN vec \cup {[id |-> p.id, owner |-> u, words |-> p.words]} ELSE vec
        /\ UNCHANGED <<link, tag, tagged, saved, unindexed>>
    BY <1>1, <2>1 DEF CompilePage
  <2>3. PICK v : v = [id |-> p.id, owner |-> u, words |-> p.words]
    OBVIOUS
  <2>4. vec' = vec \/ (vec' = vec \cup {v} /\ v.id = p.id /\ v.owner = u)
    BY <2>2, <2>3
  <2>5. QED
    BY <2>1, <2>2, <2>4, PageAdded, LibraryAssumption
<1>2. ASSUME NEW u \in Readers, NEW f \in Profiles, create_stub_article(u, f.title)
      PROVE  LibInv'
  <2>1. PICK g : g = [title |-> f.title, kind |-> "source", topics |-> {}, words |-> {}, kinds |-> {}]
    OBVIOUS
  <2>2. PICK p : p = Row(u, g)
    OBVIOUS
  <2>3. /\ p.id \in Ids /\ page' = page \cup {p} /\ unindexed' = unindexed \cup {p.id}
        /\ UNCHANGED <<link, tag, tagged, saved, fts, vec>>
    BY <1>2, <2>1, <2>2 DEF create_stub_article
  <2>4. IsFiniteSet(g.kinds)
    BY <2>1, FS_EmptySet
  <2>5. QED
    BY <2>2, <2>3, <2>4, PageAdded
<1>3. ASSUME NEW u, NEW w, NEW tags, SaveSearch(u, w, tags)
      PROVE  LibInv'
  BY <1>3 DEF SaveSearch, LibInv, PagesOK, LinksOK, TagsOK, TaggedOK, IndexOK, VectorsOK
<1>4. ASSUME NEW s \in saved, DeleteSearch(s)
      PROVE  LibInv'
  BY <1>4 DEF DeleteSearch, LibInv, PagesOK, LinksOK, TagsOK, TaggedOK, IndexOK, VectorsOK
<1>5. CASE UNCHANGED libVars
  BY <1>5 DEF libVars, LibInv, PagesOK, LinksOK, TagsOK, TaggedOK, IndexOK, VectorsOK
<1>6. QED
  BY <1>1, <1>2, <1>3, <1>4, <1>5, WordsEdited, PageRemoved, IndexRebuilt, LinkAdded, TagAdded, TagPut, TagTaken,
     TagDeleted DEF LibraryNext

(* It holds in every reachable state. *)
LEMMA LibraryAlways == AccessSpec => []LibInv
<1>1. AccessInit => LibInv
  BY FS_EmptySet DEF AccessInit, LibraryInit, LibInv, PagesOK, LinksOK, TagsOK, TaggedOK, IndexOK, VectorsOK
<1>2. LibInv /\ [AccessNext]_allVars => LibInv'
  BY NextLibrary DEF AccessNext, allVars, libVars
<1>3. QED
  BY <1>1, <1>2, PTL DEF AccessSpec

-----------------------------------------------------------------------------
(* What a search finds: the proofs *)

(* The ids search_articles ranks. *)
Hits(d, u, w) == {p.id : p \in {q \in d.page : q.owner = u}} \cap {f.id : f \in {g \in d.fts : w \in g.title \/ w \in g.words}}

(* What search_articles returns. *)
LEMMA SearchIs ==
  ASSUME LibInv, NEW u, NEW w
  PROVE  /\ search_articles(D, u, w) \in Seq(Hits(D, u, w)) /\ Range(search_articles(D, u, w)) = Hits(D, u, w)
         /\ Len(search_articles(D, u, w)) \in Nat /\ Len(search_articles(D, u, w)) <= MaxPages
         /\ IsFiniteSet(Hits(D, u, w)) /\ Hits(D, u, w) \subseteq {p.id : p \in {q \in page : q.owner = u}}
<1>1. PICK H : H = Hits(D, u, w)
  OBVIOUS
<1>2. PICK hit : hit = {f \in D.fts : w \in f.title \/ w \in f.words}
  OBVIOUS
<1>3. PICK score : score = [id \in H |-> IF w \in (CHOOSE f \in hit : f.id = id).title THEN 5 ELSE 1]
  OBVIOUS
<1>4. search_articles(D, u, w) = Ranked(H, score)
  BY <1>1, <1>2, <1>3 DEF search_articles, Hits
<1>5. H \subseteq {p.id : p \in {q \in page : q.owner = u}} /\ H \in SUBSET (1 .. MaxPages)
  BY <1>1 DEF Hits, D, LibInv, PagesOK, PageRow, Ids
<1>6. MaxPages \in Nat /\ IsFiniteSet(1 .. MaxPages) /\ Cardinality(1 .. MaxPages) = MaxPages
  BY LibraryAssumption, FS_Interval
<1>7. IsFiniteSet(H) /\ Cardinality(H) \in Nat /\ Cardinality(H) <= MaxPages
  BY <1>5, <1>6, FS_Subset, FS_CardinalityType
<1>8. \A x \in H : score[x] \in Nat
  BY <1>3
<1>9. H \in SUBSET Nat
  BY <1>5, <1>6
<1>10. Ranked(H, score) \in Seq(H) /\ Len(Ranked(H, score)) = Cardinality(H) /\ Range(Ranked(H, score)) = H
  BY <1>7, <1>8, <1>9, RankedIs
<1>11. QED
  BY <1>1, <1>4, <1>5, <1>7, <1>10

(* The page of an id. *)
LEMMA OfIs ==
  ASSUME LibInv, NEW p \in page
  PROVE  Of(D, p.id) = p
<1>1. \A q \in page : q.id = p.id => q = p
  BY DEF LibInv, PagesOK
<1>2. QED
  BY <1>1 DEF Of, D

(* Found is what has the word. *)
LEMMA FoundHolds == LibInv => FoundIsThere
<1> SUFFICES ASSUME LibInv, NEW u \in Readers, NEW w \in Words
             PROVE  Range(search_articles(D, u, w)) \ unindexed
                      = {p.id : p \in {q \in page : q.owner = u /\ KeywordScore(q, w) > 0}} \ unindexed
  BY DEF FoundIsThere
<1>1. \A q \in page : KeywordScore(q, w) > 0 <=> w \in q.title.words \/ w \in q.words
  BY DEF KeywordScore
<1>2. \A q \in page : Index(q).id = q.id /\ Index(q).title = q.title.words /\ Index(q).words = q.words
  BY DEF Index
<1>3. ASSUME NEW q \in page, q.id \notin unindexed, NEW f \in fts, f.id = q.id
      PROVE  f = Index(q)
  BY <1>2, <1>3 DEF LibInv, IndexOK
<1>4. Range(search_articles(D, u, w)) = {p.id : p \in {q \in page : q.owner = u}}
                                           \cap {f.id : f \in {g \in fts : w \in g.title \/ w \in g.words}}
  <2>1. Range(search_articles(D, u, w)) = Hits(D, u, w)
    BY SearchIs
  <2>2. D.page = page /\ D.fts = fts
    BY DEF D
  <2>3. QED
    BY <2>1, <2>2 DEF Hits
<1>5. ASSUME NEW x \in {p.id : p \in {q \in page : q.owner = u}} \cap {f.id : f \in {g \in fts : w \in g.title \/ w \in g.words}},
             x \notin unindexed
      PROVE  x \in {p.id : p \in {q \in page : q.owner = u /\ KeywordScore(q, w) > 0}}
  <2>1. PICK q \in page : q.owner = u /\ q.id = x
    OBVIOUS
  <2>2. PICK f \in fts : f.id = x /\ (w \in f.title \/ w \in f.words)
    OBVIOUS
  <2>3. f = Index(q)
    BY <1>3, <1>5, <2>1, <2>2
  <2>4. KeywordScore(q, w) > 0
    BY <1>1, <1>2, <2>2, <2>3
  <2>5. QED
    BY <2>1, <2>4
<1>6. ASSUME NEW q \in page, q.owner = u, KeywordScore(q, w) > 0, q.id \notin unindexed
      PROVE  q.id \in {p.id : p \in {r \in page : r.owner = u}} \cap {f.id : f \in {g \in fts : w \in g.title \/ w \in g.words}}
  <2>1. Index(q) \in fts
    BY <1>6 DEF LibInv, IndexOK
  <2>2. QED
    BY <1>1, <1>2, <1>6, <2>1
<1>7. QED
  BY <1>4, <1>5, <1>6

(* The least of two numbers. *)
LEMMA MinTwo ==
  ASSUME NEW a \in Nat, NEW b \in Nat
  PROVE  Min({a, b}) = IF a <= b THEN a ELSE b
<1>1. PICK m : m = IF a <= b THEN a ELSE b
  OBVIOUS
<1>2. m \in {a, b} /\ \A y \in {a, b} : m <= y
  BY <1>1
<1>3. Min({a, b}) \in {a, b} /\ \A y \in {a, b} : Min({a, b}) <= y
  BY <1>2 DEF Min
<1>4. QED
  BY <1>1, <1>2, <1>3

(* Slices of one element, and the whole. *)
LEMMA SlicesAre ==
  ASSUME NEW V, NEW s \in Seq(V), Len(s) <= MaxPages, NEW i \in Ids
  PROVE  Slice(s, 0, MaxPages) = s /\ Slice(s, i - 1, 1) = IF i <= Len(s) THEN <<s[i]>> ELSE <<>>
<1>1. Len(s) \in Nat /\ MaxPages \in Nat /\ i \in Nat /\ i # 0
  BY LenProperties, LibraryAssumption DEF Ids
<1>2. Slice(s, 0, MaxPages) = SubSeq(s, 1, Len(s))
  <2>1. Min({0 + MaxPages, Len(s)}) = Len(s)
    BY <1>1, MinTwo
  <2>2. 0 + 1 = 1
    OBVIOUS
  <2>3. QED
    BY <2>1, <2>2 DEF Slice
<1>3. SubSeq(s, 1, Len(s)) = s
  BY <1>1
<1>4. Slice(s, i - 1, 1) = SubSeq(s, i, IF i <= Len(s) THEN i ELSE Len(s))
  <2>1. (i - 1) + 1 = i
    BY <1>1
  <2>2. Min({i, Len(s)}) = IF i <= Len(s) THEN i ELSE Len(s)
    BY <1>1, MinTwo
  <2>3. QED
    BY <2>1, <2>2 DEF Slice
<1>5. CASE i <= Len(s)
  <2>1. SubSeq(s, i, i) = <<s[i]>>
    <3>1. SubSeq(s, i, i) = [j \in 1 .. 1 |-> s[i + j - 1]]
      BY <1>1, <1>5
    <3>2. \A j \in 1 .. 1 : j = 1 /\ i + j - 1 = i
      BY <1>1
    <3>3. QED
      BY <3>1, <3>2
  <2>2. QED
    BY <1>2, <1>3, <1>4, <1>5, <2>1
<1>6. CASE ~(i <= Len(s))
  <2>1. SubSeq(s, i, Len(s)) = <<>>
    BY <1>1, <1>6
  <2>2. QED
    BY <1>2, <1>3, <1>4, <1>6, <2>1
<1>7. QED
  BY <1>5, <1>6

(* Pages of results put together are the results. *)
LEMMA PagesHold == LibInv => PagesCoverResults
<1> SUFFICES ASSUME LibInv, NEW u \in Readers, NEW w \in Words, NEW k \in Kinds3 \cup {"any"}, NEW i \in Ids,
                    NEW facet, facet = (IF k = "any" THEN "none" ELSE "page_type")
             PROVE  SearchPage(D, u, w, facet, k, i - 1, 1)
                       = IF i <= Len(SearchPage(D, u, w, facet, k, 0, MaxPages))
                         THEN <<SearchPage(D, u, w, facet, k, 0, MaxPages)[i]>> ELSE <<>>
  BY DEF PagesCoverResults
<1>1. PICK found : found = search_articles(D, u, w)
  OBVIOUS
<1>2. PICK s : s = Keep(found, _apply_facet_filters(D, u, Range(found), facet, k))
  OBVIOUS
<1>3. /\ SearchPage(D, u, w, facet, k, i - 1, 1) = Slice(s, i - 1, 1)
      /\ SearchPage(D, u, w, facet, k, 0, MaxPages) = Slice(s, 0, MaxPages)
  BY <1>1, <1>2 DEF SearchPage
<1>4. found \in Seq(Hits(D, u, w)) /\ Len(found) \in Nat /\ Len(found) <= MaxPages
  BY <1>1, SearchIs
<1>5. Len(s) \in Nat /\ Len(s) <= Len(found) /\ \E V : s \in Seq(V)
  BY <1>2, <1>4, KeepIs
<1>6. PICK V : s \in Seq(V)
  BY <1>5
<1>7. Len(s) <= MaxPages
  BY <1>4, <1>5, LibraryAssumption
<1>8. Slice(s, 0, MaxPages) = s /\ Slice(s, i - 1, 1) = IF i <= Len(s) THEN <<s[i]>> ELSE <<>>
  BY <1>6, <1>7, SlicesAre
<1>9. QED
  BY <1>3, <1>8

-----------------------------------------------------------------------------
(* Catalogues, graph, suggestions and facets: the proofs *)

(* The tables' shape. *)
LEMMA LibraryTyped == LibInv => LibraryTypeOK
<1> SUFFICES ASSUME LibInv
             PROVE  LibraryTypeOK
  OBVIOUS
<1>1. Cardinality({p.id : p \in page}) = Cardinality(page)
  <2>1. PICK T : T = {p.id : p \in page}
    OBVIOUS
  <2>2. PICK f : f = [p \in page |-> p.id]
    OBVIOUS
  <2>3. f \in [page -> T] /\ \A z \in T : \E p \in page : f[p] = z
    BY <2>1, <2>2
  <2>4. \A p, q \in page : f[p] = f[q] => p = q
    BY <2>2 DEF LibInv, PagesOK
  <2>5. IsFiniteSet(page)
    BY PagesFinite DEF LibInv
  <2>6. Cardinality(T) = Cardinality(page)
    BY <2>3, <2>4, <2>5, SameSize
  <2>7. QED
    BY <2>1, <2>6
<1>2. \A p, q \in page : p.owner = q.owner /\ p.slug = q.slug => p = q
  BY DEF LibInv, PagesOK
<1>3. \A t, s \in tag : t.owner = s.owner /\ t.name = s.name => t = s
  BY DEF LibInv, TagsOK
<1>4. \A x \in tagged : x.tag \in {t.id : t \in tag} /\ x.page \in {p.id : p \in page}
  BY DEF LibInv, TaggedOK
<1>5. \A f \in fts : f.id \in {p.id : p \in page}
  BY DEF LibInv, IndexOK
<1>6. QED
  BY <1>1, <1>2, <1>3, <1>4, <1>5 DEF LibraryTypeOK

(* A graph of the links E and the articles P. *)
NodeOf(E, p) ==
    [id |-> p.id, topics |-> p.topics,
     count |-> Cardinality({l \in E : l.from = p.id}) + Cardinality({l \in E : l.to = p.id})]
GraphOf(E, P) == [nodes |-> {NodeOf(E, p) : p \in P}, edges |-> E]

(* The user's graph is that of the user's links and articles. *)
LEMMA GraphIs ==
  ASSUME NEW d, NEW u
  PROVE  get_graph(d, u, "any") = GraphOf({l \in d.link : l.owner = u}, {q \in d.page : q.owner = u})
<1>1. PICK P : P = {q \in d.page : q.owner = u}
  OBVIOUS
<1>2. PICK E : E = {l \in d.link : l.owner = u /\ ("any" # "any" => l.relation = "any")}
  OBVIOUS
<1>3. get_graph(d, u, "any") = GraphOf({l \in d.link : l.owner = u /\ ("any" # "any" => l.relation = "any")}, {q \in d.page : q.owner = u})
  BY DEF get_graph, GraphOf, NodeOf
<1>4. E = {l \in d.link : l.owner = u}
  BY <1>2
<1>5. QED
  BY <1>2, <1>3, <1>4

(* An edge of the user's graph joins two of the user's articles. *)
LEMMA GraphCloses == LibInv => GraphClosed
<1> SUFFICES ASSUME LibInv, NEW u \in Readers, NEW g, g = get_graph(D, u, "any"), NEW l \in g.edges
             PROVE  l.from \in {n.id : n \in g.nodes} /\ l.to \in {n.id : n \in g.nodes}
  BY DEF GraphClosed
<1>1. PICK E : E = {k \in D.link : k.owner = u}
  OBVIOUS
<1>2. PICK P : P = {q \in D.page : q.owner = u}
  OBVIOUS
<1>3. g = GraphOf(E, P)
  BY <1>1, <1>2, GraphIs
<1>4. l \in link /\ l.owner = u
  BY <1>1, <1>3 DEF GraphOf, D
<1>5. \A p \in P : \E n \in g.nodes : n.id = p.id
  <2> TAKE p \in P
  <2>1. NodeOf(E, p) \in g.nodes
    BY <1>3 DEF GraphOf
  <2>2. NodeOf(E, p).id = p.id
    BY DEF NodeOf
  <2>3. QED
    BY <2>1, <2>2
<1>6. PICK p, q \in page : l.from = p.id /\ l.to = q.id /\ p.owner = l.owner /\ q.owner = l.owner
  BY <1>4 DEF LibInv, LinksOK
<1>7. p \in P /\ q \in P
  BY <1>2, <1>4, <1>6 DEF D
<1>8. QED
  BY <1>5, <1>6, <1>7

(* A pair is suggested for the first reason found. *)
LEMMA SuggestsOnce == SuggestedOnce
<1> SUFFICES ASSUME NEW u \in Readers, NEW a \in get_synthesis_suggestions(D, u),
                    NEW b \in get_synthesis_suggestions(D, u), a[2] = b[2]
             PROVE  a = b
  BY DEF SuggestedOnce
<1>1. PICK S : S = {p.id : p \in {q \in D.page : q.owner = u /\ q.kind # "synthesis"}}
  OBVIOUS
<1>2. PICK A : A = _find_shared_concept_suggestions(D, S)
  OBVIOUS
<1>3. PICK B : B = _find_contradiction_suggestions(D, u) \ A
  OBVIOUS
<1>4. PICK E : E = _find_different_source_suggestions(D, S) \ (A \cup B)
  OBVIOUS
<1>5. get_synthesis_suggestions(D, u) = ({"shared"} \X A) \cup ({"contradiction"} \X B) \cup ({"sources"} \X E)
  BY <1>1, <1>2, <1>3, <1>4 DEF get_synthesis_suggestions
<1>6. A \cap B = {} /\ A \cap E = {} /\ B \cap E = {}
  BY <1>3, <1>4
<1>7. QED
  BY <1>5, <1>6

(* An article is listed under each of its concepts, or as uncategorized. *)
LEMMA IndexHasAll == IndexListsAll
<1> SUFFICES ASSUME NEW u \in Readers
             PROVE  regenerate_index_md(D, u) = {p.slug : p \in {q \in page : q.owner = u}}
  BY DEF IndexListsAll
<1>1. PICK S : S = {p \in D.page : p.owner = u}
  OBVIOUS
<1>2. PICK T : T = UNION {p.topics : p \in S}
  OBVIOUS
<1>3. PICK of : of = [c \in T |-> {p.slug : p \in {q \in S : c \in q.topics}}]
  OBVIOUS
<1>4. regenerate_index_md(D, u) = (UNION Range(of)) \cup {p.slug : p \in {q \in S : q.topics = {}}}
  BY <1>1, <1>2, <1>3 DEF regenerate_index_md, _group_articles_by_concept, _build_index_lines
<1>5. UNION Range(of) = {p.slug : p \in {q \in S : q.topics # {}}}
  <2>1. \A c \in T : of[c] = {p.slug : p \in {q \in S : c \in q.topics}}
    BY <1>3
  <2>2. Range(of) = {of[c] : c \in T}
    BY <1>3 DEF Range
  <2>3. ASSUME NEW q \in S, q.topics # {}
        PROVE  q.slug \in UNION Range(of)
    <3>1. PICK c \in T : c \in q.topics
      BY <1>2, <2>3
    <3>2. QED
      BY <2>1, <2>2, <3>1
  <2>4. ASSUME NEW x \in UNION Range(of)
        PROVE  x \in {p.slug : p \in {q \in S : q.topics # {}}}
    BY <2>1, <2>2
  <2>5. QED
    BY <2>3, <2>4
<1>6. D.page = page
  BY DEF D
<1>7. \A x : x \in {p.slug : p \in S} <=> x \in {p.slug : p \in {q \in S : q.topics # {}}} \/ x \in {p.slug : p \in {q \in S : q.topics = {}}}
  OBVIOUS
<1>8. PICK A : A = {p.slug : p \in {q \in S : q.topics # {}}}
  OBVIOUS
<1>9. PICK B : B = {p.slug : p \in {q \in S : q.topics = {}}}
  OBVIOUS
<1>10. regenerate_index_md(D, u) = A \cup B
  BY <1>4, <1>5, <1>8, <1>9
<1>11. A \cup B = {p.slug : p \in S}
  BY <1>7, <1>8, <1>9
<1>12. QED
  BY <1>1, <1>6, <1>10, <1>11

(* A link opens where the compiler saw it lead. *)
LEMMA ResolversDo == LibInv => ResolversAgree
<1> SUFFICES ASSUME LibInv, NEW p \in page, NEW f \in Profiles,
                    process_wikilinks(D, p.owner, f.title) # {}, process_wikilinks(D, p.owner, f.title) # {p}
             PROVE  process_wikilinks(D, p.owner, f.title) = resolve_backlink_candidates(D, p.owner, f.title, p.id)
  BY DEF ResolversAgree
<1>1. PICK R : R = {q \in page : q.owner = p.owner /\ q.title.low = f.title.low}
  OBVIOUS
<1>2. process_wikilinks(D, p.owner, f.title) = First(R)
  BY <1>1 DEF process_wikilinks, D
<1>3. PICK q \in First(R) : TRUE
  BY <1>2
<1>4. \A a, b \in page : a.id = b.id => a = b
  BY DEF LibInv, PagesOK
<1>5. \A a \in page : a.id \in Nat
  BY LibraryAssumption DEF LibInv, PagesOK, PageRow, Ids
<1>6. First(R) = {q}
  BY <1>1, <1>3, <1>4, <1>5 DEF First
<1>7. q # p /\ q.id # p.id /\ q \in page
  BY <1>1, <1>2, <1>3, <1>4, <1>6 DEF First
<1>8. PICK M : M = {a \in {b \in page : b.owner = p.owner /\ b.id # p.id} : a.title.low = f.title.low}
  OBVIOUS
<1>9. First(M) = {q}
  BY <1>1, <1>3, <1>4, <1>5, <1>7, <1>8 DEF First
<1>10. resolve_backlink_candidates(D, p.owner, f.title, p.id) = First(M)
  BY <1>8, <1>9 DEF resolve_backlink_candidates, D
<1>11. QED
  BY <1>2, <1>6, <1>9, <1>10

(* Something is counted just when there is something. *)
LEMMA Counted ==
  ASSUME NEW S, IsFiniteSet(S)
  PROVE  Cardinality(S) > 0 <=> S # {}
<1>1. Cardinality(S) \in Nat /\ (Cardinality(S) = 0 <=> S = {})
  BY FS_CardinalityType, FS_EmptySet
<1>2. QED
  BY <1>1

(* The articles of S with a tag. *)
With(S, t) == {id \in S : \E x \in tagged : x.page = id /\ x.tag = t}

(* What a filter leaves. *)
LEMMA FacetsLeave ==
  ASSUME NEW u, NEW S, NEW v
  PROVE  /\ _apply_facet_filters(D, u, S, "page_type", v) = {id \in S : Of(D, id).owner = u /\ Of(D, id).kind = v}
         /\ _apply_facet_filters(D, u, S, "source_kind", v) = {id \in S : \E s \in Of(D, id).sources : s.owner = u /\ s.kind = v}
         /\ _apply_facet_filters(D, u, S, "concept", v) = {id \in S : v \in Of(D, id).topics}
         /\ _apply_facet_filters(D, u, S, "tag", v) = With(S, v)
         /\ _apply_facet_filters(D, u, S, "none", v) = S
<1>1. D.tagged = tagged
  BY DEF D
<1>2. QED
  BY <1>1 DEF _apply_facet_filters, With

(* A tag of the user's is on as many articles as have a row with it. *)
LEMMA TagFacet ==
  ASSUME LibInv, NEW u, NEW S, IsFiniteSet(S), NEW t \in tag, t.owner = u
  PROVE  _facet_tag(D, u, S, t.name) = Cardinality(With(S, t.id))
<1>1. PICK X : X = {x \in tagged : x.page \in S /\ \E s \in tag : s.id = x.tag /\ s.owner = u /\ s.name = t.name}
  OBVIOUS
<1>2. _facet_tag(D, u, S, t.name) = Cardinality(X)
  BY <1>1 DEF _facet_tag, D
<1>3. PICK Y : Y = With(S, t.id)
  OBVIOUS
<1>4. \A s \in tag : s.owner = u /\ s.name = t.name => s = t
  BY DEF LibInv, TagsOK
<1>5. X = {x \in tagged : x.page \in S /\ x.tag = t.id}
  BY <1>1, <1>4
<1>6. \A x \in tagged : x = [page |-> x.page, tag |-> x.tag]
  BY DEF LibInv, TaggedOK
<1>7. IsFiniteSet(X)
  <2>1. IsFiniteSet(tagged) /\ X \subseteq tagged
    BY <1>1 DEF LibInv, TaggedOK
  <2>2. QED
    BY <2>1, FS_Subset
<1>8. PICK f : f = [x \in X |-> x.page]
  OBVIOUS
<1>9. f \in [X -> Y] /\ \A z \in Y : \E x \in X : f[x] = z
  BY <1>3, <1>5, <1>8 DEF With
<1>10. \A x, y \in X : f[x] = f[y] => x = y
  BY <1>5, <1>6, <1>8
<1>11. Cardinality(Y) = Cardinality(X)
  BY <1>7, <1>9, <1>10, SameSize
<1>12. QED
  BY <1>2, <1>3, <1>11

(* The sources of finitely many articles are finitely many. *)
LEMMA SourcesFinite ==
  ASSUME LibInv, NEW S, S \subseteq {p.id : p \in page}, NEW A, A = UNION {Of(D, id).sources : id \in S}
  PROVE  IsFiniteSet(A)
<1>1. \A id \in S : IsFiniteSet(Of(D, id).sources)
  BY OfIs DEF LibInv, PagesOK, PageRow
<1>2. IsFiniteSet(S)
  <2>1. PICK T : T = {p.id : p \in page}
    OBVIOUS
  <2>2. PICK f : f = [p \in page |-> p.id]
    OBVIOUS
  <2>3. T = {f[p] : p \in page} /\ DOMAIN f = page
    BY <2>1, <2>2
  <2>4. IsFiniteSet(page)
    BY PagesFinite DEF LibInv
  <2>5. IsFiniteSet(T)
    BY <2>3, <2>4, ImageFinite
  <2>6. QED
    BY <2>1, <2>5, FS_Subset
<1>3. PICK g : g = [id \in S |-> Of(D, id).sources]
  OBVIOUS
<1>4. PICK I : I = {g[id] : id \in S}
  OBVIOUS
<1>5. DOMAIN g = S /\ I = {Of(D, id).sources : id \in S}
  BY <1>3, <1>4
<1>6. IsFiniteSet(I)
  BY <1>2, <1>4, <1>5, ImageFinite
<1>7. \A T \in I : IsFiniteSet(T)
  BY <1>1, <1>5
<1>8. IsFiniteSet(UNION I)
  BY <1>6, <1>7, FS_UNION
<1>9. QED
  BY <1>5, <1>8

(* The number beside a facet is the number of articles it leaves. *)
LEMMA FacetsDo == LibInv => FacetsAgree
<1> SUFFICES ASSUME LibInv, NEW u \in Readers, NEW w \in Words, NEW S, S = Range(search_articles(D, u, w))
             PROVE  /\ \A k \in Kinds3 : _facet_page_type(D, u, S, k) = Cardinality(_apply_facet_filters(D, u, S, "page_type", k))
                    /\ \A c \in UNION {p.topics : p \in page} : _facet_concept(D, S, c) = Cardinality(_apply_facet_filters(D, u, S, "concept", c))
                    /\ \A t \in tag : t.owner = u => _facet_tag(D, u, S, t.name) = Cardinality(_apply_facet_filters(D, u, S, "tag", t.id))
                    /\ \A k \in UNION {f.kinds : f \in Profiles} :
                          _facet_source_kind(D, u, S, k) > 0 <=> Cardinality(_apply_facet_filters(D, u, S, "source_kind", k)) > 0
  BY DEF FacetsAgree
<1>1. IsFiniteSet(S) /\ S \subseteq {p.id : p \in page}
  <2>1. S = Hits(D, u, w) /\ IsFiniteSet(Hits(D, u, w)) /\ Hits(D, u, w) \subseteq {p.id : p \in {q \in page : q.owner = u}}
    BY SearchIs
  <2>2. QED
    BY <2>1
<1>2. \A k : _facet_page_type(D, u, S, k) = Cardinality(_apply_facet_filters(D, u, S, "page_type", k))
  <2> TAKE k
  <2>1. PICK L : L = {id \in S : Of(D, id).owner = u /\ Of(D, id).kind = k}
    OBVIOUS
  <2>2. _apply_facet_filters(D, u, S, "page_type", k) = L
    BY <2>1, FacetsLeave
  <2>3. _facet_page_type(D, u, S, k) = Cardinality(L)
    BY <2>1 DEF _facet_page_type
  <2>4. QED
    BY <2>2, <2>3
<1>3. \A c : _facet_concept(D, S, c) = Cardinality(_apply_facet_filters(D, u, S, "concept", c))
  <2> TAKE c
  <2>1. PICK L : L = {id \in S : c \in Of(D, id).topics}
    OBVIOUS
  <2>2. _apply_facet_filters(D, u, S, "concept", c) = L
    BY <2>1, FacetsLeave
  <2>3. _facet_concept(D, S, c) = Cardinality(L)
    BY <2>1 DEF _facet_concept
  <2>4. QED
    BY <2>2, <2>3
<1>4. \A t \in tag : t.owner = u => _facet_tag(D, u, S, t.name) = Cardinality(_apply_facet_filters(D, u, S, "tag", t.id))
  <2> TAKE t \in tag
  <2> HAVE t.owner = u
  <2>1. _apply_facet_filters(D, u, S, "tag", t.id) = With(S, t.id)
    BY FacetsLeave
  <2>2. _facet_tag(D, u, S, t.name) = Cardinality(With(S, t.id))
    BY <1>1, TagFacet
  <2>3. QED
    BY <2>1, <2>2
<1>5. ASSUME NEW k
      PROVE  _facet_source_kind(D, u, S, k) > 0 <=> Cardinality(_apply_facet_filters(D, u, S, "source_kind", k)) > 0
  <2>1. PICK A : A = UNION {Of(D, id).sources : id \in S}
    OBVIOUS
  <2>2. PICK B : B = {s \in A : s.owner = u /\ s.kind = k}
    OBVIOUS
  <2>3. PICK L : L = {id \in S : \E s \in Of(D, id).sources : s.owner = u /\ s.kind = k}
    OBVIOUS
  <2>4. _facet_source_kind(D, u, S, k) = Cardinality(B) /\ _apply_facet_filters(D, u, S, "source_kind", k) = L
    BY <2>1, <2>2, <2>3, FacetsLeave DEF _facet_source_kind
  <2>5. IsFiniteSet(A)
    BY <1>1, <2>1, SourcesFinite
  <2>6. IsFiniteSet(B) /\ IsFiniteSet(L)
    BY <1>1, <2>2, <2>3, <2>5, FS_Subset
  <2>7. B # {} <=> L # {}
    BY <2>1, <2>2, <2>3
  <2>8. QED
    BY <2>4, <2>6, <2>7, Counted
<1>6. QED
  BY <1>2, <1>3, <1>4, <1>5

-----------------------------------------------------------------------------
(* A reader's own view: the proofs *)

(* The tables of all users. *)
LEMMA AllIs == /\ D.page = page /\ D.link = link /\ D.tag = tag
               /\ D.tagged = tagged /\ D.fts = fts /\ D.vec = vec
  BY DEF D

(* The tables without other users' rows. *)
LEMMA OwnIs ==
  ASSUME NEW u
  PROVE  /\ Only(D, u).page = {p \in page : p.owner = u} /\ Only(D, u).link = {l \in link : l.owner = u}
         /\ Only(D, u).tag = {t \in tag : t.owner = u} /\ Only(D, u).vec = {v \in vec : v.owner = u}
         /\ Only(D, u).tagged = {x \in tagged : \E p \in page : p.owner = u /\ x.page = p.id}
         /\ Only(D, u).fts = {f \in fts : \E p \in page : p.owner = u /\ f.id = p.id}
<1>1. PICK P : P = {p \in page : p.owner = u}
  OBVIOUS
<1>2. PICK I : I = {p.id : p \in P}
  OBVIOUS
<1>3. /\ Only(D, u).page = P /\ Only(D, u).link = {l \in link : l.owner = u}
      /\ Only(D, u).tag = {t \in tag : t.owner = u} /\ Only(D, u).vec = {v \in vec : v.owner = u}
      /\ Only(D, u).tagged = {x \in tagged : x.page \in I} /\ Only(D, u).fts = {f \in fts : f.id \in I}
  BY <1>1, <1>2, AllIs DEF Only
<1>4. \A x : x \in I <=> \E p \in page : p.owner = u /\ x = p.id
  BY <1>1, <1>2
<1>5. QED
  BY <1>1, <1>3, <1>4

(* An article of the user's is found by its id in both. *)
LEMMA OwnOf ==
  ASSUME LibInv, NEW u, NEW p \in page, p.owner = u
  PROVE  Of(Only(D, u), p.id) = p /\ Of(D, p.id) = p
<1>1. \A q \in page : q.id = p.id => q = p
  BY DEF LibInv, PagesOK
<1>2. Of(Only(D, u), p.id) = p
  BY <1>1, OwnIs DEF Of
<1>3. QED
  BY <1>2, OfIs

(* Links of the user's articles are the user's, at both ends. *)
LEMMA OwnLinks ==
  ASSUME LibInv, NEW u, NEW p \in page, p.owner = u, NEW l \in link, l.from = p.id \/ l.to = p.id
  PROVE  l.owner = u /\ \E a, b \in page : l.from = a.id /\ l.to = b.id /\ a.owner = u /\ b.owner = u
<1>1. \A q \in page : q.id = p.id => q = p
  BY DEF LibInv, PagesOK
<1>2. PICK a, b \in page : l.from = a.id /\ l.to = b.id /\ a.owner = l.owner /\ b.owner = l.owner
  BY DEF LibInv, LinksOK
<1>3. QED
  BY <1>1, <1>2

(* So are their tags. *)
LEMMA OwnTags ==
  ASSUME LibInv, NEW u, NEW p \in page, p.owner = u
  PROVE  get_tags_for_article(D, p.id) = get_tags_for_article(Only(D, u), p.id)
<1>1. ASSUME NEW t \in tag, NEW x \in tagged, x.page = p.id, x.tag = t.id
      PROVE  t.owner = u /\ x \in Only(D, u).tagged
  <2>1. PICK q \in page, s \in tag : x.page = q.id /\ x.tag = s.id /\ s.owner = q.owner
    BY DEF LibInv, TaggedOK
  <2>2. q = p /\ s = t
    BY <1>1, <2>1 DEF LibInv, PagesOK, TagsOK
  <2>3. QED
    BY <1>1, <2>1, <2>2, OwnIs
<1>2. /\ get_tags_for_article(D, p.id) = {t \in tag : \E x \in tagged : x.page = p.id /\ x.tag = t.id}
      /\ get_tags_for_article(Only(D, u), p.id) = {t \in Only(D, u).tag : \E x \in Only(D, u).tagged : x.page = p.id /\ x.tag = t.id}
  BY AllIs DEF get_tags_for_article
<1>3. ASSUME NEW t \in tag, \E x \in tagged : x.page = p.id /\ x.tag = t.id
      PROVE  t \in Only(D, u).tag /\ \E x \in Only(D, u).tagged : x.page = p.id /\ x.tag = t.id
  BY <1>1, <1>3, OwnIs
<1>4. Only(D, u).tag \subseteq tag /\ Only(D, u).tagged \subseteq tagged
  BY OwnIs
<1>5. QED
  BY <1>2, <1>3, <1>4

(* Links that end at an article, and that start there. *)
Into(d, id) == {l \in d.link : l.to = id}
From(d, id) == {l \in d.link : l.from = id}

LEMMA OwnEnds ==
  ASSUME LibInv, NEW u, NEW p \in page, p.owner = u
  PROVE  Into(D, p.id) = Into(Only(D, u), p.id) /\ From(D, p.id) = From(Only(D, u), p.id)
<1>1. \A l \in link : l.from = p.id \/ l.to = p.id => l.owner = u
  BY OwnLinks
<1>2. QED
  BY <1>1, AllIs, OwnIs DEF Into, From

(* The list of articles. *)
LEMMA OwnList ==
  ASSUME LibInv, NEW u
  PROVE  list_articles(D, u, "any", "any") = list_articles(Only(D, u), u, "any", "any")
<1>1. ASSUME NEW p \in page, p.owner = u
      PROVE  _build_article_summary(D, p) = _build_article_summary(Only(D, u), p)
  <2>1. \A d : _build_article_summary(d, p) =
                  [id |-> p.id, slug |-> p.slug, sources |-> p.sources, concepts |-> p.topics,
                   backlinks |-> Cardinality(From(d, p.id)) + Cardinality(Into(d, p.id)), tags |-> get_tags_for_article(d, p.id)]
    BY DEF _build_article_summary, fetch_sources, fetch_concept_names_for_article, From, Into
  <2>2. QED
    BY <1>1, <2>1, OwnEnds, OwnTags
<1>2. \A d : list_articles(d, u, "any", "any") = {_build_article_summary(d, p) : p \in {q \in d.page : q.owner = u}}
  BY DEF list_articles
<1>3. PICK mine : mine = {q \in page : q.owner = u}
  OBVIOUS
<1>4. {q \in D.page : q.owner = u} = mine /\ {q \in Only(D, u).page : q.owner = u} = mine
  BY <1>3, AllIs, OwnIs
<1>5. list_articles(D, u, "any", "any") = {_build_article_summary(D, p) : p \in mine}
  BY <1>2, <1>4
<1>6. list_articles(Only(D, u), u, "any", "any") = {_build_article_summary(Only(D, u), p) : p \in mine}
  BY <1>2, <1>4
<1>7. \A p \in mine : _build_article_summary(D, p) = _build_article_summary(Only(D, u), p)
  BY <1>1, <1>3
<1>8. QED
  BY <1>5, <1>6, <1>7

(* What an id or a slug stands for: an article of the user's. *)
LEMMA OwnResolves ==
  ASSUME LibInv, NEW u, NEW ref
  PROVE  /\ _resolve_article_id(D, u, ref) = _resolve_article_id(Only(D, u), u, ref)
         /\ \A id \in _resolve_article_id(D, u, ref) : \E p \in page : p.owner = u /\ id = p.id
<1>1. PICK A : A = {p.id : p \in {q \in page : q.id = ref.id /\ q.owner = u}}
  OBVIOUS
<1>2. PICK B : B = {p.id : p \in {q \in page : q.slug = ref.slug /\ q.owner = u}}
  OBVIOUS
<1>3. _resolve_article_id(D, u, ref) = IF A # {} THEN A ELSE B
  BY <1>1, <1>2, AllIs DEF _resolve_article_id
<1>4. /\ A = {p.id : p \in {q \in Only(D, u).page : q.id = ref.id /\ q.owner = u}}
      /\ B = {p.id : p \in {q \in Only(D, u).page : q.slug = ref.slug /\ q.owner = u}}
  BY <1>1, <1>2, OwnIs
<1>5. _resolve_article_id(Only(D, u), u, ref) = IF A # {} THEN A ELSE B
  BY <1>4 DEF _resolve_article_id
<1>6. QED
  BY <1>1, <1>2, <1>3, <1>5

(* A neighbour's entry is the same. *)
LEMMA OwnNeighbour ==
  ASSUME LibInv, NEW u, NEW p \in page, p.owner = u, NEW l
  PROVE  Neighbour(D, p.id, l) = Neighbour(Only(D, u), p.id, l)
  BY OwnOf DEF Neighbour

(* The neighbours shown on an article's page. *)
Before(d, id) == {Neighbour(d, l.from, l) : l \in {k \in d.link : k.to = id /\ k.from \in Live(d)}}
After(d, id) == {Neighbour(d, l.to, l) : l \in {k \in d.link : k.from = id /\ k.to \in Live(d)}}
BeforeOf(d, u, id) == {Neighbour(d, l.from, l) : l \in {k \in d.link : k.to = id /\ k.from \in Live(d) /\ Of(d, k.from).owner = u}}
AfterOf(d, u, id) == {Neighbour(d, l.to, l) : l \in {k \in d.link : k.from = id /\ k.to \in Live(d) /\ Of(d, k.to).owner = u}}

LEMMA OwnNeighbours ==
  ASSUME LibInv, NEW u, NEW p \in page, p.owner = u
  PROVE  /\ Before(D, p.id) = Before(Only(D, u), p.id) /\ After(D, p.id) = After(Only(D, u), p.id)
         /\ BeforeOf(D, u, p.id) = BeforeOf(Only(D, u), u, p.id) /\ AfterOf(D, u, p.id) = AfterOf(Only(D, u), u, p.id)
<1>1. PICK I : I = Into(D, p.id)
  OBVIOUS
<1>2. PICK O : O = From(D, p.id)
  OBVIOUS
<1>3. /\ I = {k \in D.link : k.to = p.id} /\ I = {k \in Only(D, u).link : k.to = p.id}
      /\ O = {k \in D.link : k.from = p.id} /\ O = {k \in Only(D, u).link : k.from = p.id}
  BY <1>1, <1>2, OwnEnds DEF Into, From
<1>4. \A k \in I : \E a \in page : a.owner = u /\ k.from = a.id
  BY <1>3, AllIs, OwnLinks
<1>5. \A k \in O : \E a \in page : a.owner = u /\ k.to = a.id
  BY <1>3, AllIs, OwnLinks
<1>6. \A a \in page : a.owner = u => /\ a.id \in Live(D) /\ a.id \in Live(Only(D, u))
                                     /\ Of(D, a.id).owner = u /\ Of(Only(D, u), a.id).owner = u
  BY AllIs, OwnIs, OwnOf DEF Live
<1>7. \A k \in I : /\ k.from \in Live(D) /\ k.from \in Live(Only(D, u))
                   /\ Of(D, k.from).owner = u /\ Of(Only(D, u), k.from).owner = u
                   /\ Neighbour(D, k.from, k) = Neighbour(Only(D, u), k.from, k)
  BY <1>4, <1>6, OwnNeighbour
<1>8. \A k \in O : /\ k.to \in Live(D) /\ k.to \in Live(Only(D, u))
                   /\ Of(D, k.to).owner = u /\ Of(Only(D, u), k.to).owner = u
                   /\ Neighbour(D, k.to, k) = Neighbour(Only(D, u), k.to, k)
  BY <1>5, <1>6, OwnNeighbour
<1>9. /\ Before(D, p.id) = {Neighbour(D, l.from, l) : l \in I} /\ BeforeOf(D, u, p.id) = {Neighbour(D, l.from, l) : l \in I}
      /\ Before(Only(D, u), p.id) = {Neighbour(Only(D, u), l.from, l) : l \in I}
      /\ BeforeOf(Only(D, u), u, p.id) = {Neighbour(Only(D, u), l.from, l) : l \in I}
  <2>1. /\ I = {k \in D.link : k.to = p.id /\ k.from \in Live(D)}
        /\ I = {k \in D.link : k.to = p.id /\ k.from \in Live(D) /\ Of(D, k.from).owner = u}
        /\ I = {k \in Only(D, u).link : k.to = p.id /\ k.from \in Live(Only(D, u))}
        /\ I = {k \in Only(D, u).link : k.to = p.id /\ k.from \in Live(Only(D, u)) /\ Of(Only(D, u), k.from).owner = u}
    BY <1>3, <1>7
  <2>2. QED
    BY <2>1 DEF Before, BeforeOf
<1>10. /\ After(D, p.id) = {Neighbour(D, l.to, l) : l \in O} /\ AfterOf(D, u, p.id) = {Neighbour(D, l.to, l) : l \in O}
       /\ After(Only(D, u), p.id) = {Neighbour(Only(D, u), l.to, l) : l \in O}
       /\ AfterOf(Only(D, u), u, p.id) = {Neighbour(Only(D, u), l.to, l) : l \in O}
  <2>1. /\ O = {k \in D.link : k.from = p.id /\ k.to \in Live(D)}
        /\ O = {k \in D.link : k.from = p.id /\ k.to \in Live(D) /\ Of(D, k.to).owner = u}
        /\ O = {k \in Only(D, u).link : k.from = p.id /\ k.to \in Live(Only(D, u))}
        /\ O = {k \in Only(D, u).link : k.from = p.id /\ k.to \in Live(Only(D, u)) /\ Of(Only(D, u), k.to).owner = u}
    BY <1>3, <1>8
  <2>2. QED
    BY <2>1 DEF After, AfterOf
<1>11. /\ {Neighbour(D, l.from, l) : l \in I} = {Neighbour(Only(D, u), l.from, l) : l \in I}
       /\ {Neighbour(D, l.to, l) : l \in O} = {Neighbour(Only(D, u), l.to, l) : l \in O}
  BY <1>7, <1>8
<1>12. QED
  BY <1>9, <1>10, <1>11

(* What is shown of one article. *)
ArticleShown(d, id) ==
    [id |-> id, slug |-> Of(d, id).slug, sources |-> Of(d, id).sources, words |-> Of(d, id).words,
     tags |-> get_tags_for_article(d, id), in |-> Before(d, id), out |-> After(d, id)]
LinksShown(d, u, id) == [out |-> AfterOf(d, u, id), in |-> BeforeOf(d, u, id)]
CitationsShown(d, u, id) ==
    [article |-> id, claims |-> {[source |-> s, spans |-> {x \in Of(d, id).sources : x = s /\ x.owner = u}]
                                 : s \in {x \in Of(d, id).sources : Of(d, id).owner = u}}]

(* An article's page, its relationships and its citations. *)
LEMMA OwnArticle ==
  ASSUME LibInv, NEW u, NEW ref
  PROVE  /\ get_article(D, u, ref) = get_article(Only(D, u), u, ref)
         /\ get_relationships(D, u, ref) = get_relationships(Only(D, u), u, ref)
         /\ get_article_citations(D, u, ref) = get_article_citations(Only(D, u), u, ref)
<1>1. PICK R : R = _resolve_article_id(D, u, ref)
  OBVIOUS
<1>2. R = _resolve_article_id(Only(D, u), u, ref)
  BY <1>1, OwnResolves
<1>3. \A d : get_article(d, u, ref) = {ArticleShown(d, id) : id \in _resolve_article_id(d, u, ref)}
  BY DEF get_article, ArticleShown, Before, After, fetch_sources
<1>4. \A d : get_relationships(d, u, ref) = {LinksShown(d, u, id) : id \in _resolve_article_id(d, u, ref)}
  BY DEF get_relationships, LinksShown, BeforeOf, AfterOf
<1>5. \A d : get_article_citations(d, u, ref) = {CitationsShown(d, u, id) : id \in _resolve_article_id(d, u, ref)}
  BY DEF get_article_citations, CitationsShown
<1>6. ASSUME NEW p \in page, p.owner = u
      PROVE  /\ ArticleShown(D, p.id) = ArticleShown(Only(D, u), p.id)
             /\ LinksShown(D, u, p.id) = LinksShown(Only(D, u), u, p.id)
             /\ CitationsShown(D, u, p.id) = CitationsShown(Only(D, u), u, p.id)
  <2>1. Of(D, p.id) = p /\ Of(Only(D, u), p.id) = p
    BY <1>6, OwnOf
  <2>2. ArticleShown(D, p.id) = ArticleShown(Only(D, u), p.id)
    BY <1>6, <2>1, OwnTags, OwnNeighbours DEF ArticleShown
  <2>3. LinksShown(D, u, p.id) = LinksShown(Only(D, u), u, p.id)
    BY <1>6, OwnNeighbours DEF LinksShown
  <2>4. CitationsShown(D, u, p.id) = CitationsShown(Only(D, u), u, p.id)
    BY <2>1 DEF CitationsShown
  <2>5. QED
    BY <2>2, <2>3, <2>4
<1>7. \A id \in R : \E p \in page : p.owner = u /\ id = p.id
  BY <1>1, OwnResolves
<1>8. \A id \in R : /\ ArticleShown(D, id) = ArticleShown(Only(D, u), id)
                    /\ LinksShown(D, u, id) = LinksShown(Only(D, u), u, id)
                    /\ CitationsShown(D, u, id) = CitationsShown(Only(D, u), u, id)
  BY <1>6, <1>7
<1>9. get_article(D, u, ref) = get_article(Only(D, u), u, ref)
  BY <1>1, <1>2, <1>3, <1>8
<1>10. get_relationships(D, u, ref) = get_relationships(Only(D, u), u, ref)
  BY <1>1, <1>2, <1>4, <1>8
<1>11. get_article_citations(D, u, ref) = get_article_citations(Only(D, u), u, ref)
  BY <1>1, <1>2, <1>5, <1>8
<1>12. QED
  BY <1>9, <1>10, <1>11

(* The graph, and where wikilinks lead. *)
LEMMA OwnGraph ==
  ASSUME NEW u, NEW text, NEW w
  PROVE  /\ get_graph(D, u, "any") = get_graph(Only(D, u), u, "any")
         /\ process_wikilinks(D, u, text) = process_wikilinks(Only(D, u), u, text)
         /\ resolve_wikilinks(D, u, w) = resolve_wikilinks(Only(D, u), u, w)
<1>1. /\ {q \in D.page : q.owner = u} = {q \in Only(D, u).page : q.owner = u}
      /\ {l \in D.link : l.owner = u} = {l \in Only(D, u).link : l.owner = u}
  BY AllIs, OwnIs
<1>2. get_graph(D, u, "any") = get_graph(Only(D, u), u, "any")
  BY <1>1, GraphIs
<1>3. {p \in D.page : p.owner = u /\ p.title.low = text.low} = {p \in Only(D, u).page : p.owner = u /\ p.title.low = text.low}
  BY AllIs, OwnIs
<1>4. process_wikilinks(D, u, text) = process_wikilinks(Only(D, u), u, text)
  BY <1>3 DEF process_wikilinks
<1>5. {q \in D.page : q.owner = u /\ w \in q.title.words} = {q \in Only(D, u).page : q.owner = u /\ w \in q.title.words}
  BY AllIs, OwnIs
<1>6. resolve_wikilinks(D, u, w) = resolve_wikilinks(Only(D, u), u, w)
  BY <1>5 DEF resolve_wikilinks
<1>7. QED
  BY <1>2, <1>4, <1>6

(* A full-text search. *)
LEMMA OwnSearch ==
  ASSUME LibInv, NEW u, NEW w
  PROVE  search_articles(D, u, w) = search_articles(Only(D, u), u, w)
<1>1. PICK A : A = {f \in D.fts : w \in f.title \/ w \in f.words}
  OBVIOUS
<1>2. PICK B : B = {f \in Only(D, u).fts : w \in f.title \/ w \in f.words}
  OBVIOUS
<1>3. PICK H : H = {p.id : p \in {q \in D.page : q.owner = u}} \cap {f.id : f \in A}
  OBVIOUS
<1>4. H = {p.id : p \in {q \in Only(D, u).page : q.owner = u}} \cap {f.id : f \in B}
  <2>1. {q \in D.page : q.owner = u} = {q \in Only(D, u).page : q.owner = u}
    BY AllIs, OwnIs
  <2>2. B \subseteq A
    BY <1>1, <1>2, AllIs, OwnIs
  <2>3. ASSUME NEW p \in {q \in D.page : q.owner = u}, NEW f \in A, f.id = p.id
        PROVE  f \in B
    BY <1>1, <1>2, <2>3, AllIs, OwnIs
  <2>4. QED
    BY <1>3, <2>1, <2>2, <2>3
<1>5. ASSUME NEW id \in H
      PROVE  (CHOOSE f \in A : f.id = id) = (CHOOSE f \in B : f.id = id)
  <2>1. PICK f \in B : f.id = id
    BY <1>4
  <2>2. f \in A /\ A \subseteq fts /\ B \subseteq fts
    BY <1>1, <1>2, <2>1, AllIs, OwnIs
  <2>3. \A g \in fts : g.id = id => g = f
    BY <2>1, <2>2 DEF LibInv, IndexOK
  <2>4. (CHOOSE g \in A : g.id = id) = f
    BY <2>1, <2>2, <2>3
  <2>5. (CHOOSE g \in B : g.id = id) = f
    BY <2>1, <2>2, <2>3
  <2>6. QED
    BY <2>4, <2>5
<1>6. PICK a : a = [id \in H |-> IF w \in (CHOOSE f \in A : f.id = id).title THEN 5 ELSE 1]
  OBVIOUS
<1>7. PICK b : b = [id \in H |-> IF w \in (CHOOSE f \in B : f.id = id).title THEN 5 ELSE 1]
  OBVIOUS
<1>8. a = b
  BY <1>5, <1>6, <1>7
<1>9. search_articles(D, u, w) = Ranked(H, a)
  BY <1>1, <1>3, <1>6 DEF search_articles
<1>10. search_articles(Only(D, u), u, w) = Ranked(H, b)
  BY <1>2, <1>4, <1>7 DEF search_articles
<1>11. QED
  BY <1>8, <1>9, <1>10

(* Scores of a search by words and meaning are numbers, of finitely many ids. *)
LEMMA ScoresAre ==
  ASSUME NEW kw, IsFiniteSet(DOMAIN kw), DOMAIN kw \subseteq Nat, \A id \in DOMAIN kw : kw[id] \in Nat,
         NEW sem, IsFiniteSet(sem), \A v \in sem : v.id \in Nat
  PROVE  /\ DOMAIN _merge_hybrid_scores(kw, sem) = DOMAIN kw \cup {v.id : v \in sem}
         /\ DOMAIN _merge_hybrid_scores(kw, sem) \in SUBSET Nat /\ IsFiniteSet(DOMAIN _merge_hybrid_scores(kw, sem))
         /\ \A id \in DOMAIN _merge_hybrid_scores(kw, sem) : _merge_hybrid_scores(kw, sem)[id] \in Nat
<1>1. PICK I : I = {kw[id] : id \in DOMAIN kw}
  OBVIOUS
<1>2. PICK N : N = {v.id : v \in sem}
  OBVIOUS
<1>3. IsFiniteSet(I) /\ I \in SUBSET Nat
  BY <1>1, ImageFinite
<1>4. IsFiniteSet(N) /\ N \in SUBSET Nat
  <2>1. PICK f : f = [v \in sem |-> v.id]
    OBVIOUS
  <2>2. DOMAIN f = sem /\ N = {f[v] : v \in sem}
    BY <1>2, <2>1
  <2>3. IsFiniteSet(N)
    BY <2>2, ImageFinite
  <2>4. QED
    BY <1>2, <2>3
<1>5. PICK top : top = Max(I \cup {1})
  OBVIOUS
<1>6. top \in Nat /\ top > 0
  <2>1. IsFiniteSet(I \cup {1}) /\ I \cup {1} \in SUBSET Nat /\ I \cup {1} # {}
    BY <1>3, FS_AddElement
  <2>2. top \in I \cup {1} /\ 1 <= top
    BY <1>5, <2>1, MaxIs
  <2>3. QED
    BY <2>1, <2>2
<1>7. _merge_hybrid_scores(kw, sem) = [id \in DOMAIN kw \cup N |->
         (IF id \in DOMAIN kw THEN (40 * kw[id]) \div top ELSE 0) + (IF id \in N THEN 60 ELSE 0)]
  BY <1>1, <1>2, <1>5 DEF _merge_hybrid_scores
<1>8. \A id \in DOMAIN kw : (40 * kw[id]) \div top \in Nat
  <2> TAKE id \in DOMAIN kw
  <2>1. PICK n \in Nat : n = 40 * kw[id]
    OBVIOUS
  <2>2. n \div top \in Nat
    BY <1>6
  <2>3. QED
    BY <2>1, <2>2
<1>9. IsFiniteSet(DOMAIN kw \cup N)
  BY <1>4, FS_Union
<1>10. QED
  BY <1>2, <1>4, <1>7, <1>8, <1>9

(* A search by words and meaning. *)
LEMMA OwnHybrid ==
  ASSUME LibInv, NEW u, NEW w
  PROVE  HybridSearch(D, u, w, 2) = HybridSearch(Only(D, u), u, w, 2)
<1>1. PICK P : P = {p \in D.page : p.owner = u /\ KeywordScore(p, w) > 0}
  OBVIOUS
<1>2. P = {p \in Only(D, u).page : p.owner = u /\ KeywordScore(p, w) > 0}
  BY <1>1, AllIs, OwnIs
<1>3. PICK H : H = {p.id : p \in P}
  OBVIOUS
<1>4. PICK kw : kw = [id \in H |-> KeywordScore(Of(D, id), w)]
  OBVIOUS
<1>5. kw = _keyword_search(D, u, w)
  BY <1>1, <1>3, <1>4 DEF _keyword_search
<1>6. kw = _keyword_search(Only(D, u), u, w)
  <2>1. \A p \in P : p \in page /\ p.owner = u
    BY <1>1, AllIs
  <2>2. \A id \in H : Of(D, id) = Of(Only(D, u), id)
    BY <1>3, <2>1, OwnOf
  <2>3. kw = [id \in H |-> KeywordScore(Of(Only(D, u), id), w)]
    BY <1>4, <2>2
  <2>4. QED
    BY <1>2, <1>3, <2>3 DEF _keyword_search
<1>7. PICK sem : sem = SemanticSearch(D, u, w)
  OBVIOUS
<1>8. sem = SemanticSearch(Only(D, u), u, w)
  BY <1>7, AllIs, OwnIs DEF SemanticSearch
<1>9. PICK score : score = _merge_hybrid_scores(kw, sem)
  OBVIOUS
<1>10. PICK s : s = Ranked(DOMAIN score, score)
  OBVIOUS
<1>11. PICK ids : ids = SubSeq(s, 1, Min({2, Len(s)}))
  OBVIOUS
<1>12. /\ HybridSearch(D, u, w, 2) = Keep(ids, {id \in Range(ids) : id \in Live(D)})
       /\ HybridSearch(Only(D, u), u, w, 2) = Keep(ids, {id \in Range(ids) : id \in Live(Only(D, u))})
  BY <1>5, <1>6, <1>7, <1>8, <1>9, <1>10, <1>11 DEF HybridSearch
<1>13. IsFiniteSet(H) /\ H \in SUBSET Nat
  <2>1. IsFiniteSet(P)
    BY <1>1, AllIs, PagesFinite, FS_Subset DEF LibInv
  <2>2. PICK f : f = [p \in P |-> p.id]
    OBVIOUS
  <2>3. DOMAIN f = P /\ H = {f[p] : p \in P}
    BY <1>3, <2>2
  <2>4. IsFiniteSet(H)
    BY <2>1, <2>3, ImageFinite
  <2>5. QED
    BY <1>1, <1>3, <2>4, AllIs, LibraryAssumption DEF LibInv, PagesOK, PageRow, Ids
<1>14. DOMAIN kw = H /\ \A id \in H : kw[id] \in Nat
  BY <1>4 DEF KeywordScore
<1>15. IsFiniteSet(sem) /\ (\A v \in sem : v.id \in Nat) /\ (\A v \in sem : v \in vec /\ v.owner = u)
  <2>1. sem \subseteq vec /\ \A v \in sem : v.owner = u
    BY <1>7, AllIs DEF SemanticSearch
  <2>2. IsFiniteSet(vec) /\ \A v \in vec : v.id \in Nat
    BY DEF LibInv, VectorsOK
  <2>3. IsFiniteSet(sem)
    BY <2>1, <2>2, FS_Subset
  <2>4. QED
    BY <2>1, <2>2, <2>3
<1>16. /\ DOMAIN score = H \cup {v.id : v \in sem} /\ DOMAIN score \in SUBSET Nat /\ IsFiniteSet(DOMAIN score)
       /\ \A id \in DOMAIN score : score[id] \in Nat
  BY <1>9, <1>13, <1>14, <1>15, ScoresAre
<1>17. s \in Seq(DOMAIN score)
  BY <1>10, <1>16, RankedIs
<1>18. Range(ids) \subseteq DOMAIN score
  <2>1. PICK n : n = Min({2, Len(s)})
    OBVIOUS
  <2>2. n = IF 2 <= Len(s) THEN 2 ELSE Len(s)
    BY <1>17, <2>1, MinTwo, LenProperties
  <2>3. n \in Nat /\ n <= Len(s) /\ Len(s) \in Nat
    BY <1>17, <2>2, LenProperties
  <2>4. ids = [i \in 1 .. n |-> s[i]]
    BY <1>11, <1>17, <2>1, <2>3
  <2>5. \A i \in 1 .. n : s[i] \in DOMAIN score
    BY <1>17, <2>3
  <2>6. QED
    BY <2>4, <2>5 DEF Range
<1>19. \A id \in DOMAIN score : id \in Live(D) <=> id \in Live(Only(D, u))
  <2>1. ASSUME NEW id \in DOMAIN score, NEW p \in page, p.id = id
        PROVE  p.owner = u
    <3>1. CASE id \in H
      <4>1. PICK q \in P : q.id = id
        BY <1>3, <3>1
      <4>2. q \in page /\ q.owner = u
        BY <1>1, <4>1, AllIs
      <4>3. QED
        BY <2>1, <4>1, <4>2 DEF LibInv, PagesOK
    <3>2. CASE id \notin H
      <4>1. PICK v \in sem : v.id = id
        BY <1>16, <3>2
      <4>2. QED
        BY <1>15, <2>1, <4>1 DEF LibInv, VectorsOK
    <3>3. QED
      BY <3>1, <3>2
  <2>2. Live(D) = {p.id : p \in page} /\ Live(Only(D, u)) = {p.id : p \in {q \in page : q.owner = u}}
    BY AllIs, OwnIs DEF Live
  <2>3. QED
    BY <2>1, <2>2
<1>20. {id \in Range(ids) : id \in Live(D)} = {id \in Range(ids) : id \in Live(Only(D, u))}
  BY <1>18, <1>19
<1>21. QED
  BY <1>12, <1>20

(* A saved search. *)
LEMMA OwnSaved ==
  ASSUME LibInv, NEW u, NEW s
  PROVE  execute(D, u, s) = execute(Only(D, u), u, s)
<1>1. PICK K : K = {t \in D.tag : t.owner = u /\ t.name \in s.tags}
  OBVIOUS
<1>2. K = {t \in Only(D, u).tag : t.owner = u /\ t.name \in s.tags}
  BY <1>1, AllIs, OwnIs
<1>3. PICK P : P = {q \in D.page : /\ q.owner = u
                                   /\ s.word # "any" => s.word \in q.title.words
                                   /\ \A t \in K : \E x \in D.tagged : x.page = q.id /\ x.tag = t.id
                                   /\ \A c \in s.topics : c \in q.topics}
  OBVIOUS
<1>4. \A q \in page : q.owner = u => \A t : (\E x \in D.tagged : x.page = q.id /\ x.tag = t.id)
                                              <=> (\E x \in Only(D, u).tagged : x.page = q.id /\ x.tag = t.id)
  BY AllIs, OwnIs
<1>5. P = {q \in Only(D, u).page : /\ q.owner = u
                                   /\ s.word # "any" => s.word \in q.title.words
                                   /\ \A t \in K : \E x \in Only(D, u).tagged : x.page = q.id /\ x.tag = t.id
                                   /\ \A c \in s.topics : c \in q.topics}
  BY <1>3, <1>4, AllIs, OwnIs
<1>6. execute(D, u, s) = {p.id : p \in P}
  BY <1>1, <1>3 DEF execute
<1>7. execute(Only(D, u), u, s) = {p.id : p \in P}
  BY <1>2, <1>5 DEF execute
<1>8. QED
  BY <1>6, <1>7

(* Index page, health page and export. *)
LEMMA OwnCatalogues ==
  ASSUME LibInv, NEW u
  PROVE  /\ regenerate_index_md(D, u) = regenerate_index_md(Only(D, u), u)
         /\ generate_meta_health_page(D, u) = generate_meta_health_page(Only(D, u), u)
         /\ export_wiki(D, u) = export_wiki(Only(D, u), u)
<1>1. PICK P : P = {p \in D.page : p.owner = u}
  OBVIOUS
<1>2. P = {p \in Only(D, u).page : p.owner = u}
  BY <1>1, AllIs, OwnIs
<1>3. \A d : P = {p \in d.page : p.owner = u} => regenerate_index_md(d, u) = _build_index_lines(_group_articles_by_concept(D, P))
  BY DEF regenerate_index_md, _group_articles_by_concept
<1>4. regenerate_index_md(D, u) = regenerate_index_md(Only(D, u), u)
  BY <1>1, <1>2, <1>3
<1>5. \A d : P = {p \in d.page : p.owner = u} => export_wiki(d, u) = [files |-> {p.title.name : p \in P},
                                                                      articles |-> {[id |-> p.id, concepts |-> p.topics] : p \in P}]
  BY DEF export_wiki
<1>6. export_wiki(D, u) = export_wiki(Only(D, u), u)
  BY <1>1, <1>2, <1>5
<1>7. PICK I : I = {p.id : p \in P}
  OBVIOUS
<1>8. PICK L : L = {l \in D.link : l.from \in I /\ l.to \in I}
  OBVIOUS
<1>9. L = {l \in Only(D, u).link : l.from \in I /\ l.to \in I}
  <2>1. \A l \in link : l.from \in I => l.owner = u
    BY <1>1, <1>7, AllIs, OwnLinks
  <2>2. QED
    BY <1>8, <2>1, AllIs, OwnIs
<1>10. PICK h : h = [total |-> Cardinality({p \in P : p.kind # "synthesis"}), links |-> Cardinality(L),
                     orphans |-> Cardinality({id \in I : ~\E l \in L : id \in {l.from, l.to}})]
  OBVIOUS
<1>11. generate_meta_health_page(D, u) = h
  BY <1>1, <1>7, <1>8, <1>10 DEF generate_meta_health_page
<1>12. generate_meta_health_page(Only(D, u), u) = h
  BY <1>2, <1>7, <1>9, <1>10 DEF generate_meta_health_page
<1>13. QED
  BY <1>4, <1>6, <1>11, <1>12

(* Suggestions for synthesis. *)
LEMMA OwnSuggestions ==
  ASSUME LibInv, NEW u
  PROVE  get_synthesis_suggestions(D, u) = get_synthesis_suggestions(Only(D, u), u)
<1>1. PICK P : P = {q \in D.page : q.owner = u /\ q.kind # "synthesis"}
  OBVIOUS
<1>2. P = {q \in Only(D, u).page : q.owner = u /\ q.kind # "synthesis"}
  BY <1>1, AllIs, OwnIs
<1>3. PICK S : S = {p.id : p \in P}
  OBVIOUS
<1>4. \A id \in S : Of(D, id) = Of(Only(D, u), id)
  <2>1. \A p \in P : p \in page /\ p.owner = u
    BY <1>1, AllIs
  <2>2. QED
    BY <1>3, <2>1, OwnOf
<1>5. \A s \in Pairs2(S) : \A a, b \in s : a \in S /\ b \in S
  BY DEF Pairs2
<1>6. _find_shared_concept_suggestions(D, S) = _find_shared_concept_suggestions(Only(D, u), S)
  <2>1. \A s \in Pairs2(S) : \A a, b \in s : Cardinality(Of(D, a).topics \cap Of(D, b).topics)
                                               = Cardinality(Of(Only(D, u), a).topics \cap Of(Only(D, u), b).topics)
    BY <1>4, <1>5
  <2>2. QED
    BY <2>1 DEF _find_shared_concept_suggestions
<1>7. _find_different_source_suggestions(D, S) = _find_different_source_suggestions(Only(D, u), S)
  BY <1>4, <1>5 DEF _find_different_source_suggestions, _has_different_sources
<1>8. _find_contradiction_suggestions(D, u) = _find_contradiction_suggestions(Only(D, u), u)
  <2>1. {k \in D.link : k.owner = u /\ k.relation = "contradicts"} = {k \in Only(D, u).link : k.owner = u /\ k.relation = "contradicts"}
    BY AllIs, OwnIs
  <2>2. QED
    BY <2>1 DEF _find_contradiction_suggestions
<1>9. \A d : S = {p.id : p \in {q \in d.page : q.owner = u /\ q.kind # "synthesis"}} =>
        get_synthesis_suggestions(d, u) =
          ({"shared"} \X _find_shared_concept_suggestions(d, S))
            \cup ({"contradiction"} \X (_find_contradiction_suggestions(d, u) \ _find_shared_concept_suggestions(d, S)))
            \cup ({"sources"} \X (_find_different_source_suggestions(d, S)
                     \ (_find_shared_concept_suggestions(d, S) \cup (_find_contradiction_suggestions(d, u) \ _find_shared_concept_suggestions(d, S)))))
  BY DEF get_synthesis_suggestions
<1>10. QED
  BY <1>1, <1>2, <1>3, <1>6, <1>7, <1>8, <1>9

(* Every answer depends on the reader's own rows only. *)
LEMMA OwnViews == LibInv => OwnViewOnly
<1> SUFFICES ASSUME LibInv, NEW u \in Readers
             PROVE  /\ list_articles(D, u, "any", "any") = list_articles(Only(D, u), u, "any", "any")
                    /\ \A ref \in Refs :
                          /\ get_article(D, u, ref) = get_article(Only(D, u), u, ref)
                          /\ get_relationships(D, u, ref) = get_relationships(Only(D, u), u, ref)
                          /\ get_article_citations(D, u, ref) = get_article_citations(Only(D, u), u, ref)
                    /\ get_graph(D, u, "any") = get_graph(Only(D, u), u, "any")
                    /\ \A f \in Profiles : process_wikilinks(D, u, f.title) = process_wikilinks(Only(D, u), u, f.title)
                    /\ \A w \in Words :
                          /\ HybridSearch(D, u, w, 2) = HybridSearch(Only(D, u), u, w, 2)
                          /\ search_articles(D, u, w) = search_articles(Only(D, u), u, w)
                          /\ resolve_wikilinks(D, u, w) = resolve_wikilinks(Only(D, u), u, w)
                    /\ \A s \in saved : s.owner = u => execute(D, u, s) = execute(Only(D, u), u, s)
                    /\ regenerate_index_md(D, u) = regenerate_index_md(Only(D, u), u)
                    /\ generate_meta_health_page(D, u) = generate_meta_health_page(Only(D, u), u)
                    /\ export_wiki(D, u) = export_wiki(Only(D, u), u)
                    /\ get_synthesis_suggestions(D, u) = get_synthesis_suggestions(Only(D, u), u)
  BY Zenon DEF OwnViewOnly
<1>1. QED
  BY OwnList, OwnArticle, OwnGraph, OwnHybrid, OwnSearch, OwnSaved, OwnCatalogues, OwnSuggestions

(* services/search.py, services/wiki.py, services/tags.py,                    *)
(* engine/wikilink_resolver.py: search, graph, index, facets, suggestions and *)
(* links show a reader only what is the reader's own, and agree with the      *)
(* articles and with one another, for every number of readers, articles,      *)
(* words, tags and writes.                                                    *)
THEOREM ViewsAlwaysSound == AccessSpec => []ViewsSound
<1>1. LibInv => ViewsSound
  BY LibraryTyped, OwnViews, FacetsDo, FoundHolds, PagesHold, GraphCloses, SuggestsOnce, IndexHasAll, ResolversDo
     DEF ViewsSound
<1>2. QED
  BY <1>1, LibraryAlways, PTL

-----------------------------------------------------------------------------
(* What was decided stays decided *)

(* The user and the term of a code never change. *)
LEMMA CodesKept ==
  ASSUME TokenInv, TokensNext \/ UNCHANGED tokenVars
  PROVE  \A r \in DOMAIN code : code'[r].user = code[r].user /\ code'[r].expires = code[r].expires
<1>1. ASSUME NEW r \in Requests, NEW u, NEW d, authorize_decide(r, u, d),
             NEW k \in DOMAIN code
      PROVE  code'[k] = code[k]
  BY <1>1 DEF authorize_decide, Put, TokenInv, RequestsKept
<1>2. ASSUME NEW x \in Exchanges, token_exchange(x), NEW k \in DOMAIN code
      PROVE  code'[k].user = code[k].user /\ code'[k].expires = code[k].expires
  <2>1. PICK r : r = exchange[x].req
    OBVIOUS
  <2>2. code' = [code EXCEPT ![r].used = TRUE] /\ code[k] \in CodeRow
    BY <1>2, <2>1 DEF token_exchange, TokenInv
  <2>3. QED
    BY <2>2 DEF CodeRow
<1>3. ASSUME UNCHANGED code
      PROVE  \A r \in DOMAIN code : code'[r].user = code[r].user /\ code'[r].expires = code[r].expires
  BY <1>3
<1>4. QED
  BY <1>1, <1>2, <1>3 DEF TokensNext, tokenVars, authorize, authorize_resume, ReadCode, create_mcp_token,
     Revoke, CheckToken, verify_token, ServerRestart, TimePasses

(* A token that was revoked stays so. *)
LEMMA RevokedTokensKept ==
  ASSUME TokenInv, TokensNext \/ UNCHANGED tokenVars, NEW t \in token, t.revoked
  PROVE  t \in token'
  BY DEF TokensNext, tokenVars, authorize, authorize_resume, authorize_decide, ReadCode, token_exchange,
     create_mcp_token, Revoke, CheckToken, verify_token, StampRow, ServerRestart, TimePasses

(* A link that was revoked stays so: a view under way saves only its count. *)
LEMMA RevokedLinksKept ==
  ASSUME ShareInv, SharingNext \/ UNCHANGED shareVars, NEW l \in DOMAIN share, share[l].revoked
  PROVE  share'[l].revoked
<1>1. ASSUME NEW v \in Views, ServeView(v) PROVE share'[l].revoked
  <2>1. PICK k : k = view[v].link
    OBVIOUS
  <2>2. PICK n : n = view[v].row.views + 1
    OBVIOUS
  <2>3. share' = [share EXCEPT ![k] = [share[k] EXCEPT !.views = n]] /\ share[l] \in ShareRow
    BY <1>1, <2>1, <2>2 DEF ServeView, SavedView, ShareInv
  <2>4. QED
    BY <2>3 DEF ShareRow
<1>2. ASSUME NEW k \in Links, revoke_share_link(k) PROVE share'[l].revoked
  BY <1>2 DEF revoke_share_link, ShareInv, ShareRow
<1>3. ASSUME NEW r \in Creates, NEW h \in 0 .. Horizon, create_share_link(r, h) PROVE share'[l].revoked
  BY <1>3 DEF create_share_link
<1>4. QED
  BY <1>1, <1>2, <1>3 DEF SharingNext, shareVars, check_share_quota, AbandonCreate, get_public_article,
     FailView, HourPasses

(* An article of its source's owner stays the owner's, whoever compiles it. *)
LEMMA PagesKept ==
  ASSUME ItemInv, AdminNext \/ UNCHANGED adminVars, NEW s \in items, s.page = s.owner
  PROVE  \E t \in items' : t.id = s.id /\ t.page = s.owner
<1>1. s \in ItemRow /\ s.page # Nobody1
  BY AdminAssumption DEF ItemInv, AdminTypeOK, Nobody1
<1>2. ASSUME NEW x \in items, NEW t, items' = (items \ {x}) \cup {t}, x = s => t.id = s.id /\ t.page = s.owner
      PROVE  \E y \in items' : y.id = s.id /\ y.page = s.owner
  BY <1>2
<1>3. ASSUME NEW q \in queued, RunItem(q) PROVE \E t \in items' : t.id = s.id /\ t.page = s.owner
  <2>1. PICK x \in items : items' = (items \ {x}) \cup {[x EXCEPT !.status = "processing", !.by = q.user]}
    BY <1>3 DEF RunItem, Set
  <2>2. PICK t : t = [x EXCEPT !.status = "processing", !.by = q.user]
    OBVIOUS
  <2>3. x = s => t.id = s.id /\ t.page = s.owner
    BY <1>1, <2>2 DEF ItemRow
  <2>4. QED
    BY <1>2, <2>1, <2>2, <2>3
<1>4. ASSUME NEW x \in items, retry_stuck_source(x) PROVE \E t \in items' : t.id = s.id /\ t.page = s.owner
  <2>1. PICK t : t = [x EXCEPT !.status = "pending"]
    OBVIOUS
  <2>2. x = s => t.id = s.id /\ t.page = s.owner
    BY <1>1, <2>1 DEF ItemRow
  <2>3. QED
    BY <1>2, <1>4, <2>1, <2>2 DEF retry_stuck_source, Set
<1>5. ASSUME NEW x \in items, NEW st \in {"compiled", "failed"}, EndItem(x, st)
      PROVE  \E t \in items' : t.id = s.id /\ t.page = s.owner
  <2>1. PICK t : t = [x EXCEPT !.status = st, !.page = IF st = "compiled" THEN PageOwner(x) ELSE @]
    OBVIOUS
  <2>2. x = s => t.id = s.id /\ t.page = s.owner
    BY <1>1, <2>1 DEF ItemRow, PageOwner
  <2>3. QED
    BY <1>2, <1>5, <2>1, <2>2 DEF EndItem, Set
<1>6. QED
  BY <1>3, <1>4, <1>5 DEF AdminNext, adminVars, IngestItem, MinutePasses

(* mcp_oauth.py, mcp/auth.py, sharing.py, admin.py: the user of a code never   *)
(* changes, a revoked token or link stays revoked whatever was under way, and  *)
(* an owner's article stays the owner's.                                       *)
THEOREM NothingIsUndone == AccessSpec => NothingUndone
<1>1. TokenInv /\ ShareInv /\ ItemInv /\ [AccessNext]_allVars =>
      [/\ \A r \in DOMAIN code : code'[r].user = code[r].user /\ code'[r].expires = code[r].expires
       /\ \A t \in token : t.revoked => \E s \in token' : s.id = t.id /\ s.revoked
       /\ \A l \in DOMAIN share : share[l].revoked => share'[l].revoked
       /\ \A s \in items : s.page = s.owner => \E t \in items' : t.id = s.id /\ t.page = s.owner]_allVars
  <2> SUFFICES ASSUME TokenInv, ShareInv, ItemInv, AccessNext
               PROVE  /\ \A r \in DOMAIN code : code'[r].user = code[r].user /\ code'[r].expires = code[r].expires
                      /\ \A t \in token : t.revoked => \E s \in token' : s.id = t.id /\ s.revoked
                      /\ \A l \in DOMAIN share : share[l].revoked => share'[l].revoked
                      /\ \A s \in items : s.page = s.owner => \E t \in items' : t.id = s.id /\ t.page = s.owner
    OBVIOUS
  <2>1. /\ TokensNext \/ UNCHANGED tokenVars
        /\ SharingNext \/ UNCHANGED shareVars
        /\ AdminNext \/ UNCHANGED adminVars
    BY DEF AccessNext
  <2>2. QED
    BY <2>1, CodesKept, RevokedTokensKept, RevokedLinksKept, PagesKept
<1>2. QED
  BY <1>1, TokensAlways, SharesAlways, ItemsAlways, PTL DEF AccessSpec, NothingUndone
=============================================================================
