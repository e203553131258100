------------------------------ MODULE MCAccess ------------------------------
(***************************************************************************)
(* Model checking of who gets at what: logins, tokens, public links,       *)
(* deletion of accounts, users' keys, the administrator's view and the     *)
(* readers' views of the wiki. They share no state, so each behaviour runs *)
(* one of them while the others stay as they started.                      *)
(***************************************************************************)
EXTENDS Logins, Tokens, Sharing, Accounts, ApiKeys, Admin, Library, TLC

CONSTANTS p1, t1, t2, t3, w1
VARIABLE part
allVars == <<loginVars, tokenVars, shareVars, accountVars, keyVars, adminVars, libVars, part>>

(* Two identities that have the same number at different providers. *)
MCIdentities == {[provider |-> "google", pid |-> p1], [provider |-> "github", pid |-> p1]}

(* "Topic", "topic", and a title that normalises to the same. *)
Plain == [name |-> "Topic", low |-> "topic", norm |-> "topic", words |-> {w1}]
Lower == [name |-> "topic", low |-> "topic", norm |-> "topic", words |-> {w1}]
Fancy == [name |-> "The Topic!", low |-> "the topic!", norm |-> "topic", words |-> {}]

MCProfiles ==
    {[title |-> Plain, kind |-> "source", topics |-> {t1, t2, t3}, words |-> {}, kinds |-> {"pdf"}],
     [title |-> Lower, kind |-> "concept", topics |-> {t1, t2, t3}, words |-> {w1}, kinds |-> {"pdf", "url"}],
     [title |-> Fancy, kind |-> "source", topics |-> {t1}, words |-> {w1}, kinds |-> {"url"}],
     [title |-> Fancy, kind |-> "synthesis", topics |-> {}, words |-> {}, kinds |-> {}]}

AccessInit ==
    /\ part \in {"logins", "tokens", "sharing", "accounts", "keys", "admin", "library"}
    /\ IF part = "logins" THEN LoginsInit ELSE LoginsInit /\ mail = [i \in Identities |-> NoEmail]
    /\ IF part = "accounts" THEN AccountsInit ELSE AccountsInit /\ enforced
    /\ TokensInit /\ SharingInit /\ ApiKeysInit /\ AdminInit /\ LibraryInit

AccessNext ==
    /\ \/ part = "logins" /\ LoginsNext
       \/ part # "logins" /\ UNCHANGED loginVars
    /\ \/ part = "tokens" /\ TokensNext
       \/ part # "tokens" /\ UNCHANGED tokenVars
    /\ \/ part = "sharing" /\ SharingNext
       \/ part # "sharing" /\ UNCHANGED shareVars
    /\ \/ part = "accounts" /\ AccountsNext
       \/ part # "accounts" /\ UNCHANGED accountVars
    /\ \/ part = "keys" /\ ApiKeysNext
       \/ part # "keys" /\ UNCHANGED keyVars
    /\ \/ part = "admin" /\ AdminNext
       \/ part # "admin" /\ UNCHANGED adminVars
    /\ \/ part = "library" /\ LibraryNext
       \/ part # "library" /\ UNCHANGED libVars
    /\ UNCHANGED part

AccessSpec == AccessInit /\ [][AccessNext]_allVars

(* The components' sets of requests share their model values. *)
Symmetry == Permutations(Attempts) \cup Permutations(Emails)

----------------------------------------------------------------------------
(* Each component's invariants, looked at while it is the one that runs.     *)

(* services/user.py, api/routes/auth.py: see OwnAccount and NotLockedOut.    *)
LoginsSound == part = "logins" => LoginsTypeOK /\ OwnAccount /\ NotLockedOut

(* api/routes/mcp_oauth.py: see TokenFromConsent and CodeOnce.               *)
GrantsSound == part = "tokens" => TokensTypeOK /\ TokenFromConsent /\ CodeOnce

(* services/sharing.py, services/quota.py: see SharesWithinPlan and          *)
(* ViewsCounted.                                                             *)
SharesSound == part = "sharing" => SharingTypeOK /\ SharesWithinPlan /\ ViewsCounted

(* services/api_keys.py, services/admin.py, services/user.py: see            *)
(* KeyIsLatest, StatsAddUp and RetryRuns; and, where foreign keys are        *)
(* enforced, no row outlives its account.                                    *)
KeysAndJobsSound ==
    /\ part = "accounts" => AccountsTypeOK
    /\ part = "keys" => ApiKeysTypeOK /\ KeyIsLatest
    /\ part = "admin" => AdminTypeOK /\ StatsAddUp /\ RetryRuns

(* services/search.py, services/wiki.py, services/tags.py,                   *)
(* engine/wikilink_resolver.py: see OwnViewOnly, FacetsAgree, FoundIsThere,  *)
(* PagesCoverResults, GraphClosed, SuggestedOnce, IndexListsAll and          *)
(* ResolversAgree. What search, graph, index and links show is the reader's  *)
(* own, and agrees with the articles and with one another.                   *)
ViewsSound ==
    part = "library" =>
        /\ LibraryTypeOK /\ OwnViewOnly
        /\ FacetsAgree /\ FoundIsThere /\ PagesCoverResults
        /\ GraphClosed /\ SuggestedOnce /\ IndexListsAll /\ ResolversAgree

(* mcp_oauth.py, mcp/auth.py, sharing.py, admin.py: what was decided or      *)
(* revoked stays so. The user a code belongs to never changes; a revoked     *)
(* token or link stays revoked, whatever check or view of it was under way;  *)
(* and an article that belongs to the owner of its source stays the owner's, *)
(* also when an administrator compiles it again.                             *)
NothingUndone ==
    [][/\ \A r \in DOMAIN code : code'[r].user = code[r].user /\ code'[r].expires = code[r].expires
       /\ \A t \in token : t.revoked => \E s \in token' : s.id = t.id /\ s.revoked
       /\ \A l \in DOMAIN share : share[l].revoked => share'[l].revoked
       /\ \A s \in items : s.page = s.owner => \E t \in items' : t.id = s.id /\ t.page = s.owner]_allVars
=============================================================================
