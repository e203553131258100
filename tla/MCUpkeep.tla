------------------------------ MODULE MCUpkeep ------------------------------
(***************************************************************************)
(* Model checking of the linter, the LLM router, the run-time settings and *)
(* the prices of plans.  They share no state, so each behaviour runs one   *)
(* of them while the others stay as they started.                          *)
(***************************************************************************)
EXTENDS Lint, Router, Preferences, Prices

CONSTANTS p1, p2, p3, pa, pb, pc, u1, u2
VARIABLE part
allVars == <<lintVars, routerVars, prefVars, priceVars, part>>

(* Two pairs, of which one shares two concepts; one link without inverse.   *)
MCPairs == {{p1, p2}, {p2, p3}}
MCShared == [p \in MCPairs |-> IF p1 \in p THEN 2 ELSE 1]
MCOneWay == {<<p1, p2>>}

(* Two providers of the instance, and one that needs a user's key. *)
MCEnum == <<pa, pb, pc>>
MCSpendCap == [u \in {u1, u2} |-> IF u = u1 THEN 1 ELSE 0]
MCStored == {<<u1, pa>>, <<u2, pc>>}

UpkeepInit ==
    /\ LintInit /\ RouterInit /\ PreferencesInit /\ PricesInit
    /\ part \in {"lint", "router", "preferences", "prices"}

UpkeepNext ==
    /\ \/ part = "lint" /\ LintNext /\ UNCHANGED <<routerVars, prefVars, priceVars>>
       \/ part = "router" /\ RouterNext /\ UNCHANGED <<lintVars, prefVars, priceVars>>
       \/ part = "preferences" /\ PreferencesNext /\ UNCHANGED <<lintVars, routerVars, priceVars>>
       \/ part = "prices" /\ PricesNext /\ UNCHANGED <<lintVars, routerVars, prefVars>>
    /\ UNCHANGED part

UpkeepSpec == UpkeepInit /\ [][UpkeepNext]_allVars

(* The components' sets of requests share their model values. *)
Symmetry == Permutations(Lints)

----------------------------------------------------------------------------
(* Each component's invariants, looked at while it is the one that runs.     *)

(* engine/linter/runner.py: see NoRunBlocked, RecompileOnce and OneActive.   *)
(* However runs fail, die and repeat, the next one starts and does not do    *)
(* again what was done.                                                      *)
LintRunsSound == part = "lint" => LintTypeOK /\ NoRunBlocked /\ RecompileOnce /\ OneActive

(* engine/linter/, services/linter.py: see CacheIsCurrent, DismissalSticks   *)
(* and CountsFindings. A report says what is so, and what users said of it.  *)
LintReportsSound == part = "lint" => CacheIsCurrent /\ DismissalSticks /\ CountsFindings

(* engine/llm_router.py, services/plan_routing.py, services/quota.py: see    *)
(* KeyIsOwn, FallbackHeld, ToldOnce, ToldTruly and CapHeld. Calls are made   *)
(* with a key the caller may use, in the order and within the spend allowed, *)
(* and the user is told of it once and truly.                                *)
CallsSound == part = "router" => RouterTypeOK /\ KeyIsOwn /\ FallbackHeld /\ ToldOnce /\ ToldTruly /\ CapHeld

(* api/routes/settings.py, services/billing.py: see OverlayMatches and       *)
(* ClientCurrent, PriceWasCharged and PriceCurrent. The copies kept of       *)
(* settings and prices are those of the rows and of Lemon Squeezy.           *)
SettingsSound ==
    /\ part = "preferences" => PreferencesTypeOK /\ OverlayMatches /\ ClientCurrent
    /\ part = "prices" => PricesTypeOK /\ PriceWasCharged /\ PriceCurrent
=============================================================================
