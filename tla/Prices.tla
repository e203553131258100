------------------------------- MODULE Prices -------------------------------
(***************************************************************************)
(* services/billing.py: Plan.price_cents, the copy that the public list of *)
(* plans shows of the prices kept by Lemon Squeezy.  Webhooks tell of a    *)
(* change, one with the price itself and one that makes the handler fetch  *)
(* all prices; a reconciliation polls every six hours.  Webhooks come in   *)
(* any order, repeatedly or never.                                         *)
(***************************************************************************)
EXTENDS Naturals, FiniteSets

CONSTANTS SoldPlans,    \* plans with a variant of the one product
          ActivePlans,  \* those with is_active
          MaxChanges,   \* bound on price changes
          MaxPolls,     \* bound on reconciliations
          Requests      \* webhook requests under way at once

ASSUME PricesAssumption == ActivePlans \subseteq SoldPlans /\ MaxChanges \in Nat /\ MaxPolls \in Nat

VARIABLES remote,       \* prices at Lemon Squeezy
          price,        \* price_cents of each Plan row
          change,       \* changes so far: plan and new price
          handled,      \* webhooks recorded as WebhookEvent
          hook,         \* control state of each webhook request
          poll,         \* the reconciliation, if one runs
          polls,        \* reconciliations so far
          lagging       \* history: plans that may differ from the remote price

priceVars == <<remote, price, change, handled, hook, poll, polls, lagging>>

(* A change is the n-th price of some plan; its webhooks are named by it.   *)
HookKinds == {"variant", "product"}
Hooks == (1 .. Cardinality(DOMAIN change)) \X HookKinds
NoPrices == [p \in {} |-> 0]
NoHook == [pc |-> "idle", of |-> <<0, "variant">>, seen |-> NoPrices, mixed |-> FALSE]
NoPoll == [pc |-> "idle", loaded |-> NoPrices, fetched |-> NoPrices, left |-> {}, mixed |-> FALSE]

Over(f, g) == [p \in DOMAIN f \cup DOMAIN g |-> IF p \in DOMAIN g THEN g[p] ELSE f[p]]

PricesTypeOK ==
    /\ remote \in [SoldPlans -> 0 .. MaxChanges] /\ price \in [SoldPlans -> 0 .. MaxChanges]
    /\ handled \subseteq Hooks /\ polls \in 0 .. MaxPolls /\ lagging \subseteq SoldPlans

PricesInit ==
    /\ remote = [p \in SoldPlans |-> 0] /\ price = remote
    /\ change = [n \in {} |-> 0]
    /\ handled = {}
    /\ hook = [q \in Requests |-> NoHook]
    /\ poll = NoPoll
    /\ polls = 0
    /\ lagging = {}

(* Lemon Squeezy: the n-th change, and the webhooks that tell of it.  Who has *)
(* fetched before it holds the price of before.                              *)
ChangePrice(p) ==
    LET n == Cardinality(DOMAIN change) + 1 IN
    /\ n <= MaxChanges
    /\ remote' = [remote EXCEPT ![p] = n]
    /\ change' = [m \in 1 .. n |-> IF m = n THEN p ELSE change[m]]
    /\ lagging' = lagging \cup {p}
    /\ hook' = [q \in Requests |-> [hook[q] EXCEPT !.mixed = TRUE]]
    /\ poll' = [poll EXCEPT !.mixed = TRUE]
    /\ UNCHANGED <<price, handled, polls>>

(* The webhook h tells of the price that is still the remote one. *)
TellsNow(h) == remote[change[h[1]]] = h[1]

----------------------------------------------------------------------------
(* handle_webhook with variant_updated: the price comes with the event, so   *)
(* an event that comes late brings back an old price.                        *)
handle_variant_updated(h) ==
    LET p == change[h[1]] IN
    /\ h[2] = "variant" /\ h \notin handled
    /\ handled' = handled \cup {h}
    /\ price' = [price EXCEPT ![p] = h[1]]
    /\ lagging' = IF TellsNow(h) THEN lagging \ {p} ELSE lagging \cup {p}
    /\ poll' = [poll EXCEPT !.mixed = TRUE]
    /\ UNCHANGED <<remote, change, hook, polls>>

(* handle_product_updated fetches the prices of all variants first. *)
ListVariants(q, h) ==
    /\ hook[q].pc = "idle" /\ h[2] = "product" /\ h \notin handled
    /\ hook' = [hook EXCEPT ![q] = [pc |-> "apply", of |-> h, seen |-> remote, mixed |-> FALSE]]
    /\ UNCHANGED <<remote, price, change, handled, poll, polls, lagging>>

(* The fetch failed: the event is recorded as processed all the same. *)
ListFails(h) ==
    /\ h[2] = "product" /\ h \notin handled
    /\ handled' = handled \cup {h}
    /\ UNCHANGED <<remote, price, change, hook, poll, polls, lagging>>

(* The rows that differ are written and the event recorded, in a commit that *)
(* the unique event id refuses when another request was faster.              *)
handle_product_updated(q) ==
    LET h == hook[q].of IN
    /\ hook[q].pc = "apply"
    /\ \/ /\ h \in handled
          /\ hook' = [hook EXCEPT ![q] = NoHook]
          /\ UNCHANGED <<price, handled, lagging, poll>>
       \/ /\ h \notin handled
          /\ handled' = handled \cup {h}
          /\ price' = Over(price, hook[q].seen)
          /\ lagging' = IF hook[q].mixed THEN SoldPlans ELSE {}
          /\ hook' = [hook EXCEPT ![q] = NoHook]
          /\ poll' = [poll EXCEPT !.mixed = TRUE]
    /\ UNCHANGED <<remote, change, polls>>

----------------------------------------------------------------------------
(* run_price_reconciliation: loads the active plans. *)
StartPoll ==
    /\ poll.pc = "idle" /\ polls < MaxPolls
    /\ poll' = [pc |-> "fetch", loaded |-> [p \in ActivePlans |-> price[p]],
                fetched |-> NoPrices, left |-> ActivePlans, mixed |-> FALSE]
    /\ polls' = polls + 1
    /\ UNCHANGED <<remote, price, change, handled, hook, lagging>>

(* get_variant of the next plan, or its failure: the plan is passed over.    *)
GetVariant(p) ==
    /\ poll.pc = "fetch" /\ p \in poll.left
    /\ poll' = [poll EXCEPT !.left = @ \ {p},
                            !.fetched = Over(@, [x \in {p} |-> remote[p]])]
    /\ UNCHANGED <<remote, price, change, handled, hook, polls, lagging>>

GetVariantFails(p) ==
    /\ poll.pc = "fetch" /\ p \in poll.left
    /\ poll' = [poll EXCEPT !.left = @ \ {p}]
    /\ UNCHANGED <<remote, price, change, handled, hook, polls, lagging>>

(* One commit, of the plans whose price was found different from the loaded. *)
Corrected == {p \in DOMAIN poll.fetched : poll.fetched[p] # poll.loaded[p]}

reconcile_prices ==
    /\ poll.pc = "fetch" /\ poll.left = {}
    /\ price' = Over(price, [p \in Corrected |-> poll.fetched[p]])
    /\ lagging' = IF poll.mixed THEN lagging \cup Corrected ELSE lagging \ DOMAIN poll.fetched
    /\ poll' = NoPoll
    /\ UNCHANGED <<remote, change, handled, hook, polls>>

(* The worker dies: nothing was committed. *)
PollDies ==
    /\ poll.pc = "fetch"
    /\ poll' = NoPoll
    /\ UNCHANGED <<remote, price, change, handled, hook, polls, lagging>>

PricesNext ==
    \/ \E p \in SoldPlans : ChangePrice(p)
    \/ \E h \in Hooks : handle_variant_updated(h) \/ ListFails(h)
    \/ \E q \in Requests : handle_product_updated(q) \/ \E h \in Hooks : ListVariants(q, h)
    \/ StartPoll \/ reconcile_prices \/ PollDies
    \/ \E p \in ActivePlans : GetVariant(p) \/ GetVariantFails(p)

PricesSpec == PricesInit /\ [][PricesNext]_priceVars

----------------------------------------------------------------------------
(* A plan is shown at a price Lemon Squeezy has had for that very plan.      *)
PriceWasCharged == \A p \in SoldPlans : price[p] = 0 \/ change[price[p]] = p

(* A plan's price is the one charged, unless a change of it is still to be   *)
(* told, or what was told last was old: a late variant_updated, or prices    *)
(* that a request or a reconciliation fetched before the change.  A          *)
(* product_updated without a change meanwhile corrects every plan, whatever  *)
(* else is handled meanwhile, and a reconciliation that no other write came  *)
(* between every active plan it could fetch.                                 *)
PriceCurrent == \A p \in SoldPlans \ lagging : price[p] = remote[p]
=============================================================================
