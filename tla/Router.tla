------------------------------- MODULE Router -------------------------------
(***************************************************************************)
(* engine/llm_router.py and services/plan_routing.py in one process: which *)
(* providers a completion is sent to and with whose key, what it costs,    *)
(* and the budget notifications a check started after each call sends.     *)
(***************************************************************************)
EXTENDS Naturals, Sequences, FiniteSets, SequencesExt

CONSTANTS Callers,      \* users
          Calls,        \* completions
          Enum,         \* the members of Provider, in order
          Enabled,      \* providers the settings enable
          ServerKey,    \* providers with a key of the instance, or that need none
          ByokCapable,  \* providers tried for users' keys though not enabled
          Stored,       \* the keys users store, as pairs of user and provider
          Default,      \* runtime default provider
          PlanProvider, \* Plan.llm_provider
          Billing,      \* deployment_mode is "hosted"
          Fallback,     \* runtime fallback_enabled
          SpendCap,     \* daily_llm_spend_cap_cents of each user's plan; 0 is none
          Warn, Budget, \* spend at which a warning is due, and the budget
          Redis         \* redis_url is set

ASSUME RouterAssumption ==
    /\ Enum \in Seq(Range(Enum)) /\ {Default, PlanProvider} \cup Enabled \cup ByokCapable \subseteq Range(Enum)
    /\ {"none", "server"} \cap Callers = {} /\ IsFiniteSet(Calls)
    /\ SpendCap \in [Callers -> Nat] /\ Warn \in Nat /\ Budget \in Nat /\ Warn <= Budget

VARIABLES userKey,      \* providers each user has stored a key for
          instance,     \* _provider_cache: whose key the cached client holds
          call,         \* control state of each completion
          month,        \* the calendar month
          spend,        \* CostLog sums per user and month
          cached,       \* _cached_spend: sum and the month it was taken in
          flag,         \* _budget_warning_sent, _budget_exceeded_sent
          shared,       \* the same flags in Redis
          told,         \* history: notifications sent per user, month and kind
          overlap,      \* history: two checks of one user were under way
          carried,      \* history: a sum of an earlier month was used
          forgot,       \* history: a restart lost a flag
          crossing      \* history: a call was admitted beside another of the user, or unchecked

routerVars == <<userKey, instance, call, month, spend, cached, flag, shared, told, overlap,
                carried, forgot, crossing>>

Providers == Range(Enum)
Kinds == {"warning", "exceeded"}
Months == 1 .. 2
Server == "server"
NoCall == [pc |-> "idle", user |-> "none", left |-> {}, only |-> FALSE, quiet |-> FALSE, tried |-> {}, key |-> "none",
           month |-> 0, sent |-> {}, sum |-> 0]

RouterTypeOK ==
    /\ userKey \in [Callers -> SUBSET Providers]
    /\ instance \in [Providers -> {"none", Server} \cup Callers]
    /\ \A c \in Calls : call[c].pc \in {"idle", "try", "log", "flags", "spend", "warn", "warned",
                                        "exceed", "exceeded", "done", "failed", "refused"}
    /\ month \in Months
    /\ \A u \in Callers, m \in Months : spend[u][m] \in 0 .. Cardinality(Calls)

RouterInit ==
    /\ userKey = [u \in Callers |-> {}]
    /\ instance = [p \in Providers |-> "none"]
    /\ call = [c \in Calls |-> NoCall]
    /\ month = 1
    /\ spend = [u \in Callers |-> [m \in Months |-> 0]]
    /\ cached = [u \in Callers |-> [sum |-> 0, month |-> 0]]
    /\ flag = [u \in Callers |-> [k \in Kinds |-> 0]]
    /\ shared = [u \in Callers |-> {}]
    /\ told = [u \in Callers |-> [m \in Months |-> [k \in Kinds |-> 0]]]
    /\ overlap = FALSE /\ carried = FALSE /\ forgot = FALSE /\ crossing = FALSE

----------------------------------------------------------------------------
(* set_user_api_key, delete_user_api_key *)
SetUserKey(u, p) ==
    /\ <<u, p>> \in Stored
    /\ userKey' = [userKey EXCEPT ![u] = IF p \in @ THEN @ \ {p} ELSE @ \cup {p}]
    /\ UNCHANGED <<instance, call, month, spend, cached, flag, shared, told, overlap, carried, forgot, crossing>>

(* The providers a call goes through: the plan's if it may use no other, the *)
(* default, those enabled, and those that users may have stored a key for.   *)
Candidates(only) == {Default} \cup Enabled \cup ByokCapable \cup (IF only THEN {PlanProvider} ELSE {})

Place(p) == CHOOSE n \in 1 .. Len(Enum) : Enum[n] = p

Rank(p, only) ==
    IF only /\ p = PlanProvider THEN 0 ELSE IF p = Default THEN 1
    ELSE 1 + Place(p) + IF p \in Enabled THEN 0 ELSE Len(Enum)

(* ... and the one whose turn it is. *)
_get_provider_order(c) ==
    CHOOSE p \in call[c].left : \A o \in call[c].left : Rank(p, call[c].only) <= Rank(o, call[c].only)

_is_provider_available(p) == p \in Enabled /\ p \in ServerKey

(* check_daily_llm_spend: today's sum, where a month of the model is a day.  *)
check_daily_llm_spend(u) == SpendCap[u] = 0 \/ spend[u][month] < SpendCap[u]

Running(u) == {c \in Calls : call[c].user = u /\ call[c].pc \in {"try", "log"}}

(* plan_aware_complete: without billing, and with a key for the plan's       *)
(* provider, every provider may serve; otherwise only the plan's.            *)
plan_aware_complete(c, u) ==
    /\ call[c].pc = "idle"
    /\ LET free == ~Billing \/ PlanProvider \in userKey[u] IN
       call' = [call EXCEPT ![c] =
           IF Billing /\ ~check_daily_llm_spend(u) THEN [NoCall EXCEPT !.pc = "refused"]
           ELSE [NoCall EXCEPT !.pc = "try", !.user = u, !.only = ~free,
                               !.left = Candidates(~free)]]
    /\ crossing' = (crossing \/ Running(u) # {})
    /\ UNCHANGED <<userKey, instance, month, spend, cached, flag, shared, told, overlap, carried, forgot>>

(* complete_multimodal, from the PDF adapter: no plan, no budget check.      *)
complete_multimodal(c, u) ==
    /\ call[c].pc = "idle"
    /\ call' = [call EXCEPT ![c] = [NoCall EXCEPT !.pc = "try", !.user = u, !.quiet = TRUE,
                                                  !.left = Candidates(FALSE)]]
    /\ crossing' = TRUE
    /\ UNCHANGED <<userKey, instance, month, spend, cached, flag, shared, told, overlap, carried, forgot>>

HasKey(c) == _get_provider_order(c) \in userKey[call[c].user]

(* A provider without a key of the user's or the instance's is passed over.  *)
Skip(c) ==
    /\ call[c].pc = "try" /\ call[c].left # {}
    /\ ~HasKey(c) /\ ~_is_provider_available(_get_provider_order(c))
    /\ call' = [call EXCEPT ![c].left = @ \ {_get_provider_order(c)}]
    /\ UNCHANGED <<userKey, instance, month, spend, cached, flag, shared, told, overlap, carried, forgot, crossing>>

(* Mutant of _get_provider_instance: a client made for a user's key is kept. *)
KeepAnyInstance(c, p) ==
    LET whose == IF instance[p] # "none" THEN instance[p]
                 ELSE IF HasKey(c) THEN call[c].user ELSE Server
    IN /\ instance' = [instance EXCEPT ![p] = whose]
       /\ call'[c].key = whose

(* _get_provider_instance: a client with the user's key is made for the call *)
(* only; one with the instance's key is kept and used again.                 *)
_get_provider_instance(c, p) ==
    IF HasKey(c) THEN UNCHANGED instance /\ call'[c].key = call[c].user
    ELSE instance' = [instance EXCEPT ![p] = Server] /\ call'[c].key = Server

(* _execute_with_fallback: what follows a failed attempt. *)
_execute_with_fallback(c) == ~call[c].only /\ Fallback

Attempt(c, ok) ==
    LET p == _get_provider_order(c) IN
    /\ call[c].pc = "try" /\ call[c].left # {}
    /\ HasKey(c) \/ _is_provider_available(p)
    /\ \E key \in Callers \cup {Server} :
          call' = [call EXCEPT ![c].tried = @ \cup {p}, ![c].left = @ \ {p}, ![c].key = key,
                               ![c].pc = IF ok THEN "log" ELSE IF _execute_with_fallback(c) THEN "try" ELSE "failed"]
    /\ _get_provider_instance(c, p)
    /\ UNCHANGED <<userKey, month, spend, cached, flag, shared, told, overlap, carried, forgot, crossing>>

Exhausted(c) ==
    /\ call[c].pc = "try" /\ call[c].left = {}
    /\ call' = [call EXCEPT ![c].pc = "failed"]
    /\ UNCHANGED <<userKey, instance, month, spend, cached, flag, shared, told, overlap, carried, forgot, crossing>>

Checking(u) == {c \in Calls : call[c].user = u
                    /\ call[c].pc \in {"flags", "spend", "warn", "warned", "exceed", "exceeded"}}

(* _log_cost, in a session of its own, and the task that checks the budget.  *)
(* A failure to log is swallowed.                                            *)
_log_cost(c, logged) ==
    /\ call[c].pc = "log"
    /\ spend' = IF logged THEN [spend EXCEPT ![call[c].user][month] = @ + 1] ELSE spend
    /\ call' = [call EXCEPT ![c].pc = IF call[c].quiet THEN "done" ELSE "flags"]
    /\ overlap' = (overlap \/ Checking(call[c].user) # {})
    /\ UNCHANGED <<userKey, instance, month, cached, flag, shared, told, carried, forgot, crossing>>

----------------------------------------------------------------------------
(* _check_budget, first part: old flags are dropped, and both flags read, in *)
(* memory and then in Redis.                                                 *)
Fresh(u) == [k \in Kinds |-> IF flag[u][k] = month THEN month ELSE 0]
_budget_flag_is_set(u, k) == Fresh(u)[k] = month \/ (Redis /\ <<k, month>> \in shared[u])

ReadFlags(c) ==
    LET u == call[c].user
        sent == {k \in Kinds : _budget_flag_is_set(u, k)}
    IN
    /\ call[c].pc = "flags"
    /\ flag' = [flag EXCEPT ![u] = Fresh(u)]
    /\ call' = [call EXCEPT ![c].month = month, ![c].sent = sent,
                            ![c].pc = IF sent = Kinds THEN "done" ELSE "spend"]
    /\ UNCHANGED <<userKey, instance, month, spend, cached, shared, told, overlap, carried, forgot, crossing>>

MonthlySum(u, m) == spend[u][m]

(* The cached sum, or a new one, which is cached. *)
ReadSpend(c, hit) ==
    LET u == call[c].user IN
    /\ call[c].pc = "spend"
    /\ hit => cached[u].month # 0
    /\ cached' = IF hit THEN cached
                 ELSE [cached EXCEPT ![u] = [sum |-> MonthlySum(u, call[c].month), month |-> call[c].month]]
    /\ call' = [call EXCEPT ![c].pc = "warn", ![c].sum = cached'[u].sum]
    /\ carried' = (carried \/ cached'[u].month # call[c].month)
    /\ UNCHANGED <<userKey, instance, month, spend, flag, shared, told, overlap, forgot, crossing>>

Due(c, k) == k \notin call[c].sent /\ call[c].sum >= (IF k = "warning" THEN Warn ELSE Budget)

(* The notification goes out and then the flag is set in memory and Redis.   *)
Emit(c, k, from, due, skip) ==
    /\ call[c].pc = from
    /\ call' = [call EXCEPT ![c].pc = IF Due(c, k) THEN due ELSE skip]
    /\ told' = IF Due(c, k) THEN [told EXCEPT ![call[c].user][call[c].month][k] = @ + 1] ELSE told
    /\ UNCHANGED <<userKey, instance, month, spend, cached, flag, shared, overlap, carried, forgot, crossing>>

_set_budget_flag(u, k, m) ==
    /\ flag' = [flag EXCEPT ![u][k] = m]
    /\ shared' = IF Redis THEN [shared EXCEPT ![u] = @ \cup {<<k, m>>}] ELSE shared

SetFlag(c, k, from, to) ==
    /\ call[c].pc = from
    /\ _set_budget_flag(call[c].user, k, call[c].month)
    /\ call' = [call EXCEPT ![c].pc = to]
    /\ UNCHANGED <<userKey, instance, month, spend, cached, told, overlap, carried, forgot, crossing>>

_check_budget(c) ==
    \/ ReadFlags(c)
    \/ \E hit \in BOOLEAN : ReadSpend(c, hit)
    \/ Emit(c, "warning", "warn", "warned", "exceed")
    \/ SetFlag(c, "warning", "warned", "exceed")
    \/ Emit(c, "exceeded", "exceed", "exceeded", "done")
    \/ SetFlag(c, "exceeded", "exceeded", "done")

----------------------------------------------------------------------------
NextMonth ==
    /\ month < 2
    /\ month' = month + 1
    /\ UNCHANGED <<userKey, instance, call, spend, cached, flag, shared, told, overlap, carried, forgot, crossing>>

(* A restart forgets the process's caches and flags; calls in it are lost.   *)
Restart ==
    /\ instance' = [p \in Providers |-> "none"]
    /\ cached' = [u \in Callers |-> [sum |-> 0, month |-> 0]]
    /\ flag' = [u \in Callers |-> [k \in Kinds |-> 0]]
    /\ call' = [c \in Calls |-> IF call[c].pc \in {"idle", "done", "failed", "refused"} THEN call[c]
                                ELSE [NoCall EXCEPT !.pc = "failed"]]
    /\ forgot' = (forgot \/ ~Redis \/ \E c \in Calls : call[c].pc \in {"warned", "exceeded"})
    /\ UNCHANGED <<userKey, month, spend, shared, told, overlap, carried, crossing>>

RouterNext ==
    \/ \E u \in Callers, p \in ByokCapable : SetUserKey(u, p)
    \/ \E c \in Calls, u \in Callers : plan_aware_complete(c, u) \/ complete_multimodal(c, u)
    \/ \E c \in Calls : Skip(c) \/ Exhausted(c) \/ _check_budget(c)
    \/ \E c \in Calls, ok \in BOOLEAN : Attempt(c, ok) \/ _log_cost(c, ok)
    \/ NextMonth \/ Restart

----------------------------------------------------------------------------
(* A call is made with the caller's own key or the instance's, never with a  *)
(* key another user stored and a kept client still holds.                    *)
KeyIsOwn == \A c \in Calls : call[c].key \in {"none", Server, call[c].user}

(* disable_fallback: "raise immediately on provider error instead of trying  *)
(* the next provider": a call under a plan reaches one provider at most; and *)
(* a call that may fall back fails only after every provider it had a key    *)
(* for all along was tried.                                                  *)
FallbackHeld ==
    \A c \in Calls :
        /\ call[c].only => Cardinality(call[c].tried) <= 1
        /\ call[c].pc = "failed" /\ call[c].user # "none" /\ ~call[c].only /\ Fallback
               => Enabled \cap ServerKey \subseteq call[c].tried

(* A user is told once a month of each threshold, also across restarts as    *)
(* far as Redis keeps the flags, unless two checks of one user overlap.      *)
ToldOnce ==
    ~overlap /\ ~forgot => \A u \in Callers, m \in Months, k \in Kinds : told[u][m][k] <= 1

(* A notification is about money spent that month, unless the cached sum is  *)
(* one of the month before; who was told of an exceeded budget was warned.   *)
ToldTruly ==
    \A u \in Callers, m \in Months :
        /\ ~carried /\ told[u][m]["warning"] > 0 => spend[u][m] >= Warn
        /\ ~carried /\ told[u][m]["exceeded"] > 0 => spend[u][m] >= Budget
        /\ told[u][m]["exceeded"] > 0 => told[u][m]["warning"] > 0

(* The daily cap holds, unless a user's calls overlap: each is then admitted *)
(* on a sum that leaves out the others.                                      *)
CapHeld ==
    Billing /\ ~crossing =>
        \A u \in Callers, m \in Months : SpendCap[u] > 0 => spend[u][m] <= SpendCap[u]
=============================================================================
