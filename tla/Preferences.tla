---------------------------- MODULE Preferences -----------------------------
(***************************************************************************)
(* api/routes/settings.py and config.RuntimeConfig: settings that users    *)
(* change at run time.  Each is a row that survives restarts and an entry  *)
(* of the process's overlay that the router reads; the client of the       *)
(* OpenAI-compatible provider is built from the overlay and kept.          *)
(***************************************************************************)
EXTENDS Naturals

CONSTANTS Patches,      \* PATCH /settings requests
          Tests,        \* POST /settings/llm/test requests
          IsDev         \* settings.is_dev

VARIABLES pref,         \* UserPreference rows
          over,         \* RuntimeConfig overrides, or the Settings default
          client,       \* base URL of the kept client, if one is kept
          patch,        \* control state of each PATCH
          test,         \* control state of each test
          mixed,        \* history: requests overlapped
          rejected      \* history: a PATCH was refused after a part of it was done

prefVars == <<pref, over, client, patch, test, mixed, rejected>>

(* update_settings goes through its fields in this order. *)
Order == [fallback |-> 1, url |-> 2, model |-> 3, refresh |-> 4, default |-> 5]
Fields == {"fallback", "url", "model", "default"}
Compatible == {"url", "model"}
Values == 0 .. 2        \* 0 is the initial one; 2 fails validation
Bad == 2

NoPatch == [pc |-> "idle", change |-> [f \in {} |-> 0], done |-> {}]
Finished == [NoPatch EXCEPT !.pc = "done"]
Tested == [pc |-> "done", saved |-> 0]

PreferencesTypeOK ==
    /\ pref \in [Fields -> Values \ {Bad}]
    /\ over \in [Fields -> Values \ {Bad}]
    /\ client \subseteq Values
    /\ \A q \in Patches : patch[q].pc \in {"idle", "field", "overlay", "done"}
    /\ \A t \in Tests : test[t].pc \in {"idle", "call", "done"}

PreferencesInit ==
    /\ pref = [f \in Fields |-> 0]
    /\ over = pref
    /\ client = {}
    /\ patch = [q \in Patches |-> NoPatch]
    /\ test = [t \in Tests |-> [pc |-> "idle", saved |-> 0]]
    /\ mixed = FALSE /\ rejected = FALSE

Busy == (\E q \in Patches : patch[q].pc \in {"field", "overlay"}) \/ \E t \in Tests : test[t].pc = "call"

----------------------------------------------------------------------------
(* update_settings, set_default_provider: the request is taken up. *)
update_settings(q, change) ==
    /\ patch[q].pc = "idle"
    /\ patch' = [patch EXCEPT ![q] = [pc |-> "field", change |-> change, done |-> {}]]
    /\ mixed' = (mixed \/ Busy)
    /\ UNCHANGED <<pref, over, client, test, rejected>>

(* The next field of the request; after those of the compatible provider,    *)
(* its kept client is dropped.                                               *)
Wanted(q) == DOMAIN patch[q].change \cup
             (IF DOMAIN patch[q].change \cap Compatible # {} THEN {"refresh"} ELSE {})
Todo(q) == Wanted(q) \ patch[q].done
Turn(q) == CHOOSE f \in Todo(q) : \A g \in Todo(q) : Order[f] <= Order[g]

(* A field is validated and its row committed (_set_preference); when it is  *)
(* refused the fields before it stay done and those after it are dropped.    *)
_set_preference(q) ==
    /\ patch[q].pc = "field" /\ Todo(q) # {} /\ Turn(q) # "refresh"
    /\ LET f == Turn(q)
           refused == patch[q].change[f] = Bad \/ (f \in Compatible /\ ~IsDev)
       IN /\ pref' = IF refused THEN pref ELSE [pref EXCEPT ![f] = patch[q].change[f]]
          /\ patch' = [patch EXCEPT ![q] = IF refused THEN Finished ELSE [@ EXCEPT !.pc = "overlay"]]
          /\ rejected' = (rejected \/ (refused /\ patch[q].done # {}))
    /\ UNCHANGED <<over, client, test, mixed>>

(* ... and then set in the overlay. *)
SetOverride(q) ==
    /\ patch[q].pc = "overlay"
    /\ LET f == Turn(q) IN
       /\ over' = [over EXCEPT ![f] = patch[q].change[f]]
       /\ patch' = [patch EXCEPT ![q].done = @ \cup {f}, ![q].pc = "field"]
    /\ UNCHANGED <<pref, client, test, mixed, rejected>>

_refresh_openai_compatible_enabled(q) ==
    /\ patch[q].pc = "field" /\ Todo(q) # {} /\ Turn(q) = "refresh"
    /\ client' = {}
    /\ patch' = [patch EXCEPT ![q].done = @ \cup {"refresh"}]
    /\ UNCHANGED <<pref, over, test, mixed, rejected>>

EndPatch(q) ==
    /\ patch[q].pc = "field" /\ Todo(q) = {}
    /\ patch' = [patch EXCEPT ![q] = Finished]
    /\ UNCHANGED <<pref, over, client, test, mixed, rejected>>

(* A completion of the compatible provider builds the client if none is kept. *)
UseClient ==
    /\ client' = IF client = {} THEN {over["url"]} ELSE client
    /\ UNCHANGED <<pref, over, patch, test, mixed, rejected>>

(* test_llm_connection switches fallback off for its call and then back.     *)
BeginTest(t) ==
    /\ test[t].pc = "idle"
    /\ test' = [test EXCEPT ![t] = [pc |-> "call", saved |-> over["fallback"]]]
    /\ over' = [over EXCEPT !["fallback"] = 1]
    /\ mixed' = (mixed \/ Busy)
    /\ UNCHANGED <<pref, client, patch, rejected>>

(* Mutant of test_llm_connection: only a test that succeeds switches back.   *)
RestoreOnSuccess(t, ok) ==
    /\ test[t].pc = "call"
    /\ over' = IF ok THEN [over EXCEPT !["fallback"] = test[t].saved] ELSE over
    /\ test' = [test EXCEPT ![t] = Tested]
    /\ UNCHANGED <<pref, client, patch, mixed, rejected>>

test_llm_connection(t, ok) ==
    /\ test[t].pc = "call"
    /\ over' = [over EXCEPT !["fallback"] = test[t].saved]
    /\ test' = [test EXCEPT ![t] = Tested]
    /\ UNCHANGED <<pref, client, patch, mixed, rejected>>

(* A restart loads the rows into the overlay; requests in the process end.   *)
apply_runtime_llm_preferences ==
    /\ over' = pref
    /\ client' = {}
    /\ patch' = [q \in Patches |-> IF patch[q].pc = "idle" THEN patch[q] ELSE Finished]
    /\ test' = [t \in Tests |-> IF test[t].pc = "idle" THEN test[t] ELSE Tested]
    /\ UNCHANGED <<pref, mixed, rejected>>

PreferencesNext ==
    \/ \E q \in Patches :
          \/ \E s \in SUBSET Fields : \E change \in [s -> {1, Bad}] : update_settings(q, change)
          \/ _set_preference(q) \/ SetOverride(q)
          \/ _refresh_openai_compatible_enabled(q) \/ EndPatch(q)
    \/ \E t \in Tests : BeginTest(t) \/ \E ok \in BOOLEAN : test_llm_connection(t, ok)
    \/ UseClient \/ apply_runtime_llm_preferences

----------------------------------------------------------------------------
(* "Changes persist to DB across restarts": once no request is under way,    *)
(* what the router reads is what a restart would load, also after refused    *)
(* requests and connection tests.  Needs requests that do not overlap: a     *)
(* test puts back the fallback setting it found.                             *)
OverlayMatches == ~Busy /\ ~mixed => over = pref

(* "Invalidate provider cache after runtime config changes": once no request *)
(* is under way the kept client has the current base URL, however requests   *)
(* overlapped; not so after a PATCH whose URL was taken and whose later      *)
(* field was refused.                                                        *)
ClientCurrent == ~Busy /\ ~rejected => client \subseteq {over["url"]}
=============================================================================
