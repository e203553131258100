------------------------------- MODULE Billing -------------------------------
(****************************************************************************)
(* Subscription entitlement of one user: the Lemon Squeezy webhook           *)
(* (api/routes/billing.py handle_webhook), the six-hourly reconciliation     *)
(* (services/billing.py reconcile_subscriptions) and what both write through *)
(* apply_entitlement.  Lemon Squeezy itself is external: it moves a          *)
(* subscription between its statuses and reports every move by webhooks      *)
(* that may arrive late, out of order, again, or never.                      *)
(*                                                                           *)
(* A webhook request and a reconciliation each run in one transaction: they  *)
(* load rows, await, and commit.  The ORM updates only the columns whose     *)
(* value differs from the value loaded.  The end of a paid period, an aware  *)
(* datetime parsed from ends_at, goes into a naive column: SQLite stores it, *)
(* asyncpg refuses the statement.                                            *)
(****************************************************************************)
EXTENDS Naturals

CONSTANTS
    None,
    Subs,         \* Lemon Squeezy subscriptions of the user
    Statuses,     \* the statuses Lemon Squeezy uses
    Requests,     \* webhook requests the gateway serves at the same time
    MaxMoves,     \* bound on the moves of the subscriptions
    NaiveOnly,    \* TRUE on PostgreSQL: asyncpg refuses an aware datetime
    Faults        \* which of FaultKinds may happen

(* "lose": Lemon Squeezy gives up on a webhook.  "abort": a transaction is   *)
(* rolled back, by an error or because its process dies.  "skip": the GET of *)
(* one subscription fails during a reconciliation.                           *)
FaultKinds == {"lose", "abort", "skip"}

LSStatus == {"active", "on_trial", "past_due", "cancelled", "paused", "expired",
             "unpaid"}

ASSUME StatusAssumption == {"active"} \subseteq Statuses /\ Statuses \subseteq LSStatus
ASSUME MovesAssumption == MaxMoves \in Nat
ASSUME NaiveAssumption == NaiveOnly \in BOOLEAN
ASSUME FaultAssumption == Faults \subseteq FaultKinds

VARIABLES
    remote,      \* the status Lemon Squeezy holds for a subscription
    moves,       \* the number of moves it has made
    sent,        \* the webhooks it has issued
    lost,        \* the ones it will not deliver (again)
    processed,   \* WebhookEvent rows
    sub,         \* Subscription.status, None where there is no row
    user,        \* User.plan_id and User.plan_effective_until
    request,     \* webhook requests: what each has loaded
    recon        \* the reconciliation: what its session holds

vars == <<remote, moves, sent, lost, processed, sub, user, request, recon>>

-----------------------------------------------------------------------------
(* Types *)

Status == LSStatus \cup {None}

EventType == {"subscription_created", "subscription_updated",
              "subscription_resumed", "subscription_cancelled",
              "subscription_expired"}

(* A webhook: its id is the move it reports with its type. *)
Webhook == [move : Nat, sub : Subs, type : EventType, status : LSStatus]

(* The paid plan or the default plan, and the subscription whose period end  *)
(* plan_effective_until holds.                                               *)
User == [plan : {"pro", "free"}, until : Subs \cup {None}]

ASSUME NoneAssumption == None \notin Subs \cup LSStatus \cup User

Request == [event : Webhook, user : User, status : Status]

(* todo: rows still to fetch; loaded: statuses as selected; got: statuses    *)
(* fetched; user: the session's copy; flushed: columns already updated in    *)
(* the open transaction; base: values last loaded or flushed.                *)
Recon == [todo : SUBSET Subs, loaded : [Subs -> Status], got : [Subs -> Status],
          user : User \cup {None}, base : User \cup {None},
          flushed : SUBSET {"plan", "until"}]

TypeOK ==
    /\ remote \in [Subs -> Status]
    /\ moves \in Nat
    /\ sent \subseteq Webhook
    /\ lost \subseteq sent
    /\ processed \subseteq sent
    /\ sub \in [Subs -> Status]
    /\ user \in User
    /\ request \in [Requests -> Request \cup {None}]
    /\ recon \in Recon \cup {None}

-----------------------------------------------------------------------------
(* Lemon Squeezy (external) *)

Paid == {"active", "on_trial", "past_due", "cancelled", "paused"}

(* The moves it makes; expired is final. *)
Moves ==
    {<<None, "active">>, <<None, "on_trial">>, <<"on_trial", "active">>,
     <<"active", "past_due">>, <<"past_due", "active">>, <<"past_due", "unpaid">>,
     <<"unpaid", "active">>, <<"unpaid", "expired">>,
     <<"active", "cancelled">>, <<"past_due", "cancelled">>,
     <<"cancelled", "active">>, <<"cancelled", "expired">>,
     <<"active", "paused">>, <<"paused", "active">>}

(* The webhooks that report a move. *)
Types(from, to) ==
    {IF from = None THEN "subscription_created" ELSE "subscription_updated"}
    \cup (IF to = "cancelled" THEN {"subscription_cancelled"} ELSE {})
    \cup (IF to = "expired" THEN {"subscription_expired"} ELSE {})
    \cup (IF from = "cancelled" /\ to = "active" THEN {"subscription_resumed"} ELSE {})

(* A checkout is completed, the user or a payment changes a subscription, or *)
(* the paid period of a cancelled one ends.                                  *)
Move(s, to) ==
    /\ moves < MaxMoves
    /\ to \in Statuses /\ <<remote[s], to>> \in Moves
    /\ remote' = [remote EXCEPT ![s] = to]
    /\ moves' = moves + 1
    /\ sent' = sent \cup
          {[move |-> moves + 1, sub |-> s, type |-> t, status |-> to] :
              t \in Types(remote[s], to)}
    /\ UNCHANGED <<lost, processed, sub, user, request, recon>>

Lose(m) ==
    /\ "lose" \in Faults
    /\ m \in sent \ (lost \cup processed)
    /\ lost' = lost \cup {m}
    /\ UNCHANGED <<remote, moves, sent, processed, sub, user, request, recon>>

-----------------------------------------------------------------------------
(* apply_entitlement *)

(* Paid up: the plan without an end.  Cancelled or paused: the plan until    *)
(* the period ends.  Expired or unpaid: the default plan.                    *)
Entitlement(status, ends) ==
    [plan  |-> IF status \in {"expired", "unpaid"} THEN "free" ELSE "pro",
     until |-> IF status \in {"cancelled", "paused"} THEN ends ELSE None]

(* Mutant of EndsAt: ends_at is stored as it is sent, unparsed. *)
EndsAtText(s, status) == IF status \in {"cancelled", "expired"} THEN "ends_at" ELSE None

(* attrs.ends_at of a subscription: set once it is cancelled. *)
EndsAt(s, status) == IF status \in {"cancelled", "expired"} THEN s ELSE None

(* An UPDATE by the ORM: the columns that differ from what was loaded. *)
Write(row, loaded, new) ==
    [plan  |-> IF new.plan # loaded.plan THEN new.plan ELSE row.plan,
     until |-> IF new.until # loaded.until THEN new.until ELSE row.until]

-----------------------------------------------------------------------------
(* The webhook *)

(* The rows the open reconciliation has already updated are locked. *)
UserLocked == recon # None /\ recon.flushed # {}
SubLocked(s) == recon # None /\ recon.got[s] \notin {None, recon.loaded[s]}

(* Mutant of Receive: a processed event is processed again. *)
ReceiveAgain(q, m) ==
    /\ request[q] = None
    /\ m \in sent \ lost
    /\ \A p \in Requests : request[p] # None => request[p].event # m
    /\ request' = [request EXCEPT ![q] =
                     [event |-> m, user |-> user, status |-> sub[m.sub]]]
    /\ UNCHANGED <<remote, moves, sent, lost, processed, sub, user, recon>>

(* A request that is no duplicate loads its rows.  A second request for the  *)
(* same event waits on the unique index of webhook_event.                    *)
Receive(q, m) ==
    /\ request[q] = None
    /\ m \in sent \ (lost \cup processed)
    /\ \A p \in Requests : request[p] # None => request[p].event # m
    /\ request' = [request EXCEPT ![q] =
                     [event |-> m, user |-> user, status |-> sub[m.sub]]]
    /\ UNCHANGED <<remote, moves, sent, lost, processed, sub, user, recon>>

(* The cancelled and the expired handler know their status, the other one    *)
(* reads attrs.status.                                                       *)
HandlerStatus(m) ==
    IF m.type = "subscription_cancelled" THEN "cancelled"
    ELSE IF m.type = "subscription_expired" THEN "expired"
    ELSE m.status

(* Mutant of RowStatus: a new row keeps the column's default. *)
RowDefault(m, loaded) ==
    IF loaded # None THEN HandlerStatus(m)
    ELSE IF m.type \in {"subscription_cancelled", "subscription_expired"} THEN None
    ELSE "active"

(* The status of the row afterwards: the cancelled and the expired handler   *)
(* update a row that is there, the other one also inserts.                   *)
RowStatus(m, loaded) ==
    IF loaded = None /\ m.type \in {"subscription_cancelled", "subscription_expired"}
    THEN None ELSE HandlerStatus(m)

(* The entitlement a handler applies.  Only the cancelled handler passes the *)
(* period end on.                                                            *)
Granted(m) ==
    Entitlement(HandlerStatus(m),
                IF m.type = "subscription_cancelled"
                THEN EndsAt(m.sub, m.status) ELSE None)

(* The period end is an aware datetime, which the driver refuses. *)
EndRefused(new, loaded) == NaiveOnly /\ new.until \notin {None, loaded.until}

(* Mutant of Refused: a row is inserted without looking for one. *)
RefusedIfKnown(t) ==
    \/ sub[t.event.sub] # None /\ RowStatus(t.event, None) # None
    \/ EndRefused(Granted(t.event), t.user)

(* Another request inserted the row meanwhile, and its unique key refuses    *)
(* ours; or the driver refuses the period end.                               *)
Refused(t) ==
    \/ /\ t.status = None /\ sub[t.event.sub] # None
       /\ RowStatus(t.event, None) # None
    \/ EndRefused(Granted(t.event), t.user)

Commit(q) ==
    LET t == request[q]
        m == t.event
        status == RowStatus(m, t.status)
    IN
    /\ t # None
    /\ ~Refused(t)
    /\ SubLocked(m.sub) => status = t.status
    /\ UserLocked => Granted(m) = t.user
    /\ sub' = [sub EXCEPT ![m.sub] = IF status # t.status THEN status ELSE @]
    /\ user' = Write(user, t.user, Granted(m))
    /\ processed' = processed \cup {m}
    /\ request' = [request EXCEPT ![q] = None]
    /\ UNCHANGED <<remote, moves, sent, lost, recon>>

(* 500: nothing is kept, and Lemon Squeezy tries again. *)
Rollback(q) ==
    /\ request[q] # None
    /\ Refused(request[q]) \/ "abort" \in Faults
    /\ request' = [request EXCEPT ![q] = None]
    /\ UNCHANGED <<remote, moves, sent, lost, processed, sub, user, recon>>

-----------------------------------------------------------------------------
(* reconcile_subscriptions *)

(* Mutant of Reconcilable: past_due rows are left out. *)
ActiveOnly == {"active", "cancelled"}

(* The statuses the query selects. *)
Reconcilable == {"active", "cancelled", "past_due", "on_trial", "paused"}

StartReconcile ==
    LET rows == {s \in Subs : sub[s] \in Reconcilable} IN
    /\ recon = None /\ rows # {}
    /\ recon' = [todo |-> rows, loaded |-> sub, got |-> [s \in Subs |-> None],
                 user |-> None, base |-> None, flushed |-> {}]
    /\ UNCHANGED <<remote, moves, sent, lost, processed, sub, user, request>>

(* The columns in which the session's copy differs from its base. *)
Dirty(t) == {c \in {"plan", "until"} : t.user # None /\ t.user[c] # t.base[c]}

(* The next flush fails, every statement after it too, and so does the       *)
(* commit at the end.                                                        *)
Poisoned(t) == t.user # None /\ EndRefused(t.user, t.base)

(* One round of the loop: the GET, the user (loaded once; a later SELECT      *)
(* flushes what the rounds before it changed) and apply_entitlement.          *)
Fetch(s) ==
    LET status == remote[s] IN
    /\ recon # None /\ s \in recon.todo /\ ~Poisoned(recon)
    /\ recon' = [todo |-> recon.todo \ {s},
                 loaded |-> recon.loaded,
                 got |-> [recon.got EXCEPT ![s] = status],
                 flushed |-> recon.flushed \cup Dirty(recon),
                 base |-> IF recon.user = None THEN user ELSE recon.user,
                 user |-> Entitlement(status, EndsAt(s, status))]
    /\ UNCHANGED <<remote, moves, sent, lost, processed, sub, user, request>>

(* One subscription fails: logged, and the loop goes on. *)
Skip(s) ==
    /\ "skip" \in Faults
    /\ recon # None /\ s \in recon.todo
    /\ recon' = [recon EXCEPT !.todo = @ \ {s}]
    /\ UNCHANGED <<remote, moves, sent, lost, processed, sub, user, request>>

(* The commit after the loop. *)
EndReconcile ==
    LET written == recon.flushed \cup Dirty(recon) IN
    /\ recon # None /\ recon.todo = {} /\ ~Poisoned(recon)
    /\ sub' = [s \in Subs |-> IF SubLocked(s) THEN recon.got[s] ELSE sub[s]]
    /\ user' = [plan  |-> IF "plan" \in written THEN recon.user.plan ELSE user.plan,
                until |-> IF "until" \in written THEN recon.user.until ELSE user.until]
    /\ recon' = None
    /\ UNCHANGED <<remote, moves, sent, lost, processed, request>>

(* The transaction is rolled back as a whole. *)
AbortReconcile ==
    /\ recon # None
    /\ "abort" \in Faults \/ Poisoned(recon)
    /\ recon' = None
    /\ UNCHANGED <<remote, moves, sent, lost, processed, sub, user, request>>

-----------------------------------------------------------------------------
Init ==
    /\ remote = [s \in Subs |-> None]
    /\ moves = 0
    /\ sent = {}
    /\ lost = {}
    /\ processed = {}
    /\ sub = [s \in Subs |-> None]
    /\ user = [plan |-> "free", until |-> None]
    /\ request = [q \in Requests |-> None]
    /\ recon = None

Next ==
    \/ \E s \in Subs, to \in Statuses : Move(s, to)
    \/ \E m \in sent : Lose(m)
    \/ \E q \in Requests : \/ Commit(q) \/ Rollback(q)
                           \/ \E m \in sent : Receive(q, m)
    \/ StartReconcile \/ EndReconcile \/ AbortReconcile
    \/ \E s \in Subs : Fetch(s) \/ Skip(s)

Spec == Init /\ [][Next]_vars

(* Lemon Squeezy delivers what it has not given up on and repeats what was   *)
(* refused; a request and a reconciliation that have begun go on (uvicorn,   *)
(* ARQ), the latter is started by cron, and its GETs succeed now and then.   *)
Fairness ==
    /\ \A t \in EventType :
         SF_vars(\E q \in Requests, m \in sent : m.type = t /\ Receive(q, m))
    /\ \A q \in Requests : SF_vars(Commit(q)) /\ WF_vars(Rollback(q))
    /\ WF_vars(StartReconcile) /\ WF_vars(EndReconcile) /\ WF_vars(AbortReconcile)
    /\ \A s \in Subs : SF_vars(Fetch(s))

FairSpec == Spec /\ Fairness

-----------------------------------------------------------------------------
(* What the user is granted and what the user has paid for *)

(* get_effective_plan: the paid plan while plan_effective_until is not set   *)
(* or still to come.  The end of a subscription that was resumed is a date   *)
(* of the past or will be: it does not count as the paid plan.               *)
Effective ==
    IF user.plan = "pro" /\ (user.until # None => remote[user.until] = "cancelled")
    THEN "pro" ELSE "free"

Due == IF \E s \in Subs : remote[s] \in Paid THEN "pro" ELSE "free"

Quiet == /\ sent = processed \cup lost
         /\ \A q \in Requests : request[q] = None
         /\ recon = None

(* handle_webhook's duplicate check with the handlers it guards: when all    *)
(* webhooks were handled (and they arrived in order), the row says what      *)
(* Lemon Squeezy says and the user has the plan paid for, whatever a         *)
(* reconciliation did before.                                                *)
InSync == Quiet /\ lost = {} => sub = remote /\ Effective = Due

Told(s, status) == \E m \in sent : m.sub = s /\ m.status = status

StatusTold(s, status) == status # None => Told(s, status)

UserTold(u) == /\ u.plan = "pro" => \E s \in Subs, p \in Paid : Told(s, p)
               /\ u.until # None => Told(u.until, "cancelled")

(* reconcile_subscriptions and the handlers: no status is stored that Lemon  *)
(* Squeezy never reported of that subscription, no paid plan granted that    *)
(* none of them paid for, and no end set by one that was never cancelled.    *)
Reported == /\ \A s \in Subs : StatusTold(s, sub[s])
            /\ UserTold(user)

(* run_reconciliation, "to catch any drift caused by missed webhooks": in    *)
(* the end the user has the plan that is paid for.                           *)
Converges == <>[](Effective = Due)

(* handle_webhook: every webhook is processed in the end. *)
WebhooksHandled == <>[](sent = processed \cup lost)
=============================================================================
