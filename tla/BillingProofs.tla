---------------------------- MODULE BillingProofs ----------------------------
(****************************************************************************)
(* Type correctness of Billing and the theorem that nothing is stored or     *)
(* granted that Lemon Squeezy never reported, for any number of              *)
(* subscriptions, concurrent requests and moves, under any faults and both   *)
(* database drivers.                                                         *)
(****************************************************************************)
EXTENDS MCBillingApart, TLAPS

USE NoneAssumption

(* The type of a webhook says which status it carries, and the subscription  *)
(* it is about exists.                                                       *)
SentOK ==
    \A m \in sent :
        /\ remote[m.sub] # None
        /\ m.type = "subscription_cancelled" => m.status = "cancelled"
        /\ m.type = "subscription_expired" => m.status = "expired"

(* What is in flight was reported as well: the state Lemon Squeezy holds,    *)
(* what a request has loaded, what a reconciliation has loaded and fetched.  *)
RemoteTold == \A s \in Subs : StatusTold(s, remote[s])

RequestTold ==
    \A q \in Requests : request[q] # None => request[q].event \in sent

ReconTold ==
    recon # None =>
        /\ \A s \in recon.todo : remote[s] # None
        /\ \A s \in Subs : StatusTold(s, recon.got[s])
        /\ recon.flushed # {} => recon.user # None
        /\ recon.user # None => UserTold(recon.user)

IInv == TypeOK /\ SentOK /\ RemoteTold /\ RequestTold /\ ReconTold /\ Reported

-----------------------------------------------------------------------------
(* The entitlement of a reported status is a user that was reported. *)
LEMMA EntitlementTold ==
    ASSUME NEW s \in Subs, NEW st \in LSStatus, Told(s, st),
           NEW e \in {None, s}, e # None => st # "paused"
    PROVE  Entitlement(st, e) \in User /\ UserTold(Entitlement(st, e))
<1>1. Entitlement(st, e) \in User  BY DEF Entitlement, User
<1>2. st \notin {"expired", "unpaid"} => st \in Paid  BY DEF LSStatus, Paid
<1>3. Entitlement(st, e).plan = "pro" => st \in Paid  BY <1>2 DEF Entitlement
<1>4. Entitlement(st, e).until # None =>
          st = "cancelled" /\ Entitlement(st, e).until = s
  BY DEF Entitlement
<1> QED  BY <1>1, <1>3, <1>4 DEF UserTold

(* attrs.ends_at is the subscription's own end, and set for no paused one. *)
LEMMA EndsAtOwn ==
    ASSUME NEW s \in Subs, NEW st \in LSStatus
    PROVE  /\ EndsAt(s, st) \in {None, s}
           /\ EndsAt(s, st) # None => st # "paused"
BY DEF EndsAt

(* What a handler grants is a user that was reported. *)
LEMMA GrantedTold ==
    ASSUME TypeOK, SentOK, NEW m \in sent
    PROVE  Granted(m) \in User /\ UserTold(Granted(m))
<1>1. m \in Webhook /\ m.sub \in Subs /\ m.status \in LSStatus
  BY DEF TypeOK, Webhook
<1>2. Told(m.sub, m.status)  BY DEF Told
<1>3. HandlerStatus(m) = m.status  BY DEF SentOK, HandlerStatus
<1> DEFINE e == IF m.type = "subscription_cancelled"
                THEN EndsAt(m.sub, m.status) ELSE None
<1>4. /\ Granted(m) = Entitlement(m.status, e)
      /\ e \in {None, m.sub} /\ (e # None => m.status # "paused")
  BY <1>1, <1>3, EndsAtOwn DEF Granted
<1> HIDE DEF e
<1>5. Entitlement(m.status, e) \in User /\ UserTold(Entitlement(m.status, e))
  <2>1. m.sub \in Subs /\ m.status \in LSStatus /\ Told(m.sub, m.status)
    BY <1>1, <1>2
  <2>2. e \in {None, m.sub} /\ (e # None => m.status # "paused")  BY <1>4
  <2> QED  BY <2>1, <2>2, EntitlementTold
<1> QED  BY <1>4, <1>5

(* The status a handler gives a row was reported. *)
LEMMA RowStatusTold ==
    ASSUME TypeOK, SentOK, NEW m \in sent, NEW st \in Status
    PROVE  RowStatus(m, st) \in Status /\ StatusTold(m.sub, RowStatus(m, st))
<1>1. m \in Webhook /\ m.status \in LSStatus  BY DEF TypeOK, Webhook
<1>2. RowStatus(m, st) \in {m.status, None}
  BY <1>1 DEF SentOK, RowStatus, HandlerStatus
<1> QED  BY <1>1, <1>2 DEF Status, StatusTold, Told

(* An UPDATE that takes each column from one of two reported users. *)
LEMMA WriteTold ==
    ASSUME NEW row \in User, NEW loaded \in User, NEW new \in User,
           UserTold(row), UserTold(new)
    PROVE  Write(row, loaded, new) \in User /\ UserTold(Write(row, loaded, new))
BY DEF Write, User, UserTold

(* What was reported stays reported. *)
LEMMA ToldStays ==
    ASSUME sent \subseteq sent'
    PROVE  /\ \A s, st : Told(s, st) => Told(s, st)'
           /\ \A s, st : StatusTold(s, st) => StatusTold(s, st)'
           /\ \A u : UserTold(u) => UserTold(u)'
<1>1. \A s, st : Told(s, st) => Told(s, st)'  BY DEF Told
<1> QED  BY <1>1 DEF StatusTold, UserTold

-----------------------------------------------------------------------------
(* The initial state: nothing is reported, nothing stored. *)
LEMMA InitInv == Init => IInv
<1> SUFFICES ASSUME Init PROVE IInv  OBVIOUS
<1>1. TypeOK  BY DEF Init, TypeOK, Status, User
<1>2. Reported /\ RemoteTold  BY DEF Init, Reported, RemoteTold, StatusTold, UserTold
<1>3. SentOK /\ RequestTold /\ ReconTold
  BY DEF Init, SentOK, RequestTold, ReconTold
<1> QED  BY <1>1, <1>2, <1>3 DEF IInv

(* A move of Lemon Squeezy reports the status it moves to. *)
LEMMA MoveInv ==
    ASSUME IInv, NEW s \in Subs, NEW to \in Statuses, Move(s, to)
    PROVE  IInv'
<1> DEFINE new == {[move |-> moves + 1, sub |-> s, type |-> t, status |-> to] :
                       t \in Types(remote[s], to)}
<1> USE DEF IInv
<1>1. to \in LSStatus  BY StatusAssumption
<1>2. sent' = sent \cup new  BY DEF Move
<1>3. new \subseteq Webhook
  <2>1. Types(remote[s], to) \subseteq EventType  BY DEF Types, EventType
  <2>2. moves + 1 \in Nat  BY DEF TypeOK
  <2> QED  BY <1>1, <2>1, <2>2 DEF Webhook
<1>4. TypeOK'
  <2>1. sent' \subseteq Webhook  BY <1>2, <1>3 DEF TypeOK
  <2>2. remote' \in [Subs -> Status]  BY <1>1 DEF Move, TypeOK, Status
  <2>3. moves' \in Nat  BY DEF Move, TypeOK
  <2>4. lost' \subseteq sent' /\ processed' \subseteq sent'
    BY <1>2 DEF Move, TypeOK
  <2> QED  BY <2>1, <2>2, <2>3, <2>4 DEF Move, TypeOK
<1>5. \A x \in Subs : remote[x] # None \/ x = s => remote'[x] # None
  BY <1>1 DEF Move, TypeOK
<1>15. SentOK'
  <2>1. \A m \in new : /\ m.sub = s
                       /\ m.type = "subscription_cancelled" => m.status = "cancelled"
                       /\ m.type = "subscription_expired" => m.status = "expired"
    BY DEF Types
  <2>2. \A m \in sent : m.sub \in Subs  BY DEF TypeOK, Webhook
  <2> HIDE DEF new
  <2> QED  BY <1>2, <1>5, <2>1, <2>2 DEF SentOK
<1>6. Told(s, to)'
  <2>1. PICK t : t \in Types(remote[s], to)
    BY DEF Types
  <2>2. [move |-> moves + 1, sub |-> s, type |-> t, status |-> to] \in sent'
    BY <1>2, <2>1
  <2> QED  BY <2>2 DEF Told
<1>7. /\ \A x, st : StatusTold(x, st) => StatusTold(x, st)'
      /\ \A u : UserTold(u) => UserTold(u)'
  BY <1>2, ToldStays
<1>8. RemoteTold'
  <2> SUFFICES ASSUME NEW x \in Subs PROVE StatusTold(x, remote[x])'
    BY DEF RemoteTold
  <2>1. CASE x = s
    <3>1. remote'[x] = to  BY <2>1 DEF Move, TypeOK
    <3> QED  BY <1>6, <2>1, <3>1 DEF StatusTold
  <2>2. CASE x # s
    <3>1. remote'[x] = remote[x]  BY <2>2 DEF Move, TypeOK
    <3> QED  BY <1>7, <3>1 DEF RemoteTold, StatusTold, Told
  <2> QED  BY <2>1, <2>2
<1>9. RequestTold'  BY <1>2 DEF RequestTold, Move
<1>10. ReconTold'
  <2>1. recon # None => recon.todo \subseteq Subs  BY DEF TypeOK, Recon
  <2> QED  BY <1>5, <1>7, <2>1 DEF ReconTold, Move, StatusTold, UserTold, Told
<1>11. Reported'  BY <1>7 DEF Reported, Move, StatusTold, UserTold, Told
<1> QED  BY <1>4, <1>15, <1>8, <1>9, <1>10, <1>11

(* A lost webhook changes nothing stored. *)
LEMMA LoseInv == ASSUME IInv, NEW m \in sent, Lose(m) PROVE IInv'
<1> USE DEF IInv, Lose
<1>1. TypeOK'  BY DEF TypeOK
<1>2. /\ SentOK' /\ RemoteTold' /\ RequestTold' /\ ReconTold' /\ Reported'
  BY DEF SentOK, RemoteTold, RequestTold, ReconTold, Reported, StatusTold,
         UserTold, Told
<1> QED  BY <1>1, <1>2

(* A request loads the rows as they are stored. *)
LEMMA ReceiveInv ==
    ASSUME IInv, NEW q \in Requests, NEW m \in sent, Receive(q, m)
    PROVE  IInv'
<1> DEFINE new == [event |-> m, user |-> user, status |-> sub[m.sub]]
<1> USE DEF IInv, Receive
<1>1. new \in Request  BY DEF TypeOK, Request, Webhook
<1>2. new.event = m  OBVIOUS
<1> HIDE DEF new
<1>3. TypeOK'  BY <1>1 DEF TypeOK, new
<1>4. RequestTold'  BY <1>1, <1>2 DEF RequestTold, TypeOK, new
<1>5. /\ SentOK' /\ RemoteTold' /\ ReconTold' /\ Reported'
  BY DEF SentOK, RemoteTold, ReconTold, Reported, StatusTold, UserTold, Told
<1> QED  BY <1>3, <1>4, <1>5

(* A commit stores the handler's status and, column by column, its grant. *)
LEMMA CommitInv ==
    ASSUME IInv, NEW q \in Requests, Commit(q)
    PROVE  IInv'
<1> DEFINE t == request[q]
           m == request[q].event
           status == RowStatus(m, t.status)
<1> USE DEF IInv
<1>1. t # None /\ t \in Request /\ m \in sent /\ m.sub \in Subs
  BY DEF Commit, TypeOK, RequestTold, Request, Webhook
<1>2. t.user \in User /\ t.status \in Status  BY <1>1 DEF Request
<1>3. status \in Status /\ StatusTold(m.sub, status)
  BY <1>1, <1>2, RowStatusTold
<1>4. Granted(m) \in User /\ UserTold(Granted(m))  BY <1>1, GrantedTold
<1>5. /\ user \in User /\ UserTold(user)  BY DEF TypeOK, Reported
<1>6. /\ Write(user, t.user, Granted(m)) \in User
      /\ UserTold(Write(user, t.user, Granted(m)))
  BY <1>2, <1>4, <1>5, WriteTold
<1>7. /\ sub' = [sub EXCEPT ![m.sub] = IF status # t.status THEN status ELSE @]
      /\ user' = Write(user, t.user, Granted(m))
      /\ processed' = processed \cup {m}
      /\ request' = [request EXCEPT ![q] = None]
      /\ UNCHANGED <<remote, moves, sent, lost, recon>>
  BY DEF Commit
<1> HIDE DEF t, m, status
<1>8. TypeOK'
  <2>1. sub' \in [Subs -> Status]  BY <1>1, <1>3, <1>7 DEF TypeOK
  <2>2. user' \in User  BY <1>6, <1>7
  <2>3. processed' \subseteq sent'  BY <1>1, <1>7 DEF TypeOK
  <2>4. request' \in [Requests -> Request \cup {None}]  BY <1>7 DEF TypeOK
  <2> QED  BY <1>7, <2>1, <2>2, <2>3, <2>4 DEF TypeOK
<1>9. Reported'
  <2>1. \A s \in Subs : StatusTold(s, sub'[s])
    BY <1>1, <1>3, <1>7 DEF TypeOK, Reported
  <2> QED  BY <1>6, <1>7, <2>1 DEF Reported, StatusTold, UserTold, Told
<1>10. RequestTold'  BY <1>7 DEF RequestTold, TypeOK
<1>11. /\ SentOK' /\ RemoteTold' /\ ReconTold'
  BY <1>7 DEF SentOK, RemoteTold, ReconTold, StatusTold, UserTold, Told
<1> QED  BY <1>8, <1>9, <1>10, <1>11

(* A rollback drops what was loaded. *)
LEMMA RollbackInv == ASSUME IInv, NEW q \in Requests, Rollback(q) PROVE IInv'
<1> USE DEF IInv, Rollback
<1>1. TypeOK' /\ RequestTold'  BY DEF TypeOK, RequestTold
<1>2. /\ SentOK' /\ RemoteTold' /\ ReconTold' /\ Reported'
  BY DEF SentOK, RemoteTold, ReconTold, Reported, StatusTold, UserTold, Told
<1> QED  BY <1>1, <1>2

-----------------------------------------------------------------------------
(* What no reconciliation step but the last disturbs. *)
LEMMA ReconFrame ==
    ASSUME IInv, UNCHANGED <<remote, moves, sent, lost, processed, sub, user, request>>,
           recon' \in Recon \cup {None}, ReconTold'
    PROVE  IInv'
<1> USE DEF IInv
<1>1. TypeOK'  BY DEF TypeOK
<1>2. /\ SentOK' /\ RemoteTold' /\ RequestTold' /\ Reported'
  BY DEF SentOK, RemoteTold, RequestTold, Reported, StatusTold, UserTold, Told
<1> QED  BY <1>1, <1>2

(* The query fetches nothing yet. *)
LEMMA StartReconcileInv == ASSUME IInv, StartReconcile PROVE IInv'
<1> DEFINE rows == {s \in Subs : sub[s] \in Reconcilable}
           new == [todo |-> rows, loaded |-> sub, got |-> [s \in Subs |-> None],
                   user |-> None, base |-> None, flushed |-> {}]
<1>1. recon' = new  BY DEF StartReconcile
<1>2. new \in Recon
  <2>1. rows \in SUBSET Subs /\ sub \in [Subs -> Status]
        /\ [s \in Subs |-> None] \in [Subs -> Status]
    BY DEF IInv, TypeOK, Status
  <2> QED  BY <2>1 DEF Recon
<1>3. /\ \A s \in Subs : new.got[s] = None
      /\ new.user = None /\ new.flushed = {}
  OBVIOUS
<1>4. \A s \in rows : remote[s] # None
  <2> SUFFICES ASSUME NEW s \in rows PROVE remote[s] # None  OBVIOUS
  <2>1. sub[s] # None  BY DEF Reconcilable, LSStatus
  <2>2. PICK m \in sent : m.sub = s  BY <2>1 DEF IInv, Reported, StatusTold, Told
  <2> QED  BY <2>2 DEF IInv, SentOK
<1>5. ReconTold'
  BY <1>1, <1>3, <1>4 DEF ReconTold, StatusTold, StartReconcile
<1> QED  BY <1>1, <1>2, <1>5, ReconFrame DEF StartReconcile

(* A GET answers with the status Lemon Squeezy holds. *)
LEMMA FetchInv == ASSUME IInv, NEW s \in Subs, Fetch(s) PROVE IInv'
<1> DEFINE st == remote[s]
           u == Entitlement(st, EndsAt(s, st))
           b == IF recon.user = None THEN user ELSE recon.user
           f == recon.flushed \cup Dirty(recon)
           g == [recon.got EXCEPT ![s] = st]
           new == [todo |-> recon.todo \ {s}, loaded |-> recon.loaded, got |-> g,
                   flushed |-> f, base |-> b, user |-> u]
<1>1. recon' = new  BY DEF Fetch
<1>2. recon \in Recon /\ recon # None  BY DEF IInv, TypeOK, Fetch
<1>3. s \in recon.todo /\ UNCHANGED <<remote, moves, sent, lost, processed, sub, user, request>>
  BY DEF Fetch
<1>4. st \in LSStatus /\ Told(s, st)
  BY <1>2, <1>3 DEF IInv, TypeOK, Status, RemoteTold, ReconTold, StatusTold
<1>5. u \in User /\ UserTold(u)  BY <1>4, EntitlementTold, EndsAtOwn
<1>6. b \in User
  BY <1>2 DEF IInv, TypeOK, Recon
<1>7. f \subseteq {"plan", "until"}  BY <1>2 DEF Recon, Dirty
<1>8. /\ g \in [Subs -> Status]
      /\ \A x \in Subs : StatusTold(x, g[x])
  BY <1>2, <1>4 DEF Recon, Status, IInv, ReconTold, StatusTold
<1>9. recon.todo \ {s} \subseteq Subs /\ recon.loaded \in [Subs -> Status]
  BY <1>2 DEF Recon
<1> HIDE DEF u, b, f, g
<1>10. new \in Recon  BY <1>5, <1>6, <1>7, <1>8, <1>9 DEF Recon
<1>11. ReconTold'
  <2>1. /\ new.todo \subseteq recon.todo /\ new.got = g
        /\ new.user = u
    OBVIOUS
  <2>2. u # None  BY <1>5
  <2> HIDE DEF new
  <2> QED  BY <1>1, <1>2, <1>3, <1>5, <1>8, <2>1, <2>2
           DEF IInv, ReconTold, StatusTold, UserTold, Told
<1> QED  BY <1>1, <1>3, <1>10, <1>11, ReconFrame

(* A record without one row to do. *)
LEMMA SkipRecord ==
    ASSUME NEW t \in Recon, NEW s \in Subs
    PROVE  LET new == [t EXCEPT !.todo = @ \ {s}]
           IN  /\ new \in Recon
               /\ new.todo = t.todo \ {s} /\ new.got = t.got
               /\ new.user = t.user /\ new.flushed = t.flushed
BY DEF Recon

(* A failed GET leaves the row out. *)
LEMMA SkipInv == ASSUME IInv, NEW s \in Subs, Skip(s) PROVE IInv'
<1> DEFINE new == [recon EXCEPT !.todo = @ \ {s}]
<1>1. recon' = new /\ UNCHANGED <<remote, moves, sent, lost, processed, sub, user, request>>
  BY DEF Skip
<1>2. recon \in Recon /\ recon # None  BY DEF IInv, TypeOK, Skip
<1>3. /\ new \in Recon
      /\ new.todo = recon.todo \ {s} /\ new.got = recon.got
      /\ new.user = recon.user /\ new.flushed = recon.flushed
  BY <1>2, SkipRecord
<1> HIDE DEF new
<1>4. ReconTold'
  BY <1>1, <1>2, <1>3 DEF IInv, ReconTold, StatusTold, UserTold, Told
<1> QED  BY <1>1, <1>3, <1>4, ReconFrame

(* The commit stores fetched statuses and columns of the fetched grant. *)
LEMMA EndReconcileInv == ASSUME IInv, EndReconcile PROVE IInv'
<1> DEFINE written == recon.flushed \cup Dirty(recon)
<1> USE DEF IInv
<1>1. recon \in Recon /\ recon # None  BY DEF TypeOK, EndReconcile
<1>2. written # {} => recon.user \in User /\ UserTold(recon.user)
  BY <1>1 DEF ReconTold, Recon, Dirty
<1>3. user \in User /\ UserTold(user)  BY DEF TypeOK, Reported
<1>4. user' = [plan  |-> IF "plan" \in written THEN recon.user.plan ELSE user.plan,
               until |-> IF "until" \in written THEN recon.user.until ELSE user.until]
  BY DEF EndReconcile
<1>5. user' \in User /\ UserTold(user')
  <2> HIDE DEF written
  <2> QED  BY <1>2, <1>3, <1>4 DEF User, UserTold
<1>6. /\ sub' = [s \in Subs |-> IF SubLocked(s) THEN recon.got[s] ELSE sub[s]]
      /\ recon' = None
      /\ UNCHANGED <<remote, moves, sent, lost, processed, request>>
  BY DEF EndReconcile
<1>7. sub' \in [Subs -> Status] /\ \A s \in Subs : StatusTold(s, sub'[s])
  BY <1>1, <1>6 DEF TypeOK, Recon, ReconTold, Reported
<1>8. TypeOK'  BY <1>5, <1>6, <1>7 DEF TypeOK
<1>9. Reported'  BY <1>5, <1>6, <1>7 DEF Reported, StatusTold, UserTold, Told
<1>10. /\ SentOK' /\ RemoteTold' /\ RequestTold' /\ ReconTold'
  BY <1>6 DEF SentOK, RemoteTold, RequestTold, ReconTold, StatusTold, Told
<1> QED  BY <1>8, <1>9, <1>10

(* A reconciliation rolled back leaves nothing behind. *)
LEMMA AbortReconcileInv == ASSUME IInv, AbortReconcile PROVE IInv'
<1>1. recon' = None /\ UNCHANGED <<remote, moves, sent, lost, processed, sub, user, request>>
  BY DEF AbortReconcile
<1>2. ReconTold'  BY <1>1 DEF ReconTold
<1> QED  BY <1>1, <1>2, ReconFrame

-----------------------------------------------------------------------------
(* Every step of the webhook handler, of the reconciliation and of Lemon     *)
(* Squeezy preserves the invariant.                                          *)
LEMMA StepInv == IInv /\ [Next]_vars => IInv'
<1> SUFFICES ASSUME IInv, [Next]_vars PROVE IInv'  OBVIOUS
<1>1. ASSUME NEW s \in Subs, NEW to \in Statuses, Move(s, to) PROVE IInv'
  BY <1>1, MoveInv
<1>2. ASSUME NEW m \in sent, Lose(m) PROVE IInv'  BY <1>2, LoseInv
<1>3. ASSUME NEW q \in Requests, NEW m \in sent, Receive(q, m) PROVE IInv'
  BY <1>3, ReceiveInv
<1>4. ASSUME NEW q \in Requests, Commit(q) PROVE IInv'  BY <1>4, CommitInv
<1>5. ASSUME NEW q \in Requests, Rollback(q) PROVE IInv'  BY <1>5, RollbackInv
<1>6. CASE StartReconcile  BY <1>6, StartReconcileInv
<1>7. ASSUME NEW s \in Subs, Fetch(s) PROVE IInv'  BY <1>7, FetchInv
<1>8. ASSUME NEW s \in Subs, Skip(s) PROVE IInv'  BY <1>8, SkipInv
<1>9. CASE EndReconcile  BY <1>9, EndReconcileInv
<1>10. CASE AbortReconcile  BY <1>10, AbortReconcileInv
<1>11. CASE UNCHANGED vars
  <2>1. /\ UNCHANGED <<remote, moves, sent, lost, processed, sub, user, request>>
        /\ UNCHANGED recon
    BY <1>11 DEF vars
  <2>2. recon' \in Recon \cup {None} /\ ReconTold'
    BY <2>1 DEF IInv, TypeOK, ReconTold, StatusTold, UserTold, Told
  <2> QED  BY <2>1, <2>2, ReconFrame
<1> QED  BY <1>1, <1>2, <1>3, <1>4, <1>5, <1>6, <1>7, <1>8, <1>9, <1>10, <1>11
         DEF Next

(* What was reported is all that is stored, loaded or fetched, always. *)
THEOREM Inductive == Spec => []IInv
BY InitInv, StepInv, PTL DEF Spec

(* Every row and every variable of the processes keeps its type. *)
THEOREM BillingTypeCorrect == Spec => []TypeOK
<1>1. IInv => TypeOK  BY DEF IInv
<1> QED  BY <1>1, Inductive, PTL

(* No stored status, plan or period end was invented or taken from another   *)
(* subscription, whatever webhooks were lost, repeated or reordered and      *)
(* however requests and reconciliations interleaved.                         *)
THEOREM NothingInvented == Spec => []Reported
<1>1. IInv => Reported  BY DEF IInv
<1> QED  BY <1>1, Inductive, PTL

-----------------------------------------------------------------------------
(* One subscription whose webhooks arrive in order *)

(* Lemon Squeezy held a status after its k-th move. *)
Reports(k, status) == \/ k = 0 /\ status = None
                      \/ \E m \in sent : m.move = k /\ m.status = status

(* A user's columns say what a status entitles to; each may be written alone. *)
PlanFits(plan, status) == plan = IF status \in Paid THEN "pro" ELSE "free"
UntilFits(until, status) == status \in Paid /\ until # None => status = "cancelled"
UserFits(u, status) == PlanFits(u.plan, status) /\ UntilFits(u.until, status)

(* The webhooks of the moves made so far. *)
SentInv ==
    /\ moves = 0 => \A s \in Subs : remote[s] = None
    /\ moves # 0 => \E m \in sent : m.move = moves
    /\ \A m \in sent : /\ m.move > 0 /\ m.move <= moves
                       /\ m.move = moves => m.status = remote[m.sub]
                       /\ m.type \in {"subscription_cancelled", "subscription_expired"}
                             => \E n \in sent : n.move < m.move
    /\ \A m, n \in sent : m.move = n.move => m.status = n.status

Before(m) == \A n \in sent : n.move < m.move => n \in processed

UpTo(k) == \A m \in processed : m.move <= k

(* A request has loaded what is stored, or the other webhook of its move was   *)
(* handled meanwhile.                                                          *)
FlightOK(q) ==
    LET t == request[q]
        m == t.event
    IN
    t # None =>
       /\ m \in sent \ processed /\ Before(m)
       /\ m.type \in {"subscription_cancelled", "subscription_expired"} => t.status # None
       /\ \/ t.user = user /\ t.status = sub[m.sub]
          \/ sub[m.sub] = m.status /\ UserFits(user, m.status)
       /\ \A p \in Requests : p # q /\ request[p] # None => request[p].event # m

(* A reconciliation has loaded what is stored, and fetched what was the case   *)
(* after every webhook handled so far.                                         *)
ReconOK ==
    recon # None =>
       /\ \A q \in Requests : request[q] = None
       /\ recon.flushed = {} /\ recon.loaded = sub
       /\ \A s \in Subs :
            \/ recon.user = None /\ recon.got[s] = None
            \/ /\ recon.todo = {} /\ recon.base = user /\ recon.got[s] # None
               /\ recon.user = Entitlement(recon.got[s], EndsAt(s, recon.got[s]))
               /\ \E k \in 0 .. moves : Reports(k, recon.got[s]) /\ UpTo(k)

(* The row and the user hold what one move reported, no earlier than any       *)
(* webhook that was handled.                                                   *)
StoredOK ==
    \A s \in Subs : /\ UserFits(user, sub[s])
                    /\ \E k \in 0 .. moves : Reports(k, sub[s]) /\ UpTo(k)

OrderInv ==
    /\ SentInv /\ lost = {}
    /\ inOrder => /\ \A m \in processed : Before(m)
                  /\ \A q \in Requests : FlightOK(q)
                  /\ ReconOK /\ StoredOK
-----------------------------------------------------------------------------
(* What a handler grants fits the status its webhook reports. *)
LEMMA GrantedFits ==
    ASSUME TypeOK, SentOK, NEW m \in sent
    PROVE  /\ m.status \in LSStatus /\ m.sub \in Subs /\ m.move \in Nat
           /\ HandlerStatus(m) = m.status
           /\ UserFits(Granted(m), m.status)
<1>1. m.sub \in Subs /\ m.status \in LSStatus /\ m.move \in Nat
  BY DEF TypeOK, Webhook
<1>2. HandlerStatus(m) = m.status  BY DEF SentOK, HandlerStatus
<1>3. PICK e : /\ Granted(m) = Entitlement(m.status, e)
               /\ e # None => m.status = "cancelled"
  BY <1>2 DEF Granted, SentOK
<1>4. m.status \notin {"expired", "unpaid"} <=> m.status \in Paid
  BY <1>1 DEF LSStatus, Paid
<1>5. PlanFits(Granted(m).plan, m.status)
  BY <1>3, <1>4 DEF Entitlement, PlanFits
<1>6. UntilFits(Granted(m).until, m.status)
  BY <1>3 DEF Entitlement, UntilFits
<1> QED  BY <1>1, <1>2, <1>5, <1>6 DEF UserFits

(* What a reconciliation grants fits the status it fetched. *)
LEMMA EntitlementFits ==
    ASSUME NEW s, NEW st \in LSStatus
    PROVE  UserFits(Entitlement(st, EndsAt(s, st)), st)
<1>1. st \notin {"expired", "unpaid"} <=> st \in Paid  BY DEF LSStatus, Paid
<1>2. PlanFits(Entitlement(st, EndsAt(s, st)).plan, st)
  BY <1>1 DEF Entitlement, PlanFits
<1>3. UntilFits(Entitlement(st, EndsAt(s, st)).until, st)
  BY DEF Entitlement, EndsAt, UntilFits
<1> QED  BY <1>2, <1>3 DEF UserFits

(* An UPDATE of a row that was loaded as it is, or that fits already. *)
LEMMA WriteFits ==
    ASSUME NEW row, NEW loaded, NEW new, NEW st,
           UserFits(new, st), loaded = row \/ UserFits(row, st)
    PROVE  UserFits(Write(row, loaded, new), st)
<1>1. /\ Write(row, loaded, new).plan \in {new.plan, row.plan}
      /\ Write(row, loaded, new).until \in {new.until, row.until}
      /\ loaded = row => /\ Write(row, loaded, new).plan = new.plan
                         /\ Write(row, loaded, new).until = new.until
  BY DEF Write
<1> QED  BY <1>1 DEF UserFits

(* Steps that issue no webhook. *)
LEMMA SentFrame ==
    ASSUME SentInv, UNCHANGED <<remote, moves, sent>>
    PROVE  SentInv'
BY DEF SentInv

(* A status a move reported stays reported, and so does what was handled. *)
LEMMA ReportsStay ==
    ASSUME sent \subseteq sent'
    PROVE  \A k, st : Reports(k, st) => Reports(k, st)'
BY DEF Reports

-----------------------------------------------------------------------------
(* A move issues webhooks that come after all others. *)
LEMMA MoveOrder ==
    ASSUME NEW a, Subs = {a}, IInv, OrderInv, NEW s \in Subs, NEW to \in Statuses,
           Move(s, to), UNCHANGED inOrder
    PROVE  OrderInv'
<1> DEFINE new == {[move |-> moves + 1, sub |-> s, type |-> t, status |-> to] :
                       t \in Types(remote[s], to)}
<1>1. /\ sent' = sent \cup new /\ moves' = moves + 1
      /\ remote' = [remote EXCEPT ![s] = to]
      /\ UNCHANGED <<lost, processed, sub, user, request, recon>>
  BY DEF Move
<1>2. TypeOK /\ moves \in Nat /\ remote \in [Subs -> Status] /\ processed \subseteq sent
  BY DEF IInv, TypeOK
<1>3. \A m \in sent : m.move \in Nat /\ m.sub \in Subs  BY <1>2 DEF TypeOK, Webhook
<1>4. SentInv  BY DEF OrderInv
<1>5. \A m \in sent : m.move > 0 /\ m.move <= moves  BY <1>4 DEF SentInv
<1>6. /\ \A m \in new : m.move = moves + 1 /\ m.status = to /\ m.sub = s
      /\ \A m \in new : m.type \in {"subscription_cancelled", "subscription_expired"}
                           => to \in {"cancelled", "expired"}
      /\ new # {}
  <2>1. \A m \in new : m.move = moves + 1 /\ m.status = to /\ m.sub = s  OBVIOUS
  <2>2. ASSUME NEW m \in new,
               m.type \in {"subscription_cancelled", "subscription_expired"}
        PROVE  to \in {"cancelled", "expired"}
    <3>1. m.type \in Types(remote[s], to)  OBVIOUS
    <3> QED  BY <2>2, <3>1 DEF Types
  <2>3. PICK t : t \in Types(remote[s], to)  BY DEF Types
  <2>4. [move |-> moves + 1, sub |-> s, type |-> t, status |-> to] \in new  BY <2>3
  <2> QED  BY <2>1, <2>2, <2>4
<1>7. to \in {"cancelled", "expired"} => \E n \in sent : n.move = moves
  <2>1. <<remote[s], to>> \in Moves  BY DEF Move
  <2>2. to \in {"cancelled", "expired"} => remote[s] # None
    BY <2>1 DEF Moves, LSStatus
  <2> QED  BY <2>2, <1>4 DEF SentInv
<1> HIDE DEF new
<1>8. SentInv'
  <2>1. moves' # 0 /\ \E m \in sent' : m.move = moves'  BY <1>1, <1>2, <1>6
  <2>2. \A m \in sent' : /\ m.move > 0 /\ m.move <= moves'
                         /\ m.move = moves' => m.status = remote'[m.sub]
    <3>1. remote'[s] = to  BY <1>1, <1>2
    <3>2. \A m \in sent : m.move > 0 /\ m.move <= moves' /\ m.move # moves'
      BY <1>1, <1>2, <1>3, <1>5
    <3>3. \A m \in new : /\ m.move > 0 /\ m.move <= moves'
                         /\ m.status = remote'[m.sub]
      BY <1>1, <1>2, <1>6, <3>1
    <3> QED  BY <1>1, <3>2, <3>3
  <2>3. \A m \in sent' : m.type \in {"subscription_cancelled", "subscription_expired"}
                             => \E n \in sent' : n.move < m.move
    <3>1. \A m \in sent : m.type \in {"subscription_cancelled", "subscription_expired"}
                             => \E n \in sent : n.move < m.move
      BY <1>4 DEF SentInv
    <3>2. \A m \in new : m.type \in {"subscription_cancelled", "subscription_expired"}
                             => \E n \in sent : n.move < m.move
      BY <1>2, <1>6, <1>7
    <3> QED  BY <1>1, <3>1, <3>2
  <2>4. \A m, n \in sent' : m.move = n.move => m.status = n.status
    <3>1. \A m, n \in sent : m.move = n.move => m.status = n.status
      BY <1>4 DEF SentInv
    <3>2. \A m \in sent : m.move # moves + 1  BY <1>2, <1>3, <1>5
    <3> QED  BY <1>1, <1>6, <3>1, <3>2
  <2> QED  BY <2>1, <2>2, <2>3, <2>4 DEF SentInv
<1>9. \A k, st : Reports(k, st) => Reports(k, st)'  BY <1>1, ReportsStay
<1>10. \A k : UpTo(k) => UpTo(k)'  BY <1>1 DEF UpTo
<1>11. \A m \in sent : Before(m) => Before(m)'
  <2>1. \A m \in sent : \A n \in new : ~(n.move < m.move)
    BY <1>2, <1>3, <1>5, <1>6
  <2> QED  BY <1>1, <2>1 DEF Before
<1>12. \A k \in 0 .. moves : k \in 0 .. moves'  BY <1>1, <1>2
<1>13. ASSUME inOrder PROVE /\ \A m \in processed' : Before(m)'
                            /\ \A q \in Requests : FlightOK(q)'
                            /\ ReconOK' /\ StoredOK'
  <2>1. \A m \in processed' : Before(m)'
    BY <1>1, <1>2, <1>11, <1>13 DEF OrderInv
  <2>2. ASSUME NEW q \in Requests PROVE FlightOK(q)'
    <3>1. FlightOK(q)  BY <1>13 DEF OrderInv
    <3> QED  BY <3>1, <1>1, <1>11 DEF FlightOK, UserFits, PlanFits, UntilFits
  <2>3. ReconOK'
    <3>1. ReconOK  BY <1>13 DEF OrderInv
    <3> QED  BY <3>1, <1>1, <1>9, <1>10, <1>12 DEF ReconOK
  <2>4. StoredOK'
    <3>1. StoredOK  BY <1>13 DEF OrderInv
    <3> QED  BY <3>1, <1>1, <1>9, <1>10, <1>12
             DEF StoredOK, UserFits, PlanFits, UntilFits
  <2> QED  BY <2>1, <2>2, <2>3, <2>4
<1> QED  BY <1>1, <1>8, <1>13 DEF OrderInv

(* A webhook that arrives in order finds every earlier one handled. *)
LEMMA ReceiveOrder ==
    ASSUME NEW a, Subs = {a}, IInv, OrderInv, NEW q \in Requests, NEW m \in sent,
           ApartReceive(q, m)
    PROVE  OrderInv'
<1>1. /\ recon = None /\ Receive(q, m) /\ inOrder' = (inOrder /\ Ordered(m))
  BY DEF ApartReceive
<1>2. /\ request[q] = None /\ m \notin processed
      /\ \A p \in Requests : request[p] # None => request[p].event # m
      /\ UNCHANGED <<remote, moves, sent, lost, processed, sub, user, recon>>
  BY <1>1 DEF Receive
<1>3. PICK new : new = [event |-> m, user |-> user, status |-> sub[m.sub]]
  OBVIOUS
<1>4. new.event = m /\ new.user = user /\ new.status = sub[m.sub]  BY <1>3
<1>5. request' = [request EXCEPT ![q] = new]  BY <1>1, <1>3 DEF Receive
<1>6. TypeOK /\ moves \in Nat /\ processed \subseteq sent
      /\ request \in [Requests -> Request \cup {None}]
  BY DEF IInv, TypeOK
<1>7. \A n \in sent : n.move \in Nat /\ n.sub \in Subs /\ n.status \in LSStatus
  BY <1>6 DEF TypeOK, Webhook
<1>8. SentInv'  BY <1>2, SentFrame DEF OrderInv
<1>9. ASSUME inOrder, Ordered(m) PROVE /\ \A n \in processed' : Before(n)'
                                       /\ \A p \in Requests : FlightOK(p)'
                                       /\ ReconOK' /\ StoredOK'
  <2>1. \A n \in sent : Before(n) => Before(n)'  BY <1>2 DEF Before
  <2>2. \A n \in processed' : Before(n)'
    BY <1>2, <1>6, <1>9, <2>1 DEF OrderInv
  <2>3. Before(m)
    BY <1>7, <1>9 DEF Before, Ordered
  <2>4. m.type \in {"subscription_cancelled", "subscription_expired"} => sub[m.sub] # None
    <3> SUFFICES ASSUME m.type \in {"subscription_cancelled", "subscription_expired"}
                 PROVE  sub[m.sub] # None
      OBVIOUS
    <3>1. PICK n \in sent : n.move < m.move /\ n.move > 0
      BY DEF OrderInv, SentInv
    <3>2. n \in processed  BY <2>3, <3>1 DEF Before
    <3>3. PICK k \in 0 .. moves : Reports(k, sub[m.sub]) /\ UpTo(k)
      BY <1>7, <1>9 DEF OrderInv, StoredOK
    <3>4. k # 0  BY <1>7, <3>1, <3>2, <3>3 DEF UpTo
    <3>5. PICK x \in sent : x.status = sub[m.sub]  BY <3>3, <3>4 DEF Reports
    <3> QED  BY <1>7, <3>5
  <2>5. ASSUME NEW p \in Requests PROVE FlightOK(p)'
    <3>1. CASE p = q
      <4>1. request'[p] = new  BY <1>5, <1>6, <3>1
      <4>2. /\ new.event \in sent' \ processed' /\ Before(m)'
            /\ new.event.type \in {"subscription_cancelled", "subscription_expired"}
                  => new.status # None
            /\ new.user = user' /\ new.status = sub'[m.sub]
        BY <1>2, <1>4, <2>1, <2>3, <2>4
      <4>3. \A r \in Requests : r # p /\ request'[r] # None => request'[r].event # m
        BY <1>2, <1>5, <1>6, <3>1
      <4> QED  BY <1>4, <4>1, <4>2, <4>3 DEF FlightOK
    <3>2. CASE p # q
      <4>1. FlightOK(p)  BY <1>9 DEF OrderInv
      <4>2. request'[p] = request[p]  BY <1>5, <1>6, <3>2
      <4>3. \A r \in Requests : request'[r] # None =>
                request'[r] = request[r] \/ (r = q /\ request'[r] = new)
        BY <1>5, <1>6
      <4> SUFFICES ASSUME request[p] # None PROVE FlightOK(p)'
        BY <4>2 DEF FlightOK
      <4>4. /\ request[p].event \in sent \ processed /\ Before(request[p].event)
            /\ request[p].event # m
            /\ request[p].event.type \in {"subscription_cancelled", "subscription_expired"}
                  => request[p].status # None
            /\ \/ request[p].user = user /\ request[p].status = sub[request[p].event.sub]
               \/ /\ sub[request[p].event.sub] = request[p].event.status
                  /\ UserFits(user, request[p].event.status)
            /\ \A r \in Requests : r # p /\ request[r] # None
                  => request[r].event # request[p].event
        BY <1>2, <4>1 DEF FlightOK
      <4>5. Before(request[p].event)'
        <5>1. PICK n : n = request[p].event  OBVIOUS
        <5>2. Before(n)'  BY <2>1, <4>4, <5>1
        <5> QED  BY <4>2, <5>1, <5>2 DEF Before
      <4>6. \A r \in Requests : r # p /\ request'[r] # None
                  => request'[r].event # request'[p].event
        BY <1>4, <4>2, <4>3, <4>4
      <4> QED  BY <1>2, <4>2, <4>4, <4>5, <4>6
               DEF FlightOK, UserFits, PlanFits, UntilFits
    <3> QED  BY <3>1, <3>2
  <2>6. ReconOK'  BY <1>1, <1>2 DEF ReconOK
  <2>7. StoredOK'
    BY <1>2, <1>9 DEF OrderInv, StoredOK, UserFits, PlanFits, UntilFits, Reports, UpTo
  <2> QED  BY <2>2, <2>5, <2>6, <2>7
<1> QED  BY <1>1, <1>2, <1>8, <1>9 DEF OrderInv
-----------------------------------------------------------------------------
(* A commit stores the status and the grant of the webhook it handles; a     *)
(* request for the other webhook of the same move would store the same.      *)
LEMMA CommitOrder ==
    ASSUME NEW a, Subs = {a}, IInv, OrderInv, NEW q \in Requests, Commit(q),
           UNCHANGED inOrder
    PROVE  OrderInv'
<1>1. PICK t, m : t = request[q] /\ m = request[q].event  OBVIOUS
<1>2. /\ t # None
      /\ UNCHANGED <<remote, moves, sent, lost, recon>>
      /\ processed' = processed \cup {m}
      /\ request' = [request EXCEPT ![q] = None]
      /\ user' = Write(user, t.user, Granted(m))
      /\ sub' = [sub EXCEPT ![m.sub] =
                    IF RowStatus(m, t.status) # t.status
                    THEN RowStatus(m, t.status) ELSE sub[m.sub]]
  BY <1>1 DEF Commit
<1>3. TypeOK /\ SentOK /\ moves \in Nat /\ processed \subseteq sent
      /\ request \in [Requests -> Request \cup {None}] /\ sub \in [Subs -> Status]
  BY DEF IInv, TypeOK
<1>4. \A n \in sent : n.move \in Nat /\ n.sub = a  BY <1>3 DEF TypeOK, Webhook
<1>5. SentInv /\ SentInv'  BY <1>2, SentFrame DEF OrderInv
<1>6. ASSUME inOrder PROVE /\ \A n \in processed' : Before(n)'
                           /\ \A p \in Requests : FlightOK(p)'
                           /\ ReconOK' /\ StoredOK'
  <2>1. FlightOK(q) /\ \A n \in processed : Before(n)  BY <1>6 DEF OrderInv
  <2>2. /\ m \in sent \ processed /\ Before(m)
        /\ m.type \in {"subscription_cancelled", "subscription_expired"} => t.status # None
        /\ \/ t.user = user /\ t.status = sub[m.sub]
           \/ sub[m.sub] = m.status /\ UserFits(user, m.status)
    BY <1>1, <1>2, <2>1 DEF FlightOK
  <2>3. /\ m.status \in LSStatus /\ HandlerStatus(m) = m.status
        /\ UserFits(Granted(m), m.status) /\ m.move \in Nat
    BY <1>3, <2>2, GrantedFits
  <2>4. RowStatus(m, t.status) = m.status  BY <2>2, <2>3 DEF RowStatus
  <2>5. m.sub = a /\ sub'[a] = m.status
    BY <1>2, <1>3, <1>4, <2>2, <2>4
  <2>6. UserFits(user', m.status)
    <3>1. t.user = user \/ UserFits(user, m.status)  BY <2>2
    <3>2. UserFits(Write(user, t.user, Granted(m)), m.status)
      BY <2>3, <3>1, WriteFits
    <3> QED  BY <1>2, <3>2
  <2>7. \A n \in sent : Before(n) => Before(n)'  BY <1>2 DEF Before
  <2>8. \A n \in processed' : Before(n)'  BY <1>2, <1>3, <2>1, <2>2, <2>7
  <2>9. ASSUME NEW p \in Requests PROVE FlightOK(p)'
    <3>1. CASE p = q
      <4>1. request'[p] = None  BY <1>2, <1>3, <3>1
      <4> QED  BY <4>1 DEF FlightOK
    <3>2. CASE p # q
      <4>1. FlightOK(p)  BY <1>6 DEF OrderInv
      <4>2. request'[p] = request[p]  BY <1>2, <1>3, <3>2
      <4>3. \A r \in Requests : request'[r] # None => request'[r] = request[r]
        BY <1>2, <1>3
      <4> SUFFICES ASSUME request[p] # None PROVE FlightOK(p)'
        BY <4>2 DEF FlightOK
      <4>4. PICK n : n = request[p].event  OBVIOUS
      <4>5. /\ n \in sent \ processed /\ Before(n)
            /\ n.type \in {"subscription_cancelled", "subscription_expired"}
                  => request[p].status # None
            /\ \A r \in Requests : r # p /\ request[r] # None => request[r].event # n
        BY <4>1, <4>4 DEF FlightOK
      <4>6. n # m  BY <1>1, <1>2, <3>2, <4>5
      <4>7. n.status = m.status
        <5>1. ~(n.move < m.move) /\ ~(m.move < n.move)
          BY <2>2, <4>5 DEF Before
        <5>2. n.move = m.move  BY <1>4, <2>2, <4>5, <5>1
        <5> QED  BY <1>5, <2>2, <4>5, <5>2 DEF SentInv
      <4>8. n \in sent' \ processed' /\ Before(n)'
        BY <1>2, <2>7, <4>5, <4>6
      <4>9. sub'[n.sub] = n.status /\ UserFits(user', n.status)
        BY <1>4, <2>5, <2>6, <4>5, <4>7
      <4>10. \A r \in Requests : r # p /\ request'[r] # None => request'[r].event # n
        BY <4>3, <4>5
      <4>11. request'[p].event = n /\ request'[p].status = request[p].status
        BY <4>2, <4>4
      <4>12. Before(request[p].event)' /\ UserFits(user, request[p].event.status)'
        BY <4>8, <4>9, <4>11 DEF Before, UserFits, PlanFits, UntilFits
      <4> QED  BY <4>5, <4>8, <4>9, <4>10, <4>11, <4>12 DEF FlightOK
    <3> QED  BY <3>1, <3>2
  <2>10. ReconOK'
    <3>1. recon = None  BY <1>1, <1>2, <1>6 DEF OrderInv, ReconOK
    <3> QED  BY <1>2, <3>1 DEF ReconOK
  <2>11. StoredOK'
    <3>1. Reports(m.move, m.status)'  BY <1>2, <2>2 DEF Reports
    <3>2. UpTo(m.move)'
      <4>1. \A n \in processed : n.move <= m.move
        BY <1>3, <1>4, <2>1, <2>2, <2>3 DEF Before
      <4> QED  BY <1>2, <2>3, <4>1 DEF UpTo
    <3>3. m.move \in 0 .. moves'
      BY <1>2, <1>3, <1>5, <2>2, <2>3 DEF SentInv
    <3>4. UserFits(user, sub[a])'
      BY <2>5, <2>6 DEF UserFits, PlanFits, UntilFits
    <3>5. \E k \in 0 .. moves' : Reports(k, sub[a])' /\ UpTo(k)'
      BY <2>5, <3>1, <3>2, <3>3 DEF Reports
    <3> QED  BY <3>4, <3>5 DEF StoredOK
  <2> QED  BY <2>8, <2>9, <2>10, <2>11
<1> QED  BY <1>2, <1>5, <1>6 DEF OrderInv

(* A rolled back request leaves nothing behind. *)
LEMMA RollbackOrder ==
    ASSUME IInv, OrderInv, NEW q \in Requests, Rollback(q), UNCHANGED inOrder
    PROVE  OrderInv'
<1>1. /\ request' = [request EXCEPT ![q] = None]
      /\ UNCHANGED <<remote, moves, sent, lost, processed, sub, user, recon>>
  BY DEF Rollback
<1>2. request \in [Requests -> Request \cup {None}]  BY DEF IInv, TypeOK
<1>3. \A p \in Requests : request'[p] \in {request[p], None}  BY <1>1, <1>2
<1>4. SentInv'  BY <1>1, SentFrame DEF OrderInv
<1>5. ASSUME inOrder PROVE /\ \A n \in processed' : Before(n)'
                           /\ \A p \in Requests : FlightOK(p)'
                           /\ ReconOK' /\ StoredOK'
  <2>1. \A n \in processed' : Before(n)'  BY <1>1, <1>5 DEF OrderInv, Before
  <2>2. ASSUME NEW p \in Requests PROVE FlightOK(p)'
    <3>1. FlightOK(p)  BY <1>5 DEF OrderInv
    <3>2. CASE request'[p] = None  BY <3>2 DEF FlightOK
    <3>3. CASE request'[p] = request[p]
      BY <1>1, <1>3, <3>1, <3>3
         DEF FlightOK, Before, UserFits, PlanFits, UntilFits
    <3> QED  BY <1>3, <3>2, <3>3
  <2>3. ReconOK'  BY <1>1, <1>3, <1>5 DEF OrderInv, ReconOK, Reports, UpTo
  <2>4. StoredOK'
    BY <1>1, <1>5 DEF OrderInv, StoredOK, UserFits, PlanFits, UntilFits, Reports, UpTo
  <2> QED  BY <2>1, <2>2, <2>3, <2>4
<1> QED  BY <1>1, <1>4, <1>5 DEF OrderInv
-----------------------------------------------------------------------------
(* A reconciliation step before its commit disturbs only its own session. *)
LEMMA ReconOrder ==
    ASSUME OrderInv, inOrder => ReconOK', UNCHANGED inOrder,
           UNCHANGED <<remote, moves, sent, lost, processed, sub, user, request>>
    PROVE  OrderInv'
<1>1. SentInv'  BY SentFrame DEF OrderInv
<1>2. ASSUME inOrder PROVE /\ \A n \in processed' : Before(n)'
                           /\ \A p \in Requests : FlightOK(p)'
                           /\ StoredOK'
  <2>1. \A n \in processed' : Before(n)'  BY <1>2 DEF OrderInv, Before
  <2>2. \A p \in Requests : FlightOK(p)'
    BY <1>2 DEF OrderInv, FlightOK, Before, UserFits, PlanFits, UntilFits
  <2>3. StoredOK'
    BY <1>2 DEF OrderInv, StoredOK, UserFits, PlanFits, UntilFits, Reports, UpTo
  <2> QED  BY <2>1, <2>2, <2>3
<1> QED  BY <1>1, <1>2 DEF OrderInv

(* The query loads the row as it is. *)
LEMMA StartReconcileOrder ==
    ASSUME OrderInv, StartReconcile, \A q \in Requests : request[q] = None,
           UNCHANGED inOrder
    PROVE  OrderInv'
<1>1. PICK new : new = [todo |-> {s \in Subs : sub[s] \in Reconcilable},
                        loaded |-> sub, got |-> [s \in Subs |-> None],
                        user |-> None, base |-> None, flushed |-> {}]
  OBVIOUS
<1>2. /\ new.flushed = {} /\ new.loaded = sub /\ new.user = None
      /\ \A s \in Subs : new.got[s] = None
  BY <1>1
<1>3. recon' = new
      /\ UNCHANGED <<remote, moves, sent, lost, processed, sub, user, request>>
  BY <1>1 DEF StartReconcile
<1>4. ReconOK'  BY <1>2, <1>3 DEF ReconOK
<1> QED  BY <1>3, <1>4, ReconOrder

(* A GET answers with the status of the latest move. *)
LEMMA FetchOrder ==
    ASSUME NEW a, Subs = {a}, IInv, OrderInv, NEW s \in Subs, Fetch(s),
           UNCHANGED inOrder
    PROVE  OrderInv'
<1>1. /\ recon # None /\ a \in recon.todo /\ s = a
      /\ UNCHANGED <<remote, moves, sent, lost, processed, sub, user, request>>
  BY DEF Fetch
<1>2. recon \in Recon /\ recon.todo \subseteq Subs /\ recon.got \in [Subs -> Status]
      /\ TypeOK
  BY <1>1 DEF IInv, TypeOK, Recon
<1>3. remote[a] # None  BY <1>1 DEF IInv, ReconTold
<1>4. PICK new : new = [todo |-> recon.todo \ {s},
                        loaded |-> recon.loaded,
                        got |-> [recon.got EXCEPT ![s] = remote[s]],
                        flushed |-> recon.flushed \cup Dirty(recon),
                        base |-> IF recon.user = None THEN user ELSE recon.user,
                        user |-> Entitlement(remote[s], EndsAt(s, remote[s]))]
  OBVIOUS
<1>5. recon' = new  BY <1>4 DEF Fetch
<1>6. ASSUME inOrder PROVE ReconOK'
  <2>1. ReconOK  BY <1>6 DEF OrderInv
  <2>2. /\ recon.user = None /\ recon.flushed = {} /\ recon.loaded = sub
        /\ \A q \in Requests : request[q] = None
    BY <1>1, <2>1 DEF ReconOK
  <2>3. Dirty(recon) = {}  BY <2>2 DEF Dirty
  <2>4. /\ new.todo = {} /\ new.loaded = sub /\ new.flushed = {} /\ new.base = user
        /\ new.got[a] = remote[a]
        /\ new.user = Entitlement(remote[a], EndsAt(a, remote[a]))
    BY <1>1, <1>2, <1>4, <2>2, <2>3
  <2>5. SentInv /\ moves \in Nat  BY <1>2 DEF OrderInv, TypeOK
  <2>6. Reports(moves, remote[a])
    <3>1. moves # 0  BY <1>3, <2>5 DEF SentInv
    <3>2. PICK m \in sent : m.move = moves /\ m.status = remote[m.sub]
      BY <2>5, <3>1 DEF SentInv
    <3>3. m.sub = a  BY <1>2 DEF TypeOK, Webhook
    <3> QED  BY <3>2, <3>3 DEF Reports
  <2>7. UpTo(moves)  BY <1>2, <2>5 DEF UpTo, SentInv, TypeOK
  <2>8. PICK g : g = remote[a]  OBVIOUS
  <2>9. Reports(moves, g)' /\ UpTo(moves)' /\ moves \in 0 .. moves'
    BY <1>1, <2>5, <2>6, <2>7, <2>8 DEF Reports, UpTo
  <2>10. \E k \in 0 .. moves' : Reports(k, g)' /\ UpTo(k)'
    BY <1>1, <2>9 DEF Reports, UpTo
  <2>11. recon'.got[a] = g  BY <1>5, <2>4, <2>8
  <2>12. \E k \in 0 .. moves' : Reports(k, recon.got[a])' /\ UpTo(k)'
    BY <2>10, <2>11 DEF Reports
  <2>13. /\ recon'.todo = {} /\ recon'.base = user' /\ recon'.got[a] # None
         /\ recon'.user = Entitlement(recon'.got[a], EndsAt(a, recon'.got[a]))
         /\ recon'.flushed = {} /\ recon'.loaded = sub'
    BY <1>1, <1>3, <1>5, <2>4
  <2>14. \A q \in Requests : request'[q] = None  BY <1>1, <2>2
  <2> QED  BY <2>12, <2>13, <2>14 DEF ReconOK
<1> QED  BY <1>1, <1>6, ReconOrder

(* A failed GET leaves the row out. *)
LEMMA SkipOrder ==
    ASSUME NEW a, Subs = {a}, IInv, OrderInv, NEW s \in Subs, Skip(s),
           UNCHANGED inOrder
    PROVE  OrderInv'
<1>1. /\ recon # None /\ a \in recon.todo /\ s = a
      /\ UNCHANGED <<remote, moves, sent, lost, processed, sub, user, request>>
  BY DEF Skip
<1>2. recon \in Recon  BY <1>1 DEF IInv, TypeOK
<1>3. PICK new : new = [recon EXCEPT !.todo = recon.todo \ {s}]  OBVIOUS
<1>4. recon' = new  BY <1>3 DEF Skip
<1>5. /\ new.flushed = recon.flushed /\ new.loaded = recon.loaded
      /\ new.user = recon.user /\ new.got = recon.got
  BY <1>2, <1>3 DEF Recon
<1>6. ASSUME inOrder PROVE ReconOK'
  <2>1. ReconOK  BY <1>6 DEF OrderInv
  <2>2. /\ recon.user = None /\ recon.flushed = {} /\ recon.loaded = sub
        /\ recon.got[a] = None
        /\ \A q \in Requests : request[q] = None
    BY <1>1, <2>1 DEF ReconOK
  <2> QED  BY <1>1, <1>4, <1>5, <2>2 DEF ReconOK
<1> QED  BY <1>1, <1>6, ReconOrder

(* The commit after the loop stores what was fetched, in every column that   *)
(* differs from what was loaded.                                             *)
LEMMA EndReconcileOrder ==
    ASSUME NEW a, Subs = {a}, IInv, OrderInv, EndReconcile, UNCHANGED inOrder
    PROVE  OrderInv'
<1>1. /\ recon # None /\ recon' = None
      /\ UNCHANGED <<remote, moves, sent, lost, processed, request>>
      /\ sub' = [s \in Subs |-> IF SubLocked(s) THEN recon.got[s] ELSE sub[s]]
  BY DEF EndReconcile
<1>2. PICK w : w = recon.flushed \cup Dirty(recon)  OBVIOUS
<1>3. user' = [plan  |-> IF "plan" \in w THEN recon.user.plan ELSE user.plan,
               until |-> IF "until" \in w THEN recon.user.until ELSE user.until]
  BY <1>2 DEF EndReconcile
<1>4. recon \in Recon /\ recon.got \in [Subs -> Status]
      /\ recon.user \in User \cup {None} /\ sub \in [Subs -> Status] /\ user \in User
  BY <1>1 DEF IInv, TypeOK, Recon
<1>5. SentInv'  BY <1>1, SentFrame DEF OrderInv
<1>6. ASSUME inOrder PROVE /\ \A n \in processed' : Before(n)'
                           /\ \A p \in Requests : FlightOK(p)'
                           /\ ReconOK' /\ StoredOK'
  <2>1. ReconOK /\ StoredOK  BY <1>6 DEF OrderInv
  <2>2. /\ recon.flushed = {} /\ recon.loaded = sub
        /\ \A q \in Requests : request[q] = None
    BY <1>1, <2>1 DEF ReconOK
  <2>3. \A n \in processed' : Before(n)'  BY <1>1, <1>6 DEF OrderInv, Before
  <2>4. \A p \in Requests : FlightOK(p)'  BY <1>1, <2>2 DEF FlightOK
  <2>5. ReconOK'  BY <1>1 DEF ReconOK
  <2>6. \A k, st : Reports(k, st) /\ UpTo(k) => Reports(k, st)' /\ UpTo(k)'
    BY <1>1 DEF Reports, UpTo
  <2>7. PICK st : /\ sub'[a] = st /\ UserFits(user', st)
                  /\ \E k \in 0 .. moves : Reports(k, st) /\ UpTo(k)
    <3>1. CASE recon.user = None /\ recon.got[a] = None
      <4>1. ~SubLocked(a)  BY <3>1 DEF SubLocked
      <4>2. sub'[a] = sub[a]  BY <1>1, <4>1
      <4>3. w = {}  BY <1>2, <2>2, <3>1 DEF Dirty
      <4>4. user'.plan = user.plan /\ user'.until = user.until  BY <1>3, <4>3
      <4>5. UserFits(user', sub[a])  BY <2>1, <4>4 DEF StoredOK, UserFits
      <4> QED  BY <2>1, <4>2, <4>5 DEF StoredOK
    <3>2. CASE ~(recon.user = None /\ recon.got[a] = None)
      <4>1. /\ recon.base = user /\ recon.got[a] # None
            /\ recon.user = Entitlement(recon.got[a], EndsAt(a, recon.got[a]))
            /\ \E k \in 0 .. moves : Reports(k, recon.got[a]) /\ UpTo(k)
        BY <1>1, <2>1, <3>2 DEF ReconOK
      <4>2. sub'[a] = recon.got[a]
        <5>1. SubLocked(a) \/ recon.got[a] = sub[a]
          BY <1>1, <2>2, <4>1 DEF SubLocked
        <5> QED  BY <1>1, <5>1
      <4>3. recon.got[a] \in LSStatus  BY <1>4, <4>1 DEF Status
      <4>4. UserFits(recon.user, recon.got[a])  BY <4>1, <4>3, EntitlementFits
      <4>5. recon.user # None
        <5>1. recon.user \in [plan : {"pro", "free"}, until : {a, None}]
          BY <4>1 DEF Entitlement, EndsAt
        <5> QED  BY <5>1 DEF User
      <4>6. /\ "plan" \in w \/ recon.user.plan = user.plan
            /\ "until" \in w \/ recon.user.until = user.until
        BY <1>2, <4>1, <4>5 DEF Dirty
      <4>7. user'.plan = recon.user.plan /\ user'.until = recon.user.until
        BY <1>3, <4>6
      <4>8. UserFits(user', recon.got[a])  BY <4>4, <4>7 DEF UserFits
      <4> QED  BY <4>1, <4>2, <4>8
    <3> QED  BY <3>1, <3>2
  <2>8. UserFits(user, sub[a])'  BY <2>7 DEF UserFits, PlanFits, UntilFits
  <2>9. \E k \in 0 .. moves' : Reports(k, sub[a])' /\ UpTo(k)'
    BY <1>1, <2>6, <2>7 DEF Reports
  <2>10. StoredOK'  BY <2>8, <2>9 DEF StoredOK
  <2> QED  BY <2>3, <2>4, <2>5, <2>10
<1> QED  BY <1>1, <1>5, <1>6 DEF OrderInv

(* A reconciliation rolled back leaves nothing behind. *)
LEMMA AbortReconcileOrder ==
    ASSUME OrderInv, AbortReconcile, UNCHANGED inOrder
    PROVE  OrderInv'
<1>1. recon' = None /\ UNCHANGED <<remote, moves, sent, lost, processed, sub, user, request>>
  BY DEF AbortReconcile
<1>2. ReconOK'  BY <1>1 DEF ReconOK
<1> QED  BY <1>1, <1>2, ReconOrder

-----------------------------------------------------------------------------
(* Nothing has moved, nothing is stored. *)
LEMMA InitOrder == ApartInit => OrderInv
<1> SUFFICES ASSUME ApartInit PROVE OrderInv  OBVIOUS
<1>1. SentInv /\ lost = {}  BY DEF ApartInit, Init, SentInv
<1>2. \A m \in processed : Before(m)  BY DEF ApartInit, Init
<1>3. ReconOK /\ \A q \in Requests : FlightOK(q)
  BY DEF ApartInit, Init, ReconOK, FlightOK
<1>4. StoredOK
  <2>1. UserFits(user, None)
    <3>1. None \notin Paid  BY DEF Paid, LSStatus
    <3> QED  BY <3>1 DEF ApartInit, Init, UserFits, PlanFits, UntilFits
  <2>2. Reports(0, None) /\ UpTo(0) /\ 0 \in 0 .. moves
    BY DEF ApartInit, Init, Reports, UpTo
  <2> QED  BY <2>1, <2>2 DEF ApartInit, Init, StoredOK
<1> QED  BY <1>1, <1>2, <1>3, <1>4 DEF OrderInv

(* Every step keeps the order of what is stored. *)
LEMMA StepOrder ==
    ASSUME NEW a, Subs = {a}, IInv, OrderInv, [ApartNext]_<<vars, inOrder>>
    PROVE  OrderInv'
<1>1. ASSUME NEW q \in Requests, NEW m \in sent, ApartReceive(q, m) PROVE OrderInv'
  BY <1>1, ReceiveOrder
<1>2. ASSUME NEW s \in Subs, NEW to \in Statuses, Move(s, to), UNCHANGED inOrder
      PROVE  OrderInv'
  BY <1>2, MoveOrder
<1>3. ASSUME NEW q \in Requests, Commit(q), UNCHANGED inOrder PROVE OrderInv'
  BY <1>3, CommitOrder
<1>4. ASSUME NEW q \in Requests, Rollback(q), UNCHANGED inOrder PROVE OrderInv'
  BY <1>4, RollbackOrder
<1>5. ASSUME StartReconcile, \A q \in Requests : request[q] = None, UNCHANGED inOrder
      PROVE  OrderInv'
  BY <1>5, StartReconcileOrder
<1>6. ASSUME NEW s \in Subs, Fetch(s), UNCHANGED inOrder PROVE OrderInv'
  BY <1>6, FetchOrder
<1>7. ASSUME NEW s \in Subs, Skip(s), UNCHANGED inOrder PROVE OrderInv'
  BY <1>7, SkipOrder
<1>8. ASSUME EndReconcile, UNCHANGED inOrder PROVE OrderInv'
  BY <1>8, EndReconcileOrder
<1>9. ASSUME AbortReconcile, UNCHANGED inOrder PROVE OrderInv'
  BY <1>9, AbortReconcileOrder
<1>10. CASE UNCHANGED <<vars, inOrder>>
  <2>1. /\ UNCHANGED <<remote, moves, sent, lost, processed, sub, user, request>>
        /\ UNCHANGED recon /\ UNCHANGED inOrder
    BY <1>10 DEF vars
  <2>2. inOrder => ReconOK'  BY <2>1 DEF OrderInv, ReconOK, Reports, UpTo
  <2> QED  BY <2>1, <2>2, ReconOrder
<1> QED  BY <1>1, <1>2, <1>3, <1>4, <1>5, <1>6, <1>7, <1>8, <1>9, <1>10 DEF ApartNext

(* When every webhook issued was handled, the latest move is what is stored. *)
LEMMA OrderImplies ==
    ASSUME NEW a, Subs = {a}, IInv, OrderInv
    PROVE  OrderedInSync
<1> SUFFICES ASSUME inOrder, Quiet, lost = {} PROVE sub = remote /\ Effective = Due
  BY DEF OrderedInSync, InSync
<1>1. TypeOK /\ moves \in Nat /\ remote \in [Subs -> Status] /\ sub \in [Subs -> Status]
      /\ user \in User
  BY DEF IInv, TypeOK
<1>2. sent = processed  BY DEF Quiet
<1>3. SentInv /\ StoredOK  BY DEF OrderInv
<1>4. PICK k \in 0 .. moves : Reports(k, sub[a]) /\ UpTo(k)  BY <1>3 DEF StoredOK
<1>5. \A m \in sent : m.move \in Nat /\ m.sub = a  BY <1>1 DEF TypeOK, Webhook
<1>6. sub[a] = remote[a]
  <2>1. CASE moves = 0
    <3>1. k = 0 /\ remote[a] = None /\ \A m \in sent : m.move > 0
      BY <1>1, <1>3, <1>4, <2>1 DEF SentInv
    <3> QED  BY <1>4, <1>5, <3>1 DEF Reports
  <2>2. CASE moves # 0
    <3>1. PICK m \in sent : m.move = moves  BY <1>3, <2>2 DEF SentInv
    <3>2. moves <= k  BY <1>2, <1>4, <3>1 DEF UpTo
    <3>3. k = moves  BY <1>1, <1>4, <3>2
    <3>4. PICK n \in sent : n.move = moves /\ n.status = sub[a]
      BY <1>4, <2>2, <3>3 DEF Reports
    <3>5. n.status = remote[n.sub]  BY <1>3, <3>4 DEF SentInv
    <3> QED  BY <1>5, <3>4, <3>5
  <2> QED  BY <2>1, <2>2
<1>7. sub = remote  BY <1>1, <1>6
<1>8. UserFits(user, remote[a])  BY <1>3, <1>6 DEF StoredOK
<1>9. user.until # None => user.until = a  BY <1>1 DEF User
<1>10. Effective = IF remote[a] \in Paid THEN "pro" ELSE "free"
  <2>1. CASE remote[a] \in Paid
    <3>1. user.plan = "pro" /\ (user.until # None => remote[a] = "cancelled")
      BY <1>8, <2>1 DEF UserFits, PlanFits, UntilFits
    <3> QED  BY <1>9, <2>1, <3>1 DEF Effective
  <2>2. CASE remote[a] \notin Paid
    <3>1. user.plan # "pro"  BY <1>8, <2>2 DEF UserFits, PlanFits
    <3> QED  BY <2>2, <3>1 DEF Effective
  <2> QED  BY <2>1, <2>2
<1>11. Due = IF remote[a] \in Paid THEN "pro" ELSE "free"  BY DEF Due
<1> QED  BY <1>7, <1>10, <1>11

(* handle_webhook with its duplicate check and its rollbacks, beside         *)
(* reconciliations that overlap no request: once every webhook of a          *)
(* subscription was handled, in the order of the moves, its row says what    *)
(* Lemon Squeezy says and the user has the plan paid for, whatever number of *)
(* requests ran at once, were refused, failed or were tried again, and       *)
(* whatever reconciliations stored before.                                   *)
THEOREM OrderedAlwaysInSync ==
    ASSUME NEW a, Subs = {a}
    PROVE  ApartSpec => []OrderedInSync
<1>1. ApartInit => IInv /\ OrderInv
  BY InitInv, InitOrder DEF ApartInit
<1>2. IInv /\ OrderInv /\ [ApartNext]_<<vars, inOrder>> => IInv' /\ OrderInv'
  <2> SUFFICES ASSUME IInv, OrderInv, [ApartNext]_<<vars, inOrder>>
               PROVE  IInv' /\ OrderInv'
    OBVIOUS
  <2>1. [Next]_vars
    <3>1. CASE ApartNext  BY <3>1 DEF ApartNext, ApartReceive, Next
    <3>2. CASE UNCHANGED <<vars, inOrder>>  BY <3>2
    <3> QED  BY <3>1, <3>2
  <2> QED  BY <2>1, StepInv, StepOrder
<1>3. IInv /\ OrderInv => OrderedInSync  BY OrderImplies
<1> QED  BY <1>1, <1>2, <1>3, PTL DEF ApartSpec
=============================================================================
