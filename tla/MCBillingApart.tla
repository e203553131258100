---------------------------- MODULE MCBillingApart ---------------------------
(* Billing with transactions that do not overlap: webhooks arrive in any     *)
(* order, but none while a reconciliation runs.  inOrder records whether     *)
(* every webhook so far arrived in the order of the moves.                   *)
EXTENDS MCBilling

VARIABLE inOrder

ApartInit == Init /\ inOrder = TRUE

ApartReceive(q, m) ==
    /\ recon = None
    /\ Receive(q, m)
    /\ inOrder' = (inOrder /\ Ordered(m))

ApartNext ==
    \/ \E q \in Requests, m \in sent : ApartReceive(q, m)
    \/ /\ \/ \E s \in Subs, to \in Statuses : Move(s, to)
          \/ \E q \in Requests : Commit(q) \/ Rollback(q)
          \/ StartReconcile /\ \A q \in Requests : request[q] = None
          \/ EndReconcile \/ AbortReconcile
          \/ \E s \in Subs : Fetch(s) \/ Skip(s)
       /\ UNCHANGED inOrder

ApartSpec == ApartInit /\ [][ApartNext]_<<vars, inOrder>> /\ Fairness

(* handle_webhook and its duplicate check: see InSync, of webhooks that      *)
(* arrived in order.                                                         *)
OrderedInSync == inOrder => InSync
=============================================================================
