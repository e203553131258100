----------------------------- MODULE LiveEvents -----------------------------
(***************************************************************************)
(* Events for the sockets of one user (api/routes/ws.py). An event goes    *)
(* through a Redis channel to every replica, whose listener relays it to   *)
(* its own sockets, or, when it cannot be published, to the sockets of the *)
(* replica it arose in. A relay walks the replica's live set of sockets    *)
(* and lets other tasks run at every send.                                 *)
(***************************************************************************)
EXTENDS Naturals, Sequences, FiniteSets, SequencesExt

CONSTANTS Replicas, Sockets,
          Emitters,     \* tasks that emit events
          MaxEvents     \* bound on events

ASSUME EventsAssumption ==
    /\ MaxEvents \in Nat /\ Replicas \cap Emitters = {}
    /\ {"nowhere", "gone"} \cap Replicas = {}

VARIABLES redis,        \* "absent", "up" or "down"
          listener,     \* the subscriber task of each replica
          sock,         \* where each socket is, whether it works, whether it is registered
          queue,        \* what Redis has for each replica's listener
          relay,        \* _local_broadcast: one in each listener, one in each emitter
          emitted,      \* number of events so far
          got,          \* history: what each socket received
          owed,         \* history: the sockets each event is still to reach
          sure, unsure  \* history: events Redis took, and those it did not say so of

eventVars == <<redis, listener, sock, queue, relay, emitted, got, owed, sure, unsure>>

Tasks == Replicas \cup Emitters
EventIds == 1 .. MaxEvents
Off == [at |-> "nowhere", up |-> FALSE, reg |-> FALSE]
Gone == [Off EXCEPT !.at = "gone"]
Still == [on |-> FALSE]
Reg(r) == {s \in Sockets : sock[s].reg /\ sock[s].at = r}
Reachable(r) == {s \in Reg(r) : sock[s].up}

EventsTypeOK ==
    /\ redis \in {"absent", "up", "down"}
    /\ listener \in [Replicas -> {"none", "starting", "live", "dead"}]
    /\ \A s \in Sockets : sock[s].reg => sock[s].at \in Replicas
    /\ \A r \in Replicas : queue[r] \in Seq(EventIds) /\ (queue[r] # <<>> => listener[r] = "live")
    /\ owed \in [EventIds -> SUBSET Sockets]

EventsInit ==
    /\ redis \in {"absent", "up"}
    /\ listener = [r \in Replicas |-> IF redis = "up" THEN "starting" ELSE "none"]
    /\ sock = [s \in Sockets |-> Off]
    /\ queue = [r \in Replicas |-> <<>>]
    /\ relay = [t \in Tasks |-> Still]
    /\ emitted = 0 /\ got = [s \in Sockets |-> <<>>]
    /\ owed = [e \in EventIds |-> {}] /\ sure = {} /\ unsure = {}

----------------------------------------------------------------------------
Forgiven(ss) == [e \in EventIds |-> owed[e] \ ss]

(* _listen subscribes. The task was started by the lifespan, or with the     *)
(* first socket; a task that has ended is not started again.                 *)
Subscribe(r) ==
    /\ listener[r] = "starting"
    /\ listener' = [listener EXCEPT ![r] = IF redis = "up" THEN "live" ELSE "dead"]
    /\ UNCHANGED <<redis, sock, queue, relay, emitted, got, owed, sure, unsure>>

(* Redis fails: every listener ends, after the relay it is in. *)
RedisFails ==
    /\ redis = "up"
    /\ redis' = "down"
    /\ listener' = [r \in Replicas |-> IF listener[r] = "live" THEN "dead" ELSE listener[r]]
    /\ queue' = [r \in Replicas |-> <<>>]
    /\ owed' = [e \in EventIds |-> IF \E r \in Replicas : Contains(queue[r], e)
                    THEN owed[e] \ UNION {Reg(r) : r \in {x \in Replicas : Contains(queue[x], e)}} ELSE owed[e]]
    /\ UNCHANGED <<sock, relay, emitted, got, sure, unsure>>

RedisReturns ==
    /\ redis = "down" /\ redis' = "up"
    /\ UNCHANGED <<listener, sock, queue, relay, emitted, got, owed, sure, unsure>>

(* websocket_endpoint: the user is known and the socket is registered. *)
connect(s, r) ==
    /\ sock[s] = Off
    /\ sock' = [sock EXCEPT ![s] = [at |-> r, up |-> TRUE, reg |-> TRUE]]
    /\ UNCHANGED <<redis, listener, queue, relay, emitted, got, owed, sure, unsure>>

(* The network fails, which the endpoint has not noticed. *)
Break(s) ==
    /\ sock[s].up
    /\ sock' = [sock EXCEPT ![s].up = FALSE]
    /\ owed' = Forgiven({s})
    /\ UNCHANGED <<redis, listener, queue, relay, emitted, got, sure, unsure>>

(* The endpoint ends, and its finally takes the socket out; whoever comes    *)
(* back comes with another socket.                                           *)
disconnect(s) ==
    /\ sock[s].at \in Replicas
    /\ sock' = [sock EXCEPT ![s] = Gone]
    /\ owed' = Forgiven({s})
    /\ UNCHANGED <<redis, listener, queue, relay, emitted, got, sure, unsure>>

----------------------------------------------------------------------------
Listening == {r \in Replicas : listener[r] = "live"}

Pass(e) == [r \in Replicas |-> IF r \in Listening THEN Append(queue[r], e) ELSE queue[r]]

Walk(r, e) == IF Reg(r) = {} THEN Still
              ELSE [on |-> TRUE, at |-> r, event |-> e, size |-> Cardinality(Reg(r)), base |-> Reg(r),
                    sent |-> {}, dead |-> {}]

(* Mutant of Publish: the replica's own sockets are served as well. *)
PublishAndRelay(m) ==
    /\ redis = "up" /\ ~relay[m].on /\ emitted < MaxEvents
    /\ emitted' = emitted + 1
    /\ queue' = Pass(emitted + 1)
    /\ relay' = [relay EXCEPT ![m] = Walk(CHOOSE r \in Replicas : TRUE, emitted + 1)]
    /\ owed' = [owed EXCEPT ![emitted + 1] = UNION {Reachable(x) : x \in Listening}]
    /\ sure' = sure \cup {emitted + 1}
    /\ UNCHANGED <<redis, listener, sock, got, unsure>>

(* broadcast of an event that Redis takes. *)
Publish(m) ==
    /\ redis = "up" /\ ~relay[m].on /\ emitted < MaxEvents
    /\ emitted' = emitted + 1
    /\ queue' = Pass(emitted + 1)
    /\ owed' = [owed EXCEPT ![emitted + 1] = UNION {Reachable(x) : x \in Listening}]
    /\ sure' = sure \cup {emitted + 1}
    /\ UNCHANGED <<redis, listener, sock, relay, got, unsure>>

(* Redis is absent or does not answer; it may have taken the event. *)
PublishFails(m, r, taken) ==
    /\ ~relay[m].on /\ emitted < MaxEvents /\ (taken => redis = "up")
    /\ emitted' = emitted + 1
    /\ queue' = IF taken THEN Pass(emitted + 1) ELSE queue
    /\ relay' = [relay EXCEPT ![m] = Walk(r, emitted + 1)]
    /\ owed' = [owed EXCEPT ![emitted + 1] = Reachable(r)]
    /\ unsure' = IF taken THEN unsure \cup {emitted + 1} ELSE unsure
    /\ UNCHANGED <<redis, listener, sock, got, sure>>

(* The listener takes its next message. *)
Relay(r) ==
    /\ listener[r] = "live" /\ ~relay[r].on /\ queue[r] # <<>>
    /\ relay' = [relay EXCEPT ![r] = Walk(r, Head(queue[r]))]
    /\ queue' = [queue EXCEPT ![r] = Tail(@)]
    /\ UNCHANGED <<redis, listener, sock, emitted, got, owed, sure, unsure>>

Steady(t) == relay[t].on /\ Cardinality(Reg(relay[t].at)) = relay[t].size

(* _local_broadcast sends to the next socket of the set; one that fails is   *)
(* remembered.                                                               *)
SendText(t, s) ==
    /\ Steady(t) /\ s \in Reg(relay[t].at) \ relay[t].sent
    /\ relay' = [relay EXCEPT ![t].sent = @ \cup {s},
                              ![t].dead = IF sock[s].up THEN @ ELSE @ \cup {s}]
    /\ IF sock[s].up
       THEN /\ got' = [got EXCEPT ![s] = Append(@, relay[t].event)]
            /\ owed' = [owed EXCEPT ![relay[t].event] = @ \ {s}]
       ELSE UNCHANGED <<got, owed>>
    /\ UNCHANGED <<redis, listener, sock, queue, emitted, sure, unsure>>

(* All have been sent to: the dead are taken out. *)
RelayEnds(t) ==
    /\ Steady(t) /\ relay[t].base \cap Reg(relay[t].at) \subseteq relay[t].sent
    /\ sock' = [s \in Sockets |-> IF s \in relay[t].dead THEN [sock[s] EXCEPT !.reg = FALSE] ELSE sock[s]]
    /\ owed' = [e \in EventIds |-> owed[e] \ relay[t].dead]
    /\ relay' = [relay EXCEPT ![t] = Still]
    /\ UNCHANGED <<redis, listener, queue, emitted, got, sure, unsure>>

(* A socket came or went: the walk over the set raises RuntimeError, which   *)
(* nothing in the listener catches.                                          *)
RelayRaises(t) ==
    /\ relay[t].on /\ ~Steady(t)
    /\ relay' = [relay EXCEPT ![t] = Still]
    /\ IF t \in Replicas
       THEN /\ listener' = [listener EXCEPT ![t] = "dead"]
            /\ queue' = [queue EXCEPT ![t] = <<>>]
            /\ owed' = [e \in EventIds |-> IF e = relay[t].event \/ Contains(queue[t], e)
                                          THEN owed[e] \ Reg(t) ELSE owed[e]]
       ELSE /\ owed' = [owed EXCEPT ![relay[t].event] = @ \ Reg(relay[t].at)]
            /\ UNCHANGED <<listener, queue>>
    /\ UNCHANGED <<redis, sock, emitted, got, sure, unsure>>

EventsNext ==
    \/ RedisFails \/ RedisReturns
    \/ \E r \in Replicas : Subscribe(r) \/ Relay(r)
    \/ \E s \in Sockets : Break(s) \/ disconnect(s) \/ \E r \in Replicas : connect(s, r)
    \/ \E m \in Emitters :
          Publish(m) \/ \E r \in Replicas, taken \in BOOLEAN : PublishFails(m, r, taken)
    \/ \E t \in Tasks : RelayEnds(t) \/ RelayRaises(t) \/ \E s \in Sockets : SendText(t, s)

----------------------------------------------------------------------------
(* Once nothing is under way, an event has reached every socket that was     *)
(* connected to a listening replica when it was emitted and has stayed,      *)
(* unless the listener died on the way.                                      *)
EventsArrive ==
    (\A t \in Tasks : ~relay[t].on) /\ (\A r \in Replicas : queue[r] = <<>>)
        => \A e \in EventIds : owed[e] = {}

(* A socket receives an event once, unless Redis took it and did not say so. *)
NoDoubles ==
    \A s \in Sockets : \A i, j \in DOMAIN got[s] : i # j /\ got[s][i] = got[s][j] => got[s][i] \in unsure

(* Events that went through Redis reach a socket in the order they were      *)
(* published in.                                                             *)
InOrder ==
    \A s \in Sockets : \A i, j \in DOMAIN got[s] :
        i < j /\ {got[s][i], got[s][j]} \subseteq sure => got[s][i] <= got[s][j]
=============================================================================
