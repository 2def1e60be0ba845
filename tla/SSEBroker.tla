----------------------------- MODULE SSEBroker -----------------------------
(***************************************************************************)
(* app/broker.py with the connections that read from it (routes/stream.py, *)
(* routes/ws.py), the subscription filter (auth.py), the kill switch and   *)
(* the periodic health message.  A connection has a bounded queue; a full  *)
(* queue is a strike, and the strikes unregister the client.               *)
(* broadcast and broadcast_system never wait (the lock of unsubscribe is   *)
(* free whenever the loop runs them), so each is one step.                 *)
(***************************************************************************)
EXTENDS Naturals, Sequences, FiniteSets

CONSTANTS Clients,      \* connections that may be opened, each once
          WebSockets,   \* those of /ws; the others are of /stream
          EventKinds,   \* events: [intent, before, after], the last two the
                        \* customer of the document or NoDoc
          IntentNames,  \* the members of Intent
          Queries,      \* the query strings: [intents, customer]
          All,          \* a filter that is not set
          NoDoc,        \* no document
          MaxQueue,     \* max_client_queue
          MaxStrikes,   \* drops after which a client is unregistered: 5
          MaxEvents     \* bound on the broadcasts (model only)

ASSUME BrokerAssumption == /\ WebSockets \subseteq Clients
                           /\ MaxQueue \in Nat \ {0}
                           /\ MaxStrikes \in Nat \ {0}
                           /\ MaxEvents \in Nat

VARIABLES registered,  \* _clients
          queue,       \* the queue of each client
          dropped,     \* the drops of each client
          scope,       \* its Subscription
          conn,        \* the handler: "none", "opening", "open", "closed"
          peer,        \* is the other end of the connection there
          engaged,     \* KILL_SWITCH.engaged
          published,   \* the events broadcast was called with (history)
          received     \* the events each peer was sent (history)

brokerVars == <<registered, queue, dropped, scope>>
vars == <<brokerVars, conn, peer, engaged, published, received>>

Init == /\ registered = {}
        /\ queue = [c \in Clients |-> <<>>]
        /\ dropped = [c \in Clients |-> 0]
        /\ scope = [c \in Clients |-> [intents |-> All, customer |-> All]]
        /\ conn = [c \in Clients |-> "none"]
        /\ peer = [c \in Clients |-> FALSE]
        /\ engaged = FALSE
        /\ published = <<>>
        /\ received = [c \in Clients |-> <<>>]

-----------------------------------------------------------------------------
(* Subscription.                                                           *)

(* event.after or event.before or {} *)
Matches(s, k) ==
    /\ s.intents # All => k.intent \in s.intents
    /\ s.customer # All =>
          s.customer = IF k.after # NoDoc THEN k.after ELSE k.before

(* An unknown intent in the list unsets the whole filter. *)
Parse(q) == [intents  |-> IF q.intents # All /\ q.intents \subseteq IntentNames
                          THEN q.intents ELSE All,
             customer |-> q.customer]

-----------------------------------------------------------------------------
(* The broker.                                                             *)

Subscribe(c, q) ==
    /\ conn[c] = "none"
    /\ registered' = registered \cup {c}
    /\ scope' = [scope EXCEPT ![c] = Parse(q)]
    /\ conn' = [conn EXCEPT ![c] = "opening"]
    /\ peer' = [peer EXCEPT ![c] = TRUE]
    /\ UNCHANGED <<queue, dropped, engaged, published, received>>

\* mutant: one strike more than the documented number
OutLate(c) == dropped[c] >= MaxStrikes
(* client.dropped >= 5, after this drop *)
Out(c) == dropped[c] + 1 >= MaxStrikes

(* What a queue holds: the n-th event, or a message of the system. *)
Change(n)    == [type |-> "change", n |-> n]
Message(typ) == [type |-> typ, n |-> 0]

(* put_nowait to each of the targets *)
Offer(targets, item) ==
    [c \in Clients |-> IF c \in targets /\ Len(queue[c]) < MaxQueue
                       THEN Append(queue[c], item) ELSE queue[c]]

\* mutant: the kill switch is not looked at
TargetsAlways(k) == {c \in registered : Matches(scope[c], k)}
(* Whom a broadcast goes to; with the kill switch engaged, to nobody.      *)
Targets(k) == {c \in registered : ~engaged /\ Matches(scope[c], k)}

\* mutant: QueueFull is passed over, as in broadcast_system
StruckNever(targets) == {}
(* The targets that get a strike instead. *)
Struck(targets) == {c \in targets : Len(queue[c]) = MaxQueue}

(* broadcast *)
Broadcast(k) ==
    LET n == Len(published) + 1
    IN /\ n <= MaxEvents
       /\ published' = Append(published, [kind |-> k, sent |-> ~engaged])
       /\ queue' = Offer(Targets(k), Change(n))
       /\ dropped' = [c \in Clients |->
                        dropped[c] + IF c \in Struck(Targets(k)) THEN 1 ELSE 0]
       /\ registered' = registered \ {c \in Struck(Targets(k)) : Out(c)}
       /\ UNCHANGED <<scope, conn, peer, engaged, received>>

(* broadcast_system: to everyone, a full queue is no strike. *)
BroadcastSystem(typ) == queue' = Offer(registered, Message(typ))

Health == /\ BroadcastSystem("health")
          /\ UNCHANGED <<registered, dropped, scope, conn, peer, engaged,
                         published, received>>

(* POST /admin/kill-switch; engaging again announces it again. *)
Engage == /\ engaged' = TRUE
          /\ BroadcastSystem("engaged")
          /\ UNCHANGED <<registered, dropped, scope, conn, peer, published,
                         received>>

Release == /\ engaged
           /\ engaged' = FALSE
           /\ BroadcastSystem("released")
           /\ UNCHANGED <<registered, dropped, scope, conn, peer, published,
                          received>>

-----------------------------------------------------------------------------
(* A connection.                                                           *)

\* mutant: the finally clause does not unsubscribe
CloseOnly(c) == /\ conn' = [conn EXCEPT ![c] = "closed"]
                /\ UNCHANGED registered
(* The handler ends: finally, unsubscribe. *)
Close(c) == /\ conn' = [conn EXCEPT ![c] = "closed"]
            /\ registered' = registered \ {c}

(* The hello message is out, the loop begins. *)
Hello(c) == /\ conn[c] = "opening"
            /\ peer[c]
            /\ conn' = [conn EXCEPT ![c] = "open"]
            /\ UNCHANGED <<brokerVars, peer, engaged, published, received>>

(* The peer left before its hello: on /ws the send fails outside the try   *)
(* and the registration stays; on /stream the generator's finally runs.    *)
HelloFails(c) ==
    /\ conn[c] = "opening" /\ ~peer[c]
    /\ IF c \in WebSockets
       THEN conn' = [conn EXCEPT ![c] = "closed"] /\ UNCHANGED registered
       ELSE Close(c)
    /\ UNCHANGED <<queue, dropped, scope, peer, engaged, published, received>>

PeerLeaves(c) ==
    /\ peer[c]
    /\ peer' = [peer EXCEPT ![c] = FALSE]
    /\ UNCHANGED <<brokerVars, conn, engaged, published, received>>

(* The /stream heartbeat goes through the queue. *)
Ping(c) == /\ conn[c] = "open" /\ c \notin WebSockets
           /\ queue' = Offer({c}, Message("ping"))
           /\ UNCHANGED <<registered, dropped, scope, conn, peer, engaged,
                          published, received>>

(* One turn of the loop: an item is taken and sent. *)
Deliver(c) ==
    /\ conn[c] = "open" /\ queue[c] # <<>> /\ peer[c]
    /\ queue' = [queue EXCEPT ![c] = Tail(@)]
    /\ LET item == Head(queue[c])
       IN received' = IF item.type = "change"
                      THEN [received EXCEPT ![c] = Append(@, item.n)]
                      ELSE received
    /\ UNCHANGED <<registered, dropped, scope, conn, peer, engaged, published>>

(* /ws learns that the peer left when it sends; finally unsubscribes. *)
SendFails(c) ==
    /\ conn[c] = "open" /\ queue[c] # <<>> /\ ~peer[c]
    /\ c \in WebSockets
    /\ queue' = [queue EXCEPT ![c] = Tail(@)]
    /\ Close(c)
    /\ UNCHANGED <<dropped, scope, peer, engaged, published, received>>

(* /stream asks is_disconnected before each item and each timeout. *)
Notice(c) == /\ conn[c] = "open" /\ ~peer[c]
             /\ c \notin WebSockets
             /\ Close(c)
             /\ UNCHANGED <<queue, dropped, scope, peer, engaged, published,
                            received>>

Connection(c) == \/ \E q \in Queries : Subscribe(c, q)
                 \/ Hello(c) \/ HelloFails(c) \/ PeerLeaves(c) \/ Ping(c)
                 \/ Deliver(c) \/ SendFails(c) \/ Notice(c)

Next == \/ \E k \in EventKinds : Broadcast(k)
        \/ Health \/ Engage \/ Release
        \/ \E c \in Clients : Connection(c)

Spec == Init /\ [][Next]_vars

(* The loops of the handlers run, and health is sent every few seconds.    *)
Fairness == /\ WF_vars(Health)
            /\ \A c \in Clients : /\ WF_vars(Hello(c))
                                  /\ WF_vars(HelloFails(c))
                                  /\ WF_vars(Deliver(c))
                                  /\ WF_vars(SendFails(c))
                                  /\ WF_vars(Notice(c))
FairSpec == Spec /\ Fairness

-----------------------------------------------------------------------------
(* The events in the queue of c, those it was sent, and both. *)
IsChange(item) == item.type = "change"
Waiting(c) == {queue[c][i].n : i \in {j \in DOMAIN queue[c] : IsChange(queue[c][j])}}
Sent(c)    == {received[c][i] : i \in DOMAIN received[c]}
Got(c)     == Sent(c) \cup Waiting(c)

(* The events of c's scope that were broadcast from its from-th event on.  *)
InScope(c, from) ==
    {n \in DOMAIN published : /\ n >= from /\ published[n].sent
                              /\ Matches(scope[c], published[n].kind)}

(* Type correctness; a queue never outgrows its bound, and a live          *)
(* connection is registered up to its last strike and no longer.           *)
TypeOK ==
    /\ registered \subseteq Clients
    /\ \A c \in Clients : /\ Len(queue[c]) <= MaxQueue
                          /\ dropped[c] \in 0 .. MaxStrikes
                          /\ conn[c] = "none" => queue[c] = <<>>
    /\ \A c \in Clients : conn[c] \in {"opening", "open"} =>
                           (c \in registered <=> dropped[c] < MaxStrikes)

(* What a client has been sent and what waits for it are, in this order,   *)
(* events of its scope as broadcast, each once, none that was suppressed.  *)
InOrderInScope ==
    \A c \in Clients :
        /\ \A i, j \in DOMAIN received[c] : i < j => received[c][i] < received[c][j]
        /\ \A m \in Sent(c), n \in Waiting(c) : m < n
        /\ \A i, j \in DOMAIN queue[c] :
              i < j /\ IsChange(queue[c][i]) /\ IsChange(queue[c][j])
                => queue[c][i].n < queue[c][j].n
        /\ Got(c) \subseteq InScope(c, 1)

(* Every loss is counted: from the first event a registered client got on, *)
(* each event of its scope was sent to it, waits for it, or is a strike.   *)
LossesCounted ==
    \A c \in registered : peer[c] =>
        \A n \in Got(c) : Cardinality(InScope(c, n) \ Got(c)) <= dropped[c]

(* A registration outlives its handler only when a /ws peer left before    *)
(* its hello.                                                              *)
OnlyHelloLeaks ==
    \A c \in registered : conn[c] = "closed" =>
        c \in WebSockets /\ received[c] = <<>>

(* A handler past its hello whose peer has left frees its registration.    *)
GoneIsForgotten ==
    \A c \in Clients :
        conn[c] = "open" /\ ~peer[c] ~> c \notin registered
=============================================================================
