----------------------------- MODULE OrderStream -----------------------------
(***************************************************************************)
(* The way of an event from the watcher to a client: what the buffer of    *)
(* CohesionBuffer emits is broadcast by the broker of SSEBroker in the     *)
(* same step (main.py hands Broker.broadcast to the buffer as emit), under *)
(* the kill switch, to clients with filters and bounded queues.            *)
(*                                                                         *)
(* Health messages, pings and clients that leave are left to SSEBroker:    *)
(* here they could only take room in a queue, which the announcements of   *)
(* the kill switch do as well.  A step relays what it emits for one order; *)
(* left out is a shutdown with entries of several orders still waiting,    *)
(* whose broadcasts come one right after the other.                        *)
(***************************************************************************)
EXTENDS CohesionBuffer

CONSTANTS Clients, Queries, All, MaxQueue, MaxStrikes  \* as in SSEBroker

ASSUME StreamAssumption == /\ MaxQueue \in Nat \ {0}
                           /\ MaxStrikes \in Nat \ {0}
                           /\ NoDoc \notin Values \cup {None}

VARIABLES registered, queue, dropped, scope, conn, peer, engaged, published,
          received,   \* as in SSEBroker
          joined      \* how many events there were when a client subscribed
                      \* (history)

Broker == INSTANCE SSEBroker WITH
             WebSockets <- {}, EventKinds <- {}, IntentNames <- Intents

bufferVars == vars
brokerVars == <<registered, queue, dropped, scope, conn, peer, engaged, published,
                received>>
streamVars == <<bufferVars, brokerVars, joined>>

StreamInit == Init /\ Broker!Init /\ joined = [c \in Clients |-> 0]

-----------------------------------------------------------------------------
Customer(d) == IF d = NoDoc THEN NoDoc ELSE Get(d, "customer_name")

(* What the filter of a subscription looks at; the rest tells which        *)
(* events of the spine it stands for.                                      *)
Kind(e) == [intent |-> e.intent, before |-> Customer(e.before),
            after |-> Customer(e.after), seq |-> e.seq, order |-> e.order,
            count |-> e.count]

(* emit is Broker.broadcast. *)
Relay(o) ==
    /\ \A p \in Orders \ {o} : emitted'[p] = emitted[p]
    /\ IF emitted'[o] = emitted[o] THEN UNCHANGED brokerVars
       ELSE Broker!Broadcast(Kind(Last(emitted'[o])))

(* A step of the buffer with what it emits. *)
BufferStep(o) ==
    /\ Watch(o) \/ Flush(o) \/ FlushAll
    /\ Relay(o)
    /\ UNCHANGED joined

Join(c, q) == /\ Broker!Subscribe(c, q)
              /\ joined' = [joined EXCEPT ![c] = Len(events)]
              /\ UNCHANGED bufferVars

BrokerStep == /\ \/ Broker!Engage \/ Broker!Release
                 \/ \E c \in Clients : Broker!Hello(c) \/ Broker!Deliver(c)
              /\ UNCHANGED <<bufferVars, joined>>

StreamNext == \/ \E o \in Orders : BufferStep(o)
              \/ \E c \in Clients, q \in Queries : Join(c, q)
              \/ BrokerStep

StreamSpec == StreamInit /\ [][StreamNext]_streamVars

-----------------------------------------------------------------------------
(* The events of an order that waited in the buffer. *)
Waited(o) == {n \in DOMAIN events : events[n].order = o /\ ~Passes(events[n])}

Between(o, n, seq) == {m \in Waited(o) : n < m /\ m <= seq}

(* The events a broadcast stands for: itself, and as many before it that   *)
(* waited as it counts.                                                    *)
StandsFor(k) ==
    IF k.seq \notin Waited(k.order) THEN {k.seq}
    ELSE {n \in Waited(k.order) :
             n <= k.seq /\ Cardinality(Between(k.order, n, k.seq)) < k.count}

(* The broadcasts that stand for event n. *)
Carriers(n) == {i \in DOMAIN published : n \in StandsFor(published[i].kind)}

Concerns(c, n) == n > joined[c] /\ Broker!Matches(scope[c], Kind(events[n]))

(* Suppressed by the kill switch, or a strike. *)
Excused(c, n) == dropped[c] > 0 \/ \E i \in Carriers(n) : ~published[i].sent

(* An urgent event reaches each client it concerns as it is: nothing it    *)
(* meets in the buffer delays it, swallows it or changes its kind.         *)
UrgentReaches ==
    \A c \in registered, n \in DOMAIN events :
        Urgent(events[n]) /\ Concerns(c, n) =>
            Excused(c, n) \/ \E i \in Carriers(n) : i \in Broker!Got(c)
                                                    /\ published[i].kind.seq = n

(* Any other event reaches the clients it concerns, waits in the buffer,   *)
(* or went out in a later event of its order that does not concern them.   *)
AbsorbedByLater ==
    \A c \in registered, o \in Orders : \A n \in Waited(o) :
        Concerns(c, n) =>
            \/ Excused(c, n)
            \/ \E i \in Carriers(n) : i \in Broker!Got(c)
            \/ Carriers(n) = {} /\ pending[o] # NoPending
            \/ \E i \in Carriers(n) :
                 /\ published[i].kind.seq > n
                 /\ ~Broker!Matches(scope[c], published[i].kind)

InOrderInScope == Broker!InOrderInScope
LossesCounted == Broker!LossesCounted
=============================================================================
