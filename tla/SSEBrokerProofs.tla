--------------------------- MODULE SSEBrokerProofs ---------------------------
(***************************************************************************)
(* Theorems about SSEBroker, for any clients, filters, events and bounds.  *)
(***************************************************************************)
EXTENDS SSEBroker, SequenceTheorems, FiniteSetTheorems, TLAPS

Item == [type : {"change", "health", "engaged", "released", "ping"}, n : Nat]
Scopes == {Parse(q) : q \in Queries} \cup {[intents |-> All, customer |-> All]}

Types == /\ registered \subseteq Clients
         /\ queue \in [Clients -> Seq(Item)]
         /\ dropped \in [Clients -> Nat]
         /\ scope \in [Clients -> Scopes]
         /\ conn \in [Clients -> {"none", "opening", "open", "closed"}]
         /\ peer \in [Clients -> BOOLEAN]
         /\ engaged \in BOOLEAN
         /\ published \in Seq([kind : EventKinds, sent : BOOLEAN])
         /\ received \in [Clients -> Seq(Nat)]

(* A connection is registered from its subscription to its last strike; a  *)
(* handler that ends unregisters it, but for the hello of /ws.             *)
ConnOK(c) ==
    /\ Len(queue[c]) <= MaxQueue
    /\ dropped[c] <= MaxStrikes
    /\ c \in registered => dropped[c] < MaxStrikes
    /\ conn[c] \in {"opening", "open"} /\ dropped[c] < MaxStrikes => c \in registered
    /\ conn[c] = "none" => c \notin registered /\ queue[c] = <<>> /\ dropped[c] = 0
    /\ conn[c] \in {"none", "opening"} => received[c] = <<>>
    /\ conn[c] = "closed" /\ c \in registered => c \in WebSockets /\ received[c] = <<>>

ConnInv == \A c \in Clients : ConnOK(c)

(* No connection, no queue, no strikes at the start.                       *)
LEMMA InitOK == Init => Types /\ ConnInv
<1> SUFFICES ASSUME Init PROVE Types /\ ConnInv
  OBVIOUS
<1>1. Types
  <2>1. <<>> \in Seq(Item) /\ <<>> \in Seq(Nat)
        /\ <<>> \in Seq([kind : EventKinds, sent : BOOLEAN])
    BY EmptySeq
  <2>2. scope \in [Clients -> Scopes]
    BY DEF Init, Scopes
  <2> QED
    BY <2>1, <2>2 DEF Init, Types
<1>2. ASSUME NEW c \in Clients PROVE ConnOK(c)
  <2>1. queue[c] = <<>> /\ dropped[c] = 0 /\ conn[c] = "none" /\ received[c] = <<>>
        /\ c \notin registered
    BY DEF Init
  <2> QED
    BY <2>1, BrokerAssumption DEF ConnOK
<1> QED
  BY <1>1, <1>2 DEF ConnInv

(* What a queue becomes when an item is offered. *)
LEMMA OfferAdds ==
    ASSUME Types, NEW S, NEW item \in Item
    PROVE  /\ Offer(S, item) \in [Clients -> Seq(Item)]
           /\ \A c \in Clients :
                Offer(S, item)[c] = IF c \in S /\ Len(queue[c]) < MaxQueue
                                    THEN Append(queue[c], item) ELSE queue[c]
BY DEF Types, Offer

(* A queue stays within its bound. *)
LEMMA OfferFits ==
    ASSUME Types, NEW S, NEW item \in Item, NEW c \in Clients, Len(queue[c]) <= MaxQueue
    PROVE  /\ Len(Offer(S, item)[c]) <= MaxQueue
           /\ c \notin S => Offer(S, item)[c] = queue[c]
<1>1. Len(queue[c]) \in Nat /\ Len(Append(queue[c], item)) = Len(queue[c]) + 1
  BY AppendProperties DEF Types
<1>2. Offer(S, item)[c] = IF c \in S /\ Len(queue[c]) < MaxQueue
                          THEN Append(queue[c], item) ELSE queue[c]
  BY OfferAdds
<1> QED
  BY <1>1, <1>2, BrokerAssumption

(* What can wait in a queue.                                               *)
LEMMA ItemTypes == /\ \A n \in Nat : Change(n) \in Item
                   /\ \A t \in {"health", "engaged", "released", "ping"} : Message(t) \in Item
BY DEF Change, Message, Item

(* Every step keeps the types.                                             *)
LEMMA TypeStep == ASSUME Types, [Next]_vars PROVE Types'
<1>1. CASE UNCHANGED vars
  BY <1>1 DEF vars, brokerVars, Types
<1>2. ASSUME NEW k \in EventKinds, Broadcast(k) PROVE Types'
  <2>1. Change(Len(published) + 1) \in Item
    BY ItemTypes DEF Types
  <2>2. queue' \in [Clients -> Seq(Item)]
    BY <1>2, <2>1, OfferAdds DEF Broadcast
  <2>3. published' \in Seq([kind : EventKinds, sent : BOOLEAN])
    BY <1>2 DEF Broadcast, Types
  <2>4. dropped' \in [Clients -> Nat]
    BY <1>2 DEF Broadcast, Types
  <2> QED
    BY <1>2, <2>2, <2>3, <2>4 DEF Broadcast, Types
<1>3. CASE Health \/ Engage \/ Release
  <2>1. queue' \in [Clients -> Seq(Item)]
    BY <1>3, ItemTypes, OfferAdds DEF Health, Engage, Release, BroadcastSystem
  <2> QED
    BY <1>3, <2>1 DEF Health, Engage, Release, Types
<1>4. ASSUME NEW c \in Clients, NEW q \in Queries, Subscribe(c, q) PROVE Types'
  BY <1>4 DEF Subscribe, Types, Scopes
<1>5. ASSUME NEW c \in Clients, Hello(c) \/ HelloFails(c) \/ PeerLeaves(c) \/ Notice(c)
      PROVE  Types'
  BY <1>5 DEF Hello, HelloFails, PeerLeaves, Notice, Close, Types, brokerVars
<1>6. ASSUME NEW c \in Clients, Ping(c) PROVE Types'
  <2>1. queue' \in [Clients -> Seq(Item)]
    BY <1>6, ItemTypes, OfferAdds DEF Ping
  <2> QED
    BY <1>6, <2>1 DEF Ping, Types
<1>7. ASSUME NEW c \in Clients, Deliver(c) PROVE Types'
  <2>1. Head(queue[c]) \in Item /\ Tail(queue[c]) \in Seq(Item)
    BY <1>7, HeadTailProperties DEF Deliver, Types
  <2> QED
    BY <1>7, <2>1 DEF Deliver, Types, Item
<1>8. ASSUME NEW c \in Clients, SendFails(c) PROVE Types'
  <2>1. Tail(queue[c]) \in Seq(Item)
    BY <1>8, HeadTailProperties DEF SendFails, Types
  <2> QED
    BY <1>8, <2>1 DEF SendFails, Close, Types
<1> QED
  BY <1>1, <1>2, <1>3, <1>4, <1>5, <1>6, <1>7, <1>8 DEF Next, Connection

(* Every step keeps registrations and connections together.                *)
LEMMA ConnStep == ASSUME Types, ConnInv, [Next]_vars PROVE ConnInv'
<1> SUFFICES ASSUME NEW d \in Clients PROVE ConnOK(d)'
  BY DEF ConnInv
<1>0. ConnOK(d)
  BY DEF ConnInv
<1>1. CASE UNCHANGED vars
  BY <1>0, <1>1 DEF vars, brokerVars, ConnOK
<1>2. ASSUME NEW k \in EventKinds, Broadcast(k) PROVE ConnOK(d)'
  <2>1. Change(Len(published) + 1) \in Item
    BY ItemTypes DEF Types
  <2>2. Len(queue'[d]) <= MaxQueue /\ (conn[d] = "none" => queue'[d] = <<>>)
    BY <1>0, <1>2, <2>1, OfferFits DEF Broadcast, ConnOK, Targets
  <2> QED
    BY <1>0, <1>2, <2>2, BrokerAssumption DEF Broadcast, ConnOK, Types, Struck, Out, Targets
<1>3. CASE Health \/ Engage \/ Release
  <2>1. Len(queue'[d]) <= MaxQueue /\ (conn[d] = "none" => queue'[d] = <<>>)
    BY <1>0, <1>3, ItemTypes, OfferFits DEF Health, Engage, Release, BroadcastSystem, ConnOK
  <2> QED
    BY <1>0, <1>3, <2>1 DEF Health, Engage, Release, ConnOK
<1>4. ASSUME NEW c \in Clients, NEW q \in Queries, Subscribe(c, q) PROVE ConnOK(d)'
  BY <1>0, <1>4, BrokerAssumption DEF Subscribe, ConnOK, Types
<1>5. ASSUME NEW c \in Clients, Hello(c) \/ HelloFails(c) \/ PeerLeaves(c) \/ Notice(c)
      PROVE  ConnOK(d)'
  BY <1>0, <1>5 DEF Hello, HelloFails, PeerLeaves, Notice, Close, ConnOK, Types, brokerVars
<1>6. ASSUME NEW c \in Clients, Ping(c) PROVE ConnOK(d)'
  <2>1. Len(queue'[d]) <= MaxQueue /\ (conn[d] = "none" => queue'[d] = <<>>)
    BY <1>0, <1>6, ItemTypes, OfferFits DEF Ping, ConnOK
  <2> QED
    BY <1>0, <1>6, <2>1 DEF Ping, ConnOK
<1>7. ASSUME NEW c \in Clients, Deliver(c) \/ SendFails(c) PROVE ConnOK(d)'
  <2>1. /\ queue' = [queue EXCEPT ![c] = Tail(@)]
        /\ Len(Tail(queue[c])) = Len(queue[c]) - 1 /\ Len(queue[c]) \in Nat
    BY <1>7, HeadTailProperties DEF Deliver, SendFails, Types
  <2>2. Len(queue'[d]) <= MaxQueue /\ (d # c => queue'[d] = queue[d])
    BY <1>0, <2>1, BrokerAssumption DEF ConnOK, Types
  <2>3. CASE Deliver(c)
    <3>1. d # c => received'[d] = received[d]
      BY <2>3 DEF Deliver, Types
    <3> QED
      BY <1>0, <2>2, <2>3, <3>1 DEF Deliver, ConnOK
  <2>4. CASE SendFails(c)
    BY <1>0, <2>2, <2>4 DEF SendFails, Close, ConnOK, Types
  <2> QED
    BY <1>7, <2>3, <2>4
<1> QED
  BY <1>1, <1>2, <1>3, <1>4, <1>5, <1>6, <1>7 DEF Next, Connection

(* For any connections: queues stay bounded, and a live connection is      *)
(* registered up to its last strike and no longer.                         *)
THEOREM QueuesBounded == Spec => []TypeOK
<1>1. Init => Types /\ ConnInv
  BY InitOK
<1>2. Types /\ ConnInv /\ [Next]_vars => (Types /\ ConnInv)'
  BY TypeStep, ConnStep
<1>3. Types /\ ConnInv => TypeOK
  BY BrokerAssumption DEF Types, ConnInv, ConnOK, TypeOK
<1> QED
  BY <1>1, <1>2, <1>3, PTL DEF Spec

(* For any connections, whenever their peers leave: only the hello of /ws  *)
(* leaves a registration behind.                                           *)
THEOREM LeaksOnlyByHello == Spec => []OnlyHelloLeaks
<1>1. Init => Types /\ ConnInv
  BY InitOK
<1>2. Types /\ ConnInv /\ [Next]_vars => (Types /\ ConnInv)'
  BY TypeStep, ConnStep
<1>3. Types /\ ConnInv => OnlyHelloLeaks
  BY DEF Types, ConnInv, ConnOK, OnlyHelloLeaks
<1> QED
  BY <1>1, <1>2, <1>3, PTL DEF Spec

-----------------------------------------------------------------------------
(* What a client gets.                                                     *)

OrderOK(c) ==
    /\ \A i, j \in DOMAIN received[c] : i < j => received[c][i] < received[c][j]
    /\ \A m \in Sent(c), n \in Waiting(c) : m < n
    /\ \A i, j \in DOMAIN queue[c] :
          i < j /\ IsChange(queue[c][i]) /\ IsChange(queue[c][j])
            => queue[c][i].n < queue[c][j].n
    /\ Got(c) \subseteq InScope(c, 1)

(* What waits when an item is put at the end of a queue.                   *)
LEMMA WaitingGrows ==
    ASSUME Types, NEW c \in Clients, NEW item \in Item,
           queue'[c] = Append(queue[c], item)
    PROVE  Waiting(c)' = Waiting(c) \cup {n \in {item.n} : IsChange(item)}
<1>1. /\ Len(queue[c]) \in Nat /\ DOMAIN queue[c] = 1 .. Len(queue[c])
      /\ DOMAIN queue'[c] = 1 .. Len(queue[c]) + 1
      /\ \A i \in 1 .. Len(queue[c]) : queue'[c][i] = queue[c][i]
      /\ queue'[c][Len(queue[c]) + 1] = item
  BY AppendProperties, LenProperties DEF Types
<1> QED
  BY <1>1 DEF Waiting

(* What waits when the first item is taken.                                *)
LEMMA WaitingShrinks ==
    ASSUME Types, NEW c \in Clients, queue[c] # <<>>, queue'[c] = Tail(queue[c])
    PROVE  /\ Waiting(c) = Waiting(c)' \cup {n \in {Head(queue[c]).n} : IsChange(Head(queue[c]))}
           /\ Len(queue[c]) \in Nat
           /\ DOMAIN queue[c] = 1 .. Len(queue[c])
           /\ DOMAIN queue'[c] = 1 .. Len(queue[c]) - 1
           /\ \A i \in DOMAIN queue'[c] : i + 1 \in DOMAIN queue[c]
                                          /\ queue'[c][i] = queue[c][i + 1]
<1>1. /\ Len(queue[c]) \in Nat /\ DOMAIN queue[c] = 1 .. Len(queue[c])
      /\ DOMAIN queue'[c] = 1 .. Len(queue[c]) - 1
      /\ \A i \in DOMAIN queue'[c] : queue'[c][i] = queue[c][i + 1]
      /\ Head(queue[c]) = queue[c][1]
      /\ Len(queue[c]) > 0
  BY HeadTailProperties, LenProperties DEF Types
<1>2. \A i \in DOMAIN queue'[c] : i + 1 \in DOMAIN queue[c]
  BY <1>1
<1>3. \A i \in DOMAIN queue[c] : i = 1 \/ (i - 1 \in DOMAIN queue'[c]
                                            /\ queue'[c][i - 1] = queue[c][i])
  BY <1>1
<1>4. 1 \in DOMAIN queue[c]
  BY <1>1
<1>5. \A i \in DOMAIN queue'[c] : IsChange(queue'[c][i]) => queue'[c][i].n \in Waiting(c)
  BY <1>1, <1>2 DEF Waiting
<1>6. \A i \in DOMAIN queue[c] : IsChange(queue[c][i]) /\ i # 1
                                    => queue[c][i].n \in Waiting(c)'
  BY <1>3 DEF Waiting, IsChange
<1>7. Waiting(c)' \subseteq Waiting(c)
  BY <1>5 DEF Waiting, IsChange
<1>8. IsChange(queue[c][1]) => queue[c][1].n \in Waiting(c)
  BY <1>4 DEF Waiting
<1>9. \A n \in Waiting(c) : \/ n \in Waiting(c)'
                            \/ IsChange(queue[c][1]) /\ n = queue[c][1].n
  <2> SUFFICES ASSUME NEW n \in Waiting(c)
               PROVE  \/ n \in Waiting(c)'
                      \/ IsChange(queue[c][1]) /\ n = queue[c][1].n
    OBVIOUS
  <2>1. PICK i \in DOMAIN queue[c] : IsChange(queue[c][i]) /\ n = queue[c][i].n
    BY DEF Waiting
  <2> QED
    BY <2>1, <1>6
<1> QED
  BY <1>1, <1>2, <1>7, <1>8, <1>9

(* What remains in a queue keeps its order. *)
LEMMA TailOrdered ==
    ASSUME Types, NEW c \in Clients, OrderOK(c), queue[c] # <<>>,
           queue'[c] = Tail(queue[c]),
           NEW i \in DOMAIN queue'[c], NEW j \in DOMAIN queue'[c], i < j,
           IsChange(queue'[c][i]), IsChange(queue'[c][j])
    PROVE  queue'[c][i].n < queue'[c][j].n
<1>1. /\ i + 1 \in DOMAIN queue[c] /\ queue'[c][i] = queue[c][i + 1]
      /\ j + 1 \in DOMAIN queue[c] /\ queue'[c][j] = queue[c][j + 1]
      /\ i + 1 < j + 1
  BY WaitingShrinks
<1> QED
  BY <1>1 DEF OrderOK

(* An item that is delivered is still one the client got. *)
LEMMA DeliverKeeps ==
    ASSUME Types, NEW c \in Clients, Deliver(c), OrderOK(c)
    PROVE  Got(c)' = Got(c) /\ OrderOK(c)'
<1> DEFINE item == Head(queue[c])
<1>1. queue[c] # <<>> /\ queue'[c] = Tail(queue[c]) /\ item \in Item /\ item = queue[c][1]
  BY HeadTailProperties DEF Deliver, Types
<1>2. UNCHANGED <<published, scope>>
  BY DEF Deliver
<1>0. \A i, j \in DOMAIN queue'[c] :
         i < j /\ IsChange(queue'[c][i]) /\ IsChange(queue'[c][j])
           => queue'[c][i].n < queue'[c][j].n
  BY <1>1, TailOrdered
<1>3. CASE ~IsChange(item)
  <2>1. received'[c] = received[c]
    BY <1>3 DEF Deliver, IsChange, Types
  <2>2. Sent(c)' = Sent(c) /\ Waiting(c)' = Waiting(c)
    BY <1>1, <1>3, <2>1, WaitingShrinks DEF Sent
  <2> QED
    BY <1>0, <1>2, <2>1, <2>2 DEF OrderOK, Got, InScope
<1>4. CASE IsChange(item)
  <2>1. received'[c] = Append(received[c], item.n) /\ item.n \in Nat
    BY <1>1, <1>4 DEF Deliver, IsChange, Types, Item
  <2>2. /\ Len(received[c]) \in Nat /\ DOMAIN received[c] = 1 .. Len(received[c])
        /\ DOMAIN received'[c] = 1 .. Len(received[c]) + 1
        /\ \A i \in 1 .. Len(received[c]) : received'[c][i] = received[c][i]
        /\ received'[c][Len(received[c]) + 1] = item.n
    BY <2>1, AppendProperties, LenProperties DEF Types
  <2>3. Sent(c)' = Sent(c) \cup {item.n}
    BY <2>2 DEF Sent
  <2>4. Waiting(c) = Waiting(c)' \cup {item.n}
    BY <1>1, <1>4, WaitingShrinks
  <2>5. Got(c)' = Got(c) /\ InScope(c, 1)' = InScope(c, 1)
    BY <1>2, <2>3, <2>4 DEF Got, InScope
  <2>6. \A m \in Waiting(c)' : item.n < m
    <3>1. SUFFICES ASSUME NEW i \in DOMAIN queue'[c], IsChange(queue'[c][i])
                   PROVE  item.n < queue'[c][i].n
      BY DEF Waiting, IsChange
    <3>2. /\ i + 1 \in DOMAIN queue[c] /\ queue'[c][i] = queue[c][i + 1]
          /\ 1 \in DOMAIN queue[c] /\ 1 < i + 1
      BY <1>1, WaitingShrinks
    <3> QED
      BY <1>1, <1>4, <3>1, <3>2 DEF OrderOK
  <2>7. \A m \in Sent(c)', n \in Waiting(c)' : m < n
    BY <2>3, <2>4, <2>6 DEF OrderOK
  <2>8. \A i, j \in DOMAIN received'[c] : i < j => received'[c][i] < received'[c][j]
    BY <2>2, <2>4 DEF OrderOK, Sent
  <2> QED
    BY <1>0, <2>5, <2>7, <2>8 DEF OrderOK
<1> QED
  BY <1>3, <1>4

(* Nothing the client has is touched by what leaves its queue, its scope   *)
(* and what it was sent alone, while events are only added.                *)
LEMMA OrderKept ==
    ASSUME Types, NEW c \in Clients, OrderOK(c), queue'[c] = queue[c],
           received'[c] = received[c], scope'[c] = scope[c],
           \A n \in DOMAIN published : n \in DOMAIN published' /\ published'[n] = published[n]
    PROVE  OrderOK(c)' /\ Got(c)' = Got(c)
<1>1. InScope(c, 1) \subseteq InScope(c, 1)'
  BY DEF InScope
<1>2. Waiting(c)' = Waiting(c) /\ Sent(c)' = Sent(c)
  BY DEF Waiting, Sent, IsChange
<1> QED
  BY <1>1, <1>2 DEF OrderOK, Got, IsChange

(* A message of the system changes nothing, either. *)
LEMMA OrderWithMessage ==
    ASSUME Types, NEW c \in Clients, OrderOK(c), NEW item \in Item, ~IsChange(item),
           queue'[c] = Append(queue[c], item), UNCHANGED <<received, scope, published>>
    PROVE  OrderOK(c)' /\ Got(c)' = Got(c)
<1>1. Waiting(c)' = Waiting(c) /\ Sent(c)' = Sent(c)
  BY WaitingGrows DEF Sent
<1>2. /\ Len(queue[c]) \in Nat /\ DOMAIN queue[c] = 1 .. Len(queue[c])
      /\ DOMAIN queue'[c] = 1 .. Len(queue[c]) + 1
      /\ \A i \in 1 .. Len(queue[c]) : queue'[c][i] = queue[c][i]
      /\ queue'[c][Len(queue[c]) + 1] = item
  BY AppendProperties, LenProperties DEF Types
<1>3. \A i \in DOMAIN queue'[c] : IsChange(queue'[c][i]) =>
         i \in DOMAIN queue[c] /\ queue'[c][i] = queue[c][i]
  BY <1>2
<1> QED
  BY <1>1, <1>3 DEF OrderOK, Got, InScope

(* The newest event goes to the end of the queue. *)
LEMMA OrderWithEvent ==
    ASSUME Types, NEW c \in Clients, OrderOK(c), NEW k,
           published' = Append(published, [kind |-> k, sent |-> TRUE]),
           [kind |-> k, sent |-> TRUE] \in [kind : EventKinds, sent : BOOLEAN],
           Matches(scope[c], k),
           queue'[c] = Append(queue[c], Change(Len(published) + 1)),
           UNCHANGED <<received, scope>>
    PROVE  OrderOK(c)' /\ Got(c)' = Got(c) \cup {Len(published) + 1}
<1> DEFINE N == Len(published) + 1
<1>1. N \in Nat /\ Change(N) \in Item /\ Change(N).n = N /\ IsChange(Change(N))
  BY ItemTypes DEF Types, Change, IsChange
<1>2. /\ DOMAIN published = 1 .. N - 1 /\ DOMAIN published' = 1 .. N
      /\ \A n \in 1 .. N - 1 : published'[n] = published[n]
      /\ published'[N] = [kind |-> k, sent |-> TRUE]
  BY <1>1, AppendProperties, LenProperties DEF Types
<1>3. Waiting(c)' = Waiting(c) \cup {N} /\ Sent(c)' = Sent(c)
  BY <1>1, WaitingGrows DEF Sent
<1>4. \A m \in Got(c) : m \in Nat /\ m < N
  BY <1>1, <1>2 DEF OrderOK, InScope
<1>5. InScope(c, 1) \subseteq InScope(c, 1)' /\ N \in InScope(c, 1)'
  BY <1>1, <1>2 DEF InScope
<1>6. /\ Len(queue[c]) \in Nat /\ DOMAIN queue[c] = 1 .. Len(queue[c])
      /\ DOMAIN queue'[c] = 1 .. Len(queue[c]) + 1
      /\ \A i \in 1 .. Len(queue[c]) : queue'[c][i] = queue[c][i]
      /\ queue'[c][Len(queue[c]) + 1].n = N
  BY <1>1, AppendProperties, LenProperties DEF Types
<1>7. \A i \in DOMAIN queue[c] : IsChange(queue[c][i]) => queue[c][i].n < N
  BY <1>4 DEF Got, Waiting
<1>8. \A i, j \in DOMAIN queue'[c] :
         i < j /\ IsChange(queue'[c][i]) /\ IsChange(queue'[c][j])
           => queue'[c][i].n < queue'[c][j].n
  <2> SUFFICES ASSUME NEW i \in DOMAIN queue'[c], NEW j \in DOMAIN queue'[c], i < j,
                      IsChange(queue'[c][i]), IsChange(queue'[c][j])
               PROVE  queue'[c][i].n < queue'[c][j].n
    OBVIOUS
  <2>1. i \in DOMAIN queue[c] /\ queue'[c][i] = queue[c][i]
    BY <1>6
  <2>2. CASE j = Len(queue[c]) + 1
    BY <2>1, <2>2, <1>6, <1>7
  <2>3. CASE j # Len(queue[c]) + 1
    <3>1. j \in DOMAIN queue[c] /\ queue'[c][j] = queue[c][j]
      BY <2>3, <1>6
    <3> QED
      BY <2>1, <3>1 DEF OrderOK
  <2> QED
    BY <2>2, <2>3
<1>9. \A m \in Sent(c)', n \in Waiting(c)' : m < n
  BY <1>3, <1>4 DEF OrderOK, Got
<1> QED
  BY <1>3, <1>5, <1>8, <1>9 DEF OrderOK, Got

(* What a broadcast does to one client. *)
LEMMA BroadcastCases ==
    ASSUME Types, ConnInv, NEW k \in EventKinds, Broadcast(k), NEW c \in Clients
    PROVE  /\ published' = Append(published, [kind |-> k, sent |-> ~engaged])
           /\ Len(published) \in Nat
           /\ DOMAIN published = 1 .. Len(published)
           /\ DOMAIN published' = 1 .. Len(published) + 1
           /\ \A n \in DOMAIN published : n \in DOMAIN published'
                                         /\ published'[n] = published[n]
           /\ published'[Len(published) + 1] = [kind |-> k, sent |-> ~engaged]
           /\ UNCHANGED <<received, scope, peer>>
           /\ \/ /\ c \notin Targets(k)
                 /\ queue'[c] = queue[c] /\ dropped'[c] = dropped[c]
              \/ /\ c \in Targets(k)
                 /\ queue'[c] = Append(queue[c], Change(Len(published) + 1))
                 /\ dropped'[c] = dropped[c]
              \/ /\ c \in Targets(k)
                 /\ queue'[c] = queue[c] /\ dropped'[c] = dropped[c] + 1
<1>1. /\ published' = Append(published, [kind |-> k, sent |-> ~engaged])
      /\ [kind |-> k, sent |-> ~engaged] \in [kind : EventKinds, sent : BOOLEAN]
      /\ published \in Seq([kind : EventKinds, sent : BOOLEAN])
  BY DEF Broadcast, Types
<1>2. /\ Len(published) \in Nat /\ DOMAIN published = 1 .. Len(published)
      /\ DOMAIN published' = 1 .. Len(published) + 1
      /\ \A n \in DOMAIN published : n \in DOMAIN published'
                                    /\ published'[n] = published[n]
      /\ published'[Len(published) + 1] = [kind |-> k, sent |-> ~engaged]
  BY <1>1, AppendProperties, LenProperties
<1>3. Change(Len(published) + 1) \in Item
  BY <1>2, ItemTypes
<1>4. queue'[c] = IF c \in Targets(k) /\ Len(queue[c]) < MaxQueue
                  THEN Append(queue[c], Change(Len(published) + 1)) ELSE queue[c]
  BY <1>3, OfferAdds DEF Broadcast
<1>5. dropped'[c] = dropped[c] + (IF c \in Struck(Targets(k)) THEN 1 ELSE 0)
  BY DEF Broadcast
<1>6. UNCHANGED <<received, scope, peer>>
  BY DEF Broadcast
<1>7. dropped[c] \in Nat /\ (c \in Struck(Targets(k)) => c \in Targets(k) /\ Len(queue[c]) = MaxQueue)
  BY DEF Types, Struck
<1>8. Len(queue[c]) \in Nat /\ Len(queue[c]) <= MaxQueue
  BY DEF Types, ConnInv, ConnOK
<1> QED
  BY <1>1, <1>2, <1>4, <1>5, <1>6, <1>7, <1>8, BrokerAssumption DEF Struck

(* A message of the system, or a ping, goes to some of the queues. *)
LEMMA MessageKeeps ==
    ASSUME Types, NEW c \in Clients, OrderOK(c), NEW S,
           NEW t \in {"health", "engaged", "released", "ping"},
           queue' = Offer(S, Message(t)), UNCHANGED <<received, scope, published>>
    PROVE  OrderOK(c)' /\ Got(c)' = Got(c)
<1>1. Message(t) \in Item /\ ~IsChange(Message(t))
  BY ItemTypes DEF Message, IsChange
<1>2. \/ queue'[c] = queue[c]
      \/ queue'[c] = Append(queue[c], Message(t))
  BY <1>1, OfferAdds
<1>3. CASE queue'[c] = queue[c]
  BY <1>3, OrderKept
<1>4. CASE queue'[c] = Append(queue[c], Message(t))
  BY <1>1, <1>4, OrderWithMessage
<1> QED
  BY <1>2, <1>3, <1>4

(* Steps other than broadcasts keep the order, and a registered client     *)
(* whose peer is there keeps what it got.                                  *)
LEMMA QuietStep ==
    ASSUME Types, ConnInv, NEW c \in Clients, OrderOK(c), [Next]_vars,
           \A k \in EventKinds : ~Broadcast(k)
    PROVE  /\ OrderOK(c)' /\ published' = published
           /\ c \in registered' /\ peer'[c] =>
                \/ c \in registered /\ peer[c] /\ Got(c)' = Got(c) /\ scope'[c] = scope[c]
                   /\ dropped'[c] = dropped[c]
                \/ Got(c)' = {}
<1>1. CASE UNCHANGED vars
  BY <1>1, OrderKept DEF vars, brokerVars
<1>2. CASE Health \/ Engage \/ Release
  BY <1>2, MessageKeeps DEF Health, Engage, Release, BroadcastSystem
<1>3. ASSUME NEW d \in Clients, NEW q \in Queries, Subscribe(d, q)
      PROVE  /\ OrderOK(c)' /\ published' = published
             /\ c = d => Got(c)' = {}
             /\ c # d => /\ Got(c)' = Got(c) /\ scope'[c] = scope[c]
                         /\ (c \in registered' <=> c \in registered)
                         /\ peer'[c] = peer[c] /\ dropped'[c] = dropped[c]
  <2>1. UNCHANGED <<queue, received, published, dropped>>
    BY <1>3 DEF Subscribe
  <2>2. CASE c = d
    <3>1. queue'[c] = <<>> /\ received'[c] = <<>>
      BY <1>3, <2>1, <2>2 DEF Subscribe, ConnInv, ConnOK
    <3> QED
      BY <2>1, <2>2, <3>1 DEF OrderOK, Got, Waiting, Sent
  <2>3. CASE c # d
    <3>1. /\ scope'[c] = scope[c] /\ peer'[c] = peer[c]
          /\ (c \in registered' <=> c \in registered)
      BY <1>3, <2>3 DEF Subscribe, Types
    <3> QED
      BY <2>1, <2>3, <3>1, OrderKept
  <2> QED
    BY <2>1, <2>2, <2>3
<1>4. ASSUME NEW d \in Clients, Hello(d) \/ HelloFails(d) \/ PeerLeaves(d) \/ Notice(d)
      PROVE  /\ OrderOK(c)' /\ Got(c)' = Got(c) /\ UNCHANGED <<published, scope, dropped>>
             /\ registered' \subseteq registered /\ (peer'[c] => peer[c])
  <2>1. /\ UNCHANGED <<queue, received, published, scope, dropped>>
        /\ registered' \subseteq registered /\ (peer'[c] => peer[c])
    BY <1>4 DEF Hello, HelloFails, PeerLeaves, Notice, Close, brokerVars, Types
  <2> QED
    BY <2>1, OrderKept
<1>5. ASSUME NEW d \in Clients, Ping(d)
      PROVE  /\ OrderOK(c)' /\ Got(c)' = Got(c)
             /\ UNCHANGED <<published, scope, dropped, registered, peer>>
  BY <1>5, MessageKeeps DEF Ping
<1>6. ASSUME NEW d \in Clients, Deliver(d)
      PROVE  /\ OrderOK(c)' /\ Got(c)' = Got(c)
             /\ UNCHANGED <<published, scope, dropped, registered, peer>>
  <2>1. c # d => queue'[c] = queue[c] /\ received'[c] = received[c]
    BY <1>6 DEF Deliver, Types
  <2> QED
    BY <1>6, <2>1, OrderKept, DeliverKeeps DEF Deliver
<1>7. ASSUME NEW d \in Clients, SendFails(d)
      PROVE  /\ OrderOK(c)' /\ UNCHANGED <<published, scope, dropped, peer>>
             /\ registered' = registered \ {d}
             /\ c # d => Got(c)' = Got(c)
  <2>1. UNCHANGED <<published, scope, dropped, peer, received>> /\ registered' = registered \ {d}
    BY <1>7 DEF SendFails, Close
  <2>2. c # d => queue'[c] = queue[c]
    BY <1>7 DEF SendFails, Types
  <2>3. c = d => OrderOK(c)'
    <3> SUFFICES ASSUME c = d PROVE OrderOK(c)'
      OBVIOUS
    <3>1. queue[c] # <<>> /\ queue'[c] = Tail(queue[c])
      BY <1>7 DEF SendFails, Types
    <3>2. Waiting(c)' \subseteq Waiting(c) /\ Sent(c)' = Sent(c)
      BY <2>1, <3>1, WaitingShrinks DEF Sent
    <3>3. \A i, j \in DOMAIN queue'[c] :
             i < j /\ IsChange(queue'[c][i]) /\ IsChange(queue'[c][j])
               => queue'[c][i].n < queue'[c][j].n
      BY <3>1, TailOrdered
    <3> QED
      BY <2>1, <3>2, <3>3 DEF OrderOK, Got, InScope
  <2> QED
    BY <2>1, <2>2, <2>3, OrderKept
<1> QED
  BY <1>1, <1>2, <1>3, <1>4, <1>5, <1>6, <1>7 DEF Next, Connection, vars, brokerVars, Health, Engage, Release

(* Every step keeps what a client has, and what waits, in order.           *)
LEMMA OrderStep ==
    ASSUME Types, ConnInv, InOrderInScope, [Next]_vars PROVE InOrderInScope'
<1> SUFFICES ASSUME NEW c \in Clients PROVE OrderOK(c)'
  BY DEF InOrderInScope, OrderOK, IsChange
<1>0. OrderOK(c)
  BY DEF InOrderInScope, OrderOK
<1>1. CASE \A k \in EventKinds : ~Broadcast(k)
  BY <1>0, <1>1, QuietStep
<1>2. ASSUME NEW k \in EventKinds, Broadcast(k) PROVE OrderOK(c)'
  <2>1. CASE queue'[c] = queue[c]
    <3>1. /\ received'[c] = received[c] /\ scope'[c] = scope[c]
          /\ \A n \in DOMAIN published : n \in DOMAIN published'
                                         /\ published'[n] = published[n]
      BY <1>2, BroadcastCases
    <3> QED
      BY <1>0, <2>1, <3>1, OrderKept
  <2>2. CASE c \in Targets(k) /\ queue'[c] = Append(queue[c], Change(Len(published) + 1))
    <3>1. ~engaged /\ Matches(scope[c], k)
      BY <2>2 DEF Targets
    <3> QED
      BY <1>0, <1>2, <2>2, <3>1, BroadcastCases, OrderWithEvent
  <2> QED
    BY <1>2, <2>1, <2>2, BroadcastCases
<1> QED
  BY <1>1, <1>2

(* For any connections, filters and bounds, whatever the kill switch does  *)
(* meanwhile: a client gets events of its scope, in order and once.        *)
THEOREM OrderHolds == Spec => []InOrderInScope
<1>1. Init => Types /\ ConnInv /\ InOrderInScope
  BY InitOK DEF Init, InOrderInScope, Got, Sent, Waiting
<1>2. Types /\ ConnInv /\ InOrderInScope /\ [Next]_vars
        => (Types /\ ConnInv /\ InOrderInScope)'
  BY TypeStep, ConnStep, OrderStep
<1> QED
  BY <1>1, <1>2, PTL DEF Spec

-----------------------------------------------------------------------------
(* What a client loses.                                                    *)

Lost(c, n) == InScope(c, n) \ Got(c)

(* A client lost finitely many events.                                     *)
LEMMA LostFinite == ASSUME Types, NEW c, NEW n PROVE IsFiniteSet(Lost(c, n))
<1>1. IsFiniteSet(DOMAIN published)
  BY LenProperties, FS_Interval DEF Types
<1> QED
  BY <1>1, FS_Subset DEF Lost, InScope

(* Every step counts what a client loses as a strike.                      *)
LEMMA LossStep ==
    ASSUME Types, ConnInv, InOrderInScope, LossesCounted, [Next]_vars
    PROVE  LossesCounted'
<1> SUFFICES ASSUME NEW c \in registered', peer'[c], NEW n \in Got(c)'
             PROVE  Cardinality(Lost(c, n)') <= dropped'[c]
  BY DEF LossesCounted, Lost
<1>0. c \in Clients /\ OrderOK(c) /\ dropped[c] \in Nat /\ Types'
  BY TypeStep DEF Types, InOrderInScope, OrderOK
<1>1. CASE \A k \in EventKinds : ~Broadcast(k)
  <2>1. published' = published /\ Got(c)' # {}
    BY <1>0, <1>1, QuietStep
  <2>2. /\ c \in registered /\ peer[c] /\ Got(c)' = Got(c) /\ scope'[c] = scope[c]
        /\ dropped'[c] = dropped[c]
    BY <1>0, <1>1, <2>1, QuietStep
  <2>3. Lost(c, n)' = Lost(c, n)
    BY <2>1, <2>2 DEF Lost, InScope
  <2> QED
    BY <2>2, <2>3 DEF LossesCounted, Lost
<1>2. ASSUME NEW k \in EventKinds, Broadcast(k)
      PROVE  Cardinality(Lost(c, n)') <= dropped'[c]
  <2>0. PICK N \in Nat :
           /\ N = Len(published) + 1 /\ DOMAIN published = 1 .. N - 1 /\ DOMAIN published' = 1 .. N
           /\ \A m \in DOMAIN published : m \in DOMAIN published'
                                         /\ published'[m] = published[m]
           /\ published'[N] = [kind |-> k, sent |-> ~engaged]
           /\ received'[c] = received[c] /\ scope'[c] = scope[c] /\ peer'[c] = peer[c]
    <3>1. /\ Len(published) \in Nat /\ Len(published) + 1 \in Nat
          /\ Len(published) + 1 - 1 = Len(published)
      BY <1>0, <1>2, LenProperties DEF Types
    <3>2. /\ DOMAIN published = 1 .. (Len(published) + 1) - 1
          /\ DOMAIN published' = 1 .. Len(published) + 1
          /\ published'[Len(published) + 1] = [kind |-> k, sent |-> ~engaged]
      BY <1>0, <1>2, <3>1, BroadcastCases
    <3>3. \A m \in DOMAIN published : m \in DOMAIN published'
                                      /\ published'[m] = published[m]
      BY <1>0, <1>2, BroadcastCases
    <3>4. received'[c] = received[c] /\ scope'[c] = scope[c] /\ peer'[c] = peer[c]
      BY <1>0, <1>2, BroadcastCases
    <3> QED
      BY <3>1, <3>2, <3>3, <3>4
  <2>1. c \in registered /\ peer[c]
    BY <1>2, <2>0 DEF Broadcast
  <2>2. \A m \in Got(c) : m \in DOMAIN published /\ m < N
    BY <1>0, <2>0 DEF OrderOK, InScope
  <2>3. \A m : InScope(c, m)' \subseteq InScope(c, m) \cup {N}
    BY <2>0 DEF InScope
  <2>4. CASE c \notin Targets(k)
    <3>1. ~(published'[N].sent /\ Matches(scope'[c], published'[N].kind))
      <4>1. engaged \/ ~Matches(scope[c], k)
        BY <2>1, <2>4 DEF Targets
      <4>2. published'[N].sent = ~engaged /\ published'[N].kind = k
        BY <2>0
      <4> QED
        BY <2>0, <4>1, <4>2
    <3>2. queue'[c] = queue[c] /\ dropped'[c] = dropped[c]
      BY <1>0, <1>2, <2>4, BroadcastCases
    <3>3. Got(c)' = Got(c)
      BY <1>0, <2>0, <3>2, OrderKept
    <3>4. Lost(c, n)' \subseteq Lost(c, n)
      BY <2>0, <2>3, <3>1, <3>3 DEF Lost, InScope
    <3>5. Cardinality(Lost(c, n)) <= dropped[c]
      BY <2>1, <3>3 DEF LossesCounted, Lost
    <3>6. Cardinality(Lost(c, n)') <= Cardinality(Lost(c, n))
      BY <3>4, LostFinite, FS_Subset
    <3>7. Cardinality(Lost(c, n)) \in Nat /\ Cardinality(Lost(c, n)') \in Nat
      BY <3>4, LostFinite, FS_Subset, FS_CardinalityType
    <3> QED
      BY <1>0, <3>2, <3>5, <3>6, <3>7
  <2>5. CASE c \in Targets(k) /\ queue'[c] = queue[c] /\ dropped'[c] = dropped[c] + 1
    <3>1. Got(c)' = Got(c)
      BY <1>0, <2>0, <2>5, OrderKept
    <3>2. Lost(c, n)' \subseteq Lost(c, n) \cup {N}
      BY <2>3, <3>1 DEF Lost
    <3>3. Cardinality(Lost(c, n)) <= dropped[c]
      BY <2>1, <3>1 DEF LossesCounted, Lost
    <3>4. /\ IsFiniteSet(Lost(c, n) \cup {N})
          /\ Cardinality(Lost(c, n) \cup {N}) <= Cardinality(Lost(c, n)) + 1
          /\ Cardinality(Lost(c, n)) \in Nat
      <4>1. IsFiniteSet(Lost(c, n)) /\ Cardinality(Lost(c, n)) \in Nat
        BY LostFinite, FS_CardinalityType
      <4>2. /\ IsFiniteSet(Lost(c, n) \cup {N})
            /\ Cardinality(Lost(c, n) \cup {N}) =
                 IF N \in Lost(c, n) THEN Cardinality(Lost(c, n))
                                    ELSE Cardinality(Lost(c, n)) + 1
        BY <4>1, FS_AddElement
      <4> HIDE DEF Lost
      <4> QED
        BY <4>1, <4>2
    <3>5. /\ Cardinality(Lost(c, n)') <= Cardinality(Lost(c, n) \cup {N})
          /\ Cardinality(Lost(c, n)') \in Nat
          /\ Cardinality(Lost(c, n) \cup {N}) \in Nat
      BY <3>2, <3>4, FS_Subset, FS_CardinalityType
    <3> QED
      BY <1>0, <2>5, <3>3, <3>4, <3>5
  <2>6. CASE /\ c \in Targets(k) /\ queue'[c] = Append(queue[c], Change(Len(published) + 1))
             /\ dropped'[c] = dropped[c]
    <3>1. ~engaged /\ Matches(scope[c], k)
      BY <2>6 DEF Targets
    <3>2. Got(c)' = Got(c) \cup {N}
      BY <1>0, <1>2, <2>0, <2>6, <3>1, BroadcastCases, OrderWithEvent
    <3>3. CASE n = N
      <4>1. Lost(c, n)' = {}
        BY <2>0, <3>2, <3>3 DEF Lost, InScope
      <4> QED
        BY <1>0, <2>6, <4>1, FS_EmptySet
    <3>4. CASE n \in Got(c)
      <4>1. Lost(c, n)' \subseteq Lost(c, n)
        BY <2>3, <3>2 DEF Lost
      <4> QED
        <5>1. Cardinality(Lost(c, n)) <= dropped[c]
          BY <2>1, <3>4 DEF LossesCounted, Lost
        <5>2. /\ Cardinality(Lost(c, n)') <= Cardinality(Lost(c, n))
              /\ Cardinality(Lost(c, n)) \in Nat /\ Cardinality(Lost(c, n)') \in Nat
          BY <4>1, LostFinite, FS_Subset, FS_CardinalityType
        <5> QED
          BY <1>0, <2>6, <5>1, <5>2
    <3> QED
      BY <3>2, <3>3, <3>4
  <2> QED
    BY <1>0, <1>2, <2>4, <2>5, <2>6, BroadcastCases
<1> QED
  BY <1>1, <1>2

(* For any connections, filters and bounds: a registered client misses no  *)
(* more events of its scope than it has strikes, from the first one it got *)
(* on.                                                                     *)
THEOREM LossesHold == Spec => []LossesCounted
<1>1. Init => Types /\ ConnInv /\ LossesCounted
  BY InitOK DEF Init, LossesCounted
<1>2. Types /\ ConnInv /\ InOrderInScope /\ LossesCounted /\ [Next]_vars
        => (Types /\ ConnInv /\ LossesCounted)'
  BY TypeStep, ConnStep, LossStep
<1> QED
  BY <1>1, <1>2, OrderHolds, PTL DEF Spec
=============================================================================
