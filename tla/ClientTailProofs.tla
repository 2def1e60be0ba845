--------------------------- MODULE ClientTailProofs ---------------------------
(***************************************************************************)
(* Theorems about ClientTail, for any orders, any page of a replay and any *)
(* number of writes, pauses and disconnects.                               *)
(***************************************************************************)
EXTENDS ClientTail, SequenceTheorems, TLAPS

Event == [order : Orders, ver : Nat, urgent : BOOLEAN]

Types == /\ version \in [Orders -> Nat]
         /\ changes \in Seq(Orders)
         /\ step \in {"idle", "insert", "stored"}
         /\ step # "idle" => taken \in Event
         /\ log \in Seq(Event)
         /\ waiting \in [Orders -> Nat]
         /\ pc \in {"boot", "reading", "loaded", "live", "lost", "replayed"}
         /\ headSeq \in Nat
         /\ toRead \subseteq Orders
         /\ view = [o \in Orders |-> view[o]]
         /\ queue \in Seq(Nat)
         /\ since \in Nat /\ cursor \in Nat
         /\ behind \subseteq Orders /\ unbroken \in BOOLEAN
         /\ excused \subseteq Orders

(* n is the seq of the newest event of o in lg. *)
Newest(lg, o, n) == /\ n \in DOMAIN lg /\ lg[n].order = o
                    /\ \A k \in DOMAIN lg : lg[k].order = o => k <= n

(* The log, and the event that is on its way to it or from it. *)
LogOK ==
    /\ \A n \in DOMAIN log : log[n].ver <= version[log[n].order]
    /\ step = "insert" => taken.ver <= version[taken.order]
    /\ step = "stored" => Len(log) > 0 /\ log[Len(log)] = taken
    /\ \A o \in Orders :
         (\E n \in DOMAIN log : log[n].order = o) => \E n \in DOMAIN log : Newest(log, o, n)
    /\ \A i \in DOMAIN queue : queue[i] \in DOMAIN log

(* The event that append has stored and not yet returned. *)
Returning(o) == step = "stored" /\ taken.order = o

(* What waits for an order is its newest event. *)
WaitOK ==
    \A o \in Orders : waiting[o] # 0 =>
        /\ waiting[o] \in DOMAIN log /\ log[waiting[o]].order = o
        /\ o \notin excused /\ ~Returning(o) => Newest(log, o, waiting[o])

(* Nothing of o is in the queue behind position i. *)
LastIn(o, i) == \A j \in DOMAIN queue : j > i => log[queue[j]].order # o

(* What a connected client has a right to. *)
Owed(n) == n > since \/ (unbroken /\ n <= headSeq)

(* The client shows event n of o; an order in its snapshot may be newer.   *)
Shows(o, n) == /\ view[o] \in Nat /\ view[o] >= log[n].ver
               /\ n > since => view[o] = log[n].ver

(* Event n of o is on its way to the client, or what the client shows. *)
OnItsWay(o, n) ==
    \/ Returning(o)
    \/ waiting[o] = n
    \/ \E i \in DOMAIN queue : queue[i] = n /\ LastIn(o, i)
    \/ Shows(o, n) /\ LastIn(o, 0)

(* A connected client is or gets up to date with what came since it        *)
(* connected, and with what the cursor of its snapshot counts.             *)
LiveOK ==
    pc = "live" =>
      \A o \in Orders \ excused : \A n \in DOMAIN log :
         Newest(log, o, n) /\ Owed(n) => OnItsWay(o, n)

(* What the client that reads a snapshot has read, or has still to read.   *)
ReadOK ==
    /\ pc \in {"boot", "reading", "loaded"} => \A o \in Orders : view[o] \in Nat
    /\ pc = "loaded" => toRead = {}
    /\ pc \in {"reading", "loaded"} =>
      /\ headSeq <= LastSeq
      /\ \A n \in DOMAIN log :
           n <= headSeq => \/ log[n].order \in toRead
                           \/ view[log[n].order] >= log[n].ver
      /\ headSeq > Len(log) => \/ taken.order \in toRead
                               \/ view[taken.order] >= taken.ver

(* What append has not returned has not been seen by anyone.               *)
SeqOK ==
    /\ cursor <= Len(log)
    /\ step = "stored" =>
         /\ cursor < Len(log)
         /\ \A o \in Orders : waiting[o] < Len(log)
         /\ \A i \in DOMAIN queue : queue[i] < Len(log)

(* What a disconnected client lacks is ahead of its cursor, where a replay *)
(* begins.                                                                 *)
LostOK ==
    pc = "lost" =>
      \A o \in Orders \ (excused \cup behind) : \A n \in DOMAIN log :
         Newest(log, o, n) /\ n > since => n > cursor \/ view[o] = log[n].ver

(* Where a client is that has not lost a connection yet. *)
PhaseOK == unbroken => pc \in {"boot", "reading", "loaded", "live"}

Inv == /\ Types /\ LogOK /\ WaitOK /\ LiveOK /\ ReadOK
       /\ SeqOK /\ LostOK /\ PhaseOK

-----------------------------------------------------------------------------
(* The types of what the log holds.                                        *)
LEMMA LogFacts ==
    ASSUME Types
    PROVE  /\ Len(log) \in Nat /\ DOMAIN log = 1..Len(log)
           /\ \A n \in DOMAIN log : /\ log[n] \in Event
                                    /\ log[n].order \in Orders /\ log[n].ver \in Nat
<1>1. Len(log) \in Nat /\ DOMAIN log = 1..Len(log)
  BY DEF Types
<1>2. \A n \in DOMAIN log : log[n] \in Event
  BY <1>1 DEF Types
<1> QED
  BY <1>1, <1>2 DEF Event

(* The newest event of an order is one. *)
LEMMA OneNewest ==
    ASSUME Types, NEW o, NEW m, NEW n, Newest(log, o, m), Newest(log, o, n)
    PROVE  m = n
BY LogFacts DEF Newest

(* The newest event of an order is its last. *)
LEMMA NewestIsMax ==
    ASSUME Types, NEW o, NEW n, Newest(log, o, n)
    PROVE  n \in SeqsOf(o) /\ Max(SeqsOf(o)) = n
<1>1. n \in SeqsOf(o) /\ \A k \in SeqsOf(o) : n >= k
  BY LogFacts DEF SeqsOf, Newest
<1>2. \A k \in SeqsOf(o) : k \in Nat
  BY LogFacts DEF SeqsOf
<1>3. \A x \in SeqsOf(o) : (\A y \in SeqsOf(o) : x >= y) => x = n
  BY <1>1, <1>2
<1> QED
  BY <1>1, <1>3 DEF Max

(* Logged, by the newest event. *)
LEMMA LoggedIs ==
    ASSUME Types, NEW o \in Orders, NEW n, Newest(log, o, n)
    PROVE  Logged(o) = log[n].ver
BY NewestIsMax DEF Logged

(* No step but Insert touches the log. *)
LEMMA QuietLog ==
    ASSUME [Next]_vars, ~Insert
    PROVE  UNCHANGED log
BY DEF Next, Pipeline, Client, Listen, Write, Take, Return, Flush, ReadHead, ReadOrder,
       Loaded, SnapshotFails, Connect, Receive, Disconnect, Replay, ReplayFails, vars,
       pipeVars

(* What is offered to a client. *)
LEMMA EmitIs ==
    ASSUME Types, NEW n \in Nat, queue' = Emit(n)
    PROVE  /\ queue' \in Seq(Nat)
           /\ pc # "live" => queue' = queue
           /\ pc = "live" => /\ DOMAIN queue = 1..Len(queue) /\ Len(queue) \in Nat
                             /\ DOMAIN queue' = 1..(Len(queue) + 1)
                             /\ queue'[Len(queue) + 1] = n
                             /\ \A i \in DOMAIN queue : queue'[i] = queue[i]
BY AppendProperties DEF Types, Emit

(* An insert adds the event in hand at the end of the log.                 *)
LEMMA InsertGrows ==
    ASSUME Types, Insert
    PROVE  /\ taken \in Event /\ log' \in Seq(Event)
           /\ Len(log') = Len(log) + 1 /\ DOMAIN log' = 1..(Len(log) + 1)
           /\ log'[Len(log) + 1] = taken
           /\ \A n \in DOMAIN log : log'[n] = log[n]
BY AppendProperties DEF Types, Insert

(* What is the newest after an insert. *)
LEMMA NewestAfter ==
    ASSUME Types, Insert, NEW o, NEW n
    PROVE  Newest(log', o, n) <=>
             IF o = taken.order THEN n = Len(log) + 1 ELSE Newest(log, o, n)
<1>1. Len(log) \in Nat /\ DOMAIN log = 1..Len(log)
  BY LogFacts
<1>2. /\ DOMAIN log' = 1..(Len(log) + 1) /\ log'[Len(log) + 1] = taken
      /\ \A k \in DOMAIN log : log'[k] = log[k]
  BY InsertGrows
<1>3. CASE o = taken.order
  BY <1>1, <1>2, <1>3 DEF Newest
<1>4. CASE o # taken.order
  <2>1. ASSUME Newest(log', o, n) PROVE Newest(log, o, n)
    BY <1>1, <1>2, <1>4, <2>1 DEF Newest
  <2>2. ASSUME Newest(log, o, n) PROVE Newest(log', o, n)
    BY <1>1, <1>2, <1>4, <2>2 DEF Newest
  <2> QED
    BY <1>4, <2>1, <2>2
<1> QED
  BY <1>3, <1>4

-----------------------------------------------------------------------------
(* Every step keeps the types.                                             *)
LEMMA TypeStep == ASSUME Types, LogOK, [Next]_vars PROVE Types'
<1>1. CASE UNCHANGED vars
  BY <1>1 DEF vars, pipeVars, clientVars, Types
<1>2. ASSUME NEW o \in Orders, Write(o) PROVE Types'
  <2>1. changes' \in Seq(Orders)
    BY <1>2, AppendProperties DEF Write, Types
  <2>2. /\ version' = [version EXCEPT ![o] = @ + 1]
        /\ UNCHANGED <<step, taken, log, waiting, clientVars, queue, excused>>
    BY <1>2 DEF Write
  <2> QED
    BY <2>1, <2>2 DEF clientVars, Types
<1>3. ASSUME NEW urgent \in BOOLEAN, Take(urgent) PROVE Types'
  <2>1. Head(changes) \in Orders /\ Tail(changes) \in Seq(Orders)
    BY <1>3, HeadTailProperties DEF Take, Types
  <2>2. UNCHANGED <<version, log, waiting, clientVars, queue, excused>>
        /\ changes' = Tail(changes)
    BY <1>3 DEF Take
  <2>3. step' \in {"idle", "insert", "stored"} /\ (step' # "idle" => taken' \in Event)
    BY <1>3, <2>1 DEF Take, Types, Event
  <2> QED
    BY <2>1, <2>2, <2>3 DEF clientVars, Types
<1>4. CASE Insert
  <2>1. log' \in Seq(Event)
    BY <1>4, InsertGrows
  <2> QED
    BY <1>4, <2>1 DEF Insert, clientVars, Types
<1>5. CASE Return
  <2>1. taken \in Event /\ taken.order \in Orders /\ Len(log) \in Nat
    BY <1>5 DEF Return, Types, Event
  <2>2. /\ queue' \in Seq(Nat) /\ waiting' \in [Orders -> Nat]
        /\ excused' \subseteq Orders
    BY <1>5, <2>1, EmitIs DEF Return, Latest, Types
  <2> QED
    BY <1>5, <2>2 DEF Return, clientVars, Types
<1>6. ASSUME NEW o \in Orders, Flush(o) PROVE Types'
  <2>1. waiting[o] \in Nat
    BY DEF Types
  <2>2. queue' \in Seq(Nat)
    BY <1>6, <2>1, EmitIs DEF Flush
  <2> QED
    BY <1>6, <2>2 DEF Flush, clientVars, Types
<1>7. CASE ReadHead \/ Loaded \/ SnapshotFails
  BY <1>7, LogFacts DEF ReadHead, Loaded, SnapshotFails, Watermark, LastSeq, pipeVars, Types
<1>8. ASSUME NEW o \in Orders, ReadOrder(o) PROVE Types'
  BY <1>8 DEF ReadOrder, pipeVars, Types
<1>9. CASE Connect \/ Disconnect \/ Replay \/ ReplayFails
  <2>1. /\ pc' \in {"live", "lost", "replayed"} /\ since' \in Nat
        /\ queue' \in Seq(Nat)
    <3>1. Len(log) \in Nat /\ since \in Nat /\ queue \in Seq(Nat) /\ <<>> \in Seq(Nat)
      BY EmptySeq DEF Types
    <3>2. \/ pc' = "live" /\ since' = Len(log) /\ queue' = <<>>
          \/ pc' = "lost" /\ since' = since /\ queue' = <<>>
          \/ pc' = "replayed" /\ since' = since /\ queue' = queue
      BY <1>9 DEF Connect, Disconnect, Replay, ReplayFails
    <3> QED
      BY <3>1, <3>2
  <2>2. UNCHANGED <<pipeVars, headSeq, toRead, cursor, excused>>
    BY <1>9 DEF Connect, Disconnect, Replay, ReplayFails
  <2>3. view' = [o \in Orders |-> view'[o]]
    BY <1>9 DEF Connect, Disconnect, Replay, ReplayFails, Types
  <2>4. behind' \subseteq Orders /\ unbroken' \in BOOLEAN
    BY <1>9 DEF Connect, Disconnect, Replay, ReplayFails, Types
  <2> QED
    BY <2>1, <2>2, <2>3, <2>4 DEF pipeVars, Types
<1>10. ASSUME NEW paused \in BOOLEAN, Receive(paused) PROVE Types'
  <2>1. Tail(queue) \in Seq(Nat) /\ Head(queue) \in DOMAIN log
    BY <1>10, HeadTailProperties DEF Receive, Types, LogOK
  <2>2. log[Head(queue)].order \in Orders
    BY <2>1, LogFacts
  <2> QED
    BY <1>10, <2>1, <2>2 DEF Receive, pipeVars, Types
<1> QED
  BY <1>1, <1>2, <1>3, <1>4, <1>5, <1>6, <1>7, <1>8, <1>9, <1>10
  DEF Next, Pipeline, Client, Listen

(* Steps that leave the log, the event on its way and the queue as they    *)
(* are leave LogOK, but for the versions.                                  *)
LEMMA LogStep == ASSUME Types, LogOK, WaitOK, [Next]_vars PROVE LogOK'
<1> DEFINE Quiet == UNCHANGED <<version, step, taken, log, queue>>
<1>1. ASSUME Quiet PROVE LogOK'
  BY <1>1 DEF LogOK, Newest
<1>2. CASE UNCHANGED vars
  BY <1>1, <1>2 DEF vars, pipeVars
<1>3. ASSUME NEW o \in Orders, Write(o) PROVE LogOK'
  <2>1. /\ version' = [version EXCEPT ![o] = @ + 1]
        /\ UNCHANGED <<step, taken, log, queue>>
    BY <1>3 DEF Write
  <2>2. \A p \in Orders : version[p] \in Nat /\ version'[p] \in Nat /\ version[p] <= version'[p]
    BY <2>1 DEF Types
  <2>3. \A n \in DOMAIN log : log[n].ver <= version'[log[n].order]
    BY <2>2, LogFacts DEF LogOK
  <2>4. step = "insert" => taken.ver <= version'[taken.order]
    BY <2>2 DEF LogOK, Types, Event
  <2> QED
    BY <2>1, <2>3, <2>4 DEF LogOK, Newest
<1>4. ASSUME NEW urgent \in BOOLEAN, Take(urgent) PROVE LogOK'
  <2>1. UNCHANGED <<version, log, queue>> /\ step = "idle"
    BY <1>4 DEF Take
  <2>2. Head(changes) \in Orders
    BY <1>4, HeadTailProperties DEF Take, Types
  <2>3. step' \in {"idle", "insert"}
        /\ (step' = "insert" => taken' = [order |-> Head(changes),
                                          ver |-> version[Head(changes)],
                                          urgent |-> urgent])
    BY <1>4, <2>1 DEF Take
  <2>4. step' = "insert" => taken'.ver <= version'[taken'.order]
    BY <2>1, <2>2, <2>3 DEF Types
  <2> QED
    BY <2>1, <2>3, <2>4 DEF LogOK, Newest
<1>5. CASE Insert
  <2>1. /\ taken \in Event /\ Len(log') = Len(log) + 1 /\ DOMAIN log' = 1..(Len(log) + 1)
        /\ log'[Len(log) + 1] = taken
        /\ \A n \in DOMAIN log : log'[n] = log[n]
    BY <1>5, InsertGrows
  <2>2. Len(log) \in Nat /\ DOMAIN log = 1..Len(log)
    BY LogFacts
  <2>3. step = "insert" /\ step' = "stored" /\ UNCHANGED <<version, taken, queue>>
    BY <1>5 DEF Insert, clientVars
  <2>4. \A n \in DOMAIN log' : log'[n].ver <= version[log'[n].order]
    BY <2>1, <2>2, <2>3 DEF LogOK
  <2>5. ASSUME NEW o \in Orders, NEW k \in DOMAIN log', log'[k].order = o
        PROVE  \E n \in DOMAIN log' : Newest(log', o, n)
    <3>1. CASE o = taken.order
      BY <1>5, <2>1, <2>2, <3>1, NewestAfter
    <3>2. CASE o # taken.order
      <4>1. k \in DOMAIN log /\ log[k].order = o
        BY <2>1, <2>2, <2>5, <3>2
      <4>2. PICK n \in DOMAIN log : Newest(log, o, n)
        BY <4>1 DEF LogOK
      <4> QED
        BY <1>5, <2>1, <2>2, <3>2, <4>2, NewestAfter
    <3> QED
      BY <3>1, <3>2
  <2>6. Len(log') > 0 /\ log'[Len(log')] = taken
    BY <2>1, <2>2
  <2>7. \A i \in DOMAIN queue : queue[i] \in DOMAIN log'
    BY <2>1, <2>2 DEF LogOK
  <2> QED
    BY <2>3, <2>4, <2>5, <2>6, <2>7 DEF LogOK
<1>6. ASSUME NEW n \in DOMAIN log, queue' = Emit(n) PROVE \A i \in DOMAIN queue' : queue'[i] \in DOMAIN log
  <2>1. n \in Nat
    BY LogFacts
  <2>2. CASE pc = "live"
    BY <1>6, <2>1, <2>2, EmitIs DEF LogOK
  <2>3. CASE pc # "live"
    BY <1>6, <2>1, <2>3, EmitIs DEF LogOK
  <2> QED
    BY <2>2, <2>3
<1>7. CASE Return
  <2>1. step' = "idle" /\ UNCHANGED <<version, log>>
    BY <1>7 DEF Return
  <2>2. Len(log) \in DOMAIN log
    BY <1>7, LogFacts DEF Return, LogOK
  <2>3. queue' = queue \/ queue' = Emit(Len(log))
    BY <1>7 DEF Return
  <2>4. \A i \in DOMAIN queue' : queue'[i] \in DOMAIN log
    BY <1>6, <2>2, <2>3 DEF LogOK
  <2> QED
    BY <2>1, <2>4 DEF LogOK, Newest
<1>8. ASSUME NEW o \in Orders, Flush(o) PROVE LogOK'
  <2>1. UNCHANGED <<version, step, taken, log>> /\ queue' = Emit(waiting[o])
    BY <1>8 DEF Flush
  <2>2. waiting[o] \in DOMAIN log
    BY <1>8 DEF Flush, WaitOK
  <2>3. \A i \in DOMAIN queue' : queue'[i] \in DOMAIN log
    BY <1>6, <2>1, <2>2
  <2> QED
    BY <2>1, <2>3 DEF LogOK, Newest
<1>9. ASSUME NEW o \in Orders, ReadOrder(o) PROVE LogOK'
  BY <1>1, <1>9 DEF ReadOrder, pipeVars
<1>10. CASE ReadHead \/ Loaded \/ SnapshotFails \/ Replay \/ ReplayFails
  BY <1>1, <1>10 DEF ReadHead, Loaded, SnapshotFails, Replay, ReplayFails, pipeVars
<1>11. CASE Connect \/ Disconnect
  <2>1. UNCHANGED <<version, step, taken, log>> /\ queue' = <<>>
    BY <1>11 DEF Connect, Disconnect, pipeVars
  <2> QED
    BY <2>1 DEF LogOK, Newest
<1>12. ASSUME NEW paused \in BOOLEAN, Receive(paused) PROVE LogOK'
  <2>1. UNCHANGED <<version, step, taken, log>> /\ queue' = Tail(queue) /\ queue # <<>>
    BY <1>12 DEF Receive, pipeVars
  <2>2. /\ DOMAIN queue = 1..Len(queue) /\ Len(queue) \in Nat
        /\ DOMAIN Tail(queue) = 1..(Len(queue) - 1)
        /\ \A i \in DOMAIN Tail(queue) : Tail(queue)[i] = queue[i + 1]
    BY <2>1, HeadTailProperties DEF Types
  <2>3. \A i \in DOMAIN queue' : queue'[i] \in DOMAIN log
    BY <2>1, <2>2 DEF LogOK
  <2> QED
    BY <2>1, <2>3 DEF LogOK, Newest
<1> QED
  BY <1>2, <1>3, <1>4, <1>5, <1>7, <1>8, <1>9, <1>10, <1>11, <1>12
  DEF Next, Pipeline, Client, Listen

(* What a return of append does. *)
LEMMA ReturnIs ==
    ASSUME Types, LogOK, Return
    PROVE  /\ taken.order \in Orders /\ Len(log) \in DOMAIN log /\ Len(log) \in Nat \ {0}
           /\ log[Len(log)].order = taken.order
           /\ \A n : Newest(log, taken.order, n) => n = Len(log)
           /\ Newest(log, taken.order, Len(log))
           /\ step = "stored" /\ step' = "idle"
           /\ UNCHANGED <<version, changes, log, clientVars>>
           /\ \/ /\ queue' = Emit(Len(log)) /\ waiting' = waiting
                 /\ waiting[taken.order] = 0 /\ excused' = excused
              \/ /\ queue' = Emit(Len(log)) /\ waiting' = waiting
                 /\ excused' = excused \cup {taken.order}
              \/ /\ queue' = queue /\ excused' = excused
                 /\ waiting' = [waiting EXCEPT ![taken.order] = Len(log)]
<1>1. step = "stored" /\ taken \in Event /\ log[Len(log)] = taken /\ Len(log) > 0
  BY DEF Return, Types, LogOK
<1>2. Len(log) \in Nat /\ DOMAIN log = 1..Len(log)
  BY LogFacts
<1>3. Newest(log, taken.order, Len(log))
  BY <1>1, <1>2 DEF Newest
<1>4. taken.order \in Orders
  BY <1>1 DEF Event
<1> QED
  BY <1>1, <1>2, <1>3, <1>4, OneNewest DEF Return, Latest

(* Every step keeps what waits the newest of its order.                    *)
LEMMA WaitStep == ASSUME Types, LogOK, WaitOK, [Next]_vars PROVE WaitOK'
<1>1. ASSUME UNCHANGED <<waiting, log>>, excused \subseteq excused',
             \A o \in Orders : Returning(o)' <=> Returning(o)
      PROVE  WaitOK'
  BY <1>1 DEF WaitOK, Newest
<1>2. CASE UNCHANGED vars
  BY <1>1, <1>2 DEF vars, pipeVars, Returning
<1>3. ASSUME NEW o \in Orders, Write(o) PROVE WaitOK'
  <2>1. UNCHANGED <<step, taken, log, waiting, excused>>
    BY <1>3 DEF Write
  <2> QED
    BY <1>1, <2>1 DEF Returning
<1>4. ASSUME NEW urgent \in BOOLEAN, Take(urgent) PROVE WaitOK'
  <2>1. UNCHANGED <<waiting, log, excused>> /\ step = "idle" /\ step' \in {"idle", "insert"}
    BY <1>4 DEF Take
  <2> QED
    BY <1>1, <2>1 DEF Returning
<1>5. CASE Insert
  <2>1. UNCHANGED <<waiting, taken, excused>> /\ step = "insert" /\ step' = "stored"
    BY <1>5 DEF Insert
  <2>2. /\ DOMAIN log \subseteq DOMAIN log'
        /\ \A n \in DOMAIN log : log'[n] = log[n]
    BY <1>5, InsertGrows, LogFacts
  <2>3. ASSUME NEW o \in Orders, waiting[o] # 0
        PROVE  /\ waiting[o] \in DOMAIN log' /\ log'[waiting[o]].order = o
               /\ o \notin excused /\ ~Returning(o)' => Newest(log', o, waiting[o])
    <3>1. waiting[o] \in DOMAIN log /\ log[waiting[o]].order = o
      BY <2>3 DEF WaitOK
    <3>2. ASSUME o \notin excused, ~Returning(o)' PROVE Newest(log', o, waiting[o])
      <4>1. o # taken.order
        BY <2>1, <3>2 DEF Returning
      <4>2. Newest(log, o, waiting[o])
        BY <2>1, <2>3, <3>2 DEF WaitOK, Returning
      <4> QED
        BY <1>5, <4>1, <4>2, NewestAfter
    <3> QED
      BY <2>2, <3>1, <3>2
  <2> QED
    BY <2>1, <2>3 DEF WaitOK
<1>6. CASE Return
  <2> DEFINE t == taken.order
  <2>1. /\ t \in Orders /\ Len(log) \in DOMAIN log /\ log[Len(log)].order = t
        /\ Newest(log, t, Len(log)) /\ step = "stored" /\ step' = "idle" /\ log' = log
        /\ excused \subseteq excused'
        /\ \/ waiting' = waiting /\ waiting[t] = 0
           \/ waiting' = waiting /\ t \in excused'
           \/ waiting' = [waiting EXCEPT ![t] = Len(log)]
    BY <1>6, ReturnIs
  <2>2. ASSUME NEW o \in Orders, waiting'[o] # 0
        PROVE  /\ waiting'[o] \in DOMAIN log /\ log[waiting'[o]].order = o
               /\ o \notin excused' => Newest(log, o, waiting'[o])
    <3>1. CASE o = t /\ waiting'[o] = Len(log)
      BY <2>1, <3>1
    <3>2. CASE waiting'[o] = waiting[o] /\ (o # t \/ o \in excused')
      BY <2>1, <2>2, <3>2 DEF WaitOK, Returning
    <3> QED
      BY <2>1, <2>2, <3>1, <3>2 DEF Types
  <2> QED
    BY <2>1, <2>2 DEF WaitOK
<1>7. ASSUME NEW p \in Orders, Flush(p) PROVE WaitOK'
  <2>1. /\ UNCHANGED <<step, taken, log, excused>>
        /\ waiting' = [waiting EXCEPT ![p] = 0]
    BY <1>7 DEF Flush
  <2>2. ASSUME NEW o \in Orders, waiting'[o] # 0
        PROVE  /\ waiting'[o] \in DOMAIN log /\ log[waiting'[o]].order = o
               /\ o \notin excused /\ ~Returning(o) => Newest(log, o, waiting'[o])
    BY <2>1, <2>2 DEF WaitOK, Types
  <2> QED
    BY <2>1, <2>2 DEF WaitOK, Returning
<1>8. CASE ReadHead \/ Loaded \/ SnapshotFails \/ Connect \/ Disconnect \/ Replay \/ ReplayFails
  <2>1. UNCHANGED <<step, taken, log, waiting, excused>>
    BY <1>8 DEF ReadHead, Loaded, SnapshotFails, Connect, Disconnect, Replay, ReplayFails,
                pipeVars
  <2> QED
    BY <1>1, <2>1 DEF Returning
<1>9. ASSUME NEW o \in Orders, ReadOrder(o) PROVE WaitOK'
  BY <1>1, <1>9 DEF ReadOrder, pipeVars, Returning
<1>10. ASSUME NEW paused \in BOOLEAN, Receive(paused) PROVE WaitOK'
  <2>1. UNCHANGED <<step, taken, log, waiting>> /\ excused \subseteq excused'
    BY <1>10 DEF Receive, pipeVars
  <2> QED
    BY <1>1, <2>1 DEF Returning
<1> QED
  BY <1>2, <1>3, <1>4, <1>5, <1>6, <1>7, <1>8, <1>9, <1>10
  DEF Next, Pipeline, Client, Listen

-----------------------------------------------------------------------------
(* An event that goes into the queue of a live client. *)
LEMMA JoinsQueue ==
    ASSUME Types, LogOK, pc = "live", NEW k \in DOMAIN log, queue' = Emit(k),
           UNCHANGED <<log, view>>, NEW o, NEW n \in DOMAIN log
    PROVE  /\ log[k].order = o /\ n = k =>
                 \E i \in DOMAIN queue' : queue'[i] = n /\ LastIn(o, i)'
           /\ log[k].order # o /\ (\E i \in DOMAIN queue : queue[i] = n /\ LastIn(o, i))
                => \E i \in DOMAIN queue' : queue'[i] = n /\ LastIn(o, i)'
           /\ log[k].order # o /\ LastIn(o, 0) => LastIn(o, 0)'
<1>1. k \in Nat
  BY LogFacts
<1>2. /\ DOMAIN queue = 1..Len(queue) /\ Len(queue) \in Nat
      /\ DOMAIN queue' = 1..(Len(queue) + 1) /\ queue'[Len(queue) + 1] = k
      /\ \A i \in DOMAIN queue : queue'[i] = queue[i]
  BY <1>1, EmitIs
<1>3. log[k].order = o /\ n = k =>
         \E i \in DOMAIN queue' : queue'[i] = n /\ LastIn(o, i)'
  BY <1>2 DEF LastIn
<1>4. ASSUME log[k].order # o, NEW i \in (DOMAIN queue) \cup {0}, LastIn(o, i)
      PROVE  LastIn(o, i)'
  BY <1>2, <1>4 DEF LastIn
<1>5. DOMAIN queue \subseteq DOMAIN queue'
  BY <1>2
<1>6. log[k].order # o /\ (\E i \in DOMAIN queue : queue[i] = n /\ LastIn(o, i))
        => \E i \in DOMAIN queue' : queue'[i] = n /\ LastIn(o, i)'
  BY <1>2, <1>4, <1>5
<1> QED
  BY <1>3, <1>4, <1>6

(* Every step keeps what a connected client has, or will get.              *)
LEMMA LiveStep ==
    ASSUME Types, LogOK, WaitOK, LiveOK, ReadOK, PhaseOK, [Next]_vars PROVE LiveOK'
<1>1. ASSUME UNCHANGED <<waiting, log, since, headSeq, unbroken, view, queue>>,
             excused \subseteq excused',
             \A o \in Orders : Returning(o)' <=> Returning(o),
             pc' = "live" => pc = "live"
      PROVE  LiveOK'
  BY <1>1 DEF LiveOK, Owed, Shows, OnItsWay, LastIn, Newest
<1>2. CASE UNCHANGED vars
  BY <1>1, <1>2 DEF vars, pipeVars, clientVars, Returning
<1>3. ASSUME NEW o \in Orders, Write(o) PROVE LiveOK'
  <2>1. UNCHANGED <<step, taken, log, waiting, clientVars, queue, excused>>
    BY <1>3 DEF Write
  <2> QED
    BY <1>1, <2>1 DEF Returning, clientVars
<1>4. ASSUME NEW urgent \in BOOLEAN, Take(urgent) PROVE LiveOK'
  <2>1. /\ UNCHANGED <<waiting, log, excused, queue, clientVars>>
        /\ step = "idle" /\ step' \in {"idle", "insert"}
    BY <1>4 DEF Take
  <2> QED
    BY <1>1, <2>1 DEF Returning, clientVars
<1>5. CASE Insert
  <2>1. /\ UNCHANGED <<waiting, taken, excused, pc, since, headSeq, unbroken, view, queue>>
        /\ step = "insert" /\ step' = "stored"
    BY <1>5 DEF Insert, clientVars
  <2>2. \A n \in DOMAIN log : log'[n] = log[n]
    BY <1>5, InsertGrows
  <2>3. \A i \in DOMAIN queue : queue[i] \in DOMAIN log
    BY DEF LogOK
  <2>4. ASSUME pc = "live", NEW o \in Orders \ excused, NEW n \in DOMAIN log',
               Newest(log', o, n), Owed(n)
        PROVE  OnItsWay(o, n)'
    <3>1. CASE o = taken.order
      BY <2>1, <3>1 DEF OnItsWay, Returning
    <3>2. CASE o # taken.order
      <4>1. Newest(log, o, n) /\ n \in DOMAIN log
        BY <1>5, <2>4, <3>2, NewestAfter DEF Newest
      <4>2. OnItsWay(o, n)
        BY <2>4, <4>1 DEF LiveOK
      <4>3. \A i : LastIn(o, i) => LastIn(o, i)'
        BY <2>1, <2>2, <2>3 DEF LastIn
      <4>4. CASE \E i \in DOMAIN queue : queue[i] = n /\ LastIn(o, i)
        BY <2>1, <4>3, <4>4 DEF OnItsWay
      <4>5. CASE waiting[o] = n \/ Returning(o)
        BY <2>1, <4>5 DEF OnItsWay, Returning
      <4>6. CASE Shows(o, n) /\ LastIn(o, 0)
        BY <2>1, <2>2, <4>1, <4>3, <4>6 DEF OnItsWay, Shows
      <4> QED
        BY <4>2, <4>4, <4>5, <4>6 DEF OnItsWay
    <3> QED
      BY <3>1, <3>2
  <2> QED
    BY <2>1, <2>4 DEF LiveOK, Owed
<1>6. CASE Return
  <2> DEFINE t == taken.order
  <2>1. /\ t \in Orders /\ Len(log) \in DOMAIN log /\ Len(log) \in Nat \ {0}
        /\ log[Len(log)].order = t
        /\ \A n : Newest(log, t, n) => n = Len(log)
        /\ step = "stored" /\ step' = "idle"
        /\ UNCHANGED <<log, clientVars>>
        /\ \/ /\ queue' = Emit(Len(log)) /\ waiting' = waiting
              /\ waiting[t] = 0 /\ excused' = excused
           \/ /\ queue' = Emit(Len(log)) /\ waiting' = waiting
              /\ excused' = excused \cup {t}
           \/ /\ queue' = queue /\ excused' = excused
              /\ waiting' = [waiting EXCEPT ![t] = Len(log)]
    BY <1>6, ReturnIs
  <2>2. UNCHANGED <<pc, view, since, headSeq, unbroken>>
    BY <2>1 DEF clientVars
  <2>3. ASSUME pc = "live", NEW o \in Orders \ excused', NEW n \in DOMAIN log,
               Newest(log, o, n), Owed(n)
        PROVE  OnItsWay(o, n)'
    <3>1. OnItsWay(o, n)
      BY <2>1, <2>3 DEF LiveOK
    <3>2. CASE o = t
      <4>1. n = Len(log)
        BY <2>1, <2>3, <3>2
      <4>2. CASE queue' = Emit(Len(log))
        BY <2>1, <2>2, <2>3, <3>2, <4>1, <4>2, JoinsQueue DEF OnItsWay
      <4>3. CASE waiting' = [waiting EXCEPT ![t] = Len(log)]
        BY <3>2, <4>1, <4>3 DEF OnItsWay, Types
      <4> QED
        BY <2>1, <4>2, <4>3
    <3>3. CASE o # t
      <4>1. ~Returning(o) /\ waiting'[o] = waiting[o]
        BY <2>1, <3>3 DEF Returning, Types
      <4>2. CASE queue' = Emit(Len(log))
        BY <2>1, <2>2, <2>3, <3>1, <3>3, <4>1, <4>2, JoinsQueue DEF OnItsWay, Shows
      <4>3. CASE queue' = queue
        BY <2>1, <2>2, <3>1, <4>1, <4>3 DEF OnItsWay, Shows, LastIn
      <4> QED
        BY <2>1, <4>2, <4>3
    <3> QED
      BY <3>2, <3>3
  <2> QED
    BY <2>1, <2>2, <2>3 DEF LiveOK, Owed
<1>7. ASSUME NEW p \in Orders, Flush(p) PROVE LiveOK'
  <2>1. /\ UNCHANGED <<step, taken, log, excused, pc, view, since, headSeq, unbroken>>
        /\ waiting[p] # 0 /\ waiting' = [waiting EXCEPT ![p] = 0]
        /\ queue' = Emit(waiting[p])
    BY <1>7 DEF Flush, clientVars
  <2>2. waiting[p] \in DOMAIN log /\ log[waiting[p]].order = p
    BY <2>1 DEF WaitOK
  <2>3. ASSUME pc = "live", NEW o \in Orders \ excused, NEW n \in DOMAIN log,
               Newest(log, o, n), Owed(n)
        PROVE  OnItsWay(o, n)'
    <3>1. OnItsWay(o, n)
      BY <2>3 DEF LiveOK
    <3>2. CASE Returning(o)
      BY <2>1, <3>2 DEF OnItsWay, Returning
    <3>3. CASE o = p /\ ~Returning(o)
      <4>1. waiting[p] = n
        BY <2>1, <2>3, <3>3, OneNewest DEF WaitOK
      <4> QED
        BY <2>1, <2>2, <2>3, <3>3, <4>1, JoinsQueue DEF OnItsWay
    <3>4. CASE o # p /\ ~Returning(o)
      <4>1. waiting'[o] = waiting[o]
        BY <2>1, <3>4 DEF Types
      <4> QED
        BY <2>1, <2>2, <2>3, <3>1, <3>4, <4>1, JoinsQueue DEF OnItsWay, Shows
    <3> QED
      BY <3>2, <3>3, <3>4
  <2> QED
    BY <2>1, <2>3 DEF LiveOK, Owed
<1>8. ASSUME pc' # "live" PROVE LiveOK'
  BY <1>8 DEF LiveOK
<1>9. CASE ReadHead \/ Loaded \/ SnapshotFails \/ Disconnect \/ Replay \/ ReplayFails
  BY <1>8, <1>9 DEF ReadHead, Loaded, SnapshotFails, Disconnect, Replay, ReplayFails
<1>10. ASSUME NEW o \in Orders, ReadOrder(o) PROVE LiveOK'
  BY <1>8, <1>10 DEF ReadOrder
<1>11. CASE Connect
  <2>1. /\ UNCHANGED <<log, headSeq, unbroken, view>> /\ pc \in {"loaded", "replayed"}
        /\ since' = Len(log) /\ DOMAIN queue' = {}
    BY <1>11 DEF Connect, pipeVars
  <2>2. \A n \in DOMAIN log : ~(n > Len(log)) /\ log[n].order \in Orders
    BY LogFacts
  <2>3. ASSUME NEW o \in Orders, NEW n \in DOMAIN log, Newest(log, o, n), Owed(n)'
        PROVE  OnItsWay(o, n)'
    <3>1. unbroken /\ n <= headSeq
      BY <2>1, <2>2, <2>3 DEF Owed
    <3>2. pc = "loaded"
      BY <2>1, <3>1 DEF PhaseOK
    <3>3. view[o] \in Nat /\ view[o] >= log[n].ver
      BY <2>3, <3>1, <3>2 DEF ReadOK, Newest
    <3>4. Shows(o, n)'
      BY <2>1, <2>2, <3>3 DEF Shows
    <3> QED
      BY <2>1, <3>4 DEF OnItsWay, LastIn
  <2> QED
    BY <2>1, <2>3 DEF LiveOK
<1>12. ASSUME NEW paused \in BOOLEAN, Receive(paused) PROVE LiveOK'
  <2> DEFINE h == Head(queue)
             r == log[h].order
  <2>1. /\ UNCHANGED <<step, taken, log, waiting, pc, since, headSeq, unbroken>> /\ pc = "live"
        /\ queue' = Tail(queue) /\ queue # <<>>
        /\ \/ excused' = excused \cup {r} /\ view' = view
           \/ excused' = excused /\ view' = [view EXCEPT ![r] = log[h].ver]
    BY <1>12 DEF Receive, pipeVars
  <2>2. /\ DOMAIN queue = 1..Len(queue) /\ Len(queue) \in Nat \ {0}
        /\ DOMAIN queue' = 1..(Len(queue) - 1)
        /\ \A i \in DOMAIN queue' : queue'[i] = queue[i + 1]
        /\ h = queue[1]
    BY <2>1, HeadTailProperties, EmptySeq DEF Types
  <2>3. r \in Orders
    BY <2>2, LogFacts DEF LogOK
  <2> HIDE DEF h, r
  <2>4. ASSUME NEW o \in Orders \ excused', NEW n \in DOMAIN log,
               Newest(log, o, n), Owed(n)
        PROVE  OnItsWay(o, n)'
    <3>1. OnItsWay(o, n)
      BY <2>1, <2>4 DEF LiveOK
    <3>2. \A i \in Nat : LastIn(o, i + 1) => LastIn(o, i)'
      BY <2>1, <2>2 DEF LastIn
    <3>3. CASE Returning(o) \/ waiting[o] = n
      BY <2>1, <3>3 DEF OnItsWay, Returning
    <3>4. ASSUME NEW i \in DOMAIN queue, queue[i] = n, LastIn(o, i)
          PROVE  OnItsWay(o, n)'
      <4>1. CASE i = 1
        <5>1. r = o /\ h = n
          BY <2>2, <2>4, <3>4, <4>1 DEF Newest, r
        <5>2. view'[o] = log[n].ver
          BY <2>1, <2>3, <2>4, <5>1 DEF Types
        <5>3. LastIn(o, 0)'
          BY <3>2, <3>4, <4>1
        <5> QED
          BY <2>1, <2>4, <5>2, <5>3, LogFacts DEF OnItsWay, Shows
      <4>2. CASE i > 1
        <5>1. i - 1 \in DOMAIN queue' /\ queue'[i - 1] = n
          BY <2>2, <3>4, <4>2
        <5>2. i - 1 \in Nat /\ (i - 1) + 1 = i
          BY <2>2, <4>2
        <5>3. LastIn(o, i - 1)'
          BY <3>2, <3>4, <5>2
        <5> QED
          BY <5>1, <5>3 DEF OnItsWay
      <4> QED
        BY <2>2, <4>1, <4>2
    <3>5. CASE Shows(o, n) /\ LastIn(o, 0)
      <4>1. r # o
        BY <2>2, <3>5 DEF LastIn, r
      <4>2. view'[o] = view[o]
        BY <2>1, <2>4, <4>1 DEF Types
      <4>3. LastIn(o, 0)'
        BY <2>1, <2>2, <3>5 DEF LastIn
      <4> QED
        BY <2>1, <3>5, <4>2, <4>3 DEF OnItsWay, Shows
    <3> QED
      BY <3>1, <3>3, <3>4, <3>5 DEF OnItsWay
  <2> QED
    BY <2>1, <2>4 DEF LiveOK, Owed
<1> QED
  BY <1>2, <1>3, <1>4, <1>5, <1>6, <1>7, <1>9, <1>10, <1>11, <1>12
  DEF Next, Pipeline, Client, Listen

-----------------------------------------------------------------------------
(* Every step keeps what a snapshot has read, or will read.                *)
LEMMA ReadStep == ASSUME Types, LogOK, ReadOK, [Next]_vars PROVE ReadOK'
<1>1. ASSUME UNCHANGED <<log, headSeq, toRead, view, taken>>, LastSeq' = LastSeq,
             pc' \in {"boot", "reading", "loaded"} => pc = pc'
      PROVE  ReadOK'
  BY <1>1 DEF ReadOK
<1>2. CASE UNCHANGED vars
  BY <1>1, <1>2 DEF vars, pipeVars, clientVars, LastSeq
<1>3. ASSUME NEW o \in Orders, Write(o) \/ Flush(o) PROVE ReadOK'
  <2>1. UNCHANGED <<step, taken, log, clientVars>>
    BY <1>3 DEF Write, Flush
  <2> QED
    BY <1>1, <2>1 DEF LastSeq, clientVars
<1>4. Len(log) \in Nat /\ DOMAIN log = 1..Len(log) /\ headSeq \in Nat
  BY LogFacts DEF Types
<1>5. ASSUME NEW urgent \in BOOLEAN, Take(urgent) PROVE ReadOK'
  <2>1. UNCHANGED <<log, clientVars>> /\ step = "idle" /\ step' \in {"idle", "insert"}
    BY <1>5 DEF Take
  <2>2. LastSeq = Len(log) /\ LastSeq' \in {Len(log), Len(log) + 1}
    BY <1>4, <2>1 DEF LastSeq
  <2>3. pc \in {"reading", "loaded"} => ~(headSeq > Len(log)) /\ headSeq <= LastSeq'
    BY <1>4, <2>2 DEF ReadOK
  <2> QED
    BY <2>1, <2>3 DEF ReadOK, clientVars
<1>6. CASE Insert
  <2>1. UNCHANGED <<taken, clientVars>> /\ step = "insert" /\ step' = "stored"
    BY <1>6 DEF Insert
  <2>2. /\ Len(log') = Len(log) + 1 /\ DOMAIN log' = 1..(Len(log) + 1)
        /\ log'[Len(log) + 1] = taken
        /\ \A n \in DOMAIN log : log'[n] = log[n]
    BY <1>6, InsertGrows
  <2>3. LastSeq = Len(log) + 1 /\ LastSeq' = Len(log) + 1
    BY <1>4, <2>1, <2>2 DEF LastSeq
  <2>4. ASSUME pc \in {"reading", "loaded"}, NEW n \in DOMAIN log', n <= headSeq
        PROVE  log'[n].order \in toRead \/ view[log'[n].order] >= log'[n].ver
    <3>1. CASE n \in DOMAIN log
      BY <2>2, <2>4, <3>1 DEF ReadOK
    <3>2. CASE n = Len(log) + 1
      <4>1. headSeq > Len(log)
        BY <1>4, <2>4, <3>2
      <4> QED
        BY <2>2, <2>4, <3>2, <4>1 DEF ReadOK
    <3> QED
      BY <1>4, <2>2, <3>1, <3>2
  <2>5. pc \in {"reading", "loaded"} => headSeq <= LastSeq' /\ ~(headSeq > Len(log'))
    BY <1>4, <2>2, <2>3 DEF ReadOK
  <2> QED
    BY <2>1, <2>4, <2>5 DEF ReadOK, clientVars
<1>7. CASE Return
  <2>1. UNCHANGED <<log, clientVars>> /\ step = "stored" /\ step' = "idle"
    BY <1>7 DEF Return
  <2>2. LastSeq = Len(log) /\ LastSeq' = Len(log)
    BY <1>4, <2>1 DEF LastSeq
  <2>3. pc \in {"reading", "loaded"} => headSeq <= LastSeq' /\ ~(headSeq > Len(log))
    BY <1>4, <2>2 DEF ReadOK
  <2> QED
    BY <2>1, <2>3 DEF ReadOK, clientVars
<1>8. CASE ReadHead
  <2>1. /\ UNCHANGED <<log, step, taken, view>> /\ pc = "boot" /\ pc' = "reading"
        /\ headSeq' = LastSeq /\ toRead' = Orders
    BY <1>8 DEF ReadHead, pipeVars
  <2>2. LastSeq' = LastSeq /\ LastSeq \in Nat /\ (LastSeq > Len(log) => step = "insert")
    BY <1>4, <2>1 DEF LastSeq
  <2>3. step = "insert" => taken.order \in Orders
    BY DEF Types, Event
  <2>4. \A n \in DOMAIN log : log[n].order \in Orders
    BY LogFacts
  <2>5. headSeq' <= LastSeq' /\ (headSeq' > Len(log) => taken.order \in toRead')
    BY <2>1, <2>2, <2>3
  <2> QED
    BY <2>1, <2>4, <2>5 DEF ReadOK
<1>9. ASSUME NEW o \in Orders, ReadOrder(o) PROVE ReadOK'
  <2>1. /\ UNCHANGED <<version, log, step, taken, headSeq>> /\ pc = "reading" /\ pc' = pc
        /\ view' = [view EXCEPT ![o] = version[o]] /\ toRead' = toRead \ {o}
    BY <1>9 DEF ReadOrder, pipeVars
  <2>2. version[o] \in Nat /\ view'[o] = version[o]
        /\ \A p \in Orders : p # o => view'[p] = view[p]
    BY <2>1 DEF Types
  <2>3. LastSeq' = LastSeq /\ (headSeq > Len(log) => step = "insert")
    BY <1>4, <2>1 DEF LastSeq, ReadOK
  <2>4. ASSUME NEW n \in DOMAIN log, n <= headSeq
        PROVE  log[n].order \in toRead' \/ view'[log[n].order] >= log[n].ver
    <3>1. /\ log[n].order \in Orders /\ log[n].ver \in Nat
          /\ log[n].ver <= version[log[n].order]
          /\ log[n].order \in toRead \/ view[log[n].order] >= log[n].ver
      BY <2>1, <2>4, LogFacts DEF LogOK, ReadOK
    <3> QED
      BY <2>1, <2>2, <3>1
  <2>5. ASSUME headSeq > Len(log)
        PROVE  taken.order \in toRead' \/ view'[taken.order] >= taken.ver
    <3>1. /\ taken.order \in Orders /\ taken.ver \in Nat
          /\ taken.ver <= version[taken.order]
          /\ taken.order \in toRead \/ view[taken.order] >= taken.ver
      BY <2>1, <2>3, <2>5 DEF LogOK, ReadOK, Types, Event
    <3> QED
      BY <2>1, <2>2, <3>1
  <2>6. \A p \in Orders : view'[p] \in Nat
    BY <2>1, <2>2 DEF ReadOK
  <2> QED
    BY <2>1, <2>3, <2>4, <2>5, <2>6 DEF ReadOK
<1>10. ASSUME pc' \notin {"boot", "reading", "loaded"} PROVE ReadOK'
  BY <1>10 DEF ReadOK
<1>11. CASE Connect \/ Disconnect \/ Replay \/ ReplayFails
  BY <1>10, <1>11 DEF Connect, Disconnect, Replay, ReplayFails
<1>12. ASSUME NEW paused \in BOOLEAN, Receive(paused) PROVE ReadOK'
  BY <1>10, <1>12 DEF Receive
<1>13. CASE Loaded
  <2>1. UNCHANGED <<log, step, taken, view, headSeq, toRead>> /\ pc = "reading"
        /\ toRead = {} /\ pc' = "loaded"
    BY <1>13 DEF Loaded, Watermark, pipeVars
  <2> QED
    BY <2>1 DEF ReadOK, LastSeq
<1>14. CASE SnapshotFails
  <2>1. /\ UNCHANGED <<log, step>> /\ headSeq' = 0 /\ toRead' = {}
        /\ view' = [o \in Orders |-> 0] /\ pc' = "loaded"
    BY <1>14 DEF SnapshotFails, pipeVars
  <2>2. LastSeq' \in Nat
    BY <1>4, <2>1 DEF LastSeq
  <2>3. headSeq' <= LastSeq' /\ ~(headSeq' > Len(log)) /\ \A n \in DOMAIN log : ~(n <= 0)
    BY <1>4, <2>1, <2>2
  <2> QED
    BY <2>1, <2>3 DEF ReadOK
<1> QED
  BY <1>2, <1>3, <1>5, <1>6, <1>7, <1>8, <1>9, <1>11, <1>12, <1>13, <1>14
  DEF Next, Pipeline, Client, Listen

-----------------------------------------------------------------------------
(* Nobody has seen what append has not returned.                           *)
LEMMA SeqStep == ASSUME Types, LogOK, WaitOK, SeqOK, [Next]_vars PROVE SeqOK'
<1>1. Len(log) \in Nat /\ DOMAIN log = 1..Len(log) /\ cursor \in Nat
  BY LogFacts DEF Types
<1>2. ASSUME UNCHANGED <<step, log, cursor, waiting, queue>> PROVE SeqOK'
  BY <1>2 DEF SeqOK
<1>3. CASE UNCHANGED vars
  BY <1>2, <1>3 DEF vars, pipeVars, clientVars
<1>4. ASSUME NEW o \in Orders, Write(o) \/ ReadOrder(o) PROVE SeqOK'
  BY <1>2, <1>4 DEF Write, ReadOrder, pipeVars, clientVars
<1>5. CASE ReadHead \/ Loaded \/ SnapshotFails \/ Replay \/ ReplayFails
  BY <1>2, <1>5 DEF ReadHead, Loaded, SnapshotFails, Replay, ReplayFails, pipeVars
<1>6. ASSUME cursor' <= Len(log), log' = log, step' # "stored" PROVE SeqOK'
  BY <1>6 DEF SeqOK
<1>7. ASSUME NEW urgent \in BOOLEAN, Take(urgent) PROVE SeqOK'
  <2>1. log' = log /\ cursor' = cursor /\ step' \in {"idle", "insert"}
    BY <1>7 DEF Take, clientVars
  <2> QED
    BY <1>6, <2>1 DEF SeqOK
<1>8. CASE Return
  <2>1. log' = log /\ cursor' = cursor /\ step' = "idle"
    BY <1>8 DEF Return, clientVars
  <2> QED
    BY <1>6, <2>1 DEF SeqOK
<1>9. CASE Insert
  <2>1. UNCHANGED <<cursor, waiting, queue>>
    BY <1>9 DEF Insert, clientVars
  <2>2. Len(log') = Len(log) + 1
    BY <1>9, InsertGrows
  <2>3. cursor < Len(log')
    BY <1>1, <2>2 DEF SeqOK
  <2>4. \A o \in Orders : waiting[o] < Len(log')
    BY <1>1, <2>2 DEF WaitOK
  <2>5. \A i \in DOMAIN queue : queue[i] < Len(log')
    BY <1>1, <2>2 DEF LogOK
  <2> QED
    BY <1>1, <2>1, <2>2, <2>3, <2>4, <2>5 DEF SeqOK
<1>10. ASSUME NEW o \in Orders, Flush(o) PROVE SeqOK'
  <2>1. /\ UNCHANGED <<step, log, cursor>> /\ queue' = Emit(waiting[o])
        /\ waiting' = [waiting EXCEPT ![o] = 0] /\ waiting[o] \in Nat
    BY <1>10 DEF Flush, clientVars, Types
  <2>2. ASSUME step = "stored" PROVE \A i \in DOMAIN queue' : queue'[i] < Len(log)
    <3>1. CASE pc = "live"
      BY <2>1, <2>2, <3>1, EmitIs DEF SeqOK
    <3>2. CASE pc # "live"
      BY <2>1, <2>2, <3>2, EmitIs DEF SeqOK
    <3> QED
      BY <3>1, <3>2
  <2>3. ASSUME step = "stored" PROVE \A p \in Orders : waiting'[p] < Len(log)
    BY <1>1, <2>1, <2>3 DEF SeqOK, Types
  <2> QED
    BY <2>1, <2>2, <2>3 DEF SeqOK
<1>11. CASE Connect \/ Disconnect
  <2>1. UNCHANGED <<step, log, cursor, waiting>> /\ DOMAIN queue' = {}
    BY <1>11 DEF Connect, Disconnect, pipeVars
  <2> QED
    BY <2>1 DEF SeqOK
<1>12. ASSUME NEW paused \in BOOLEAN, Receive(paused) PROVE SeqOK'
  <2>1. /\ UNCHANGED <<step, log, waiting>> /\ queue' = Tail(queue) /\ queue # <<>>
        /\ cursor' = cursor \/ cursor' = Head(queue)
    BY <1>12 DEF Receive, pipeVars
  <2>2. /\ DOMAIN queue = 1..Len(queue) /\ Len(queue) \in Nat \ {0}
        /\ DOMAIN queue' = 1..(Len(queue) - 1)
        /\ \A i \in DOMAIN queue' : queue'[i] = queue[i + 1]
        /\ Head(queue) = queue[1]
    BY <2>1, HeadTailProperties, EmptySeq DEF Types
  <2>3. \A i \in DOMAIN queue' : i + 1 \in DOMAIN queue
    BY <2>2
  <2>4. step = "stored" => \A i \in DOMAIN queue' : queue'[i] < Len(log)
    BY <2>2, <2>3 DEF SeqOK
  <2>5. queue[1] \in DOMAIN log /\ (step = "stored" => queue[1] < Len(log))
    BY <2>2 DEF LogOK, SeqOK
  <2>6. cursor' <= Len(log) /\ (step = "stored" => cursor' < Len(log))
    BY <1>1, <2>1, <2>2, <2>5 DEF SeqOK
  <2> QED
    BY <2>1, <2>4, <2>6 DEF SeqOK
<1> QED
  BY <1>3, <1>4, <1>5, <1>7, <1>8, <1>9, <1>10, <1>11, <1>12
  DEF Next, Pipeline, Client, Listen

(* Every step keeps what a disconnected client lacks ahead of its cursor.  *)
LEMMA LostStep ==
    ASSUME Types, LogOK, LiveOK, SeqOK, LostOK, [Next]_vars PROVE LostOK'
<1>1. Len(log) \in Nat /\ DOMAIN log = 1..Len(log) /\ cursor \in Nat
  BY LogFacts DEF Types
<1>2. ASSUME UNCHANGED <<log, pc, since, cursor, behind, view>>, excused \subseteq excused'
      PROVE  LostOK'
  BY <1>2 DEF LostOK, Newest
<1>3. CASE UNCHANGED vars
  BY <1>2, <1>3 DEF vars, pipeVars, clientVars
<1>4. ASSUME NEW o \in Orders, Write(o) \/ Flush(o) PROVE LostOK'
  BY <1>2, <1>4 DEF Write, Flush, clientVars
<1>5. ASSUME NEW urgent \in BOOLEAN, Take(urgent) PROVE LostOK'
  BY <1>2, <1>5 DEF Take, clientVars
<1>6. CASE Return
  BY <1>2, <1>6 DEF Return, clientVars
<1>7. CASE Insert
  <2>1. UNCHANGED <<pc, since, cursor, behind, view, excused>>
    BY <1>7 DEF Insert, clientVars
  <2>2. \A n \in DOMAIN log : log'[n] = log[n]
    BY <1>7, InsertGrows
  <2>3. ASSUME pc = "lost", NEW o \in Orders \ (excused \cup behind), NEW n \in DOMAIN log',
               Newest(log', o, n), n > since
        PROVE  n > cursor \/ view[o] = log'[n].ver
    <3>1. CASE o = taken.order
      BY <1>1, <1>7, <2>3, <3>1, NewestAfter DEF SeqOK
    <3>2. CASE o # taken.order
      <4>1. Newest(log, o, n)
        BY <1>7, <2>3, <3>2, NewestAfter
      <4>2. n \in DOMAIN log
        BY <4>1 DEF Newest
      <4> QED
        BY <2>2, <2>3, <4>1, <4>2 DEF LostOK
    <3> QED
      BY <3>1, <3>2
  <2> QED
    BY <2>1, <2>3 DEF LostOK
<1>8. ASSUME pc' # "lost" PROVE LostOK'
  BY <1>8 DEF LostOK
<1>9. CASE ReadHead \/ Loaded \/ SnapshotFails \/ Connect \/ Replay \/ ReplayFails
  BY <1>8, <1>9 DEF ReadHead, Loaded, SnapshotFails, Connect, Replay, ReplayFails
<1>10. ASSUME NEW o \in Orders, ReadOrder(o) PROVE LostOK'
  BY <1>8, <1>10 DEF ReadOrder
<1>11. ASSUME NEW paused \in BOOLEAN, Receive(paused) PROVE LostOK'
  BY <1>8, <1>11 DEF Receive
<1>12. CASE Disconnect
  <2>1. /\ UNCHANGED <<log, since, cursor, view, excused>> /\ pc = "live"
        /\ behind' = {o \in Orders : FallsBehind(o)}
    BY <1>12 DEF Disconnect, pipeVars
  <2>2. ASSUME NEW o \in Orders \ (excused \cup behind'), NEW n \in DOMAIN log,
               Newest(log, o, n), n > since
        PROVE  n > cursor \/ view[o] = log[n].ver
    <3>1. ~FallsBehind(o)
      BY <2>1, <2>2
    <3>2. OnItsWay(o, n)
      BY <2>1, <2>2 DEF LiveOK, Owed
    <3>3. CASE Returning(o)
      <4>1. log[Len(log)].order = o /\ Len(log) \in DOMAIN log /\ cursor < Len(log)
        BY <1>1, <3>3 DEF Returning, LogOK, SeqOK
      <4>2. n >= Len(log)
        BY <2>2, <4>1 DEF Newest
      <4> QED
        BY <1>1, <2>2, <4>1, <4>2
    <3>4. CASE waiting[o] = n
      BY <1>1, <2>2, <3>1, <3>4 DEF FallsBehind
    <3>5. CASE \E i \in DOMAIN queue : queue[i] = n /\ LastIn(o, i)
      BY <1>1, <2>2, <3>1, <3>5 DEF FallsBehind, Newest
    <3> QED
      BY <2>2, <3>2, <3>3, <3>4, <3>5 DEF OnItsWay, Shows
  <2> QED
    BY <2>1, <2>2 DEF LostOK
<1> QED
  BY <1>3, <1>4, <1>5, <1>6, <1>7, <1>9, <1>10, <1>11, <1>12
  DEF Next, Pipeline, Client, Listen

(* Only a lost connection leads where a client without one is not.         *)
LEMMA PhaseStep == ASSUME PhaseOK, [Next]_vars PROVE PhaseOK'
<1>1. CASE UNCHANGED clientVars
  BY <1>1 DEF PhaseOK, clientVars
<1>2. CASE Pipeline \/ \E o \in Orders : Write(o) \/ Flush(o)
  BY <1>1, <1>2 DEF Pipeline, Write, Take, Insert, Return, Flush
<1>3. CASE \E o \in Orders : ReadOrder(o)
  BY <1>3 DEF ReadOrder, PhaseOK
<1>4. CASE ReadHead \/ Loaded \/ SnapshotFails \/ Connect
  BY <1>4 DEF ReadHead, Loaded, SnapshotFails, Connect, PhaseOK
<1>5. CASE Listen
  BY <1>5 DEF Listen, Receive, PhaseOK
<1>6. CASE Disconnect \/ Replay \/ ReplayFails
  BY <1>6 DEF Disconnect, Replay, ReplayFails, PhaseOK
<1> QED
  BY <1>1, <1>2, <1>3, <1>4, <1>5, <1>6 DEF Next, Client, vars

-----------------------------------------------------------------------------
(* The invariant of the pipeline and the client.                           *)
THEOREM InvHolds == Spec => []Inv
<1>1. Init => Inv
  <2> SUFFICES ASSUME Init PROVE Inv
    OBVIOUS
  <2>1. Types
    BY EmptySeq DEF Init, Types
  <2>2. DOMAIN log = {}
    BY DEF Init
  <2> QED
    BY <2>1, <2>2 DEF Init, Inv, LogOK, WaitOK, LiveOK, ReadOK, SeqOK, LostOK, PhaseOK
<1>2. Inv /\ [Next]_vars => Inv'
  BY TypeStep, LogStep, WaitStep, LiveStep, ReadStep, SeqStep, LostStep, PhaseStep DEF Inv
<1> QED
  BY <1>1, <1>2, PTL DEF Spec

(* A connected client for which nothing is on its way shows the newest     *)
(* version of every order that changed since it connected, whatever it     *)
(* missed before; and, before the first break, of every order whose newest *)
(* event its snapshot's head_seq counts.                                   *)
THEOREM LiveClientIsCurrent == Spec => []LiveIsCurrent
<1>1. Inv => LiveIsCurrent
  <2> SUFFICES ASSUME Inv, pc = "live", queue = <<>>, step = "idle",
                      NEW o \in Orders \ excused, waiting[o] = 0, SeqsOf(o) # {},
                      NEW n, n = Max(SeqsOf(o))
               PROVE  /\ n > since => view[o] = log[n].ver
                      /\ unbroken /\ n <= headSeq => view[o] >= log[n].ver
    BY DEF LiveIsCurrent
  <2>1. Types /\ LogOK /\ LiveOK
    BY DEF Inv
  <2>2. PICK k \in DOMAIN log : Newest(log, o, k)
    BY <2>1 DEF LogOK, SeqsOf
  <2>3. n = k /\ n \in DOMAIN log /\ Newest(log, o, n)
    BY <2>1, <2>2, NewestIsMax
  <2>4. n \in Nat \ {0}
    BY <2>1, <2>3, LogFacts
  <2>5. ASSUME Owed(n) PROVE Shows(o, n)
    <3>1. OnItsWay(o, n)
      BY <2>1, <2>3, <2>5 DEF LiveOK
    <3> QED
      BY <2>4, <3>1 DEF OnItsWay, Returning
  <2> QED
    BY <2>5 DEF Owed, Shows
<1> QED
  BY <1>1, InvHolds, PTL

(* A snapshot reflects every event its head_seq counts, the one whose      *)
(* insert is in flight included.                                           *)
THEOREM SnapshotsCover == Spec => SnapshotCovers
<1> DEFINE A == pc = "reading" /\ pc' = "loaded" /\ headSeq' # 0
                  => /\ \A n \in DOMAIN log :
                          n <= headSeq' => view[log[n].order] >= log[n].ver
                     /\ headSeq' > Len(log) => view[taken.order] >= taken.ver
<1>1. Inv /\ [Next]_vars => [A]_vars
  <2> SUFFICES ASSUME Inv, Next, pc = "reading", pc' = "loaded", headSeq' # 0
               PROVE  /\ \A n \in DOMAIN log :
                           n <= headSeq' => view[log[n].order] >= log[n].ver
                      /\ headSeq' > Len(log) => view[taken.order] >= taken.ver
    OBVIOUS
  <2>1. Loaded
    BY DEF Next, Pipeline, Client, Listen, Write, Take, Insert, Return, Flush, ReadHead,
           ReadOrder, Loaded, SnapshotFails, Connect, Receive, Disconnect, Replay,
           ReplayFails, clientVars
  <2>2. headSeq' = headSeq /\ toRead = {}
    BY <2>1 DEF Loaded, Watermark
  <2> QED
    BY <2>2 DEF Inv, ReadOK
<1> QED
  BY <1>1, InvHolds, PTL DEF Spec, SnapshotCovers

(* A replay that the limit does not cut brings every order that changed    *)
(* since the client had connected up to date, but for those with an event  *)
(* behind its cursor when the connection broke.                            *)
THEOREM ReplaysCatchUp == Spec => ReplayCatchesUp
<1> DEFINE A == Replay /\ cursor # 0 /\ Len(log) <= cursor + Limit
                  => \A o \in Orders \ (excused \cup behind) :
                       (\E n \in SeqsOf(o) : n > since) => view'[o] = Logged(o)
<1>1. Inv /\ [Next]_vars => [A]_vars
  <2> SUFFICES ASSUME Inv, Replay, cursor # 0, Len(log) <= cursor + Limit,
                      NEW o \in Orders \ (excused \cup behind),
                      NEW k \in SeqsOf(o), k > since
               PROVE  view'[o] = Logged(o)
    OBVIOUS
  <2> DEFINE s == SeqsOf(o) \cap Page
  <2>1. /\ Types /\ LogOK /\ LostOK /\ since \in Nat /\ cursor \in Nat /\ Limit \in Nat
        /\ Len(log) \in Nat /\ DOMAIN log = 1..Len(log)
    BY LogFacts, TailAssumption DEF Inv, Types
  <2>2. PICK n \in DOMAIN log : Newest(log, o, n)
    BY <2>1 DEF LogOK, SeqsOf
  <2>3. n > since
    BY <2>1, <2>2 DEF Newest, SeqsOf
  <2>4. Logged(o) = log[n].ver
    BY <2>1, <2>2, LoggedIs
  <2>5. view'[o] = IF s = {} THEN view[o] ELSE log[Max(s)].ver
    BY DEF Replay
  <2>6. n > cursor \/ view[o] = log[n].ver
    BY <2>1, <2>2, <2>3 DEF LostOK, Replay
  <2>7. CASE n > cursor
    <3>1. n \in s /\ \A x \in s : x \in Nat /\ n >= x
      BY <2>1, <2>2, <2>7 DEF SeqsOf, Page, Newest
    <3> HIDE DEF s
    <3>2. \A x \in s : (\A y \in s : x >= y) => x = n
      BY <3>1
    <3>3. Max(s) = n
      BY <3>1, <3>2 DEF Max
    <3> QED
      BY <2>4, <2>5, <3>1, <3>3
  <2>8. CASE ~(n > cursor)
    <3>1. s = {}
      BY <2>1, <2>2, <2>8 DEF SeqsOf, Page, Newest
    <3> QED
      BY <2>4, <2>5, <2>6, <2>8, <3>1
  <2> QED
    BY <2>7, <2>8
<1> QED
  BY <1>1, InvHolds, PTL DEF Spec, ReplayCatchesUp
=============================================================================
