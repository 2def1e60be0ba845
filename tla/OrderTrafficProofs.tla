-------------------------- MODULE OrderTrafficProofs --------------------------
(***************************************************************************)
(* Theorems about OrderTraffic, for any finite set of orders, any writers  *)
(* and any baseline.                                                       *)
(***************************************************************************)
EXTENDS OrderTraffic, FiniteSetTheorems, TLAPS

AnyStatus == Statuses \cup {"unused", "deleted"}
Writes == [order : Orders, to : Statuses] \cup {NoWrite}

Types == /\ status \in [Orders -> AnyStatus]
         /\ pc \in [Demos -> {"count", "seed", "run", "gaveUp"}]
         /\ deficit \in [Demos -> Nat]
         /\ write \in [Writers -> Writes]
         /\ stale \subseteq Writers
         /\ cut \subseteq Demos

(* A write that is under way and not stale is one its writer could choose  *)
(* for the order as it is now.                                             *)
FreshOK ==
    \A w \in Writers \ stale :
        write[w] # NoWrite =>
            /\ status[write[w].order] \in Statuses \ Terminal
            /\ write[w].to \in Choices(w, status[write[w].order])

(* The orders there are, and those a baseline has still to make, are       *)
(* enough.                                                                 *)
EnoughOK ==
    \A d \in Demos \ cut :
        /\ pc[d] = "seed" => Cardinality(Present) + deficit[d] >= Target
        /\ pc[d] = "run" => Cardinality(Present) >= Target

Inv == Types /\ FreshOK /\ EnoughOK

-----------------------------------------------------------------------------
(* The orders are finitely many, so any of them can be counted.            *)
LEMMA CountOf == ASSUME NEW S \in SUBSET Orders
                 PROVE  IsFiniteSet(S) /\ Cardinality(S) \in Nat
BY TrafficAssumption, FS_Subset, FS_CardinalityType

(* What a write does to an order. *)
LEMMA PutIs ==
    ASSUME Types, NEW o \in Orders, NEW s \in AnyStatus, Put(o, s)
    PROVE  /\ status' \in [Orders -> AnyStatus] /\ stale' \subseteq Writers
           /\ status'[o] = s /\ \A p \in Orders : p # o => status'[p] = status[p]
           /\ stale \subseteq stale'
           /\ \A w \in Writers \ stale' : write[w].order # o
BY DEF Put, Types

(* An insert makes one more. *)
LEMMA InsertIs ==
    ASSUME Types, NEW s \in Statuses, Insert(s)
    PROVE  /\ \E o \in Orders : status[o] = "unused" /\ Put(o, s)
           /\ Cardinality(Present)' = Cardinality(Present) + 1
<1>1. PICK o \in Orders : status[o] = "unused" /\ Put(o, s)
  BY DEF Insert
<1>2. s \in AnyStatus
  BY DEF AnyStatus
<1>3. status'[o] = s /\ \A p \in Orders : p # o => status'[p] = status[p]
  BY <1>1, <1>2, PutIs
<1>4. Present' = Present \cup {o} /\ o \notin Present
  <2>1. o \notin Present
    BY <1>1 DEF Present, Statuses
  <2>2. \A p \in Orders : p \in Present' <=> p \in Present \/ p = o
    BY <1>3 DEF Present
  <2> QED
    BY <2>1, <2>2 DEF Present
<1>5. Cardinality(Present \cup {o}) = Cardinality(Present) + 1
  BY <1>4, CountOf, FS_AddElement DEF Present
<1> QED
  BY <1>1, <1>4, <1>5

(* An update leaves the orders there are. *)
LEMMA UpdateIs ==
    ASSUME Types, NEW o \in Orders, NEW s \in Statuses, Update(o, s)
    PROVE  Present' = Present
<1>1. CASE o \in Present
  <2>1. status'[o] = s /\ \A p \in Orders : p # o => status'[p] = status[p]
    BY <1>1, PutIs DEF Update, AnyStatus
  <2> QED
    BY <1>1, <2>1 DEF Present
<1>2. CASE o \notin Present
  BY <1>2 DEF Update, Present
<1> QED
  BY <1>1, <1>2

(* What a writer chooses is a status.                                      *)
LEMMA ChoicesType ==
    ASSUME NEW w \in Writers, NEW s \in Statuses
    PROVE  Choices(w, s) \subseteq Statuses
BY DEF Choices, Progression, Statuses

-----------------------------------------------------------------------------
(* A step that puts a status or leaves all as it is, with the writes.      *)
LEMMA FreshUnderPut ==
    ASSUME Types, FreshOK, NEW o \in Orders, NEW s \in AnyStatus, Put(o, s),
           \A w \in Writers : write'[w] = write[w] \/ write'[w] = NoWrite
    PROVE  FreshOK'
<1> SUFFICES ASSUME NEW w \in Writers \ stale', write'[w] # NoWrite
             PROVE  /\ status'[write'[w].order] \in Statuses \ Terminal
                    /\ write'[w].to \in Choices(w, status'[write'[w].order])
  BY DEF FreshOK, Choices
<1>1. write'[w] = write[w] /\ w \notin stale /\ write[w].order # o
  BY PutIs
<1>2. write[w].order \in Orders
  BY <1>1 DEF Types, Writes
<1>3. status'[write[w].order] = status[write[w].order]
  BY <1>1, <1>2, PutIs
<1> QED
  BY <1>1, <1>3 DEF FreshOK

(* A step that writes no status keeps fresh what was.                      *)
LEMMA FreshUnderNothing ==
    ASSUME Types, FreshOK, UNCHANGED <<status, stale>>,
           \A w \in Writers : write'[w] = write[w] \/ write'[w] = NoWrite
    PROVE  FreshOK'
<1> SUFFICES ASSUME NEW w \in Writers \ stale', write'[w] # NoWrite
             PROVE  /\ status'[write'[w].order] \in Statuses \ Terminal
                    /\ write'[w].to \in Choices(w, status'[write'[w].order])
  BY DEF FreshOK, Choices
<1> QED
  BY DEF FreshOK

(* The baselines while the orders there are do not become fewer. *)
LEMMA EnoughGrows ==
    ASSUME EnoughOK, UNCHANGED <<pc, deficit, cut>>, Types,
           Cardinality(Present)' >= Cardinality(Present), Cardinality(Present)' \in Nat
    PROVE  EnoughOK'
<1>1. Cardinality(Present) \in Nat /\ Target \in Nat
  BY CountOf, TrafficAssumption DEF Present
<1> DEFINE n == Cardinality(Present)
<1>2. ASSUME NEW d \in Demos \ cut
      PROVE  /\ pc[d] = "seed" => n' + deficit[d] >= Target
             /\ pc[d] = "run" => n' >= Target
  <2>1. deficit[d] \in Nat
    BY DEF Types
  <2>2. /\ pc[d] = "seed" => n + deficit[d] >= Target
        /\ pc[d] = "run" => n >= Target
    BY DEF EnoughOK
  <2> HIDE DEF n
  <2> QED
    BY <1>1, <2>1, <2>2 DEF n
<1> QED
  BY <1>2 DEF EnoughOK

-----------------------------------------------------------------------------
(* A step of the baseline counts what it adds.                             *)
LEMMA BaselineStep ==
    ASSUME Inv, NEW d \in Demos, Count(d) \/ Seed(d) \/ Seeded(d) \/ SeedFails(d)
    PROVE  Inv'
<1> DEFINE n == Cardinality(Present)
<1>1. Types /\ FreshOK /\ EnoughOK /\ n \in Nat /\ Target \in Nat
  BY CountOf, TrafficAssumption DEF Inv, Present
<1>2. \A e \in Demos \ cut : /\ pc[e] = "seed" => n + deficit[e] >= Target
                             /\ pc[e] = "run" => n >= Target
  BY <1>1 DEF EnoughOK
<1>3. CASE Count(d)
  <2>1. Deficit \in Nat /\ n + Deficit >= Target
    <3>1. Deficit = IF n < Target THEN Target - n ELSE 0
      BY DEF Deficit
    <3> HIDE DEF n
    <3> QED
      BY <1>1, <3>1
  <2>2. Types'
    BY <1>1, <1>3, <2>1 DEF Count, Types
  <2>3. FreshOK'
    BY <1>1, <1>3, FreshUnderNothing DEF Count
  <2>4. n' = n
    BY <1>3 DEF Count, Present
  <2>5. EnoughOK'
    BY <1>1, <1>2, <1>3, <2>1, <2>4 DEF Count, EnoughOK, Types
  <2> QED
    BY <2>2, <2>3, <2>5 DEF Inv
<1>4. CASE Seed(d)
  <2>1. "pending" \in Statuses /\ Insert("pending")
    BY <1>4 DEF Seed, Statuses
  <2>2. n' = n + 1
    BY <1>1, <2>1, InsertIs
  <2>3. PICK o \in Orders : status[o] = "unused" /\ Put(o, "pending")
    BY <1>1, <2>1, InsertIs
  <2>4. "pending" \in AnyStatus
    BY DEF AnyStatus, Statuses
  <2>5. deficit[d] \in Nat \ {0} /\ deficit' = [deficit EXCEPT ![d] = @ - 1]
    BY <1>1, <1>4 DEF Seed, Types
  <2>6. Types'
    BY <1>1, <1>4, <2>3, <2>4, <2>5, PutIs DEF Seed, Types
  <2>7. FreshOK'
    BY <1>1, <1>4, <2>3, <2>4, FreshUnderPut DEF Seed
  <2>8. ASSUME NEW e \in Demos \ cut
        PROVE  /\ pc[e] = "seed" => n' + deficit'[e] >= Target
               /\ pc[e] = "run" => n' >= Target
    <3>1. deficit[e] \in Nat /\ deficit'[e] \in {deficit[e], deficit[e] - 1}
      BY <1>1, <2>5 DEF Types
    <3> HIDE DEF n
    <3> QED
      BY <1>1, <1>2, <2>2, <2>8, <3>1
  <2>9. EnoughOK'
    BY <1>4, <2>8 DEF Seed, EnoughOK
  <2> QED
    BY <2>6, <2>7, <2>9 DEF Inv
<1>5. CASE Seeded(d) \/ SeedFails(d)
  <2>1. UNCHANGED <<status, deficit, write, stale, cut>> /\ n' = n
    BY <1>5 DEF Seeded, SeedFails, Present
  <2>2. Types'
    BY <1>1, <1>5, <2>1 DEF Seeded, SeedFails, Types
  <2>3. FreshOK'
    BY <1>1, <2>1, FreshUnderNothing
  <2>4. ASSUME NEW e \in Demos \ cut
        PROVE  /\ pc'[e] = "seed" => n + deficit[e] >= Target
               /\ pc'[e] = "run" => n >= Target
    <3>1. CASE Seeded(d) /\ e = d
      <4>1. deficit[d] = 0 /\ pc[d] = "seed" /\ pc'[d] = "run"
        BY <1>1, <3>1 DEF Seeded, Types
      <4> HIDE DEF n
      <4> QED
        BY <1>1, <1>2, <2>4, <3>1, <4>1
    <3>2. CASE SeedFails(d) /\ e = d
      BY <1>1, <3>2 DEF SeedFails, Types
    <3>3. CASE e # d
      BY <1>1, <1>2, <1>5, <3>3 DEF Seeded, SeedFails, Types
    <3> QED
      BY <1>5, <3>1, <3>2, <3>3
  <2>5. EnoughOK'
    BY <2>1, <2>4 DEF EnoughOK
  <2> QED
    BY <2>2, <2>3, <2>5 DEF Inv
<1> QED
  BY <1>3, <1>4, <1>5

(* An insert that is not a baseline's. *)
LEMMA InsertStep ==
    ASSUME Inv, NEW s \in Statuses, Insert(s), UNCHANGED <<pc, deficit, write, cut>>
    PROVE  Inv'
<1>1. Types /\ FreshOK /\ EnoughOK
  BY DEF Inv
<1>2. PICK o \in Orders : Put(o, s)
  BY <1>1, InsertIs
<1>3. s \in AnyStatus
  BY DEF AnyStatus
<1>4. Types'
  BY <1>1, <1>2, <1>3, PutIs DEF Types
<1>5. FreshOK'
  BY <1>1, <1>2, <1>3, FreshUnderPut
<1>6. Cardinality(Present) \in Nat /\ Cardinality(Present)' = Cardinality(Present) + 1
  BY <1>1, CountOf, InsertIs DEF Present
<1>7. EnoughOK'
  BY <1>1, <1>6, EnoughGrows
<1> QED
  BY <1>4, <1>5, <1>7 DEF Inv

(* An update, of a loop or of a PATCH; or none. *)
LEMMA UpdateStep ==
    ASSUME Inv, NEW o \in Orders, NEW s \in Statuses,
           Update(o, s) \/ UNCHANGED <<status, stale>>,
           UNCHANGED <<pc, deficit, cut>>, write' \in [Writers -> Writes],
           \A w \in Writers : write'[w] = write[w] \/ write'[w] = NoWrite
    PROVE  Inv'
<1>1. Types /\ FreshOK /\ EnoughOK
  BY DEF Inv
<1>2. s \in AnyStatus
  BY DEF AnyStatus
<1>3. Put(o, s) \/ UNCHANGED <<status, stale>>
  BY DEF Update
<1>4. Types'
  BY <1>1, <1>2, <1>3, PutIs DEF Types
<1>5. FreshOK'
  BY <1>1, <1>2, <1>3, FreshUnderPut, FreshUnderNothing
<1>6. Present' = Present
  BY <1>1, UpdateIs DEF Present
<1>7. Cardinality(Present) \in Nat
  BY CountOf DEF Present
<1>8. EnoughOK'
  BY <1>1, <1>6, <1>7, EnoughGrows
<1> QED
  BY <1>4, <1>5, <1>8 DEF Inv

(* A deletion makes writes stale and cuts every baseline.                  *)
LEMMA DeleteStep ==
    ASSUME Inv, NEW S \in SUBSET Orders, DeleteAll(S)
    PROVE  Inv'
<1>1. Types /\ FreshOK /\ EnoughOK
  BY DEF Inv
<1>2. status' \in [Orders -> AnyStatus] /\ cut' = Demos /\ stale' \subseteq Writers
  BY <1>1 DEF DeleteAll, Types, AnyStatus
<1>3. ASSUME NEW w \in Writers \ stale', write'[w] # NoWrite
      PROVE  /\ status'[write'[w].order] \in Statuses \ Terminal
             /\ write'[w].to \in Choices(w, status'[write'[w].order])
  <2>1. write'[w] = write[w] /\ w \notin stale /\ write[w].order \notin S
    BY <1>3 DEF DeleteAll
  <2>2. write[w].order \in Orders
    BY <1>1, <1>3, <2>1 DEF Types, Writes
  <2>3. status'[write[w].order] = status[write[w].order]
    BY <2>1, <2>2 DEF DeleteAll
  <2> QED
    BY <1>1, <1>3, <2>1, <2>3 DEF FreshOK
<1>4. FreshOK'
  BY <1>3 DEF FreshOK, Choices
<1>5. Types' /\ EnoughOK'
  BY <1>1, <1>2 DEF DeleteAll, Types, EnoughOK
<1> QED
  BY <1>4, <1>5 DEF Inv

(* A writer picks a status that fits what it sees.                         *)
LEMMA PickStep ==
    ASSUME Inv, NEW v \in Writers, Pick(v)
    PROVE  Inv'
<1>1. Types /\ FreshOK /\ EnoughOK
  BY DEF Inv
<1>2. PICK o \in Open, s \in Statuses :
         /\ s \in Choices(v, status[o])
         /\ write' = [write EXCEPT ![v] = [order |-> o, to |-> s]]
  BY DEF Pick
<1>3. o \in Orders /\ status[o] \in Statuses \ Terminal
  BY DEF Open, Present
<1>4. /\ stale' = stale \ {v} /\ UNCHANGED <<status, pc, deficit, cut>>
      /\ write'[v] = [order |-> o, to |-> s]
      /\ \A w \in Writers \ {v} : write'[w] = write[w]
  BY <1>1, <1>2 DEF Pick, Types
<1>5. Types'
  BY <1>1, <1>2, <1>3, <1>4 DEF Types, Writes
<1>6. ASSUME NEW w \in Writers \ stale', write'[w] # NoWrite
      PROVE  /\ status'[write'[w].order] \in Statuses \ Terminal
             /\ write'[w].to \in Choices(w, status'[write'[w].order])
  <2>1. CASE w = v
    BY <1>2, <1>3, <1>4, <2>1
  <2>2. CASE w # v
    BY <1>1, <1>4, <1>6, <2>2 DEF FreshOK
  <2> QED
    BY <2>1, <2>2
<1>7. FreshOK'
  BY <1>6 DEF FreshOK, Choices
<1>8. EnoughOK'
  BY <1>1, <1>4 DEF EnoughOK, Present
<1> QED
  BY <1>5, <1>7, <1>8 DEF Inv

(* A write that is sent ends.                                              *)
LEMMA SendIs ==
    ASSUME Types, NEW v \in Writers, Send(v)
    PROVE  /\ write[v].order \in Orders /\ write[v].to \in Statuses
           /\ write' \in [Writers -> Writes] /\ write'[v] = NoWrite
           /\ \A w \in Writers : write'[w] = write[w] \/ write'[w] = NoWrite
BY DEF Send, Types, Writes

-----------------------------------------------------------------------------
(* The invariant of the traffic.                                           *)
THEOREM InvHolds == Spec => []Inv
<1>1. Init => Inv
  BY DEF Init, Inv, Types, FreshOK, EnoughOK, AnyStatus, Writes, Statuses
<1>2. Inv /\ [Next]_vars => Inv'
  <2> SUFFICES ASSUME Inv, [Next]_vars PROVE Inv'
    OBVIOUS
  <2>1. CASE UNCHANGED vars
    BY <2>1 DEF vars, Inv, Types, FreshOK, Choices, EnoughOK, Present
  <2>2. ASSUME NEW d \in Demos, Count(d) \/ Seed(d) \/ Seeded(d) \/ SeedFails(d)
        PROVE  Inv'
    BY <2>2, BaselineStep
  <2>3. ASSUME NEW w \in Writers, New(w) PROVE Inv'
    BY <2>3, InsertStep DEF New, Statuses
  <2>4. ASSUME NEW w \in Writers, Pick(w) PROVE Inv'
    BY <2>4, PickStep
  <2>5. ASSUME NEW w \in Writers, Send(w) PROVE Inv'
    <3>1. Types
      BY DEF Inv
    <3> QED
      BY <2>5, <3>1, SendIs, UpdateStep DEF Send
  <2>6. ASSUME NEW s \in Statuses, Create(s) PROVE Inv'
    BY <2>6, InsertStep DEF Create
  <2>7. ASSUME NEW o \in Orders, NEW s \in Statuses, Patch(o, s) PROVE Inv'
    <3>1. write' = write /\ write \in [Writers -> Writes]
      BY <2>7 DEF Patch, Inv, Types
    <3> QED
      BY <2>7, <3>1, UpdateStep DEF Patch
  <2>8. ASSUME NEW o \in Orders, Delete(o) PROVE Inv'
    BY <2>8, DeleteStep DEF Delete
  <2>9. ASSUME Reset PROVE Inv'
    BY <2>9, DeleteStep DEF Reset, Present
  <2> QED
    BY <2>1, <2>2, <2>3, <2>4, <2>5, <2>6, <2>7, <2>8, <2>9 DEF Next, Task, Api
<1> QED
  BY <1>1, <1>2, PTL DEF Spec

(* A demo whose baseline is complete and under which nothing was deleted   *)
(* has its Target of orders, whoever else inserts.                         *)
THEOREM BaselineHolds == Spec => []BaselineFills
<1>1. Inv => BaselineFills
  BY DEF Inv, EnoughOK, BaselineFills
<1> QED
  BY <1>1, InvHolds, PTL

Strays ==
    \A o \in Present : status'[o] \in Statuses \ {status[o]}
      => \/ status'[o] \in Progression[status[o]]
         \/ \E w \in Writers :
              /\ write[w] = [order |-> o, to |-> status'[o]]
              /\ write'[w] # write[w]
              /\ \/ w \in stale
                 \/ w \in Simulators /\ status[o] = "shipped"
         \/ write' = write

(* A loop that sends a write that is not stale moves the order along. *)
LEMMA SendIsForward ==
    ASSUME Inv, NEW v \in Writers, Send(v)
    PROVE  Strays
<1> SUFFICES ASSUME NEW o \in Present, status'[o] \in Statuses \ {status[o]}
             PROVE  \/ status'[o] \in Progression[status[o]]
                    \/ /\ write[v] = [order |-> o, to |-> status'[o]]
                       /\ write'[v] # write[v]
                       /\ v \in stale \/ (v \in Simulators /\ status[o] = "shipped")
  BY DEF Strays
<1>1. Types /\ FreshOK
  BY DEF Inv
<1>2. Put(write[v].order, write[v].to) /\ write[v] # NoWrite
  BY DEF Send, Update
<1>3. write[v].order \in Orders /\ write[v].to \in AnyStatus /\ write'[v] = NoWrite
  BY <1>1, SendIs DEF AnyStatus
<1>4. write[v].order = o /\ write[v].to = status'[o]
  BY <1>1, <1>2, <1>3, PutIs DEF Present
<1>5. write[v] = [order |-> o, to |-> status'[o]]
  BY <1>1, <1>2, <1>4 DEF Types, Writes
<1>6. CASE v \notin stale
  <2>1. status[o] \in Statuses \ Terminal /\ status'[o] \in Choices(v, status[o])
    BY <1>1, <1>2, <1>4, <1>6 DEF FreshOK
  <2>2. CASE status'[o] \in Progression[status[o]]
    BY <2>2
  <2>3. CASE status'[o] = "cancelled" /\ v \in Simulators
    <3>1. status[o] \in {"pending", "validating", "shipped"}
      BY <2>1 DEF Statuses, Terminal
    <3>2. CASE status[o] = "shipped"
      BY <1>2, <1>3, <1>5, <2>3, <3>2
    <3>3. CASE status[o] \in {"pending", "validating"}
      BY <2>3, <3>3 DEF Progression
    <3> QED
      BY <3>1, <3>2, <3>3
  <2> QED
    BY <2>1, <2>2, <2>3 DEF Choices
<1>7. CASE v \in stale
  BY <1>2, <1>3, <1>5, <1>7
<1> QED
  BY <1>6, <1>7

(* Left alone by PATCH, an order strays from STATUS_PROGRESSION only by a  *)
(* stale write, or by a simulator that cancels a shipped one.              *)
THEOREM StrayingHolds == Spec => StraysOnlyByStale
<1>1. Inv /\ [Next]_vars => [Strays]_vars
  <2> SUFFICES ASSUME Inv, Next PROVE Strays
    OBVIOUS
  <2>1. ASSUME UNCHANGED status PROVE Strays
    BY <2>1 DEF Strays
  <2>2. ASSUME UNCHANGED write PROVE Strays
    BY <2>2 DEF Strays
  <2>3. ASSUME NEW w \in Writers, Send(w) PROVE Strays
    BY <2>3, SendIsForward
  <2>4. ASSUME NEW d \in Demos, Count(d) \/ Seed(d) \/ Seeded(d) \/ SeedFails(d)
        PROVE  Strays
    BY <2>2, <2>4 DEF Count, Seed, Seeded, SeedFails
  <2>5. ASSUME NEW w \in Writers, New(w) \/ Pick(w) PROVE Strays
    BY <2>1, <2>2, <2>5 DEF New, Pick
  <2>6. ASSUME Api PROVE Strays
    BY <2>2, <2>6 DEF Api, Create, Patch, Delete, Reset, DeleteAll
  <2> QED
    BY <2>3, <2>4, <2>5, <2>6 DEF Next, Task
<1> QED
  BY <1>1, InvHolds, PTL DEF Spec, StraysOnlyByStale, Strays
=============================================================================
