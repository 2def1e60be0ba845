----------------------------- MODULE OrderTraffic -----------------------------
(***************************************************************************)
(* Who writes to the orders collection: the demo's task (app/demo.py), the *)
(* simulator (scripts/simulator.py), the API (routes/orders.py), seed.py   *)
(* and the deletion of a reset.  The demo and the simulator read the open  *)
(* orders, pick one and a new status for it, and write that status later,  *)
(* without looking at the order again.                                     *)
(***************************************************************************)
EXTENDS Naturals, FiniteSets

CONSTANTS Orders,      \* order ids; a uuid4 is not used twice
          Demos,       \* the demo tasks: two in a deploy overlap
          Simulators,  \* the update loops of running simulators
          Target       \* the baseline of a demo: 20

ASSUME TrafficAssumption == /\ Demos \cap Simulators = {}
                            /\ IsFiniteSet(Orders) /\ Target \in Nat

Writers  == Demos \cup Simulators
Statuses == {"pending", "validating", "shipped", "delivered", "cancelled"}
Terminal == {"delivered", "cancelled"}
NoOrder  == "none"
NoWrite  == [order |-> NoOrder, to |-> "none"]

VARIABLES status,   \* of each order; "unused" before it exists, then "deleted"
          pc,       \* of each demo: "count", "seed", "run", or "gaveUp" for one
                    \* that runs with its baseline incomplete
          deficit,  \* the orders its baseline has still to insert
          write,    \* the write a writer is about to send
          stale,    \* the writers whose order changed since they read it (history)
          cut       \* the demos that had orders deleted under them (history)

vars == <<status, pc, deficit, write, stale, cut>>

Present == {o \in Orders : status[o] \in Statuses}

Init == /\ status \in [Orders -> {"unused", "pending", "delivered"}]
        /\ pc = [d \in Demos |-> "count"]
        /\ deficit = [d \in Demos |-> 0]
        /\ write = [w \in Writers |-> NoWrite]
        /\ stale = {} /\ cut = {}

-----------------------------------------------------------------------------
(* STATUS_PROGRESSION *)
Progression == [pending    |-> {"validating", "cancelled"},
                validating |-> {"shipped", "cancelled"},
                shipped    |-> {"delivered"},
                delivered  |-> {},
                cancelled  |-> {}]

(* Order o gets status s, and whoever holds it holds an old copy from now  *)
(* on.                                                                     *)
Put(o, s) == /\ status' = [status EXCEPT ![o] = s]
             /\ stale' = stale \cup {w \in Writers : write[w].order = o}

Insert(s) == \E o \in Orders : status[o] = "unused" /\ Put(o, s)

(* update_one by _id: nothing when the order is gone. *)
Update(o, s) == IF o \in Present THEN Put(o, s) ELSE UNCHANGED <<status, stale>>

-----------------------------------------------------------------------------
(* The baseline of a demo.                                                 *)

\* mutant: range(deficit - 1)
DeficitShort == LET n == Cardinality(Present)
                IN IF n + 1 < Target THEN Target - 1 - n ELSE 0
(* max(0, target - existing) *)
Deficit == LET n == Cardinality(Present) IN IF n < Target THEN Target - n ELSE 0

Count(d) == /\ pc[d] = "count"
            /\ deficit' = [deficit EXCEPT ![d] = Deficit]
            /\ pc' = [pc EXCEPT ![d] = "seed"]
            /\ cut' = cut \ {d}
            /\ UNCHANGED <<status, write, stale>>

Seed(d) == /\ pc[d] = "seed" /\ deficit[d] > 0
           /\ Insert("pending")
           /\ deficit' = [deficit EXCEPT ![d] = @ - 1]
           /\ UNCHANGED <<pc, write, cut>>

Seeded(d) == /\ pc[d] = "seed" /\ deficit[d] = 0
             /\ pc' = [pc EXCEPT ![d] = "run"]
             /\ UNCHANGED <<status, deficit, write, stale, cut>>

(* The count or an insert raises: the loop begins all the same.            *)
SeedFails(d) == /\ pc[d] \in {"count", "seed"}
                /\ pc' = [pc EXCEPT ![d] = "gaveUp"]
                /\ UNCHANGED <<status, deficit, write, stale, cut>>

-----------------------------------------------------------------------------
(* The loops.                                                              *)

Running(w) == w \in Demos => pc[w] \in {"run", "gaveUp"}

(* _insert_one, of a loop of its own in the simulator. *)
New(w) == /\ Running(w) /\ (w \in Demos => write[w] = NoWrite)
          /\ Insert("pending")
          /\ UNCHANGED <<pc, deficit, write, cut>>

\* mutant: only cancelled orders are left out of the candidates
OpenButCancelled == {o \in Present : status[o] # "cancelled"}
(* The candidates: {"status": {"$nin": ["delivered", "cancelled"]}}. *)
Open == {o \in Present : status[o] \notin Terminal}

(* What may become of a candidate with status s: a step forward or a       *)
(* cancellation; the simulator cancels shipped orders, too.                *)
Choices(w, s) == Progression[s] \cup (IF w \in Simulators THEN {"cancelled"} ELSE {})

(* _update_one and _cancel_one up to the write. *)
Pick(w) == /\ Running(w) /\ write[w] = NoWrite
           /\ \E o \in Open, s \in Statuses :
                /\ s \in Choices(w, status[o])
                /\ write' = [write EXCEPT ![w] = [order |-> o, to |-> s]]
           /\ stale' = stale \ {w}
           /\ UNCHANGED <<status, pc, deficit, cut>>

(* update_one; or it raises, and the loop goes on. *)
Send(w) == /\ write[w] # NoWrite
           /\ \/ Update(write[w].order, write[w].to)
              \/ UNCHANGED <<status, stale>>
           /\ write' = [write EXCEPT ![w] = NoWrite]
           /\ UNCHANGED <<pc, deficit, cut>>

-----------------------------------------------------------------------------
(* POST /orders and seed.py; PATCH; DELETE; the delete_many of a reset.    *)

Create(s) == Insert(s) /\ UNCHANGED <<pc, deficit, write, cut>>

Patch(o, s) == /\ o \in Present /\ Update(o, s)
               /\ UNCHANGED <<pc, deficit, write, cut>>

DeleteAll(S) ==
    /\ S # {}
    /\ status' = [o \in Orders |-> IF o \in S THEN "deleted" ELSE status[o]]
    /\ stale' = stale \cup {w \in Writers : write[w].order \in S}
    /\ cut' = Demos
    /\ UNCHANGED <<pc, deficit, write>>

Delete(o) == o \in Present /\ DeleteAll({o})

Reset == DeleteAll(Present)

Task == \/ \E d \in Demos : Count(d) \/ Seed(d) \/ Seeded(d) \/ SeedFails(d)
        \/ \E w \in Writers : New(w) \/ Pick(w) \/ Send(w)

Api == \/ \E s \in Statuses : Create(s) \/ \E o \in Orders : Patch(o, s)
       \/ \E o \in Orders : Delete(o)
       \/ Reset

Next == Task \/ Api

Spec == Init /\ [][Next]_vars

-----------------------------------------------------------------------------
(* Left alone by PATCH, an order goes its way along STATUS_PROGRESSION,    *)
(* and a delivered or cancelled one stays as it is; it strays only by a    *)
(* write whose writer read it before another writer changed it, or by a    *)
(* simulator that cancels a shipped one.                                   *)
StraysOnlyByStale ==
    [][\A o \in Present : status'[o] \in Statuses \ {status[o]}
         => \/ status'[o] \in Progression[status[o]]
            \/ \E w \in Writers :
                 /\ write[w] = [order |-> o, to |-> status'[o]]
                 /\ write'[w] # write[w]
                 /\ \/ w \in stale
                    \/ w \in Simulators /\ status[o] = "shipped"
            \/ write' = write]_vars

(* A demo whose baseline is complete, and under which nothing was deleted  *)
(* meanwhile, has found or made its Target of orders, whoever else writes. *)
BaselineFills ==
    \A d \in Demos : pc[d] = "run" /\ d \notin cut => Cardinality(Present) >= Target
=============================================================================
