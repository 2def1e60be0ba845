-------------------------- MODULE OrderStreamProofs --------------------------
(***************************************************************************)
(* Theorems about the way of an event: the buffer by itself                *)
(* (CohesionBuffer), for any orders, documents, windows and any number of  *)
(* changes, and the buffer with the broker behind it (OrderStream), for    *)
(* any clients and filters, too.                                           *)
(***************************************************************************)
EXTENDS OrderStream, SequenceTheorems, FiniteSetTheorems, TLAPS

(* The theorems about diffs; those about a walk are not needed here. *)
Diff == INSTANCE OrderDiffProofs WITH first <- NoDoc, latest <- NoDoc, merged <- {}

(* Diffs are made of entries, computed or merged, and merging those of two *)
(* updates in a row tells the difference of the ends, even if the first    *)
(* had no before image.                                                    *)
LEMMA DiffFacts ==
    /\ \A b, a \in Docs \cup {NoDoc} : ComputeDiff(b, a) \in SUBSET Diffs
    /\ \A i, l \in SUBSET Diffs : MergeDiffs(i, l) \in SUBSET Diffs
    /\ \A b \in Docs \cup {NoDoc} : \A m, a \in Docs :
         Changes(MergeDiffs(ComputeDiff(b, m), ComputeDiff(m, a)))
           = Changes(ComputeDiff(b, a))
<1>1. Diff!Docs = Docs /\ Diff!Diffs = Diffs
  BY DEF Diff!Docs, Docs, Diff!Diffs, Diffs
<1>2. \A b, a : Diff!ComputeDiff(b, a) = ComputeDiff(b, a)
  BY DEF Diff!ComputeDiff, Diff!ChangedFields, Diff!Entry, Diff!Get,
         ComputeDiff, ChangedFields, Entry, Get
<1>3. \A i, l : Diff!MergeDiffs(i, l) = MergeDiffs(i, l)
  BY DEF Diff!MergeDiffs, Diff!Entry, MergeDiffs, Entry
<1>4. \A d : Diff!Changes(d) = Changes(d)
  BY DEF Diff!Changes, Changes
<1>5. Diff!DocAssumption
  BY DocAssumption, <1>1 DEF Diff!DocAssumption
<1>6. \A b, a \in Docs \cup {NoDoc} : ComputeDiff(b, a) \in SUBSET Diffs
  BY <1>1, <1>2, <1>5, Diff!ComputedDiffs
<1>7. \A i, l \in SUBSET Diffs : MergeDiffs(i, l) \in SUBSET Diffs
  BY <1>1, <1>3, <1>5, Diff!MergedDiffs
<1>8. ASSUME NEW b \in Docs \cup {NoDoc}, NEW m \in Docs, NEW a \in Docs
      PROVE  Changes(MergeDiffs(ComputeDiff(b, m), ComputeDiff(m, a)))
               = Changes(ComputeDiff(b, a))
  <2>1. CASE b \in Docs
    <3>1. MergeDiffs(ComputeDiff(b, m), ComputeDiff(m, a)) = ComputeDiff(b, a)
      BY <1>1, <1>2, <1>3, <1>5, <2>1, Diff!MergeTwo
    <3> QED
      BY <3>1
  <2>2. CASE b = NoDoc
    BY <1>1, <1>2, <1>3, <1>4, <1>5, <2>2, Diff!MergeFresh
  <2> QED
    BY <2>1, <2>2
<1> QED
  BY <1>6, <1>7, <1>8

Images == Docs \cup {NoDoc}
Event == [seq : Nat, order : Orders, diff : SUBSET Diffs, intent : Intents,
          before : Images, after : Images, count : Nat]
Waiting == [initial : Event, latest : Event, count : Nat]

Types == /\ docs \in [Orders -> Images]
         /\ cache \in [Orders -> Images]
         /\ events \in Seq(Event)
         /\ pending \in [Orders -> Waiting \cup {NoPending}]
         /\ timers \in [Orders -> Nat]
         /\ emitted \in [Orders -> Seq(Event)]
         /\ running \in BOOLEAN

Waits(o) == pending[o] # NoPending

TimerOK(o) == timers[o] = IF Waits(o) THEN 1 ELSE 0

OwnDiff(e) == e.diff = ComputeDiff(e.before, e.after)

(* What waits for an order is an update, or several made one.              *)
WaitOK(o) ==
    Waits(o) => /\ pending[o].count \in Nat \ {0}
                /\ pending[o].latest.count = pending[o].count
                /\ ~Passes(pending[o].latest)
                /\ pending[o].latest.before = pending[o].initial.before
                /\ pending[o].initial.after \in Docs
                /\ pending[o].latest.after \in Docs
                /\ OwnDiff(pending[o].initial)
                /\ \E i \in DOMAIN events : events[i].order = o /\ ~Passes(events[i])

(* The order of what went out, and of what waits behind it.                *)
SeqOK(o) ==
    /\ Waits(o) => pending[o].latest.seq <= Len(events)
    /\ \A i \in DOMAIN emitted[o] :
         /\ emitted[o][i].seq <= Len(events)
         /\ Waits(o) /\ ~Passes(emitted[o][i]) =>
              emitted[o][i].seq < pending[o].latest.seq
         /\ \A j \in DOMAIN emitted[o] :
              i < j /\ emitted[o][i].seq > emitted[o][j].seq => Passes(emitted[o][i])

(* What went out, or waits, is an event of the spine with its after image. *)
IsOf(o, e) == e.seq \in EventsOf(o) /\ e.after = events[e.seq].after

SourceOK(o) ==
    /\ \A i \in DOMAIN emitted[o] : IsOf(o, emitted[o][i])
    /\ Waits(o) => IsOf(o, pending[o].latest)

(* Seam, of the events ev[n] with n in S. *)
SeamIn(S, ev, n, m) == /\ n \in S /\ m \in S /\ n < m
                       /\ \A k \in S : k <= n \/ m <= k
                       /\ ev[m].before # ev[n].after

Newest(S, n) == \A k \in S : k <= n

(* Event f, which goes out after e, starts where e ended, or the spine has *)
(* a seam there.                                                           *)
Joins(S, ev, e, f) == f.before = e.after \/ \E m \in S : SeamIn(S, ev, e.seq, m)

(* The images of an undisturbed order: of what went out, and of what waits *)
(* or is still to come.                                                    *)
ChainOK(o) ==
    Undisturbed(o) =>
       /\ \A i \in DOMAIN emitted[o] : i > 1 =>
            Joins(EventsOf(o), events, emitted[o][i-1], emitted[o][i])
       /\ Waits(o) => Newest(EventsOf(o), pending[o].latest.seq)
       /\ emitted[o] # <<>> =>
            IF Waits(o)
            THEN Joins(EventsOf(o), events, Last(emitted[o]), pending[o].latest)
            ELSE Newest(EventsOf(o), Last(emitted[o]).seq)

(* Of two coalesced updates that join, the diff is exact; a third would be *)
(* merged with the first alone.                                            *)
PairOK(S, ev, e) == \/ e.count > 2 \/ Exact(e)
                    \/ e.count = 2 /\ \E n \in S : SeamIn(S, ev, n, e.seq)

DiffOK(o) ==
    Undisturbed(o) =>
       /\ \A i \in DOMAIN emitted[o] : PairOK(EventsOf(o), events, emitted[o][i])
       /\ Waits(o) => /\ pending[o].count = 1 => pending[o].latest = pending[o].initial
                      /\ PairOK(EventsOf(o), events, pending[o].latest)

OrderOK(o) == /\ TimerOK(o) /\ WaitOK(o) /\ SeqOK(o)
              /\ SourceOK(o) /\ ChainOK(o) /\ DiffOK(o)

Inv == Types /\ \A o \in Orders : OrderOK(o)

-----------------------------------------------------------------------------
(* The three things a step is for an order.                                *)
Others(o) == \/ events' = events
             \/ \E e \in Event : e.order # o /\ events' = Append(events, e)

Untouched(o) == /\ Others(o)
                /\ pending'[o] = pending[o] /\ timers'[o] = timers[o]
                /\ emitted'[o] = emitted[o]

Sent(o) == /\ events' = events
           /\ Waits(o) /\ pending'[o] = NoPending /\ timers'[o] = 0
           /\ emitted'[o] = Append(emitted[o], pending[o].latest)

IsNew(e, o) ==
    /\ e.seq = Len(events) + 1 /\ e.order = o /\ e.count = 1
    /\ OwnDiff(e)
    /\ ~Passes(e) => e.after \in Docs

Passed(o, e) == /\ Passes(e)
                /\ emitted'[o] = Append(emitted[o], e)
                /\ pending'[o] = pending[o] /\ timers'[o] = timers[o]

Queued(o, e) == /\ ~Passes(e) /\ ~Waits(o)
                /\ pending'[o] = [initial |-> e, latest |-> e, count |-> 1]
                /\ timers'[o] = timers[o] + 1 /\ emitted'[o] = emitted[o]

Merged(o, e) == /\ ~Passes(e) /\ Waits(o)
                /\ pending'[o] = [initial |-> pending[o].initial,
                                   latest |-> Coalesced(pending[o], e),
                                   count |-> pending[o].count + 1]
                /\ timers'[o] = timers[o] /\ emitted'[o] = emitted[o]

Changed(o, e) ==
    /\ IsNew(e, o) /\ events' = Append(events, e)
    /\ Passed(o, e) \/ Queued(o, e) \/ Merged(o, e)

(* The intent of a change is one of the six; an insert and a delete are    *)
(* urgent.                                                                 *)
LEMMA ClassifyType ==
    ASSUME NEW op \in {"insert", "delete", "update"}, NEW b, NEW a, NEW diff
    PROVE  Classify(op, b, a, diff) \in Intents
BY DEF Classify, Intents

(* Creations and deletions are urgent: they never wait.                    *)
LEMMA InsertsPass ==
    ASSUME NEW op \in {"insert", "delete"}, NEW b, NEW a, NEW diff
    PROVE  Priority(Classify(op, b, a, diff)) = "urgent"
BY DEF Classify, Priority

(* The event that is handed to the buffer. *)
LEMMA HandMakes ==
    ASSUME Types, NEW o \in Orders, NEW op \in {"insert", "delete", "update"},
           NEW before \in Images, NEW after \in Images, op = "update" => after \in Docs,
           Hand(o, op, before, after)
    PROVE  \E e \in Event : IsNew(e, o) /\ events' = Append(events, e) /\ Add(o, e)
<1> DEFINE diff == ComputeDiff(before, after)
           intent == Classify(op, before, after, diff)
           e == [seq |-> Len(events) + 1, order |-> o, diff |-> diff, intent |-> intent,
                 before |-> before, after |-> after, count |-> 1]
<1>1. events' = Append(events, e) /\ Add(o, e)
  BY DEF Hand
<1>2. diff \in SUBSET Diffs
  BY DiffFacts DEF Images
<1>3. intent \in Intents
  BY ClassifyType
<1>4. Len(events) + 1 \in Nat
  BY DEF Types
<1>5. e \in Event
  <2> HIDE DEF diff, intent
  <2> QED
    BY <1>2, <1>3, <1>4 DEF Event
<1>6. ASSUME ~Passes(e) PROVE after \in Docs
  <2>1. op \notin {"insert", "delete"}
    BY <1>6, InsertsPass DEF Passes, Urgent
  <2> QED
    BY <2>1
<1>7. IsNew(e, o)
  BY <1>6 DEF IsNew, OwnDiff
<1> QED
  BY <1>1, <1>5, <1>7

(* What the watcher does hands one event to the buffer, or leaves it alone.*)
Idle == UNCHANGED <<events, pending, timers, emitted>>

LEMMA WatchIs ==
    ASSUME Types, NEW o \in Orders, Watch(o)
    PROVE  /\ UNCHANGED running
           /\ docs' \in [Orders -> Images] /\ cache' \in [Orders -> Images]
           /\ \/ Idle
              \/ \E e \in Event : IsNew(e, o) /\ events' = Append(events, e) /\ Add(o, e)
<1>1. \A d \in OrderDocs \cup {NoDoc} : d \in Images /\ (d # NoDoc => d \in Docs)
  BY CohesionAssumption DEF Images
<1>2. \A p \in Orders : docs[p] \in Images /\ cache[p] \in Images
  BY DEF Types
<1>3. NoDoc \in Images
  BY DEF Images
<1>4. ASSUME NEW d \in OrderDocs \cup {NoDoc}, Change(o, d)
      PROVE  /\ UNCHANGED running
             /\ docs' \in [Orders -> Images] /\ cache' \in [Orders -> Images]
             /\ \E e \in Event : IsNew(e, o) /\ events' = Append(events, e) /\ Add(o, e)
  <2> DEFINE op == CASE docs[o] = NoDoc -> "insert"
                     [] d = NoDoc -> "delete"
                     [] OTHER -> "update"
             before == IF op = "insert" THEN NoDoc ELSE cache[o]
  <2>1. Hand(o, op, before, d)
    BY <1>4 DEF Change
  <2>2. /\ UNCHANGED running /\ docs' = [docs EXCEPT ![o] = d]
        /\ cache' = [cache EXCEPT ![o] = d]
    BY <1>4 DEF Change, Becomes
  <2>3. op \in {"insert", "delete", "update"} /\ (op = "update" => d # NoDoc)
    OBVIOUS
  <2>4. before \in Images /\ d \in Images /\ (op = "update" => d \in Docs)
    BY <1>1, <1>2, <1>3, <2>3
  <2> HIDE DEF op, before
  <2>5. \E e \in Event : IsNew(e, o) /\ events' = Append(events, e) /\ Add(o, e)
    BY <2>1, <2>3, <2>4, HandMakes
  <2> QED
    BY <2>2, <2>4, <2>5 DEF Types
<1>5. ASSUME NEW d \in OrderDocs \cup {NoDoc}, Miss(o, d)
      PROVE  /\ UNCHANGED running /\ Idle
             /\ docs' \in [Orders -> Images] /\ cache' \in [Orders -> Images]
  BY <1>1, <1>5 DEF Miss, Lapse, Becomes, Idle, Types
<1>6. ASSUME Forget(o) \/ Reread(o)
      PROVE  /\ UNCHANGED running /\ Idle
             /\ docs' \in [Orders -> Images] /\ cache' \in [Orders -> Images]
  BY <1>2, <1>3, <1>6 DEF Forget, Reread, Lapse, Idle, Types
<1>7. ASSUME Announce(o)
      PROVE  /\ UNCHANGED running
             /\ docs' \in [Orders -> Images] /\ cache' \in [Orders -> Images]
             /\ \E e \in Event : IsNew(e, o) /\ events' = Append(events, e) /\ Add(o, e)
  <2>1. /\ UNCHANGED <<running, docs>> /\ cache' = [cache EXCEPT ![o] = docs[o]]
        /\ Hand(o, "insert", NoDoc, docs[o])
    BY <1>7 DEF Announce
  <2>2. \E e \in Event : IsNew(e, o) /\ events' = Append(events, e) /\ Add(o, e)
    BY <1>2, <1>3, <2>1, HandMakes
  <2> QED
    BY <1>2, <2>1, <2>2 DEF Types
<1> QED
  BY <1>4, <1>5, <1>6, <1>7 DEF Watch

(* Every step is one of the three for every order. *)
LEMMA StepForOrder ==
    ASSUME Types, NEW o \in Orders, TimerOK(o), [Next]_vars
    PROVE  Untouched(o) \/ Sent(o) \/ \E e \in Event : Changed(o, e)
<1>1. CASE UNCHANGED vars
  BY <1>1 DEF vars, Untouched, Others
<1>2. ASSUME NEW p \in Orders, Watch(p)
      PROVE  Untouched(o) \/ \E e \in Event : Changed(o, e)
  <2>1. CASE Idle
    BY <2>1 DEF Idle, Untouched, Others
  <2>2. ASSUME NEW e \in Event, IsNew(e, p), events' = Append(events, e), Add(p, e)
        PROVE  Untouched(o) \/ Changed(o, e)
    <3>1. CASE p # o
      BY <2>2, <3>1 DEF Types, Untouched, Others, IsNew, Add, Emit
    <3>2. CASE p = o
      <4>1. CASE Passes(e)
        BY <2>2, <3>2, <4>1 DEF Add, Emit, Types, Passed, Changed
      <4>2. CASE ~Passes(e) /\ ~Waits(o)
        BY <2>2, <3>2, <4>2 DEF Add, Types, Queued, Waits, Changed
      <4>3. CASE ~Passes(e) /\ Waits(o)
        BY <2>2, <3>2, <4>3 DEF Add, Types, Merged, Waits, Changed
      <4> QED
        BY <4>1, <4>2, <4>3
    <3> QED
      BY <3>1, <3>2
  <2> QED
    BY <1>2, <2>1, <2>2, WatchIs
<1>3. ASSUME NEW p \in Orders, Flush(p) PROVE Untouched(o) \/ Sent(o)
  <2>1. CASE p # o
    BY <1>3, <2>1 DEF Flush, Emit, Types, Untouched, Others
  <2>2. CASE p = o
    BY <1>3, <2>2 DEF Flush, Emit, Types, Sent, TimerOK, Waits
  <2> QED
    BY <2>1, <2>2
<1>4. ASSUME FlushAll PROVE Untouched(o) \/ Sent(o)
  BY <1>4 DEF FlushAll, Types, Untouched, Others, Sent, Waits
<1> QED
  BY <1>1, <1>2, <1>3, <1>4 DEF Next

-----------------------------------------------------------------------------
(* What a coalesced event takes from which of the two.                     *)
LEMMA CoalescedIs ==
    ASSUME NEW p \in Waiting, NEW e \in Event
    PROVE  /\ Coalesced(p, e) \in Event
           /\ Coalesced(p, e).seq = e.seq /\ Coalesced(p, e).order = e.order
           /\ Coalesced(p, e).intent = e.intent /\ Coalesced(p, e).after = e.after
           /\ Coalesced(p, e).before = p.initial.before
           /\ Coalesced(p, e).count = p.count + 1
           /\ Coalesced(p, e).diff = MergeDiffs(p.initial.diff, e.diff)
<1>1. MergeDiffs(p.initial.diff, e.diff) \in SUBSET Diffs
  BY DiffFacts DEF Waiting, Event
<1> DEFINE m == MergeDiffs(p.initial.diff, e.diff)
<1>2. Coalesced(p, e) = [e EXCEPT !.diff = m, !.before = p.initial.before,
                                  !.count = p.count + 1]
  BY DEF Coalesced
<1>3. m \in SUBSET Diffs /\ p.initial.before \in Images /\ p.count + 1 \in Nat
  BY <1>1 DEF Waiting, Event
<1> HIDE DEF m
<1>4. [e EXCEPT !.diff = m, !.before = p.initial.before, !.count = p.count + 1] \in Event
  BY <1>3 DEF Event
<1>5. Coalesced(p, e).diff = m
  BY <1>2 DEF Event
<1> QED
  BY <1>2, <1>4, <1>5 DEF m, Event

(* What an entry of the buffer is.                                         *)
LEMMA WaitingIs == ASSUME Types, NEW o \in Orders, Waits(o)
                   PROVE  pending[o] \in Waiting /\ pending[o] # NoPending
BY DEF Types, Waits

(* What one order's step makes of its types. *)
LEMMA TypeOfOrder ==
    ASSUME Types, NEW o \in Orders,
           Untouched(o) \/ Sent(o) \/ \E e \in Event : Changed(o, e)
    PROVE  /\ timers'[o] \in Nat
           /\ pending'[o] \in Waiting \cup {NoPending}
           /\ emitted'[o] \in Seq(Event)
           /\ events' \in Seq(Event)
<1>1. CASE Untouched(o)
  <2>1. events' \in Seq(Event)
    <3>1. ASSUME NEW e \in Event PROVE Append(events, e) \in Seq(Event)
      BY AppendProperties DEF Types
    <3> QED
      BY <1>1, <3>1 DEF Untouched, Others, Types
  <2> QED
    BY <1>1, <2>1 DEF Untouched, Types
<1>2. CASE Sent(o)
  <2>1. pending[o].latest \in Event
    BY <1>2, WaitingIs DEF Sent, Waiting
  <2> QED
    BY <1>2, <2>1, AppendProperties DEF Sent, Types
<1>3. ASSUME NEW e \in Event, Changed(o, e)
      PROVE  /\ timers'[o] \in Nat
             /\ pending'[o] \in Waiting \cup {NoPending}
             /\ emitted'[o] \in Seq(Event) /\ events' \in Seq(Event)
  <2>1. events' \in Seq(Event)
    BY <1>3, AppendProperties DEF Changed, Types
  <2>2. CASE Passed(o, e)
    BY <2>1, <2>2, AppendProperties DEF Passed, Types
  <2>3. CASE Queued(o, e)
    BY <2>1, <2>3 DEF Queued, Types, Waiting
  <2>4. CASE Merged(o, e)
    <3>1. pending[o] \in Waiting /\ Coalesced(pending[o], e) \in Event
      BY <2>4, WaitingIs, CoalescedIs DEF Merged
    <3> QED
      BY <2>1, <2>4, <3>1 DEF Merged, Types, Waiting
  <2> QED
    BY <1>3, <2>2, <2>3, <2>4 DEF Changed
<1> QED
  BY <1>1, <1>2, <1>3

(* The functions stay functions of the orders. *)
LEMMA DomainsStay ==
    ASSUME Types, [Next]_vars
    PROVE  /\ running' \in BOOLEAN
           /\ docs' \in [Orders -> Images] /\ cache' \in [Orders -> Images]
           /\ pending' = [o \in Orders |-> pending'[o]]
           /\ timers' = [o \in Orders |-> timers'[o]]
           /\ emitted' = [o \in Orders |-> emitted'[o]]
<1>1. CASE UNCHANGED vars
  BY <1>1 DEF vars, orderVars, Types
<1>2. ASSUME NEW o \in Orders, Watch(o)
      PROVE  /\ UNCHANGED running
             /\ docs' \in [Orders -> Images] /\ cache' \in [Orders -> Images]
             /\ pending' = [p \in Orders |-> pending'[p]]
             /\ timers' = [p \in Orders |-> timers'[p]]
             /\ emitted' = [p \in Orders |-> emitted'[p]]
  <2>1. CASE Idle
    BY <1>2, <2>1, WatchIs DEF Idle, Types
  <2>2. ASSUME NEW e \in Event, Add(o, e)
        PROVE  /\ pending' = [p \in Orders |-> pending'[p]]
               /\ timers' = [p \in Orders |-> timers'[p]]
               /\ emitted' = [p \in Orders |-> emitted'[p]]
    BY <2>2 DEF Add, Emit, Types
  <2> QED
    BY <1>2, <2>1, <2>2, WatchIs
<1>3. ASSUME NEW o \in Orders, Flush(o)
      PROVE  /\ UNCHANGED <<running, docs, cache>>
             /\ pending' = [p \in Orders |-> pending'[p]]
             /\ timers' = [p \in Orders |-> timers'[p]]
             /\ emitted' = [p \in Orders |-> emitted'[p]]
  BY <1>3 DEF Flush, Emit, Types, orderVars
<1>4. CASE FlushAll
  BY <1>4 DEF FlushAll, Types, orderVars
<1> QED
  BY <1>1, <1>2, <1>3, <1>4 DEF Next, Types

(* Every step keeps the types.                                             *)
LEMMA TypeStep ==
    ASSUME Types, [Next]_vars, \A o \in Orders : TimerOK(o)
    PROVE  Types'
<1>1. \A o \in Orders : /\ timers'[o] \in Nat
                        /\ pending'[o] \in Waiting \cup {NoPending}
                        /\ emitted'[o] \in Seq(Event)
  BY StepForOrder, TypeOfOrder
<1>2. events' \in Seq(Event)
  <2>1. CASE UNCHANGED vars
    BY <2>1 DEF vars, Types
  <2>2. ASSUME NEW o \in Orders, Watch(o) PROVE events' \in Seq(Event)
    <3>1. events' = events \/ \E e \in Event : events' = Append(events, e)
      BY <2>2, WatchIs DEF Idle
    <3>2. ASSUME NEW e \in Event PROVE Append(events, e) \in Seq(Event)
      BY AppendProperties DEF Types
    <3> QED
      BY <3>1, <3>2 DEF Types
  <2>3. ASSUME NEW o \in Orders, Flush(o) PROVE events' \in Seq(Event)
    BY <2>3 DEF Flush, Types
  <2>4. CASE FlushAll
    BY <2>4 DEF FlushAll, Types
  <2> QED
    BY <2>1, <2>2, <2>3, <2>4 DEF Next
<1> QED
  BY <1>1, <1>2, DomainsStay DEF Types

-----------------------------------------------------------------------------
(* The spine grows at its end. *)
LEMMA EventsGrow ==
    ASSUME Types, NEW o \in Orders,
           Untouched(o) \/ Sent(o) \/ \E e \in Event : Changed(o, e)
    PROVE  /\ Len(events') \in Nat /\ Len(events') >= Len(events)
           /\ DOMAIN events \subseteq DOMAIN events'
           /\ \A i \in DOMAIN events : events'[i] = events[i]
<1>1. CASE events' = events
  BY <1>1 DEF Types
<1>2. ASSUME NEW e \in Event, events' = Append(events, e)
      PROVE  /\ Len(events') \in Nat /\ Len(events') >= Len(events)
             /\ DOMAIN events \subseteq DOMAIN events'
             /\ \A i \in DOMAIN events : events'[i] = events[i]
  BY <1>2, AppendProperties DEF Types
<1> QED
  BY <1>1, <1>2 DEF Untouched, Others, Sent, Changed

(* An order that is undisturbed was so before. *)
LEMMA UndisturbedBefore ==
    ASSUME Types, NEW o \in Orders, Undisturbed(o)',
           Untouched(o) \/ Sent(o) \/ \E e \in Event : Changed(o, e)
    PROVE  Undisturbed(o)
BY EventsGrow DEF Undisturbed, Passes, Urgent

(* What goes out is the last of what went out. *)
LEMMA EmittedGrows ==
    ASSUME Types, NEW o \in Orders, NEW e \in Event, emitted'[o] = Append(emitted[o], e)
    PROVE  /\ emitted[o] \in Seq(Event) /\ Len(emitted[o]) \in Nat
           /\ Len(emitted'[o]) = Len(emitted[o]) + 1
           /\ DOMAIN emitted[o] = 1..Len(emitted[o])
           /\ DOMAIN emitted'[o] = 1..(Len(emitted[o]) + 1)
           /\ emitted'[o][Len(emitted[o]) + 1] = e
           /\ \A i \in DOMAIN emitted[o] : emitted'[o][i] = emitted[o][i]
           /\ emitted'[o] # <<>>
<1>1. emitted[o] \in Seq(Event)
  BY DEF Types
<1> QED
  BY <1>1, AppendProperties

(* Every step keeps one timer for an entry that waits.                     *)
LEMMA TimerStep ==
    ASSUME Types, NEW o \in Orders, TimerOK(o),
           Untouched(o) \/ Sent(o) \/ \E e \in Event : Changed(o, e)
    PROVE  TimerOK(o)'
<1>1. CASE Untouched(o)
  BY <1>1 DEF Untouched, TimerOK, Waits
<1>2. CASE Sent(o)
  BY <1>2 DEF Sent, TimerOK, Waits
<1>3. ASSUME NEW e \in Event, Changed(o, e) PROVE TimerOK(o)'
  <2>1. CASE Passed(o, e)
    BY <2>1 DEF Passed, TimerOK, Waits
  <2>2. CASE Queued(o, e)
    BY <2>2 DEF Queued, TimerOK, Waits, NoPending
  <2>3. CASE Merged(o, e)
    BY <2>3 DEF Merged, TimerOK, Waits, NoPending
  <2> QED
    BY <1>3, <2>1, <2>2, <2>3 DEF Changed
<1> QED
  BY <1>1, <1>2, <1>3

(* Every step keeps what waits the latest of its order.                    *)
LEMMA WaitStep ==
    ASSUME Types, NEW o \in Orders, WaitOK(o),
           Untouched(o) \/ Sent(o) \/ \E e \in Event : Changed(o, e)
    PROVE  WaitOK(o)'
<1>1. ASSUME pending'[o] = pending[o] PROVE WaitOK(o)'
  BY <1>1, EventsGrow DEF WaitOK, Waits, Passes, Urgent, OwnDiff
<1>2. CASE Sent(o)
  BY <1>2 DEF Sent, WaitOK, Waits
<1>3. ASSUME NEW e \in Event, Changed(o, e) PROVE WaitOK(o)'
  <2>1. Len(events) + 1 \in DOMAIN events' /\ events'[Len(events) + 1] = e /\ e.order = o
    BY <1>3, AppendProperties DEF Changed, Types, IsNew
  <2>2. e.count = 1 /\ OwnDiff(e) /\ (~Passes(e) => e.after \in Docs)
    BY <1>3 DEF Changed, IsNew
  <2>3. CASE Passed(o, e)
    BY <2>3, <1>1 DEF Passed
  <2>4. CASE Queued(o, e)
    BY <2>1, <2>2, <2>4 DEF Queued, WaitOK, Passes, Urgent, OwnDiff
  <2>5. CASE Merged(o, e)
    <3>1. e.after \in Docs
      BY <2>2, <2>5 DEF Merged
    <3>2. pending[o] \in Waiting /\ pending[o].count \in Nat
          /\ pending[o].initial.after \in Docs /\ OwnDiff(pending[o].initial)
      BY <2>5, WaitingIs DEF Merged, Waiting, WaitOK
    <3> DEFINE c == Coalesced(pending[o], e)
    <3>3. /\ c.intent = e.intent /\ c.after = e.after /\ c.count = pending[o].count + 1
          /\ c.before = pending[o].initial.before
      BY <2>2, <3>2, CoalescedIs
    <3>4. ~Passes(c) /\ ~Passes(e)
      BY <2>5, <3>3 DEF Merged, Passes, Urgent
    <3>5. /\ pending'[o].latest = c /\ pending'[o].count = pending[o].count + 1
          /\ pending'[o].initial = pending[o].initial
      BY <2>5 DEF Merged
    <3> HIDE DEF c
    <3>6. \E i \in DOMAIN events' : events'[i].order = o /\ ~Passes(events'[i])
      BY <2>1, <3>4
    <3> QED
      BY <3>1, <3>2, <3>3, <3>4, <3>5, <3>6 DEF WaitOK, Passes, Urgent, OwnDiff
  <2> QED
    BY <1>3, <2>3, <2>4, <2>5 DEF Changed
<1> QED
  BY <1>1, <1>2, <1>3 DEF Untouched

(* Every step keeps the order in which events go out.                      *)
LEMMA SeqStep ==
    ASSUME Types, NEW o \in Orders, WaitOK(o), SeqOK(o),
           Untouched(o) \/ Sent(o) \/ \E e \in Event : Changed(o, e)
    PROVE  SeqOK(o)'
<1> DEFINE em == emitted[o]
           n  == Len(emitted[o])
<1>1. /\ Len(events) \in Nat /\ em \in Seq(Event) /\ n \in Nat /\ DOMAIN em = 1..n
      /\ \A i \in DOMAIN em : em[i].seq \in Nat
  <2>1. Len(events) \in Nat /\ em \in Seq(Event) /\ n \in Nat /\ DOMAIN em = 1..n
    BY DEF Types
  <2>2. \A i \in DOMAIN em : em[i] \in Event
    BY <2>1
  <2> QED
    BY <2>1, <2>2 DEF Event
<1>2. Len(events') \in Nat /\ Len(events') >= Len(events)
  BY EventsGrow
<1>3. Waits(o) => pending[o].latest \in Event /\ pending[o].latest.seq \in Nat
  BY WaitingIs DEF Waiting, Event
<1>4. CASE Untouched(o)
  <2>1. emitted'[o] = em /\ pending'[o] = pending[o]
    BY <1>4 DEF Untouched
  <2> QED
    BY <1>1, <1>2, <1>3, <2>1 DEF SeqOK, Waits, Passes, Urgent
<1>5. CASE Sent(o)
  <2> DEFINE l == pending[o].latest
  <2>1. /\ Waits(o) /\ ~Waits(o)' /\ emitted'[o] = Append(em, l) /\ events' = events
        /\ l \in Event
    BY <1>3, <1>5 DEF Sent, Waits
  <2>2. /\ DOMAIN emitted'[o] = 1..(n + 1) /\ emitted'[o][n + 1] = l
        /\ \A i \in 1..n : emitted'[o][i] = em[i]
    BY <1>1, <2>1, EmittedGrows
  <2>3. l.seq <= Len(events) /\ l.seq \in Nat /\ \A i \in 1..n : ~Passes(em[i]) => em[i].seq < l.seq
    BY <1>1, <1>3, <2>1 DEF SeqOK
  <2>4. \A i \in 1..n : em[i].seq <= Len(events)
                        /\ \A j \in 1..n : i < j /\ em[i].seq > em[j].seq => Passes(em[i])
    BY <1>1 DEF SeqOK
  <2> HIDE DEF l, em, n
  <2>5. ASSUME NEW i \in 1..(n + 1), NEW j \in 1..(n + 1), i < j,
               emitted'[o][i].seq > emitted'[o][j].seq
        PROVE  Passes(emitted'[o][i])
    <3>1. i \in 1..n /\ em[i].seq \in Nat
      BY <1>1, <2>5
    <3>2. CASE j = n + 1
      BY <2>2, <2>3, <2>5, <3>1, <3>2
    <3>3. CASE j \in 1..n
      BY <2>2, <2>4, <2>5, <3>1, <3>3
    <3> QED
      BY <1>1, <3>2, <3>3
  <2>6. \A i \in 1..(n + 1) : emitted'[o][i].seq <= Len(events')
    BY <1>1, <2>1, <2>2, <2>3, <2>4
  <2> QED
    BY <2>1, <2>2, <2>5, <2>6 DEF SeqOK, Passes, Urgent
<1>6. ASSUME NEW e \in Event, Changed(o, e) PROVE SeqOK(o)'
  <2>1. e.seq = Len(events) + 1 /\ Len(events') = Len(events) + 1
    BY <1>6, AppendProperties DEF Changed, IsNew, Types
  <2>2. \A i \in 1..n : /\ em[i].seq <= Len(events)
                        /\ \A j \in 1..n : i < j /\ em[i].seq > em[j].seq => Passes(em[i])
    BY <1>1 DEF SeqOK
  <2>3. CASE Passed(o, e)
    <3>1. /\ DOMAIN emitted'[o] = 1..(n + 1) /\ emitted'[o][n + 1] = e
          /\ \A i \in 1..n : emitted'[o][i] = em[i]
          /\ pending'[o] = pending[o] /\ Passes(e)
      BY <1>1, <2>3, EmittedGrows DEF Passed
    <3>2. Waits(o) => /\ pending[o].latest.seq <= Len(events)
                      /\ \A i \in 1..n : ~Passes(em[i]) => em[i].seq < pending[o].latest.seq
      BY <1>1 DEF SeqOK
    <3> HIDE DEF em, n
    <3>3. ASSUME NEW i \in 1..(n + 1), NEW j \in 1..(n + 1), i < j,
                 emitted'[o][i].seq > emitted'[o][j].seq
          PROVE  Passes(emitted'[o][i])
      <4>1. i \in 1..n /\ em[i].seq \in Nat
        BY <1>1, <3>3
      <4>2. CASE j = n + 1
        BY <1>1, <2>1, <2>2, <3>1, <3>3, <4>1, <4>2
      <4>3. CASE j \in 1..n
        BY <2>2, <3>1, <3>3, <4>1, <4>3
      <4> QED
        BY <1>1, <4>2, <4>3
    <3>4. \A i \in 1..(n + 1) : emitted'[o][i].seq <= Len(events')
      BY <1>1, <2>1, <2>2, <3>1
    <3>5. Waits(o)' => /\ pending'[o].latest.seq <= Len(events')
                       /\ \A i \in 1..(n + 1) : ~Passes(emitted'[o][i]) =>
                            emitted'[o][i].seq < pending'[o].latest.seq
      <4>1. Waits(o)' <=> Waits(o)
        BY <3>1 DEF Waits
      <4> QED
        BY <1>1, <1>3, <2>1, <3>1, <3>2, <4>1
    <3> QED
      BY <3>1, <3>3, <3>4, <3>5 DEF SeqOK, Passes, Urgent
  <2>4. CASE Queued(o, e) \/ Merged(o, e)
    <3>1. Coalesced(pending[o], e).seq = e.seq \/ ~Waits(o)
      BY WaitingIs, CoalescedIs
    <3>2. emitted'[o] = em /\ pending'[o].latest.seq = Len(events) + 1
      BY <2>1, <2>4, <3>1 DEF Queued, Merged
    <3> HIDE DEF em, n
    <3> QED
      BY <1>1, <2>1, <2>2, <3>2 DEF SeqOK, Passes, Urgent
  <2> QED
    BY <1>6, <2>3, <2>4 DEF Changed
<1> QED
  BY <1>4, <1>5, <1>6

(* A change that passes and leaves its order undisturbed found nothing     *)
(* waiting.                                                                *)
LEMMA PassesAlone ==
    ASSUME Types, NEW o \in Orders, NEW e \in Event,
           WaitOK(o), Changed(o, e), Passes(e), Undisturbed(o)'
    PROVE  ~Waits(o)
<1> SUFFICES ASSUME Waits(o) PROVE FALSE
  OBVIOUS
<1>1. PICK i \in DOMAIN events : events[i].order = o /\ ~Passes(events[i])
  BY DEF WaitOK
<1>2. /\ i \in DOMAIN events' /\ events'[i] = events[i] /\ i < Len(events) + 1
      /\ Len(events) + 1 \in DOMAIN events' /\ events'[Len(events) + 1] = e
      /\ e.order = o
  BY AppendProperties DEF Changed, Types, IsNew
<1>3. Passes(events'[i])
  BY <1>1, <1>2 DEF Undisturbed, Passes, Urgent
<1> QED
  BY <1>1, <1>2, <1>3

(* A new event is at the end; the others are where they were.              *)
LEMMA NewestAtEnd ==
    ASSUME Types, NEW e \in Event, events' = Append(events, e)
    PROVE  /\ Len(events) \in Nat /\ DOMAIN events = 1 .. Len(events)
           /\ DOMAIN events' = DOMAIN events \cup {Len(events) + 1}
           /\ events'[Len(events) + 1] = e
           /\ \A n \in DOMAIN events : n \in Nat /\ n <= Len(events) /\ events'[n] = events[n]
BY AppendProperties DEF Types

(* An event of another order is none of this one.                          *)
LEMMA NoMoreEvents ==
    ASSUME Types, NEW o \in Orders, Others(o)
    PROVE  EventsOf(o)' = EventsOf(o)
<1>1. CASE events' = events
  BY <1>1 DEF EventsOf
<1>2. ASSUME NEW e \in Event, e.order # o, events' = Append(events, e)
      PROVE  EventsOf(o)' = EventsOf(o)
  <2> DEFINE n == Len(events) + 1
  <2>1. /\ DOMAIN events' = DOMAIN events \cup {n}
        /\ events'[n] = e
        /\ \A i \in DOMAIN events : events'[i] = events[i]
    BY <1>2, AppendProperties DEF Types
  <2> HIDE DEF n
  <2> QED
    BY <1>2, <2>1 DEF EventsOf
<1> QED
  BY <1>1, <1>2 DEF Others

(* The events of an order only grow, at the end, and keep their seams.     *)
LEMMA SpineGrows ==
    ASSUME Types, NEW o \in Orders,
           Untouched(o) \/ Sent(o) \/ \E e \in Event : Changed(o, e)
    PROVE  /\ EventsOf(o) \subseteq EventsOf(o)'
           /\ \A k \in EventsOf(o) : k \in Nat /\ k <= Len(events) /\ events'[k] = events[k]
           /\ \A n, m : SeamIn(EventsOf(o), events, n, m) =>
                          SeamIn(EventsOf(o)', events', n, m)
<1>1. Len(events) \in Nat
      /\ \A k \in EventsOf(o) : k \in Nat /\ k \in DOMAIN events /\ k <= Len(events)
  BY DEF EventsOf, Types
<1>2. CASE events' = events
  <2>1. EventsOf(o)' = EventsOf(o)
    BY <1>2 DEF EventsOf
  <2> QED
    BY <1>1, <1>2, <2>1
<1>3. ASSUME NEW e \in Event, events' = Append(events, e)
      PROVE  /\ EventsOf(o) \subseteq EventsOf(o)'
             /\ \A k \in EventsOf(o) : events'[k] = events[k]
             /\ \A n, m : SeamIn(EventsOf(o), events, n, m) =>
                            SeamIn(EventsOf(o)', events', n, m)
  <2>1. \A k \in EventsOf(o) : events'[k] = events[k]
    BY <1>1, <1>3, NewestAtEnd
  <2>2. EventsOf(o) \subseteq EventsOf(o)'
    BY <1>3, NewestAtEnd DEF EventsOf
  <2>3. \A k \in EventsOf(o)' : k \in EventsOf(o) \/ k = Len(events) + 1
    BY <1>3, NewestAtEnd DEF EventsOf
  <2> QED
    BY <1>1, <2>1, <2>2, <2>3 DEF SeamIn
<1>4. events' = events \/ \E e \in Event : events' = Append(events, e)
  BY DEF Untouched, Others, Sent, Changed
<1> QED
  BY <1>1, <1>2, <1>3, <1>4

(* A new event of the order is its newest; it joins what was the newest    *)
(* before, or makes a seam after that.                                     *)
LEMMA NewestJoins ==
    ASSUME Types, NEW o \in Orders, NEW e \in Event, Changed(o, e)
    PROVE  /\ e.seq \in EventsOf(o)' /\ events'[e.seq] = e
           /\ Newest(EventsOf(o)', e.seq)
           /\ \A x \in Event :
                IsOf(o, x) /\ Newest(EventsOf(o), x.seq) /\ e.before # x.after =>
                  SeamIn(EventsOf(o)', events', x.seq, e.seq)
<1>1. /\ e.seq = Len(events) + 1 /\ e.order = o /\ events' = Append(events, e)
      /\ Len(events) \in Nat
  BY DEF Changed, IsNew, Types
<1>2. /\ EventsOf(o)' = EventsOf(o) \cup {e.seq} /\ events'[e.seq] = e
      /\ \A k \in EventsOf(o) : k \in Nat /\ k < e.seq /\ events'[k] = events[k]
  BY <1>1, NewestAtEnd DEF EventsOf
<1>3. Newest(EventsOf(o)', e.seq)
  BY <1>1, <1>2 DEF Newest
<1>4. ASSUME NEW x \in Event, IsOf(o, x), Newest(EventsOf(o), x.seq), e.before # x.after
      PROVE  SeamIn(EventsOf(o)', events', x.seq, e.seq)
  <2>1. /\ x.seq \in EventsOf(o) /\ x.seq < e.seq /\ events'[x.seq].after = x.after
        /\ x.seq \in EventsOf(o)' /\ e.seq \in EventsOf(o)'
    BY <1>2, <1>4 DEF IsOf
  <2>2. \A k \in EventsOf(o)' : k <= x.seq \/ e.seq <= k
    BY <1>1, <1>2, <1>4 DEF Newest
  <2> QED
    BY <1>2, <1>4, <2>1, <2>2 DEF SeamIn
<1> QED
  BY <1>2, <1>3, <1>4

(* Every step keeps what goes out the event it says it is.                 *)
LEMMA SourceStep ==
    ASSUME Types, NEW o \in Orders, SourceOK(o),
           Untouched(o) \/ Sent(o) \/ \E e \in Event : Changed(o, e)
    PROVE  SourceOK(o)'
<1>1. ASSUME NEW x, IsOf(o, x)
      PROVE  x.seq \in EventsOf(o)' /\ x.after = events'[x.seq].after
  BY <1>1, SpineGrows DEF IsOf
<1>2. CASE Untouched(o)
  BY <1>1, <1>2 DEF Untouched, SourceOK, IsOf, Waits
<1>3. CASE Sent(o)
  <2>1. /\ emitted'[o] = Append(emitted[o], pending[o].latest) /\ ~Waits(o)'
        /\ pending[o].latest \in Event /\ IsOf(o, pending[o].latest)
    BY <1>3, WaitingIs DEF Sent, Waits, Waiting, SourceOK
  <2> QED
    BY <1>1, <2>1, EmittedGrows DEF SourceOK, IsOf
<1>4. ASSUME NEW e \in Event, Changed(o, e) PROVE SourceOK(o)'
  <2>1. e.seq \in EventsOf(o)' /\ e.after = events'[e.seq].after
    BY <1>4, NewestJoins
  <2>2. CASE Passed(o, e)
    <3>1. emitted'[o] = Append(emitted[o], e) /\ pending'[o] = pending[o]
      BY <2>2 DEF Passed
    <3> QED
      BY <1>1, <2>1, <3>1, EmittedGrows DEF SourceOK, IsOf, Waits
  <2>3. CASE Queued(o, e) \/ Merged(o, e)
    <3>1. /\ Waits(o) => /\ Coalesced(pending[o], e).seq = e.seq
                         /\ Coalesced(pending[o], e).after = e.after
      BY WaitingIs, CoalescedIs
    <3>2. /\ emitted'[o] = emitted[o]
          /\ pending'[o].latest.seq = e.seq /\ pending'[o].latest.after = e.after
      BY <2>3, <3>1 DEF Queued, Merged
    <3> QED
      BY <1>1, <2>1, <3>2 DEF SourceOK, IsOf
  <2> QED
    BY <1>4, <2>2, <2>3 DEF Changed
<1> QED
  BY <1>2, <1>3, <1>4

(* Every step keeps the images without a gap, but for the spine's seams.   *)
LEMMA ChainStep ==
    ASSUME Types, NEW o \in Orders, WaitOK(o), SourceOK(o), ChainOK(o),
           Untouched(o) \/ Sent(o) \/ \E e \in Event : Changed(o, e)
    PROVE  ChainOK(o)'
<1> DEFINE Goal == /\ \A i \in DOMAIN emitted'[o] : i > 1 =>
                        Joins(EventsOf(o)', events', emitted'[o][i-1], emitted'[o][i])
                   /\ Waits(o)' => Newest(EventsOf(o)', pending'[o].latest.seq)
                   /\ emitted'[o] # <<>> =>
                        IF Waits(o)'
                        THEN Joins(EventsOf(o)', events', Last(emitted'[o]),
                                   pending'[o].latest)
                        ELSE Newest(EventsOf(o)', Last(emitted'[o]).seq)
<1> SUFFICES ASSUME Undisturbed(o)' PROVE Goal
  BY DEF ChainOK
<1> DEFINE em == emitted[o]
           n  == Len(emitted[o])
<1>1. /\ em \in Seq(Event) /\ n \in Nat /\ DOMAIN em = 1..n /\ (em = <<>> <=> n = 0)
      /\ (n > 0 => Last(em) = em[n] /\ em[n] \in Event)
  BY DEF Types, Last
<1>2. Undisturbed(o)
  BY UndisturbedBefore
<1>3. /\ \A i \in 1..n : i > 1 => Joins(EventsOf(o), events, em[i-1], em[i])
      /\ Waits(o) => Newest(EventsOf(o), pending[o].latest.seq)
      /\ n > 0 => IF Waits(o) THEN Joins(EventsOf(o), events, em[n], pending[o].latest)
                  ELSE Newest(EventsOf(o), em[n].seq)
      /\ n > 0 => IsOf(o, em[n])
  BY <1>1, <1>2 DEF ChainOK, SourceOK
<1>4. \A e, f, g : /\ Joins(EventsOf(o), events, e, f) /\ g.before = f.before
                   => Joins(EventsOf(o)', events', e, g)
  BY SpineGrows DEF Joins
<1>5. CASE Untouched(o)
  <2>1. emitted'[o] = em /\ pending'[o] = pending[o] /\ EventsOf(o)' = EventsOf(o)
    BY <1>5, NoMoreEvents DEF Untouched
  <2>2. Waits(o)' <=> Waits(o)
    BY <2>1 DEF Waits
  <2> QED
    BY <1>1, <1>3, <1>4, <2>1, <2>2
<1>6. ASSUME NEW e \in Event, emitted'[o] = Append(em, e), ~Waits(o)',
             n > 0 => Joins(EventsOf(o)', events', em[n], e),
             Newest(EventsOf(o)', e.seq)
      PROVE  Goal
  <2>1. /\ Len(emitted'[o]) = n + 1 /\ DOMAIN emitted'[o] = 1..(n + 1)
        /\ emitted'[o][n + 1] = e /\ \A i \in 1..n : emitted'[o][i] = em[i]
        /\ Last(emitted'[o]) = e
    BY <1>1, <1>6, EmittedGrows DEF Last
  <2> HIDE DEF em, n
  <2>2. ASSUME NEW i \in 1..(n + 1), i > 1
        PROVE  Joins(EventsOf(o)', events', emitted'[o][i-1], emitted'[o][i])
    <3>1. i - 1 \in 1..n
      BY <1>1, <2>2
    <3>2. CASE i = n + 1
      BY <1>1, <1>6, <2>1, <3>1, <3>2
    <3>3. CASE i \in 1..n
      BY <1>3, <1>4, <2>1, <2>2, <3>1, <3>3
    <3> QED
      BY <1>1, <3>2, <3>3
  <2> QED
    BY <1>6, <2>1, <2>2
<1>7. CASE Sent(o)
  <2>1. /\ Waits(o) /\ ~Waits(o)' /\ events' = events
        /\ emitted'[o] = Append(em, pending[o].latest)
    BY <1>7 DEF Sent, Waits
  <2>2. pending[o].latest \in Event /\ EventsOf(o)' = EventsOf(o)
    BY <2>1, WaitingIs DEF Waiting, EventsOf
  <2>3. n > 0 => Joins(EventsOf(o)', events', em[n], pending[o].latest)
    BY <1>3, <2>1, <2>2
  <2>4. Newest(EventsOf(o)', pending[o].latest.seq)
    BY <1>3, <2>1, <2>2
  <2> HIDE DEF Goal, em, n
  <2> QED
    BY <1>6, <2>1, <2>2, <2>3, <2>4
<1>8. ASSUME NEW e \in Event, Changed(o, e) PROVE Goal
  <2>1. /\ Newest(EventsOf(o)', e.seq) /\ e.seq \in EventsOf(o)'
        /\ \A x \in Event :
             IsOf(o, x) /\ Newest(EventsOf(o), x.seq) /\ e.before # x.after =>
               SeamIn(EventsOf(o)', events', x.seq, e.seq)
    BY <1>8, NewestJoins
  <2>2. ~Waits(o) /\ n > 0 => Joins(EventsOf(o)', events', em[n], e)
    <3> HIDE DEF em, n
    <3> QED
      BY <1>1, <1>3, <2>1 DEF Joins
  <2>3. CASE Passed(o, e)
    <3>1. ~Waits(o)
      BY <1>8, <2>3, PassesAlone DEF Passed
    <3>2. ~Waits(o)' /\ emitted'[o] = Append(em, e)
      BY <2>3, <3>1 DEF Passed, Waits
    <3> HIDE DEF Goal, em, n
    <3> QED
      BY <1>6, <2>1, <2>2, <3>1, <3>2
  <2>4. CASE Queued(o, e)
    <3>1. Waits(o)' /\ ~Waits(o) /\ emitted'[o] = em /\ pending'[o].latest = e
      BY <2>4 DEF Queued, Waits, NoPending
    <3> HIDE DEF em, n
    <3> QED
      BY <1>1, <1>3, <1>4, <2>1, <2>2, <3>1
  <2>5. CASE Merged(o, e)
    <3> DEFINE c == Coalesced(pending[o], e)
    <3>1. Waits(o)' /\ Waits(o) /\ emitted'[o] = em /\ pending'[o].latest = c
      BY <2>5 DEF Merged, Waits, NoPending
    <3>2. c.before = pending[o].latest.before /\ c.seq = e.seq
      BY <3>1, WaitingIs, CoalescedIs DEF WaitOK
    <3> HIDE DEF c, em, n
    <3> QED
      BY <1>1, <1>3, <1>4, <2>1, <3>1, <3>2
  <2> HIDE DEF Goal
  <2> QED
    BY <1>8, <2>3, <2>4, <2>5 DEF Changed
<1> HIDE DEF Goal
<1> QED
  BY <1>5, <1>7, <1>8

(* Every step keeps the diffs of pairs exact.                              *)
LEMMA DiffStep ==
    ASSUME Types, NEW o \in Orders, WaitOK(o), SourceOK(o), ChainOK(o), DiffOK(o),
           Untouched(o) \/ Sent(o) \/ \E e \in Event : Changed(o, e)
    PROVE  DiffOK(o)'
<1> DEFINE Good(e) == PairOK(EventsOf(o)', events', e)
           Goal == /\ \A i \in DOMAIN emitted'[o] : Good(emitted'[o][i])
                   /\ Waits(o)' => /\ pending'[o].count = 1 =>
                                        pending'[o].latest = pending'[o].initial
                                   /\ Good(pending'[o].latest)
<1> SUFFICES ASSUME Undisturbed(o)' PROVE Goal
  BY DEF DiffOK
<1>1. Undisturbed(o)
  BY UndisturbedBefore
<1>2. \A e : PairOK(EventsOf(o), events, e) => Good(e)
  BY SpineGrows DEF PairOK
<1>3. /\ \A i \in DOMAIN emitted[o] : Good(emitted[o][i])
      /\ Waits(o) => /\ pending[o].count = 1 => pending[o].latest = pending[o].initial
                     /\ Good(pending[o].latest)
                     /\ Newest(EventsOf(o), pending[o].latest.seq)
                     /\ IsOf(o, pending[o].latest)
  BY <1>1, <1>2 DEF DiffOK, ChainOK, SourceOK
<1> HIDE DEF Good
<1>4. ASSUME NEW e \in Event, emitted'[o] = Append(emitted[o], e), Good(e)
      PROVE  \A i \in DOMAIN emitted'[o] : Good(emitted'[o][i])
  BY <1>3, <1>4, EmittedGrows
<1>5. CASE Untouched(o)
  BY <1>3, <1>5 DEF Untouched, Waits
<1>6. CASE Sent(o)
  <2>1. /\ Waits(o) /\ ~Waits(o)' /\ emitted'[o] = Append(emitted[o], pending[o].latest)
    BY <1>6 DEF Sent, Waits
  <2>2. pending[o].latest \in Event
    BY <2>1, WaitingIs DEF Waiting
  <2> QED
    BY <1>3, <1>4, <2>1, <2>2
<1>7. ASSUME NEW e \in Event, Changed(o, e) PROVE Goal
  <2>1. OwnDiff(e) /\ e.count = 1 /\ (~Passes(e) => e.after \in Docs)
    BY <1>7 DEF Changed, IsNew
  <2>2. Good(e)
    BY <2>1 DEF Good, PairOK, Exact, OwnDiff
  <2>3. CASE Passed(o, e)
    <3>1. emitted'[o] = Append(emitted[o], e) /\ ~Waits(o)'
      BY <1>7, <2>3, PassesAlone DEF Passed, Waits
    <3> QED
      BY <1>4, <2>2, <3>1
  <2>4. CASE Queued(o, e)
    BY <1>3, <2>2, <2>4 DEF Queued
  <2>5. CASE Merged(o, e)
    <3> DEFINE p == pending[o]
               c == Coalesced(pending[o], e)
    <3>1. /\ Waits(o) /\ ~Passes(e) /\ emitted'[o] = emitted[o]
          /\ pending'[o].latest = c /\ pending'[o].count = p.count + 1
      BY <2>5 DEF Merged
    <3>2. /\ p \in Waiting /\ p.count \in Nat \ {0} /\ OwnDiff(p.initial)
          /\ p.initial.after \in Docs /\ p.initial \in Event
      BY <3>1, WaitingIs DEF WaitOK, Waiting
    <3>3. /\ c.before = p.initial.before /\ c.after = e.after /\ c.seq = e.seq
          /\ c.diff = MergeDiffs(p.initial.diff, e.diff) /\ c.count = p.count + 1
      BY <3>2, CoalescedIs
    <3>4. CASE p.count > 1
      <4>1. c.count > 2
        BY <3>2, <3>3, <3>4
      <4> QED
        BY <1>3, <3>1, <3>2, <3>4, <4>1 DEF Good, PairOK
    <3>5. CASE p.count = 1 /\ e.before = p.initial.after
      <4>1. /\ p.initial.before \in Docs \cup {NoDoc} /\ e.after \in Docs
            /\ c.diff = MergeDiffs(ComputeDiff(p.initial.before, p.initial.after),
                                   ComputeDiff(p.initial.after, e.after))
        BY <2>1, <3>1, <3>2, <3>3, <3>5 DEF OwnDiff, Event, Images
      <4>2. Exact(c)
        BY <3>2, <3>3, <4>1, DiffFacts DEF Exact
      <4> QED
        BY <1>3, <3>1, <3>5, <4>2 DEF Good, PairOK
    <3>6. CASE p.count = 1 /\ e.before # p.initial.after
      <4>1. p.latest = p.initial /\ IsOf(o, p.latest) /\ Newest(EventsOf(o), p.latest.seq)
        BY <1>3, <3>1, <3>6
      <4>2. SeamIn(EventsOf(o)', events', p.latest.seq, c.seq)
        BY <1>7, <3>2, <3>3, <3>6, <4>1, NewestJoins
      <4>3. c.count = 2 /\ \E n \in EventsOf(o)' : SeamIn(EventsOf(o)', events', n, c.seq)
        BY <3>3, <3>6, <4>2 DEF SeamIn
      <4> QED
        BY <1>3, <3>1, <3>6, <4>3 DEF Good, PairOK
    <3> HIDE DEF p, c, Goal
    <3> QED
      BY <3>2, <3>4, <3>5, <3>6
  <2> HIDE DEF Goal
  <2> QED
    BY <1>7, <2>3, <2>4, <2>5 DEF Changed
<1> HIDE DEF Goal
<1> QED
  BY <1>5, <1>6, <1>7

-----------------------------------------------------------------------------
(* Nothing waits and nothing is out at the start.                          *)
LEMMA InvInit == Init => Inv
<1> SUFFICES ASSUME Init PROVE Inv
  OBVIOUS
<1>1. Types
  BY CohesionAssumption DEF Init, Types, Images
<1>2. ASSUME NEW o \in Orders PROVE OrderOK(o)
  <2>1. ~Waits(o) /\ timers[o] = 0 /\ emitted[o] = <<>>
    BY DEF Init, Waits
  <2> QED
    BY <2>1 DEF OrderOK, TimerOK, WaitOK, SeqOK, SourceOK, ChainOK, DiffOK
<1> QED
  BY <1>1, <1>2 DEF Inv

(* Every step keeps the invariant, order by order.                         *)
LEMMA InvStep == ASSUME Inv, [Next]_vars PROVE Inv'
<1>1. Types /\ \A o \in Orders : OrderOK(o)
  BY DEF Inv
<1>2. Types'
  BY <1>1, TypeStep DEF OrderOK
<1>3. ASSUME NEW o \in Orders PROVE OrderOK(o)'
  <2>1. /\ TimerOK(o) /\ WaitOK(o) /\ SeqOK(o)
        /\ SourceOK(o) /\ ChainOK(o) /\ DiffOK(o)
    BY <1>1 DEF OrderOK
  <2>2. Untouched(o) \/ Sent(o) \/ \E e \in Event : Changed(o, e)
    BY <1>1, <2>1, StepForOrder
  <2>3. TimerOK(o)' /\ WaitOK(o)'
    BY <1>1, <2>1, <2>2, TimerStep, WaitStep
  <2>4. SeqOK(o)' /\ SourceOK(o)'
    BY <1>1, <2>1, <2>2, SeqStep, SourceStep
  <2>5. ChainOK(o)' /\ DiffOK(o)'
    BY <1>1, <2>1, <2>2, ChainStep, DiffStep
  <2> QED
    BY <2>3, <2>4, <2>5 DEF OrderOK
<1> QED
  BY <1>2, <1>3 DEF Inv

(* The invariant of the buffer.                                            *)
THEOREM InvHolds == Spec => []Inv
BY InvInit, InvStep, PTL DEF Spec

(* An order has one sleeping timer exactly while an entry waits for it, so *)
(* no entry is stranded and none goes out early; what waits is not urgent  *)
(* and counts the events it stands for.                                    *)
THEOREM TimersHold == Spec => []TypeOK
<1>1. Inv => TypeOK
  BY DEF Inv, OrderOK, Types, Images, TimerOK, WaitOK, TypeOK, Waits, Passes
<1> QED
  BY <1>1, InvHolds, PTL

(* If every intent that is not urgent has a window (as it has by default), *)
(* only an urgent event of an order goes out before an earlier one.        *)
THEOREM OvertakingHolds ==
    ASSUME \A i \in Intents : Priority(i) # "urgent" => i \in Buffered
    PROVE  Spec => []OnlyUrgentOvertakes
<1>1. Inv => OnlyUrgentOvertakes
  <2> SUFFICES ASSUME Inv, NEW o \in Orders, NEW i \in DOMAIN emitted[o],
                      NEW j \in DOMAIN emitted[o],
                      i < j, emitted[o][i].seq > emitted[o][j].seq
               PROVE  Urgent(emitted[o][i])
    BY DEF OnlyUrgentOvertakes
  <2>1. Passes(emitted[o][i])
    BY DEF Inv, OrderOK, SeqOK
  <2>2. emitted[o][i] \in Event
    BY DEF Inv, Types
  <2>3. emitted[o][i].intent \in Intents
    BY <2>2 DEF Event
  <2> QED
    BY <2>1, <2>3 DEF Passes, Urgent
<1> QED
  BY <1>1, InvHolds, PTL

(* The buffer adds no seam of its own, whatever becomes of the watcher's   *)
(* cache: while no event of an order passed a waiting one, each event that *)
(* goes out starts from the document the one before ended in, or the spine *)
(* itself has a seam right there.                                          *)
THEOREM SeamlessHolds == Spec => []Seamless
<1>1. Inv => Seamless
  BY DEF Inv, OrderOK, ChainOK, Seamless, Joins, SeamIn, Seam
<1> QED
  BY <1>1, InvHolds, PTL

(* ... and the diff of one event, or of two that were coalesced without a  *)
(* seam between them, tells the difference of its images, even if the      *)
(* first had no before image: merge_diffs on initial and latest is right   *)
(* for two.                                                                *)
THEOREM PairsHold == Spec => []PairsExact
<1>1. Inv => PairsExact
  BY DEF Inv, OrderOK, DiffOK, PairOK, PairsExact, SeamIn, Seam
<1> QED
  BY <1>1, InvHolds, PTL

(* The count of what an order emits and still holds is that of its events. *)
CountOK(o) ==
    /\ IsFiniteSet(EventsOf(o)) /\ IsFiniteSet(Tally(o))
    /\ Cardinality(EventsOf(o)) = pending[o].count + Cardinality(Tally(o))

(* One more event is emitted: its count is added.                          *)
LEMMA TallyGrows ==
    ASSUME Types, NEW o \in Orders, NEW e \in Event,
           emitted'[o] = Append(emitted[o], e), IsFiniteSet(Tally(o))
    PROVE  /\ IsFiniteSet(Tally(o)')
           /\ Cardinality(Tally(o)') = Cardinality(Tally(o)) + e.count
<1> DEFINE n == Len(emitted[o]) + 1
           Added == {n} \X (1 .. e.count)
<1>1. e.count \in Nat /\ n \in Nat
  BY EmittedGrows DEF Event
<1>2. Tally(o)' = Tally(o) \cup Added
  <2>1. /\ DOMAIN emitted'[o] = DOMAIN emitted[o] \cup {n}
        /\ emitted'[o][n] = e
        /\ \A i \in DOMAIN emitted[o] : emitted'[o][i] = emitted[o][i]
    BY EmittedGrows
  <2> HIDE DEF n
  <2> QED
    BY <2>1 DEF Tally
<1>3. Tally(o) \cap Added = {}
  <2>1. n \notin DOMAIN emitted[o]
    BY EmittedGrows
  <2> HIDE DEF n
  <2> QED
    BY <2>1 DEF Tally
<1>4. IsFiniteSet(Added) /\ Cardinality(Added) = e.count
  <2>1. IsFiniteSet(1 .. e.count) /\ Cardinality(1 .. e.count) = e.count
    <3>1. PICK k \in Int : k = e.count /\ k >= 0
      BY <1>1
    <3>2. IsFiniteSet(1 .. k) /\ Cardinality(1 .. k) = IF 1 > k THEN 0 ELSE k - 1 + 1
      <4>1. 1 \in Int
        OBVIOUS
      <4> QED
        BY <4>1, FS_Interval, Zenon
    <3>3. (IF 1 > k THEN 0 ELSE k - 1 + 1) = k
      BY <3>1
    <3> QED
      BY <3>1, <3>2, <3>3
  <2>2. IsFiniteSet({n}) /\ Cardinality({n}) = 1
    BY FS_Singleton
  <2>3. IsFiniteSet(Added) /\ Cardinality(Added) = Cardinality({n}) * Cardinality(1 .. e.count)
    BY <2>1, <2>2, FS_Product
  <2> HIDE DEF Added, n
  <2> QED
    BY <1>1, <2>1, <2>2, <2>3
<1> HIDE DEF Added, n
<1>5. Cardinality(Tally(o)) \in Nat /\ Cardinality({}) = 0
  BY FS_CardinalityType, FS_EmptySet
<1>6. IsFiniteSet(Tally(o) \cup Added)
      /\ Cardinality(Tally(o) \cup Added)
           = Cardinality(Tally(o)) + Cardinality(Added) - Cardinality(Tally(o) \cap Added)
  BY <1>4, FS_Union
<1>7. Cardinality(Tally(o) \cup Added) = Cardinality(Tally(o)) + e.count
  <2>1. Cardinality(Tally(o) \cup Added) = Cardinality(Tally(o)) + e.count - 0
    BY <1>3, <1>4, <1>5, <1>6, Zenon
  <2> QED
    BY <1>1, <1>5, <2>1
<1> QED
  BY <1>2, <1>6, <1>7

(* A change of the order is one more event of it.                          *)
LEMMA OneMoreEvent ==
    ASSUME Types, NEW o \in Orders, NEW e \in Event, e.order = o,
           events' = Append(events, e), IsFiniteSet(EventsOf(o))
    PROVE  /\ IsFiniteSet(EventsOf(o)')
           /\ Cardinality(EventsOf(o)') = Cardinality(EventsOf(o)) + 1
<1> DEFINE n == Len(events) + 1
<1>1. /\ DOMAIN events' = DOMAIN events \cup {n} /\ n \notin DOMAIN events
      /\ events'[n] = e
      /\ \A i \in DOMAIN events : events'[i] = events[i]
  BY AppendProperties DEF Types
<1> HIDE DEF n
<1>2. EventsOf(o)' = EventsOf(o) \cup {n} /\ n \notin EventsOf(o)
  BY <1>1 DEF EventsOf
<1> QED
  BY <1>2, FS_AddElement

(* What goes out leaves the entry, what comes in is counted once.          *)
LEMMA CountStep ==
    ASSUME Types, NEW o \in Orders, WaitOK(o), CountOK(o),
           Untouched(o) \/ Sent(o) \/ \E e \in Event : Changed(o, e)
    PROVE  CountOK(o)'
<1> USE DEF CountOK
<1>1. /\ IsFiniteSet(EventsOf(o)) /\ IsFiniteSet(Tally(o))
      /\ Cardinality(EventsOf(o)) = pending[o].count + Cardinality(Tally(o))
  OBVIOUS
<1>2. /\ pending[o].count \in Nat /\ NoPending.count = 0
      /\ Cardinality(EventsOf(o)) \in Nat /\ Cardinality(Tally(o)) \in Nat
  BY <1>1, FS_CardinalityType DEF Types, Waiting, NoPending
<1>3. emitted'[o] = emitted[o] => Tally(o)' = Tally(o)
  BY DEF Tally
<1>4. CASE Untouched(o)
  BY <1>1, <1>3, <1>4, NoMoreEvents DEF Untouched
<1>5. CASE Sent(o)
  <2>1. EventsOf(o)' = EventsOf(o)
    BY <1>5 DEF Sent, EventsOf
  <2>2. pending[o].latest \in Event /\ pending[o].latest.count = pending[o].count
    BY <1>5, WaitingIs DEF Sent, Waiting, WaitOK
  <2>3. IsFiniteSet(Tally(o)')
        /\ Cardinality(Tally(o)') = Cardinality(Tally(o)) + pending[o].count
    BY <1>1, <1>5, <2>2, TallyGrows DEF Sent
  <2>4. pending'[o].count = 0
    BY <1>2, <1>5 DEF Sent
  <2> QED
    BY <1>1, <1>2, <2>1, <2>3, <2>4
<1>6. ASSUME NEW e \in Event, Changed(o, e) PROVE CountOK(o)'
  <2>1. e.order = o /\ e.count = 1 /\ events' = Append(events, e)
    BY <1>6 DEF Changed, IsNew
  <2>2. IsFiniteSet(EventsOf(o)') /\ Cardinality(EventsOf(o)') = Cardinality(EventsOf(o)) + 1
    BY <1>1, <2>1, OneMoreEvent
  <2>3. CASE Passed(o, e)
    <3>1. IsFiniteSet(Tally(o)') /\ Cardinality(Tally(o)') = Cardinality(Tally(o)) + 1
      BY <1>1, <2>1, <2>3, TallyGrows DEF Passed
    <3>2. pending'[o].count = pending[o].count
      BY <2>3 DEF Passed
    <3> QED
      BY <1>1, <1>2, <2>2, <3>1, <3>2
  <2>4. CASE Queued(o, e)
    <3>1. pending[o].count = 0 /\ pending'[o].count = 1
      BY <1>2, <2>4 DEF Queued, Waits
    <3> QED
      BY <1>1, <1>2, <1>3, <2>2, <2>4, <3>1 DEF Queued
  <2>5. CASE Merged(o, e)
    <3>1. pending'[o].count = pending[o].count + 1
      BY <2>5 DEF Merged
    <3> QED
      BY <1>1, <1>2, <1>3, <2>2, <2>5, <3>1 DEF Merged
  <2> QED
    BY <1>6, <2>3, <2>4, <2>5 DEF Changed
<1> QED
  BY <1>4, <1>5, <1>6

(* Nothing is lost in the buffer and nothing goes out twice: the events of *)
(* an order are those that what went out stands for and those that wait.   *)
THEOREM CountsHold == Spec => []CountsAddUp
<1> DEFINE CountInv == \A o \in Orders : CountOK(o)
<1>1. Init => CountInv
  <2> SUFFICES ASSUME Init, NEW o \in Orders PROVE CountOK(o)
    OBVIOUS
  <2>1. EventsOf(o) = {} /\ Tally(o) = {} /\ pending[o].count = 0
    BY DEF Init, EventsOf, Tally, NoPending
  <2> QED
    BY <2>1, FS_EmptySet DEF CountOK
<1>2. Inv /\ CountInv /\ [Next]_vars => CountInv'
  <2> SUFFICES ASSUME Inv, CountInv, [Next]_vars, NEW o \in Orders PROVE CountOK(o)'
    OBVIOUS
  <2>1. Types /\ TimerOK(o) /\ WaitOK(o) /\ CountOK(o)
    BY DEF Inv, OrderOK
  <2> QED
    BY <2>1, StepForOrder, CountStep
<1>3. CountInv => CountsAddUp
  BY DEF CountOK, CountsAddUp
<1> HIDE DEF CountInv
<1> QED
  BY <1>1, <1>2, <1>3, InvHolds, PTL DEF Spec

-----------------------------------------------------------------------------
(* The stream.                                                             *)

(* The broker as the stream uses it, with its theorems. *)
Kinds == {Kind(e) : e \in Event}

BP == INSTANCE SSEBrokerProofs WITH
         WebSockets <- {}, EventKinds <- Kinds, IntentNames <- Intents

(* The broker's assumption holds of the broker in the stream.              *)
LEMMA BrokerFits == BP!BrokerAssumption
BY CohesionAssumption, StreamAssumption DEF BP!BrokerAssumption

(* What a step of the buffer is for the stream: nothing goes out, what     *)
(* waited goes out, a new event goes out, or it waits.                     *)
Silent == UNCHANGED <<events, pending, brokerVars>>

Released(o) == /\ events' = events /\ Waits(o)
               /\ pending'[o] = NoPending
               /\ Broker!Broadcast(Kind(pending[o].latest))

PassedOn(o, e) == /\ events' = Append(events, e) /\ Passes(e)
                  /\ pending'[o] = pending[o]
                  /\ Broker!Broadcast(Kind(e))

HeldBack(o, e) == /\ events' = Append(events, e)
                  /\ Queued(o, e) \/ Merged(o, e)
                  /\ UNCHANGED brokerVars

OthersWait(o) == \A p \in Orders \ {o} : pending'[p] = pending[p]

(* An item at the end of a sequence is its last, and makes another one.    *)
LEMMA AppendedLast ==
    ASSUME NEW s \in Seq(Event), NEW e \in Event
    PROVE  Last(Append(s, e)) = e /\ Append(s, e) # s
<1>1. Len(Append(s, e)) = Len(s) + 1 /\ Append(s, e)[Len(s) + 1] = e /\ Len(s) \in Nat
  BY AppendProperties
<1> QED
  BY <1>1 DEF Last

(* Every step of the buffer is one of the four.                            *)
LEMMA StreamStepIs ==
    ASSUME Inv, NEW o \in Orders, BufferStep(o)
    PROVE  /\ OthersWait(o)
           /\ \/ Silent
              \/ Released(o)
              \/ \E e \in Event :
                    IsNew(e, o) /\ (PassedOn(o, e) \/ HeldBack(o, e))
<1>1. Types /\ TimerOK(o)
  BY DEF Inv, OrderOK
<1>2. Relay(o)
  BY DEF BufferStep
<1>3. ASSUME emitted'[o] = emitted[o] PROVE UNCHANGED brokerVars
  BY <1>2, <1>3 DEF Relay
<1>4. ASSUME NEW e \in Event, emitted'[o] = Append(emitted[o], e)
      PROVE  Broker!Broadcast(Kind(e))
  <2>1. emitted[o] \in Seq(Event)
    BY <1>1 DEF Types
  <2>2. Last(emitted'[o]) = e /\ emitted'[o] # emitted[o]
    BY <1>4, <2>1, AppendedLast
  <2> QED
    BY <1>2, <2>2 DEF Relay
<1>5. ASSUME NEW e \in Event, IsNew(e, o), events' = Append(events, e), Add(o, e)
      PROVE  OthersWait(o) /\ (PassedOn(o, e) \/ HeldBack(o, e))
  <2>1. events' = Append(events, e) /\ Add(o, e)
    BY <1>5
  <2>2. OthersWait(o)
    BY <1>1, <2>1 DEF Add, Types, OthersWait
  <2>3. CASE Passes(e)
    <3>1. emitted'[o] = Append(emitted[o], e) /\ pending'[o] = pending[o]
      BY <1>1, <2>1, <2>3 DEF Add, Emit, Types
    <3> QED
      BY <1>4, <2>1, <2>2, <2>3, <3>1 DEF PassedOn
  <2>4. CASE ~Passes(e)
    <3>1. Queued(o, e) \/ Merged(o, e)
      <4>1. CASE ~Waits(o)
        BY <1>1, <2>1, <2>4, <4>1 DEF Add, Types, Queued, Waits
      <4>2. CASE Waits(o)
        BY <1>1, <2>1, <2>4, <4>2 DEF Add, Types, Merged, Waits
      <4> QED
        BY <4>1, <4>2
    <3>2. UNCHANGED brokerVars
      BY <1>3, <3>1 DEF Queued, Merged
    <3> QED
      BY <2>1, <2>2, <3>1, <3>2 DEF HeldBack
  <2> QED
    BY <2>3, <2>4
<1>6. ASSUME Flush(o) \/ FlushAll PROVE OthersWait(o) /\ (Silent \/ Released(o))
  <2>1. events' = events
    BY <1>6 DEF Flush, FlushAll
  <2>2. OthersWait(o)
    <3>1. CASE Flush(o)
      BY <1>1, <3>1 DEF Flush, Types, OthersWait
    <3>2. CASE FlushAll
      <4> SUFFICES ASSUME NEW p \in Orders \ {o} PROVE pending'[p] = pending[p]
        BY DEF OthersWait
      <4>1. emitted'[p] = emitted[p]
        BY <1>2 DEF Relay
      <4>2. ASSUME Waits(p) PROVE FALSE
        <5>1. emitted[p] \in Seq(Event) /\ pending[p].latest \in Event
          BY <1>1, <4>2, WaitingIs DEF Types, Waiting
        <5>2. emitted'[p] = Append(emitted[p], pending[p].latest)
          BY <3>2, <4>2 DEF FlushAll, Waits
        <5> QED
          BY <4>1, <5>1, <5>2, AppendedLast
      <4> QED
        BY <3>2, <4>2 DEF FlushAll, Waits
    <3> QED
      BY <1>6, <3>1, <3>2
  <2>3. pending'[o] = NoPending
    BY <1>1, <1>6 DEF Flush, FlushAll, Types
  <2>4. CASE Waits(o)
    <3>1. emitted'[o] = Append(emitted[o], pending[o].latest)
      BY <1>1, <1>6, <2>4 DEF Flush, FlushAll, Emit, Types, Waits
    <3>2. pending[o].latest \in Event
      BY <1>1, <2>4, WaitingIs DEF Waiting
    <3> QED
      BY <1>4, <2>1, <2>2, <2>3, <2>4, <3>1, <3>2 DEF Released
  <2>5. CASE ~Waits(o)
    <3>1. emitted'[o] = emitted[o]
      BY <1>1, <1>6, <2>5 DEF Flush, FlushAll, Emit, Types, Waits
    <3>2. pending' = pending
      BY <1>1, <1>6, <2>2, <2>3, <2>5, DomainsStay DEF Flush, FlushAll, Types, Waits, OthersWait
    <3> QED
      BY <1>3, <2>1, <2>2, <3>1, <3>2 DEF Silent
  <2> QED
    BY <2>4, <2>5
<1>7. CASE Watch(o)
  <2>1. CASE Idle
    BY <1>3, <2>1 DEF Idle, OthersWait, Silent
  <2> QED
    BY <1>1, <1>5, <1>7, <2>1, WatchIs
<1> QED
  BY <1>6, <1>7 DEF BufferStep

-----------------------------------------------------------------------------
(* The invariant of the stream.                                            *)

(* Events are numbered; what waits is an update.                           *)
NumOK == \A n \in DOMAIN events :
            events[n].seq = n /\ (~Passes(events[n]) => events[n].after \in Docs)

(* A broadcast is of an event, and shows a filter what that event does.    *)
Names(k) == /\ k.order \in Orders
            /\ k.seq \in DOMAIN events /\ events[k.seq].order = k.order
            /\ k.intent = events[k.seq].intent
            /\ k.after = Customer(events[k.seq].after)

NamesOK == \A i \in DOMAIN published : Names(published[i].kind)

(* What does not wait was broadcast as it is.                              *)
PassedOK == \A n \in DOMAIN events : Passes(events[n]) =>
               \E i \in DOMAIN published : published[i].kind = Kind(events[n])

(* What waits for an order stands for every event of it that no broadcast  *)
(* stands for.                                                             *)
HeldOK(o) ==
    IF Waits(o)
    THEN LET k == Kind(pending[o].latest)
         IN /\ k.order = o /\ Names(k) /\ k.seq \in Waited(o)
            /\ k.count = pending[o].count
            /\ \A n \in Waited(o) :
                 n <= k.seq /\ (Carriers(n) = {} => n \in StandsFor(k))
    ELSE \A n \in Waited(o) : Carriers(n) # {}

(* A broadcast of an event that came after the client, and that its filter *)
(* lets through, was suppressed, got it, or gave it a strike.              *)
ReachOK(c) ==
    c \in registered =>
        \A i \in DOMAIN published :
            published[i].kind.seq > joined[c] /\ published[i].sent
              /\ BP!Matches(scope[c], published[i].kind)
            => dropped[c] > 0 \/ i \in BP!Got(c)

(* The broker's own invariant.                                             *)
BrokerInv == BP!Types /\ BP!ConnInv /\ BP!InOrderInScope /\ BP!LossesCounted

StreamTypes == BrokerInv /\ joined \in [Clients -> Nat]

StreamInv == /\ Inv /\ StreamTypes
             /\ NumOK /\ NamesOK /\ PassedOK
             /\ \A o \in Orders : HeldOK(o)
             /\ \A c \in Clients : ReachOK(c)

-----------------------------------------------------------------------------
(* A new broadcast is at the end.                                          *)
LEMMA PublishedGrows ==
    ASSUME BP!Types, NEW k \in Kinds, Broker!Broadcast(k)
    PROVE  /\ Len(published) \in Nat /\ DOMAIN published = 1 .. Len(published)
           /\ DOMAIN published' = DOMAIN published \cup {Len(published) + 1}
           /\ published'[Len(published) + 1].kind = k
           /\ published'[Len(published) + 1].sent = ~engaged
           /\ \A i \in DOMAIN published : i <= Len(published) /\ published'[i] = published[i]
<1>1. /\ published' = Append(published, [kind |-> k, sent |-> ~engaged])
      /\ [kind |-> k, sent |-> ~engaged] \in [kind : Kinds, sent : BOOLEAN]
      /\ published \in Seq([kind : Kinds, sent : BOOLEAN])
  BY DEF Broker!Broadcast, BP!Types
<1>2. published'[Len(published) + 1] = [kind |-> k, sent |-> ~engaged]
  BY <1>1, AppendProperties
<1>3. /\ published'[Len(published) + 1].kind = k
      /\ published'[Len(published) + 1].sent = ~engaged
  BY <1>2
<1> QED
  BY <1>1, <1>3, AppendProperties

EventsStay == events' = events \/ \E e \in Event : events' = Append(events, e)

(* What waited up to an event is settled.                                  *)
LEMMA WaitedStays ==
    ASSUME Types, NumOK, EventsStay, NEW o, NEW s \in DOMAIN events
    PROVE  /\ \A n : n <= s => (n \in Waited(o)' <=> n \in Waited(o))
           /\ \A n : Between(o, n, s)' = Between(o, n, s)
<1>1. s \in Nat /\ s <= Len(events) /\ Len(events) \in Nat
  BY DEF Types
<1>2. ASSUME NEW n \in Nat, n <= s PROVE n \in Waited(o)' <=> n \in Waited(o)
  <2>1. CASE events' = events
    BY <2>1 DEF Waited, Passes, Urgent
  <2>2. ASSUME NEW e \in Event, events' = Append(events, e)
        PROVE  n \in Waited(o)' <=> n \in Waited(o)
    <3>1. n \in DOMAIN events' <=> n \in DOMAIN events
      BY <1>1, <1>2, <2>2, NewestAtEnd
    <3>2. n \in DOMAIN events => events'[n] = events[n]
      BY <2>2, NewestAtEnd
    <3> QED
      BY <3>1, <3>2 DEF Waited, Passes, Urgent
  <2> QED
    BY <2>1, <2>2 DEF EventsStay
<1>3. Waited(o) \subseteq Nat /\ Waited(o)' \subseteq Nat
  <2>1. Waited(o) \subseteq Nat
    BY DEF Waited, Types
  <2>2. DOMAIN events' \subseteq Nat
    <3>1. CASE events' = events
      BY <3>1 DEF Types
    <3>2. ASSUME NEW e \in Event, events' = Append(events, e) PROVE DOMAIN events' \subseteq Nat
      BY <3>2, NewestAtEnd
    <3> QED
      BY <3>1, <3>2 DEF EventsStay
  <2> QED
    BY <2>1, <2>2 DEF Waited
<1>4. \A n : n <= s => (n \in Waited(o)' <=> n \in Waited(o))
  BY <1>2, <1>3
<1>5. \A n : Between(o, n, s)' = Between(o, n, s)
  BY <1>4 DEF Between
<1> QED
  BY <1>4, <1>5

(* What a broadcast stands for stays the same.                             *)
LEMMA StandsStays ==
    ASSUME Types, NumOK, EventsStay, NEW k, k.seq \in DOMAIN events
    PROVE  StandsFor(k)' = StandsFor(k)
<1>1. k.seq \in Nat
  BY DEF Types
<1>2. k.seq \in Waited(k.order)' <=> k.seq \in Waited(k.order)
  BY <1>1, WaitedStays
<1>3. \A n : n <= k.seq => (n \in Waited(k.order)' <=> n \in Waited(k.order))
  BY WaitedStays
<1>4. \A n : Between(k.order, n, k.seq)' = Between(k.order, n, k.seq)
  BY WaitedStays
<1> QED
  BY <1>2, <1>3, <1>4 DEF StandsFor

(* A finite number of events waited.                                       *)
LEMMA BetweenFinite ==
    ASSUME Types, NEW o, NEW n, NEW s
    PROVE  IsFiniteSet(Between(o, n, s)) /\ Cardinality(Between(o, n, s)) \in Nat
<1>1. IsFiniteSet(DOMAIN events)
  BY LenProperties, FS_Interval DEF Types
<1>2. Between(o, n, s) \subseteq DOMAIN events
  BY DEF Between, Waited
<1>3. IsFiniteSet(Between(o, n, s))
  BY <1>1, <1>2, FS_Subset
<1> QED
  BY <1>3, FS_CardinalityType

PublishedStay == \A i \in DOMAIN published : i \in DOMAIN published'
                                             /\ published'[i] = published[i]

(* A broadcast that stands for an event goes on standing for it.           *)
LEMMA CarriersStay ==
    ASSUME Types, NumOK, NamesOK, EventsStay, PublishedStay, NEW n, NEW i \in Carriers(n)
    PROVE  i \in Carriers(n)'
<1>1. PICK k : k = published[i].kind
  OBVIOUS
<1>2. i \in DOMAIN published /\ n \in StandsFor(k) /\ k.seq \in DOMAIN events
  BY <1>1 DEF Carriers, NamesOK, Names
<1>3. n \in StandsFor(k)'
  BY <1>2, StandsStays
<1>4. i \in DOMAIN published' /\ published'[i].kind = k
  BY <1>1, <1>2 DEF PublishedStay
<1> QED
  BY <1>3, <1>4 DEF Carriers, StandsFor, Between, Waited

(* Of what is broadcast, the names stay right.                             *)
LEMMA NamesStay ==
    ASSUME Types, EventsStay, NEW k, Names(k)
    PROVE  Names(k)'
<1>1. k.seq \in DOMAIN events' /\ events'[k.seq] = events[k.seq]
  <2>1. ASSUME NEW e \in Event, events' = Append(events, e)
        PROVE  k.seq \in DOMAIN events' /\ events'[k.seq] = events[k.seq]
    BY <2>1, NewestAtEnd DEF Names
  <2> QED
    BY <2>1 DEF EventsStay, Names
<1> QED
  BY <1>1 DEF Names

(* Events and broadcasts are only added.                                   *)
LEMMA StepGrows ==
    ASSUME Inv, StreamTypes, NumOK, NEW o \in Orders, BufferStep(o)
    PROVE  EventsStay /\ PublishedStay
<1>1. Types /\ BP!Types
  BY DEF Inv, StreamTypes, BrokerInv
<1>2. CASE Silent
  BY <1>2 DEF Silent, brokerVars, EventsStay, PublishedStay
<1>3. ASSUME Released(o) PROVE EventsStay /\ PublishedStay
  <2>1. pending[o].latest \in Event
    BY <1>1, <1>3, WaitingIs DEF Released, Waiting
  <2> QED
    BY <1>1, <1>3, <2>1, PublishedGrows DEF Released, EventsStay, PublishedStay, Kinds
<1>4. ASSUME NEW e \in Event, PassedOn(o, e) PROVE EventsStay /\ PublishedStay
  BY <1>1, <1>4, PublishedGrows DEF PassedOn, EventsStay, PublishedStay, Kinds
<1>5. ASSUME NEW e \in Event, HeldBack(o, e) PROVE EventsStay /\ PublishedStay
  BY <1>5 DEF HeldBack, EventsStay, PublishedStay, brokerVars
<1> QED
  BY <1>2, <1>3, <1>4, <1>5, StreamStepIs

(* A new event is named by itself.                                         *)
LEMMA NewIsNamed ==
    ASSUME Types, NEW o \in Orders, NEW e \in Event, IsNew(e, o),
           events' = Append(events, e)
    PROVE  Names(Kind(e))' /\ Kind(e) \in Kinds
<1>1. Len(events) + 1 \in DOMAIN events' /\ events'[Len(events) + 1] = e
  BY NewestAtEnd
<1> QED
  BY <1>1 DEF Names, Kind, IsNew, Kinds

(* Every step of the buffer keeps the events numbered.                     *)
LEMMA NumStep ==
    ASSUME Inv, NumOK, NEW o \in Orders, BufferStep(o)
    PROVE  NumOK'
<1>1. Types
  BY DEF Inv
<1>2. CASE events' = events
  BY <1>2 DEF NumOK, Passes, Urgent
<1>3. ASSUME NEW e \in Event, IsNew(e, o), events' = Append(events, e)
      PROVE  NumOK'
  <2>1. e.seq = Len(events) + 1 /\ (~Passes(e) => e.after \in Docs)
    BY <1>3 DEF IsNew
  <2> QED
    BY <1>1, <1>3, <2>1, NewestAtEnd DEF NumOK, Passes, Urgent
<1> QED
  BY <1>2, <1>3, StreamStepIs DEF Silent, Released, PassedOn, HeldBack

(* What waits becomes: nothing, or an event that names the newest one.     *)
LEMMA HeldIsNamed ==
    ASSUME Types, NEW o \in Orders, NEW e \in Event, IsNew(e, o),
           HeldBack(o, e)
    PROVE  \E k : /\ k = Kind(pending'[o].latest)
                  /\ Waits(o)' /\ Names(k)' /\ k.order = o
                  /\ k.seq = Len(events) + 1 /\ k.seq \in Waited(o)'
                  /\ k.count = pending'[o].count
                  /\ k.count = IF Waits(o) THEN pending[o].count + 1 ELSE 1
<1> DEFINE l == pending'[o].latest
<1>1. /\ Waits(o)' /\ ~Passes(e) /\ pending'[o].count = IF Waits(o) THEN pending[o].count + 1 ELSE 1
      /\ l.seq = e.seq /\ l.order = e.order /\ l.intent = e.intent /\ l.after = e.after
      /\ l.count = pending'[o].count
  <2>1. CASE Queued(o, e)
    BY <2>1 DEF Queued, Waits, NoPending, IsNew
  <2>2. CASE Merged(o, e)
    <3>1. pending[o] \in Waiting /\ Waits(o)
      BY <2>2, WaitingIs DEF Merged
    <3>2. l = Coalesced(pending[o], e) /\ pending'[o].count = pending[o].count + 1
      BY <2>2 DEF Merged
    <3>3. Waits(o)' /\ ~Passes(e)
      BY <2>2 DEF Merged, Waits, NoPending
    <3> QED
      BY <3>1, <3>2, <3>3, CoalescedIs
  <2> QED
    BY <2>1, <2>2 DEF HeldBack
<1>2. e.seq = Len(events) + 1 /\ e.order = o
  BY DEF IsNew
<1>3. Len(events) + 1 \in DOMAIN events' /\ events'[Len(events) + 1] = e
  BY NewestAtEnd DEF HeldBack
<1> HIDE DEF l
<1>4. PICK k : k = Kind(l)
  OBVIOUS
<1>5. /\ k.order = o /\ k.seq = Len(events) + 1 /\ k.count = l.count
      /\ k.intent = e.intent /\ k.after = Customer(e.after)
  BY <1>1, <1>2, <1>4 DEF Kind
<1>6. k.seq \in Waited(o)' /\ Names(k)'
  BY <1>1, <1>2, <1>3, <1>5 DEF Waited, Passes, Urgent, Names, Customer
<1> QED
  BY <1>1, <1>4, <1>5, <1>6 DEF l

(* An order none of whose events came to wait keeps what it has.           *)
LEMMA HeldStays ==
    ASSUME Types, NumOK, NamesOK, EventsStay, PublishedStay, NEW p \in Orders, HeldOK(p),
           pending'[p] = pending[p], Waited(p)' = Waited(p)
    PROVE  HeldOK(p)'
<1>1. Waits(p)' <=> Waits(p)
  BY DEF Waits
<1>2. CASE Waits(p)
  <2>1. PICK k : k = Kind(pending[p].latest)
    OBVIOUS
  <2>2. /\ k.order = p /\ Names(k) /\ k.seq \in Waited(p) /\ k.count = pending[p].count
        /\ \A n \in Waited(p) : n <= k.seq /\ (Carriers(n) = {} => n \in StandsFor(k))
    BY <1>2, <2>1 DEF HeldOK
  <2>3. Names(k)' /\ StandsFor(k)' = StandsFor(k)
    BY <2>2, NamesStay, StandsStays DEF Names
  <2>4. ASSUME NEW n \in Waited(p)
        PROVE  n <= k.seq /\ (Carriers(n)' = {} => n \in StandsFor(k)')
    BY <2>2, <2>3, CarriersStay
  <2>5. k = Kind(pending'[p].latest)
    BY <2>1
  <2>6. HeldOK(p)' <=> /\ k.order = p /\ Names(k)' /\ k.seq \in Waited(p)'
                       /\ k.count = pending'[p].count
                       /\ \A n \in Waited(p)' :
                            n <= k.seq /\ (Carriers(n)' = {} => n \in StandsFor(k)')
    BY <1>1, <1>2, <2>5 DEF HeldOK, Kind, Customer, Names, StandsFor
  <2> QED
    BY <2>2, <2>3, <2>4, <2>6
<1>3. CASE ~Waits(p)
  <2>1. \A n \in Waited(p) : Carriers(n) # {}
    BY <1>3 DEF HeldOK
  <2>2. \A n \in Waited(p) : Carriers(n)' # {}
    BY <2>1, CarriersStay
  <2> QED
    BY <1>1, <1>3, <2>2 DEF HeldOK
<1> QED
  BY <1>2, <1>3

(* What waits for an event that is held back: one more, itself.            *)
LEMMA HeldGrows ==
    ASSUME Types, NumOK, NamesOK, EventsStay, PublishedStay, NEW o \in Orders, HeldOK(o),
           NEW e \in Event, IsNew(e, o), HeldBack(o, e)
    PROVE  HeldOK(o)'
<1>0. PICK N \in Nat : N = Len(events) + 1
  BY DEF Types
<1>1. PICK k : /\ k = Kind(pending'[o].latest)
               /\ Waits(o)' /\ Names(k)' /\ k.order = o
               /\ k.seq = N /\ k.seq \in Waited(o)'
               /\ k.count = pending'[o].count
               /\ k.count = IF Waits(o) THEN pending[o].count + 1 ELSE 1
  BY <1>0, HeldIsNamed
<1>2. /\ N \in Nat /\ DOMAIN events' = DOMAIN events \cup {N} /\ events' = Append(events, e)
      /\ \A n \in DOMAIN events : n \in Nat /\ n < N /\ events'[n] = events[n]
  BY <1>0, NewestAtEnd DEF HeldBack
<1>3. Waited(o)' = Waited(o) \cup {N} /\ \A n \in Waited(o) : n \in Nat /\ n < N
  <2>1. Waited(o)' \subseteq Waited(o) \cup {N}
    BY <1>2 DEF Waited, Passes, Urgent
  <2>2. Waited(o) \subseteq Waited(o)'
    BY <1>2 DEF Waited, Passes, Urgent
  <2>3. \A n \in Waited(o) : n \in Nat /\ n < N
    BY <1>2 DEF Waited
  <2> QED
    BY <1>1, <2>1, <2>2, <2>3
<1>4. ASSUME NEW n \in Waited(o)', Carriers(n)' = {} PROVE n \in StandsFor(k)'
  <2>1. SUFFICES n <= N /\ Cardinality(Between(o, n, N)') < k.count
    <3>1. StandsFor(k)' = {m \in Waited(o)' :
                              m <= N /\ Cardinality(Between(o, m, N)') < k.count}
      BY <1>1 DEF StandsFor, Between, Waited
    <3> QED
      BY <1>4, <3>1
  <2>2. CASE n = N
    <3>1. Between(o, n, N)' = {}
      BY <1>2, <1>3, <2>2 DEF Between
    <3>2. Cardinality(Between(o, n, N)') = 0
      BY <3>1, FS_EmptySet
    <3>3. Waits(o) => pending[o].count \in Nat
      BY WaitingIs DEF Waiting
    <3> QED
      BY <1>1, <1>2, <2>2, <3>2, <3>3
  <2>3. CASE n \in Waited(o)
    <3>1. Carriers(n) = {}
      BY <1>4, CarriersStay
    <3>2. Waits(o)
      BY <2>3, <3>1 DEF HeldOK
    <3>3. PICK k0 : k0 = Kind(pending[o].latest)
      OBVIOUS
    <3>4. /\ k0.order = o /\ k0.seq \in Waited(o) /\ k0.count = pending[o].count
          /\ n \in StandsFor(k0) /\ \A m \in Waited(o) : m <= k0.seq
      BY <2>3, <3>1, <3>2, <3>3 DEF HeldOK
    <3>5. Cardinality(Between(o, n, k0.seq)) < pending[o].count
      BY <3>4 DEF StandsFor
    <3>6. Between(o, n, N)' = Between(o, n, k0.seq) \cup {N}
      BY <1>2, <1>3, <2>3, <3>4 DEF Between
    <3>7. /\ IsFiniteSet(Between(o, n, k0.seq))
          /\ Cardinality(Between(o, n, k0.seq)) \in Nat
      BY BetweenFinite
    <3>8. Cardinality(Between(o, n, k0.seq) \cup {N}) <= Cardinality(Between(o, n, k0.seq)) + 1
      <4>1. Cardinality(Between(o, n, k0.seq) \cup {N}) =
              IF N \in Between(o, n, k0.seq) THEN Cardinality(Between(o, n, k0.seq))
              ELSE Cardinality(Between(o, n, k0.seq)) + 1
        BY <3>7, FS_AddElement
      <4> QED
        BY <3>7, <4>1
    <3>9. /\ IsFiniteSet(Between(o, n, k0.seq) \cup {N})
          /\ Cardinality(Between(o, n, k0.seq) \cup {N}) \in Nat
      BY <3>7, FS_AddElement, FS_CardinalityType
    <3>10. pending[o].count \in Nat /\ k.count = pending[o].count + 1
      BY <1>1, <3>2, WaitingIs DEF Waiting
    <3> QED
      BY <1>3, <2>3, <3>5, <3>6, <3>7, <3>8, <3>9, <3>10
  <2> QED
    BY <1>3, <1>4, <2>2, <2>3
<1>5. \A n \in Waited(o)' : n <= k.seq
  BY <1>1, <1>2, <1>3
<1> QED
  BY <1>1, <1>4, <1>5 DEF HeldOK, Kind, Customer, Names, StandsFor

(* What waited goes out: every event of the order has a broadcast.         *)
LEMMA HeldGoes ==
    ASSUME Types, BP!Types, NumOK, NamesOK, EventsStay, PublishedStay, NEW o \in Orders,
           HeldOK(o), Released(o)
    PROVE  HeldOK(o)'
<1>1. Waits(o) /\ ~Waits(o)' /\ events' = events
  BY DEF Released, Waits
<1>2. PICK k : k = Kind(pending[o].latest)
  OBVIOUS
<1>3. k \in Kinds
  BY <1>1, <1>2, WaitingIs DEF Waiting, Kinds
<1>4. Broker!Broadcast(k)
  BY <1>2 DEF Released
<1>5. PICK i : i \in DOMAIN published' /\ published'[i].kind = k
  BY <1>3, <1>4, PublishedGrows
<1>6. ASSUME NEW n \in Waited(o) PROVE Carriers(n)' # {}
  <2>1. CASE Carriers(n) # {}
    BY <2>1, CarriersStay
  <2>2. CASE Carriers(n) = {}
    <3>1. n \in StandsFor(k) /\ k.seq \in DOMAIN events
      <4>1. /\ Names(k)
            /\ \A m \in Waited(o) : Carriers(m) = {} => m \in StandsFor(k)
        BY <1>1, <1>2 DEF HeldOK
      <4> QED
        BY <1>6, <2>2, <4>1 DEF Names
    <3>2. n \in StandsFor(k)'
      BY <3>1, StandsStays
    <3>3. i \in Carriers(n)'
      BY <1>5, <3>2 DEF Carriers, StandsFor, Between, Waited
    <3> QED
      BY <3>3
  <2> QED
    BY <2>1, <2>2
<1>7. Waited(o)' = Waited(o)
  BY <1>1 DEF Waited, Passes, Urgent
<1> QED
  BY <1>1, <1>6, <1>7 DEF HeldOK

(* Every step of the buffer keeps what waits accounted for.                *)
LEMMA HeldStep ==
    ASSUME Inv, StreamTypes, NumOK, NamesOK, NEW o \in Orders, BufferStep(o),
           NEW p \in Orders, HeldOK(p)
    PROVE  HeldOK(p)'
<1>1. Types /\ BP!Types /\ EventsStay /\ PublishedStay
  BY StepGrows DEF Inv, StreamTypes, BrokerInv
<1>2. ASSUME events' = events, pending'[p] = pending[p] PROVE HeldOK(p)'
  <2>1. Waited(p)' = Waited(p)
    BY <1>2 DEF Waited, Passes, Urgent
  <2> QED
    BY <1>1, <1>2, <2>1, HeldStays
<1>3. ASSUME NEW e \in Event, events' = Append(events, e), e.order # p \/ Passes(e),
             pending'[p] = pending[p]
      PROVE  HeldOK(p)'
  <2>1. Waited(p)' = Waited(p)
    BY <1>1, <1>3, NewestAtEnd DEF Waited, Passes, Urgent
  <2> QED
    BY <1>1, <1>3, <2>1, HeldStays
<1>4. CASE p # o
  <2>1. pending'[p] = pending[p]
    BY <1>4, StreamStepIs DEF OthersWait
  <2>2. events' = events \/ \E e \in Event : e.order # p /\ events' = Append(events, e)
    BY <1>4, StreamStepIs DEF Silent, Released, PassedOn, HeldBack, IsNew
  <2> QED
    BY <1>2, <1>3, <2>1, <2>2
<1>5. CASE p = o
  <2>1. CASE Silent
    BY <1>2, <2>1 DEF Silent
  <2>2. CASE Released(o)
    BY <1>1, <1>5, <2>2, HeldGoes
  <2>3. ASSUME NEW e \in Event, IsNew(e, o), PassedOn(o, e)
        PROVE  HeldOK(p)'
    BY <1>3, <1>5, <2>3 DEF PassedOn
  <2>4. ASSUME NEW e \in Event, IsNew(e, o), HeldBack(o, e)
        PROVE  HeldOK(p)'
    BY <1>1, <1>5, <2>4, HeldGrows
  <2> QED
    BY <2>1, <2>2, <2>3, <2>4, StreamStepIs
<1> QED
  BY <1>4, <1>5

(* What is broadcast goes on naming its event, and what passes is          *)
(* broadcast.                                                              *)
LEMMA NamesStep ==
    ASSUME Inv, StreamTypes, NumOK, NamesOK, PassedOK, NEW o \in Orders, BufferStep(o),
           HeldOK(o)
    PROVE  NamesOK' /\ PassedOK'
<1>1. Types /\ BP!Types /\ EventsStay /\ PublishedStay
  BY StepGrows DEF Inv, StreamTypes, BrokerInv
<1>2. ASSUME NEW i \in DOMAIN published, NEW k, k = published[i].kind
      PROVE  Names(k)' /\ i \in DOMAIN published' /\ published'[i].kind = k
  BY <1>1, <1>2, NamesStay DEF NamesOK, PublishedStay
<1>3. ASSUME NEW k \in Kinds, Names(k)', Broker!Broadcast(k) PROVE NamesOK'
  <2> SUFFICES ASSUME NEW i \in DOMAIN published', NEW j, j = published'[i].kind
               PROVE  Names(j)'
    BY DEF NamesOK, Names, Customer
  <2>1. CASE i \in DOMAIN published
    BY <1>1, <1>2, <2>1 DEF PublishedStay
  <2>2. CASE i = Len(published) + 1
    BY <1>1, <1>3, <2>2, PublishedGrows
  <2> QED
    BY <1>1, <1>3, <2>1, <2>2, PublishedGrows
<1>4. ASSUME published' = published PROVE NamesOK'
  <2> SUFFICES ASSUME NEW i \in DOMAIN published, NEW j, j = published[i].kind
               PROVE  Names(j)'
    BY <1>4 DEF NamesOK, Names, Customer
  <2> QED
    BY <1>2
<1>5. ASSUME NEW n \in DOMAIN events, Passes(events[n])
      PROVE  \E i \in DOMAIN published' : published'[i].kind = Kind(events[n])
  BY <1>1, <1>5 DEF PassedOK, PublishedStay
<1>6. CASE events' = events
  <2>1. PassedOK'
    BY <1>5, <1>6 DEF PassedOK, Passes, Urgent, Kind, Customer
  <2>2. CASE Silent
    BY <1>4, <2>1, <2>2 DEF Silent, brokerVars
  <2>3. CASE Released(o)
    <3>1. PICK k : k = Kind(pending[o].latest)
      OBVIOUS
    <3>2. k \in Kinds /\ Names(k) /\ Broker!Broadcast(k)
      BY <1>1, <2>3, <3>1, WaitingIs DEF Released, Waiting, Kinds, HeldOK
    <3>3. Names(k)'
      BY <1>1, <3>2, NamesStay
    <3> QED
      BY <1>3, <2>1, <3>2, <3>3
  <2>4. ASSUME NEW e \in Event PROVE ~PassedOn(o, e) /\ ~HeldBack(o, e)
    BY <1>1, <1>6, NewestAtEnd DEF PassedOn, HeldBack
  <2> QED
    BY <2>2, <2>3, <2>4, StreamStepIs
<1>7. ASSUME NEW e \in Event, IsNew(e, o), PassedOn(o, e)
      PROVE  NamesOK' /\ PassedOK'
  <2>1. events' = Append(events, e) /\ Broker!Broadcast(Kind(e))
    BY <1>7 DEF PassedOn
  <2>2. PICK k : k = Kind(e)
    OBVIOUS
  <2>3. k \in Kinds /\ Names(k)'
    BY <1>1, <1>7, <2>1, <2>2, NewIsNamed
  <2>4. NamesOK'
    BY <1>3, <2>1, <2>2, <2>3
  <2>5. \E i \in DOMAIN published' : published'[i].kind = Kind(e)
    <3>1. k \in Kinds /\ Broker!Broadcast(k)
      BY <2>1, <2>2, <2>3
    <3>2. \E i \in DOMAIN published' : published'[i].kind = k
      BY <1>1, <3>1, PublishedGrows
    <3> QED
      BY <2>2, <3>2
  <2>6. PassedOK'
    BY <1>1, <1>5, <2>1, <2>5, NewestAtEnd DEF PassedOK, Passes, Urgent, Kind, Customer
  <2> QED
    BY <2>4, <2>6
<1>8. ASSUME NEW e \in Event, IsNew(e, o), HeldBack(o, e)
      PROVE  NamesOK' /\ PassedOK'
  <2>1. events' = Append(events, e) /\ ~Passes(e) /\ published' = published
    BY <1>8 DEF HeldBack, Queued, Merged, brokerVars
  <2>2. PassedOK'
    BY <1>1, <1>5, <2>1, NewestAtEnd DEF PassedOK, Passes, Urgent, Kind, Customer
  <2> QED
    BY <1>4, <2>1, <2>2
<1> QED
  BY <1>6, <1>7, <1>8, StreamStepIs DEF Silent, Released

-----------------------------------------------------------------------------
(* Broker and BP are the same instance, but for the kinds and the theorems.*)

(* A broadcast of the stream is one of the broker.                         *)
LEMMA SameBroadcast == \A k : Broker!Broadcast(k) => BP!Broadcast(k)
BY DEF BP!Broadcast, Broker!Broadcast, BP!Offer, Broker!Offer, BP!Targets,
       Broker!Targets, BP!Struck, Broker!Struck, BP!Out, Broker!Out, BP!Change,
       Broker!Change, BP!Matches, Broker!Matches

(* So are the other steps.                                                 *)
LEMMA SameSteps ==
    /\ Broker!Engage => BP!Engage
    /\ Broker!Release => BP!Release
    /\ \A c \in Clients : /\ Broker!Hello(c) => BP!Hello(c)
                          /\ Broker!Deliver(c) => BP!Deliver(c)
                          /\ \A q \in Queries : Broker!Subscribe(c, q) => BP!Subscribe(c, q)
<1>1. (Broker!Engage => BP!Engage) /\ (Broker!Release => BP!Release)
  BY DEF BP!Engage, Broker!Engage, BP!Release, Broker!Release, BP!BroadcastSystem,
         Broker!BroadcastSystem, BP!Offer, Broker!Offer, BP!Message, Broker!Message
<1>2. ASSUME NEW c \in Clients
      PROVE  (Broker!Hello(c) => BP!Hello(c)) /\ (Broker!Deliver(c) => BP!Deliver(c))
  BY DEF BP!Hello, Broker!Hello, BP!Deliver, Broker!Deliver, BP!brokerVars,
         Broker!brokerVars
<1>3. ASSUME NEW c \in Clients, NEW q \in Queries
      PROVE  Broker!Subscribe(c, q) => BP!Subscribe(c, q)
  BY DEF BP!Subscribe, Broker!Subscribe, BP!Parse, Broker!Parse
<1> QED
  BY <1>1, <1>2, <1>3

(* A step of the buffer broadcasts one event, or nothing.                  *)
LEMMA StepBroadcasts ==
    ASSUME Inv, NEW o \in Orders, BufferStep(o)
    PROVE  UNCHANGED brokerVars \/ \E k \in Kinds : Broker!Broadcast(k)
<1>1. Released(o) => Kind(pending[o].latest) \in Kinds
  BY WaitingIs DEF Released, Waiting, Kinds, Inv
<1>2. \A e \in Event : Kind(e) \in Kinds
  BY DEF Kinds
<1> QED
  BY <1>1, <1>2, StreamStepIs DEF Silent, Released, PassedOn, HeldBack

(* So a step of the stream is one of the buffer and one of the broker.     *)
LEMMA StreamParts ==
    ASSUME Inv, [StreamNext]_streamVars
    PROVE  [Next]_vars /\ [BP!Next]_BP!vars
<1>1. CASE UNCHANGED streamVars
  BY <1>1 DEF streamVars, bufferVars, brokerVars, BP!vars, BP!brokerVars
<1>2. ASSUME NEW o \in Orders, BufferStep(o) PROVE [Next]_vars /\ [BP!Next]_BP!vars
  <2>1. Next
    BY <1>2 DEF BufferStep, Next
  <2>2. ASSUME NEW k \in Kinds, Broker!Broadcast(k) PROVE BP!Next
    BY <2>2, SameBroadcast DEF BP!Next
  <2>3. ASSUME UNCHANGED brokerVars PROVE UNCHANGED BP!vars
    BY <2>3 DEF brokerVars, BP!vars, BP!brokerVars
  <2>4. UNCHANGED brokerVars \/ \E k \in Kinds : Broker!Broadcast(k)
    BY <1>2, StepBroadcasts
  <2> QED
    BY <2>1, <2>2, <2>3, <2>4
<1>3. ASSUME NEW c \in Clients, NEW q \in Queries, Join(c, q)
      PROVE  [Next]_vars /\ [BP!Next]_BP!vars
  BY <1>3, SameSteps DEF Join, bufferVars, BP!Next, BP!Connection
<1>4. CASE BrokerStep
  BY <1>4, SameSteps DEF BrokerStep, bufferVars, BP!Next, BP!Connection
<1> QED
  BY <1>1, <1>2, <1>3, <1>4 DEF StreamNext

(* Every step keeps the invariant of the broker.                           *)
LEMMA BrokerKept ==
    ASSUME BrokerInv, [BP!Next]_BP!vars
    PROVE  BrokerInv'
BY BrokerFits, BP!TypeStep, BP!ConnStep, BP!OrderStep, BP!LossStep DEF BrokerInv

(* A step that is not the buffer's leaves the events where they are.       *)
LEMMA EventsKept ==
    ASSUME Types, NumOK, NamesOK, PassedOK, UNCHANGED <<bufferVars, published>>
    PROVE  /\ NumOK' /\ NamesOK' /\ PassedOK'
           /\ \A o \in Orders : HeldOK(o) => HeldOK(o)'
<1>1. UNCHANGED <<events, pending, published>>
  BY DEF bufferVars, vars
<1>2. NumOK' /\ NamesOK' /\ PassedOK'
  <2>1. NumOK'
    BY <1>1 DEF NumOK, Passes, Urgent
  <2>2. NamesOK'
    BY <1>1 DEF NamesOK, Names, Customer
  <2>3. PassedOK'
    BY <1>1 DEF PassedOK, Passes, Urgent, Kind, Customer
  <2> QED
    BY <2>1, <2>2, <2>3
<1>3. ASSUME NEW o \in Orders, HeldOK(o) PROVE HeldOK(o)'
  <2>1. EventsStay /\ PublishedStay
    BY <1>1 DEF EventsStay, PublishedStay
  <2>2. pending'[o] = pending[o] /\ Waited(o)' = Waited(o)
    BY <1>1 DEF Waited, Passes, Urgent
  <2> QED
    BY <1>3, <2>1, <2>2, HeldStays
<1> QED
  BY <1>2, <1>3

(* ReachOK, after a step.                                                  *)
LEMMA ReachPrimed ==
    ASSUME NEW c,
           c \in registered' =>
             \A i \in DOMAIN published' :
                published'[i].kind.seq > joined'[c] /\ published'[i].sent
                  /\ BP!Matches(scope'[c], published'[i].kind)
                => dropped'[c] > 0 \/ i \in BP!Got(c)'
    PROVE  ReachOK(c)'
BY Zenon DEF ReachOK, BP!Matches

(* A client keeps what it got, and gets what it has to.                    *)
LEMMA ReachStep ==
    ASSUME Inv, StreamTypes, NumOK, NamesOK, [StreamNext]_streamVars, NEW c \in Clients,
           ReachOK(c)
    PROVE  ReachOK(c)'
<1>1. BP!Types /\ BP!ConnInv /\ BP!OrderOK(c)
  BY DEF StreamTypes, BrokerInv, BP!InOrderInScope, BP!OrderOK, BP!IsChange
<1>2. ASSUME UNCHANGED <<published, scope, dropped, joined>>, BP!Got(c)' = BP!Got(c),
             c \in registered' => c \in registered
      PROVE  ReachOK(c)'
  BY <1>2 DEF ReachOK, BP!Matches
<1>3. CASE UNCHANGED streamVars
  BY <1>1, <1>2, <1>3, BrokerFits, BP!OrderKept DEF streamVars, brokerVars
<1>4. ASSUME NEW k \in Kinds, Broker!Broadcast(k), joined' = joined PROVE ReachOK(c)'
  <2>1. BP!Broadcast(k)
    BY <1>4, SameBroadcast
  <2>2. /\ published' = Append(published, [kind |-> k, sent |-> ~engaged])
        /\ \A n \in DOMAIN published : n \in DOMAIN published'
                                        /\ published'[n] = published[n]
        /\ UNCHANGED <<received, scope, peer>>
        /\ \/ /\ c \notin BP!Targets(k)
              /\ queue'[c] = queue[c] /\ dropped'[c] = dropped[c]
           \/ /\ c \in BP!Targets(k)
              /\ queue'[c] = Append(queue[c], BP!Change(Len(published) + 1))
              /\ dropped'[c] = dropped[c]
           \/ /\ c \in BP!Targets(k)
              /\ queue'[c] = queue[c] /\ dropped'[c] = dropped[c] + 1
    BY <1>1, <2>1, BrokerFits, BP!BroadcastCases
  <2>3. /\ DOMAIN published' = DOMAIN published \cup {Len(published) + 1}
        /\ published'[Len(published) + 1].kind = k
        /\ published'[Len(published) + 1].sent = ~engaged
    BY <1>1, <1>4, PublishedGrows
  <2>4. dropped[c] \in Nat /\ registered' \subseteq registered
    BY <1>1, <1>4 DEF BP!Types, Broker!Broadcast
  <2>5. /\ BP!Got(c) \subseteq BP!Got(c)'
        /\ dropped'[c] > 0 \/ dropped'[c] = dropped[c]
        /\ c \in registered /\ ~engaged /\ BP!Matches(scope[c], k) =>
             dropped'[c] > 0 \/ Len(published) + 1 \in BP!Got(c)'
    <3>1. CASE c \notin BP!Targets(k) /\ queue'[c] = queue[c] /\ dropped'[c] = dropped[c]
      <4>1. BP!Got(c)' = BP!Got(c)
        BY <1>1, <2>2, <3>1, BrokerFits, BP!OrderKept
      <4> QED
        BY <3>1, <4>1 DEF BP!Targets
    <3>2. CASE /\ c \in BP!Targets(k)
               /\ queue'[c] = Append(queue[c], BP!Change(Len(published) + 1))
               /\ dropped'[c] = dropped[c]
      <4>1. ~engaged /\ BP!Matches(scope[c], k)
        BY <3>2 DEF BP!Targets
      <4>2. /\ published' = Append(published, [kind |-> k, sent |-> TRUE])
            /\ [kind |-> k, sent |-> TRUE] \in [kind : Kinds, sent : BOOLEAN]
        BY <2>2, <4>1
      <4>3. BP!Got(c)' = BP!Got(c) \cup {Len(published) + 1}
        BY <1>1, <2>2, <3>2, <4>1, <4>2, BrokerFits, BP!OrderWithEvent
      <4> QED
        BY <3>2, <4>3
    <3>3. CASE queue'[c] = queue[c] /\ dropped'[c] = dropped[c] + 1
      <4>1. BP!Got(c)' = BP!Got(c)
        BY <1>1, <2>2, <3>3, BrokerFits, BP!OrderKept
      <4> QED
        BY <2>4, <3>3, <4>1
    <3> QED
      BY <2>2, <3>1, <3>2, <3>3
  <2>6. ASSUME c \in registered', NEW i \in DOMAIN published',
               published'[i].kind.seq > joined'[c], published'[i].sent,
               BP!Matches(scope'[c], published'[i].kind)
        PROVE  dropped'[c] > 0 \/ i \in BP!Got(c)'
    <3>1. joined'[c] = joined[c] /\ scope'[c] = scope[c] /\ c \in registered
      BY <1>4, <2>2, <2>4, <2>6
    <3>2. CASE i \in DOMAIN published
      <4>1. published'[i] = published[i]
        BY <2>2, <3>2
      <4>2. dropped[c] > 0 \/ i \in BP!Got(c)
        BY <2>6, <3>1, <3>2, <4>1 DEF ReachOK
      <4> QED
        BY <2>5, <4>2
    <3>3. CASE i = Len(published) + 1
      <4>1. ~engaged /\ BP!Matches(scope[c], k)
        BY <2>3, <2>6, <3>1, <3>3
      <4> QED
        BY <2>5, <3>1, <3>3, <4>1
    <3> QED
      BY <2>3, <3>2, <3>3
  <2>7. c \in registered' =>
           \A i \in DOMAIN published' :
              published'[i].kind.seq > joined'[c] /\ published'[i].sent
                /\ BP!Matches(scope'[c], published'[i].kind)
              => dropped'[c] > 0 \/ i \in BP!Got(c)'
    BY <2>6
  <2> QED
    BY <2>7, ReachPrimed
<1>5. ASSUME NEW o \in Orders, BufferStep(o) PROVE ReachOK(c)'
  <2>1. joined' = joined
    BY <1>5 DEF BufferStep
  <2>2. UNCHANGED brokerVars \/ \E k \in Kinds : Broker!Broadcast(k)
    BY <1>5, StepBroadcasts
  <2>3. ASSUME UNCHANGED brokerVars PROVE ReachOK(c)'
    BY <1>1, <1>2, <2>1, <2>3, BrokerFits, BP!OrderKept DEF brokerVars
  <2> QED
    BY <1>4, <2>1, <2>2, <2>3
<1>6. ASSUME NEW d \in Clients, NEW q \in Queries, Join(d, q) PROVE ReachOK(c)'
  <2>1. /\ UNCHANGED <<events, published, queue, received, dropped>>
        /\ d # c => scope'[c] = scope[c] /\ joined'[c] = joined[c]
                    /\ (c \in registered' <=> c \in registered)
        /\ d = c => joined'[c] = Len(events)
    BY <1>1, <1>6 DEF Join, Broker!Subscribe, bufferVars, vars, StreamTypes, BP!Types
  <2>2. CASE d = c
    <3>1. \A i \in DOMAIN published : published[i].kind.seq <= Len(events)
                                       /\ published[i].kind.seq \in Nat
      BY DEF NamesOK, Names, Inv, Types
    <3>2. Len(events) \in Nat
      BY DEF Inv, Types
    <3>3. \A i \in DOMAIN published' : ~(published'[i].kind.seq > joined'[c])
      BY <2>1, <2>2, <3>1, <3>2
    <3>4. c \in registered' =>
             \A i \in DOMAIN published' :
                published'[i].kind.seq > joined'[c] /\ published'[i].sent
                  /\ BP!Matches(scope'[c], published'[i].kind)
                => dropped'[c] > 0 \/ i \in BP!Got(c)'
      BY <3>3
    <3> QED
      BY <3>4, ReachPrimed
  <2>3. CASE d # c
    <3>1. BP!Got(c)' = BP!Got(c)
      BY <1>1, <2>1, <2>3, BrokerFits, BP!OrderKept
    <3> QED
      BY <2>1, <2>3, <3>1 DEF ReachOK, BP!Matches
  <2> QED
    BY <2>2, <2>3
<1>7. CASE BrokerStep
  <2>1. UNCHANGED <<published, scope, dropped, joined>>
        /\ (c \in registered' => c \in registered)
    BY <1>7 DEF BrokerStep, Broker!Engage, Broker!Release, Broker!Hello, Broker!Deliver,
                Broker!brokerVars
  <2>2. BP!Engage \/ BP!Release \/ \E d \in Clients : BP!Hello(d) \/ BP!Deliver(d)
    BY <1>7, SameSteps DEF BrokerStep
  <2>3. CASE BP!Engage \/ BP!Release
    BY <1>1, <1>2, <2>1, <2>3, BrokerFits, BP!MessageKeeps
       DEF BP!Engage, BP!Release, BP!BroadcastSystem
  <2>4. ASSUME NEW d \in Clients, BP!Hello(d) PROVE ReachOK(c)'
    BY <1>1, <1>2, <2>1, <2>4, BrokerFits, BP!OrderKept DEF BP!Hello, BP!brokerVars
  <2>5. ASSUME NEW d \in Clients, BP!Deliver(d) PROVE ReachOK(c)'
    <3>1. c # d => queue'[c] = queue[c] /\ received'[c] = received[c]
      BY <1>1, <2>5 DEF BP!Deliver, BP!Types
    <3>2. BP!Got(c)' = BP!Got(c)
      BY <1>1, <2>1, <2>5, <3>1, BrokerFits, BP!OrderKept, BP!DeliverKeeps DEF BP!Deliver
    <3> QED
      BY <1>2, <2>1, <3>2
  <2> QED
    BY <2>2, <2>3, <2>4, <2>5
<1> QED
  BY <1>3, <1>5, <1>6, <1>7 DEF StreamNext

(* No event, no broadcast, no client at the start.                         *)
LEMMA StreamStarts == StreamInit => StreamInv
<1> SUFFICES ASSUME StreamInit PROVE StreamInv
  OBVIOUS
<1>1. Inv
  BY InvInit DEF StreamInit
<1>2. BP!Init
  BY DEF StreamInit, BP!Init, Broker!Init
<1>3. BP!Types /\ BP!ConnInv
  BY <1>2, BrokerFits, BP!InitOK
<1>4. BP!InOrderInScope /\ BP!LossesCounted
  BY <1>2 DEF BP!Init, BP!InOrderInScope, BP!LossesCounted, BP!Got, BP!Sent, BP!Waiting
<1>5. joined \in [Clients -> Nat]
  BY DEF StreamInit
<1>6. events = <<>> /\ published = <<>> /\ registered = {} /\ pending = [o \in Orders |-> NoPending]
  BY <1>2 DEF StreamInit, Init, BP!Init
<1>7. NumOK /\ NamesOK /\ PassedOK
  BY <1>6 DEF NumOK, NamesOK, PassedOK
<1>8. \A o \in Orders : HeldOK(o)
  BY <1>6 DEF HeldOK, Waits, Waited
<1>9. \A c \in Clients : ReachOK(c)
  BY <1>6 DEF ReachOK
<1> QED
  BY <1>1, <1>3, <1>4, <1>5, <1>7, <1>8, <1>9 DEF StreamInv, StreamTypes, BrokerInv

(* Every step of the stream keeps its invariant.                           *)
LEMMA StreamKeeps == ASSUME StreamInv, [StreamNext]_streamVars PROVE StreamInv'
<1>1. /\ Inv /\ StreamTypes /\ BrokerInv /\ Types
      /\ NumOK /\ NamesOK /\ PassedOK
      /\ \A o \in Orders : HeldOK(o)
      /\ \A c \in Clients : ReachOK(c)
  BY DEF StreamInv, StreamTypes, Inv
<1>2. Inv' /\ BrokerInv'
  BY <1>1, StreamParts, InvStep, BrokerKept
<1>3. joined' \in [Clients -> Nat]
  <2>1. Len(events) \in Nat
    BY <1>1 DEF Types
  <2> QED
    BY <1>1, <2>1 DEF StreamNext, streamVars, BufferStep, Join, BrokerStep, StreamTypes
<1>4. \A c \in Clients : ReachOK(c)'
  BY <1>1, ReachStep
<1>5. NumOK' /\ NamesOK' /\ PassedOK' /\ \A o \in Orders : HeldOK(o)'
  <2>1. ASSUME NEW o \in Orders, BufferStep(o)
        PROVE  NumOK' /\ NamesOK' /\ PassedOK' /\ \A p \in Orders : HeldOK(p)'
    BY <1>1, <2>1, NumStep, NamesStep, HeldStep
  <2>2. CASE UNCHANGED <<bufferVars, published>>
    BY <1>1, <2>2, EventsKept
  <2>3. ASSUME NEW c \in Clients, NEW q \in Queries, Join(c, q)
        PROVE  UNCHANGED <<bufferVars, published>>
    BY <2>3 DEF Join, Broker!Subscribe
  <2>4. BrokerStep => UNCHANGED <<bufferVars, published>>
    BY DEF BrokerStep, Broker!Engage, Broker!Release, Broker!Hello, Broker!Deliver
  <2>5. UNCHANGED streamVars => UNCHANGED <<bufferVars, published>>
    BY DEF streamVars, brokerVars
  <2> QED
    BY <2>1, <2>2, <2>3, <2>4, <2>5 DEF StreamNext
<1> QED
  BY <1>2, <1>3, <1>4, <1>5 DEF StreamInv, StreamTypes

(* The invariant of the stream.                                            *)
THEOREM StreamInvHolds == StreamSpec => []StreamInv
BY StreamStarts, StreamKeeps, PTL DEF StreamSpec

(* The composition implements the buffer: relaying what it emits stops and *)
(* changes nothing of it.                                                  *)
THEOREM StreamHasBuffer == StreamSpec => Spec
<1>1. StreamInit => Init
  BY DEF StreamInit
<1>2. StreamInv /\ [StreamNext]_streamVars => [Next]_vars
  BY StreamParts DEF StreamInv
<1> QED
  BY <1>1, <1>2, StreamInvHolds, PTL DEF StreamSpec, Spec

(* ... and the broker.                                                     *)
THEOREM StreamHasBroker == StreamSpec => BP!Spec
<1>1. StreamInit => BP!Init
  BY DEF StreamInit, BP!Init, Broker!Init
<1>2. StreamInv /\ [StreamNext]_streamVars => [BP!Next]_BP!vars
  BY StreamParts DEF StreamInv
<1> QED
  BY <1>1, <1>2, StreamInvHolds, PTL DEF StreamSpec, BP!Spec

(* So what BP says of a client, the stream says.                           *)
LEMMA SameGot == \A c \in Clients : Broker!Got(c) = BP!Got(c)
BY DEF Broker!Got, BP!Got, Broker!Sent, BP!Sent, Broker!Waiting, BP!Waiting,
       Broker!IsChange, BP!IsChange

(* The filter of a subscription is the same one.                           *)
LEMMA SameMatches == \A s, k : Broker!Matches(s, k) <=> BP!Matches(s, k)
BY DEF Broker!Matches, BP!Matches

(* With the buffer before it, whatever is coalesced: a client gets events  *)
(* of its scope, in order of broadcast, once, none that was suppressed.    *)
THEOREM StreamInOrder == StreamSpec => []InOrderInScope
<1>1. StreamInv => InOrderInScope
  BY DEF StreamInv, StreamTypes, BrokerInv, InOrderInScope, Broker!InOrderInScope,
         BP!InOrderInScope, Broker!Sent, BP!Sent, Broker!Waiting, BP!Waiting, Broker!Got,
         BP!Got, Broker!IsChange, BP!IsChange, Broker!InScope, BP!InScope,
         Broker!Matches, BP!Matches
<1> QED
  BY <1>1, StreamInvHolds, PTL

(* ... and misses no more of them than it has strikes.                     *)
THEOREM StreamLosses == StreamSpec => []LossesCounted
<1>1. ASSUME NEW c \in Clients, NEW n
      PROVE  Broker!InScope(c, n) = BP!InScope(c, n)
  BY DEF Broker!InScope, BP!InScope, Broker!Matches, BP!Matches
<1>2. \A S : Broker!Cardinality(S) = BP!Cardinality(S)
  BY DEF Broker!Cardinality, BP!Cardinality, Broker!IsFiniteSet, BP!IsFiniteSet
<1>3. StreamInv => LossesCounted
  <2> SUFFICES ASSUME StreamInv, NEW c \in registered, peer[c], NEW n \in Broker!Got(c)
               PROVE  Broker!Cardinality(Broker!InScope(c, n) \ Broker!Got(c)) <= dropped[c]
    BY DEF LossesCounted, Broker!LossesCounted
  <2>1. c \in Clients /\ BP!LossesCounted
    BY DEF StreamInv, StreamTypes, BrokerInv, BP!Types
  <2>2. BP!Cardinality(BP!InScope(c, n) \ BP!Got(c)) <= dropped[c]
    BY <2>1, SameGot DEF BP!LossesCounted
  <2> QED
    BY <1>1, <1>2, <2>1, <2>2, SameGot
<1> QED
  BY <1>3, StreamInvHolds, PTL

(* Every urgent event, of any order, reaches every client it concerns as   *)
(* it is, or the client has a strike, or the kill switch was engaged.      *)
THEOREM UrgentHolds == StreamSpec => []UrgentReaches
<1>1. StreamInv => UrgentReaches
  <2> SUFFICES ASSUME StreamInv, NEW c \in registered, NEW n \in DOMAIN events,
                      Urgent(events[n]), Concerns(c, n), ~Excused(c, n)
               PROVE  \E i \in Carriers(n) : i \in Broker!Got(c)
                                             /\ published[i].kind.seq = n
    BY DEF UrgentReaches
  <2>0. c \in Clients /\ dropped[c] \in Nat
    BY DEF StreamInv, StreamTypes, BrokerInv, BP!Types
  <2>1. PICK i \in DOMAIN published : published[i].kind = Kind(events[n])
    BY DEF StreamInv, PassedOK, Passes
  <2>2. published[i].kind.seq = n
    BY <2>1 DEF StreamInv, NumOK, Kind
  <2>3. i \in Carriers(n)
    <3>1. n \notin Waited(published[i].kind.order)
      BY DEF Waited, Passes
    <3> QED
      BY <2>2, <3>1 DEF Carriers, StandsFor
  <2>4. dropped[c] = 0 /\ published[i].sent
    BY <2>0, <2>3 DEF Excused
  <2>5. n > joined[c] /\ BP!Matches(scope[c], published[i].kind)
    BY <2>1, SameMatches DEF Concerns
  <2>6. i \in BP!Got(c)
    BY <2>0, <2>2, <2>4, <2>5 DEF StreamInv, ReachOK
  <2> QED
    BY <2>0, <2>2, <2>3, <2>6, SameGot
<1> QED
  BY <1>1, StreamInvHolds, PTL

(* Any other event reaches the clients it concerns, still waits, or went   *)
(* out in a later event of its order that does not concern them.           *)
THEOREM AbsorbedHolds == StreamSpec => []AbsorbedByLater
<1>1. StreamInv => AbsorbedByLater
  <2> SUFFICES ASSUME StreamInv, NEW c \in registered, NEW o \in Orders,
                      NEW n \in Waited(o), Concerns(c, n), ~Excused(c, n),
                      \A i \in Carriers(n) : i \notin Broker!Got(c),
                      ~(Carriers(n) = {} /\ pending[o] # NoPending)
               PROVE  \E i \in Carriers(n) :
                         /\ published[i].kind.seq > n
                         /\ ~Broker!Matches(scope[c], published[i].kind)
    BY DEF AbsorbedByLater
  <2>0. c \in Clients /\ dropped[c] \in Nat /\ joined[c] \in Nat /\ n \in DOMAIN events /\ n \in Nat
    BY DEF StreamInv, StreamTypes, BrokerInv, BP!Types, Waited, Inv, Types
  <2>1. PICK i \in Carriers(n) : TRUE
    BY DEF StreamInv, HeldOK, Waits
  <2>2. PICK k : k = published[i].kind
    OBVIOUS
  <2>3. i \in DOMAIN published /\ n \in StandsFor(k) /\ Names(k)
    BY <2>1, <2>2 DEF Carriers, StreamInv, NamesOK
  <2>4. n <= k.seq /\ k.seq \in Nat
    <3>1. k.seq \in Nat
      BY <2>3 DEF Names, StreamInv, Inv, Types
    <3> QED
      BY <2>3, <3>1 DEF StandsFor
  <2>5. dropped[c] = 0 /\ published[i].sent /\ n > joined[c]
    BY <2>0, <2>1 DEF Excused, Concerns
  <2>6. ~BP!Matches(scope[c], k)
    <3>1. i \notin BP!Got(c)
      BY <2>0, <2>1, SameGot
    <3>2. k.seq > joined[c]
      BY <2>0, <2>4, <2>5
    <3> QED
      BY <2>0, <2>2, <2>3, <2>5, <3>1, <3>2 DEF StreamInv, ReachOK
  <2>7. k.seq # n
    <3> SUFFICES ASSUME k.seq = n PROVE FALSE
      OBVIOUS
    <3>1. events[n].after \in Docs
      BY <2>0 DEF StreamInv, NumOK, Waited
    <3>2. Customer(events[n].after) \in Values \cup {None}
      BY <3>1, DocAssumption DEF Customer, Get, Docs
    <3>3. k.after # NoDoc /\ k.after = Kind(events[n]).after /\ k.intent = Kind(events[n]).intent
      BY <2>3, <3>2, StreamAssumption DEF Names, Kind
    <3>4. BP!Matches(scope[c], Kind(events[n]))
      BY SameMatches DEF Concerns
    <3> QED
      BY <2>6, <3>3, <3>4 DEF BP!Matches
  <2> QED
    BY <2>0, <2>1, <2>2, <2>4, <2>6, <2>7, SameMatches
<1> QED
  BY <1>1, StreamInvHolds, PTL
=============================================================================
