------------------------- MODULE ChangeWatcherProofs -------------------------
(***************************************************************************)
(* Theorems about ChangeWatcher, for any orders, documents, failures and   *)
(* bounds.  The inductive invariant has a part for each thing the watcher  *)
(* relies on: its places in the change stream, the log of the collection,  *)
(* the changes fetched, the cache, the chain of before-images, the outbox  *)
(* and the client.                                                         *)
(***************************************************************************)
EXTENDS ChangeWatcher, FiniteSetTheorems, SequenceTheorems, TLAPS

Documents == Docs \cup {NoDoc}
Ops == {"insert", "update", "delete"}
Entries == [op : Ops, order : Orders, doc : Documents]
Fetched == [op : Ops, order : Orders, at : Nat, doc : Documents]
Events == [order : Orders, before : Documents, after : Documents,
           synthetic : BOOLEAN, upTo : Nat, era : Nat]

Types ==
    /\ orders \in [Orders -> Documents] /\ oplog \in Seq(Entries)
    /\ clearing \in BOOLEAN
    /\ pc \in {"warm", "open", "consume", "insert", "stored", "rewarm", "announce",
               "stopped"}
    /\ cache \in [Orders -> Documents] /\ old \in [Orders -> Documents]
    /\ todo \subseteq Orders
    /\ token \in Nat /\ start \in Nat /\ pos \in Nat /\ batch \in Seq(Fetched)
    /\ pc \in {"insert", "stored"} => event \in Events
    /\ spine \in Seq(Events) /\ sent \subseteq DOMAIN spine
    /\ pc = "stored" => spine # <<>>
    /\ view = Unknown \/ view \in [Orders -> Documents]
    /\ era \in Nat /\ reached \in Nat /\ missed \subseteq Orders /\ failed \in Nat

(* append is storing, or has stored, an event of a reconciliation; or the  *)
(* event of a change.                                                      *)
Announcing == pc \in {"insert", "stored"} /\ event.synthetic
Appending  == pc \in {"insert", "stored"} /\ ~event.synthetic

(* The stream is open, or will be opened again where it was. *)
Streaming == pc = "consume" \/ Appending \/ (pc = "open" /\ token # 0)

(* The places: the token is where the watcher is, or lost; the changes     *)
(* fetched are those that follow it, without a gap.                        *)
Places ==
    /\ pos <= Len(oplog) /\ start <= Len(oplog) /\ reached <= Len(oplog)
    /\ token \in {0, reached}
    /\ pc = "warm" => token = 0
    /\ pc = "consume" => pos = reached + Len(batch)
    /\ Appending => event.upTo = reached + 1 /\ pos = event.upTo + Len(batch)
    /\ \A i \in DOMAIN batch : /\ batch[i].at + Len(batch) = pos + i
                               /\ token + Len(batch) <= pos
    /\ Streaming => start <= reached /\ (token = 0 => start = reached)

(* A change of o after the i-th of a log. *)
Later(log, o, i) == \E j \in DOMAIN log : i < j /\ log[j].order = o

(* The log of the collection: an id is inserted once, before anything else *)
(* happens to it, and the last change of an order says what it is.         *)
LogOK ==
    /\ \A j \in DOMAIN oplog : oplog[j].op = "insert" =>
          \A i \in 1 .. j - 1 : oplog[i].order # oplog[j].order
    /\ \A i \in DOMAIN oplog :
          /\ oplog[i].op = "update" => oplog[i].doc # NoDoc
          /\ Later(oplog, oplog[i].order, i) \/ oplog[i].doc = orders[oplog[i].order]

(* What was fetched, or is being stored, of a change with no later one of  *)
(* its order is the order as it is.                                        *)
FetchedOK ==
    /\ \A i \in DOMAIN batch :
          /\ batch[i].order = oplog[batch[i].at].order
          /\ batch[i].op = oplog[batch[i].at].op
          /\ Later(oplog, batch[i].order, batch[i].at) \/ batch[i].doc = orders[batch[i].order]
    /\ Appending =>
          /\ event.order = oplog[event.upTo].order
          /\ Later(oplog, event.order, event.upTo) \/ event.after = orders[event.order]

(* The cache is right about an order whose changes since start the watcher *)
(* is done with.                                                           *)
CacheOK ==
    Streaming => \A o \in Orders :
        (\E i \in start + 1 .. reached : oplog[i].order = o)
            => Later(oplog, o, reached) \/ cache[o] = orders[o]

(* The chain. *)
Seen == {o \in Orders : orders[o] # NoDoc \/ Later(oplog, o, 0)}
(* The events that are the last of their order. *)
Latest == {i \in DOMAIN spine :
             \A k \in DOMAIN spine : i < k => spine[k].order # spine[i].order}
(* The events of the present era. *)
Present == {i \in DOMAIN spine : spine[i].era = era}

SpineOK ==
    /\ \A i \in DOMAIN spine : spine[i].era <= era /\ spine[i].order \in Seen
    /\ \A o \in Orders : cache[o] # NoDoc => o \in Seen
    /\ pc \in {"warm", "rewarm"} => Present = {}
    /\ pc \in {"insert", "stored"} => event.era <= era /\ event.order \in Seen
    /\ pc = "stored" => spine[Len(spine)] = event

(* A reconciliation announces an order once, as the cache has it.          *)
AnnounceOK ==
    /\ pc = "announce" \/ Announcing => \A i \in Present : spine[i].order \notin todo
    /\ Announcing => /\ event.order \notin todo
                     /\ event.era = era => cache[event.order] = event.after

(* The insert of an order that the spine knows is behind the watcher.      *)
InsertOK ==
    Streaming => \A i \in Present, j \in DOMAIN oplog :
        oplog[j].op = "insert" /\ oplog[j].order = spine[i].order
            => j <= reached \/ (pc = "stored" /\ i = Len(spine))

(* The event being stored starts where the last of its order ended, and    *)
(* the cache is where the last of each order ended.                        *)
LinkOK ==
    /\ pc = "insert" =>
         \A i \in Latest :
           spine[i].order = event.order /\ spine[i].era = event.era
             => spine[i].after = event.before
    /\ pc # "stopped" =>
         \A i \in Present \cap Latest :
           (pc = "stored" /\ i = Len(spine)) \/ cache[spine[i].order] = spine[i].after

(* The outbox. *)
OutboxOK ==
    pc = "stored" => Len(spine) \notin sent

(* The client. *)
Listening == view \in [Orders -> Documents]

ViewOK ==
    /\ Listening => \A o \in Orders \ missed : Later(oplog, o, reached) \/ view[o] = orders[o]
    /\ Streaming => Listening /\ \A o \in Orders \ missed : cache[o] \in {NoDoc, view[o]}
    /\ pc \in {"warm", "open"} =>
          \A o \in Orders \ missed : Later(oplog, o, reached) \/ cache[o] \in {NoDoc, orders[o]}
    /\ pc \in {"rewarm", "announce"} \/ Announcing =>
          \A o \in Orders : Later(oplog, o, reached) \/ cache[o] \in {NoDoc, orders[o]}
    /\ Announcing => Later(oplog, event.order, reached) \/ event.after = orders[event.order]
    /\ Announcing => cache[event.order] \in {NoDoc, event.after}

(* The reconciliation. *)
ToldOK ==
    pc = "announce" \/ Announcing =>
      \A o \in Orders :
        cache[o] # NoDoc /\ old[o] = NoDoc =>
          \/ o \in todo
          \/ Announcing /\ event.order = o
          \/ view = Unknown
          \/ view[o] = cache[o]

-----------------------------------------------------------------------------
(* Types.                                                                  *)

(* A reset deletes every order there is, and only those.                   *)
LEMMA DeletionsOK ==
    ASSUME Types
    PROVE  /\ Deletions \in Seq(Entries)
           /\ \A i \in DOMAIN Deletions : /\ Deletions[i].op = "delete"
                                          /\ Deletions[i].doc = NoDoc
                                          /\ orders[Deletions[i].order] # NoDoc
           /\ \A o \in Existing : \E i \in DOMAIN Deletions : Deletions[i].order = o
<1> DEFINE n == Cardinality(Existing)
           f == SetToSeq(Existing)
<1>1. IsFiniteSet(Existing)
  BY WatcherAssumption, FS_Subset DEF Existing
<1>2. n \in Nat /\ ExistsBijection(1 .. n, Existing)
  BY <1>1, FS_CardinalityType
<1>3. f \in [1 .. n -> Existing] /\ IsInjective(f)
  BY <1>2 DEF SetToSeq, ExistsBijection, Bijection, Injection, IsInjective
<1>4. f \in Surjection(1 .. n, Existing)
  <2>1. f \in Injection(1 .. n, Existing)
    BY <1>3 DEF Injection
  <2>2. Cardinality(1 .. n) = n
    BY <1>2, FS_Interval
  <2> QED
    BY <1>1, <1>2, <2>1, <2>2, FS_Injection
<1>5. \A i \in 1 .. n : f[i] \in Orders /\ orders[f[i]] # NoDoc
  BY <1>3 DEF Existing
<1>6. \A i \in 1 .. n : Deletions[i] = [op |-> "delete", doc |-> NoDoc, order |-> f[i]]
  BY DEF Deletions
<1>7. DOMAIN Deletions = 1 .. n
  BY DEF Deletions
<1>8. \A i \in 1 .. n : Deletions[i] \in Entries
  <2> SUFFICES ASSUME NEW i \in 1 .. n PROVE Deletions[i] \in Entries
    OBVIOUS
  <2>1. Deletions[i] = [op |-> "delete", doc |-> NoDoc, order |-> f[i]] /\ f[i] \in Orders
    BY <1>5, <1>6
  <2> HIDE DEF f
  <2> QED
    BY <2>1 DEF Entries, Ops, Documents
<1>9. Deletions \in Seq(Entries)
  <2>1. Deletions \in [1 .. n -> Entries]
    BY <1>8 DEF Deletions
  <2> QED
    BY <1>2, <2>1
<1>10. \A o \in Existing : \E i \in 1 .. n : f[i] = o
  BY <1>4 DEF Surjection
<1> QED
  BY <1>5, <1>6, <1>7, <1>9, <1>10

(* Only writers and a reset touch the orders and their oplog.              *)
LEMMA LogSteps ==
    [Next]_vars => \/ UNCHANGED <<orders, oplog>>
                   \/ \E o \in Orders, d \in Documents : Write(o, d)
                   \/ Reset
BY DEF Next, Watch, vars, dbVars, Documents, WarmRead, Announce, Warmed, Rewarmed,
       Reconciled, Open, Fetch, Take, Store, Resume, AnnounceGone, StreamFails,
       AppendRaises, ReconcileFails, Abandon, Crash, Clear, Stop

(* What a step does to the collection: nothing, or its log grows.          *)
LEMMA LogGrows ==
    ASSUME Types, [Next]_vars
    PROVE  /\ orders' \in [Orders -> Documents] /\ oplog' \in Seq(Entries)
           /\ Len(oplog) \in Nat /\ Len(oplog') \in Nat /\ Len(oplog) <= Len(oplog')
           /\ DOMAIN oplog = 1 .. Len(oplog) /\ DOMAIN oplog' = 1 .. Len(oplog')
           /\ \A i \in DOMAIN oplog : i \in DOMAIN oplog' /\ oplog'[i] = oplog[i]
           /\ \A o \in Orders : orders'[o] = orders[o] \/ Later(oplog', o, Len(oplog))
<1>1. CASE UNCHANGED <<orders, oplog>>
  BY <1>1, LenProperties DEF Types
<1>2. ASSUME NEW o \in Orders, NEW d \in Documents, Write(o, d)
      PROVE  /\ orders' \in [Orders -> Documents] /\ oplog' \in Seq(Entries)
             /\ Len(oplog') = Len(oplog) + 1
             /\ \A i \in DOMAIN oplog : oplog'[i] = oplog[i]
             /\ \A p \in Orders : orders'[p] = orders[p] \/ Later(oplog', p, Len(oplog))
  <2> DEFINE op == CASE orders[o] = NoDoc -> "insert"
                     [] d = NoDoc -> "delete"
                     [] OTHER -> "update"
             e == [order |-> o, doc |-> d, op |-> op]
  <2>1. oplog' = Append(oplog, e) /\ orders' = [orders EXCEPT ![o] = d]
    BY <1>2 DEF Write
  <2>2. e \in Entries
    BY DEF Entries, Ops
  <2> HIDE DEF e
  <2>3. /\ oplog' \in Seq(Entries) /\ Len(oplog') = Len(oplog) + 1
        /\ \A i \in DOMAIN oplog : oplog'[i] = oplog[i]
        /\ oplog'[Len(oplog) + 1] = e
    BY <2>1, <2>2, AppendProperties DEF Types
  <2>4. e.order = o
    BY DEF e
  <2>5. Later(oplog', o, Len(oplog))
    <3>1. Len(oplog) + 1 \in DOMAIN oplog' /\ Len(oplog) < Len(oplog) + 1
      BY <2>3, LenProperties DEF Types
    <3> QED
      BY <2>3, <2>4, <3>1 DEF Later
  <2> QED
    BY <2>1, <2>3, <2>5 DEF Types
<1>3. CASE Reset
  <2>1. oplog' = oplog \o Deletions /\ orders' = Nothing
    BY <1>3 DEF Reset
  <2>2. /\ oplog' \in Seq(Entries) /\ Len(oplog') = Len(oplog) + Len(Deletions)
        /\ Len(Deletions) \in Nat /\ DOMAIN Deletions = 1 .. Len(Deletions)
        /\ \A i \in DOMAIN oplog : oplog'[i] = oplog[i]
        /\ \A i \in DOMAIN Deletions : oplog'[Len(oplog) + i] = Deletions[i]
    <3>1. /\ oplog \in Seq(Entries) /\ Deletions \in Seq(Entries)
          /\ Len(oplog) \in Nat /\ Len(Deletions) \in Nat
          /\ DOMAIN oplog = 1 .. Len(oplog) /\ DOMAIN Deletions = 1 .. Len(Deletions)
      BY DeletionsOK, LenProperties DEF Types
    <3>2. /\ oplog' \in Seq(Entries) /\ Len(oplog') = Len(oplog) + Len(Deletions)
          /\ \A i \in 1 .. Len(oplog) + Len(Deletions) :
                oplog'[i] = IF i <= Len(oplog) THEN oplog[i] ELSE Deletions[i - Len(oplog)]
      BY <2>1, <3>1, ConcatProperties
    <3>3. ASSUME NEW i \in DOMAIN Deletions PROVE oplog'[Len(oplog) + i] = Deletions[i]
      <4>1. i \in Nat /\ 1 <= i /\ i <= Len(Deletions)
            /\ (Len(oplog) + i) - Len(oplog) = i
        BY <3>1
      <4> QED
        BY <3>1, <3>2, <4>1
    <3> QED
      BY <3>1, <3>2, <3>3
  <2>3. ASSUME NEW o \in Existing PROVE Later(oplog', o, Len(oplog))
    <3>1. PICK i \in DOMAIN Deletions : Deletions[i].order = o
      BY DeletionsOK
    <3>2. Len(oplog) + i \in DOMAIN oplog' /\ Len(oplog) < Len(oplog) + i
      BY <2>2, LenProperties DEF Types
    <3> QED
      BY <2>2, <3>1, <3>2 DEF Later
  <2>4. ASSUME NEW o \in Orders PROVE orders'[o] = orders[o] \/ Later(oplog', o, Len(oplog))
    BY <2>1, <2>3 DEF Nothing, Existing
  <2>5. orders' \in [Orders -> Documents]
    BY <2>1 DEF Nothing, Documents
  <2> QED
    BY <2>2, <2>4, <2>5, LenProperties DEF Types
<1> QED
  BY <1>1, <1>2, <1>3, LogSteps, LenProperties DEF Types

(* The types of what a step of the watcher leaves alone. *)
LEMMA InitTypes == Init => Types
<1> SUFFICES ASSUME Init PROVE Types
  OBVIOUS
<1>1. <<>> \in Seq(Entries) /\ <<>> \in Seq(Fetched) /\ <<>> \in Seq(Events)
  BY EmptySeq
<1> QED
  BY <1>1 DEF Init, Types, Nothing, Documents, Unknown

(* The change that is fetched, and the event made of one.                  *)
LEMMA FetchTypes ==
    ASSUME Types, Fetch
    PROVE  /\ pos + 1 \in DOMAIN oplog /\ pos' = pos + 1
           /\ \E c \in Fetched :
                /\ batch' = Append(batch, c)
                /\ c.at = pos + 1 /\ c.op = oplog[pos + 1].op
                /\ c.order = oplog[pos + 1].order
                /\ c.doc = IF c.op = "update" THEN orders[c.order]
                                               ELSE oplog[pos + 1].doc
<1> DEFINE e == oplog[pos + 1]
           c == [op |-> e.op, order |-> e.order, at |-> pos + 1,
                 doc |-> IF e.op = "update" THEN orders[e.order] ELSE e.doc]
<1>1. pos + 1 \in DOMAIN oplog /\ pos' = pos + 1 /\ batch' = Append(batch, c)
  BY LenProperties DEF Types, Fetch
<1>2. e \in Entries
  BY <1>1, LenProperties DEF Types
<1>3. c \in Fetched
  <2>1. e.op \in Ops /\ e.order \in Orders /\ e.doc \in Documents
    BY <1>2 DEF Entries
  <2>2. orders[e.order] \in Documents /\ pos + 1 \in Nat
    BY <2>1 DEF Types
  <2> HIDE DEF e
  <2> QED
    BY <2>1, <2>2 DEF Fetched
<1> QED
  BY <1>1, <1>3

(* What Take removes from the batch, and the event it builds.              *)
LEMMA TakeTypes ==
    ASSUME Types, Take
    PROVE  /\ Head(batch) \in Fetched /\ batch' \in Seq(Fetched)
           /\ Len(batch) \in Nat /\ Len(batch) > 0 /\ Len(batch') = Len(batch) - 1
           /\ \A i \in DOMAIN batch' : i + 1 \in DOMAIN batch /\ batch'[i] = batch[i + 1]
           /\ 1 \in DOMAIN batch /\ Head(batch) = batch[1]
           /\ ~Ignored(Head(batch)) =>
                /\ event' \in Events /\ ~event'.synthetic
                /\ event'.order = Head(batch).order /\ event'.after = Head(batch).doc
                /\ event'.upTo = Head(batch).at /\ event'.era = era
                /\ event'.before = IF Head(batch).op = "insert" THEN NoDoc
                                   ELSE cache[Head(batch).order]
<1>1. batch \in Seq(Fetched) /\ batch # <<>> /\ batch' = Tail(batch)
  BY DEF Types, Take
<1>2. /\ Head(batch) \in Fetched /\ batch' \in Seq(Fetched)
      /\ Len(batch') = Len(batch) - 1
      /\ \A i \in 1 .. Len(batch') : batch'[i] = batch[i + 1]
  BY <1>1, HeadTailProperties
<1>3. /\ Len(batch) \in Nat /\ Len(batch) > 0 /\ DOMAIN batch = 1 .. Len(batch)
      /\ DOMAIN batch' = 1 .. Len(batch') /\ Len(batch') \in Nat
  BY <1>1, <1>2, EmptySeq, LenProperties
<1>4. ASSUME ~Ignored(Head(batch))
      PROVE  /\ event' \in Events /\ ~event'.synthetic
             /\ event'.order = Head(batch).order /\ event'.after = Head(batch).doc
             /\ event'.upTo = Head(batch).at /\ event'.era = era
             /\ event'.before = IF Head(batch).op = "insert" THEN NoDoc
                                ELSE cache[Head(batch).order]
  <2> DEFINE c == Head(batch)
  <2>1. event' = [order |-> c.order, after |-> c.doc,
                  before |-> IF c.op = "insert" THEN NoDoc ELSE cache[c.order],
                  synthetic |-> FALSE, upTo |-> c.at, era |-> era]
    BY <1>4 DEF Take
  <2>2. c.order \in Orders /\ c.doc \in Documents /\ c.at \in Nat
    BY <1>2 DEF Fetched
  <2>3. cache[c.order] \in Documents /\ NoDoc \in Documents /\ era \in Nat
    BY <2>2 DEF Types, Documents
  <2>4. /\ event'.synthetic = FALSE
        /\ event'.order = c.order /\ event'.after = c.doc
        /\ event'.upTo = c.at /\ event'.era = era
        /\ event'.before = IF c.op = "insert" THEN NoDoc ELSE cache[c.order]
    BY <2>1
  <2> HIDE DEF c
  <2>5. event' \in Events
    BY <2>1, <2>2, <2>3 DEF Events
  <2> QED
    BY <2>4, <2>5 DEF c
<1> QED
  BY <1>1, <1>2, <1>3, <1>4

(* The event a reconciliation builds.                                      *)
LEMMA AnnounceTypes ==
    ASSUME Types, NEW o \in Orders, Announce(o)
    PROVE  /\ event' \in Events /\ event'.synthetic /\ event'.order = o
           /\ event'.before = NoDoc /\ event'.after = cache[o] /\ event'.era = era
<1>1. event' = [order |-> o, before |-> NoDoc, after |-> cache[o],
                synthetic |-> TRUE, upTo |-> 0, era |-> era]
  BY DEF Announce
<1>2. cache[o] \in Documents /\ NoDoc \in Documents /\ era \in Nat
  BY DEF Types, Documents
<1> QED
  BY <1>1, <1>2 DEF Events

(* The event stored is the last of the spine. *)
LEMMA StoreTypes ==
    ASSUME Types, Store
    PROVE  /\ event \in Events /\ event' = event /\ pc = "insert" /\ pc' = "stored"
           /\ spine' \in Seq(Events)
           /\ Len(spine) \in Nat /\ Len(spine') = Len(spine) + 1
           /\ DOMAIN spine = 1 .. Len(spine) /\ DOMAIN spine' = 1 .. Len(spine) + 1
           /\ \A i \in DOMAIN spine : i \in DOMAIN spine' /\ spine'[i] = spine[i]
           /\ spine'[Len(spine) + 1] = event
<1>1. /\ event \in Events /\ event' = event /\ pc = "insert" /\ pc' = "stored"
      /\ spine \in Seq(Events) /\ spine' = Append(spine, event)
  BY DEF Types, Store
<1>2. Len(spine) \in Nat /\ DOMAIN spine = 1 .. Len(spine)
  BY <1>1, LenProperties
<1>3. /\ spine' \in Seq(Events) /\ Len(spine') = Len(spine) + 1
      /\ \A i \in 1 .. Len(spine) : spine'[i] = spine[i]
      /\ spine'[Len(spine) + 1] = event
  BY <1>1, AppendProperties
<1>4. DOMAIN spine' = 1 .. Len(spine')
  BY <1>3, LenProperties
<1> QED
  BY <1>1, <1>2, <1>3, <1>4

(* Every step keeps the types.                                             *)
LEMMA TypeStep == ASSUME Types, [Next]_vars PROVE Types'
<1> USE DEF Types, dbVars, streamVars, outVars, histVars
<1>0. /\ orders' \in [Orders -> Documents] /\ oplog' \in Seq(Entries)
      /\ Len(oplog) \in Nat
  BY LogGrows
<1>1. ASSUME NEW o \in Orders, NEW d \in Documents, Write(o, d) PROVE Types'
  BY <1>0, <1>1 DEF Write
<1>2. ASSUME NEW o \in Orders, WarmRead(o) PROVE Types'
  BY <1>0, <1>2 DEF WarmRead
<1>3. ASSUME NEW o \in Orders, Announce(o) PROVE Types'
  BY <1>0, <1>3, AnnounceTypes DEF Announce
<1>4. CASE Warmed
  BY <1>0, <1>4 DEF Warmed
<1>5. CASE Rewarmed
  BY <1>0, <1>5 DEF Rewarmed, NewIds
<1>6. CASE Reconciled
  BY <1>0, <1>6 DEF Reconciled
<1>7. CASE Open
  <2>1. batch' \in Seq(Fetched) /\ pos' \in Nat
    BY <1>0, <1>7, EmptySeq DEF Open, Position
  <2>2. start' \in Nat /\ reached' \in Nat
    BY <1>0, <1>7 DEF Open, Position
  <2>3. missed' \subseteq Orders
    <3>1. CASE view = Unknown
      BY <1>7, <3>1 DEF Open
    <3>2. CASE view # Unknown
      <4>1. missed' = missed \cup {oplog[i].order : i \in reached + 1 .. reached'}
        BY <1>7, <3>2 DEF Open
      <4>2. ASSUME NEW i \in reached + 1 .. reached' PROVE oplog[i].order \in Orders
        <5>1. reached' = Len(oplog) \/ reached' = reached
          BY <1>7 DEF Open, Position
        <5>2. i \in 1 .. Len(oplog)
          BY <1>0, <4>2, <5>1
        <5>3. oplog[i] \in Entries
          BY <5>2, LenProperties
        <5> QED
          BY <5>3 DEF Entries
      <4> QED
        BY <4>1, <4>2
    <3> QED
      BY <3>1, <3>2
  <2>4. view' = Unknown \/ view' \in [Orders -> Documents]
    BY <1>7 DEF Open
  <2>5. /\ UNCHANGED <<clearing, cache, old, todo, token, event, spine, sent, era, failed>>
        /\ pc' = "consume"
    BY <1>7 DEF Open
  <2> QED
    BY <1>0, <2>1, <2>2, <2>3, <2>4, <2>5
<1>8. CASE Fetch
  <2>1. batch' \in Seq(Fetched)
    <3>1. PICK c \in Fetched : batch' = Append(batch, c)
      BY <1>8, FetchTypes
    <3> QED
      BY <3>1, AppendProperties
  <2>2. pos' \in Nat
    BY <1>8, FetchTypes
  <2> QED
    BY <1>0, <1>8, <2>1, <2>2 DEF Fetch
<1>9. CASE Take
  <2>1. batch' \in Seq(Fetched) /\ (~Ignored(Head(batch)) => event' \in Events)
    BY <1>9, TakeTypes
  <2>2. token' \in Nat /\ reached' \in Nat
    BY <1>9, TakeTypes DEF Take, Fetched
  <2>3. (pc' = "consume" /\ Ignored(Head(batch))) \/ (pc' = "insert" /\ ~Ignored(Head(batch)))
    BY <1>9 DEF Take
  <2> QED
    BY <1>0, <1>9, <2>1, <2>2, <2>3 DEF Take
<1>10. CASE Store
  BY <1>0, <1>10, StoreTypes DEF Store
<1>11. CASE Resume
  <2>1. event \in Events /\ pc' \in {"announce", "consume"}
    BY <1>11 DEF Resume
  <2>2. /\ event.order \in Orders /\ event.after \in Documents
        /\ event.upTo \in Nat /\ event.synthetic \in BOOLEAN
    BY <2>1 DEF Events
  <2>3. cache' \in [Orders -> Documents]
    BY <1>11, <2>2 DEF Resume, Cached
  <2>4. view' = Unknown \/ view' \in [Orders -> Documents]
    BY <1>11, <2>2 DEF Resume, Applied
  <2>5. token' \in Nat /\ reached' \in Nat /\ missed' \subseteq Orders
    BY <1>11, <2>2 DEF Resume
  <2>6. sent' \subseteq DOMAIN spine
    <3>1. Len(spine) \in DOMAIN spine
      <4>1. spine # <<>>
        BY <1>11 DEF Resume
      <4> QED
        BY <4>1, EmptySeq, LenProperties
    <3> QED
      BY <1>11, <3>1 DEF Resume, Sent
  <2> QED
    BY <1>0, <1>11, <2>1, <2>3, <2>4, <2>5, <2>6 DEF Resume
<1>12. CASE AnnounceGone
  BY <1>0, <1>12 DEF AnnounceGone, Abandon, AfterException
<1>13. CASE StreamFails
  BY <1>0, <1>13, EmptySeq DEF StreamFails, Fails, Nothing, Documents
<1>14. CASE AppendRaises
  BY <1>0, <1>14, EmptySeq DEF AppendRaises, Fails
<1>15. CASE ReconcileFails
  BY <1>0, <1>15 DEF ReconcileFails, Abandon, AfterException, Fails
<1>16. CASE Crash
  <2>1. /\ cache' = Nothing /\ old' = Nothing /\ token' = 0 /\ start' = 0 /\ pos' = 0
        /\ pc' = "warm" /\ todo' = Orders /\ batch' = <<>> /\ clearing' = FALSE
        /\ era' = era + 1 /\ failed' = failed + 1
        /\ UNCHANGED <<spine, sent, view, reached, missed>>
    BY <1>16 DEF Crash, Fails
  <2>2. Nothing \in [Orders -> Documents]
    BY DEF Nothing, Documents
  <2> QED
    <3>1. /\ cache' \in [Orders -> Documents] /\ old' \in [Orders -> Documents]
          /\ era' \in Nat /\ failed' \in Nat /\ batch' \in Seq(Fetched)
      BY <2>1, <2>2, EmptySeq
    <3>2. clearing' \in BOOLEAN
      BY <2>1, Zenon
    <3> QED
      BY <1>0, <2>1, <3>1, <3>2
<1>17. CASE Reset
  BY <1>0, <1>17 DEF Reset, Fails
<1>18. CASE Clear
  <2>1. /\ cache' = Nothing /\ (start' = token \/ start' = start)
        /\ clearing' = FALSE /\ era' = era + 1
        /\ UNCHANGED <<pc, old, todo, token, pos, batch, event, spine, sent, view,
                       reached, missed, failed>>
    BY <1>18 DEF Clear
  <2>2. Nothing \in [Orders -> Documents]
    BY DEF Nothing, Documents
  <2> QED
    <3>1. /\ cache' \in [Orders -> Documents] /\ start' \in Nat /\ era' \in Nat
      BY <2>1, <2>2
    <3>2. clearing' \in BOOLEAN
      BY <2>1, Zenon
    <3> QED
      BY <1>0, <2>1, <3>1, <3>2
<1>19. CASE Stop
  BY <1>0, <1>19 DEF Stop
<1>20. CASE UNCHANGED vars
  BY <1>0, <1>20 DEF vars
<1> QED
  BY <1>1, <1>2, <1>3, <1>4, <1>5, <1>6, <1>7, <1>8, <1>9, <1>10, <1>11, <1>12,
     <1>13, <1>14, <1>15, <1>16, <1>17, <1>18, <1>19, <1>20 DEF Next, Watch, Documents

-----------------------------------------------------------------------------
(* The places in the change stream.                                        *)

(* At the start nothing has been reached.                                  *)
LEMMA InitPlaces == Init => Places
<1> SUFFICES ASSUME Init PROVE Places
  OBVIOUS
<1>1. /\ oplog = <<>> /\ pc = "warm" /\ token = 0 /\ start = 0 /\ pos = 0
      /\ batch = <<>> /\ reached = 0
  BY DEF Init
<1>2. DOMAIN batch = {} /\ Len(oplog) = 0
  BY <1>1
<1> QED
  BY <1>1, <1>2 DEF Places, Streaming, Appending

(* Every step keeps the positions in order.                                *)
LEMMA PlacesStep == ASSUME Types, Places, [Next]_vars PROVE Places'
<1> USE DEF Places, Streaming, Appending
<1> USE DEF dbVars, streamVars, outVars, histVars
<1>0. /\ Len(oplog) \in Nat /\ Len(oplog') \in Nat /\ Len(oplog) <= Len(oplog')
      /\ token \in Nat /\ start \in Nat /\ pos \in Nat /\ reached \in Nat
      /\ Len(batch) \in Nat /\ DOMAIN batch = 1 .. Len(batch)
  BY LogGrows, LenProperties DEF Types
<1>1. ASSUME UNCHANGED <<pc, token, start, pos, batch, event, reached>> PROVE Places'
  BY <1>0, <1>1
<1>2. ASSUME NEW o \in Orders, WarmRead(o) PROVE Places'
  BY <1>1, <1>2 DEF WarmRead
<1>3. ASSUME NEW o \in Orders, Announce(o) PROVE Places'
  BY <1>0, <1>3, AnnounceTypes DEF Announce
<1>4. CASE Warmed \/ Rewarmed
  BY <1>0, <1>4 DEF Warmed, Rewarmed
<1>5. CASE Reconciled
  BY <1>0, <1>5 DEF Reconciled
<1>6. CASE Open
  <2>1. /\ pos' = Position /\ Position \in 0 .. Len(oplog)
        /\ token = 0 => start' = Position /\ reached' = Position
        /\ token # 0 => start' = start /\ reached' = reached /\ Position = reached
    BY <1>0, <1>6 DEF Open, Position
  <2>2. /\ batch' = <<>> /\ pc = "open" /\ pc' = "consume" /\ oplog' = oplog
        /\ token' = token
    BY <1>6 DEF Open
  <2>3. Len(batch') = 0 /\ DOMAIN batch' = {}
    BY <2>2
  <2> QED
    BY <1>0, <2>1, <2>2, <2>3
<1>7. CASE Fetch
  <2>1. PICK c \in Fetched : batch' = Append(batch, c) /\ c.at = pos + 1
    BY <1>7, FetchTypes
  <2>2. /\ Len(batch') = Len(batch) + 1 /\ DOMAIN batch' = 1 .. Len(batch) + 1
        /\ \A i \in DOMAIN batch : batch'[i] = batch[i]
        /\ batch'[Len(batch) + 1] = c
    BY <1>0, <2>1, AppendProperties, LenProperties DEF Types
  <2>3. /\ pos' = pos + 1 /\ pos + 1 <= Len(oplog)
        /\ pc = "consume" /\ UNCHANGED <<pc, token, start, reached, oplog>>
    BY <1>0, <1>7, FetchTypes DEF Fetch
  <2>4. \A i \in DOMAIN batch' : batch'[i].at + Len(batch') = pos' + i
    <3> SUFFICES ASSUME NEW i \in DOMAIN batch'
                 PROVE  batch'[i].at + Len(batch') = pos' + i
      OBVIOUS
    <3>1. CASE i \in DOMAIN batch
      <4>1. batch[i] \in Fetched
        BY <3>1, <1>0 DEF Types
      <4>2. batch[i].at \in Nat /\ i \in Nat
        BY <1>0, <3>1, <4>1 DEF Fetched
      <4>3. batch[i].at + Len(batch) = pos + i /\ batch'[i] = batch[i]
        BY <2>2, <3>1
      <4>4. batch'[i].at + Len(batch) = pos + i
        BY <4>3
      <4>5. batch'[i].at \in Nat /\ Len(batch') = Len(batch) + 1 /\ pos' = pos + 1
        BY <2>2, <2>3, <4>2, <4>3
      <4> HIDE DEF Places
      <4> QED
        BY <1>0, <4>2, <4>4, <4>5
    <3>2. CASE i = Len(batch) + 1
      BY <1>0, <2>1, <2>2, <2>3, <3>2
    <3> QED
      BY <1>0, <2>2, <3>1, <3>2
  <2> QED
    BY <1>0, <2>2, <2>3, <2>4
<1>8. CASE Take
  <2> DEFINE c == Head(batch)
  <2>1. /\ c.at \in Nat /\ c.at + Len(batch) = pos + 1 /\ token + Len(batch) <= pos
        /\ c.at = reached + 1
    BY <1>0, <1>8, TakeTypes DEF Take, Fetched
  <2>2. /\ pos' = pos /\ pc = "consume" /\ UNCHANGED <<start, oplog>>
        /\ Len(batch') = Len(batch) - 1 /\ DOMAIN batch' = 1 .. Len(batch) - 1
    BY <1>0, <1>8, TakeTypes, LenProperties DEF Take
  <2>3. \A i \in DOMAIN batch' : batch'[i].at + Len(batch') = pos' + i
    <3> SUFFICES ASSUME NEW i \in DOMAIN batch'
                 PROVE  batch'[i].at + Len(batch') = pos' + i
      OBVIOUS
    <3>1. i + 1 \in DOMAIN batch /\ batch'[i] = batch[i + 1] /\ i \in Nat
      BY <1>0, <1>8, <2>2, TakeTypes
    <3>2. batch[i + 1] \in Fetched
      BY <3>1, <1>0 DEF Types
    <3>3. batch[i + 1].at \in Nat /\ batch[i + 1].at + Len(batch) = pos + (i + 1)
      BY <3>1, <3>2 DEF Fetched
    <3> HIDE DEF Places
    <3> QED
      BY <1>0, <2>2, <3>1, <3>3
  <2>4. CASE Ignored(c)
    <3>1. token' = c.at /\ reached' = c.at /\ pc' = "consume"
      BY <1>8, <2>2, <2>4 DEF Take
    <3>2. start <= reached /\ reached + Len(batch) = pos /\ pos <= Len(oplog)
      BY <1>0, <2>2
    <3>3. token' = reached' /\ pos' = reached' + Len(batch') /\ token' # 0
          /\ start' <= reached' /\ reached' <= Len(oplog')
      <4> HIDE DEF Places, c
      <4> QED
        BY <1>0, <2>1, <2>2, <3>1, <3>2
    <3> HIDE DEF c
    <3> QED
      BY <1>0, <2>2, <2>3, <3>1, <3>3
  <2>5. CASE ~Ignored(c)
    <3>1. /\ event'.upTo = c.at /\ ~event'.synthetic /\ pc' = "insert"
          /\ UNCHANGED <<token, reached>>
      BY <1>8, <2>5, TakeTypes DEF Take
    <3>2. event'.upTo = reached' + 1 /\ pos' = event'.upTo + Len(batch')
          /\ token' + Len(batch') <= pos'
      BY <1>0, <2>1, <2>2, <3>1
    <3> HIDE DEF c
    <3> QED
      BY <1>0, <2>2, <2>3, <3>1, <3>2
  <2> QED
    BY <2>4, <2>5
<1>9. CASE Store
  BY <1>0, <1>9, StoreTypes DEF Store
<1>10. CASE Resume
  <2>1. /\ event \in Events /\ UNCHANGED <<oplog, start, pos, batch>>
        /\ pc = "stored"
    BY <1>10 DEF Resume, Types
  <2>2. CASE event.synthetic
    <3>1. pc' = "announce" /\ UNCHANGED <<token, reached>>
      BY <1>10, <2>2 DEF Resume
    <3> QED
      BY <1>0, <2>1, <2>2, <3>1
  <2>3. CASE ~event.synthetic
    <3>1. pc' = "consume" /\ token' = event.upTo /\ reached' = event.upTo
      BY <1>10, <2>3 DEF Resume
    <3>2. event.upTo \in Nat
      BY <2>1 DEF Events
    <3> QED
      BY <1>0, <2>1, <2>3, <3>1, <3>2
  <2> QED
    BY <2>2, <2>3
<1>11. CASE AnnounceGone \/ ReconcileFails
  BY <1>0, <1>11 DEF AnnounceGone, ReconcileFails, Abandon, AfterException
<1>12. CASE StreamFails \/ AppendRaises
  <2>1. /\ batch' = <<>> /\ pc' \in {"rewarm", "open"}
        /\ UNCHANGED <<oplog, token, start, pos, reached>>
    BY <1>12 DEF StreamFails, AppendRaises
  <2>2. DOMAIN batch' = {} /\ Len(batch') = 0
    BY <2>1
  <2>3. pc' = "open" => Appending
    BY <1>12 DEF StreamFails, AppendRaises
  <2> QED
    BY <1>0, <2>1, <2>2, <2>3
<1>13. CASE Crash
  <2>1. batch' = <<>> /\ pc' = "warm" /\ token' = 0 /\ start' = 0 /\ pos' = 0
        /\ UNCHANGED <<oplog, reached>>
    BY <1>13 DEF Crash
  <2>2. DOMAIN batch' = {} /\ Len(batch') = 0
    BY <2>1
  <2> QED
    BY <1>0, <2>1, <2>2
<1>14. CASE Clear
  BY <1>0, <1>14 DEF Clear
<1>15. CASE Stop
  BY <1>0, <1>15 DEF Stop
<1>16. ASSUME NEW o \in Orders, NEW d \in Docs \cup {NoDoc}, Write(o, d) PROVE Places'
  BY <1>1, <1>16 DEF Write
<1>17. CASE Reset
  BY <1>1, <1>17 DEF Reset
<1>18. CASE UNCHANGED vars
  BY <1>1, <1>18 DEF vars
<1> QED
  BY <1>2, <1>3, <1>4, <1>5, <1>6, <1>7, <1>8, <1>9, <1>10, <1>11, <1>12, <1>13,
     <1>14, <1>15, <1>16, <1>17, <1>18 DEF Next, Watch

-----------------------------------------------------------------------------
(* The log of the collection.                                              *)

(* The types of what the oplog holds.                                      *)
LEMMA LogTypes ==
    ASSUME Types
    PROVE  /\ Len(oplog) \in Nat /\ DOMAIN oplog = 1 .. Len(oplog)
           /\ \A j \in DOMAIN oplog : /\ oplog[j] \in Entries
                                      /\ oplog[j].order \in Orders
                                      /\ oplog[j].doc \in Documents
<1>1. Len(oplog) \in Nat /\ DOMAIN oplog = 1 .. Len(oplog)
  BY LenProperties DEF Types
<1>2. \A j \in DOMAIN oplog : oplog[j] \in Entries
  BY <1>1, ElementOfSeq DEF Types
<1> QED
  BY <1>1, <1>2 DEF Entries

(* What came later still does; an order that is not written keeps.         *)
LEMMA StillLater ==
    ASSUME Types, [Next]_vars, NEW o \in Orders, NEW i \in Nat, i <= Len(oplog)
    PROVE  /\ Later(oplog, o, i) => Later(oplog', o, i)
           /\ Later(oplog', o, i) \/ (~Later(oplog, o, i) /\ orders'[o] = orders[o])
<1>1. /\ Len(oplog) \in Nat /\ DOMAIN oplog = 1 .. Len(oplog)
      /\ \A j \in DOMAIN oplog : j \in DOMAIN oplog' /\ oplog'[j] = oplog[j]
      /\ DOMAIN oplog' = 1 .. Len(oplog') /\ Len(oplog') \in Nat
      /\ orders'[o] = orders[o] \/ Later(oplog', o, Len(oplog))
  BY LogGrows
<1>2. Later(oplog, o, i) => Later(oplog', o, i)
  BY <1>1 DEF Later
<1>3. Later(oplog', o, Len(oplog)) => Later(oplog', o, i)
  BY <1>1 DEF Later
<1> QED
  BY <1>1, <1>2, <1>3

(* A write adds one entry, an insert only for a new order.                 *)
LEMMA WriteTypes ==
    ASSUME Types, NEW o \in Orders, NEW d \in Documents, Write(o, d)
    PROVE  \E e \in Entries :
             /\ oplog' = Append(oplog, e) /\ orders' = [orders EXCEPT ![o] = d]
             /\ e.order = o /\ e.doc = d
             /\ e.op = "insert" => \A i \in DOMAIN oplog : oplog[i].order # o
             /\ e.op = "insert" => o \notin Seen
             /\ e.op = "update" => d # NoDoc
<1> DEFINE op == CASE orders[o] = NoDoc -> "insert"
                   [] d = NoDoc -> "delete"
                   [] OTHER -> "update"
           e == [order |-> o, doc |-> d, op |-> op]
<1>1. /\ oplog' = Append(oplog, e) /\ orders' = [orders EXCEPT ![o] = d]
      /\ orders[o] = NoDoc => \A i \in DOMAIN oplog : oplog[i].order # o
  BY DEF Write
<1>2. /\ op \in Ops /\ (op = "insert" => orders[o] = NoDoc)
      /\ op = "update" => d # NoDoc
  BY DEF Ops
<1>3. /\ e \in Entries /\ e.order = o /\ e.doc = d /\ e.op = op
  BY <1>2 DEF Entries
<1>4. op = "insert" => o \notin Seen
  BY <1>1, <1>2 DEF Seen, Later
<1> HIDE DEF e, op
<1> QED
  BY <1>1, <1>2, <1>3, <1>4

(* The empty oplog accounts for the orders there are.                      *)
LEMMA InitLog == Init => LogOK
BY DEF Init, LogOK

(* Every step keeps the oplog and the orders together.                     *)
LEMMA LogStep == ASSUME Types, LogOK, [Next]_vars PROVE LogOK'
<1>0. /\ Len(oplog) \in Nat /\ DOMAIN oplog = 1 .. Len(oplog)
      /\ \A j \in DOMAIN oplog : j \in DOMAIN oplog' /\ oplog'[j] = oplog[j]
      /\ \A j \in DOMAIN oplog : oplog[j].order \in Orders
  BY LogGrows, LogTypes
<1>1. ASSUME NEW i \in DOMAIN oplog
      PROVE  /\ oplog'[i].op = "insert" =>
                    \A j \in 1 .. i - 1 : oplog'[j].order # oplog'[i].order
             /\ oplog'[i].op = "update" => oplog'[i].doc # NoDoc
             /\ Later(oplog', oplog'[i].order, i) \/ oplog'[i].doc = orders'[oplog'[i].order]
  <2>1. \A j \in 1 .. i - 1 : j \in DOMAIN oplog
    BY <1>0
  <2>2. \/ Later(oplog', oplog[i].order, i)
        \/ ~Later(oplog, oplog[i].order, i) /\ orders'[oplog[i].order] = orders[oplog[i].order]
    BY <1>0, StillLater
  <2> QED
    BY <1>0, <2>1, <2>2 DEF LogOK
<1>2. CASE UNCHANGED <<orders, oplog>>
  BY <1>2 DEF LogOK
<1>3. ASSUME NEW o \in Orders, NEW d \in Documents, Write(o, d) PROVE LogOK'
  <2>1. PICK e \in Entries :
             /\ oplog' = Append(oplog, e) /\ orders' = [orders EXCEPT ![o] = d]
             /\ e.order = o /\ e.doc = d
             /\ e.op = "insert" => \A i \in DOMAIN oplog : oplog[i].order # o
             /\ e.op = "update" => d # NoDoc
    BY <1>3, WriteTypes
  <2>2. /\ DOMAIN oplog' = 1 .. Len(oplog) + 1 /\ oplog'[Len(oplog) + 1] = e
        /\ orders'[o] = d
    BY <1>0, <2>1, AppendProperties, LenProperties DEF Types
  <2>3. \A j \in 1 .. (Len(oplog) + 1) - 1 : j \in DOMAIN oplog
    BY <1>0
  <2>4. \A i \in DOMAIN oplog' : i \in DOMAIN oplog \/ i = Len(oplog) + 1
    BY <1>0, <2>2
  <2>5. /\ e.op = "insert" => \A j \in 1 .. (Len(oplog) + 1) - 1 : oplog'[j].order # o
        /\ e.doc = orders'[e.order]
    BY <1>0, <2>1, <2>2, <2>3
  <2> QED
    BY <1>1, <2>1, <2>2, <2>4, <2>5 DEF LogOK
<1>4. CASE Reset
  <2>1. oplog' = oplog \o Deletions /\ orders' = Nothing
    BY <1>4 DEF Reset
  <2>2. /\ Deletions \in Seq(Entries) /\ Len(Deletions) \in Nat
        /\ DOMAIN Deletions = 1 .. Len(Deletions)
        /\ oplog' \in Seq(Entries) /\ Len(oplog') = Len(oplog) + Len(Deletions)
        /\ DOMAIN oplog' = 1 .. Len(oplog) + Len(Deletions)
        /\ \A i \in 1 .. Len(oplog) + Len(Deletions) :
              oplog'[i] = IF i <= Len(oplog) THEN oplog[i] ELSE Deletions[i - Len(oplog)]
    BY <1>0, <2>1, DeletionsOK, ConcatProperties, LenProperties DEF Types
  <2>3. ASSUME NEW i \in DOMAIN oplog', i \notin DOMAIN oplog
        PROVE  /\ oplog'[i].op = "delete" /\ oplog'[i].doc = NoDoc
               /\ oplog'[i].order \in Orders
    <3>1. i - Len(oplog) \in DOMAIN Deletions /\ oplog'[i] = Deletions[i - Len(oplog)]
      BY <1>0, <2>2, <2>3
    <3>2. Deletions[i - Len(oplog)] \in Entries
      BY <2>2, <3>1
    <3> QED
      BY <3>1, <3>2, DeletionsOK DEF Entries
  <2>4. ASSUME NEW i \in DOMAIN oplog', i \notin DOMAIN oplog
        PROVE  oplog'[i].doc = orders'[oplog'[i].order] /\ oplog'[i].op = "delete"
    BY <2>1, <2>3, <2>4 DEF Nothing
  <2> QED
    BY <1>1, <2>4 DEF LogOK
<1> QED
  BY <1>2, <1>3, <1>4, LogSteps

-----------------------------------------------------------------------------
(* What is fetched.                                                        *)

(* A fetched change is one of the log. *)
LEMMA InLog ==
    ASSUME Types, Places, NEW i \in DOMAIN batch
    PROVE  /\ batch[i] \in Fetched /\ batch[i].at \in DOMAIN oplog
           /\ batch[i].at \in Nat /\ batch[i].at <= Len(oplog)
           /\ batch[i].at \in token + 1 .. pos
<1>1. /\ Len(batch) \in Nat /\ DOMAIN batch = 1 .. Len(batch)
      /\ Len(oplog) \in Nat /\ DOMAIN oplog = 1 .. Len(oplog)
      /\ token \in Nat /\ pos \in Nat
  BY LenProperties DEF Types
<1>2. batch[i] \in Fetched
  BY <1>1 DEF Types
<1>3. batch[i].at \in Nat /\ i \in Nat /\ 1 <= i /\ i <= Len(batch)
  BY <1>1, <1>2 DEF Fetched
<1>4. batch[i].at + Len(batch) = pos + i /\ token + Len(batch) <= pos /\ pos <= Len(oplog)
  BY DEF Places
<1> QED
  BY <1>1, <1>2, <1>3, <1>4

(* So is the change that is being stored. *)
LEMMA EventInLog ==
    ASSUME Types, Places, Appending
    PROVE  /\ event \in Events /\ event.upTo \in Nat /\ event.upTo <= Len(oplog)
           /\ event.upTo \in DOMAIN oplog /\ event.upTo = reached + 1
<1>1. /\ Len(batch) \in Nat /\ Len(oplog) \in Nat /\ DOMAIN oplog = 1 .. Len(oplog)
      /\ event \in Events /\ event.upTo \in Nat /\ pos \in Nat /\ reached \in Nat
  BY LenProperties DEF Types, Appending, Events
<1>2. event.upTo = reached + 1 /\ pos = event.upTo + Len(batch) /\ pos <= Len(oplog)
  BY DEF Places
<1> QED
  BY <1>1, <1>2

BatchRight(i) ==
    /\ batch[i].order = oplog[batch[i].at].order
    /\ batch[i].op = oplog[batch[i].at].op
    /\ Later(oplog, batch[i].order, batch[i].at) \/ batch[i].doc = orders[batch[i].order]

EventRight ==
    /\ event.order = oplog[event.upTo].order
    /\ Later(oplog, event.order, event.upTo) \/ event.after = orders[event.order]

(* Every step keeps what was fetched true to the oplog.                    *)
LEMMA FetchedStep ==
    ASSUME Types, Places, LogOK, FetchedOK, [Next]_vars
    PROVE  FetchedOK'
<1> USE DEF dbVars, streamVars, outVars, histVars
<1>0. /\ DOMAIN oplog = 1 .. Len(oplog)
      /\ \A j \in DOMAIN oplog : j \in DOMAIN oplog' /\ oplog'[j] = oplog[j]
      /\ \A i \in DOMAIN batch : BatchRight(i)
      /\ Appending => EventRight
  BY LogGrows DEF FetchedOK, BatchRight, EventRight
<1>1. ASSUME UNCHANGED batch PROVE \A i \in DOMAIN batch' : BatchRight(i)'
  <2> SUFFICES ASSUME NEW i \in DOMAIN batch PROVE BatchRight(i)'
    BY <1>1
  <2>1. /\ batch[i] \in Fetched /\ batch[i].order \in Orders
        /\ batch[i].at \in DOMAIN oplog /\ batch[i].at \in Nat
        /\ batch[i].at <= Len(oplog)
    BY InLog DEF Fetched
  <2>2. \/ Later(oplog', batch[i].order, batch[i].at)
        \/ /\ ~Later(oplog, batch[i].order, batch[i].at)
           /\ orders'[batch[i].order] = orders[batch[i].order]
    BY <2>1, StillLater
  <2>3. batch'[i] = batch[i]
    BY <1>1
  <2> QED
    BY <1>0, <2>1, <2>2, <2>3 DEF BatchRight
<1>2. ASSUME UNCHANGED event, Appending PROVE EventRight'
  <2>1. /\ event.order \in Orders /\ event.upTo \in DOMAIN oplog
        /\ event.upTo \in Nat /\ event.upTo <= Len(oplog)
    BY <1>2, EventInLog DEF Events
  <2>2. \/ Later(oplog', event.order, event.upTo)
        \/ /\ ~Later(oplog, event.order, event.upTo)
           /\ orders'[event.order] = orders[event.order]
    BY <2>1, StillLater
  <2> QED
    BY <1>0, <1>2, <2>1, <2>2 DEF EventRight
<1>3. (\A i \in DOMAIN batch' : BatchRight(i)') /\ (Appending' => EventRight') => FetchedOK'
  BY DEF FetchedOK, BatchRight, EventRight
<1>4. CASE UNCHANGED <<batch, event>> /\ (Appending' => Appending)
  BY <1>1, <1>2, <1>3, <1>4
<1>5. CASE UNCHANGED batch /\ ~Appending'
  BY <1>1, <1>3, <1>5
<1>6. CASE batch' = <<>> /\ ~Appending'
  <2>1. DOMAIN batch' = {}
    BY <1>6
  <2> QED
    BY <1>3, <1>6, <2>1
<1>7. ASSUME NEW o \in Orders, Announce(o) PROVE FetchedOK'
  BY <1>5, <1>7, AnnounceTypes DEF Announce, Appending
<1>8. CASE Fetch
  <2>1. PICK c \in Fetched :
             /\ batch' = Append(batch, c)
             /\ c.at = pos + 1 /\ c.op = oplog[pos + 1].op
             /\ c.order = oplog[pos + 1].order
             /\ c.doc = IF c.op = "update" THEN orders[c.order] ELSE oplog[pos + 1].doc
    BY <1>8, FetchTypes
  <2>2. /\ DOMAIN batch' = 1 .. Len(batch) + 1 /\ DOMAIN batch = 1 .. Len(batch)
        /\ \A i \in DOMAIN batch : batch'[i] = batch[i]
        /\ batch'[Len(batch) + 1] = c /\ Len(batch) \in Nat
    BY <2>1, AppendProperties, LenProperties DEF Types
  <2>3. pos + 1 \in DOMAIN oplog /\ UNCHANGED <<oplog, orders>> /\ ~Appending'
    BY <1>8, FetchTypes DEF Fetch, Appending
  <2>4. Later(oplog, c.order, c.at) \/ c.doc = orders[c.order]
    BY <2>1, <2>3 DEF LogOK
  <2>5. \A i \in DOMAIN batch : BatchRight(i)'
    BY <1>0, <2>2, <2>3 DEF BatchRight
  <2>6. ASSUME NEW i \in DOMAIN batch', i \notin DOMAIN batch PROVE BatchRight(i)'
    <3>1. batch'[i] = c
      BY <2>2, <2>6
    <3> QED
      BY <2>1, <2>3, <2>4, <3>1 DEF BatchRight
  <2> QED
    BY <1>3, <2>3, <2>5, <2>6
<1>9. CASE Take
  <2>1. /\ \A i \in DOMAIN batch' : i + 1 \in DOMAIN batch /\ batch'[i] = batch[i + 1]
        /\ 1 \in DOMAIN batch /\ Head(batch) = batch[1]
        /\ UNCHANGED <<oplog, orders>>
    BY <1>9, TakeTypes DEF Take
  <2>2. ASSUME NEW i \in DOMAIN batch' PROVE BatchRight(i)'
    <3>1. i + 1 \in DOMAIN batch /\ batch'[i] = batch[i + 1]
      BY <2>1
    <3>2. BatchRight(i + 1)
      BY <1>0, <3>1
    <3> QED
      BY <2>1, <3>1, <3>2 DEF BatchRight
  <2>3. CASE Ignored(Head(batch))
    <3>1. ~Appending'
      BY <1>9, <2>3 DEF Take, Appending
    <3> QED
      BY <1>3, <2>2, <3>1
  <2>4. CASE ~Ignored(Head(batch))
    <3>1. /\ event'.order = Head(batch).order /\ event'.after = Head(batch).doc
          /\ event'.upTo = Head(batch).at
      BY <1>9, <2>4, TakeTypes
    <3>2. EventRight'
      BY <1>0, <2>1, <3>1 DEF BatchRight, EventRight
    <3> QED
      BY <1>3, <2>2, <3>2
  <2> QED
    BY <2>3, <2>4
<1>10. ASSUME NEW o \in Orders, WarmRead(o) PROVE FetchedOK'
  BY <1>4, <1>10 DEF WarmRead, Appending
<1>11. ASSUME NEW o \in Orders, NEW d \in Docs \cup {NoDoc}, Write(o, d) PROVE FetchedOK'
  BY <1>4, <1>11 DEF Write, Appending
<1>12. CASE Warmed \/ Rewarmed \/ Reconciled \/ Store \/ Reset \/ Clear \/ Stop
  BY <1>4, <1>12 DEF Warmed, Rewarmed, Reconciled, Store, Reset, Clear, Stop, Appending
<1>13. CASE Resume \/ AnnounceGone \/ ReconcileFails
  BY <1>5, <1>13 DEF Resume, AnnounceGone, ReconcileFails, Abandon, AfterException,
                     Appending
<1>14. CASE Open \/ StreamFails \/ AppendRaises \/ Crash
  BY <1>6, <1>14 DEF Open, StreamFails, AppendRaises, Crash, Appending
<1>15. CASE UNCHANGED vars
  BY <1>4, <1>15 DEF vars, Appending
<1> QED
  BY <1>7, <1>8, <1>9, <1>10, <1>11, <1>12, <1>13, <1>14, <1>15 DEF Next, Watch

-----------------------------------------------------------------------------
(* The cache.                                                              *)

(* Passing another order's entry leaves nothing behind.                    *)
LEMMA Advance ==
    ASSUME Types, NEW n \in Nat, n + 1 \in DOMAIN oplog, NEW o, oplog[n + 1].order # o
    PROVE  Later(oplog, o, n) => Later(oplog, o, n + 1)
<1>1. \A j \in DOMAIN oplog : n < j /\ j # n + 1 => n + 1 < j
  BY LogTypes
<1> QED
  BY <1>1 DEF Later

(* The change that is taken is the one after the place. *)
LEMMA TakesNext ==
    ASSUME Types, Places, FetchedOK, Take
    PROVE  /\ Head(batch).at = reached + 1 /\ reached + 1 \in DOMAIN oplog
           /\ Head(batch) \in Fetched /\ Head(batch).order \in Orders
           /\ Head(batch).order = oplog[reached + 1].order
           /\ Head(batch).op = oplog[reached + 1].op
           /\ \/ Later(oplog, Head(batch).order, reached + 1)
              \/ Head(batch).doc = orders[Head(batch).order]
<1>1. /\ 1 \in DOMAIN batch /\ Head(batch) = batch[1] /\ Head(batch) \in Fetched
      /\ Len(batch) \in Nat /\ pc = "consume"
  BY TakeTypes DEF Take
<1>2. batch[1].at + Len(batch) = pos + 1 /\ pos = reached + Len(batch)
  BY <1>1 DEF Places
<1>3. batch[1].at \in DOMAIN oplog /\ batch[1].at \in Nat /\ reached \in Nat
  BY <1>1, InLog DEF Types
<1>4. batch[1].at = reached + 1
  BY <1>1, <1>2, <1>3 DEF Types
<1>5. batch[1].order \in Orders
  BY <1>1 DEF Fetched
<1> QED
  BY <1>1, <1>3, <1>4, <1>5 DEF FetchedOK

(* An update that makes no event is one the cache has. *)
LEMMA IgnoredRight ==
    ASSUME Types, Places, LogOK, FetchedOK, Take, Ignored(Head(batch)),
           ~Later(oplog, Head(batch).order, reached + 1)
    PROVE  /\ cache[Head(batch).order] = orders[Head(batch).order]
           /\ orders[Head(batch).order] # NoDoc
<1> DEFINE o == Head(batch).order
<1>1. /\ reached + 1 \in DOMAIN oplog /\ oplog[reached + 1].order = o
      /\ oplog[reached + 1].op = "update" /\ Head(batch).doc = orders[o]
  BY TakesNext DEF Ignored
<1>2. oplog[reached + 1].doc # NoDoc /\ oplog[reached + 1].doc = orders[o]
  BY <1>1 DEF LogOK
<1> QED
  BY <1>1, <1>2 DEF Ignored

(* Every step keeps the cache right about what the watcher is done with.   *)
LEMMA CacheStep ==
    ASSUME Types, Places, LogOK, FetchedOK, CacheOK, [Next]_vars
    PROVE  CacheOK'
<1> USE DEF dbVars, streamVars, outVars, histVars
<1>0. /\ Len(oplog) \in Nat /\ DOMAIN oplog = 1 .. Len(oplog)
      /\ \A j \in DOMAIN oplog : j \in DOMAIN oplog' /\ oplog'[j] = oplog[j]
      /\ start \in Nat /\ reached \in Nat /\ reached <= Len(oplog) /\ token \in Nat
      /\ cache \in [Orders -> Documents]
  BY LogGrows DEF Types, Places
<1>1. CASE /\ Streaming' => Streaming
           /\ UNCHANGED <<start, reached, cache>>
  <2> SUFFICES ASSUME Streaming, NEW o \in Orders,
                      NEW i \in start + 1 .. reached, oplog'[i].order = o
               PROVE  Later(oplog', o, reached) \/ cache[o] = orders'[o]
    BY <1>1 DEF CacheOK
  <2>1. i \in DOMAIN oplog
    BY <1>0
  <2>2. oplog[i].order = o
    BY <1>0, <2>1
  <2>3. Later(oplog, o, reached) \/ cache[o] = orders[o]
    BY <2>2 DEF CacheOK
  <2>4. \/ Later(oplog', o, reached)
        \/ ~Later(oplog, o, reached) /\ orders'[o] = orders[o]
    BY <1>0, StillLater
  <2> QED
    BY <2>3, <2>4
<1>2. CASE ~Streaming'
  BY <1>2 DEF CacheOK
<1>3. CASE start' \in Nat /\ reached' \in Nat /\ reached' <= start'
  <2>1. \A i : i \notin start' + 1 .. reached'
    BY <1>3
  <2> QED
    BY <2>1 DEF CacheOK
(* The watcher is done with the change after its place. *)
<1>4. ASSUME Streaming, reached + 1 \in DOMAIN oplog, UNCHANGED <<start, oplog, orders>>,
             reached' = reached + 1,
             \A o \in Orders : o # oplog[reached + 1].order => cache'[o] = cache[o],
             \A o \in Orders : o = oplog[reached + 1].order =>
                Later(oplog, o, reached + 1) \/ cache'[o] = orders[o]
      PROVE  CacheOK'
  <2> SUFFICES ASSUME NEW o \in Orders, NEW i \in start + 1 .. reached + 1,
                      oplog[i].order = o, o # oplog[reached + 1].order
               PROVE  Later(oplog, o, reached + 1) \/ cache'[o] = orders[o]
    BY <1>4 DEF CacheOK
  <2>1. i \in start + 1 .. reached
    BY <1>0
  <2>2. Later(oplog, o, reached) \/ cache[o] = orders[o]
    BY <1>4, <2>1 DEF CacheOK
  <2> QED
    BY <1>0, <1>4, <2>2, Advance
<1>5. CASE Open
  <2>1. CASE token = 0
    BY <1>0, <1>3, <1>5, <2>1 DEF Open, Position
  <2>2. CASE token # 0
    BY <1>1, <1>5, <2>2 DEF Open, Streaming
  <2> QED
    BY <2>1, <2>2
<1>6. CASE Take
  <2>1. /\ reached + 1 \in DOMAIN oplog /\ Head(batch).at = reached + 1
        /\ Head(batch).order = oplog[reached + 1].order
    BY <1>6, TakesNext
  <2>2. UNCHANGED <<start, cache, oplog, orders>> /\ Streaming
    BY <1>6 DEF Take, Streaming
  <2>3. CASE Ignored(Head(batch))
    <3>1. reached' = reached + 1
      BY <1>6, <2>1, <2>3 DEF Take
    <3>2. \A o \in Orders : o = oplog[reached + 1].order =>
                Later(oplog, o, reached + 1) \/ cache'[o] = orders[o]
      BY <1>6, <2>1, <2>2, <2>3, IgnoredRight
    <3> QED
      BY <1>4, <2>1, <2>2, <3>1, <3>2
  <2>4. CASE ~Ignored(Head(batch))
    <3>1. UNCHANGED reached
      BY <1>6, <2>4 DEF Take
    <3> QED
      BY <1>1, <2>2, <3>1
  <2> QED
    BY <2>3, <2>4
<1>7. CASE Resume
  <2>1. CASE event.synthetic
    BY <1>2, <1>7, <2>1 DEF Resume, Streaming, Appending
  <2>2. CASE ~event.synthetic
    <3>1. Appending
      BY <1>7, <2>2 DEF Resume, Appending
    <3>2. /\ event \in Events /\ event.upTo = reached + 1 /\ reached + 1 \in DOMAIN oplog
          /\ event.order = oplog[reached + 1].order
          /\ \/ Later(oplog, event.order, reached + 1)
             \/ event.after = orders[event.order]
      BY <3>1, EventInLog DEF FetchedOK
    <3>3. /\ reached' = reached + 1 /\ UNCHANGED <<start, oplog, orders>>
          /\ cache' = [cache EXCEPT ![event.order] = event.after]
      BY <1>7, <2>2, <3>2 DEF Resume, Cached
    <3>4. Streaming
      BY <3>1 DEF Streaming
    <3> QED
      BY <1>0, <1>4, <3>2, <3>3, <3>4
  <2> QED
    BY <2>1, <2>2
<1>8. CASE Clear
  <2>1. Streaming' = Streaming /\ UNCHANGED reached
    BY <1>8 DEF Clear, Streaming, Appending
  <2>2. start' = IF start < token THEN token ELSE start
    BY <1>8 DEF Clear
  <2>3. Streaming => reached' <= start' /\ start' \in Nat
    BY <1>0, <2>1, <2>2 DEF Places
  <2> QED
    BY <1>0, <1>2, <1>3, <2>1, <2>3
<1>9. ASSUME NEW o \in Orders, Announce(o) PROVE CacheOK'
  BY <1>2, <1>9, AnnounceTypes DEF Announce, Streaming, Appending
<1>10. ASSUME NEW o \in Orders, WarmRead(o) PROVE CacheOK'
  BY <1>2, <1>10 DEF WarmRead, Streaming, Appending
<1>11. ASSUME NEW o \in Orders, NEW d \in Docs \cup {NoDoc}, Write(o, d) PROVE CacheOK'
  BY <1>1, <1>11 DEF Write, Streaming, Appending
<1>12. CASE Warmed \/ Rewarmed \/ Reconciled \/ AnnounceGone \/ ReconcileFails
            \/ StreamFails \/ Crash \/ Stop
  BY <1>2, <1>12 DEF Warmed, Rewarmed, Reconciled, AnnounceGone, ReconcileFails, Abandon,
                     AfterException, StreamFails, Crash, Stop, Streaming, Appending,
                     Places
<1>13. CASE Fetch \/ Store \/ AppendRaises \/ Reset
  BY <1>1, <1>13 DEF Fetch, Store, AppendRaises, Reset, Streaming, Appending
<1>14. CASE UNCHANGED vars
  BY <1>1, <1>14 DEF vars, Streaming, Appending
<1> QED
  BY <1>5, <1>6, <1>7, <1>8, <1>9, <1>10, <1>11, <1>12, <1>13, <1>14 DEF Next, Watch

-----------------------------------------------------------------------------
(* The client.                                                             *)

(* A client that listens from the start begins with what there is.         *)
LEMMA InitView == Init => ViewOK
<1> SUFFICES ASSUME Init PROVE ViewOK
  OBVIOUS
<1>1. /\ pc = "warm" /\ view = Unknown /\ \A o \in Orders : cache[o] = NoDoc
  BY DEF Init, Nothing
<1>2. ASSUME Listening PROVE Orders = {}
  BY <1>1, <1>2 DEF Listening, Unknown
<1> QED
  BY <1>1, <1>2 DEF ViewOK, Streaming, Announcing, Appending

(* The view a client has after an event. *)
LEMMA ViewApplied ==
    ASSUME Types, Resume
    PROVE  /\ event \in Events /\ event.order \in Orders
           /\ Listening' => Listening /\ view' = [view EXCEPT ![event.order] = event.after]
           /\ Listening => Listening'
           /\ view = Unknown => view' = Unknown
           /\ view # Unknown => view' = [view EXCEPT ![event.order] = event.after]
<1>1. event \in Events /\ event.order \in Orders /\ event.after \in Documents
  BY DEF Types, Resume, Events
<1>2. view' = IF view = Unknown THEN view ELSE [view EXCEPT ![event.order] = event.after]
  BY DEF Resume, Applied
<1>3. \A f \in [Orders -> Documents] : f # Unknown
  BY <1>1 DEF Unknown
<1> QED
  BY <1>1, <1>2, <1>3 DEF Listening, Types

(* Every step keeps the listening client's view.                           *)
LEMMA ViewStep ==
    ASSUME Types, Places, LogOK, FetchedOK, ViewOK, [Next]_vars
    PROVE  ViewOK'
<1> USE DEF dbVars, streamVars, outVars, histVars
<1>0. /\ Len(oplog) \in Nat /\ DOMAIN oplog = 1 .. Len(oplog)
      /\ reached \in Nat /\ reached <= Len(oplog) /\ token \in Nat
      /\ cache \in [Orders -> Documents] /\ orders \in [Orders -> Documents]
  BY LogTypes DEF Types, Places
<1>1. \A o \in Orders :
         \/ Later(oplog', o, reached)
         \/ ~Later(oplog, o, reached) /\ orders'[o] = orders[o]
  BY <1>0, StillLater
<1>2. CASE UNCHANGED <<pc, cache, token, event, view, missed, reached>>
  <2>1. Streaming' = Streaming /\ Announcing' = Announcing /\ Listening' = Listening
    BY <1>2 DEF Streaming, Announcing, Appending, Listening
  <2>2. Announcing => event.order \in Orders
    BY DEF Announcing, Types, Events
  <2> QED
    BY <1>1, <1>2, <2>1, <2>2 DEF ViewOK
<1>3. ASSUME NEW o \in Orders, WarmRead(o) PROVE ViewOK'
  <2>1. /\ cache' = [cache EXCEPT ![o] = orders[o]] /\ pc \in {"warm", "rewarm"}
        /\ UNCHANGED <<orders, oplog, pc, view, missed, reached>>
    BY <1>3 DEF WarmRead
  <2>2. Listening' = Listening /\ ~Streaming' /\ ~Announcing'
    BY <2>1 DEF Listening, Streaming, Announcing, Appending
  <2> QED
    BY <1>0, <2>1, <2>2 DEF ViewOK
<1>4. ASSUME NEW o \in Orders, Announce(o) PROVE ViewOK'
  <2>1. /\ event'.order = o /\ event'.after = cache[o] /\ event'.synthetic
        /\ pc = "announce" /\ pc' = "insert" /\ cache[o] # NoDoc
        /\ UNCHANGED <<orders, oplog, cache, view, missed, reached>>
    BY <1>4, AnnounceTypes DEF Announce
  <2>2. Listening' = Listening /\ ~Streaming' /\ Announcing'
    BY <2>1 DEF Listening, Streaming, Announcing, Appending
  <2> QED
    BY <2>1, <2>2 DEF ViewOK
<1>5. CASE Warmed \/ Rewarmed \/ Reconciled \/ AnnounceGone \/ ReconcileFails
  <2>1. /\ UNCHANGED <<orders, oplog, cache, view, missed, reached>>
        /\ pc' = "open" => token' = 0
        /\ pc = "warm" \/ pc \in {"rewarm", "announce"} \/ Announcing
        /\ (pc = "warm" /\ pc' = "open") \/ (pc = "rewarm" /\ pc' = "announce")
           \/ ((pc \in {"rewarm", "announce"} \/ Announcing) /\ pc' = "open")
    BY <1>5 DEF Warmed, Rewarmed, Reconciled, AnnounceGone, ReconcileFails, Abandon,
                AfterException, Places, Announcing
  <2>2. Listening' = Listening /\ ~Streaming' /\ ~Announcing'
    BY <2>1 DEF Listening, Streaming, Announcing, Appending
  <2> QED
    BY <2>1, <2>2 DEF ViewOK
<1>6. CASE Open
  <2>1. /\ pc = "open" /\ pc' = "consume" /\ UNCHANGED <<orders, oplog, cache>>
        /\ view' = IF view = Unknown THEN orders ELSE view
        /\ reached' = IF token = 0 THEN Len(oplog) ELSE reached
    BY <1>6 DEF Open, Position
  <2>2. ~Announcing' /\ Listening'
    BY <1>0, <2>1 DEF Announcing, Listening, Types
  <2>3. CASE view = Unknown
    <3>1. missed' = {o \in Orders : cache[o] # orders[o]} /\ view' = orders
      BY <1>6, <2>1, <2>3 DEF Open
    <3> QED
      BY <2>1, <2>2, <3>1 DEF ViewOK
  <2>4. CASE view # Unknown
    <3>1. /\ missed' = missed \cup {oplog[i].order : i \in reached + 1 .. reached'}
          /\ view' = view /\ Listening
      BY <1>6, <2>1, <2>4 DEF Open, Listening, Types
    <3>2. CASE token # 0
      BY <2>1, <2>2, <3>1, <3>2 DEF ViewOK, Streaming
    <3>3. CASE token = 0
      <4> SUFFICES ASSUME NEW o \in Orders, o \notin missed'
                   PROVE  view[o] = orders[o] /\ cache[o] \in {NoDoc, view[o]}
        BY <2>1, <2>2, <3>1 DEF ViewOK
      <4>1. ~Later(oplog, o, reached)
        <5>1. \A j \in DOMAIN oplog : reached < j => j \in reached + 1 .. reached'
          BY <1>0, <2>1, <3>3
        <5> QED
          BY <3>1, <5>1 DEF Later
      <4> QED
        BY <2>1, <3>1, <4>1 DEF ViewOK
    <3> QED
      BY <3>2, <3>3
  <2> QED
    BY <2>3, <2>4
<1>7. CASE Take
  <2> DEFINE c == Head(batch)
  <2>1. /\ pc = "consume" /\ pc' \in {"consume", "insert"} /\ Streaming
        /\ UNCHANGED <<orders, oplog, cache, view, missed>>
    BY <1>7 DEF Take, Streaming
  <2>2. Listening' = Listening /\ Listening
    BY <2>1 DEF Listening, ViewOK
  <2>3. CASE Ignored(c)
    <3>1. /\ reached + 1 \in DOMAIN oplog /\ c.order = oplog[reached + 1].order
          /\ c.order \in Orders /\ reached' = reached + 1 /\ pc' = "consume"
      BY <1>7, <2>1, <2>3, TakesNext DEF Take
    <3>2. ASSUME NEW o \in Orders \ missed, ~Later(oplog, o, reached + 1)
          PROVE  view[o] = orders[o]
      <4>1. CASE o # c.order
        BY <1>0, <2>2, <3>1, <3>2, <4>1, Advance DEF ViewOK
      <4>2. CASE o = c.order
        <5>1. cache[o] = orders[o] /\ orders[o] # NoDoc
          BY <1>7, <2>3, <3>2, <4>2, IgnoredRight
        <5> QED
          BY <2>1, <3>2, <5>1 DEF ViewOK
      <4> QED
        BY <4>1, <4>2
    <3>3. ~Announcing'
      BY <3>1 DEF Announcing
    <3> QED
      BY <2>1, <2>2, <3>1, <3>2, <3>3 DEF ViewOK
  <2>4. CASE ~Ignored(c)
    <3>1. reached' = reached /\ pc' = "insert" /\ ~event'.synthetic
      BY <1>7, <2>4, TakeTypes DEF Take
    <3>2. ~Announcing'
      BY <3>1 DEF Announcing
    <3> QED
      BY <2>1, <2>2, <3>1, <3>2 DEF ViewOK
  <2> QED
    BY <2>3, <2>4
<1>8. CASE Store
  <2>1. /\ UNCHANGED <<orders, oplog, cache, view, missed, reached, event, token>>
        /\ pc = "insert" /\ pc' = "stored"
    BY <1>8 DEF Store
  <2>2. Streaming' = Streaming /\ Announcing' = Announcing /\ Listening' = Listening
    BY <2>1 DEF Streaming, Announcing, Appending, Listening
  <2> QED
    BY <2>1, <2>2 DEF ViewOK
<1>9. CASE Resume
  <2>1. /\ pc = "stored" /\ UNCHANGED <<orders, oplog>>
        /\ missed' = missed \ {event.order} /\ event.order \in Orders
        /\ event \in Events /\ pc' \in {"announce", "consume"} /\ ~Announcing'
    BY <1>9, ViewApplied DEF Resume, Announcing
  <2>2. CASE event.synthetic
    <3>1. /\ Announcing /\ reached' = reached /\ cache' = cache /\ pc' = "announce"
      BY <2>1, <1>9, <2>2 DEF Resume, Announcing, Cached
    <3>2. ~Streaming'
      BY <3>1 DEF Streaming, Appending
    <3>3. ASSUME Listening', NEW o \in Orders \ missed', ~Later(oplog, o, reached)
          PROVE  view'[o] = orders[o]
      <4>1. Listening /\ view' = [view EXCEPT ![event.order] = event.after]
        BY <1>9, <3>3, ViewApplied
      <4>2. o = event.order => event.after = orders[o]
        BY <3>1, <3>3 DEF ViewOK
      <4>3. o # event.order => view[o] = orders[o]
        BY <2>1, <3>3, <4>1 DEF ViewOK
      <4> QED
        BY <4>1, <4>2, <4>3 DEF Listening
    <3> QED
      BY <2>1, <3>1, <3>2, <3>3 DEF ViewOK
  <2>3. CASE ~event.synthetic
    <3>1. Appending /\ Streaming
      BY <2>1, <2>3 DEF Appending, Streaming
    <3>2. /\ event.upTo = reached + 1 /\ reached + 1 \in DOMAIN oplog
          /\ event.order = oplog[reached + 1].order
          /\ \/ Later(oplog, event.order, reached + 1)
             \/ event.after = orders[event.order]
      BY <3>1, EventInLog DEF FetchedOK
    <3>3. /\ reached' = reached + 1 /\ pc' = "consume"
          /\ cache' = [cache EXCEPT ![event.order] = event.after]
      BY <1>9, <2>3, <3>2 DEF Resume, Cached
    <3>4. /\ Listening /\ Listening'
          /\ view' = [view EXCEPT ![event.order] = event.after]
      BY <1>9, <3>1, ViewApplied DEF ViewOK
    <3>5. ASSUME NEW o \in Orders \ missed'
          PROVE  /\ Later(oplog, o, reached + 1) \/ view'[o] = orders[o]
                 /\ cache'[o] \in {NoDoc, view'[o]}
      <4>1. CASE o = event.order
        BY <1>0, <3>2, <3>3, <3>4, <4>1 DEF Listening
      <4>2. CASE o # event.order
        <5>1. o \in Orders \ missed /\ view'[o] = view[o] /\ cache'[o] = cache[o]
          BY <1>0, <2>1, <3>3, <3>4, <3>5, <4>2 DEF Listening
        <5> QED
          BY <1>0, <3>1, <3>2, <3>4, <4>2, <5>1, Advance DEF ViewOK
      <4> QED
        BY <4>1, <4>2
    <3> QED
      BY <2>1, <3>3, <3>4, <3>5 DEF ViewOK
  <2> QED
    BY <2>2, <2>3
<1>10. CASE StreamFails \/ Crash
  <2>1. /\ UNCHANGED <<orders, oplog, view, missed, reached>> /\ cache' = Nothing
        /\ pc' \in {"warm", "rewarm"}
    BY <1>10 DEF StreamFails, Crash
  <2>2. Listening' = Listening /\ ~Streaming' /\ ~Announcing'
    BY <2>1 DEF Listening, Streaming, Announcing, Appending
  <2> QED
    BY <2>1, <2>2 DEF ViewOK, Nothing
<1>11. CASE AppendRaises
  <2>1. /\ UNCHANGED <<orders, oplog, view, missed, reached, cache, token>>
        /\ pc' = "open" /\ Streaming
    BY <1>11 DEF AppendRaises, Streaming, Appending
  <2>2. Listening' = Listening /\ ~Announcing'
    BY <2>1 DEF Listening, Announcing
  <2> QED
    BY <2>1, <2>2 DEF ViewOK
<1>12. CASE Clear
  <2>1. /\ UNCHANGED <<orders, oplog, view, missed, reached, pc, token, event>>
        /\ cache' = Nothing
    BY <1>12 DEF Clear
  <2>2. Streaming' = Streaming /\ Announcing' = Announcing /\ Listening' = Listening
    BY <2>1 DEF Streaming, Announcing, Appending, Listening
  <2>3. Announcing => event.order \in Orders
    BY DEF Announcing, Types, Events
  <2> QED
    BY <2>1, <2>2, <2>3 DEF ViewOK, Nothing
<1>13. CASE Stop
  <2>1. UNCHANGED <<orders, oplog, view, missed, reached, cache>> /\ pc' = "stopped"
    BY <1>13 DEF Stop
  <2>2. Listening' = Listening /\ ~Streaming' /\ ~Announcing'
    BY <2>1 DEF Listening, Streaming, Announcing, Appending
  <2> QED
    BY <2>1, <2>2 DEF ViewOK
<1>14. ASSUME NEW o \in Orders, NEW d \in Docs \cup {NoDoc}, Write(o, d) PROVE ViewOK'
  BY <1>2, <1>14 DEF Write
<1>15. CASE Fetch \/ Reset
  BY <1>2, <1>15 DEF Fetch, Reset
<1>16. CASE UNCHANGED vars
  BY <1>2, <1>16 DEF vars
<1> QED
  BY <1>3, <1>4, <1>5, <1>6, <1>7, <1>8, <1>9, <1>10, <1>11, <1>12, <1>13, <1>14,
     <1>15, <1>16 DEF Next, Watch

(* Every step keeps what a reconciliation has told so far.                 *)
LEMMA ToldStep ==
    ASSUME Types, ViewOK, ToldOK, [Next]_vars
    PROVE  ToldOK'
<1> USE DEF dbVars, streamVars, outVars, histVars
<1>1. CASE UNCHANGED <<pc, event, cache, old, todo, view>>
  BY <1>1 DEF ToldOK, Announcing
<1>2. CASE pc' # "announce" /\ ~Announcing'
  BY <1>2 DEF ToldOK
<1>3. CASE Rewarmed
  BY <1>3 DEF Rewarmed, NewIds, ToldOK, Announcing
<1>4. ASSUME NEW o \in Orders, Announce(o) PROVE ToldOK'
  <2>1. /\ event'.order = o /\ event'.synthetic /\ pc = "announce" /\ pc' = "insert"
        /\ todo' = todo \ {o} /\ UNCHANGED <<cache, old, view>>
    BY <1>4, AnnounceTypes DEF Announce
  <2>2. Announcing' /\ ~Announcing
    BY <2>1 DEF Announcing
  <2> QED
    BY <2>1, <2>2 DEF ToldOK
<1>5. CASE Take
  <2>1. pc' \in {"consume", "insert"} /\ (pc' = "insert" => ~event'.synthetic)
    BY <1>5, TakeTypes DEF Take
  <2> QED
    BY <1>2, <2>1 DEF Announcing
<1>6. CASE Store
  <2>1. UNCHANGED <<event, cache, old, todo, view>> /\ pc = "insert" /\ pc' = "stored"
    BY <1>6 DEF Store
  <2>2. Announcing' = Announcing
    BY <2>1 DEF Announcing
  <2> QED
    BY <2>1, <2>2 DEF ToldOK
<1>7. CASE Resume
  <2>1. CASE ~event.synthetic
    BY <1>2, <1>7, <2>1 DEF Resume, Announcing
  <2>2. CASE event.synthetic
    <3>1. /\ pc = "stored" /\ Announcing /\ UNCHANGED <<cache, old, todo>>
          /\ event.order \in Orders /\ pc' = "announce"
      BY <1>7, <2>2, ViewApplied DEF Resume, Announcing, Cached
    <3>2. CASE view = Unknown
      BY <1>7, <3>1, <3>2, ViewApplied DEF ToldOK
    <3>3. CASE view # Unknown
      <4>1. view' = [view EXCEPT ![event.order] = event.after]
            /\ view \in [Orders -> Documents]
        BY <1>7, <3>3, ViewApplied DEF Types
      <4>2. cache[event.order] \in {NoDoc, event.after}
        BY <3>1 DEF ViewOK
      <4> QED
        BY <3>1, <3>3, <4>1, <4>2 DEF ToldOK
    <3> QED
      BY <3>2, <3>3
  <2> QED
    BY <2>1, <2>2
<1>8. CASE Clear
  BY <1>8 DEF Clear, Nothing, ToldOK, Announcing
<1>9. ASSUME NEW o \in Orders, WarmRead(o) PROVE ToldOK'
  BY <1>2, <1>9 DEF WarmRead, Announcing
<1>10. ASSUME NEW o \in Orders, NEW d \in Docs \cup {NoDoc}, Write(o, d) PROVE ToldOK'
  BY <1>1, <1>10 DEF Write
<1>11. CASE Fetch \/ Reset
  BY <1>1, <1>11 DEF Fetch, Reset
<1>12. CASE Warmed \/ Reconciled \/ Open \/ AnnounceGone \/ ReconcileFails
            \/ StreamFails \/ AppendRaises \/ Crash \/ Stop
  BY <1>2, <1>12 DEF Warmed, Reconciled, Open, AnnounceGone, ReconcileFails, Abandon,
                     AfterException, StreamFails, AppendRaises, Crash, Stop, Announcing
<1>13. CASE UNCHANGED vars
  BY <1>1, <1>13 DEF vars
<1> QED
  BY <1>3, <1>4, <1>5, <1>6, <1>7, <1>8, <1>9, <1>10, <1>11, <1>12, <1>13
     DEF Next, Watch

-----------------------------------------------------------------------------
(* The outbox.                                                             *)

Unsent == DOMAIN spine \ sent

(* The types of what the spine holds.                                      *)
LEMMA SpineTypes ==
    ASSUME Types
    PROVE  /\ Len(spine) \in Nat /\ DOMAIN spine = 1 .. Len(spine)
           /\ pc = "stored" => Len(spine) \in DOMAIN spine
           /\ \A i \in DOMAIN spine : spine[i] \in Events
           /\ IsFiniteSet(Unsent) /\ Cardinality(Unsent) \in Nat
<1>1. spine \in Seq(Events) /\ (pc = "stored" => spine # <<>>)
  BY DEF Types
<1>2. Len(spine) \in Nat /\ DOMAIN spine = 1 .. Len(spine) /\ (spine # <<>> => Len(spine) # 0)
  BY <1>1, LenProperties, EmptySeq
<1>3. IsFiniteSet(Unsent)
  <2>1. IsFiniteSet(1 .. Len(spine))
    BY <1>2, FS_Interval
  <2> QED
    BY <1>2, <2>1, FS_Subset DEF Unsent
<1>4. \A i \in DOMAIN spine : spine[i] \in Events
  BY <1>1, <1>2, ElementOfSeq
<1> QED
  BY <1>1, <1>2, <1>3, <1>4, FS_CardinalityType

(* Every step keeps the count of unsent events.                            *)
LEMMA OutboxStep ==
    ASSUME Types, OutboxOK, OneUnsentPerFailure, [Next]_vars
    PROVE  (OutboxOK /\ OneUnsentPerFailure)'
<1> USE DEF dbVars, streamVars, outVars, histVars
<1>0. /\ Len(spine) \in Nat /\ DOMAIN spine = 1 .. Len(spine) /\ failed \in Nat
      /\ IsFiniteSet(Unsent) /\ Cardinality(Unsent) \in Nat /\ sent \subseteq DOMAIN spine
      /\ Cardinality(Unsent)
            <= failed + (IF pc \in {"stored", "stopped"} THEN 1 ELSE 0)
  BY SpineTypes DEF Types, OneUnsentPerFailure, Unsent
<1>1. CASE /\ UNCHANGED <<spine, sent>> /\ failed' = failed
           /\ pc' # "stored" \/ pc = "stored"
           /\ pc \in {"stored", "stopped"} => pc' \in {"stored", "stopped"}
  <2>1. Unsent' = Unsent
    BY <1>1 DEF Unsent
  <2>2. OutboxOK'
    BY <1>1 DEF OutboxOK
  <2> QED
    BY <1>0, <1>1, <2>1, <2>2 DEF OneUnsentPerFailure, Unsent
<1>2. CASE /\ UNCHANGED <<spine, sent>> /\ failed' = failed + 1
           /\ pc' # "stored" \/ pc = "stored"
  <2>1. Unsent' = Unsent
    BY <1>2 DEF Unsent
  <2>2. OutboxOK'
    BY <1>2 DEF OutboxOK
  <2> QED
    BY <1>0, <1>2, <2>1, <2>2 DEF OneUnsentPerFailure, Unsent
<1>3. CASE Store
  <2>1. /\ DOMAIN spine' = 1 .. Len(spine) + 1 /\ Len(spine') = Len(spine) + 1
        /\ sent' = sent /\ failed' = failed /\ pc = "insert" /\ pc' = "stored"
    BY <1>3, StoreTypes DEF Store
  <2>2. Unsent' = Unsent \cup {Len(spine) + 1} /\ Len(spine) + 1 \notin Unsent
    BY <1>0, <2>1 DEF Unsent
  <2>3. Cardinality(Unsent') = Cardinality(Unsent) + 1
    BY <1>0, <2>2, FS_AddElement
  <2>4. OutboxOK'
    BY <1>0, <2>1 DEF OutboxOK
  <2> QED
    BY <1>0, <2>1, <2>3, <2>4 DEF OneUnsentPerFailure, Unsent
<1>4. CASE Resume
  <2>1. /\ pc = "stored" /\ pc' \in {"announce", "consume"} /\ spine' = spine
        /\ sent' = sent \cup {Len(spine)} /\ failed' = failed
        /\ Len(spine) \in DOMAIN spine /\ Len(spine) \notin sent
    BY <1>4, SpineTypes DEF Resume, Sent, OutboxOK
  <2>2. Unsent' = Unsent \ {Len(spine)} /\ Len(spine) \in Unsent
    BY <2>1 DEF Unsent
  <2>3. Cardinality(Unsent') = Cardinality(Unsent) - 1
    BY <1>0, <2>2, FS_RemoveElement
  <2>4. OutboxOK'
    BY <2>1 DEF OutboxOK
  <2> QED
    BY <1>0, <2>1, <2>3, <2>4 DEF OneUnsentPerFailure, Unsent
<1>5. ASSUME NEW o \in Orders, WarmRead(o) \/ Announce(o) PROVE (OutboxOK /\ OneUnsentPerFailure)'
  BY <1>1, <1>5 DEF WarmRead, Announce
<1>6. ASSUME NEW o \in Orders, NEW d \in Docs \cup {NoDoc}, Write(o, d)
      PROVE  (OutboxOK /\ OneUnsentPerFailure)'
  BY <1>1, <1>6 DEF Write
<1>7. CASE Warmed \/ Rewarmed \/ Reconciled \/ Open \/ Fetch \/ Take \/ AnnounceGone
           \/ Clear \/ Stop
  BY <1>1, <1>7 DEF Warmed, Rewarmed, Reconciled, Open, Fetch, Take, AnnounceGone, Abandon,
                    AfterException, Clear, Stop
<1>8. CASE StreamFails \/ AppendRaises \/ ReconcileFails \/ Crash \/ Reset
  BY <1>2, <1>8 DEF StreamFails, AppendRaises, ReconcileFails, Abandon, AfterException,
                    Crash, Reset, Fails
<1>9. CASE UNCHANGED vars
  BY <1>1, <1>9 DEF vars
<1> QED
  BY <1>3, <1>4, <1>5, <1>6, <1>7, <1>8, <1>9 DEF Next, Watch

-----------------------------------------------------------------------------
(* The chain of before-images.                                             *)

(* The empty spine is a chain for every order.                             *)
LEMMA InitChain == Init => SpineOK /\ AnnounceOK /\ InsertOK /\ LinkOK /\ BeforeChain
<1> SUFFICES ASSUME Init PROVE SpineOK /\ AnnounceOK /\ InsertOK /\ LinkOK /\ BeforeChain
  OBVIOUS
<1>1. /\ DOMAIN spine = {} /\ pc = "warm" /\ \A o \in Orders : cache[o] = NoDoc
  BY DEF Init, Nothing
<1>2. Present = {} /\ Latest = {}
  BY <1>1 DEF Present, Latest
<1> QED
  BY <1>1, <1>2 DEF SpineOK, AnnounceOK, InsertOK, LinkOK, BeforeChain, Streaming,
                    Announcing, Appending

(* What was seen stays seen, and only an unseen order is inserted.         *)
LEMMA SeenStays == ASSUME Types, [Next]_vars PROVE Seen \subseteq Seen'
<1> SUFFICES ASSUME NEW o \in Seen PROVE o \in Seen'
  OBVIOUS
<1>1. /\ Len(oplog) \in Nat
      /\ \A j \in DOMAIN oplog : j \in DOMAIN oplog' /\ oplog'[j] = oplog[j]
      /\ orders'[o] = orders[o] \/ Later(oplog', o, Len(oplog))
      /\ DOMAIN oplog' = 1 .. Len(oplog') /\ Len(oplog') \in Nat
  BY LogGrows DEF Seen
<1>2. Later(oplog', o, Len(oplog)) => Later(oplog', o, 0)
  BY <1>1 DEF Later
<1>3. Later(oplog, o, 0) => Later(oplog', o, 0)
  BY <1>1 DEF Later
<1> QED
  BY <1>1, <1>2, <1>3 DEF Seen

(* An insert that is new is of an order never seen before.                 *)
LEMMA NewInserts ==
    ASSUME Types, [Next]_vars, NEW j \in DOMAIN oplog', j \notin DOMAIN oplog,
           oplog'[j].op = "insert"
    PROVE  oplog'[j].order \notin Seen
<1>1. CASE UNCHANGED <<orders, oplog>>
  BY <1>1
<1>2. ASSUME NEW o \in Orders, NEW d \in Documents, Write(o, d)
      PROVE  oplog'[j].order \notin Seen
  <2>1. PICK e \in Entries :
             /\ oplog' = Append(oplog, e) /\ e.order = o
             /\ e.op = "insert" => o \notin Seen
    BY <1>2, WriteTypes
  <2>2. /\ DOMAIN oplog' = 1 .. Len(oplog) + 1 /\ oplog'[Len(oplog) + 1] = e
        /\ DOMAIN oplog = 1 .. Len(oplog) /\ Len(oplog) \in Nat
    BY <2>1, AppendProperties, LenProperties DEF Types
  <2>3. j = Len(oplog) + 1
    BY <2>2
  <2> QED
    BY <2>1, <2>2, <2>3
<1>3. CASE Reset
  <2>1. oplog' = oplog \o Deletions
    BY <1>3 DEF Reset
  <2>2. /\ Len(Deletions) \in Nat /\ DOMAIN Deletions = 1 .. Len(Deletions)
        /\ Len(oplog) \in Nat /\ DOMAIN oplog = 1 .. Len(oplog)
        /\ DOMAIN oplog' = 1 .. Len(oplog) + Len(Deletions)
        /\ \A i \in 1 .. Len(oplog) + Len(Deletions) :
              oplog'[i] = IF i <= Len(oplog) THEN oplog[i] ELSE Deletions[i - Len(oplog)]
    BY <2>1, DeletionsOK, ConcatProperties, LenProperties DEF Types
  <2>3. j - Len(oplog) \in DOMAIN Deletions /\ oplog'[j] = Deletions[j - Len(oplog)]
    BY <2>2
  <2> QED
    BY <2>3, DeletionsOK
<1> QED
  BY <1>1, <1>2, <1>3, LogSteps

(* A new era begins with no event of its own. *)
LEMMA NewEra == ASSUME Types, SpineOK, UNCHANGED spine, era' = era + 1 PROVE Present' = {}
<1>1. \A i \in DOMAIN spine : spine[i].era <= era /\ spine[i].era \in Nat
  BY SpineTypes DEF SpineOK, Events
<1> QED
  BY <1>1 DEF Present, Types

(* Every step keeps the spine to orders seen and eras begun.               *)
LEMMA SpineStep ==
    ASSUME Types, Places, FetchedOK, SpineOK, [Next]_vars
    PROVE  SpineOK'
<1> USE DEF dbVars, streamVars, outVars, histVars
<1>0. /\ Seen \subseteq Seen' /\ era \in Nat
      /\ \A i \in DOMAIN spine : spine[i].era \in Nat
  BY SeenStays, SpineTypes DEF Types, Events
<1>1. CASE UNCHANGED <<spine, era, cache, event, pc>>
  <2>1. Present' = Present
    BY <1>1 DEF Present
  <2> QED
    BY <1>0, <1>1, <2>1 DEF SpineOK
<1>2. ASSUME NEW o \in Orders, WarmRead(o) PROVE SpineOK'
  <2>1. /\ UNCHANGED <<spine, era, event, pc, orders, oplog>> /\ pc \in {"warm", "rewarm"}
        /\ cache' = [cache EXCEPT ![o] = orders[o]]
    BY <1>2 DEF WarmRead
  <2>2. Present' = Present
    BY <2>1 DEF Present
  <2>3. \A p \in Orders : cache'[p] # NoDoc => p \in Seen
    BY <2>1 DEF SpineOK, Seen, Types
  <2> QED
    BY <1>0, <2>1, <2>2, <2>3 DEF SpineOK
<1>3. ASSUME NEW o \in Orders, Announce(o) PROVE SpineOK'
  <2>1. /\ event'.order = o /\ event'.era = era /\ pc' = "insert" /\ cache[o] # NoDoc
        /\ UNCHANGED <<spine, era, cache>>
    BY <1>3, AnnounceTypes DEF Announce
  <2> QED
    BY <1>0, <2>1 DEF SpineOK
<1>4. CASE Take
  <2>1. UNCHANGED <<spine, era, cache>> /\ pc' \in {"consume", "insert"}
    BY <1>4 DEF Take
  <2>2. CASE Ignored(Head(batch))
    <3>1. pc' = "consume"
      BY <1>4, <2>2 DEF Take
    <3> QED
      BY <1>0, <2>1, <3>1 DEF SpineOK
  <2>3. CASE ~Ignored(Head(batch))
    <3>1. event'.order = Head(batch).order /\ event'.era = era /\ pc' = "insert"
      BY <1>4, <2>3, TakeTypes DEF Take
    <3>2. Head(batch).order \in Seen
      <4>1. /\ reached + 1 \in DOMAIN oplog /\ Head(batch).order = oplog[reached + 1].order
            /\ Head(batch).order \in Orders /\ reached \in Nat
        BY <1>4, TakesNext DEF Types
      <4>2. Later(oplog, Head(batch).order, 0)
        BY <4>1 DEF Later
      <4> QED
        BY <4>1, <4>2 DEF Seen
    <3> QED
      BY <1>0, <2>1, <3>1, <3>2 DEF SpineOK
  <2> QED
    BY <2>2, <2>3
<1>5. CASE Store
  <2>1. /\ UNCHANGED <<era, cache, event>> /\ pc = "insert" /\ pc' = "stored"
        /\ Len(spine) \in Nat /\ Len(spine') = Len(spine) + 1
        /\ DOMAIN spine = 1 .. Len(spine) /\ DOMAIN spine' = 1 .. Len(spine) + 1
        /\ \A i \in DOMAIN spine : spine'[i] = spine[i]
        /\ spine'[Len(spine) + 1] = event
    BY <1>5, StoreTypes DEF Store
  <2>2. \A i \in DOMAIN spine' : i \in DOMAIN spine \/ i = Len(spine) + 1
    BY <2>1
  <2> QED
    BY <1>0, <2>1, <2>2 DEF SpineOK
<1>6. CASE Resume
  <2>1. /\ UNCHANGED <<spine, era>> /\ pc = "stored" /\ pc' \in {"announce", "consume"}
        /\ cache' = cache \/ cache' = [cache EXCEPT ![event.order] = event.after]
    BY <1>6 DEF Resume, Cached
  <2>2. \A p \in Orders : cache'[p] # NoDoc => p \in Seen
    BY <2>1 DEF SpineOK, Types
  <2> QED
    BY <1>0, <2>1, <2>2 DEF SpineOK
<1>7. CASE StreamFails \/ Crash \/ Clear
  <2>1. /\ UNCHANGED spine /\ era' = era + 1 /\ cache' = Nothing
        /\ pc' \in {"warm", "rewarm"} \/ UNCHANGED <<pc, event>>
    BY <1>7 DEF StreamFails, Crash, Clear
  <2>2. Present' = {} /\ \A o \in Orders : cache'[o] = NoDoc
    BY <2>1, NewEra DEF Nothing
  <2>3. \A n \in Nat : n <= era => n <= era'
    BY <1>0, <2>1
  <2>4. pc \in {"insert", "stored"} => event.era \in Nat
    BY DEF Types, Events
  <2> QED
    BY <1>0, <2>1, <2>2, <2>3, <2>4 DEF SpineOK
<1>8. CASE Warmed \/ Rewarmed \/ Reconciled \/ Open \/ AnnounceGone \/ AppendRaises
           \/ ReconcileFails \/ Stop
  <2>1. UNCHANGED <<spine, era, cache>> /\ pc' \in {"open", "announce", "consume", "stopped"}
    BY <1>8 DEF Warmed, Rewarmed, Reconciled, Open, AnnounceGone, AppendRaises,
                ReconcileFails, Abandon, AfterException, Stop
  <2> QED
    BY <1>0, <2>1 DEF SpineOK
<1>9. ASSUME NEW o \in Orders, NEW d \in Docs \cup {NoDoc}, Write(o, d) PROVE SpineOK'
  BY <1>1, <1>9 DEF Write
<1>10. CASE Fetch \/ Reset
  BY <1>1, <1>10 DEF Fetch, Reset
<1>11. CASE UNCHANGED vars
  BY <1>1, <1>11 DEF vars
<1> QED
  BY <1>2, <1>3, <1>4, <1>5, <1>6, <1>7, <1>8, <1>9, <1>10, <1>11 DEF Next, Watch

(* Every step keeps what is left to announce unannounced.                  *)
LEMMA AnnounceStep ==
    ASSUME Types, SpineOK, AnnounceOK, [Next]_vars
    PROVE  AnnounceOK'
<1> USE DEF dbVars, streamVars, outVars, histVars
<1>1. CASE UNCHANGED <<spine, era, cache, event, pc, todo>>
  BY <1>1 DEF AnnounceOK, Announcing, Present
<1>2. CASE pc' # "announce" /\ ~Announcing'
  BY <1>2 DEF AnnounceOK
<1>3. CASE Rewarmed
  <2>1. UNCHANGED <<spine, era>> /\ pc = "rewarm" /\ pc' = "announce"
    BY <1>3 DEF Rewarmed
  <2>2. Present' = {} /\ ~Announcing'
    BY <2>1 DEF Present, SpineOK, Announcing
  <2> QED
    BY <2>2 DEF AnnounceOK
<1>4. ASSUME NEW o \in Orders, Announce(o) PROVE AnnounceOK'
  <2>1. /\ event'.order = o /\ event'.after = cache[o] /\ pc = "announce"
        /\ todo' = todo \ {o} /\ UNCHANGED <<spine, era, cache>>
    BY <1>4, AnnounceTypes DEF Announce
  <2>2. Present' = Present
    BY <2>1 DEF Present
  <2> QED
    BY <2>1, <2>2 DEF AnnounceOK
<1>5. CASE Take
  <2>1. pc' \in {"consume", "insert"} /\ (pc' = "insert" => ~event'.synthetic)
    BY <1>5, TakeTypes DEF Take
  <2> QED
    BY <1>2, <2>1 DEF Announcing
<1>6. CASE Store
  <2>1. /\ UNCHANGED <<era, cache, event, todo>> /\ pc = "insert" /\ pc' = "stored"
        /\ DOMAIN spine = 1 .. Len(spine) /\ DOMAIN spine' = 1 .. Len(spine) + 1
        /\ \A i \in DOMAIN spine : spine'[i] = spine[i]
        /\ spine'[Len(spine) + 1] = event /\ Len(spine) \in Nat
    BY <1>6, StoreTypes DEF Store
  <2>2. Announcing' = Announcing
    BY <2>1 DEF Announcing
  <2>3. \A i \in Present' : i \in Present \/ spine'[i] = event
    BY <2>1 DEF Present
  <2>4. \A i \in Present : spine'[i] = spine[i]
    BY <2>1 DEF Present
  <2> QED
    BY <2>1, <2>2, <2>3, <2>4 DEF AnnounceOK
<1>7. CASE Resume
  <2>1. CASE ~event.synthetic
    BY <1>2, <1>7, <2>1 DEF Resume, Announcing
  <2>2. CASE event.synthetic
    <3>1. /\ Announcing /\ ~Announcing' /\ UNCHANGED <<spine, era, todo>>
      BY <1>7, <2>2 DEF Resume, Announcing
    <3> QED
      BY <3>1 DEF AnnounceOK, Present
  <2> QED
    BY <2>1, <2>2
<1>8. CASE Clear
  <2>1. UNCHANGED <<spine, pc, event, todo>> /\ era' = era + 1
    BY <1>8 DEF Clear
  <2>2. Present' = {} /\ Announcing' = Announcing
    BY <2>1, NewEra DEF Announcing
  <2>3. Announcing => event.era <= era /\ event.era \in Nat /\ era \in Nat
    BY DEF Announcing, SpineOK, Types, Events
  <2>4. Announcing => event.era # era'
    BY <2>1, <2>3
  <2> QED
    BY <2>1, <2>2, <2>4 DEF AnnounceOK
<1>9. ASSUME NEW o \in Orders, WarmRead(o) PROVE AnnounceOK'
  BY <1>2, <1>9 DEF WarmRead, Announcing
<1>10. ASSUME NEW o \in Orders, NEW d \in Docs \cup {NoDoc}, Write(o, d) PROVE AnnounceOK'
  BY <1>1, <1>10 DEF Write
<1>11. CASE Fetch \/ Reset
  BY <1>1, <1>11 DEF Fetch, Reset
<1>12. CASE Warmed \/ Reconciled \/ Open \/ AnnounceGone \/ ReconcileFails
            \/ StreamFails \/ AppendRaises \/ Crash \/ Stop
  BY <1>2, <1>12 DEF Warmed, Reconciled, Open, AnnounceGone, ReconcileFails, Abandon,
                     AfterException, StreamFails, AppendRaises, Crash, Stop, Announcing
<1>13. CASE UNCHANGED vars
  BY <1>1, <1>13 DEF vars
<1> QED
  BY <1>3, <1>4, <1>5, <1>6, <1>7, <1>8, <1>9, <1>10, <1>11, <1>12, <1>13
     DEF Next, Watch

(* Every step keeps the inserts of orders the spine knows behind it.       *)
LEMMA InsertStep ==
    ASSUME Types, Places, LogOK, FetchedOK, SpineOK, InsertOK, [Next]_vars
    PROVE  InsertOK'
<1> USE DEF dbVars, streamVars, outVars, histVars
<1>0. /\ Len(oplog) \in Nat /\ DOMAIN oplog = 1 .. Len(oplog)
      /\ \A j \in DOMAIN oplog : oplog'[j] = oplog[j]
      /\ reached \in Nat /\ reached <= Len(oplog)
  BY LogGrows DEF Types, Places
(* Of an order the spine knows, every insert is in the log already. *)
<1>1. ASSUME NEW o \in Seen, NEW j \in DOMAIN oplog', oplog'[j].op = "insert",
             oplog'[j].order = o
      PROVE  /\ j \in DOMAIN oplog /\ j \in Nat /\ j <= Len(oplog)
             /\ oplog[j].op = "insert" /\ oplog[j].order = o
  <2>1. j \in DOMAIN oplog
    BY <1>1, NewInserts
  <2> QED
    BY <1>0, <1>1, <2>1
<1>2. CASE /\ UNCHANGED <<spine, era>> /\ (Streaming' => Streaming)
           /\ reached' \in Nat /\ reached <= reached'
           /\ pc = "stored" => pc' = "stored"
  <2> SUFFICES ASSUME Streaming, NEW i \in Present, NEW j \in DOMAIN oplog',
                      oplog'[j].op = "insert", oplog'[j].order = spine[i].order
               PROVE  j <= reached' \/ (pc' = "stored" /\ i = Len(spine))
    BY <1>2 DEF InsertOK, Present
  <2>1. spine[i].order \in Seen
    BY DEF SpineOK, Present
  <2>2. /\ j \in DOMAIN oplog /\ j \in Nat /\ j <= Len(oplog)
        /\ oplog[j].op = "insert" /\ oplog[j].order = spine[i].order
    BY <1>1, <2>1
  <2>3. j <= reached \/ (pc = "stored" /\ i = Len(spine))
    BY <2>2 DEF InsertOK
  <2> QED
    BY <1>0, <1>2, <2>2, <2>3
<1>3. CASE ~Streaming'
  BY <1>3 DEF InsertOK
<1>4. CASE UNCHANGED spine /\ era' = era + 1
  BY <1>4, NewEra DEF InsertOK
<1>5. CASE Open
  <2>1. CASE token # 0
    BY <1>0, <1>2, <1>5, <2>1 DEF Open, Streaming
  <2>2. CASE token = 0
    <3>1. reached' = Len(oplog) /\ UNCHANGED <<spine, era>>
      BY <1>5, <2>2 DEF Open, Position
    <3>2. \A i \in Present' : spine'[i].order \in Seen
      BY <3>1 DEF SpineOK, Present
    <3> QED
      BY <1>1, <3>1, <3>2 DEF InsertOK
  <2> QED
    BY <2>1, <2>2
<1>6. CASE Take
  <2>1. /\ UNCHANGED <<spine, era>> /\ Streaming /\ pc = "consume"
        /\ reached' = reached \/ reached' = reached + 1
    BY <1>6, TakesNext DEF Take, Streaming
  <2> QED
    BY <1>0, <1>2, <2>1
<1>7. CASE Store
  <2>1. /\ UNCHANGED <<era, reached, oplog>> /\ pc = "insert" /\ pc' = "stored"
        /\ Len(spine') = Len(spine) + 1 /\ Len(spine) \in Nat
        /\ DOMAIN spine = 1 .. Len(spine) /\ DOMAIN spine' = 1 .. Len(spine) + 1
        /\ \A i \in DOMAIN spine : spine'[i] = spine[i]
        /\ event' = event
    BY <1>7, StoreTypes DEF Store
  <2>2. Streaming' = Streaming
    BY <2>1 DEF Streaming, Appending
  <2>3. \A i \in Present' : i \in Present \/ i = Len(spine')
    BY <2>1 DEF Present
  <2>4. \A i \in Present : spine'[i] = spine[i]
    BY <2>1 DEF Present
  <2> QED
    BY <2>1, <2>2, <2>3, <2>4 DEF InsertOK
<1>8. CASE Resume
  <2>1. CASE event.synthetic
    BY <1>3, <1>8, <2>1 DEF Resume, Streaming, Appending
  <2>2. CASE ~event.synthetic
    <3>1. Appending /\ Streaming /\ pc = "stored" /\ UNCHANGED <<spine, era, oplog>>
      BY <1>8, <2>2 DEF Resume, Appending, Streaming
    <3>2. /\ event.upTo = reached + 1 /\ reached + 1 \in DOMAIN oplog
          /\ event.order = oplog[reached + 1].order
      BY <3>1, EventInLog DEF FetchedOK
    <3>3. reached' = reached + 1
      BY <1>8, <2>2, <3>2 DEF Resume
    <3> SUFFICES ASSUME NEW i \in Present, NEW j \in DOMAIN oplog,
                        oplog[j].op = "insert", oplog[j].order = spine[i].order
                 PROVE  j <= reached + 1
      BY <3>1, <3>3 DEF InsertOK, Present
    <3>4. j \in Nat
      BY <1>0
    <3>5. CASE i = Len(spine)
      <4>1. oplog[j].order = oplog[reached + 1].order
        BY <3>1, <3>2, <3>5 DEF SpineOK
      <4>2. j > reached + 1 => reached + 1 \in 1 .. j - 1
        BY <1>0, <3>4
      <4> QED
        BY <1>0, <3>4, <4>1, <4>2 DEF LogOK
    <3>6. CASE i # Len(spine)
      BY <1>0, <3>1, <3>4, <3>6 DEF InsertOK
    <3> QED
      BY <3>5, <3>6
  <2> QED
    BY <2>1, <2>2
<1>9. CASE StreamFails \/ Crash \/ Clear
  BY <1>4, <1>9 DEF StreamFails, Crash, Clear
<1>10. ASSUME NEW o \in Orders, Announce(o) PROVE InsertOK'
  BY <1>3, <1>10, AnnounceTypes DEF Announce, Streaming, Appending
<1>11. ASSUME NEW o \in Orders, WarmRead(o) PROVE InsertOK'
  BY <1>3, <1>11 DEF WarmRead, Streaming, Appending
<1>12. ASSUME NEW o \in Orders, NEW d \in Docs \cup {NoDoc}, Write(o, d) PROVE InsertOK'
  BY <1>0, <1>2, <1>12 DEF Write, Streaming, Appending
<1>13. CASE Warmed \/ Rewarmed \/ Reconciled \/ AnnounceGone \/ ReconcileFails \/ Stop
  BY <1>3, <1>13 DEF Warmed, Rewarmed, Reconciled, AnnounceGone, ReconcileFails, Abandon,
                     AfterException, Stop, Streaming, Appending, Places
<1>14. CASE Fetch \/ AppendRaises \/ Reset
  BY <1>0, <1>2, <1>14 DEF Fetch, AppendRaises, Reset, Streaming, Appending
<1>15. CASE UNCHANGED vars
  BY <1>0, <1>2, <1>15 DEF vars, Streaming, Appending
<1> QED
  BY <1>5, <1>6, <1>7, <1>8, <1>9, <1>10, <1>11, <1>12, <1>13, <1>14, <1>15
     DEF Next, Watch

(* Every step keeps the event in hand linked to the spine.                 *)
LEMMA LinkStep ==
    ASSUME Types, Places, FetchedOK, SpineOK, AnnounceOK, InsertOK, LinkOK, [Next]_vars
    PROVE  LinkOK'
<1> USE DEF dbVars, streamVars, outVars, histVars
<1>0. /\ Len(spine) \in Nat /\ DOMAIN spine = 1 .. Len(spine)
      /\ \A i \in DOMAIN spine : spine[i].order \in Orders
  BY SpineTypes DEF Events
<1>1. CASE /\ UNCHANGED <<spine, era, cache>> /\ pc \notin {"stored", "stopped"}
           /\ pc' # "insert" \/ (UNCHANGED event /\ pc = "insert")
  BY <1>1 DEF LinkOK, Present, Latest
<1>2. CASE UNCHANGED <<spine, era, cache, pc, event>>
  BY <1>2 DEF LinkOK, Present, Latest
<1>3. CASE UNCHANGED spine /\ era' = era + 1
           /\ (pc' = "insert" => UNCHANGED event /\ pc = "insert")
  <2>1. Present' = {} /\ Latest' = Latest
    BY <1>3, NewEra DEF Latest
  <2> QED
    BY <1>3, <2>1 DEF LinkOK
<1>4. CASE UNCHANGED spine /\ pc' # "insert" /\ Present' = {}
  BY <1>4 DEF LinkOK
<1>5. ASSUME NEW o \in Orders, WarmRead(o) PROVE LinkOK'
  BY <1>4, <1>5 DEF WarmRead, SpineOK, Present
<1>6. ASSUME NEW o \in Orders, Announce(o) PROVE LinkOK'
  <2>1. /\ event'.order = o /\ event'.era = era /\ pc = "announce" /\ pc' = "insert"
        /\ o \in todo /\ UNCHANGED <<spine, era, cache>>
    BY <1>6, AnnounceTypes DEF Announce
  <2>2. Present' = Present /\ Latest' = Latest
    BY <2>1 DEF Present, Latest
  <2>3. \A i \in Latest : ~(spine[i].order = o /\ spine[i].era = era)
    BY <2>1 DEF AnnounceOK, Present, Latest
  <2> QED
    BY <2>1, <2>2, <2>3 DEF LinkOK
<1>7. CASE Take
  <2>1. /\ UNCHANGED <<spine, era, cache>> /\ pc = "consume"
        /\ pc' \in {"consume", "insert"}
    BY <1>7 DEF Take
  <2>2. CASE Ignored(Head(batch))
    BY <1>1, <1>7, <2>1, <2>2 DEF Take
  <2>3. CASE ~Ignored(Head(batch))
    <3>1. /\ event'.order = Head(batch).order /\ event'.era = era /\ pc' = "insert"
          /\ event'.before = IF Head(batch).op = "insert" THEN NoDoc
                             ELSE cache[Head(batch).order]
      BY <1>7, <2>3, TakeTypes DEF Take
    <3>2. Present' = Present /\ Latest' = Latest
      BY <2>1 DEF Present, Latest
    <3>3. ASSUME NEW i \in Latest, spine[i].order = event'.order, spine[i].era = event'.era
          PROVE  spine[i].after = event'.before
      <4>1. i \in Present /\ cache[spine[i].order] = spine[i].after
        BY <2>1, <3>1, <3>3 DEF Present, Latest, LinkOK
      <4>2. Head(batch).op # "insert"
        <5>1. /\ reached + 1 \in DOMAIN oplog /\ Head(batch).op = oplog[reached + 1].op
              /\ Head(batch).order = oplog[reached + 1].order
          BY <1>7, TakesNext
        <5>2. Head(batch).op = "insert" => reached + 1 <= reached
          BY <2>1, <3>1, <3>3, <4>1, <5>1 DEF InsertOK, Streaming
        <5> QED
          BY <5>2 DEF Types
      <4> QED
        BY <3>1, <3>3, <4>1, <4>2
    <3> QED
      BY <2>1, <3>1, <3>2, <3>3 DEF LinkOK
  <2> QED
    BY <2>2, <2>3
<1>8. CASE Store
  <2>1. /\ UNCHANGED <<era, cache, event>> /\ pc = "insert" /\ pc' = "stored"
        /\ Len(spine') = Len(spine) + 1
        /\ DOMAIN spine' = 1 .. Len(spine) + 1
        /\ \A i \in DOMAIN spine : i \in DOMAIN spine' /\ spine'[i] = spine[i]
    BY <1>8, StoreTypes DEF Store
  <2>2. ASSUME NEW i \in Present' \cap Latest', i # Len(spine')
        PROVE  i \in Present \cap Latest /\ spine'[i] = spine[i]
    <3>1. i \in DOMAIN spine
      BY <1>0, <2>1, <2>2 DEF Present
    <3> QED
      BY <2>1, <2>2, <3>1 DEF Present, Latest
  <2>3. \A i \in Present' \cap Latest' :
           i = Len(spine') \/ cache'[spine'[i].order] = spine'[i].after
    BY <2>1, <2>2 DEF LinkOK
  <2> QED
    BY <2>1, <2>3 DEF LinkOK
<1>9. CASE Resume
  <2>1. /\ UNCHANGED <<spine, era>> /\ pc = "stored" /\ pc' \in {"announce", "consume"}
        /\ cache' = Cached(event) /\ event \in Events /\ event.order \in Orders
        /\ spine[Len(spine)] = event /\ cache \in [Orders -> Documents]
    BY <1>9, ViewApplied DEF Resume, SpineOK, Types
  <2>2. Present' = Present /\ Latest' = Latest
    BY <2>1 DEF Present, Latest
  <2>3. ASSUME NEW i \in Present \cap Latest
        PROVE  cache'[spine[i].order] = spine[i].after
    <3>1. CASE i = Len(spine)
      <4>1. event.era = era /\ spine[i] = event
        BY <2>1, <3>1 DEF Present
      <4>2. CASE event.synthetic
        BY <2>1, <4>1, <4>2 DEF Cached, AnnounceOK, Announcing
      <4>3. CASE ~event.synthetic
        BY <2>1, <4>1, <4>3 DEF Cached
      <4> QED
        BY <4>2, <4>3
    <3>2. CASE i # Len(spine)
      <4>1. spine[i].order # event.order
        BY <1>0, <2>1, <3>2 DEF Latest
      <4>2. cache[spine[i].order] = spine[i].after
        BY <2>1, <3>2 DEF LinkOK
      <4>3. spine[i].order \in Orders
        BY <1>0 DEF Latest
      <4> QED
        BY <2>1, <4>1, <4>2, <4>3 DEF Cached
    <3> QED
      BY <3>1, <3>2
  <2> QED
    BY <2>1, <2>2, <2>3 DEF LinkOK
<1>10. CASE StreamFails \/ Crash \/ Clear
  BY <1>3, <1>10 DEF StreamFails, Crash, Clear
<1>11. CASE ReconcileFails
  <2>1. /\ UNCHANGED <<spine, era, cache>> /\ pc' = "open"
        /\ pc = "rewarm" \/ pc = "insert" \/ (pc = "stored" /\ Announcing)
    BY <1>11 DEF ReconcileFails, Abandon, AfterException, Announcing
  <2>2. Present' = Present /\ Latest' = Latest
    BY <2>1 DEF Present, Latest
  <2>3. \A i \in Present \cap Latest : cache[spine[i].order] = spine[i].after
    BY <2>1 DEF LinkOK, AnnounceOK, SpineOK, Present
  <2> QED
    BY <2>1, <2>2, <2>3 DEF LinkOK
<1>12. CASE Stop
  BY <1>12 DEF Stop, LinkOK
<1>13. CASE Warmed \/ Rewarmed \/ Reconciled \/ Open \/ AnnounceGone \/ AppendRaises
  BY <1>1, <1>13 DEF Warmed, Rewarmed, Reconciled, Open, AnnounceGone, Abandon,
                     AfterException, AppendRaises
<1>14. CASE Fetch \/ Reset
  BY <1>2, <1>14 DEF Fetch, Reset
<1>15. ASSUME NEW o \in Orders, NEW d \in Docs \cup {NoDoc}, Write(o, d) PROVE LinkOK'
  BY <1>2, <1>15 DEF Write
<1>16. CASE UNCHANGED vars
  BY <1>2, <1>16 DEF vars
<1> QED
  BY <1>5, <1>6, <1>7, <1>8, <1>9, <1>10, <1>11, <1>12, <1>13, <1>14, <1>15, <1>16
     DEF Next, Watch

(* Every step keeps the chains of before-images.                           *)
LEMMA ChainStep ==
    ASSUME Types, LinkOK, BeforeChain, [Next]_vars
    PROVE  BeforeChain'
<1>1. CASE UNCHANGED spine
  BY <1>1 DEF BeforeChain
<1>2. CASE Store
  <2>1. /\ pc = "insert" /\ Len(spine) \in Nat
        /\ DOMAIN spine = 1 .. Len(spine) /\ DOMAIN spine' = 1 .. Len(spine) + 1
        /\ \A i \in DOMAIN spine : i \in DOMAIN spine' /\ spine'[i] = spine[i]
        /\ spine'[Len(spine) + 1] = event
    BY <1>2, StoreTypes
  <2> SUFFICES ASSUME NEW i \in DOMAIN spine', NEW j \in DOMAIN spine', i < j,
                      spine'[i].order = spine'[j].order, spine'[i].era = spine'[j].era,
                      \A k \in i + 1 .. j - 1 : spine'[k].order # spine'[i].order
               PROVE  spine'[j].before = spine'[i].after
    BY DEF BeforeChain
  <2>2. i \in DOMAIN spine /\ i \in Nat /\ spine'[i] = spine[i]
    BY <2>1
  <2>3. \A k \in DOMAIN spine : k \in i + 1 .. j - 1 => spine[k].order # spine[i].order
    BY <2>1, <2>2
  <2>4. CASE j \in DOMAIN spine
    <3>1. \A k \in i + 1 .. j - 1 : k \in DOMAIN spine
      BY <2>1, <2>2, <2>4
    <3> QED
      BY <2>1, <2>2, <2>3, <2>4, <3>1 DEF BeforeChain
  <2>5. CASE j = Len(spine) + 1
    <3>1. \A k \in DOMAIN spine : i < k => k \in i + 1 .. j - 1
      BY <2>1, <2>2, <2>5
    <3>2. i \in Latest
      BY <2>2, <2>3, <3>1 DEF Latest
    <3> QED
      BY <2>1, <2>2, <2>5, <3>2 DEF LinkOK
  <2> QED
    BY <2>1, <2>4, <2>5
<1> QED
  BY <1>1, <1>2 DEF Next, Watch, vars, outVars, Write, WarmRead, Announce, Warmed, Rewarmed,
         Reconciled, Open, Fetch, Take, Resume, AnnounceGone, StreamFails,
         AppendRaises, ReconcileFails, Abandon, Crash, Reset, Clear, Stop

-----------------------------------------------------------------------------
(* The theorems.                                                           *)

Inv == /\ Types /\ Places /\ LogOK /\ FetchedOK /\ CacheOK
       /\ SpineOK /\ AnnounceOK /\ InsertOK /\ LinkOK /\ BeforeChain
       /\ OutboxOK /\ OneUnsentPerFailure
       /\ ViewOK /\ ToldOK

(* The invariant holds at the start ...                                    *)
LEMMA InitInv == Init => Inv
<1> SUFFICES ASSUME Init PROVE Inv
  OBVIOUS
<1>1. CacheOK /\ OutboxOK /\ ToldOK /\ FetchedOK
  <2>1. pc = "warm" /\ DOMAIN batch = {}
    BY DEF Init
  <2> QED
    BY <2>1 DEF CacheOK, OutboxOK, ToldOK, FetchedOK, Streaming, Announcing, Appending
<1>2. OneUnsentPerFailure
  <2>1. DOMAIN spine \ sent = {} /\ failed = 0 /\ pc = "warm"
    BY DEF Init
  <2> QED
    BY <2>1, FS_EmptySet DEF OneUnsentPerFailure
<1> QED
  BY <1>1, <1>2, InitTypes, InitPlaces, InitLog, InitChain, InitView DEF Inv

(* ... every step keeps it ...                                             *)
LEMMA InvStep == Inv /\ [Next]_vars => Inv'
BY TypeStep, PlacesStep, LogStep, FetchedStep, CacheStep, SpineStep, AnnounceStep,
   InsertStep, LinkStep, ChainStep, OutboxStep, ViewStep, ToldStep DEF Inv

(* ... and so it always holds.                                             *)
LEMMA Always == Spec => []Inv
BY InitInv, InvStep, PTL DEF Spec

(* Whatever fails, a fetched change is one the stream has reached and the  *)
(* token has not, and no position points past the log.                     *)
THEOREM PlacesHold == Spec => []TypeOK
<1>1. Inv => TypeOK
  <2> SUFFICES ASSUME Inv PROVE TypeOK
    OBVIOUS
  <2>1. token \in 0 .. Len(oplog) /\ pos \in 0 .. Len(oplog)
    BY LogTypes DEF Inv, Types, Places
  <2>2. \A i \in DOMAIN batch : batch[i].at \in token + 1 .. pos
    BY InLog DEF Inv
  <2> QED
    BY <2>1, <2>2 DEF Inv, Types, TypeOK, Documents
<1> QED
  BY <1>1, Always, PTL

(* The before-images of the spine form a chain for every order, through    *)
(* redelivery, failed appends, reconciliations, crashes and resets.        *)
THEOREM ChainHolds == Spec => []BeforeChain
<1>1. Inv => BeforeChain
  BY DEF Inv
<1> QED
  BY <1>1, Always, PTL

(* A watcher that has caught up is done with every change of the log.      *)
LEMMA NoneLater == ASSUME Inv, CaughtUp, NEW o PROVE ~Later(oplog, o, reached) /\ reached = Len(oplog)
<1>1. Len(batch) = 0 /\ reached \in Nat
  BY DEF CaughtUp, Inv, Types
<1>2. reached = Len(oplog)
  BY <1>1 DEF CaughtUp, Inv, Places
<1> QED
  BY <1>2, LogTypes DEF Inv, Later

(* Once caught up, the cache is right about every order that changed since *)
(* the stream began.                                                       *)
THEOREM CacheHolds == Spec => []CacheCatchesUp
<1>1. Inv => CacheCatchesUp
  <2> SUFFICES ASSUME Inv, CaughtUp, NEW o \in Orders,
                      \E i \in start + 1 .. Len(oplog) : oplog[i].order = o
               PROVE  cache[o] = orders[o]
    BY DEF CacheCatchesUp
  <2>1. ~Later(oplog, o, reached) /\ reached = Len(oplog)
    BY NoneLater
  <2> QED
    BY <2>1 DEF Inv, CacheOK, Streaming, CaughtUp
<1> QED
  BY <1>1, Always, PTL

(* Each failure costs at most the one event stored and not handed on.      *)
THEOREM OutboxHolds == Spec => []OneUnsentPerFailure
<1>1. Inv => OneUnsentPerFailure
  BY DEF Inv
<1> QED
  BY <1>1, Always, PTL

(* A client is wrong only about orders with a change that no stream has    *)
(* shown and of which it was told nothing since.                           *)
THEOREM DriftHolds == Spec => []DriftIsMissed
<1>1. Inv => DriftIsMissed
  <2> SUFFICES ASSUME Inv, CaughtUp, NEW o \in Orders \ missed
               PROVE  view[o] = orders[o]
    BY DEF DriftIsMissed
  <2>1. ~Later(oplog, o, reached)
    BY NoneLater
  <2> QED
    BY <2>1 DEF Inv, ViewOK, Streaming, CaughtUp
<1> QED
  BY <1>1, Always, PTL

(* A reconciliation that ends has told a listening client of every order   *)
(* the cache gained, as the cache has it.                                  *)
THEOREM TellingHolds == Spec => ReconciliationTells
<1> DEFINE Tells == pc = "announce" /\ todo = {} /\ pc' = "open" /\ view # Unknown
                      => \A o \in Orders : cache[o] # NoDoc /\ old[o] = NoDoc
                                             => view[o] = cache[o]
<1>1. Inv => Tells
  BY DEF Inv, ToldOK, Announcing
<1>2. Inv /\ [Next]_vars => [Tells]_vars
  BY <1>1
<1> QED
  BY <1>2, Always, PTL DEF Spec, ReconciliationTells

=============================================================================
