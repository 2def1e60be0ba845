--------------------------- MODULE CohesionBuffer ---------------------------
(***************************************************************************)
(* app/cohesion.py: the buffer between the event spine and the broker.     *)
(* Urgent events pass straight through; the others wait under their order  *)
(* until the timer of the first of them fires, and are merged meanwhile.   *)
(* add, the end of _flush_after and flush_all reach no await that can      *)
(* suspend (their lock is free whenever the loop runs them, and emitting   *)
(* is Broker.broadcast), so each is one step.                              *)
(*                                                                         *)
(* What is added comes from the watcher, whose before images come from a   *)
(* cache: it may lack an order, or hold another document than the change   *)
(* began with, after a reset, a reconciliation or a gap in the stream.     *)
(* Here the cache only loses or regains orders one by one; ChangeWatcher   *)
(* says when it does.                                                      *)
(***************************************************************************)
EXTENDS OrderDiff, Naturals, Sequences, SequencesExt, FiniteSets

CONSTANTS Orders,      \* order ids
          OrderDocs,   \* the documents an order can be
          Buffered,    \* the intents whose window is longer than 0
          MaxEvents,   \* bound on the changes (model only)
          MaxLapses    \* bound on the lapses of the cache (model only)

ASSUME CohesionAssumption == /\ OrderDocs \subseteq Docs
                             /\ Buffered \subseteq Intents
                             /\ MaxEvents \in Nat /\ MaxLapses \in Nat

NoPending == [count |-> 0]

VARIABLES docs,      \* the orders, at the watcher's place in the change stream
          gone,      \* those deleted by then: no id is used again
          cache,     \* the watcher's _cache
          lapses,    \* how often it lost, regained or missed something
          events,    \* the events the watcher appended and then added
          pending,   \* _pending: [initial, latest, count] or NoPending
          timers,    \* _flush_after tasks that still sleep, per order
          emitted,   \* what was passed to emit, per order
          running    \* the application is not shutting down

orderVars == <<docs, gone, cache, lapses>>
vars == <<orderVars, events, pending, timers, emitted, running>>

Init == /\ docs \in [Orders -> OrderDocs \cup {NoDoc}]
        /\ gone = {}
        /\ cache = docs /\ lapses = 0
        /\ events = <<>>
        /\ pending = [o \in Orders |-> NoPending]
        /\ timers = [o \in Orders |-> 0]
        /\ emitted = [o \in Orders |-> <<>>]
        /\ running = TRUE

-----------------------------------------------------------------------------
Urgent(e) == Priority(e.intent) = "urgent"

\* mutant: a cancellation or deletion is buffered like a status change
PassesUnlessBuffered(e) == e.intent \notin Buffered \cup {"cancellation", "deletion"}
\* mutant: only normal priority is worth a window
PassesLow(e) == e.intent \notin Buffered \/ Priority(e.intent) # "normal"
(* window <= 0 or event.priority == Priority.URGENT *)
Passes(e) == e.intent \notin Buffered \/ Urgent(e)

Emit(o, e) == emitted' = [emitted EXCEPT ![o] = Append(@, e)]

\* mutant: the first event stays the latest
CoalescedFirst(p, e) ==
    [p.initial EXCEPT !.diff = MergeDiffs(@, e.diff), !.count = p.count + 1]
\* mutant: the before image is the last event's own
CoalescedOwnBefore(p, e) ==
    [e EXCEPT !.diff = MergeDiffs(p.initial.diff, @), !.count = p.count + 1]
\* mutant: coalesced_count is not set
CoalescedUncounted(p, e) ==
    [e EXCEPT !.diff = MergeDiffs(p.initial.diff, @), !.before = p.initial.before]
(* The event that waits once e was coalesced into the entry p.             *)
Coalesced(p, e) ==
    [e EXCEPT !.diff = MergeDiffs(p.initial.diff, @), !.before = p.initial.before,
              !.count = p.count + 1]

(* add *)
Add(o, e) ==
    \/ /\ Passes(e)
       /\ Emit(o, e)
       /\ UNCHANGED <<pending, timers>>
    \/ /\ ~Passes(e) /\ pending[o] = NoPending
       /\ pending' = [pending EXCEPT
                        ![o] = [initial |-> e, latest |-> e, count |-> 1]]
       /\ timers' = [timers EXCEPT ![o] = @ + 1]
       /\ UNCHANGED emitted
    \/ /\ ~Passes(e) /\ pending[o] # NoPending
       /\ pending' = [pending EXCEPT
                        ![o] = [initial |-> @.initial, latest |-> Coalesced(@, e),
                                count |-> @.count + 1]]
       /\ UNCHANGED <<timers, emitted>>

(* The watcher appends an event and hands it to add.  Events are numbered  *)
(* as they are appended: by their seq, until a reset starts that again.    *)
Hand(o, op, before, after) ==
    LET diff == ComputeDiff(before, after)
        e == [seq |-> Len(events) + 1, order |-> o, diff |-> diff,
              intent |-> Classify(op, before, after, diff),
              before |-> before, after |-> after, count |-> 1]
    IN /\ Len(events) < MaxEvents
       /\ events' = Append(events, e)
       /\ Add(o, e)

(* Order o is written, or deleted. *)
Becomes(o, d) ==
    /\ docs[o] = NoDoc => d # NoDoc /\ o \notin gone
    /\ docs' = [docs EXCEPT ![o] = d]
    /\ gone' = IF d = NoDoc THEN gone \cup {o} ELSE gone

(* _process: the stream shows that order o has become d.  The before image *)
(* of an update or a deletion is what the cache has, perhaps nothing; an   *)
(* update that shows no difference makes no event.                         *)
Change(o, d) ==
    LET op == CASE docs[o] = NoDoc -> "insert"
                [] d = NoDoc -> "delete"
                [] OTHER -> "update"
        before == IF op = "insert" THEN NoDoc ELSE cache[o]
    IN /\ running
       /\ op = "update" => ComputeDiff(before, d) # {}
       /\ Becomes(o, d)
       /\ Hand(o, op, before, d)
       /\ cache' = [cache EXCEPT ![o] = d]
       /\ UNCHANGED <<lapses, running>>

Lapse == running /\ lapses < MaxLapses /\ lapses' = lapses + 1

(* A change that no stream shows: between warm_cache and watch(), while    *)
(* the stream was lost, or the one whose append failed.                    *)
Miss(o, d) == /\ Lapse
              /\ Becomes(o, d)
              /\ UNCHANGED <<cache, events, pending, timers, emitted, running>>

(* _cache.clear(), by a reset or a reconciliation; a reset may do it while *)
(* the watcher awaits the append of another order's event.                 *)
Forget(o) == /\ Lapse
             /\ cache' = [cache EXCEPT ![o] = NoDoc]
             /\ UNCHANGED <<docs, gone, events, pending, timers, emitted, running>>

(* warm_cache in a reconciliation reads order o, which the cache had       *)
(* before, or whose announcement is never made since something fails; ...  *)
Reread(o) == /\ Lapse
             /\ cache' = [cache EXCEPT ![o] = docs[o]]
             /\ UNCHANGED <<docs, gone, events, pending, timers, emitted, running>>

(* ... or which is new to it, and announced.                               *)
Announce(o) == /\ Lapse
               /\ cache[o] = NoDoc /\ docs[o] # NoDoc
               /\ cache' = [cache EXCEPT ![o] = docs[o]]
               /\ Hand(o, "insert", NoDoc, docs[o])
               /\ UNCHANGED <<docs, gone, running>>

\* mutant: the entry is emitted and stays
FlushKeeps(o) ==
    /\ running /\ timers[o] > 0
    /\ timers' = [timers EXCEPT ![o] = @ - 1]
    /\ IF pending[o] = NoPending THEN UNCHANGED emitted
       ELSE Emit(o, pending[o].latest)
    /\ UNCHANGED <<orderVars, events, pending, running>>
(* _flush_after wakes up. *)
Flush(o) ==
    /\ running /\ timers[o] > 0
    /\ timers' = [timers EXCEPT ![o] = @ - 1]
    /\ IF pending[o] = NoPending THEN UNCHANGED emitted
       ELSE Emit(o, pending[o].latest)
    /\ pending' = [pending EXCEPT ![o] = NoPending]
    /\ UNCHANGED <<orderVars, events, running>>

(* flush_all, on shutdown, once the watcher has stopped. *)
FlushAll ==
    /\ running
    /\ running' = FALSE
    /\ pending' = [o \in Orders |-> NoPending]
    /\ timers' = [o \in Orders |->
                    IF pending[o] = NoPending THEN timers[o] ELSE 0]
    /\ emitted' = [o \in Orders |->
                     IF pending[o] = NoPending THEN emitted[o]
                     ELSE Append(emitted[o], pending[o].latest)]
    /\ UNCHANGED <<orderVars, events>>

(* What the watcher does about order o, and what happens to its cache. *)
Watch(o) == \/ \E d \in OrderDocs \cup {NoDoc} : Change(o, d) \/ Miss(o, d)
            \/ Forget(o) \/ Reread(o) \/ Announce(o)

Next == \/ \E o \in Orders : Watch(o) \/ Flush(o)
        \/ FlushAll

Spec == Init /\ [][Next]_vars

(* A sleep that is over is resumed: asyncio runs every ready task. *)
FairSpec == Spec /\ \A o \in Orders : WF_vars(Flush(o))

-----------------------------------------------------------------------------
EventsOf(o) == {n \in DOMAIN events : events[n].order = o}

(* What the events emitted for o say they stand for, one by one.           *)
Tally(o) == UNION {{i} \X (1 .. emitted[o][i].count) : i \in DOMAIN emitted[o]}

(* Type correctness; an order has a sleeping timer exactly while it has an *)
(* entry, so that no entry is left behind and no timer cuts a window short.*)
TypeOK ==
    /\ docs \in [Orders -> Docs \cup {NoDoc}]
    /\ cache \in [Orders -> Docs \cup {NoDoc}]
    /\ running \in BOOLEAN
    /\ \A o \in Orders :
         /\ timers[o] = IF pending[o] = NoPending THEN 0 ELSE 1
         /\ pending[o] # NoPending =>
              /\ pending[o].latest.count = pending[o].count
              /\ ~Urgent(pending[o].latest)

(* Nothing is lost and nothing is emitted twice: the coalesced_count of    *)
(* what went out and of what still waits add up to the order's events.     *)
CountsAddUp ==
    \A o \in Orders :
        Cardinality(EventsOf(o)) = pending[o].count + Cardinality(Tally(o))

(* Out of seq order within an order, only an urgent event comes early.     *)
OnlyUrgentOvertakes ==
    \A o \in Orders : \A i, j \in DOMAIN emitted[o] :
        i < j /\ emitted[o][i].seq > emitted[o][j].seq => Urgent(emitted[o][i])

(* No event of o that passes came after one that waits. *)
Undisturbed(o) ==
    \A i, j \in DOMAIN events :
        i < j /\ events[i].order = o /\ events[j].order = o =>
            (Passes(events[j]) => Passes(events[i]))

(* The spine itself has a seam between two events of o that follow one     *)
(* another: the second does not start from the document the first ended    *)
(* in, as the cache was cleared or read again, or a change was missed.     *)
Seam(o, n, m) == /\ n \in EventsOf(o) /\ m \in EventsOf(o) /\ n < m
                 /\ \A k \in EventsOf(o) : k <= n \/ m <= k
                 /\ events[m].before # events[n].after

(* While no event of an order passes those that wait, the buffer adds no   *)
(* seam of its own: each event that is emitted starts from the document    *)
(* the one before ended in, unless the spine has a seam right there.       *)
Seamless ==
    \A o \in Orders : Undisturbed(o) =>
        \A i \in DOMAIN emitted[o] : i > 1 =>
            \/ emitted[o][i].before = emitted[o][i-1].after
            \/ \E m \in EventsOf(o) : Seam(o, emitted[o][i-1].seq, m)

(* Apart from entries that change nothing, an event has the diff of its    *)
(* two images.                                                             *)
Exact(e) == Changes(e.diff) = Changes(ComputeDiff(e.before, e.after))

(* ... and an event of two coalesced updates tells the difference of its   *)
(* two images, unless the spine has a seam between the two updates.        *)
PairsExact ==
    \A o \in Orders : Undisturbed(o) =>
        \A i \in DOMAIN emitted[o] :
            LET e == emitted[o][i]
            IN \/ e.count > 2 \/ Exact(e)
               \/ e.count = 2 /\ \E n \in EventsOf(o) : Seam(o, n, e.seq)

(* An event that waits goes out. *)
Drains == \A o \in Orders :
             pending[o] # NoPending ~> pending[o] = NoPending

(* merge_diffs' docstring (app/diff.py): the effective diff of N coalesced *)
(* updates is from the initial before to the latest after.  It is asked    *)
(* only of orders whose updates form a chain that nothing passed.          *)
DiffMatchesImages ==
    \A o \in Orders :
        Undisturbed(o) /\ (\A n, m \in EventsOf(o) : ~Seam(o, n, m)) =>
            \A i \in DOMAIN emitted[o] : Exact(emitted[o][i])
=============================================================================
