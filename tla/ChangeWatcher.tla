---------------------------- MODULE ChangeWatcher ----------------------------
(***************************************************************************)
(* app/watcher.py: one coroutine that follows the change stream of orders, *)
(* resolves each change against its cache, appends the event to the spine  *)
(* and hands it on.  Orders are written by others (routes/orders.py) all   *)
(* the while; the stream, the inserts and the process may fail.            *)
(*                                                                         *)
(* The spine is the list it implements (AuditLog): an append stores the    *)
(* event, or raises.  view is what a client has that took its snapshot     *)
(* when the stream was first open and applies whatever is handed on.       *)
(***************************************************************************)
EXTENDS Naturals, Sequences, FiniteSets, SequencesExt

CONSTANTS Orders,     \* order ids
          Docs,       \* the documents an order can be, updated_at aside
          NoDoc,      \* the order does not exist
          Faults,     \* what may fail, see below
          BatchSize,  \* changes the driver fetches ahead
          MaxWrites,  \* bound on the writes to orders (model only)
          MaxFaults   \* bound on the failures (model only)

(* "stream": the change stream raises PyMongoError.                        *)
(* "driver": an await of append or of a warm-up raises PyMongoError.       *)
(* "raises": append raises something else (RuntimeError after 5 attempts). *)
(* "crash":  the process dies and is started again.                        *)
(* "reset":  /admin/reset is called.                                       *)
FaultKinds == {"stream", "driver", "raises", "crash", "reset"}

ASSUME WatcherAssumption == /\ NoDoc \notin Docs
                            /\ IsFiniteSet(Orders)
                            /\ Faults \subseteq FaultKinds
                            /\ BatchSize \in Nat \ {0}
                            /\ MaxWrites \in Nat /\ MaxFaults \in Nat

VARIABLES orders,  \* the orders collection
          oplog,   \* the changes made to it: [op, order, doc]
          pc,      \* where the watcher is
          cache,   \* _cache
          old,     \* old_cache of the reconciliation in progress
          todo,    \* orders still to be read, or still to be announced
          token,   \* _resume_token as a position in oplog; 0 is None
          start,   \* where the open stream began, or the cache was cleared
          pos,     \* how far the driver has fetched
          batch,   \* the changes fetched and not yet taken
          event,   \* the event append is storing
          spine,   \* the events stored, in order
          sent,    \* the indices of those handed on
          view,    \* what a client makes of what is handed on (history)
          era,     \* how often the watcher lost its place, or its cache
          reached, \* the last change it was done with
          missed,  \* orders with a change no stream has shown, and of which
                   \* nothing was handed on since
                   \* (three histories)
          clearing, \* a reset has deleted the orders, its clear is to come
          failed   \* failures and resets so far

dbVars == <<orders, oplog, clearing>>
streamVars == <<start, pos, batch>>
outVars == <<spine, sent, view>>
histVars == <<era, reached, missed>>
vars == <<dbVars, pc, cache, old, todo, token, streamVars, event, outVars, histVars,
          failed>>

NoEvent == [order |-> NoDoc]
Nothing == [o \in Orders |-> NoDoc]
Unknown == <<>>
Existing == {o \in Orders : orders[o] # NoDoc}

Init == /\ orders \in [Orders -> Docs \cup {NoDoc}]
        /\ oplog = <<>>
        /\ pc = "warm" /\ todo = Orders
        /\ cache = Nothing /\ old = Nothing
        /\ token = 0 /\ start = 0 /\ pos = 0 /\ batch = <<>>
        /\ event = NoEvent
        /\ spine = <<>> /\ sent = {} /\ view = Unknown
        /\ era = 0 /\ reached = 0 /\ missed = {}
        /\ clearing = FALSE /\ failed = 0

-----------------------------------------------------------------------------
(* A write of order o, perhaps one that only moves updated_at.  A new      *)
(* order has a fresh id.                                                   *)
Write(o, d) ==
    /\ Len(oplog) < MaxWrites
    /\ d # NoDoc \/ orders[o] # NoDoc
    /\ orders[o] = NoDoc => \A i \in DOMAIN oplog : oplog[i].order # o
    /\ orders' = [orders EXCEPT ![o] = d]
    /\ oplog' = Append(oplog, [order |-> o, doc |-> d,
                               op |-> CASE orders[o] = NoDoc -> "insert"
                                        [] d = NoDoc -> "delete"
                                        [] OTHER -> "update"])
    /\ UNCHANGED <<clearing, pc, cache, old, todo, token, streamVars, event, outVars,
                   histVars, failed>>

-----------------------------------------------------------------------------
(* Warming the cache, on startup and in a reconciliation.                  *)

(* The cursor of warm_cache yields order o, or finds it gone.              *)
WarmRead(o) ==
    /\ pc \in {"warm", "rewarm"} /\ o \in todo
    /\ cache' = [cache EXCEPT ![o] = orders[o]]
    /\ todo' = todo \ {o}
    /\ UNCHANGED <<dbVars, pc, old, token, streamVars, event, outVars, histVars, failed>>

Warmed ==
    /\ pc = "warm" /\ todo = {}
    /\ pc' = "open"
    /\ UNCHANGED <<dbVars, cache, old, todo, token, streamVars, event, outVars, histVars,
                   failed>>

\* mutant: the ids that left the cache
LostIds == {o \in Orders : cache[o] = NoDoc /\ old[o] # NoDoc}
(* now_ids - old_ids *)
NewIds == {o \in Orders : cache[o] # NoDoc /\ old[o] = NoDoc}

Rewarmed ==
    /\ pc = "rewarm" /\ todo = {}
    /\ pc' = "announce"
    /\ todo' = NewIds
    /\ UNCHANGED <<dbVars, cache, old, token, streamVars, event, outVars, histVars, failed>>

(* The synthetic insert of a reconciliation.                               *)
Announce(o) ==
    /\ pc = "announce" /\ o \in todo /\ cache[o] # NoDoc
    /\ event' = [order |-> o, before |-> NoDoc, after |-> cache[o],
                 synthetic |-> TRUE, upTo |-> 0, era |-> era]
    /\ todo' = todo \ {o}
    /\ pc' = "insert"
    /\ UNCHANGED <<dbVars, cache, old, token, streamVars, outVars, histVars, failed>>

(* The reconciliation is over; the next loop opens a fresh stream. *)
Reconciled ==
    /\ pc = "announce" /\ todo = {}
    /\ pc' = "open"
    /\ token' = 0
    /\ UNCHANGED <<dbVars, cache, old, todo, streamVars, event, outVars, histVars, failed>>

-----------------------------------------------------------------------------
(* The stream.                                                             *)

\* mutant: the change of the token itself is delivered again
PositionInclusive == IF token = 0 THEN Len(oplog) ELSE token - 1
(* watch() begins after the token, or now. *)
Position == IF token = 0 THEN Len(oplog) ELSE token

Open == /\ pc = "open"
        /\ pc' = "consume"
        /\ pos' = Position
        /\ start' = IF token = 0 THEN Position ELSE start
        /\ batch' = <<>>
        /\ view' = IF view = Unknown THEN orders ELSE view
        /\ reached' = IF token = 0 THEN Position ELSE reached
        /\ missed' = IF view = Unknown THEN {o \in Orders : cache[o] # orders[o]}
                     ELSE missed \cup {oplog[i].order : i \in reached + 1 .. reached'}
        /\ UNCHANGED <<dbVars, cache, old, todo, token, event, spine, sent, era,
                       failed>>

(* The driver fetches a change; for an update the server looks up the      *)
(* document as it is now (updateLookup).                                   *)
Fetch ==
    /\ pc = "consume" /\ pos < Len(oplog) /\ Len(batch) < BatchSize
    /\ LET c == oplog[pos + 1]
       IN batch' = Append(batch,
                     [op |-> c.op, order |-> c.order, at |-> pos + 1,
                      doc |-> IF c.op = "update" THEN orders[c.order] ELSE c.doc])
    /\ pos' = pos + 1
    /\ UNCHANGED <<dbVars, pc, cache, old, todo, token, start, event, outVars, histVars,
                   failed>>

\* mutant: an update of an order the cache does not hold is passed over
IgnoredUnknown(c) == c.op = "update" /\ (NoDoc \in {c.doc, cache[c.order]}
                                           \/ c.doc = cache[c.order])
(* An update whose document is gone or shows no difference makes no event. *)
Ignored(c) == c.op = "update" /\ (c.doc = NoDoc \/ c.doc = cache[c.order])

(* _process up to the await of append. *)
Take ==
    /\ pc = "consume" /\ batch # <<>>
    /\ batch' = Tail(batch)
    /\ LET c == Head(batch)
       IN IF Ignored(c)
          THEN token' = c.at /\ reached' = c.at /\ UNCHANGED <<pc, event>>
          ELSE /\ pc' = "insert"
               /\ event' = [order |-> c.order, after |-> c.doc,
                            before |-> IF c.op = "insert" THEN NoDoc
                                       ELSE cache[c.order],
                            synthetic |-> FALSE, upTo |-> c.at, era |-> era]
               /\ UNCHANGED <<token, reached>>
    /\ UNCHANGED <<dbVars, cache, old, todo, start, pos, outVars, era, missed, failed>>

(* insert_one is answered. *)
Store == /\ pc = "insert"
         /\ spine' = Append(spine, event)
         /\ pc' = "stored"
         /\ UNCHANGED <<dbVars, cache, old, todo, token, streamVars, event, sent,
                        view, histVars, failed>>

\* mutant: _process does not touch the cache
NotCached(e) == cache
(* The cache after the append of e. *)
Cached(e) == IF e.synthetic THEN cache ELSE [cache EXCEPT ![e.order] = e.after]

\* mutant: the events of a reconciliation are not handed on
SentUnlessSynthetic == IF event.synthetic THEN sent ELSE sent \cup {Len(spine)}
(* on_event(event) *)
Sent == sent \cup {Len(spine)}

(* A client applies an event. *)
Applied(e) == IF view = Unknown THEN view
              ELSE [view EXCEPT ![e.order] = e.after]

(* append returns: the cache, on_event, and after a change the token.      *)
Resume ==
    /\ pc = "stored"
    /\ cache' = Cached(event)
    /\ sent' = Sent
    /\ view' = Applied(event)
    /\ token' = IF event.synthetic THEN token ELSE event.upTo
    /\ pc' = IF event.synthetic THEN "announce" ELSE "consume"
    /\ reached' = IF event.synthetic THEN reached ELSE event.upTo
    /\ missed' = missed \ {event.order}
    /\ event' = NoEvent
    /\ UNCHANGED <<dbVars, old, todo, streamVars, spine, era, failed>>

-----------------------------------------------------------------------------
(* Failures.                                                               *)

Fails(kind) == kind \in Faults /\ failed < MaxFaults /\ failed' = failed + 1

(* The stream, or the append of one of its changes, raises PyMongoError:   *)
(* _reconcile_or_reset sets the cache aside and empties it.  An insert     *)
(* that raised may have been stored.                                       *)
StreamFails ==
    /\ \/ pc \in {"open", "consume"} /\ Fails("stream")
       \/ pc \in {"insert", "stored"} /\ ~event.synthetic /\ Fails("driver")
    /\ old' = cache
    /\ cache' = Nothing
    /\ todo' = Orders
    /\ pc' = "rewarm"
    /\ era' = era + 1
    /\ batch' = <<>> /\ event' = NoEvent
    /\ UNCHANGED <<dbVars, token, start, pos, outVars, reached, missed>>

(* The append of a change raises something else: the stream is opened      *)
(* again where it was.                                                     *)
AppendRaises ==
    /\ pc = "insert" /\ ~event.synthetic /\ Fails("raises")
    /\ pc' = "open"
    /\ batch' = <<>> /\ event' = NoEvent
    /\ UNCHANGED <<dbVars, cache, old, todo, token, start, pos, outVars,
                   histVars>>

\* mutant: the exception ends the task
AfterExceptionDead == "dead"
(* Where the task goes on after an exception in its reconciliation. *)
AfterException == "open"

(* An exception inside the reconciliation ends it half done: ...           *)
Abandon == /\ pc' = AfterException
           /\ token' = 0
           /\ todo' = {} /\ event' = NoEvent
           /\ UNCHANGED <<dbVars, cache, old, streamVars, outVars, histVars>>

ReconcileFails ==
    /\ \/ pc = "rewarm" /\ Fails("driver")
       \/ pc \in {"insert", "stored"} /\ event.synthetic
            /\ (Fails("driver") \/ Fails("raises"))
    /\ Abandon

(* ... an order that a reset took from the cache is a KeyError.            *)
AnnounceGone ==
    /\ pc = "announce" /\ \E o \in todo : cache[o] = NoDoc
    /\ Abandon
    /\ UNCHANGED failed

(* The process dies and starts again. *)
Crash == /\ Fails("crash")
         /\ pc' = "warm" /\ todo' = Orders
         /\ cache' = Nothing /\ old' = Nothing
         /\ token' = 0 /\ start' = 0 /\ pos' = 0 /\ batch' = <<>>
         /\ event' = NoEvent /\ era' = era + 1 /\ clearing' = FALSE
         /\ UNCHANGED <<orders, oplog, outVars, reached, missed>>

(* The deletes that delete_many leaves in the oplog. *)
Deletions == [i \in 1 .. Cardinality(Existing) |->
                [op |-> "delete", doc |-> NoDoc, order |-> SetToSeq(Existing)[i]]]

(* POST /admin/reset: the orders are deleted, and later (the events and    *)
(* the tail of the spine lie between) the cache is cleared, whatever the   *)
(* watcher is doing.                                                       *)
Reset ==
    /\ pc \notin {"warm", "stopped"} /\ ~clearing /\ Fails("reset")
    /\ orders' = Nothing
    /\ oplog' = oplog \o Deletions
    /\ clearing' = TRUE
    /\ UNCHANGED <<pc, cache, old, todo, token, streamVars, event, outVars, histVars>>

Clear ==
    /\ clearing /\ clearing' = FALSE
    /\ cache' = Nothing
    /\ start' = IF start < token THEN token ELSE start
    /\ era' = era + 1
    /\ UNCHANGED <<orders, oplog, pc, old, todo, token, pos, batch, event, outVars,
                   reached, missed, failed>>

(* stop(), on shutdown: the task is cancelled at whatever it awaits.       *)
Stop ==
    /\ pc \notin {"warm", "stopped"}
    /\ pc' = "stopped"
    /\ UNCHANGED <<dbVars, cache, old, todo, token, streamVars, event, outVars, histVars,
                   failed>>

Watch == \/ \E o \in Orders : WarmRead(o) \/ Announce(o)
         \/ Warmed \/ Rewarmed \/ Reconciled \/ Open \/ Fetch \/ Take \/ Store
         \/ Resume \/ AnnounceGone

Next == \/ \E o \in Orders, d \in Docs \cup {NoDoc} : Write(o, d)
        \/ Watch
        \/ StreamFails \/ AppendRaises \/ ReconcileFails \/ Crash \/ Reset \/ Clear
        \/ Stop

Spec == Init /\ [][Next]_vars

(* The event loop runs the watcher whenever an answer is there for it.     *)
FairSpec == Spec /\ WF_vars(Watch)

-----------------------------------------------------------------------------
CaughtUp == pc = "consume" /\ batch = <<>> /\ pos = Len(oplog)

(* Type correctness; a fetched change is one the stream has reached and    *)
(* the token has not.                                                      *)
TypeOK ==
    /\ cache \in [Orders -> Docs \cup {NoDoc}]
    /\ todo \subseteq Orders
    /\ token \in 0 .. Len(oplog) /\ pos \in 0 .. Len(oplog)
    /\ \A i \in DOMAIN batch : batch[i].at \in token + 1 .. pos
    /\ sent \subseteq DOMAIN spine

(* Once the watcher has caught up, its cache is right about every order    *)
(* that changed since its stream began or a reset cleared the cache,       *)
(* whatever failed before.                                                 *)
CacheCatchesUp ==
    CaughtUp => \A o \in Orders :
        (\E i \in start + 1 .. Len(oplog) : oplog[i].order = o)
            => cache[o] = orders[o]

(* The before-images of the spine form a chain per order: as long as the   *)
(* watcher keeps its place, each event of an order starts from the         *)
(* document the order's last event ended in, redelivered changes included. *)
BeforeChain ==
    \A i, j \in DOMAIN spine :
        /\ i < j /\ spine[i].order = spine[j].order /\ spine[i].era = spine[j].era
        /\ \A k \in i + 1 .. j - 1 : spine[k].order # spine[i].order
        => spine[j].before = spine[i].after

(* The outbox: a failure or a shutdown cuts off at most the one event that *)
(* was stored and not yet handed on; every other event of the spine went   *)
(* downstream.                                                             *)
OneUnsentPerFailure ==
    Cardinality(DOMAIN spine \ sent)
        <= failed + (IF pc \in {"stored", "stopped"} THEN 1 ELSE 0)

(* When a reconciliation ends, whatever failed before it, a client that    *)
(* listens has every order the cache gained, as the cache has it.          *)
ReconciliationTells ==
    [][pc = "announce" /\ todo = {} /\ pc' = "open" /\ view # Unknown
         => \A o \in Orders : cache[o] # NoDoc /\ old[o] = NoDoc
                                => view[o] = cache[o]]_vars

(* Whatever fails, the watcher gets back to its stream and catches up.     *)
CatchesUp == <>(pc = "stopped") \/ []<>CaughtUp

(* What a failure can cost a client that listens: once the watcher has     *)
(* caught up, the client is wrong only about orders with a change that no  *)
(* stream has shown (it was made between the reading of the orders and the *)
(* stream, while the watcher had lost its place, or its append failed),    *)
(* and of which it was told nothing since.                                 *)
DriftIsMissed ==
    CaughtUp => \A o \in Orders \ missed : view[o] = orders[o]
=============================================================================
