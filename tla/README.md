# orderstream in TLA+

A verification development for orderstream (`src/`): a FastAPI service that
follows the change stream of a MongoDB `orders` collection, turns each change
into an event, appends it to a hash-chained log, coalesces events and fans them
out to SSE and WebSocket clients.

- [The system](#the-system)
- [Modules](#modules)
- [What the runs check](#what-the-runs-check)
- [Fairness](#fairness)
- [What is proved](#what-is-proved)
- [Where code and documents disagree](#where-code-and-documents-disagree)
- [What is not modelled](#what-is-not-modelled)
- [Plan](#plan)

## The system

One asyncio process. A coroutine runs undisturbed from one suspending `await`
to the next, so these awaits are where the models cut actions. Two processes
appear at a deploy overlap, or when a process dies with a request still on its
way to MongoDB.

```
 API, demo, simulator, seed
     |
 orders (MongoDB) --change stream--> ChangeWatcher --append--> EventSpine --> event_log
     ^                                   |                        ^              |
     | reset                         cohesion.add             replay_since   verify_chain
     |                                   v                        |              |
  /admin/reset                     CohesionBuffer            /events         /audit/verify
                                         | emit
                                         v
             kill switch, health --> SSEBroker --queues--> /stream, /ws --> clients
```

| component | state | operations | what makes it hard | what makes it correct |
|---|---|---|---|---|
| event spine, `event_spine.py`, `db.py` | `event_log`; `_last_seq`, `_last_hash` of every process | `bootstrap`, `append` (5 attempts), `_refresh_head`, `replay_since` | two processes with the same tail; inserts that fail, are stored and reported as failed, or arrive after their process died | one chain, no fork, no duplicate seq; what went downstream is stored |
| audit, `verify_chain` | a cursor | the walk | appends, late inserts and resets behind and in front of the cursor | no false alarm; a report covers what was stored when it began |
| diff and intent, `diff.py`, `intent.py` | none | `compute_diff`, `merge_diffs`, `classify` | fields that come and go, that change and change back | merged diffs are the diff of the two ends |
| cohesion buffer, `cohesion.py` | `_pending`, the sleeping timers | `add`, `_flush_after`, `flush_all` | urgent events overtake, windows that end at shutdown, a kind that is lost when events merge, before images the watcher's cache lacks | nothing lost, nothing sent twice, everything goes out |
| broker and connections, `broker.py`, `stream.py`, `ws.py`, `auth.py` | clients, their queues, drop counters and filters | `subscribe`, `broadcast`, `broadcast_system`, `unsubscribe`, the handler loops | slow clients, clients that leave at any point | bounded queues, order, counted losses, registrations freed |
| kill switch, `kill_switch.py`, `admin.py` | `engaged` | engage, release | events queued before, broadcasts after | nothing broadcast while engaged reaches a queue |
| change watcher, `watcher.py` | `_cache`, `_resume_token` | `warm_cache`, the stream loop, `_process`, `_reconcile_or_reset`, `stop` | `updateLookup` shows a later document; failures at every await; redelivery; a reset that clears the cache | right cache, chained before-images, a client wrong only where no stream showed the change, no permanent standstill |
| orders API, generators, `orders.py`, `demo.py`, `scripts/` | `orders`; a demo's deficit, the order it has picked | create, update, delete; the baseline, the loops | read, pick and write with other writers in between | complete baselines, orders that keep to their progression |
| health, `health.py`, the pill of `dashboard.html` | `watcher_alive`, the last event, the drops | `classify`, the periodic message, `/health` | status, events and notices share a bounded queue; polls race it | outages shown, a pill that settles |
| admin reset, `admin.py` | both collections, the spine's tail, the cache | `/admin/reset` | runs beside appends without their lock, beside a walk and under the watcher | a chain from seq 1 when nothing disturbs it; nothing unaccounted for |
| snapshot, replay, dashboard, `snapshot.py`, `events.py`, `dashboard.html` | a client's orders and cursor | load, tail, reconnect, pause | snapshot, stream and replay are three requests | no gap on reconnect |
| lifespan, `main.py` | - | startup and shutdown order | in-flight work at shutdown | buffers drained |
| replica set set-up, deployment | - | one-off scripts | - | - |

`PROJECT.json` lists the hazards with their lines, and for each the properties
that would catch it going wrong.

## Modules

| module | models | state and actions against the code |
|---|---|---|
| `AuditLog` | what the spine promises | a list that grows at its head, each entry naming the one before |
| `EventSpine` | `event_spine.py`, the unique index of `db.py` | per process `pc`, `lastSeq`, `lastHash`, and the document and number of the attempt in progress. `StartAppend` and `Retry` run up to the await of `insert_one` (`_last_seq` already moved); `Store`/`Refuse` are the server's answer; `Return` is what follows it; `Retry`/`GiveUp` follow the re-read of the tail. `Reject`, `LoseAck`, `Crash`, `LateInsert` are the failures, selected by `Faults` |
| `ChainAudit` | `verify_chain` | the spine and a cursor: `Begin`, `Read` (one document, or the first broken one), `Finish` |
| `AdminReset` | the spine's part of `/admin/reset` | composes the spine and the walk with one reset: `Delete` (the events), `ReadTail` and `SetTail` (`_refresh_head`, cut at its await), everything else `Beside` it. `deleted`, `torn` and `quiet` are history |
| `OrderDiff` | `diff.py`, `intent.py`, the priorities of `models.py` | operators; a document is a function from the fields it has, so an absent field and a field that holds `None` are different documents with the same `dict.get` |
| `DiffWalk` | the docstring of `merge_diffs` | a document updated again and again, diffs merged one by one |
| `CohesionBuffer` | `cohesion.py`, with the watcher as source and `emit` as sink | `pending`, `timers`, `emitted`; `docs` and `cache` are the orders at the watcher's place in the stream and what it has of them. `Change` is `_process` for one change up to the end of `add`: the operation is the stream's, the before image is the cache's and may be missing or another document. `Lapse`s say what may happen to that: `Miss` a change no stream shows, `Forget` the `_cache.clear()` of a reset or a reconciliation, `Reread` and `Announce` its `warm_cache` and synthetic inserts. They come order by order and at any moment; when they really come is `ChangeWatcher`'s matter. A `replace`, which nothing in the repository issues, is left out. `Flush` is a timer, `FlushAll` the shutdown. A timer may fire at any moment, which covers every window length |
| `SSEBroker` | `broker.py`, `stream.py`, `ws.py`, `auth.py`, the kill switch, the health message | `registered`, `queue`, `dropped`, `scope` are the broker's; `conn` is a handler's position, `peer` whether the other end is there. `/stream` notices a departure by `is_disconnected`, `/ws` only by sending, hence `Notice` and `SendFails` |
| `OrderStream` | the wiring of `main.py:74-81` | composes `CohesionBuffer` and an instance of `SSEBroker`: a step of the buffer that emits is a `Broadcast` in the same step (`Relay`); `Join` and `BrokerStep` are the broker's own. Several orders may share the queues; a shutdown at which entries of several orders still wait is left out, as its broadcasts would be one step |
| `HealthSignal` | `health.py`, `routes/health.py`, the notices of `admin.py`, the pill of `dashboard.html` | `alive`, `stream`, `dropping` are what `classify` looks at; one dashboard with its queue and strikes, its EventSource (`sse`), the poll under way and the classes of its pill. `Shown` is `applyHealth`; `Lost` and `Hello` are the uses of `setConnection` |
| `OrderTraffic` | `demo.py`, `scripts/simulator.py`, `scripts/seed.py`, `routes/orders.py`, the deletion of a reset | the status of every order; `Count`, `Seed`, `Seeded`, `SeedFails` are the baseline; `Pick` is an update or cancellation up to its `update_one`, `Send` that write, so that anything may happen in between |
| `ChangeWatcher` | `watcher.py` with the writers of `orders`, and the watcher's part of `/admin/reset` | `pc` names the await the coroutine is at. `Fetch` resolves the document of an update when the driver fetches it (`updateLookup`); `Take`, `Store`, `Resume` are `_process` before, at and after `append`; `StreamFails` enters `_reconcile_or_reset`, which is `WarmRead`, `Rewarmed`, `Announce`, `Reconciled`, or `ReconcileFails`/`AnnounceGone` on an exception. `Reset` deletes the orders, `Clear` empties the cache later. The spine is the list `AuditLog` promises; `view` is a client that listens from the start, `missed` the orders with a change no stream has shown (history) |
| `ClientTail` | `dashboard.html` with `/snapshot`, `/stream`, `/events`, over a pipeline without failures | the pipeline is `Take`, `Insert`, `Return`, `Flush` (one process, in order); the client is `ReadHead`, `ReadOrder`, `Loaded` (the snapshot request), `Connect`, `Receive`, `Disconnect`, `Replay`. A version number stands for a document. `Logged` is the watcher's cache; a pause may fall on any event. `behind` and `unbroken` are history: which orders had an event behind the cursor when the connection broke, and whether one has broken yet |
| `MCChainAudit`, `MCAdminReset`, `MCCohesionBuffer`, `MCSSEBroker`, `MCOrderStream` | - | the values and symmetries TLC is given |
| `EventSpineProofs`, `OrderDiffProofs`, `OrderStreamProofs`, `SSEBrokerProofs`, `ChangeWatcherProofs`, `OrderTrafficProofs`, `ClientTailProofs`, `HealthSignalProofs` | - | the theorems |

Abstractions shared by all: a hash is injective in the event (its payload holds
a fresh `uuid4`), so an event's id stands for its hash; `updated_at`, reasons,
timestamps and formats are left out; a document is a value, or a function of
two or three fields where diffs matter. Definitions that begin with "mutant:"
in their comment are deliberate errors: substituting one for the definition
below it must break a property, which shows that the property is about the code.

## What the runs check

| run | what it shows | bounds |
|---|---|---|
| `spine_overlap` | two processes append, collide, run out of attempts, die and leave inserts behind; the chain stays intact, every insert builds on the newest event, the whole refines `AuditLog`, and a walk's head and count belong together | 4 events, 2 attempts an append |
| `spine_faults` | a reset beside two processes and a walk, with inserts that are rejected, whose answer is lost or that arrive late: what went downstream is stored or was deleted, a report of a break is right, a report of an intact chain covers what was there when it began, and a reset that nothing disturbs heals whatever it found | 3 events, 2 attempts, 1 reset |
| `spine_ack_lost` | see divergence 1 | 3 events, 5 attempts |
| `diff_walk` | merged diffs are the diff of the ends, and applying one gives the latest document | 3 fields, one of them ignored, absent or of 3 values; no bound on the updates |
| `cohesion_buffer` | counts add up, only urgent events overtake; the buffer adds no seam between the images of an order to those the spine has, and an event of two updates without a seam between them tells the difference of its images; everything that waits goes out | 5 events of an order, 3 documents (one with a field that holds `None`), 2 lapses of the cache |
| `cohesion_diff` | see divergence 2 | 4 events, 2 lapses |
| `order_stream` | from the buffer through the broker to a client with a filter, under the kill switch: an urgent event that concerns it reaches it as it is; any other reaches it, waits, or went out in a later event of its order that does not concern it; what arrives is in order, once, in scope and not suppressed; a loss is a strike | 3 events of an order, 2 documents, 1 lapse of the cache, 4 filters, queue of 2, 2 strikes |
| `broker_delivery` | a `/stream` and a `/ws` connection: bounded queues, strikes and nothing else unregister a live connection, only a `/ws` peer that left before its hello leaves a registration behind, every other handler frees its own | queue of 1, 2 strikes, 3 events |
| `watcher_failures` | any failure anywhere and resets: the cache is right once the watcher has caught up, before-images chain while it keeps its place, a failure cuts off at most one stored event, a client that listens is wrong only about orders with a change that no stream has shown, a completed reconciliation has told it of every order the cache gained, and the watcher gets back to its stream | 2 orders, 2 documents, 2 writes, 2 failures or resets |
| `health_signal` | while there is no connection the pill says so unless a poll has shown trouble since; a lasting outage is shown again and again, to an evicted client too; once health and connection are stable the pill settles on the health | queue of 2, 2 strikes, 2 uses of the kill switch; no bound on anything else |
| `order_traffic` | a completed baseline under which nothing was deleted is complete; an order leaves its progression only by a stale write, or by a simulator that cancels a shipped one | 3 orders, a demo, a simulator, a baseline of 2 |
| `client_tail` | a snapshot reflects all that its cursor counts; a connected client is current about every order that changed since it connected, once nothing is on its way; before the first break it lacks only what came between the cursor of its snapshot and its connection; a replay that is not cut makes up for a break, but for what was behind the cursor; every event reaches it | 2 orders, 3 writes, replays of 1 event, any number of disconnects |

Why the bounds are enough to be interesting. The spine needs two processes, a
collision and a third event that builds on the outcome; attempts are cut from
five to two so that running out of them happens, and every attempt is alike.
With a reset three events suffice: one to delete, one in flight across the
deletion, one that builds on what is left; a fourth multiplies the states by
thirty. A window merges at most two events before divergence 2, and five changes
contain every pattern of waiting, merging, overtaking and waiting again; three
are what it takes for a change to merge with a later one of another kind and
for a client to see neither. Queues of one or two and two strikes make full
queues, drops and evictions happen within three events; the code's 200 and 5 only
delay them. Two lapses let an order be forgotten and then read again, or missed and then
read, on either side of what waits in a window; a document whose field holds `None`
is what tells `compute_diff` without a before image from one with. The watcher's batch of two lets an update be resolved before the
change in front of it is processed; two failures let a reconciliation fail, or a
reset fall into one. A writer holds one order at a time, so a demo and a
simulator on two orders already take stale writes from each other, and the third
order keeps the insertions apart. The client's replays of one event are sometimes cut
off by their limit and sometimes not.

Deadlock is checked except where a model really stops: the buffer after
shutdown, the composition on it, the watcher after `stop()`, the traffic once every
order id is used up and nothing is left to delete. The spine, the audit, the
reset, the broker, the health signal and the client can always take a step
within the bounds (a process may crash and boot, health messages keep coming, a
connection may break).

## Fairness

- `CohesionBuffer!FairSpec`: weak fairness of each order's timer. asyncio
  resumes a task whose sleep is over; nothing cancels it but the shutdown.
- `SSEBroker!FairSpec`: weak fairness of the periodic health message (a loop
  that catches every exception, `health.py:58-83`) and of each handler's own
  steps. No fairness of clients leaving, of broadcasts or of the kill switch.
  `/ws` needs the health messages: it learns that its peer left only when it
  sends something.
- `HealthSignal!FairSpec`: weak fairness of the emitter, of the page's
  `setInterval` and its answers, of reconnecting and of handling what arrives. None
  of the watcher, of writes, drops, breaks or the kill switch. `OutageIsShown` and
  `PillSettles` are about what happens when the environment settles (`<>[]`).
- `ClientTail!FairSpec`: weak fairness of the pipeline, the timers and the
  client's change handler; none of writes, disconnects or reconnects.
- `ChangeWatcher!FairSpec`: weak fairness of the watcher's own steps: MongoDB
  answers or fails, and `_run_forever` catches what fails and goes on
  (`watcher.py:86-100`). None of writes or failures; failures are bounded by
  `MaxFaults`, as no protocol makes progress under endless failures.

`AdminReset`, `OrderStream` and `OrderTraffic` are checked for safety only.

## What is proved

TLAPS proves these for every value of the constants the named assumptions of the
modules allow: any processes, clients, orders, documents, filters and bounds, any
`Faults`, any number of steps. What stays with TLC is listed at the end. Each
theorem `Spec => []P` goes through an inductive invariant with one lemma per part
of it, one step per action.

**`EventSpineProofs`** (`EventSpine`, `ChainAudit`, `AdminReset`). `CrashOnly` means:
the unique index exists and an insert that fails does so because its process dies
(late inserts of dead processes included).

- `TypeCorrect`, `OutboxHolds`, `FreshIdsHold` under any `Faults`, with or without
  the index.
- `ChainInvHolds`, `ChainAlwaysIntact`, `Refinement`, `InsertsBuildOnLatest` under
  `CrashOnly`. `ChainIntact` is not inductive: it says nothing of what a process is
  about to insert. `ChainInv` adds that the log has no gap, that every event names
  the hash of the event one seq below, and that each process's tail copy, each
  insert in flight and each insert of a dead process builds on a *stored* seq and its
  hash. Then an insert that meets no conflict has a seq that is free, all below it
  are taken (no gaps), so it extends the log exactly at its end (`OnlyAtTheEnd`), and
  the new event links to the newest one; every other step leaves the log alone and
  keeps or re-reads the copy. Without `CrashOnly` the invariant is false: a rejected
  insert leaves `_last_seq` ahead (a gap), and a lost answer leaves `_last_hash`
  behind (divergence 1). The refinement maps the log to `AuditLog`'s entries and the
  hash of the newest event to its head; `Store` and `LateInsert` are its `Append`,
  everything else stutters.
- `CountIsRight` under `CrashOnly` (a late insert could fill a burned seq behind the
  cursor): the cursor stands on an event of the log, and what is stored later comes
  after it.
- `OutboxUnderResets`: what `append` returned is in the log or was deleted.
  Inductive with the same of the events that are stored and not yet returned.
- `ResetAlwaysHeals`, with the unique index: after a reset that nothing disturbed
  (`quiet`) the log is a gapless chain from genesis, whatever log and tails it found.
  `HealInv` holds from the deletion on: the log is a list and all tails are tails of
  it, except that the process that resets may still have its old one, but is idle
  until `SetTail`. It rests on `ChainStep`, the inductive step of `ChainInv` stated
  for the tails of *some* of the processes while the others stay idle.
- `AlarmIsRight`, with the unique index (the walk is modelled for a log that has no seq
  twice). Where the walk breaks off, the document
  read last is the direct predecessor of the one at hand, so the chain is broken
  *then* (`BreakIsReal`). And a broken chain stays broken (`BrokenStays`): storing
  an event could only mend it by being the predecessor some stored event names, but
  every name is settled: it belongs to no insert still in flight or yet to come
  (`NamesSettled`, which needs `FreshIds`).
- `ReportIsRight`, with the unique index and under any `Faults`. `Covered` says,
  until a reset tears the log: what the walk began with is still there, whatever one of
  those events names was there too (again because names are settled), and what the
  cursor has passed of it is in order and was counted. At the end nothing is ahead
  of the cursor (`FirstAhead`), so it has passed it all.

**`OrderDiffProofs`** (`OrderDiff`, `DiffWalk`), for any fields, values and
documents that exist: `MergeTwo` (merging the diffs of two consecutive updates gives
the diff of the ends), `MergeFresh` (the same where the first update has no before
image, but for entries that change nothing: `compute_diff` has one for each field
that holds `None`, and `merge_diffs` drops it), `MergeMany` (merging any number one
after the other gives the diff of the ends) and `PatchAlwaysReaches` (what was merged, applied to
the first document, gives the last).

**`OrderStreamProofs`**, the buffer by itself (`CohesionBuffer`). The invariant is a
conjunction per order: one timer exactly while something waits (`TimerOK`); what waits is made of updates and is the
latest of its order that did not pass (`WaitOK`, `SeqOK`); what went out or waits is an
event of the spine with its after image (`SourceOK`). The other two parts are about an
order no event of which passed a waiting one, and about *seams*: two events of the spine
that follow one another for the order, the second not starting where the first ended. The
watcher leaves them when its cache was cleared, read again or behind; the README of the
system says so of a restart (`src/README.md:320`). `ChainOK`: what goes out joins what went
out before, or the spine has a seam after that; what waits, or else what went out last, is
the newest event of the order, so that the next event joins it or is the other side of
a seam. `DiffOK`: a diff of one event, or of two without a seam between them, is
exact (by `MergeTwo` and `MergeFresh`). On top of it `CountOK`: the events of an order are as
many as what went out says it stands for and what waits counts. `TimersHold`,
`CountsHold`, `SeamlessHolds`, `PairsHold` need no assumption. `OvertakingHolds` assumes that every intent that is not urgent has a
window, which the default configuration gives it (`config.py`): with an empty window
such an event passes too, and may overtake.

**`OrderStreamProofs`**, the buffer with the broker behind it (`OrderStream`), for any
number of orders and clients. `StreamHasBuffer` and `StreamHasBroker`: the
composition implements both parts, so the theorems of the broker, instantiated as
`BP`, hold in it (`StreamInOrder`, `StreamLosses`). `UrgentHolds` and `AbsorbedHolds` say
what becomes of each *event*, through the buffer to the queue of a client. They rest on

- `PassedOK`: an event that does not wait has been broadcast as it is;
- `HeldOK`: every event of an order that waited has a broadcast that stands for it, or
  is among the last `count` ones before the entry that waits (so `coalesced_count`
  loses none and the entry will stand for all of them when it goes out);
- `NamesOK`: a broadcast shows a filter the intent and the customer of the event whose
  seq it has, so only a *later* event can hide an earlier one;
- `ReachOK`: a broadcast of an event after the subscription, of the client's scope, was
  suppressed, is with the client, or the client has a strike.

Assumed: the bounds are not zero, and the missing document is no customer name.

**`SSEBrokerProofs`**. `QueuesBounded`, `LeaksOnlyByHello`, `OrderHolds`,
`LossesHold`. The first two rest on `ConnOK`: a handler is registered from its
subscription to its last strike, and one that ended is not, but for a `/ws` whose
hello failed. For the order, what waits in a queue is published, in scope, was not
suppressed and is newer than what the client got, and the queue is in order. For the
losses, an event in scope that is neither got nor waiting was counted.

**`ChangeWatcherProofs`**. `PlacesHold`, `ChainHolds`, `CacheHolds`, `OutboxHolds`,
`DriftHolds`, `TellingHolds`: every safety and action property of the watcher, under
any failures and resets. `IsFiniteSet(Orders)` is all it assumes beyond the types (a
reset deletes every order at once). What makes them inductive:

- the oplog and the collection agree: the last entry of an order is the order
  (`LogOK`), so a fetched document is right or there is a later entry (`FetchedOK`), and
  therefore so is the cache about everything behind `reached` (`CacheOK`);
- what is inserted again after a deletion has an entry the watcher has still to
  reach (`InsertOK`), and the event being stored starts where the last event of its
  order ended (`LinkOK`); a reconciliation announces each order once (`AnnounceOK`);
- an event is stored and not yet handed on at one `pc` only (`OutboxOK`);
- a client is right about every order not in `missed`, or an entry of it is ahead of
  the watcher, in each phase of warm-up, streaming and reconciliation (`ViewOK`), and
  has been told of what the cache gained, or is about to be (`ToldOK`).

**`OrderTrafficProofs`**. `BaselineHolds`, `StrayingHolds`: a write under way and
not stale is one its writer could choose *now* (`FreshOK`); the orders there are and
those a baseline has still to insert are enough (`EnoughOK`).

**`ClientTailProofs`**. `LiveClientIsCurrent`, `SnapshotsCover`,
`ReplaysCatchUp`, for any number of writes, pauses and breaks:

- a snapshot under way has read, or has still to read, every order its `head_seq`
  counts an event of, the one in flight included, and one that is there has read
  them all (`ReadOK`);
- a connected client is owed what came since it connected and, as long as no
  connection has broken, what `head_seq` counts. The newest event of an order, if it is
  owed, is being returned by `append`, waits in the buffer, is the last of its order in
  the queue, or is what the client shows with nothing of that order behind it in the
  queue (`LiveOK`). What neither reason covers came between the snapshot and the connection;
- nobody has seen what `append` has not returned: the cursor, what waits and what is
  queued are below it (`SeqOK`). So when a connection breaks, what a client lacks
  is ahead of its cursor, unless it waits or is queued behind it, which makes the
  order one of `behind`; and what is stored later is ahead of it (`LostOK`). A replay
  that is not cut then ends with the newest event.

**`HealthSignalProofs`**. `LossHolds`. That the pill says "connecting" is not
inductive: a good poll takes back a bad status. While there is no connection and
no poll has shown trouble, the pill says nothing else, so there is nothing to take
back. `SettledPillStays` is the safety half of `PillSettles`: once the pill shows
the health, and the poll under way and every message queued say the same
(`Settled`), no step but a change of the health, a lost connection or a use of the
kill switch moves it. That it gets there is left to TLC.

Only model-checked: liveness (`Drains`, `GoneIsForgotten`, `CatchesUp`, `Shown`,
`OutageIsShown`, `PillSettles`), as fairness and `ENABLED` are out of the prover's
reach. Every safety and action property of a run that passes is a theorem.

## Where code and documents disagree

With a run that shows it:

1. `spine_ack_lost`: when an insert is stored and the driver still raises,
   `append` leaves with `_last_seq` advanced and `_last_hash` not. The next event
   takes the next seq with the hash of the event before the newest, a permanent
   break. The docstring of `_refresh_head` (`event_spine.py:133-135`) promises the
   opposite.
2. `cohesion_diff`: `add` merges each event with the first event's diff instead of the diff
   so far, so the middle one of three leaves the diff (`diff.py:44`).

Met while modelling and not given a run, because a property that holds says
what is left of the promise, or because the promise is about wording or time:

- Spine and reset. The fallback to a plain index (`db.py:46-49`) lets two
  processes store one seq, with nothing to recover from it. "The next event starts at
  seq=1" (`admin.py:73`) fails with an append in flight across the deletion or
  another process up, which keeps its copy of the tail (`quiet` in `ResetHeals` is
  what it takes). A reset re-seeds nothing (`admin.py:56-57`): the baseline is made
  once, at the start of the demo.
- Outbox. "On restart, the broker resumes from the last broadcast `seq` and replays
  anything in between" (`src/README.md:277`): nothing does. The broker keeps no such
  `seq`, and an event that was stored and whose `append` was cut off by a crash, a
  `stop()` or an error is not broadcast again (`OneUnsentPerFailure`: at most one for each
  failure).
- Watcher. Every `PyMongoError` drops the resume token, against
  `watcher.py:16-17`. Reconciliation announces new orders only, and reads them before
  the new stream is opened: updates and deletions of the outage reach no client,
  against `docs/failure_modes.md:29` (`DriftIsMissed` is what remains true). The
  watchdog of `watcher.py:21-22` does not exist.
- Buffer. An urgent event is emitted while an earlier event of its order waits,
  and that one goes out afterwards, against the causal ordering of
  `docs/failure_modes.md:84` (`OnlyUrgentOvertakes`). A status change merged with a
  later price correction goes out as a price correction, unseen by a client
  filtered to status changes (`AbsorbedByLater`).
- Broker. An evicted client is unregistered and its connection stays open,
  against `docs/failure_modes.md:51`. A client whose queue is full is not told of
  the kill switch (`kill_switch.py:6`). `Subscription.parse` turns a list with one
  unknown intent into no filter at all.
- Health. The periodic message goes on saying "nominal" while the kill switch is
  engaged, so the pill takes the notice back, and a client that connects meanwhile
  is never told. The status is emitted every few seconds, not when
  `watcher_alive` flips. A quiet market is "degraded" after 30 s; before the first
  event the lag is 0. The pill of an evicted dashboard goes on saying "live"; while a
  connection is being opened a bad poll followed by a good one turns it to "live", too.
- Traffic. The kill switch does not stop the demo (`demo.py:15-17`): it stops
  the fan-out. Two overlapping demos both fill the deficit they counted. The
  simulator cancels shipped orders, against its own `STATUS_PROGRESSION`, and a write picked
  before another writer finished the order takes it back (`StraysOnlyByStale`).
- Client. The dashboard asks for the events after the one it received last
  (`dashboard.html:612,631`). The buffer emits the events of different orders out of seq
  order, so one with a lower seq may still wait when the connection breaks: it is neither
  streamed nor replayed, against the "no gaps on reconnect" of `events.py:8-9`
  (`ReplayCatchesUp` is what remains true). The cursor may move back, too, so that a replay
  returns events received before, against "no duplicates". `/stream` is opened without
  a cursor (`dashboard.html:600-602`, both branches give the same URL), so what is
  broadcast after its order was read for the snapshot and before the stream is
  registered is lost, against `snapshot.py:11-15` (`LiveIsCurrent` is what remains
  true). What a paused dashboard drops no replay brings back, once the next event has
  moved its cursor past it (`excused`).

## What is not modelled

Hashing and canonical JSON (taken as injective); authentication; the wording
of messages; rendering in the dashboard; replica set initialisation and
deployment files, which keep no state of the running system. `/audit/order` and
the metrics beside the status are reads without effect. Of the traffic: the write
of a burst that only moves `updated_at`, the limits on the candidates, the fields
other than the status. `delete_many` is one step, and two `_refresh_head` of one
process do not cross. The window of drops never saturates (10000 entries, 60 s).
In
`HealthSignal` a poll is always answered and there is one at a time; a walk over a log
with a duplicate seq is left out. MongoDB is modelled by how the code uses it: a majority-written insert is there
for every later read, the change stream delivers in order, a document fetched
for an update may be newer. `cli_listener.py` prints what it receives.

## Plan

Built so far, in order of importance: the spine; the audit; the diffs; the buffer;
the broker; the watcher; the client; the reset; the stream from buffer to client;
the health signal; the traffic. Every safety and action property is proved.

Left: `ClientTail` with `since_seq`, and a reset of the log under a client's cursor
(`replay_since` returns the whole log when the cursor's event is gone).
