----------------------------- MODULE ClientTail -----------------------------
(***************************************************************************)
(* A dashboard (client/dashboard.html) and the three requests it lives on: *)
(* /snapshot (the cursor first, then the orders), /stream, and /events     *)
(* after a disconnect.  Behind them the pipeline of one process that runs  *)
(* without failures: the watcher takes a change, the spine stores it, the  *)
(* cohesion buffer holds it or lets it pass, the broker fans it out.  The  *)
(* client keeps up with its queue and has no filter; SSEBroker has those   *)
(* that do not.                                                            *)
(***************************************************************************)
EXTENDS Naturals, Sequences, FiniteSetsExt, Functions

CONSTANTS Orders,     \* order ids
          Limit,      \* events a replay returns at most: 2000
          MaxWrites   \* bound on the writes (model only)

ASSUME TailAssumption == /\ Limit \in Nat \ {0}
                         /\ MaxWrites \in Nat

VARIABLES version,  \* how often each order was written
          changes,  \* the change stream the watcher has not read
          step,     \* where append is: "idle", "insert" or "stored"
          taken,    \* the event it stores: [order, ver, urgent]
          log,      \* the events stored; an index is a seq
          waiting,  \* _pending of the cohesion buffer: the seq, 0 for none
          pc,       \* where the client is
          headSeq,  \* head_seq of its snapshot
          toRead,   \* orders /snapshot has still to read
          view,     \* state.orders: the version it shows, 0 for none
          cursor,   \* state.lastEventId as a seq, 0 for none
          queue,    \* what was broadcast to it and not yet received
          since,    \* the length of the log when it connected (history)
          behind,   \* orders with an event that is not ahead of the cursor and
                    \* had not arrived when the connection broke (history)
          unbroken, \* has no connection broken yet (history)
          excused   \* orders overtaken or missed in a pause (history)

pipeVars == <<version, changes, step, taken, log, waiting>>
clientVars == <<pc, headSeq, toRead, view, cursor, since, behind, unbroken>>
vars == <<pipeVars, clientVars, queue, excused>>

NoEvent == [ver |-> 0]

Init == /\ version = [o \in Orders |-> 1]
        /\ changes = <<>> /\ step = "idle" /\ taken = NoEvent /\ log = <<>>
        /\ waiting = [o \in Orders |-> 0]
        /\ pc = "boot" /\ headSeq = 0 /\ toRead = {}
        /\ view = [o \in Orders |-> 0]
        /\ cursor = 0 /\ queue = <<>>
        /\ since = 0 /\ behind = {} /\ unbroken = TRUE /\ excused = {}

-----------------------------------------------------------------------------
(* The pipeline.                                                           *)

SeqsOf(o) == {n \in DOMAIN log : log[n].order = o}

(* The version of the newest event of o; the one it had at the start when  *)
(* there is none.  It is what the watcher's cache holds.                   *)
Logged(o) == IF SeqsOf(o) = {} THEN 1 ELSE log[Max(SeqsOf(o))].ver

(* spine.last_seq: it counts an event as soon as its append has begun.     *)
LastSeq == Len(log) + (IF step = "insert" THEN 1 ELSE 0)

Write(o) ==
    /\ FoldFunction(+, 0, version) < Cardinality(Orders) + MaxWrites
    /\ version' = [version EXCEPT ![o] = @ + 1]
    /\ changes' = Append(changes, o)
    /\ UNCHANGED <<step, taken, log, waiting, clientVars, queue, excused>>

(* The watcher takes a change with the document as it is now; one that     *)
(* shows nothing new makes no event.                                       *)
Take(urgent) ==
    /\ step = "idle" /\ changes # <<>>
    /\ LET o == Head(changes)
       IN IF version[o] = Logged(o)
          THEN UNCHANGED <<step, taken>>
          ELSE /\ step' = "insert"
               /\ taken' = [order |-> o, ver |-> version[o], urgent |-> urgent]
    /\ changes' = Tail(changes)
    /\ UNCHANGED <<version, log, waiting, clientVars, queue, excused>>

Insert == /\ step = "insert"
          /\ log' = Append(log, taken)
          /\ step' = "stored"
          /\ UNCHANGED <<version, changes, taken, waiting, clientVars, queue,
                         excused>>

\* mutant: only an idle client is sent anything
EmitIfIdle(n) == IF pc = "live" /\ queue = <<>> THEN <<n>> ELSE queue
(* broadcast: the queue after event n was offered to it.                   *)
Emit(n) == IF pc = "live" THEN Append(queue, n) ELSE queue

\* mutant: the entry keeps its first event
KeepFirst(o, n) == IF waiting[o] = 0 THEN n ELSE waiting[o]
(* The entry of o is its newest event.                                     *)
Latest(o, n) == n

(* append returns, and cohesion.add passes the event on or holds it.       *)
Return ==
    /\ step = "stored"
    /\ step' = "idle" /\ taken' = NoEvent
    /\ LET o == taken.order  n == Len(log)
       IN \/ /\ taken.urgent
             /\ queue' = Emit(n)
             /\ excused' = IF waiting[o] = 0 THEN excused ELSE excused \cup {o}
             /\ UNCHANGED waiting
          \/ /\ ~taken.urgent
             /\ waiting' = [waiting EXCEPT ![o] = Latest(o, n)]
             /\ UNCHANGED <<queue, excused>>
    /\ UNCHANGED <<version, changes, log, clientVars>>

(* The timer of o fires. *)
Flush(o) == /\ waiting[o] # 0
            /\ queue' = Emit(waiting[o])
            /\ waiting' = [waiting EXCEPT ![o] = 0]
            /\ UNCHANGED <<version, changes, step, taken, log, clientVars, excused>>

-----------------------------------------------------------------------------
(* /snapshot.                                                              *)

\* mutant: the cursor is taken after the orders were read
WatermarkLate == LastSeq
(* head_seq as it was read before the orders.                              *)
Watermark == headSeq

ReadHead == /\ pc = "boot"
            /\ pc' = "reading"
            /\ headSeq' = LastSeq
            /\ toRead' = Orders
            /\ UNCHANGED <<pipeVars, view, cursor, queue, since, behind,
                           unbroken, excused>>

(* The cursor of find() yields order o.                                    *)
ReadOrder(o) == /\ pc = "reading" /\ o \in toRead
                /\ view' = [view EXCEPT ![o] = version[o]]
                /\ toRead' = toRead \ {o}
                /\ UNCHANGED <<pipeVars, pc, headSeq, cursor, queue,
                               since, behind, unbroken, excused>>

(* The response is there. *)
Loaded == /\ pc = "reading" /\ toRead = {}
          /\ pc' = "loaded"
          /\ headSeq' = Watermark
          /\ UNCHANGED <<pipeVars, toRead, view, cursor, queue, since,
                         behind, unbroken, excused>>

(* The request fails; the dashboard goes on with nothing.                  *)
SnapshotFails == /\ pc = "reading"
                 /\ pc' = "loaded"
                 /\ headSeq' = 0 /\ toRead' = {}
                 /\ view' = [o \in Orders |-> 0]
                 /\ UNCHANGED <<pipeVars, cursor, queue, since, behind,
                                unbroken, excused>>

-----------------------------------------------------------------------------
(* /stream and /events.                                                    *)

Connect == /\ pc \in {"loaded", "replayed"}
           /\ pc' = "live"
           /\ queue' = <<>>
           /\ since' = Len(log)
           /\ UNCHANGED <<pipeVars, headSeq, toRead, view, cursor, behind,
                          unbroken, excused>>

(* The change handler: while the user has paused it, which may be at any   *)
(* moment, an event is thrown away.                                        *)
Receive(paused) ==
    /\ pc = "live" /\ queue # <<>>
    /\ queue' = Tail(queue)
    /\ LET n == Head(queue)  o == log[n].order
       IN IF paused
          THEN /\ excused' = excused \cup {o}
               /\ UNCHANGED <<view, cursor>>
          ELSE /\ cursor' = n
               /\ view' = [view EXCEPT ![o] = log[n].ver]
               /\ UNCHANGED excused
    /\ UNCHANGED <<pipeVars, pc, headSeq, toRead, since, behind, unbroken>>

(* An event of o that has not arrived and is not ahead of the cursor. *)
FallsBehind(o) ==
    \/ waiting[o] \in 1 .. cursor
    \/ \E i \in DOMAIN queue : queue[i] <= cursor /\ log[queue[i]].order = o

(* onerror *)
Disconnect == /\ pc = "live"
              /\ pc' = "lost"
              /\ queue' = <<>>
              /\ behind' = {o \in Orders : FallsBehind(o)}
              /\ unbroken' = FALSE
              /\ UNCHANGED <<pipeVars, headSeq, toRead, view, cursor, since,
                             excused>>

\* mutant: the last event of a full page is left out
PageShort == {n \in DOMAIN log : n > cursor /\ n < cursor + Limit}
(* replay_since *)
Page == {n \in DOMAIN log : n > cursor /\ n <= cursor + Limit}

(* The events after lastEventId are fetched and applied; lastEventId stays *)
(* where it was.                                                           *)
Replay == /\ pc = "lost"
          /\ pc' = "replayed"
          /\ view' = IF cursor = 0 THEN view
                     ELSE [o \in Orders |->
                             LET s == SeqsOf(o) \cap Page
                             IN IF s = {} THEN view[o] ELSE log[Max(s)].ver]
          /\ UNCHANGED <<pipeVars, headSeq, toRead, cursor, queue,
                         since, behind, unbroken, excused>>

(* The request fails, and the dashboard connects all the same.             *)
ReplayFails == /\ pc = "lost"
               /\ pc' = "replayed"
               /\ UNCHANGED <<pipeVars, headSeq, toRead, view, cursor, queue,
                              since, behind, unbroken, excused>>

Pipeline == \/ \E urgent \in BOOLEAN : Take(urgent)
            \/ Insert \/ Return

Listen == \E paused \in BOOLEAN : Receive(paused)

Client == \/ ReadHead \/ Loaded \/ SnapshotFails \/ Connect \/ Listen
          \/ Disconnect \/ Replay \/ ReplayFails

Next == \/ \E o \in Orders : Write(o) \/ Flush(o) \/ ReadOrder(o)
        \/ Pipeline \/ Client

Spec == Init /\ [][Next]_vars

(* The process, its timers and the browser run what is ready; nobody is    *)
(* bound to write, pause or lose a connection.                             *)
FairSpec == /\ Spec
            /\ WF_vars(Pipeline) /\ WF_vars(Listen)
            /\ \A o \in Orders : WF_vars(Flush(o))

-----------------------------------------------------------------------------
(* snapshot.py: what head_seq counts is reflected in the orders returned   *)
(* with it, an event whose insert is still in flight included, so a client *)
(* that continues after head_seq misses nothing.                           *)
SnapshotCovers ==
    [][pc = "reading" /\ pc' = "loaded" /\ headSeq' # 0
         => /\ \A n \in DOMAIN log :
                 n <= headSeq' => view[log[n].order] >= log[n].ver
            /\ headSeq' > Len(log) => view[taken.order] >= taken.ver]_vars

(* A connected client for which nothing is on its way shows the newest     *)
(* version of every order that changed since it connected, however often   *)
(* it was disconnected before; and, if no connection has broken yet, that  *)
(* version or a later one of every order whose newest event the cursor of  *)
(* its snapshot counts.  What came in between may be missing.  So may what *)
(* an urgent event overtook, and what the client threw away in a pause.    *)
LiveIsCurrent ==
    pc = "live" /\ queue = <<>> /\ step = "idle"
      => \A o \in Orders \ excused :
           waiting[o] = 0 /\ SeqsOf(o) # {}
             => LET n == Max(SeqsOf(o))
                IN /\ n > since => view[o] = log[n].ver
                   /\ unbroken /\ n <= headSeq => view[o] >= log[n].ver

(* A replay that the limit does not cut makes up for a lost connection:    *)
(* every order that changed since the client had connected is shown as it  *)
(* is in the log, but for those with an event behind the cursor.           *)
ReplayCatchesUp ==
    [][Replay /\ cursor # 0 /\ Len(log) <= cursor + Limit
         => \A o \in Orders \ (excused \cup behind) :
              (\E n \in SeqsOf(o) : n > since) => view'[o] = Logged(o)]_vars

(* An event stored while a client listens reaches it in the end, or a      *)
(* newer one of its order does.                                            *)
Shown ==
    \A o \in Orders, v \in 2 .. MaxWrites + 1 :
        pc = "live" /\ step = "stored" /\ taken.order = o /\ taken.ver = v
          ~> view[o] >= v \/ pc # "live" \/ o \in excused
=============================================================================
