----------------------------- MODULE EventSpine -----------------------------
(***************************************************************************)
(* app/event_spine.py: the hash-chained log in the event_log collection    *)
(* and the processes that append to it.  Every process keeps its own copy  *)
(* of the chain tail (_last_seq, _last_hash); the unique index on seq and  *)
(* the re-read after a DuplicateKeyError are all that keeps the copies of  *)
(* two processes (a deploy overlap, a dying predecessor) from forking the  *)
(* chain.                                                                  *)
(*                                                                         *)
(* The payload of an event holds a fresh uuid4 (event_id), so SHA-256 of   *)
(* prev_hash and payload is taken to be injective in the event: an event's *)
(* hash is its id.  asyncio.Lock makes the appends of one process a single *)
(* sequence, so a process has at most one append in progress.              *)
(***************************************************************************)
EXTENDS Naturals

CONSTANTS Procs,        \* the processes that may write to one database
          UniqueSeq,    \* did ensure_indexes get its unique index on seq
          Faults,       \* what may go wrong with an insert, see below
          MaxAttempts,  \* attempts of one append: range(5) in the code
          MaxEvents     \* bound on the events ever built (model only)

(* "rejected": an await of append raises with nothing written.             *)
(* "ackLost":  the insert is stored, and its answer is an error.           *)
(* "late":     the insert of a process that died reaches the server later. *)
FaultKinds == {"rejected", "ackLost", "late"}

ASSUME SpineAssumption == /\ UniqueSeq \in BOOLEAN
                          /\ Faults \subseteq FaultKinds
                          /\ MaxAttempts \in Nat \ {0}
                          /\ MaxEvents \in Nat

Genesis == 0    \* audit_genesis_hash

EventId == Nat \ {0}
Event   == [id : EventId, seq : Nat \ {0}, prev : Nat]
NoEvent == [id |-> 0, seq |-> 0, prev |-> 0]

VARIABLES log,       \* the documents of event_log
          nextId,    \* the next fresh event id
          pc,        \* where each process is
          lastSeq,   \* _last_seq of each process
          lastHash,  \* _last_hash of each process
          doc,       \* storage_doc of the append in progress
          attempt,   \* its attempt number
          wire,      \* inserts of dead processes still on their way
          returned   \* the events append() returned: all that goes downstream

procVars == <<pc, lastSeq, lastHash, doc, attempt>>
vars == <<log, nextId, procVars, wire, returned>>

Init == /\ log = {}
        /\ nextId = 1
        /\ pc = [p \in Procs |-> "down"]
        /\ lastSeq = [p \in Procs |-> 0]
        /\ lastHash = [p \in Procs |-> Genesis]
        /\ doc = [p \in Procs |-> NoEvent]
        /\ attempt = [p \in Procs |-> 0]
        /\ wire = {}
        /\ returned = {}

-----------------------------------------------------------------------------
(* The database.                                                           *)

\* mutant: the unique index only ever compares event_id
ConflictOnIdOnly(d) == \E e \in log : e.id = d.id
(* insert_one raises DuplicateKeyError *)
Conflict(d) == UniqueSeq /\ \E e \in log : e.seq = d.seq

(* The documents find_one(sort=[("seq", -1)]) may return. *)
Newest == {e \in log : \A f \in log : f.seq <= e.seq}

(* What _refresh_head can find as the chain tail. *)
Heads == IF log = {} THEN {[seq |-> 0, hash |-> Genesis]}
         ELSE {[seq |-> e.seq, hash |-> e.id] : e \in Newest}

-----------------------------------------------------------------------------
(* One process.                                                            *)

SetHead(p, h) == /\ lastSeq' = [lastSeq EXCEPT ![p] = h.seq]
                 /\ lastHash' = [lastHash EXCEPT ![p] = h.hash]

(* bootstrap(): load the chain tail on startup. *)
Boot(p) == /\ pc[p] = "down"
           /\ \E h \in Heads : SetHead(p, h)
           /\ pc' = [pc EXCEPT ![p] = "idle"]
           /\ UNCHANGED <<log, nextId, doc, attempt, wire, returned>>

(* One turn of the retry loop up to the await of insert_one, with the tail *)
(* copy equal to h: _last_seq moves before anything is stored.             *)
Attempt(p, h, n) ==
    /\ nextId <= MaxEvents
    /\ nextId' = nextId + 1
    /\ doc' = [doc EXCEPT ![p] =
                 [id |-> nextId, seq |-> h.seq + 1, prev |-> h.hash]]
    /\ SetHead(p, [seq |-> h.seq + 1, hash |-> h.hash])
    /\ attempt' = [attempt EXCEPT ![p] = n]
    /\ pc' = [pc EXCEPT ![p] = "insert"]
    /\ UNCHANGED <<log, wire, returned>>

\* mutant: the attempts are counted from 0 and bounded by MaxAttempts, so
\* that there is one too many
StartAppendFromZero(p) ==
    /\ pc[p] = "idle"
    /\ Attempt(p, [seq |-> lastSeq[p], hash |-> lastHash[p]], 0)
(* append() takes the lock and enters its loop. *)
StartAppend(p) ==
    /\ pc[p] = "idle"
    /\ Attempt(p, [seq |-> lastSeq[p], hash |-> lastHash[p]], 1)

(* The server stores the document. *)
Store(p) == /\ pc[p] = "insert"
            /\ ~Conflict(doc[p])
            /\ log' = log \cup {doc[p]}
            /\ pc' = [pc EXCEPT ![p] = "stored"]
            /\ UNCHANGED <<nextId, lastSeq, lastHash, doc, attempt, wire,
                           returned>>

\* mutant: the except branch forgets its continue, and append returns
RefuseAndReturn(p) ==
    /\ pc[p] = "insert"
    /\ Conflict(doc[p])
    /\ pc' = [pc EXCEPT ![p] = "stored"]
    /\ UNCHANGED <<log, nextId, lastSeq, lastHash, doc, attempt, wire, returned>>
(* The server refuses it: DuplicateKeyError. *)
Refuse(p) == /\ pc[p] = "insert"
             /\ Conflict(doc[p])
             /\ pc' = [pc EXCEPT ![p] = "refresh"]
             /\ UNCHANGED <<log, nextId, lastSeq, lastHash, doc, attempt, wire,
                            returned>>

\* mutant: the retry does not call _refresh_head
RetryStale(p) ==
    /\ pc[p] = "refresh"
    /\ attempt[p] < MaxAttempts
    /\ Attempt(p, [seq |-> lastSeq[p], hash |-> lastHash[p]], attempt[p] + 1)
(* _refresh_head, continue. *)
Retry(p) == /\ pc[p] = "refresh"
            /\ attempt[p] < MaxAttempts
            /\ \E h \in Heads : Attempt(p, h, attempt[p] + 1)

(* The last attempt refreshes the tail too, then raises RuntimeError. *)
GiveUp(p) == /\ pc[p] = "refresh"
             /\ attempt[p] = MaxAttempts
             /\ \E h \in Heads : SetHead(p, h)
             /\ pc' = [pc EXCEPT ![p] = "idle"]
             /\ UNCHANGED <<log, nextId, doc, attempt, wire, returned>>

\* mutant: _last_hash keeps the predecessor's hash
ReturnStale(p) ==
    /\ pc[p] = "stored"
    /\ returned' = returned \cup {doc[p]}
    /\ pc' = [pc EXCEPT ![p] = "idle"]
    /\ UNCHANGED <<log, nextId, lastSeq, lastHash, doc, attempt, wire>>
(* append() resumes after its insert, advances the tail and returns. *)
Return(p) == /\ pc[p] = "stored"
             /\ lastHash' = [lastHash EXCEPT ![p] = doc[p].id]
             /\ returned' = returned \cup {doc[p]}
             /\ pc' = [pc EXCEPT ![p] = "idle"]
             /\ UNCHANGED <<log, nextId, lastSeq, doc, attempt, wire>>

(* An await of the append raises a driver error other than a duplicate key *)
(* and nothing was written; the exception leaves append with _last_seq     *)
(* already advanced.                                                       *)
Reject(p) == /\ "rejected" \in Faults
             /\ pc[p] \in {"insert", "refresh"}
             /\ pc' = [pc EXCEPT ![p] = "idle"]
             /\ UNCHANGED <<log, nextId, lastSeq, lastHash, doc, attempt, wire,
                            returned>>

(* The document is stored and the driver still reports an error. *)
LoseAck(p) == /\ "ackLost" \in Faults
              /\ pc[p] = "stored"
              /\ pc' = [pc EXCEPT ![p] = "idle"]
              /\ UNCHANGED <<log, nextId, lastSeq, lastHash, doc, attempt, wire,
                             returned>>

(* The process dies, and its copy of the tail with it. *)
Crash(p) ==
    /\ pc[p] # "down"
    /\ pc' = [pc EXCEPT ![p] = "down"]
    /\ SetHead(p, [seq |-> 0, hash |-> Genesis])
    /\ doc' = [doc EXCEPT ![p] = NoEvent]
    /\ attempt' = [attempt EXCEPT ![p] = 0]
    /\ wire' = IF pc[p] = "insert" /\ "late" \in Faults
               THEN wire \cup {doc[p]} ELSE wire
    /\ UNCHANGED <<log, nextId, returned>>

(* An insert of a dead process reaches the server. *)
LateInsert == \E d \in wire :
    /\ wire' = wire \ {d}
    /\ log' = IF Conflict(d) THEN log ELSE log \cup {d}
    /\ UNCHANGED <<nextId, procVars, returned>>

Proc(p) == \/ Boot(p)  \/ StartAppend(p) \/ Store(p)  \/ Refuse(p) \/ Retry(p)
           \/ GiveUp(p) \/ Return(p) \/ Reject(p) \/ LoseAck(p) \/ Crash(p)

Next == LateInsert \/ \E p \in Procs : Proc(p)

Spec == Init /\ [][Next]_vars

-----------------------------------------------------------------------------
(* Type correctness: a process never makes more attempts than range(5)     *)
(* allows, and what it has in flight is an event.                          *)
TypeOK ==
    /\ log \subseteq Event
    /\ nextId \in Nat \ {0}
    /\ pc \in [Procs -> {"down", "idle", "insert", "stored", "refresh"}]
    /\ lastSeq \in [Procs -> Nat]
    /\ lastHash \in [Procs -> Nat]
    /\ doc \in [Procs -> Event \cup {NoEvent}]
    /\ attempt \in [Procs -> 0 .. MaxAttempts]
    /\ \A p \in Procs : pc[p] \in {"insert", "stored", "refresh"} =>
                         doc[p] \in Event /\ attempt[p] # 0
    /\ wire \subseteq Event
    /\ returned \subseteq Event

(* d directly precedes e when the log is walked in seq order. *)
Precedes(d, e) == /\ d.seq < e.seq
                  /\ \A f \in log : f.seq <= d.seq \/ e.seq <= f.seq

(* No two events share a seq: what the unique index is there for.          *)
NoDuplicateSeq == \A d, e \in log : d.seq = e.seq => d = e

(* verify_chain would report the chain intact: walked by seq, the first    *)
(* event names the genesis hash and every other one the event before it.   *)
ChainIntact ==
    /\ NoDuplicateSeq
    /\ \A e \in log : \/ e.prev = Genesis /\ \A f \in log : e.seq <= f.seq
                      \/ \E d \in log : Precedes(d, e) /\ e.prev = d.id

(* The outbox: an event that went downstream is in the log, as it was sent *)
(* downstream, whatever conflicts, faults and crashes came before.         *)
OutboxDurable == returned \subseteq log

(* _refresh_head's promise: an event that is inserted builds on the true   *)
(* latest event, the one no other event of the log comes after.            *)
BuildsOnLatest ==
    [][\A e \in log' \ log : \/ log = {} /\ e.prev = Genesis
                             \/ \E d \in Newest : e.prev = d.id]_log

(* The inductive strengthening of ChainIntact while every insert either    *)
(* succeeds, is refused or dies with its process: a copy of the tail is    *)
(* the seq and hash of some event of a log without gaps, so an insert that *)
(* meets no conflict builds on the newest one.                             *)
HeadIn(s, h) == \/ s = 0 /\ h = Genesis
                \/ \E e \in log : e.seq = s /\ e.id = h
Gapless  == \A e \in log : \A k \in 1 .. e.seq : \E f \in log : f.seq = k
Linked   == \A e \in log : HeadIn(e.seq - 1, e.prev)
TailOK(p) == /\ pc[p] = "idle" => HeadIn(lastSeq[p], lastHash[p])
             /\ pc[p] = "insert" => HeadIn(doc[p].seq - 1, doc[p].prev)
             /\ pc[p] = "stored" => doc[p] \in log
             /\ pc[p] \in {"insert", "stored"} => lastSeq[p] = doc[p].seq
TailsOK  == \A p \in Procs : TailOK(p)
WireOK   == \A d \in wire : HeadIn(d.seq - 1, d.prev)
ChainInv == NoDuplicateSeq /\ Gapless /\ Linked /\ TailsOK /\ WireOK

(* Event ids are fresh (uuid4): an insert in flight has an id no document  *)
(* and no other insert has.                                                *)
FreshIds ==
    /\ nextId <= MaxEvents + 1
    /\ \A e \in log : e.id < nextId
    /\ \A d \in wire : d.id < nextId /\ \A e \in log : e.id # d.id
    /\ \A c, d \in wire : c.id = d.id => c = d
    /\ \A p \in Procs : pc[p] = "insert" =>
         /\ doc[p].id < nextId
         /\ \A e \in log \cup wire : e.id # doc[p].id
         /\ \A q \in Procs : pc[q] = "insert" /\ doc[q].id = doc[p].id => q = p

(* The chain tail, as the log shows it. *)
HeadHash == IF log = {} THEN Genesis ELSE (CHOOSE e \in log : e \in Newest).id

(* The spine implements the append-only list of AuditLog: every insert, of *)
(* whichever process and however late, extends the list at its head.       *)
Audit == INSTANCE AuditLog WITH
            Ids <- 1 .. MaxEvents,
            entries <- {[id |-> e.id, prev |-> e.prev] : e \in log},
            head <- HeadHash
ImplementsAuditLog == Audit!Spec
=============================================================================
