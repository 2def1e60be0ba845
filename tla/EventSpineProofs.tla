-------------------------- MODULE EventSpineProofs --------------------------
(***************************************************************************)
(* Theorems about EventSpine, and about AdminReset, which has the walk of  *)
(* an audit and a reset beside it, for any set of processes, any faults    *)
(* and any bounds.                                                         *)
(***************************************************************************)
EXTENDS AdminReset, FiniteSetTheorems, WellFoundedInduction, TLAPS

-----------------------------------------------------------------------------
(* Type correctness.                                                       *)

(* What _refresh_head finds is a seq and a hash.                           *)
LEMMA HeadsType == ASSUME log \subseteq Event, NEW h \in Heads
                   PROVE  h.seq \in Nat /\ h.hash \in Nat
BY DEF Heads, Newest, Event, EventId, Genesis

(* An attempt keeps the types.                                             *)
LEMMA AttemptType ==
    ASSUME TypeOK, NEW p \in Procs, NEW n \in 1 .. MaxAttempts,
           NEW h, h.seq \in Nat, h.hash \in Nat, Attempt(p, h, n)
    PROVE  TypeOK'
<1>1. [id |-> nextId, seq |-> h.seq + 1, prev |-> h.hash] \in Event
  BY DEF TypeOK, Event, EventId
<1> QED
  BY <1>1, SpineAssumption DEF TypeOK, Attempt, SetHead

(* Every step keeps the types.                                              *)
LEMMA TypeStep == ASSUME TypeOK, [Next]_vars PROVE TypeOK'
<1>1. CASE LateInsert
  BY <1>1 DEF LateInsert, TypeOK, procVars
<1>2. ASSUME NEW p \in Procs, Boot(p) PROVE TypeOK'
  BY <1>2, HeadsType DEF Boot, SetHead, TypeOK
<1>3. ASSUME NEW p \in Procs, StartAppend(p) PROVE TypeOK'
  <2>1. 1 \in 1 .. MaxAttempts
    BY SpineAssumption
  <2> QED
    BY <1>3, <2>1, AttemptType DEF StartAppend, TypeOK
<1>4. ASSUME NEW p \in Procs, Store(p) PROVE TypeOK'
  <2>1. doc[p] \in Event
    BY <1>4 DEF Store, TypeOK
  <2> QED
    BY <1>4, <2>1 DEF Store, TypeOK
<1>5. ASSUME NEW p \in Procs, Refuse(p) PROVE TypeOK'
  BY <1>5 DEF Refuse, TypeOK
<1>6. ASSUME NEW p \in Procs, Retry(p) PROVE TypeOK'
  <2>1. attempt[p] + 1 \in 1 .. MaxAttempts
    BY <1>6, SpineAssumption DEF Retry, TypeOK
  <2> QED
    BY <1>6, <2>1, HeadsType, AttemptType DEF Retry, TypeOK
<1>7. ASSUME NEW p \in Procs, GiveUp(p) PROVE TypeOK'
  BY <1>7, HeadsType DEF GiveUp, SetHead, TypeOK
<1>8. ASSUME NEW p \in Procs, Return(p) PROVE TypeOK'
  <2>1. doc[p] \in Event /\ doc[p].id \in Nat
    BY <1>8 DEF Return, TypeOK, Event, EventId
  <2> QED
    BY <1>8, <2>1 DEF Return, TypeOK
<1>9. ASSUME NEW p \in Procs, Reject(p) PROVE TypeOK'
  BY <1>9 DEF Reject, TypeOK
<1>10. ASSUME NEW p \in Procs, LoseAck(p) PROVE TypeOK'
  BY <1>10 DEF LoseAck, TypeOK
<1>11. ASSUME NEW p \in Procs, Crash(p) PROVE TypeOK'
  <2>1. wire' \subseteq Event
    BY <1>11 DEF Crash, TypeOK
  <2> QED
    BY <1>11, <2>1, SpineAssumption DEF Crash, SetHead, TypeOK, Genesis
<1>12. CASE UNCHANGED vars
  BY <1>12 DEF vars, procVars, TypeOK
<1> QED
  BY <1>1, <1>2, <1>3, <1>4, <1>5, <1>6, <1>7, <1>8, <1>9, <1>10, <1>11,
     <1>12 DEF Next, Proc

(* The state of every process, the log and the wire keep their types, and  *)
(* no append makes more than MaxAttempts attempts.                         *)
THEOREM TypeCorrect == Spec => []TypeOK
<1>1. Init => TypeOK
  BY SpineAssumption DEF Init, TypeOK, Genesis, NoEvent
<1>2. TypeOK /\ [Next]_vars => TypeOK'
  BY TypeStep
<1> QED
  BY <1>1, <1>2, PTL DEF Spec

-----------------------------------------------------------------------------
(* The outbox.                                                             *)

(* What makes it inductive: append returns from "stored" only.             *)
StoredInLog == \A p \in Procs : pc[p] = "stored" => doc[p] \in log
OutboxInv   == OutboxDurable /\ StoredInLog

(* For any number of processes, whatever an insert may suffer: an event    *)
(* that was returned to the caller is in the log.                          *)
THEOREM OutboxHolds == Spec => []OutboxDurable
<1>1. Init => OutboxInv
  BY DEF Init, OutboxInv, OutboxDurable, StoredInLog
<1>2. TypeOK /\ OutboxInv /\ [Next]_vars => OutboxInv'
  <2> SUFFICES ASSUME TypeOK, OutboxInv, [Next]_vars PROVE OutboxInv'
    OBVIOUS
  <2> USE DEF OutboxInv, OutboxDurable, StoredInLog
  <2>1. CASE LateInsert
    BY <2>1 DEF LateInsert, procVars
  <2>2. ASSUME NEW p \in Procs, Boot(p) \/ GiveUp(p) PROVE OutboxInv'
    BY <2>2 DEF Boot, GiveUp, TypeOK
  <2>3. ASSUME NEW p \in Procs, StartAppend(p) \/ Retry(p) PROVE OutboxInv'
    BY <2>3 DEF StartAppend, Retry, Attempt, TypeOK
  <2>4. ASSUME NEW p \in Procs, Store(p) PROVE OutboxInv'
    BY <2>4 DEF Store, TypeOK
  <2>5. ASSUME NEW p \in Procs, Return(p) PROVE OutboxInv'
    BY <2>5 DEF Return, TypeOK
  <2>6. ASSUME NEW p \in Procs, Refuse(p) \/ Reject(p) \/ LoseAck(p)
        PROVE  OutboxInv'
    BY <2>6 DEF Refuse, Reject, LoseAck, TypeOK
  <2>7. ASSUME NEW p \in Procs, Crash(p) PROVE OutboxInv'
    BY <2>7 DEF Crash, TypeOK
  <2>8. CASE UNCHANGED vars
    BY <2>8 DEF vars, procVars
  <2> QED
    BY <2>1, <2>2, <2>3, <2>4, <2>5, <2>6, <2>7, <2>8 DEF Next, Proc
<1> QED
  BY <1>1, <1>2, TypeCorrect, PTL DEF Spec, OutboxInv

-----------------------------------------------------------------------------
(* Fresh ids.                                                              *)

(* Every step keeps them fresh.                                            *)
LEMMA FreshStep == ASSUME TypeOK, FreshIds, [Next]_vars PROVE FreshIds'
<1>1. CASE LateInsert
  BY <1>1 DEF LateInsert, procVars, FreshIds, TypeOK, Event, EventId
<1>2. ASSUME NEW p \in Procs, Boot(p) \/ GiveUp(p) PROVE FreshIds'
  BY <1>2 DEF Boot, GiveUp, FreshIds, TypeOK
<1>3. ASSUME NEW p \in Procs, NEW h, NEW n, Attempt(p, h, n) PROVE FreshIds'
  <2>1. doc'[p].id = nextId /\ nextId' = nextId + 1 /\ nextId \in Nat
    BY <1>3 DEF Attempt, TypeOK
  <2>2. nextId' <= MaxEvents + 1
    BY <1>3, SpineAssumption DEF Attempt, TypeOK
  <2>3. \A e \in log \cup wire : e.id < nextId /\ e.id \in Nat
    BY DEF FreshIds, TypeOK, Event, EventId
  <2>4. \A q \in Procs \ {p} : pc'[q] = pc[q] /\ doc'[q] = doc[q]
    BY <1>3 DEF Attempt, TypeOK
  <2>5. \A q \in Procs : pc[q] = "insert" =>
          doc[q].id < nextId /\ doc[q].id \in Nat
    BY DEF FreshIds, TypeOK, Event, EventId
  <2>6. log' = log /\ wire' = wire
    BY <1>3 DEF Attempt
  <2> QED
    BY <2>1, <2>2, <2>3, <2>4, <2>5, <2>6 DEF FreshIds
<1>4. ASSUME NEW p \in Procs, Store(p) PROVE FreshIds'
  BY <1>4 DEF Store, FreshIds, TypeOK
<1>5. ASSUME NEW p \in Procs,
             Refuse(p) \/ Return(p) \/ Reject(p) \/ LoseAck(p)
      PROVE  FreshIds'
  BY <1>5 DEF Refuse, Return, Reject, LoseAck, FreshIds, TypeOK
<1>6. ASSUME NEW p \in Procs, Crash(p) PROVE FreshIds'
  <2>1. /\ log' = log /\ nextId' = nextId /\ pc'[p] = "down"
        /\ \A q \in Procs \ {p} : pc'[q] = pc[q] /\ doc'[q] = doc[q]
    BY <1>6 DEF Crash, TypeOK
  <2>2. wire' = wire \/ (pc[p] = "insert" /\ wire' = wire \cup {doc[p]})
    BY <1>6 DEF Crash
  <2> QED
    BY <2>1, <2>2 DEF FreshIds
<1>7. CASE UNCHANGED vars
  BY <1>7 DEF vars, procVars, FreshIds
<1> QED
  BY <1>1, <1>2, <1>3, <1>4, <1>5, <1>6, <1>7
  DEF Next, Proc, StartAppend, Retry

(* Under any faults, an insert that is in flight, of a live process or of  *)
(* a dead one, has an id that no stored event and no other insert has.     *)
THEOREM FreshIdsHold == Spec => []FreshIds
<1>1. Init => FreshIds
  BY SpineAssumption DEF Init, FreshIds
<1>2. TypeOK /\ FreshIds /\ [Next]_vars => FreshIds'
  BY FreshStep
<1> QED
  BY <1>1, <1>2, TypeCorrect, PTL DEF Spec

-----------------------------------------------------------------------------
(* The chain.                                                              *)

(* The condition: the unique index is there, and an insert that fails      *)
(* otherwise than by a conflict takes its process with it.                 *)
CrashOnly == UniqueSeq /\ "rejected" \notin Faults /\ "ackLost" \notin Faults

ListOK == NoDuplicateSeq /\ Gapless /\ Linked

(* A document that names a stored event as its predecessor and whose seq   *)
(* is free can only come after the newest event.                           *)
LEMMA OnlyAtTheEnd ==
    ASSUME log \subseteq Event, ListOK, NEW d \in Event, UniqueSeq,
           HeadIn(d.seq - 1, d.prev), ~Conflict(d)
    PROVE  /\ \A e \in log : e.seq < d.seq
           /\ \A k \in 1 .. d.seq - 1 : \E f \in log : f.seq = k
<1>1. \A e \in log : e.seq # d.seq
  BY DEF Conflict
<1>2. \A e \in log : ~(d.seq <= e.seq)
  BY <1>1 DEF ListOK, Gapless, Event
<1>3. \A k \in 1 .. d.seq - 1 : \E f \in log : f.seq = k
  BY DEF HeadIn, ListOK, Gapless, Event
<1> QED
  BY <1>2, <1>3 DEF Event

(* Adding it keeps the log a list, and every copy of the tail a copy of a  *)
(* tail.                                                                   *)
LEMMA InsertKeepsList ==
    ASSUME log \subseteq Event, ListOK, NEW d \in Event, UniqueSeq,
           HeadIn(d.seq - 1, d.prev), ~Conflict(d), log' = log \cup {d}
    PROVE  ListOK' /\ \A s, h : HeadIn(s, h) => HeadIn(s, h)'
<1>1. \A s, h : HeadIn(s, h) => HeadIn(s, h)'
  BY DEF HeadIn
<1>2. NoDuplicateSeq'
  BY OnlyAtTheEnd DEF ListOK, NoDuplicateSeq, Event
<1>3. Gapless'
  <2> SUFFICES ASSUME NEW e \in log', NEW k \in 1 .. e.seq
               PROVE  \E f \in log' : f.seq = k
    BY DEF Gapless
  <2>1. CASE e \in log
    BY <2>1 DEF ListOK, Gapless
  <2>2. CASE e = d /\ k = d.seq
    BY <2>2
  <2>3. CASE e = d /\ k # d.seq
    BY <2>3, OnlyAtTheEnd DEF Event
  <2> QED
    BY <2>1, <2>2, <2>3
<1>4. Linked'
  <2> SUFFICES ASSUME NEW e \in log' PROVE HeadIn(e.seq - 1, e.prev)'
    BY DEF Linked
  <2>1. HeadIn(e.seq - 1, e.prev)
    BY DEF ListOK, Linked
  <2> QED
    BY <2>1, <1>1
<1> QED
  BY <1>1, <1>2, <1>3, <1>4 DEF ListOK

(* What _refresh_head finds is a tail. *)
LEMMA HeadsAreHeads == \A h \in Heads : HeadIn(h.seq, h.hash)
BY DEF Heads, Newest, HeadIn

(* The chain invariant, but for the tails of processes outside of S.       *)
ChainInvOf(S) == ListOK /\ WireOK /\ \A p \in S : TailOK(p)

(* A step in which no insert fails but by a conflict or with its process   *)
(* keeps the chain invariant, whatever tails the processes outside of S    *)
(* have, as long as those stay idle.                                       *)
LEMMA ChainStep ==
    ASSUME UniqueSeq, TypeOK, NEW S \in SUBSET Procs, ChainInvOf(S), [Next]_vars,
           \A p \in Procs : ~Reject(p) /\ ~LoseAck(p),
           \A p \in Procs \ S : pc[p] = "idle" /\ pc'[p] = "idle"
    PROVE  ChainInvOf(S)'
<1> USE DEF ChainInvOf
<1>0. ASSUME NEW p \in Procs, Proc(p) PROVE p \in S
  <2>1. SUFFICES ASSUME pc[p] = "idle", pc'[p] = "idle" PROVE FALSE
    OBVIOUS
  <2> QED
    BY <1>0, <2>1 DEF Proc, Boot, StartAppend, Attempt, Store, Refuse, Retry, GiveUp,
                      Return, Reject, LoseAck, Crash, TypeOK
<1>1. ASSUME log' = log PROVE ListOK' /\ \A s, h : HeadIn(s, h) <=> HeadIn(s, h)'
  BY <1>1 DEF ListOK, NoDuplicateSeq, Gapless, Linked, HeadIn
<1>2. CASE LateInsert
  <2>1. PICK d \in wire : /\ wire' = wire \ {d}
                          /\ log' = IF Conflict(d) THEN log ELSE log \cup {d}
    BY <1>2 DEF LateInsert
  <2>2. d \in Event /\ HeadIn(d.seq - 1, d.prev)
    BY DEF TypeOK, WireOK
  <2>3. ListOK' /\ \A s, h : HeadIn(s, h) => HeadIn(s, h)'
    BY <2>1, <2>2, <1>1, InsertKeepsList DEF TypeOK
  <2>4. UNCHANGED procVars /\ log \subseteq log'
    BY <1>2, <2>1 DEF LateInsert
  <2> QED
    BY <2>1, <2>3, <2>4 DEF TailOK, WireOK, procVars
<1>3. ASSUME NEW p \in S, Boot(p) \/ GiveUp(p) PROVE ChainInvOf(S)'
  <2>1. log' = log /\ wire' = wire /\ UNCHANGED doc
    BY <1>3 DEF Boot, GiveUp
  <2>2. PICK h \in Heads : SetHead(p, h)
    BY <1>3 DEF Boot, GiveUp
  <2>3. HeadIn(lastSeq'[p], lastHash'[p]) /\ pc'[p] = "idle"
    BY <1>3, <2>2, HeadsAreHeads DEF Boot, GiveUp, SetHead, TypeOK
  <2>4. \A q \in S \ {p} : /\ pc'[q] = pc[q] /\ lastSeq'[q] = lastSeq[q]
                           /\ lastHash'[q] = lastHash[q]
    BY <1>3, <2>2 DEF Boot, GiveUp, SetHead, TypeOK
  <2> QED
    BY <2>1, <2>3, <2>4, <1>1 DEF TailOK, WireOK
<1>4. ASSUME NEW p \in S, NEW h, NEW n, Attempt(p, h, n),
             HeadIn(h.seq, h.hash), h.seq \in Nat
      PROVE  ChainInvOf(S)'
  <2>1. log' = log /\ wire' = wire /\ pc'[p] = "insert"
    BY <1>4 DEF Attempt, TypeOK
  <2>2. /\ doc'[p].seq = h.seq + 1 /\ doc'[p].prev = h.hash
        /\ lastSeq'[p] = h.seq + 1
    BY <1>4 DEF Attempt, SetHead, TypeOK
  <2>3. HeadIn(doc'[p].seq - 1, doc'[p].prev)
    <3>1. doc'[p].seq - 1 = h.seq
      BY <1>4, <2>2
    <3> QED
      BY <1>4, <2>2, <3>1
  <2>4. \A q \in S \ {p} : /\ pc'[q] = pc[q] /\ doc'[q] = doc[q]
                           /\ lastSeq'[q] = lastSeq[q]
                           /\ lastHash'[q] = lastHash[q]
    BY <1>4 DEF Attempt, SetHead, TypeOK
  <2> QED
    BY <2>1, <2>2, <2>3, <2>4, <1>1 DEF TailOK, WireOK
<1>5. ASSUME NEW p \in S, StartAppend(p) PROVE ChainInvOf(S)'
  BY <1>5, <1>4 DEF StartAppend, TailOK, TypeOK
<1>6. ASSUME NEW p \in S, Retry(p) PROVE ChainInvOf(S)'
  BY <1>6, <1>4, HeadsAreHeads, HeadsType DEF Retry, TypeOK
<1>7. ASSUME NEW p \in S, Store(p) PROVE ChainInvOf(S)'
  <2>1. doc[p] \in Event /\ HeadIn(doc[p].seq - 1, doc[p].prev)
    BY <1>7 DEF Store, TypeOK, TailOK
  <2>2. ListOK' /\ \A s, h : HeadIn(s, h) => HeadIn(s, h)'
    BY <1>7, <2>1, InsertKeepsList DEF Store, TypeOK
  <2> QED
    BY <1>7, <2>2 DEF Store, TypeOK, TailOK, WireOK
<1>8. ASSUME NEW p \in S, Refuse(p) PROVE ChainInvOf(S)'
  BY <1>8, <1>1 DEF Refuse, TypeOK, TailOK, WireOK
<1>9. ASSUME NEW p \in S, Return(p) PROVE ChainInvOf(S)'
  <2>1. doc[p] \in log /\ lastSeq[p] = doc[p].seq
    BY <1>9 DEF Return, TailOK
  <2>2. HeadIn(lastSeq'[p], lastHash'[p])
    BY <1>9, <2>1 DEF Return, TypeOK, HeadIn
  <2> QED
    BY <1>9, <2>2, <1>1 DEF Return, TypeOK, TailOK, WireOK
<1>10. ASSUME NEW p \in S, Crash(p) PROVE ChainInvOf(S)'
  <2>1. WireOK'
    BY <1>10, <1>1 DEF Crash, TailOK, WireOK
  <2> QED
    BY <1>10, <2>1, <1>1 DEF Crash, SetHead, TypeOK, TailOK
<1>11. CASE UNCHANGED vars
  BY <1>11, <1>1 DEF vars, procVars, TailOK, WireOK
<1> QED
  BY <1>0, <1>2, <1>3, <1>5, <1>6, <1>7, <1>8, <1>9, <1>10, <1>11 DEF Next, Proc

(* Under CrashOnly the invariant of the chain holds.                       *)
THEOREM ChainInvHolds == ASSUME CrashOnly PROVE Spec => []ChainInv
<1>1. Init => ChainInv
  BY DEF Init, ChainInv, NoDuplicateSeq, Gapless, Linked, TailsOK, TailOK, WireOK
<1>2. TypeOK /\ ChainInv /\ [Next]_vars => ChainInv'
  <2>1. ChainInv <=> ChainInvOf(Procs)
    BY DEF ChainInv, ChainInvOf, ListOK, TailsOK
  <2>2. ChainInv' <=> ChainInvOf(Procs)'
    BY DEF ChainInv, ChainInvOf, ListOK, TailsOK
  <2>3. \A p \in Procs : ~Reject(p) /\ ~LoseAck(p)
    BY DEF CrashOnly, Reject, LoseAck
  <2> QED
    BY <2>1, <2>2, <2>3, ChainStep DEF CrashOnly
<1> QED
  BY <1>1, <1>2, TypeCorrect, PTL DEF Spec

(* A gapless list whose events name their predecessors is a chain.         *)
LEMMA ListIsChain == ASSUME TypeOK, ListOK PROVE ChainIntact
<1> SUFFICES ASSUME NEW e \in log
             PROVE  \/ e.prev = Genesis /\ \A f \in log : e.seq <= f.seq
                    \/ \E d \in log : Precedes(d, e) /\ e.prev = d.id
  BY DEF ChainIntact, ListOK
<1>1. HeadIn(e.seq - 1, e.prev)
  BY DEF ListOK, Linked
<1>2. \A f \in log : f.seq \in Nat \ {0}
  BY DEF TypeOK, Event
<1>3. CASE e.seq - 1 = 0 /\ e.prev = Genesis
  BY <1>2, <1>3
<1>4. ASSUME NEW d \in log, d.seq = e.seq - 1, d.id = e.prev
      PROVE  Precedes(d, e) /\ e.prev = d.id
  BY <1>2, <1>4 DEF Precedes
<1> QED
  BY <1>1, <1>3, <1>4 DEF HeadIn

(* With the unique index and under CrashOnly, any number of processes that *)
(* append, collide, die and leave inserts behind never fork or cut the     *)
(* chain: verify_chain would find it intact at any moment.                 *)
THEOREM ChainAlwaysIntact == ASSUME CrashOnly PROVE Spec => []ChainIntact
<1>1. TypeOK /\ ChainInv => ChainIntact
  BY ListIsChain DEF ChainInv, ListOK
<1> QED
  BY <1>1, TypeCorrect, ChainInvHolds, PTL

-----------------------------------------------------------------------------
(* The spine implements AuditLog.                                          *)

(* A document that can be stored names the present tail, and becomes it.   *)
LEMMA NewTail ==
    ASSUME log \subseteq Event, ListOK, NEW d \in Event, UniqueSeq,
           HeadIn(d.seq - 1, d.prev), ~Conflict(d), log' = log \cup {d}
    PROVE  d.prev = HeadHash /\ HeadHash' = d.id
<1>1. \A e \in log : e.seq < d.seq /\ e.seq \in Nat \ {0}
  BY OnlyAtTheEnd DEF Event
<1>2. d.seq \in Nat \ {0}
  BY DEF Event
<1>3. \A e \in log' : e \in Newest' <=> e = d
  BY <1>1, <1>2 DEF Newest
<1>4. HeadHash' = d.id
  <2>1. log' # {} /\ (CHOOSE e \in log' : e \in Newest') = d
    BY <1>3
  <2> QED
    BY <2>1 DEF HeadHash
<1>5. CASE d.seq - 1 = 0 /\ d.prev = Genesis
  <2>1. log = {}
    BY <1>1, <1>2, <1>5
  <2> QED
    BY <1>4, <1>5, <2>1 DEF HeadHash
<1>6. ASSUME NEW e \in log, e.seq = d.seq - 1, e.id = d.prev
      PROVE  d.prev = HeadHash
  <2>1. \A f \in log : f \in Newest <=> f = e
    BY <1>1, <1>2, <1>6 DEF Newest, ListOK, NoDuplicateSeq
  <2>2. log # {} /\ (CHOOSE f \in log : f \in Newest) = e
    BY <2>1
  <2> QED
    BY <1>6, <2>2 DEF HeadHash
<1> QED
  BY <1>4, <1>5, <1>6 DEF HeadIn

(* Storing it is an Append of the abstract list. *)
LEMMA StoreIsAppend ==
    ASSUME log \subseteq Event, ListOK, NEW d \in Event, UniqueSeq,
           HeadIn(d.seq - 1, d.prev), ~Conflict(d), log' = log \cup {d},
           nextId \in Nat, nextId <= MaxEvents + 1, d.id < nextId,
           \A e \in log : e.id # d.id
    PROVE  Audit!Next
<1>1. d.id \in 1 .. MaxEvents /\ d.id # Genesis
  BY SpineAssumption DEF Event, EventId, Genesis
<1>2. \A a \in {[id |-> e.id, prev |-> e.prev] : e \in log} : a.id # d.id
  OBVIOUS
<1>3. {[id |-> e.id, prev |-> e.prev] : e \in log'} =
        {[id |-> e.id, prev |-> e.prev] : e \in log}
          \cup {[id |-> d.id, prev |-> HeadHash]}
  BY NewTail
<1>4. Audit!Append(d.id)
  BY <1>1, <1>2, <1>3, NewTail DEF Audit!Append
<1> QED
  BY <1>1, <1>4 DEF Audit!Next

(* Under CrashOnly the processes together implement the append-only list:  *)
(* what was appended once is never moved, relinked or lost.                *)
THEOREM Refinement == ASSUME CrashOnly PROVE Spec => ImplementsAuditLog
<1>1. Init => Audit!Init
  BY DEF Init, Audit!Init, HeadHash
<1>2. TypeOK /\ FreshIds /\ ChainInv /\ [Next]_vars
        => [Audit!Next]_<<{[id |-> e.id, prev |-> e.prev] : e \in log}, HeadHash>>
  <2> SUFFICES ASSUME TypeOK, FreshIds, ChainInv, [Next]_vars
               PROVE  \/ Audit!Next
                      \/ UNCHANGED <<{[id |-> e.id, prev |-> e.prev] : e \in log},
                                     HeadHash>>
    OBVIOUS
  <2>1. CASE log' = log
    BY <2>1 DEF HeadHash, Newest
  <2>2. ASSUME NEW p \in Procs, Store(p) PROVE Audit!Next
    BY <2>2, StoreIsAppend
    DEF Store, TypeOK, FreshIds, ChainInv, TailsOK, TailOK, ListOK, CrashOnly
  <2>3. CASE LateInsert /\ log' # log
    <3>1. PICK d \in wire : log' = log \cup {d} /\ ~Conflict(d)
      BY <2>3 DEF LateInsert
    <3> QED
      BY <3>1, StoreIsAppend
      DEF TypeOK, FreshIds, ChainInv, WireOK, ListOK, CrashOnly
  <2>4. ASSUME NEW p \in Procs, Proc(p), ~Store(p) PROVE log' = log
    BY <2>4 DEF Proc, Boot, StartAppend, Retry, Attempt, Refuse, GiveUp, Return,
                Reject, LoseAck, Crash
  <2> QED
    BY <2>1, <2>2, <2>3, <2>4 DEF Next, vars
<1> QED
  BY <1>1, <1>2, TypeCorrect, FreshIdsHold, ChainInvHolds, PTL
  DEF Spec, ImplementsAuditLog, Audit!Spec

-----------------------------------------------------------------------------
(* Every insert builds on the newest event.                                *)

(* A step that stores an event stores one that was in flight, that names a *)
(* tail, and whose seq is free.                                            *)
LEMMA StepInserts ==
    ASSUME CrashOnly, TypeOK, ChainInv, [Next]_vars, log' # log
    PROVE  \E d \in Event : /\ log' = log \cup {d} /\ ~Conflict(d)
                            /\ HeadIn(d.seq - 1, d.prev)
<1>1. ASSUME NEW p \in Procs, Store(p)
      PROVE  /\ doc[p] \in Event /\ log' = log \cup {doc[p]} /\ ~Conflict(doc[p])
             /\ HeadIn(doc[p].seq - 1, doc[p].prev)
  BY <1>1 DEF Store, TypeOK, ChainInv, TailsOK, TailOK
<1>2. ASSUME NEW d \in wire, log' = IF Conflict(d) THEN log ELSE log \cup {d}
      PROVE  /\ d \in Event /\ log' = log \cup {d} /\ ~Conflict(d)
             /\ HeadIn(d.seq - 1, d.prev)
  BY <1>2 DEF TypeOK, ChainInv, WireOK
<1>3. ASSUME NEW p \in Procs, Proc(p), ~Store(p) PROVE log' = log
  BY <1>3 DEF Proc, Boot, StartAppend, Retry, Attempt, Refuse, GiveUp, Return,
              Reject, LoseAck, Crash
<1> QED
  BY <1>1, <1>2, <1>3 DEF Next, LateInsert, vars

(* It names the newest event there is, or genesis in an empty log.         *)
LEMMA TailIsNewest ==
    ASSUME log \subseteq Event, ListOK, NEW d \in Event, UniqueSeq,
           HeadIn(d.seq - 1, d.prev), ~Conflict(d)
    PROVE  \/ log = {} /\ d.prev = Genesis
           \/ \E e \in Newest : d.prev = e.id
<1>1. d.seq \in Nat /\ \A e \in log : e.seq < d.seq /\ e.seq \in Nat \ {0}
  BY OnlyAtTheEnd DEF Event
<1>2. CASE d.seq - 1 = 0 /\ d.prev = Genesis
  BY <1>1, <1>2
<1>3. ASSUME NEW e \in log, e.seq = d.seq - 1, e.id = d.prev PROVE e \in Newest
  BY <1>1, <1>3 DEF Newest
<1> QED
  BY <1>2, <1>3 DEF HeadIn

(* Under CrashOnly: whichever process stores an event, and however late,   *)
(* that event names the one no other event of the log comes after.         *)
THEOREM InsertsBuildOnLatest == ASSUME CrashOnly PROVE Spec => BuildsOnLatest
<1>1. TypeOK /\ ChainInv /\ [Next]_vars =>
        [\A e \in log' \ log : \/ log = {} /\ e.prev = Genesis
                               \/ \E d \in Newest : e.prev = d.id]_log
  <2> SUFFICES ASSUME TypeOK, ChainInv, [Next]_vars, log' # log, NEW e \in log' \ log
               PROVE  \/ log = {} /\ e.prev = Genesis
                      \/ \E d \in Newest : e.prev = d.id
    OBVIOUS
  <2>1. e \in Event /\ ~Conflict(e) /\ HeadIn(e.seq - 1, e.prev)
    BY StepInserts
  <2> QED
    BY <2>1, TailIsNewest DEF TypeOK, ChainInv, ListOK, CrashOnly
<1> QED
  BY <1>1, TypeCorrect, ChainInvHolds, PTL DEF Spec, BuildsOnLatest

-----------------------------------------------------------------------------
(* The count of a report: ChainAudit.                                      *)

auditStep == [AuditNext]_<<vars, auditVars>>

(* A step of the walk beside the spine leaves the spine alone.             *)
LEMMA AuditIsSpine == ASSUME auditStep PROVE [Next]_vars
BY DEF auditStep, AuditNext, AuditStep, Begin, Read, Finish

(* The spine under a walk is the spine.                                    *)
LEMMA AuditedSpine == AuditSpec => Spec
<1>1. AuditInit => Init
  BY DEF AuditInit
<1>2. auditStep => [Next]_vars
  BY AuditIsSpine
<1> QED
  BY <1>1, <1>2, PTL DEF AuditSpec, Spec, auditStep

(* What makes the count inductive: the cursor stands on an event of the    *)
(* log, so what is stored later, at the end, comes after it.               *)
CountInv == /\ IsFiniteSet(log)
            /\ at \in Nat
            /\ at = 0 \/ \E e \in log : e.seq = at
            /\ verified = Cardinality({e \in log : e.seq <= at})

(* Under CrashOnly, however many processes append while the cursor walks:  *)
(* the report counts the events up to its head, no more and no fewer.      *)
THEOREM CountIsRight == ASSUME CrashOnly PROVE AuditSpec => []CountMatchesHead
<1>1. AuditInit => CountInv
  BY FS_EmptySet DEF AuditInit, Init, CountInv
<1>2. TypeOK /\ ChainInv /\ CountInv /\ auditStep => CountInv'
  <2> SUFFICES ASSUME TypeOK, ChainInv, CountInv, auditStep PROVE CountInv'
    OBVIOUS
  <2>0. \A e \in log : e.seq \in Nat \ {0}
    BY DEF TypeOK, Event
  <2>1. CASE UNCHANGED <<log, at, verified>>
    BY <2>1 DEF CountInv
  <2>2. CASE log' # log /\ UNCHANGED <<at, verified>>
    <3>1. PICK d \in Event : /\ log' = log \cup {d} /\ ~Conflict(d)
                             /\ HeadIn(d.seq - 1, d.prev)
      BY <2>2, StepInserts, AuditIsSpine
    <3>2. d.seq \in Nat \ {0} /\ \A e \in log : e.seq < d.seq
      BY <3>1, OnlyAtTheEnd DEF TypeOK, ChainInv, ListOK, CrashOnly, Event
    <3>3. IsFiniteSet(log')
      BY <3>1, FS_AddElement DEF CountInv
    <3>4. ~(d.seq <= at)
      BY <2>0, <3>2 DEF CountInv
    <3>5. {e \in log' : e.seq <= at} = {e \in log : e.seq <= at}
      BY <3>1, <3>4
    <3> QED
      BY <2>2, <3>1, <3>3, <3>5 DEF CountInv
  <2>3. ASSUME NEW e \in Ahead, at' = e.seq, verified' = verified + 1, log' = log
        PROVE  CountInv'
    <3>1. e \in log /\ e.seq > at /\ \A f \in log : f.seq > at => e.seq <= f.seq
      BY DEF Ahead
    <3>2. ASSUME NEW f \in log PROVE f.seq <= e.seq <=> (f.seq <= at \/ f = e)
      BY <2>0, <3>1 DEF CountInv, ChainInv, NoDuplicateSeq
    <3>3. {f \in log : f.seq <= e.seq} = {f \in log : f.seq <= at} \cup {e}
      BY <3>1, <3>2
    <3>4. IsFiniteSet({f \in log : f.seq <= at}) /\ e \notin {f \in log : f.seq <= at}
      BY <2>0, <3>1, FS_Subset DEF CountInv
    <3>5. Cardinality({f \in log : f.seq <= e.seq}) = verified + 1
      BY <3>3, <3>4, FS_AddElement DEF CountInv
    <3> QED
      BY <2>0, <2>3, <3>1, <3>5 DEF CountInv
  <2> QED
    BY <2>1, <2>2, <2>3
    DEF auditStep, AuditNext, AuditStep, Begin, Read, Finish, vars, auditVars
<1>3. CountInv => CountMatchesHead
  BY DEF CountInv, CountMatchesHead
<1> QED
  BY <1>1, <1>2, <1>3, AuditedSpine, TypeCorrect, ChainInvHolds, PTL
  DEF AuditSpec, auditStep

-----------------------------------------------------------------------------
(* What a reset leaves behind: AdminReset.                                 *)

resetStep == [ResetNext]_<<spineVars, resetVars>>

(* What the handler itself holds. *)
HandlerOK == /\ reset \in {"none", "deleted", "read", "done"}
             /\ by \subseteq Procs
             /\ reset \in {"none", "done"} => by = {}
             /\ found.seq \in Nat /\ found.hash \in Nat

(* A step of the rest of the system is a step of the spine, or leaves it.  *)
LEMMA BesideIsSpine == ASSUME Beside PROVE [Next]_vars
BY DEF Beside, AuditNext, AuditStep, Begin, Read, Finish

(* The types, with the tail the handler has read.                          *)
LEMMA ResetTypeStep ==
    ASSUME TypeOK, HandlerOK, resetStep PROVE TypeOK' /\ HandlerOK'
<1>1. CASE UNCHANGED <<spineVars, resetVars>>
  BY <1>1 DEF spineVars, resetVars, vars, procVars, TypeOK, HandlerOK
<1>2. ASSUME NEW p \in Procs, Delete(p) PROVE TypeOK' /\ HandlerOK'
  BY <1>2 DEF Delete, procVars, TypeOK, HandlerOK
<1>3. CASE ReadTail
  <2>1. found' \in Heads /\ reset' = "read" /\ by' = by /\ UNCHANGED vars
    BY <1>3 DEF ReadTail, spineVars
  <2>2. found'.seq \in Nat /\ found'.hash \in Nat
    BY <2>1, HeadsType DEF TypeOK
  <2> QED
    BY <2>1, <2>2, TypeStep DEF HandlerOK
<1>4. ASSUME NEW p \in Procs, SetTail(p) PROVE TypeOK' /\ HandlerOK'
  BY <1>4 DEF SetTail, SetHead, TypeOK, HandlerOK
<1>5. CASE Beside
  <2>1. TypeOK'
    BY <1>5, BesideIsSpine, TypeStep
  <2>2. HandlerOK'
    BY <1>5 DEF Beside, HandlerOK
  <2> QED
    BY <2>1, <2>2
<1> QED
  BY <1>1, <1>2, <1>3, <1>4, <1>5 DEF ResetNext, resetStep

(* The types hold under a reset as well.                                   *)
THEOREM ResetTypes == ResetSpec => [](TypeOK /\ HandlerOK)
<1>1. ResetInit => TypeOK /\ HandlerOK
  BY SpineAssumption DEF ResetInit, AuditInit, Init, TypeOK, HandlerOK, Genesis, NoEvent
<1>2. TypeOK /\ HandlerOK /\ resetStep => TypeOK' /\ HandlerOK'
  BY ResetTypeStep
<1> QED
  BY <1>1, <1>2, PTL DEF ResetSpec, resetStep

-----------------------------------------------------------------------------
(* The outbox.                                                             *)

(* What makes it inductive: an append whose insert is stored returns that  *)
(* event, even when a reset has deleted it since; nothing is deleted       *)
(* twice.                                                                  *)
AccountInv == /\ OutboxAccounted
              /\ \A p \in Procs : pc[p] = "stored" => doc[p] \in log \cup deleted
              /\ reset = "none" => deleted = {}

(* A step of the spine keeps what is stored, returns only that, and        *)
(* reaches "stored" only by storing.                                       *)
LEMMA SpineAccounts ==
    ASSUME TypeOK, [Next]_vars
    PROVE  /\ log \subseteq log'
           /\ \A e \in returned' \ returned : \E p \in Procs : pc[p] = "stored"
                                                             /\ doc[p] = e
           /\ \A p \in Procs : pc'[p] = "stored" =>
                \/ doc'[p] \in log'
                \/ pc[p] = "stored" /\ doc'[p] = doc[p]
<1>1. CASE UNCHANGED vars
  BY <1>1 DEF vars, procVars
<1>2. CASE LateInsert
  BY <1>2 DEF LateInsert, procVars
<1>3. ASSUME NEW p \in Procs, Boot(p) \/ GiveUp(p) \/ Refuse(p) \/ Reject(p)
                                \/ LoseAck(p) \/ Crash(p)
      PROVE  /\ log' = log /\ returned' = returned
             /\ \A q \in Procs : pc'[q] = "stored" => pc[q] = "stored" /\ doc'[q] = doc[q]
  BY <1>3 DEF Boot, GiveUp, Refuse, Reject, LoseAck, Crash, TypeOK
<1>4. ASSUME NEW p \in Procs, StartAppend(p) \/ Retry(p)
      PROVE  /\ log' = log /\ returned' = returned
             /\ \A q \in Procs : pc'[q] = "stored" => pc[q] = "stored" /\ doc'[q] = doc[q]
  BY <1>4 DEF StartAppend, Retry, Attempt, TypeOK
<1>5. ASSUME NEW p \in Procs, Store(p)
      PROVE  /\ log \subseteq log' /\ returned' = returned
             /\ \A q \in Procs : pc'[q] = "stored" =>
                  doc'[q] \in log' \/ (pc[q] = "stored" /\ doc'[q] = doc[q])
  BY <1>5 DEF Store, TypeOK
<1>6. ASSUME NEW p \in Procs, Return(p)
      PROVE  /\ log' = log /\ pc[p] = "stored" /\ returned' = returned \cup {doc[p]}
             /\ \A q \in Procs : pc'[q] = "stored" => pc[q] = "stored" /\ doc'[q] = doc[q]
  BY <1>6 DEF Return, TypeOK
<1> QED
  BY <1>1, <1>2, <1>3, <1>4, <1>5, <1>6 DEF Next, Proc

(* For any processes and faults: whatever append returned is in the log or *)
(* was deleted by the reset.                                               *)
THEOREM OutboxUnderResets == ResetSpec => []OutboxAccounted
<1>1. ResetInit => AccountInv
  BY DEF ResetInit, AuditInit, Init, AccountInv, OutboxAccounted
<1>2. TypeOK /\ HandlerOK /\ AccountInv /\ resetStep => AccountInv'
  <2> SUFFICES ASSUME TypeOK, HandlerOK, AccountInv, resetStep PROVE AccountInv'
    OBVIOUS
  <2> USE DEF AccountInv, OutboxAccounted
  <2>1. CASE UNCHANGED <<spineVars, resetVars>>
    BY <2>1 DEF spineVars, resetVars, vars, procVars
  <2>2. ASSUME NEW p \in Procs, Delete(p) PROVE AccountInv'
    BY <2>2 DEF Delete, procVars
  <2>3. CASE ReadTail
    BY <2>3 DEF ReadTail, spineVars, vars, procVars
  <2>4. ASSUME NEW p \in Procs, SetTail(p) PROVE AccountInv'
    BY <2>4 DEF SetTail
  <2>5. CASE Beside
    <3>1. deleted' = deleted /\ (reset' = "none" => reset = "none")
      BY <2>5 DEF Beside
    <3> QED
      BY <2>5, <3>1, BesideIsSpine, SpineAccounts
  <2> QED
    BY <2>1, <2>2, <2>3, <2>4, <2>5 DEF ResetNext, resetStep
<1> QED
  BY <1>1, <1>2, ResetTypes, PTL DEF ResetSpec, resetStep, AccountInv

-----------------------------------------------------------------------------
(* Healing.                                                                *)

(* What makes it inductive: from an undisturbed deletion on, the log is a  *)
(* list, and all the tails are tails of it, but for the one of the process *)
(* that resets, which is idle until it has the tail it found.              *)
HealInv == reset # "none" /\ quiet =>
              /\ ChainInvOf(Procs \ by)
              /\ \A p \in by : pc[p] = "idle"
              /\ reset = "read" => HeadIn(found.seq, found.hash)

(* With the unique index: an undisturbed reset leaves a chain without      *)
(* gaps, whatever it found, for any number of processes.                   *)
THEOREM ResetAlwaysHeals == ASSUME UniqueSeq PROVE ResetSpec => []ResetHeals
<1>1. ResetInit => HealInv
  BY DEF ResetInit, HealInv
<1>2. TypeOK /\ HandlerOK /\ HealInv /\ resetStep => HealInv'
  <2> SUFFICES ASSUME TypeOK, HandlerOK, HealInv, resetStep, reset' # "none", quiet'
               PROVE  /\ ChainInvOf(Procs \ by)'
                      /\ (\A p \in by : pc[p] = "idle")'
                      /\ (reset = "read" => HeadIn(found.seq, found.hash))'
    BY DEF HealInv
  <2>1. CASE UNCHANGED <<spineVars, resetVars>>
    BY <2>1 DEF spineVars, resetVars, vars, procVars, HealInv, ChainInvOf, ListOK,
                NoDuplicateSeq, Gapless, Linked, HeadIn, WireOK, TailOK
  <2>2. ASSUME NEW p \in Procs, Delete(p)
        PROVE  /\ ChainInvOf(Procs \ by)'
               /\ (\A q \in by : pc[q] = "idle")'
               /\ reset' # "read"
    <3>1. /\ log' = {} /\ wire' = {} /\ pc' = pc /\ by' = {p}
          /\ pc[p] = "idle" /\ \A q \in Procs \ {p} : pc[q] = "down"
      BY <2>2 DEF Delete, Alone, procVars
    <3>2. ListOK' /\ WireOK'
      BY <3>1 DEF ListOK, NoDuplicateSeq, Gapless, Linked, WireOK
    <3>3. \A q \in Procs \ {p} : TailOK(q)'
      BY <3>1 DEF TailOK
    <3> QED
      BY <2>2, <3>1, <3>2, <3>3 DEF ChainInvOf, Delete
  <2>3. CASE ReadTail
    <3>1. UNCHANGED <<vars, by, quiet>> /\ reset = "deleted" /\ found' \in Heads
      BY <2>3 DEF ReadTail, spineVars
    <3>2. HeadIn(found.seq, found.hash)'
      BY <3>1, HeadsAreHeads DEF HeadIn, vars
    <3> QED
      BY <3>1, <3>2 DEF vars, procVars, HealInv, ChainInvOf, ListOK,
                        NoDuplicateSeq, Gapless, Linked, HeadIn, WireOK, TailOK
  <2>4. ASSUME NEW p \in Procs, SetTail(p)
        PROVE  ChainInvOf(Procs)' /\ by' = {} /\ reset' # "read"
    <3>1. /\ log' = log /\ wire' = wire /\ pc' = pc /\ doc' = doc /\ by = {p}
          /\ SetHead(p, found) /\ pc[p] = "idle"
          /\ ChainInvOf(Procs \ {p}) /\ HeadIn(found.seq, found.hash)
      BY <2>4 DEF SetTail, HealInv
    <3>2. \A s, h : HeadIn(s, h) <=> HeadIn(s, h)'
      BY <3>1 DEF HeadIn
    <3>3. ListOK' /\ WireOK'
      BY <3>1, <3>2 DEF ChainInvOf, ListOK, NoDuplicateSeq, Gapless, Linked, WireOK
    <3>4. \A q \in Procs \ {p} : lastSeq'[q] = lastSeq[q] /\ lastHash'[q] = lastHash[q]
      BY <3>1 DEF SetHead, TypeOK
    <3>5. \A q \in Procs \ {p} : TailOK(q)'
      BY <3>1, <3>2, <3>4 DEF ChainInvOf, TailOK
    <3>6. lastSeq'[p] = found.seq /\ lastHash'[p] = found.hash
      BY <3>1 DEF SetHead, TypeOK
    <3>7. TailOK(p)'
      BY <3>1, <3>2, <3>6 DEF TailOK
    <3> QED
      BY <2>4, <3>3, <3>5, <3>7 DEF ChainInvOf, SetTail
  <2>5. CASE Beside
    <3>1. /\ UNCHANGED <<reset, by, found>> /\ quiet /\ Undisturbed /\ [Next]_vars
      BY <2>5, BesideIsSpine DEF Beside
    <3>2. PICK S : S = Procs \ by
      OBVIOUS
    <3>3. S \in SUBSET Procs /\ ChainInvOf(S)
      BY <3>1, <3>2 DEF HealInv
    <3>4. \A p \in Procs \ S : pc[p] = "idle" /\ pc'[p] = "idle"
      BY <3>1, <3>2 DEF HealInv, Undisturbed
    <3>5. \A p \in Procs : ~Reject(p) /\ ~LoseAck(p)
      BY <3>1 DEF Undisturbed
    <3>6. ChainInvOf(S)'
      BY <3>1, <3>3, <3>4, <3>5, ChainStep
    <3>7. Procs \ by' = S
      BY <3>1, <3>2
    <3>8. ChainInvOf(Procs \ by)'
      BY <3>6, <3>7 DEF ChainInvOf
    <3>9. reset' = "read" => HeadIn(found.seq, found.hash)'
      BY <3>1, SpineAccounts DEF HealInv, HeadIn
    <3> QED
      BY <3>1, <3>8, <3>9 DEF HandlerOK, Undisturbed
  <2> QED
    BY <2>1, <2>2, <2>3, <2>4, <2>5 DEF ResetNext, resetStep, ChainInvOf
<1>3. TypeOK /\ HandlerOK /\ HealInv => ResetHeals
  BY ListIsChain DEF HandlerOK, HealInv, ResetHeals, ChainInvOf, ListOK
<1> QED
  BY <1>1, <1>2, <1>3, ResetTypes, PTL DEF ResetSpec, resetStep

-----------------------------------------------------------------------------
(* verify_chain raises no false alarm: RightAlarm of AdminReset, for any   *)
(* processes, faults, bounds and any index.                                *)

(* The inserts that may still reach the log. *)
InFlight == wire \cup {doc[p] : p \in {q \in Procs : pc[q] = "insert"}}

(* A hash that no event to come will have. *)
Settled(h) == h \in Nat /\ h < nextId /\ \A d \in InFlight : d.id # h

(* Whatever is named as a predecessor, or will be, is settled: no event is *)
(* stored after one that names it.                                         *)
NamesSettled ==
    /\ \A e \in log \cup InFlight : Settled(e.prev)
    /\ \A p \in Procs : Settled(lastHash[p])
    /\ \A p \in Procs : pc[p] = "stored" => Settled(doc[p].id)
    /\ Settled(found.hash)

(* Where the walk stands. *)
WalkInv == /\ at \in Nat
           /\ walk = "none" => at = 0 /\ prev = Genesis
           /\ reset = "none" => ~torn
           /\ walk = "walking" /\ ~torn =>
                \/ at = 0 /\ prev = Genesis
                \/ \E e \in log : e.seq = at /\ e.id = prev

-----------------------------------------------------------------------------
(* What is stored has a settled hash.                                      *)
LEMMA LogSettled == ASSUME TypeOK, FreshIds, NEW e \in log PROVE Settled(e.id)
BY DEF TypeOK, FreshIds, Settled, InFlight, Event, EventId

(* What _refresh_head finds is settled.                                    *)
LEMMA HeadsSettled ==
    ASSUME TypeOK, FreshIds, NEW h \in Heads PROVE Settled(h.hash)
<1>1. CASE log = {}
  BY <1>1 DEF Heads, TypeOK, FreshIds, Settled, InFlight, Event, EventId, Genesis
<1>2. CASE log # {}
  BY <1>2, LogSettled DEF Heads, Newest
<1> QED
  BY <1>1, <1>2

(* A step adds nothing to what is in flight but the next event. *)
FlightGrows == /\ nextId' \in Nat /\ nextId <= nextId'
               /\ \A d \in InFlight' : \/ d \in InFlight
                                       \/ d.id = nextId /\ nextId < nextId'

(* What is settled remains so.                                             *)
LEMMA SettledStays ==
    ASSUME TypeOK, FreshIds, [Next]_vars
    PROVE  \A h : Settled(h) => Settled(h)'
<1>0. nextId \in Nat
  BY DEF TypeOK
<1>1. ASSUME wire' \subseteq wire, pc' = pc, doc' = doc, nextId' = nextId PROVE FlightGrows
  <2>1. InFlight' \subseteq InFlight
    BY <1>1 DEF InFlight
  <2> QED
    BY <1>0, <1>1, <2>1 DEF FlightGrows
<1>2. ASSUME UNCHANGED vars \/ LateInsert PROVE FlightGrows
  <2>1. wire' \subseteq wire /\ pc' = pc /\ doc' = doc /\ nextId' = nextId
    BY <1>2 DEF vars, procVars, LateInsert
  <2> QED
    BY <1>1, <2>1
<1>3. ASSUME NEW p \in Procs, Boot(p) \/ GiveUp(p) \/ Refuse(p) \/ Reject(p)
                                \/ LoseAck(p) \/ Store(p) \/ Return(p)
      PROVE  FlightGrows
  <2>1. /\ wire' = wire /\ nextId' = nextId
        /\ \A q \in Procs : pc'[q] = "insert" => pc[q] = "insert" /\ doc'[q] = doc[q]
    BY <1>3 DEF Boot, GiveUp, Refuse, Reject, LoseAck, Store, Return, TypeOK
  <2> QED
    BY <1>0, <2>1 DEF InFlight, FlightGrows
<1>4. ASSUME NEW p \in Procs, NEW h, NEW n, Attempt(p, h, n) PROVE FlightGrows
  <2>1. /\ wire' = wire /\ doc'[p].id = nextId /\ nextId' = nextId + 1
        /\ \A q \in Procs \ {p} : pc'[q] = pc[q] /\ doc'[q] = doc[q]
    BY <1>4 DEF Attempt, TypeOK
  <2> QED
    BY <1>0, <2>1 DEF InFlight, FlightGrows
<1>5. ASSUME NEW p \in Procs, Crash(p) PROVE FlightGrows
  <2>1. /\ nextId' = nextId
        /\ wire' = wire \/ (pc[p] = "insert" /\ wire' = wire \cup {doc[p]})
        /\ \A q \in Procs : pc'[q] = "insert" => pc[q] = "insert" /\ doc'[q] = doc[q]
    BY <1>5 DEF Crash, TypeOK
  <2> QED
    BY <1>0, <2>1 DEF InFlight, FlightGrows
<1>6. FlightGrows
  BY <1>2, <1>3, <1>4, <1>5 DEF Next, Proc, StartAppend, Retry
<1> QED
  BY <1>0, <1>6 DEF FlightGrows, Settled

(* What a step of the spine stores was in flight.                          *)
LEMMA LogStep ==
    ASSUME TypeOK, [Next]_vars
    PROVE  log' = log \/ \E d \in InFlight : log' = log \cup {d}
<1>1. ASSUME NEW p \in Procs, Proc(p), ~Store(p) PROVE log' = log
  BY <1>1 DEF Proc, Boot, StartAppend, Retry, Attempt, Refuse, GiveUp, Return,
              Reject, LoseAck, Crash
<1>2. ASSUME NEW p \in Procs, Store(p) PROVE \E d \in InFlight : log' = log \cup {d}
  BY <1>2 DEF Store, InFlight
<1> QED
  BY <1>1, <1>2 DEF Next, vars, LateInsert, InFlight

(* The names stay settled.                                                 *)
LEMMA NamesStep ==
    ASSUME TypeOK, FreshIds, NamesSettled, found' = found, [Next]_vars
    PROVE  NamesSettled'
<1>1. \A h : Settled(h) => Settled(h)'
  BY SettledStays
<1>2. Settled(found.hash)'
  BY <1>1 DEF NamesSettled
<1>3. CASE UNCHANGED vars
  BY <1>1, <1>2, <1>3 DEF NamesSettled, vars, procVars, InFlight
<1>4. CASE LateInsert
  BY <1>1, <1>2, <1>4, LogStep DEF NamesSettled, LateInsert, procVars, InFlight
<1>5. ASSUME NEW p \in Procs, Boot(p) \/ GiveUp(p) PROVE NamesSettled'
  <2>1. PICK h \in Heads : SetHead(p, h)
    BY <1>5 DEF Boot, GiveUp
  <2>2. /\ log' = log /\ wire' = wire /\ doc' = doc
        /\ \A q \in Procs : pc'[q] \in {"insert", "stored"} => pc'[q] = pc[q]
    BY <1>5 DEF Boot, GiveUp, TypeOK
  <2>3. \A q \in Procs : lastHash'[q] = lastHash[q] \/ lastHash'[q] = h.hash
    BY <2>1 DEF SetHead, TypeOK
  <2> QED
    BY <1>1, <1>2, <2>2, <2>3, HeadsSettled DEF NamesSettled, InFlight
<1>6. ASSUME NEW p \in Procs, NEW h, NEW n, Attempt(p, h, n), Settled(h.hash)
      PROVE  NamesSettled'
  <2>1. /\ log' = log /\ wire' = wire
        /\ doc'[p].prev = h.hash /\ pc'[p] = "insert"
        /\ \A q \in Procs \ {p} : pc'[q] = pc[q] /\ doc'[q] = doc[q]
    BY <1>6 DEF Attempt, TypeOK
  <2>2. \A q \in Procs : lastHash'[q] = lastHash[q] \/ lastHash'[q] = h.hash
    BY <1>6 DEF Attempt, SetHead, TypeOK
  <2> QED
    BY <1>1, <1>2, <1>6, <2>1, <2>2 DEF NamesSettled, InFlight
<1>7. ASSUME NEW p \in Procs, StartAppend(p) PROVE NamesSettled'
  BY <1>6, <1>7 DEF StartAppend, NamesSettled
<1>8. ASSUME NEW p \in Procs, Retry(p) PROVE NamesSettled'
  BY <1>6, <1>8, HeadsSettled DEF Retry
<1>9. ASSUME NEW p \in Procs, Store(p) PROVE NamesSettled'
  <2>1. /\ log' = log \cup {doc[p]} /\ wire' = wire /\ doc' = doc
        /\ lastHash' = lastHash /\ pc[p] = "insert" /\ pc'[p] = "stored"
        /\ \A q \in Procs \ {p} : pc'[q] = pc[q]
        /\ nextId' = nextId
    BY <1>9 DEF Store, TypeOK
  <2>2. Settled(doc[p].id)'
    BY <2>1 DEF FreshIds, Settled, InFlight, TypeOK, Event, EventId
  <2> QED
    BY <1>1, <1>2, <2>1, <2>2 DEF NamesSettled, InFlight
<1>10. ASSUME NEW p \in Procs, Refuse(p) \/ Reject(p) \/ LoseAck(p)
       PROVE  NamesSettled'
  <2>1. /\ log' = log /\ wire' = wire /\ doc' = doc /\ lastHash' = lastHash
        /\ \A q \in Procs : pc'[q] \in {"insert", "stored"} => pc'[q] = pc[q]
    BY <1>10 DEF Refuse, Reject, LoseAck, TypeOK
  <2> QED
    BY <1>1, <1>2, <2>1 DEF NamesSettled, InFlight
<1>11. ASSUME NEW p \in Procs, Return(p) PROVE NamesSettled'
  <2>1. /\ log' = log /\ wire' = wire /\ doc' = doc /\ pc[p] = "stored"
        /\ \A q \in Procs : lastHash'[q] = IF q = p THEN doc[p].id ELSE lastHash[q]
        /\ \A q \in Procs : pc'[q] \in {"insert", "stored"} => pc'[q] = pc[q]
    BY <1>11 DEF Return, TypeOK
  <2> QED
    BY <1>1, <1>2, <2>1 DEF NamesSettled, InFlight
<1>12. ASSUME NEW p \in Procs, Crash(p) PROVE NamesSettled'
  <2>1. /\ log' = log /\ pc'[p] = "down"
        /\ \A q \in Procs : lastHash'[q] = IF q = p THEN Genesis ELSE lastHash[q]
        /\ \A q \in Procs \ {p} : pc'[q] = pc[q] /\ doc'[q] = doc[q]
    BY <1>12 DEF Crash, SetHead, TypeOK
  <2>2. wire' = wire \/ (pc[p] = "insert" /\ wire' = wire \cup {doc[p]})
    BY <1>12 DEF Crash
  <2>3. Settled(Genesis)
    BY DEF Settled, Genesis, TypeOK, InFlight, Event, EventId
  <2> QED
    BY <1>1, <1>2, <2>1, <2>2, <2>3 DEF NamesSettled, InFlight
<1> QED
  BY <1>3, <1>4, <1>5, <1>7, <1>8, <1>9, <1>10, <1>11, <1>12 DEF Next, Proc

-----------------------------------------------------------------------------
(* A chain that is broken stays broken: what is stored later is no         *)
(* predecessor of what is there.                                           *)
LEMMA BrokenStays ==
    ASSUME TypeOK, NamesSettled, [Next]_vars, ChainIntact' PROVE ChainIntact
<1>1. CASE log' = log
  BY <1>1 DEF ChainIntact, NoDuplicateSeq, Precedes
<1>2. ASSUME NEW d \in InFlight, log' = log \cup {d} PROVE ChainIntact
  <2>1. NoDuplicateSeq
    BY <1>2 DEF ChainIntact, NoDuplicateSeq
  <2>2. ASSUME NEW e \in log
        PROVE  \/ e.prev = Genesis /\ \A f \in log : e.seq <= f.seq
               \/ \E c \in log : Precedes(c, e) /\ e.prev = c.id
    <3>1. e.prev # d.id
      BY DEF NamesSettled, Settled
    <3> QED
      BY <1>2, <3>1 DEF ChainIntact, Precedes
  <2> QED
    BY <2>1, <2>2 DEF ChainIntact
<1> QED
  BY <1>1, <1>2, LogStep

(* The document at which the walk breaks off names another predecessor     *)
(* than the one it has in the log.                                         *)
LEMMA BreakIsReal ==
    ASSUME TypeOK, WalkInv, walk = "walking", ~torn, NEW e \in Ahead, Broken(e)
    PROVE  ~ChainIntact
<1> SUFFICES ASSUME ChainIntact PROVE FALSE
  OBVIOUS
<1>1. /\ e \in log /\ e.seq > at /\ e.prev # prev
      /\ \A f \in log : f.seq > at => e.seq <= f.seq
  BY DEF Ahead, Broken
<1>2. at \in Nat /\ \A f \in log : f.seq \in Nat \ {0}
  BY DEF WalkInv, TypeOK, Event
<1>3. CASE at = 0 /\ prev = Genesis
  BY <1>1, <1>2, <1>3 DEF ChainIntact, Precedes
<1>4. ASSUME NEW x \in log, x.seq = at, x.id = prev PROVE FALSE
  <2>1. PICK d \in log : Precedes(d, e) /\ e.prev = d.id
    BY <1>1, <1>2, <1>4 DEF ChainIntact
  <2>2. d.seq = x.seq
    BY <1>1, <1>2, <1>4, <2>1 DEF Precedes
  <2> QED
    BY <1>1, <1>4, <2>1, <2>2 DEF ChainIntact, NoDuplicateSeq
<1> QED
  BY <1>3, <1>4 DEF WalkInv

-----------------------------------------------------------------------------
AlarmInv == FreshIds /\ NamesSettled /\ WalkInv /\ RightAlarm

(* Every step keeps the walk and the names.                                *)
LEMMA AlarmStep ==
    ASSUME TypeOK, HandlerOK, AlarmInv, resetStep PROVE AlarmInv'
<1> USE DEF AlarmInv
<1>1. CASE UNCHANGED <<spineVars, resetVars>>
  BY <1>1 DEF spineVars, resetVars, vars, procVars, auditVars, FreshIds, NamesSettled,
              Settled, InFlight, WalkInv, RightAlarm, ChainIntact, NoDuplicateSeq, Precedes
<1>2. ASSUME NEW p \in Procs, Delete(p) PROVE AlarmInv'
  <2>1. /\ reset = "none" /\ reset' = "deleted" /\ log' = {}
        /\ torn' = (walk # "none" /\ log # {})
        /\ UNCHANGED <<nextId, procVars, wire, auditVars, found>>
    BY <1>2 DEF Delete
  <2>2. FreshIds' /\ NamesSettled'
    BY <2>1 DEF procVars, FreshIds, NamesSettled, Settled, InFlight
  <2>3. WalkInv'
    BY <2>1 DEF auditVars, WalkInv
  <2>4. RightAlarm'
    BY <2>1 DEF auditVars, WalkInv, RightAlarm, ChainIntact, NoDuplicateSeq
  <2> QED
    BY <2>2, <2>3, <2>4
<1>3. CASE ReadTail
  <2>1. UNCHANGED <<spineVars, torn>> /\ found' \in Heads /\ reset' = "read"
    BY <1>3 DEF ReadTail
  <2>2. Settled(found'.hash)
    BY <2>1, HeadsSettled
  <2> QED
    BY <2>1, <2>2 DEF spineVars, vars, procVars, auditVars, FreshIds, NamesSettled,
       Settled, InFlight, WalkInv, RightAlarm, ChainIntact, NoDuplicateSeq, Precedes
<1>4. ASSUME NEW p \in Procs, SetTail(p) PROVE AlarmInv'
  <2>1. /\ UNCHANGED <<log, nextId, pc, doc, wire, auditVars, found, torn>>
        /\ reset' = "done" /\ SetHead(p, found)
    BY <1>4 DEF SetTail
  <2>2. \A q \in Procs : lastHash'[q] = lastHash[q] \/ lastHash'[q] = found.hash
    BY <2>1 DEF SetHead, TypeOK
  <2> QED
    BY <2>1, <2>2 DEF auditVars, FreshIds, NamesSettled, Settled, InFlight, WalkInv,
       RightAlarm, ChainIntact, NoDuplicateSeq, Precedes
<1>5. CASE Beside
  <2>1. [Next]_vars /\ found' = found /\ torn' = torn /\ (reset' = "none" => reset = "none")
    BY <1>5, BesideIsSpine DEF Beside
  <2>2. FreshIds' /\ NamesSettled'
    BY <2>1, FreshStep, NamesStep
  <2>3. CASE UNCHANGED auditVars
    BY <2>1, <2>2, <2>3, BrokenStays, SpineAccounts DEF auditVars, WalkInv, RightAlarm
  <2>4. CASE Begin /\ UNCHANGED vars
    BY <2>1, <2>2, <2>4 DEF Begin, WalkInv, RightAlarm
  <2>5. CASE Read /\ UNCHANGED vars
    <3>1. PICK e \in Ahead :
             IF Broken(e) THEN walk' = "broken" /\ UNCHANGED <<at, prev, verified>>
             ELSE at' = e.seq /\ prev' = e.id /\ UNCHANGED walk
      BY <2>5 DEF Read, Prev
    <3>2. walk = "walking" /\ log' = log /\ e \in log /\ e.seq \in Nat
      BY <2>5 DEF Read, Ahead, vars, TypeOK, Event
    <3>3. CASE Broken(e)
      <4>1. ~torn => ~ChainIntact
        BY <3>2, <3>3, BreakIsReal
      <4>2. ~torn' => ~ChainIntact'
        BY <2>1, <2>2, <4>1, BrokenStays
      <4> QED
        BY <2>1, <2>2, <3>1, <3>2, <3>3, <4>2 DEF WalkInv, RightAlarm
    <3>4. CASE ~Broken(e)
      BY <2>1, <2>2, <3>1, <3>2, <3>4 DEF WalkInv, RightAlarm
    <3> QED
      BY <3>3, <3>4
  <2>6. CASE Finish /\ UNCHANGED vars
    BY <2>1, <2>2, <2>6 DEF Finish, WalkInv, RightAlarm
  <2> QED
    BY <1>5, <2>3, <2>4, <2>5, <2>6 DEF Beside, AuditNext, AuditStep, Begin, Read, Finish
<1> QED
  BY <1>1, <1>2, <1>3, <1>4, <1>5 DEF ResetNext, resetStep

(* The invariant of the walk: where it stands, and the names settled.      *)
LEMMA AlarmInvHolds == ResetSpec => []AlarmInv
<1>1. ResetInit => AlarmInv
  BY SpineAssumption DEF ResetInit, AuditInit, Init, AlarmInv, FreshIds, NamesSettled,
     Settled, InFlight, WalkInv, RightAlarm, Genesis
<1>2. TypeOK /\ HandlerOK /\ AlarmInv /\ resetStep => AlarmInv'
  BY AlarmStep
<1> QED
  BY <1>1, <1>2, ResetTypes, PTL DEF ResetSpec, resetStep

(* However many processes append and whatever their inserts suffer: a      *)
(* report of a broken chain is right, unless a reset deleted documents     *)
(* under the walk.  (With the unique index, since the walk is modelled for *)
(* a log that has no seq twice.)                                           *)
THEOREM AlarmIsRight == ASSUME UniqueSeq PROVE ResetSpec => []RightAlarm
<1>1. AlarmInv => RightAlarm
  BY DEF AlarmInv
<1> QED
  BY <1>1, AlarmInvHolds, PTL

-----------------------------------------------------------------------------
(* A report of an intact chain covers what was stored when the walk began: *)
(* RightReport of AdminReset.                                              *)

(* e comes first among the events of S, or right after the one it names.   *)
InOrderIn(e, S) ==
    \/ e.prev = Genesis /\ \A f \in S : e.seq <= f.seq
    \/ \E d \in S : /\ e.prev = d.id /\ d.seq < e.seq
                    /\ \A f \in S : f.seq <= d.seq \/ e.seq <= f.seq

(* Until a reset tears the log: nothing the walk began with is gone, its   *)
(* predecessors were all there, what the cursor has passed of it is in     *)
(* order and was counted, and the cursor has passed it all at the end.     *)
Covered ==
    /\ began \subseteq log
    /\ \A e \in began : \A d \in log : d.id = e.prev => d \in began
    /\ \A e \in began : e.seq <= at => InOrderIn(e, began)
    /\ Cardinality({e \in began : e.seq <= at}) <= verified
    /\ walk = "intact" => \A e \in began : e.seq <= at

CoverInv == /\ NoDuplicateSeq /\ IsFiniteSet(log)
            /\ walk = "none" => began = {}
            /\ verified \in Nat
            /\ ~torn => Covered

(* With the unique index no step of the spine stores two events of one seq.*)
LEMMA SeqsStayApart ==
    ASSUME UniqueSeq, TypeOK, NoDuplicateSeq, IsFiniteSet(log), [Next]_vars
    PROVE  NoDuplicateSeq' /\ IsFiniteSet(log')
<1>1. ASSUME NEW d, log' = log \cup {d}, ~Conflict(d)
      PROVE  NoDuplicateSeq' /\ IsFiniteSet(log')
  BY <1>1, FS_AddElement DEF NoDuplicateSeq, Conflict
<1>2. CASE log' = log
  BY <1>2 DEF NoDuplicateSeq
<1>3. ASSUME NEW p \in Procs, Store(p) PROVE NoDuplicateSeq' /\ IsFiniteSet(log')
  BY <1>1, <1>3 DEF Store
<1>4. CASE LateInsert
  BY <1>1, <1>2, <1>4 DEF LateInsert
<1>5. ASSUME NEW p \in Procs, Proc(p), ~Store(p) PROVE log' = log
  BY <1>5 DEF Proc, Boot, StartAppend, Retry, Attempt, Refuse, GiveUp, Return,
              Reject, LoseAck, Crash
<1> QED
  BY <1>2, <1>3, <1>4, <1>5 DEF Next, vars

(* Where there is an event ahead of the cursor there is a first one.       *)
LEMMA FirstAhead ==
    ASSUME TypeOK, at \in Nat, NEW e \in log, e.seq > at PROVE Ahead # {}
<1> DEFINE T == {f.seq : f \in {g \in log : g.seq > at}}
<1>1. \A g \in log : g.seq \in Nat
  BY DEF TypeOK, Event
<1>2. T \subseteq Nat /\ e.seq \in T
  BY <1>1
<1>3. PICK n \in T : \A m \in T : ~(<<m, n>> \in OpToRel(<, Nat))
  <2> HIDE DEF T
  <2> QED
    BY <1>2, WFMin, NatLessThanWellFounded
<1>4. \A m \in T : n <= m
  <2> HIDE DEF T
  <2>1. n \in Nat /\ \A m \in T : m \in Nat /\ ~(m < n)
    BY <1>2, <1>3 DEF OpToRel
  <2> QED
    BY <2>1
<1>5. PICK f \in log : f.seq = n /\ f.seq > at
  BY <1>3
<1>6. \A g \in log : g.seq > at => f.seq <= g.seq
  BY <1>4, <1>5
<1> QED
  BY <1>5, <1>6 DEF Ahead

(* The document the cursor goes on to continues what it has covered.       *)
LEMMA ReadCovers ==
    ASSUME TypeOK, WalkInv, CoverInv, ~torn, walk = "walking", log' = log,
           began' = began, walk' = walk,
           NEW e \in Ahead, ~Broken(e), at' = e.seq, verified' = verified + 1
    PROVE  Covered'
<1>1. e \in log /\ e.seq > at /\ e.prev = prev /\ \A f \in log : f.seq > at => e.seq <= f.seq
  BY DEF Ahead, Broken
<1>2. at \in Nat /\ \A f \in log : f.seq \in Nat \ {0}
  BY DEF WalkInv, TypeOK, Event
<1>3. Covered /\ began \subseteq log
  BY DEF CoverInv, Covered
<1>4. \A f \in began : f.seq <= e.seq => f.seq <= at \/ f = e
  BY <1>1, <1>2, <1>3 DEF CoverInv, NoDuplicateSeq
<1>5. ASSUME e \in began PROVE InOrderIn(e, began)
  <2>1. CASE at = 0 /\ prev = Genesis
    BY <1>1, <1>2, <1>3, <2>1 DEF InOrderIn
  <2>2. ASSUME NEW x \in log, x.seq = at, x.id = prev PROVE InOrderIn(e, began)
    <3>1. x \in began
      BY <1>1, <1>3, <1>5, <2>2 DEF Covered
    <3>2. \A f \in began : f.seq <= x.seq \/ e.seq <= f.seq
      BY <1>1, <1>2, <1>3, <2>2
    <3>3. e.prev = x.id /\ x.seq < e.seq
      BY <1>1, <1>2, <2>2
    <3> QED
      BY <3>1, <3>2, <3>3 DEF InOrderIn
  <2> QED
    BY <2>1, <2>2 DEF WalkInv
<1>6. \A f \in began : f.seq <= e.seq => InOrderIn(f, began)
  BY <1>3, <1>4, <1>5 DEF Covered
<1>7. Cardinality({f \in began : f.seq <= e.seq}) <= verified + 1
  <2> DEFINE A == {f \in began : f.seq <= at}
             B == {f \in began : f.seq <= e.seq}
  <2>1. IsFiniteSet(A) /\ Cardinality(A) \in Nat /\ Cardinality(A) <= verified
    <3>1. IsFiniteSet(A)
      BY <1>3, FS_Subset DEF CoverInv
    <3> QED
      BY <1>3, <3>1, FS_CardinalityType DEF Covered
  <2>2. IsFiniteSet(A \cup {e}) /\ Cardinality(A \cup {e}) <= Cardinality(A) + 1
    <3> HIDE DEF A
    <3>1. /\ IsFiniteSet(A \cup {e})
          /\ Cardinality(A \cup {e}) = IF e \in A THEN Cardinality(A)
                                        ELSE Cardinality(A) + 1
      BY <2>1, FS_AddElement
    <3> QED
      BY <2>1, <3>1
  <2>3. B \subseteq A \cup {e}
    BY <1>4
  <2>4. /\ Cardinality(A \cup {e}) \in Nat /\ Cardinality(B) \in Nat
        /\ Cardinality(B) <= Cardinality(A \cup {e})
    <3>1. IsFiniteSet(B) /\ Cardinality(B) <= Cardinality(A \cup {e})
      BY <2>2, <2>3, FS_Subset
    <3> QED
      BY <2>2, <3>1, FS_CardinalityType
  <2> HIDE DEF A, B
  <2>5. Cardinality(B) <= verified + 1
    BY <2>1, <2>2, <2>4 DEF CoverInv
  <2> QED
    BY <2>5 DEF B
<1> QED
  BY <1>3, <1>6, <1>7 DEF Covered, InOrderIn

(* Every step keeps what the walk has covered.                             *)
LEMMA CoverStep ==
    ASSUME UniqueSeq, TypeOK, HandlerOK, AlarmInv, CoverInv, resetStep PROVE CoverInv'
<1>1. ASSUME UNCHANGED <<log, auditVars, torn>> PROVE CoverInv'
  BY <1>1 DEF auditVars, CoverInv, NoDuplicateSeq, Covered, InOrderIn
<1>2. CASE UNCHANGED <<spineVars, resetVars>> \/ ReadTail \/ \E p \in Procs : SetTail(p)
  BY <1>1, <1>2 DEF spineVars, resetVars, vars, ReadTail, SetTail
<1>3. ASSUME NEW p \in Procs, Delete(p) PROVE CoverInv'
  <2>1. /\ log' = {} /\ torn' = (walk # "none" /\ log # {}) /\ ~torn
        /\ UNCHANGED auditVars
    BY <1>3 DEF Delete, AlarmInv, WalkInv
  <2>2. NoDuplicateSeq' /\ IsFiniteSet(log')
    BY <2>1, FS_EmptySet DEF NoDuplicateSeq
  <2>3. ASSUME ~torn' PROVE Covered'
    <3>1. began = {}
      BY <2>1, <2>3 DEF CoverInv, Covered
    <3>2. {e \in began' : e.seq <= at'} = {} /\ began' = {}
      BY <2>1, <3>1 DEF auditVars
    <3> QED
      BY <2>1, <3>2, FS_EmptySet DEF CoverInv, Covered, auditVars
  <2> QED
    BY <2>1, <2>2, <2>3 DEF CoverInv, auditVars
<1>4. CASE Beside
  <2>1. [Next]_vars /\ torn' = torn
    BY <1>4, BesideIsSpine DEF Beside
  <2>2. NoDuplicateSeq' /\ IsFiniteSet(log')
    BY <2>1, SeqsStayApart DEF CoverInv
  <2>3. CASE UNCHANGED auditVars
    <3>1. ASSUME ~torn PROVE Covered'
      <4>1. ASSUME NEW e \in began, NEW d \in log', d.id = e.prev PROVE d \in began
        <5>1. e \in log /\ \A c \in InFlight : c.id # e.prev
          BY <3>1 DEF CoverInv, Covered, AlarmInv, NamesSettled, Settled
        <5>2. d \in log
          BY <2>1, <4>1, <5>1, LogStep
        <5> QED
          BY <3>1, <4>1, <5>2 DEF CoverInv, Covered
      <4>2. log \subseteq log'
        BY <2>1, SpineAccounts
      <4> QED
        BY <2>3, <3>1, <4>1, <4>2 DEF auditVars, CoverInv, Covered, InOrderIn
    <3> QED
      BY <2>1, <2>2, <2>3, <3>1 DEF CoverInv, auditVars
  <2>4. CASE Begin /\ UNCHANGED vars
    <3>1. /\ began' = log /\ log' = log /\ walk' = "walking" /\ at' = 0 /\ at = 0
          /\ verified' = verified
      BY <2>4 DEF Begin, vars, AlarmInv, WalkInv
    <3>2. \A e \in log : ~(e.seq <= 0)
      BY DEF TypeOK, Event
    <3>3. {e \in began' : e.seq <= at'} = {}
      BY <3>1, <3>2
    <3> QED
      BY <2>1, <2>2, <3>1, <3>2, <3>3, FS_EmptySet DEF CoverInv, Covered
  <2>5. CASE Read /\ UNCHANGED vars
    <3>1. PICK e \in Ahead :
             IF Broken(e) THEN walk' = "broken" /\ UNCHANGED <<at, prev, verified>>
             ELSE at' = e.seq /\ verified' = verified + 1 /\ UNCHANGED walk
      BY <2>5 DEF Read
    <3>2. walk = "walking" /\ log' = log /\ began' = began
      BY <2>5 DEF Read, vars
    <3>3. CASE Broken(e)
      BY <2>1, <2>2, <3>1, <3>2, <3>3 DEF CoverInv, Covered, InOrderIn
    <3>4. CASE ~Broken(e)
      <4>1. ~torn => Covered'
        BY <3>1, <3>2, <3>4, ReadCovers DEF AlarmInv
      <4> QED
        BY <2>1, <2>2, <3>1, <3>2, <3>4, <4>1 DEF CoverInv
    <3> QED
      BY <3>3, <3>4
  <2>6. CASE Finish /\ UNCHANGED vars
    <3>1. /\ Ahead = {} /\ walk' = "intact" /\ walk = "walking"
          /\ UNCHANGED <<log, at, verified, began>>
      BY <2>6 DEF Finish, vars
    <3>2. \A e \in log : e.seq <= at
      <4>1. at \in Nat /\ \A e \in log : e.seq \in Nat
        BY DEF AlarmInv, WalkInv, TypeOK, Event
      <4> QED
        BY <3>1, <4>1, FirstAhead
    <3> QED
      BY <2>1, <2>2, <3>1, <3>2 DEF CoverInv, Covered, InOrderIn
  <2> QED
    BY <1>4, <2>3, <2>4, <2>5, <2>6 DEF Beside, AuditNext, AuditStep, Begin, Read, Finish
<1> QED
  BY <1>2, <1>3, <1>4 DEF ResetNext, resetStep

(* With the unique index, whatever inserts suffer and however many          *)
(* processes append, collide and die meanwhile: a report of an intact chain *)
(* counted all that was stored when the walk began, and that was a chain,   *)
(* unless a reset deleted documents under the walk.                         *)
THEOREM ReportIsRight == ASSUME UniqueSeq PROVE ResetSpec => []RightReport
<1>1. ResetInit => CoverInv
  <2> SUFFICES ASSUME ResetInit PROVE CoverInv
    OBVIOUS
  <2>1. log = {} /\ began = {} /\ at = 0 /\ verified = 0 /\ walk = "none"
    BY DEF ResetInit, AuditInit, Init
  <2>2. {e \in began : e.seq <= at} = {}
    BY <2>1
  <2> QED
    BY <2>1, <2>2, FS_EmptySet DEF CoverInv, Covered, NoDuplicateSeq
<1>2. TypeOK /\ HandlerOK /\ AlarmInv /\ CoverInv /\ resetStep => CoverInv'
  BY CoverStep
<1>3. CoverInv => RightReport
  <2> SUFFICES ASSUME CoverInv, ~torn, walk = "intact" PROVE
         /\ verified >= Cardinality(began)
         /\ \A e \in began : e.seq <= at
         /\ IntactIn(began)
    BY DEF RightReport, CoversTheStart
  <2>1. Covered /\ IsFiniteSet(began)
    BY FS_Subset DEF CoverInv, Covered
  <2>2. {e \in began : e.seq <= at} = began
    BY <2>1 DEF Covered
  <2>3. verified \in Nat /\ Cardinality(began) \in Nat /\ Cardinality(began) <= verified
    BY <2>1, <2>2, FS_CardinalityType DEF CoverInv, Covered
  <2>4. IntactIn(began)
    BY <2>1 DEF Covered, IntactIn, InOrderIn
  <2> QED
    BY <2>1, <2>3, <2>4 DEF Covered
<1>4. ResetSpec => [](TypeOK /\ HandlerOK /\ AlarmInv)
  BY ResetTypes, AlarmInvHolds, PTL
<1> QED
  BY <1>1, <1>2, <1>3, <1>4, PTL DEF ResetSpec, resetStep
=============================================================================
