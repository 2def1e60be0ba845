----------------------------- MODULE ChainAudit -----------------------------
(***************************************************************************)
(* verify_chain (GET /audit/verify): a cursor walks event_log in seq order *)
(* while the processes of EventSpine keep appending to it.  The cursor is  *)
(* no snapshot: each batch is read when the driver asks for it, so every   *)
(* document is taken to be read at a moment of its own.                    *)
(***************************************************************************)
EXTENDS EventSpine, FiniteSets

VARIABLES walk,      \* "none", "walking", "intact" or "broken": the report
          at,        \* seq of the last document read, 0 before the first
          prev,      \* the hash the next document must name
          verified,  \* the report's count
          began      \* the log when the walk began (history)

auditVars == <<walk, at, prev, verified, began>>

AuditInit == /\ Init
             /\ walk = "none" /\ at = 0 /\ prev = Genesis /\ verified = 0
             /\ began = {}

(* find().sort("seq", 1) *)
Begin == /\ walk = "none"
         /\ walk' = "walking"
         /\ began' = log
         /\ UNCHANGED <<vars, at, prev, verified>>

(* What the cursor may yield next, from a log in which no seq is there     *)
(* twice: without the unique index the walk is not this one.               *)
Ahead == {e \in log : /\ e.seq > at
                      /\ \A f \in log : f.seq > at => e.seq <= f.seq}

\* mutant: both comparisons are left out
NeverBroken(e) == FALSE
\* mutant: the chain is followed by seq, so a burned seq looks like a break
BrokenBySeq(e) == e.seq # at + 1
(* The document does not continue the chain.  Its own hash is right by     *)
(* construction, so both tests of the code come down to prev_hash.         *)
Broken(e) == e.prev # prev

(* prev = doc["hash"] *)
Prev(e) == e.id

(* One document of the cursor; the first broken one ends the walk. *)
Read == /\ walk = "walking"
        /\ \E e \in Ahead :
             IF Broken(e)
             THEN walk' = "broken" /\ UNCHANGED <<at, prev, verified>>
             ELSE /\ at' = e.seq
                  /\ prev' = Prev(e)
                  /\ verified' = verified + 1
                  /\ UNCHANGED walk
        /\ UNCHANGED <<vars, began>>

(* The cursor is exhausted. *)
Finish == /\ walk = "walking"
          /\ Ahead = {}
          /\ walk' = "intact"
          /\ UNCHANGED <<vars, at, prev, verified, began>>

AuditStep == Begin \/ Read \/ Finish

AuditNext == AuditStep \/ (Next /\ UNCHANGED auditVars)

AuditSpec == AuditInit /\ [][AuditNext]_<<vars, auditVars>>

-----------------------------------------------------------------------------
(* No false alarm: a report of a broken chain is right, however many       *)
(* appends, conflicts, burned sequence numbers and late inserts the walk   *)
(* ran into.                                                               *)
NoFalseAlarm == walk = "broken" => ~ChainIntact

(* The events of S, walked on their own, are a chain from genesis. *)
IntactIn(S) ==
    \A e \in S :
       \/ e.prev = Genesis /\ \A f \in S : e.seq <= f.seq
       \/ \E d \in S : /\ e.prev = d.id /\ d.seq < e.seq
                       /\ \A f \in S : f.seq <= d.seq \/ e.seq <= f.seq

(* A report of an intact chain covers at least what was stored when the    *)
(* walk began: each of those events was counted, and they were a chain.    *)
CoversTheStart ==
    walk = "intact" => /\ verified >= Cardinality(began)
                       /\ \A e \in began : e.seq <= at
                       /\ IntactIn(began)

(* The count and the head of a report belong together: as many events were *)
(* verified as the log has up to that head.  (An insert of a dead process  *)
(* could fill a burned seq behind the cursor; while no insert fails and    *)
(* leaves its process alive there is none to fill.)                        *)
CountMatchesHead ==
    walk = "intact" => verified = Cardinality({e \in log : e.seq <= at})
=============================================================================
