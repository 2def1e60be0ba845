------------------------------ MODULE AdminReset ------------------------------
(***************************************************************************)
(* POST /admin/reset (routes/admin.py) on the spine of EventSpine, with    *)
(* the walk of ChainAudit beside it.  One process serves the request: it   *)
(* deletes the events, and reads the chain tail again without the lock of  *)
(* append, while its own watcher and the other processes go on appending   *)
(* (the deletions of the orders among it).                                 *)
(*                                                                         *)
(* A behaviour has one reset, in whatever state the log has got into.  The *)
(* deletion is taken as one step, and the _refresh_head of a conflict in   *)
(* the same process does not cross with the one of the reset.              *)
(***************************************************************************)
EXTENDS ChainAudit

VARIABLES reset,    \* where the handler is: "none", "deleted", "read", "done"
          by,       \* the processes that serve the request: none or one
          found,    \* what find_one answered to its _refresh_head
          deleted,  \* the events deleted (history)
          torn,     \* was any of them deleted once the walk had begun (history)
          quiet     \* has nothing disturbed the reset (history)

resetVars == <<reset, by, found, deleted, torn, quiet>>
spineVars == <<vars, auditVars>>

ResetInit == /\ AuditInit
             /\ reset = "none" /\ by = {}
             /\ found = [seq |-> 0, hash |-> Genesis]
             /\ deleted = {} /\ torn = FALSE /\ quiet = TRUE

-----------------------------------------------------------------------------
(* What a reset needs for itself while it deletes: nothing is on its way   *)
(* to the log, and no other process has a copy of its tail.                *)
Alone(p) == wire = {} /\ \A q \in Procs : pc[q] = IF q = p THEN "idle" ELSE "down"

(* delete_many of the events. *)
Delete(p) ==
    /\ reset = "none" /\ pc[p] # "down"
    /\ reset' = "deleted" /\ by' = {p}
    /\ log' = {} /\ deleted' = log
    /\ torn' = (walk # "none" /\ log # {})
    /\ quiet' = Alone(p)
    /\ UNCHANGED <<nextId, procVars, wire, returned, auditVars, found>>

(* The server answers the find_one of _refresh_head. *)
ReadTail == /\ reset = "deleted"
            /\ found' \in Heads
            /\ reset' = "read"
            /\ UNCHANGED <<spineVars, by, deleted, torn, quiet>>

\* mutant: the deletion is all a reset does
KeepTail(p) ==
    /\ reset = "read" /\ by = {p}
    /\ reset' = "done" /\ by' = {}
    /\ UNCHANGED <<spineVars, found, deleted, torn, quiet>>
(* The handler goes on and sets the tail of its process, whatever append   *)
(* of the same process is doing.                                           *)
SetTail(p) ==
    /\ reset = "read" /\ by = {p}
    /\ SetHead(p, found)
    /\ reset' = "done" /\ by' = {}
    /\ UNCHANGED <<log, nextId, pc, doc, attempt, wire, returned, auditVars, found,
                   deleted, torn, quiet>>

-----------------------------------------------------------------------------
(* No insert fails, and the process that resets does not append meanwhile. *)
Undisturbed == /\ \A p \in Procs : ~Reject(p) /\ ~LoseAck(p)
               /\ \A p \in by : pc'[p] = "idle"

(* The rest of the system beside the reset, which dies with its process.   *)
Beside ==
    /\ AuditNext
    /\ IF \E p \in by : pc'[p] = "down"
       THEN reset' = "done" /\ by' = {} /\ quiet' = FALSE
       ELSE quiet' = (quiet /\ Undisturbed) /\ UNCHANGED <<reset, by>>
    /\ UNCHANGED <<found, deleted, torn>>

ResetNext == \/ \E p \in Procs : Delete(p) \/ SetTail(p)
             \/ ReadTail
             \/ Beside

ResetSpec == ResetInit /\ [][ResetNext]_<<spineVars, resetVars>>

-----------------------------------------------------------------------------
(* The outbox under resets: what went downstream is in the log or was      *)
(* deleted by a reset, whatever failed, crossed or crashed before.         *)
OutboxAccounted == returned \subseteq log \cup deleted

(* An undisturbed reset heals: from whatever log and tails it found, lost  *)
(* answers and burned numbers included, the log starts over at seq 1 and   *)
(* genesis and is a chain without gaps, as long as no insert fails again,  *)
(* however many processes append to it from then on.                       *)
ResetHeals == reset = "done" /\ quiet => ChainIntact /\ Gapless

(* A report of a broken chain is right, unless a reset deleted documents   *)
(* after the walk had begun ...                                            *)
RightAlarm == walk = "broken" /\ ~torn => ~ChainIntact

(* ... and so is a report of an intact one: it covers what was stored when *)
(* the walk began.                                                         *)
RightReport == torn \/ CoversTheStart
=============================================================================
