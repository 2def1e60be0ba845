------------------------------ MODULE AuditLog ------------------------------
(***************************************************************************)
(* What the event spine promises, with no process, database or retry in    *)
(* it: a list of entries, each naming the entry before it by its hash,     *)
(* that grows only at its head and in which nothing is ever changed.       *)
(***************************************************************************)
CONSTANTS Ids,       \* the names (hashes) an entry can have
          Genesis    \* what the first entry names as its predecessor

VARIABLES entries,   \* the set of entries [id, prev]
          head       \* the hash of the newest entry, Genesis when there is none

Init == /\ entries = {}
        /\ head = Genesis

(* A new entry is linked to the head and becomes the head. *)
Append(id) ==
    /\ id # Genesis
    /\ \A e \in entries : e.id # id
    /\ entries' = entries \cup {[id |-> id, prev |-> head]}
    /\ head' = id

Next == \E id \in Ids : Append(id)

Spec == Init /\ [][Next]_<<entries, head>>
=============================================================================
