------------------------------ MODULE OrderDiff ------------------------------
(***************************************************************************)
(* The pure part of the pipeline: compute_diff and merge_diffs             *)
(* (app/diff.py), classify (app/intent.py) and INTENT_PRIORITY             *)
(* (app/models.py).  An order document is a function from the fields it    *)
(* has to their values; a diff is a set of entries, at most one a field.   *)
(***************************************************************************)

CONSTANTS Fields,    \* the fields of an order document, "status" and "price"
                     \* among them
          Ignored,   \* IGNORED_FIELDS
          Values,    \* what a field may hold
          None,      \* Python's None as a field value
          NoDoc      \* Python's None in place of a document

Docs == UNION {[F -> Values \cup {None}] : F \in SUBSET Fields}

ASSUME DocAssumption == NoDoc \notin Docs

(* dict.get *)
Get(d, f) == IF f \in DOMAIN d THEN d[f] ELSE None

Entry(f, b, a) == [field |-> f, before |-> b, after |-> a]

Diffs == [field : Fields, before : Values \cup {None}, after : Values \cup {None}]

ChangedFields(b, a) ==
    {f \in (DOMAIN b \cup DOMAIN a) \ Ignored : Get(b, f) # Get(a, f)}

\* mutant: only the fields of the new document are compared
DiffOfAfter(before, after) ==
    IF before = NoDoc \/ after = NoDoc THEN {}
    ELSE {Entry(f, Get(before, f), Get(after, f)) :
             f \in ChangedFields(before, after) \cap DOMAIN after}
ComputeDiff(before, after) ==
    IF before = NoDoc /\ after = NoDoc THEN {}
    ELSE IF before = NoDoc
         THEN {Entry(f, None, after[f]) : f \in DOMAIN after \ Ignored}
    ELSE IF after = NoDoc
         THEN {Entry(f, before[f], None) : f \in DOMAIN before \ Ignored}
    ELSE {Entry(f, Get(before, f), Get(after, f)) :
             f \in ChangedFields(before, after)}

\* mutant: the later entry replaces the earlier one, before value and all
MergeByReplacing(initial, latest) ==
    latest \cup {e \in initial : \A l \in latest : l.field # e.field}
(* One entry a field: from the before of the first to the after of the     *)
(* last; a field that came back to where it was drops out.                 *)
MergeDiffs(initial, latest) ==
    {e \in {Entry(p[1].field, p[1].before, p[2].after) :
               p \in {q \in initial \X latest : q[1].field = q[2].field}}
             \cup {i \in initial : \A l \in latest : l.field # i.field}
             \cup {l \in latest : \A i \in initial : i.field # l.field}
       : e.before # e.after}

(* What a diff tells, but for entries that change nothing: compute_diff    *)
(* has one for each field that holds None where it has no before image,    *)
(* and merge_diffs drops it.                                               *)
Changes(diff) == {e \in diff : e.before # e.after}

Intents == {"new_order", "status_change", "cancellation", "price_correction",
            "deletion", "other"}

(* The intent of a change; the order of the tests matters.  before may be  *)
(* NoDoc for an update of a document the cache does not hold.              *)
Classify(op, before, after, diff) ==
    LET changed == {e.field : e \in diff}
        Status(d) == IF d = NoDoc THEN None ELSE Get(d, "status")
    IN CASE op = "insert" -> "new_order"
         [] op = "delete" -> "deletion"
         [] OTHER ->
              IF "status" \in changed
              THEN IF Status(after) = "cancelled" /\ Status(before) # "cancelled"
                   THEN "cancellation" ELSE "status_change"
              ELSE IF "price" \in changed THEN "price_correction"
              ELSE "other"

(* INTENT_PRIORITY *)
Priority(intent) ==
    CASE intent \in {"cancellation", "new_order", "deletion"} -> "urgent"
      [] intent \in {"status_change", "other"} -> "normal"
      [] intent = "price_correction" -> "low"
=============================================================================
