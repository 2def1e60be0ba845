------------------------------ MODULE DiffWalk ------------------------------
(***************************************************************************)
(* A document that is updated again and again, with the diff of each       *)
(* update merged into the diff so far: merge_diffs the way its docstring   *)
(* describes it (app/diff.py:44-46), against compute_diff on the two ends. *)
(***************************************************************************)
EXTENDS OrderDiff

VARIABLES first,    \* the document when the window opened
          latest,   \* the document now
          merged    \* the updates between them, merged one by one

Init == /\ first \in Docs
        /\ latest = first
        /\ merged = {}

Update == \E d \in Docs :
             /\ latest' = d
             /\ merged' = MergeDiffs(merged, ComputeDiff(latest, d))
             /\ UNCHANGED first

Spec == Init /\ [][Update]_<<first, latest, merged>>

(* However many updates are merged, the result is the diff between the two *)
(* ends, with one entry a field.                                           *)
MergedIsExact == merged = ComputeDiff(first, latest)

(* What a client gets that applies a diff to the document it has. *)
Patch(d, diff) ==
    [f \in DOMAIN d \cup {e.field : e \in diff} |->
        IF \E e \in diff : e.field = f
        THEN (CHOOSE e \in diff : e.field = f).after ELSE d[f]]

(* A merged diff, applied to the first document, gives the latest one in   *)
(* every field that is not ignored.                                        *)
PatchReaches ==
    \A f \in Fields \ Ignored : Get(Patch(first, merged), f) = Get(latest, f)
=============================================================================
