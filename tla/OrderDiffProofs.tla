--------------------------- MODULE OrderDiffProofs ---------------------------
(***************************************************************************)
(* Theorems about the diffs, for any fields and values: of two documents,  *)
(* and of a document that is updated again and again.                      *)
(***************************************************************************)
EXTENDS DiffWalk, TLAPS

(* The diff of an update, entry by entry. *)
LEMMA UpdateDiff ==
    ASSUME NEW b \in Docs, NEW a \in Docs, NEW e
    PROVE  e \in ComputeDiff(b, a) <=>
              \E f \in (DOMAIN b \cup DOMAIN a) \ Ignored :
                 Get(b, f) # Get(a, f) /\ e = Entry(f, Get(b, f), Get(a, f))
<1>1. b # NoDoc /\ a # NoDoc
  BY DocAssumption
<1> QED
  BY <1>1 DEF ComputeDiff, ChangedFields

(* A document holds nothing in the fields it does not have. *)
LEMMA GetOutside == ASSUME NEW d, NEW f, f \notin DOMAIN d PROVE Get(d, f) = None
BY DEF Get

(* The promise of merge_diffs' docstring for two updates in a row: what is *)
(* merged goes from the first before to the last after.                    *)
THEOREM MergeTwo ==
    ASSUME NEW b \in Docs, NEW m \in Docs, NEW a \in Docs
    PROVE  MergeDiffs(ComputeDiff(b, m), ComputeDiff(m, a)) = ComputeDiff(b, a)
<1> DEFINE I == ComputeDiff(b, m)
           L == ComputeDiff(m, a)
           Both == {Entry(p[1].field, p[1].before, p[2].after) :
                      p \in {q \in I \X L : q[1].field = q[2].field}}
<1>1. \A e : e \in I <=> \E f : /\ f \notin Ignored /\ Get(b, f) # Get(m, f)
                                /\ e = Entry(f, Get(b, f), Get(m, f))
  BY UpdateDiff, GetOutside
<1>2. \A e : e \in L <=> \E f : /\ f \notin Ignored /\ Get(m, f) # Get(a, f)
                                /\ e = Entry(f, Get(m, f), Get(a, f))
  BY UpdateDiff, GetOutside
<1>3. \A e : e \in ComputeDiff(b, a) <=>
               \E f : /\ f \notin Ignored /\ Get(b, f) # Get(a, f)
                      /\ e = Entry(f, Get(b, f), Get(a, f))
  BY UpdateDiff, GetOutside
<1>4. \A f, x, y : /\ Entry(f, x, y).field = f
                   /\ Entry(f, x, y).before = x
                   /\ Entry(f, x, y).after = y
  BY DEF Entry
<1>5. \A e : e \in Both <=>
               \E f : /\ f \notin Ignored
                      /\ Get(b, f) # Get(m, f) /\ Get(m, f) # Get(a, f)
                      /\ e = Entry(f, Get(b, f), Get(a, f))
  <2>1. ASSUME NEW e \in Both
        PROVE  \E f : /\ f \notin Ignored
                      /\ Get(b, f) # Get(m, f) /\ Get(m, f) # Get(a, f)
                      /\ e = Entry(f, Get(b, f), Get(a, f))
    <3>1. PICK i \in I, l \in L : /\ i.field = l.field
                                  /\ e = Entry(i.field, i.before, l.after)
      OBVIOUS
    <3> HIDE DEF I, L, Both
    <3> QED
      BY <3>1, <1>1, <1>2, <1>4
  <2>2. ASSUME NEW f, f \notin Ignored,
               Get(b, f) # Get(m, f), Get(m, f) # Get(a, f)
        PROVE  Entry(f, Get(b, f), Get(a, f)) \in Both
    <3> DEFINE i == Entry(f, Get(b, f), Get(m, f))
               l == Entry(f, Get(m, f), Get(a, f))
    <3>1. i \in I /\ l \in L
      BY <2>2, <1>1, <1>2
    <3>2. <<i, l>> \in {p \in I \X L : p[1].field = p[2].field}
      BY <3>1, <1>4
    <3>3. Entry(i.field, i.before, l.after) \in Both
      BY <3>2
    <3> QED
      BY <3>3, <1>4
  <2> QED
    BY <2>1, <2>2
<1>6. \A f : f \notin Ignored =>
         /\ (\A l \in L : l.field # f) <=> Get(m, f) = Get(a, f)
         /\ (\A i \in I : i.field # f) <=> Get(b, f) = Get(m, f)
  <2> HIDE DEF I, L
  <2> QED
    BY <1>1, <1>2, <1>4
<1>7. \A e : e \in MergeDiffs(I, L) <=>
               /\ e.before # e.after
               /\ \/ e \in Both
                  \/ e \in I /\ \A l \in L : l.field # e.field
                  \/ e \in L /\ \A i \in I : i.field # e.field
  BY DEF MergeDiffs
<1>8. \A e : e \in MergeDiffs(I, L) <=> e \in ComputeDiff(b, a)
  <2> HIDE DEF I, L, Both
  <2>1. ASSUME NEW e, e \in MergeDiffs(I, L) PROVE e \in ComputeDiff(b, a)
    <3>1. CASE e \in Both
      BY <2>1, <3>1, <1>3, <1>4, <1>5, <1>7
    <3>2. CASE e \in I /\ \A l \in L : l.field # e.field
      BY <2>1, <3>2, <1>1, <1>3, <1>4, <1>6, <1>7
    <3>3. CASE e \in L /\ \A i \in I : i.field # e.field
      BY <2>1, <3>3, <1>2, <1>3, <1>4, <1>6, <1>7
    <3> QED
      BY <2>1, <3>1, <3>2, <3>3, <1>7
  <2>2. ASSUME NEW e, e \in ComputeDiff(b, a) PROVE e \in MergeDiffs(I, L)
    <3>1. PICK f : /\ f \notin Ignored /\ Get(b, f) # Get(a, f)
                   /\ e = Entry(f, Get(b, f), Get(a, f))
      BY <2>2, <1>3
    <3>2. e.before # e.after /\ e.field = f
      BY <3>1, <1>4
    <3>3. CASE Get(b, f) # Get(m, f) /\ Get(m, f) # Get(a, f)
      BY <3>1, <3>2, <3>3, <1>5, <1>7
    <3>4. CASE Get(m, f) = Get(a, f)
      BY <3>1, <3>2, <3>4, <1>1, <1>6, <1>7
    <3>5. CASE Get(b, f) = Get(m, f)
      BY <3>1, <3>2, <3>5, <1>2, <1>6, <1>7
    <3> QED
      BY <3>3, <3>4, <3>5
  <2> QED
    BY <2>1, <2>2
<1> QED
  BY <1>8

(* The diff of a document that appears, entry by entry.                    *)
LEMMA FirstDiff ==
    ASSUME NEW a \in Docs, NEW e
    PROVE  e \in ComputeDiff(NoDoc, a) <=>
              \E f \in DOMAIN a \ Ignored : e = Entry(f, None, Get(a, f))
<1>1. a # NoDoc
  BY DocAssumption
<1> QED
  BY <1>1 DEF ComputeDiff, Get

(* The same of an update that finds no before image (the cache did not     *)
(* hold the order), merged with the next update: the result tells what     *)
(* there is now, against nothing.                                          *)
THEOREM MergeFresh ==
    ASSUME NEW m \in Docs, NEW a \in Docs
    PROVE  Changes(MergeDiffs(ComputeDiff(NoDoc, m), ComputeDiff(m, a)))
             = Changes(ComputeDiff(NoDoc, a))
<1> DEFINE I == ComputeDiff(NoDoc, m)
           L == ComputeDiff(m, a)
           M == MergeDiffs(I, L)
           Both == {Entry(p[1].field, p[1].before, p[2].after) :
                      p \in {q \in I \X L : q[1].field = q[2].field}}
           Tells(e) == \E f : /\ f \notin Ignored /\ Get(a, f) # None
                              /\ e = Entry(f, None, Get(a, f))
<1>1. \A e : e \in I <=> \E f : /\ f \notin Ignored /\ f \in DOMAIN m
                                /\ e = Entry(f, None, Get(m, f))
  BY FirstDiff
<1>2. \A e : e \in L <=> \E f : /\ f \notin Ignored /\ Get(m, f) # Get(a, f)
                                /\ e = Entry(f, Get(m, f), Get(a, f))
  BY UpdateDiff, GetOutside
<1>3. \A f, x, y : /\ Entry(f, x, y).field = f
                   /\ Entry(f, x, y).before = x
                   /\ Entry(f, x, y).after = y
  BY DEF Entry
<1>4. \A e : e \in Changes(ComputeDiff(NoDoc, a)) <=> Tells(e)
  BY FirstDiff, GetOutside, <1>3 DEF Changes
<1>5. \A e : e \in M <=> /\ e.before # e.after
                         /\ \/ e \in Both
                            \/ e \in I /\ \A l \in L : l.field # e.field
                            \/ e \in L /\ \A i \in I : i.field # e.field
  BY DEF MergeDiffs
<1>6. Changes(M) = M
  <2> HIDE DEF M
  <2> QED
    BY <1>5 DEF Changes
<1>7. ASSUME NEW e \in M PROVE Tells(e)
  <2>1. CASE e \in Both
    <3>1. PICK i \in I, l \in L : i.field = l.field
                                 /\ e = Entry(i.field, i.before, l.after)
      BY <2>1
    <3>2. e.before # e.after
      BY <1>5
    <3> HIDE DEF I, L, M, Both
    <3> QED
      BY <3>1, <3>2, <1>1, <1>2, <1>3
  <2>2. CASE e \in I /\ \A l \in L : l.field # e.field
    <3>1. PICK f : f \notin Ignored /\ f \in DOMAIN m /\ e = Entry(f, None, Get(m, f))
      BY <2>2, <1>1
    <3>2. Get(m, f) = Get(a, f)
      <4> HIDE DEF I, L, M
      <4> QED
        BY <2>2, <3>1, <1>2, <1>3
    <3>3. e.before # e.after
      BY <1>5
    <3> QED
      BY <3>1, <3>2, <3>3, <1>3
  <2>3. CASE e \in L /\ \A i \in I : i.field # e.field
    <3>1. PICK f : /\ f \notin Ignored /\ Get(m, f) # Get(a, f)
                   /\ e = Entry(f, Get(m, f), Get(a, f))
      BY <2>3, <1>2
    <3>2. f \notin DOMAIN m
      <4> HIDE DEF I, L, M
      <4> QED
        BY <2>3, <3>1, <1>1, <1>3
    <3> QED
      BY <3>1, <3>2, GetOutside
  <2> HIDE DEF I, L, M, Both, Tells
  <2> QED
    BY <2>1, <2>2, <2>3, <1>5
<1>8. ASSUME NEW f, f \notin Ignored, Get(a, f) # None
      PROVE  Entry(f, None, Get(a, f)) \in M
  <2> DEFINE e == Entry(f, None, Get(a, f))
  <2>1. e.before # e.after /\ e.field = f
    BY <1>3, <1>8
  <2>2. CASE f \in DOMAIN m /\ Get(m, f) # Get(a, f)
    <3> DEFINE i == Entry(f, None, Get(m, f))
               l == Entry(f, Get(m, f), Get(a, f))
    <3>1. i \in I /\ l \in L
      BY <1>8, <2>2, <1>1, <1>2
    <3>2. <<i, l>> \in {q \in I \X L : q[1].field = q[2].field}
      BY <3>1, <1>3
    <3>3. Entry(i.field, i.before, l.after) \in Both
      BY <3>2
    <3>4. e \in Both
      BY <3>3, <1>3
    <3> HIDE DEF I, L, M, Both
    <3> QED
      BY <2>1, <3>4, <1>5
  <2>3. CASE f \in DOMAIN m /\ Get(m, f) = Get(a, f)
    <3> HIDE DEF I, L, M, Both
    <3>1. e \in I /\ \A l \in L : l.field # f
      BY <1>8, <2>3, <1>1, <1>2, <1>3
    <3> QED
      BY <2>1, <3>1, <1>5
  <2>4. CASE f \notin DOMAIN m
    <3>1. Get(m, f) = None
      BY <2>4, GetOutside
    <3> HIDE DEF I, L, M, Both
    <3>2. e \in L /\ \A i \in I : i.field # f
      BY <1>8, <2>4, <3>1, <1>1, <1>2, <1>3
    <3> QED
      BY <2>1, <3>2, <1>5
  <2> QED
    BY <2>2, <2>3, <2>4
<1> HIDE DEF I, L, M
<1>9. Changes(M) = Changes(ComputeDiff(NoDoc, a))
  BY <1>4, <1>6, <1>7, <1>8
<1> QED
  BY <1>9 DEF I, L, M

(* Diffs are made of entries, computed or merged. *)
LEMMA ComputedDiffs ==
    ASSUME NEW b \in Docs \cup {NoDoc}, NEW a \in Docs \cup {NoDoc}
    PROVE  ComputeDiff(b, a) \in SUBSET Diffs
<1>1. \A d \in Docs : /\ DOMAIN d \subseteq Fields
                     /\ \A f \in DOMAIN d : d[f] \in Values \cup {None}
  BY DEF Docs
<1>2. \A d \in Docs : \A f : Get(d, f) \in Values \cup {None}
  BY <1>1 DEF Get
<1>3. \A f \in Fields : \A x, y \in Values \cup {None} : Entry(f, x, y) \in Diffs
  BY DEF Entry, Diffs
<1>4. CASE b = NoDoc \/ a = NoDoc
  BY <1>1, <1>3, <1>4 DEF ComputeDiff
<1>5. CASE b # NoDoc /\ a # NoDoc
  <2>1. ComputeDiff(b, a) = {Entry(f, Get(b, f), Get(a, f)) : f \in ChangedFields(b, a)}
    BY <1>5 DEF ComputeDiff
  <2>2. ChangedFields(b, a) \subseteq Fields
    BY <1>1, <1>5 DEF ChangedFields
  <2> QED
    BY <2>1, <2>2, <1>2, <1>3, <1>5
<1> QED
  BY <1>4, <1>5

(* What merge_diffs makes is a diff.                                       *)
LEMMA MergedDiffs ==
    ASSUME NEW I \in SUBSET Diffs, NEW L \in SUBSET Diffs
    PROVE  MergeDiffs(I, L) \in SUBSET Diffs
BY DEF MergeDiffs, Diffs, Entry

-----------------------------------------------------------------------------
(* Documents that are updated again and again (DiffWalk).                  *)
Inv == first \in Docs /\ latest \in Docs /\ MergedIsExact

(* What was merged is exact at every moment.                               *)
LEMMA InvHolds == Spec => []Inv
<1>1. Init => Inv
  <2> SUFFICES ASSUME Init PROVE ComputeDiff(first, first) = {}
    BY DEF Init, Inv, MergedIsExact
  <2> QED
    BY UpdateDiff DEF Init
<1>2. Inv /\ [Update]_<<first, latest, merged>> => Inv'
  <2> SUFFICES ASSUME Inv, [Update]_<<first, latest, merged>> PROVE Inv'
    OBVIOUS
  <2>1. CASE Update
    <3>1. PICK d \in Docs :
             latest' = d /\ merged' = MergeDiffs(merged, ComputeDiff(latest, d))
      BY <2>1 DEF Update
    <3>2. merged' = ComputeDiff(first, d)
      BY <3>1, MergeTwo DEF Inv, MergedIsExact
    <3> QED
      BY <2>1, <3>1, <3>2 DEF Update, Inv, MergedIsExact
  <2>2. CASE UNCHANGED <<first, latest, merged>>
    BY <2>2 DEF Inv, MergedIsExact
  <2> QED
    BY <2>1, <2>2
<1> QED
  BY <1>1, <1>2, PTL DEF Spec

(* By MergeTwo, any number of updates merged one after the other is the    *)
(* diff of the two ends (merge_diffs).                                     *)
THEOREM MergeMany == Spec => []MergedIsExact
BY InvHolds, PTL DEF Inv

(* Applied to the document the window opened with, what was merged gives   *)
(* the latest one in every field that compute_diff looks at.               *)
THEOREM PatchAlwaysReaches == Spec => []PatchReaches
<1>1. Inv => PatchReaches
  <2> SUFFICES ASSUME Inv, NEW f \in Fields \ Ignored
               PROVE  Get(Patch(first, merged), f) = Get(latest, f)
    BY DEF PatchReaches
  <2>1. \A e : e \in merged <=>
             \E g \in (DOMAIN first \cup DOMAIN latest) \ Ignored :
                /\ Get(first, g) # Get(latest, g)
                /\ e = Entry(g, Get(first, g), Get(latest, g))
    BY UpdateDiff DEF Inv, MergedIsExact
  <2>2. CASE Get(first, f) # Get(latest, f)
    <3>1. f \in (DOMAIN first \cup DOMAIN latest) \ Ignored
      BY <2>2, GetOutside
    <3> DEFINE e == Entry(f, Get(first, f), Get(latest, f))
    <3>2. e \in merged /\ e.field = f /\ e.after = Get(latest, f)
      BY <2>1, <2>2, <3>1 DEF Entry
    <3>3. \A x \in merged : x.field = f => x = e
      BY <2>1 DEF Entry
    <3>4. (CHOOSE x \in merged : x.field = f) = e
      BY <3>2, <3>3
    <3>5. f \in DOMAIN Patch(first, merged) /\ Patch(first, merged)[f] = e.after
      BY <3>2, <3>4 DEF Patch
    <3> QED
      BY <3>2, <3>5 DEF Get
  <2>3. CASE Get(first, f) = Get(latest, f)
    <3>1. \A e \in merged : e.field # f
      BY <2>1, <2>3 DEF Entry
    <3>2. f \in DOMAIN Patch(first, merged) <=> f \in DOMAIN first
      BY <3>1 DEF Patch
    <3>3. f \in DOMAIN first => Patch(first, merged)[f] = first[f]
      BY <3>1 DEF Patch
    <3> QED
      BY <2>3, <3>2, <3>3 DEF Get
  <2> QED
    BY <2>2, <2>3
<1> QED
  BY <1>1, InvHolds, PTL
=============================================================================
