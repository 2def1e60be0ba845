--------------------------- MODULE HealthSignalProofs ---------------------------
(***************************************************************************)
(* The connection pill (HealthSignal) while there is no connection, and    *)
(* once it has settled, for any queue, any number of strikes and of uses   *)
(* of the kill switch.                                                     *)
(***************************************************************************)
EXTENDS HealthSignal, SequenceTheorems, TLAPS

(* Until a poll shows trouble the pill says nothing but that the dashboard *)
(* is connecting, so that a good poll has nothing to take back; and a poll *)
(* brings nothing else than a status.                                      *)
Inv == /\ poll \in Bad \cup {"nominal", "none"}
       /\ sse # "open" /\ ~troubled => pill = {"connecting"}

(* A status that is no trouble leaves a pill that shows none alone.        *)
LEMMA GoodStatusKeeps ==
    ASSUME pill \cap Bad = {} PROVE Shown("nominal") = pill
BY DEF Shown

(* What happens in the process does not move the page.                     *)
LEMMA ProcessSteps ==
    ASSUME Flip \/ Record \/ Silence \/ Drops \/ Fanout \/ Emit \/ Switch
    PROVE  UNCHANGED pageVars
BY DEF Flip, Record, Silence, Drops, Fanout, Emit, Switch

LEMMA InvStep == ASSUME Inv, [Next]_vars PROVE Inv'
<1>1. ASSUME UNCHANGED pageVars PROVE Inv'
  BY <1>1 DEF Inv, pageVars
<1>2. CASE UNCHANGED vars
  BY <1>1, <1>2 DEF vars
<1>3. CASE Flip \/ Record \/ Silence \/ Drops \/ Fanout \/ Emit \/ Switch
  BY <1>1, <1>3, ProcessSteps
<1>4. CASE Connect \/ Break
  BY <1>4 DEF Connect, Break, Lost, Inv
<1>5. CASE Hello
  BY <1>5 DEF Hello, Inv
<1>6. CASE Receive
  BY <1>6 DEF Receive, Inv
<1>7. CASE Ask
  <2>1. Status \in Bad \cup {"nominal"}
    BY DEF Status, Bad
  <2> QED
    BY <1>7, <2>1 DEF Ask, Inv
<1>8. CASE Answer
  <2>1. /\ poll' = "none" /\ pill' = Shown(poll) /\ sse' = sse
        /\ troubled' = (troubled \/ (sse # "open" /\ poll \in Bad))
    BY <1>8 DEF Answer
  <2>2. ASSUME sse # "open", ~troubled' PROVE pill' = {"connecting"}
    <3>1. ~troubled /\ poll \notin Bad
      BY <2>1, <2>2
    <3>2. pill = {"connecting"} /\ poll = "nominal"
      BY <1>8, <2>2, <3>1 DEF Inv, Answer
    <3> QED
      BY <2>1, <3>2, GoodStatusKeeps DEF Bad
  <2> QED
    BY <2>1, <2>2 DEF Inv
<1> QED
  BY <1>2, <1>3, <1>4, <1>5, <1>6, <1>7, <1>8 DEF Next

(* While there is no connection the pill says so, whatever the health, the *)
(* queue and answers of polls that are late do, unless one showed trouble  *)
(* (setConnection and applyHealth in dashboard.html).                      *)
THEOREM LossHolds == Spec => []LossIsShown
<1>1. Init => Inv
  BY DEF Init, Inv
<1>2. Inv => LossIsShown
  BY DEF Inv, LossIsShown
<1> QED
  BY <1>1, <1>2, InvStep, PTL DEF Spec

-----------------------------------------------------------------------------
(* The pill shows the health s, and whatever is on its way to the page     *)
(* says the same.                                                          *)
Settled(s) == /\ Status = s /\ sse = "open" /\ pill = {s}
              /\ poll \in {"none", s}
              /\ queue \in Seq({"change", s})

LEMMA SameStatusKeeps ==
    ASSUME NEW s \in Bad \cup {"nominal"}, pill = {s} PROVE Shown(s) = pill
BY DEF Shown, Bad

(* What is put into a queue that says s only, when it is s or an event.    *)
LEMMA PutKeeps ==
    ASSUME NEW s, NEW m \in {"change", s}, queue \in Seq({"change", s}), Put(m)
    PROVE  queue' \in Seq({"change", s})
<1>1. Append(queue, m) \in Seq({"change", s})
  BY AppendProperties
<1> QED
  BY <1>1 DEF Put

(* The safety half of PillSettles: a pill that has settled on the health   *)
(* stays, whatever is written, dropped, polled or received, as long as the *)
(* health and the connection stay and nobody uses the kill switch.         *)
THEOREM SettledPillStays ==
    ASSUME NEW s \in Bad \cup {"nominal"}
    PROVE  Spec => [][Settled(s) /\ ~Switch /\ Status' = s /\ sse' = "open"
                        => Settled(s)']_vars
<1>1. ASSUME Settled(s), Next, ~Switch, Status' = s, sse' = "open"
      PROVE  Settled(s)'
  <2>1. ASSUME UNCHANGED <<pill, poll, queue>> PROVE Settled(s)'
    BY <1>1, <2>1 DEF Settled
  <2>2. CASE Flip \/ Record \/ Silence \/ Drops
    BY <2>1, <2>2 DEF Flip, Record, Silence, Drops, clientVars, pageVars
  <2>3. CASE Fanout
    <3>1. UNCHANGED <<pill, poll>> /\ (queue' = queue \/ Put("change"))
      BY <2>3 DEF Fanout, pageVars
    <3>2. queue' \in Seq({"change", s})
      BY <1>1, <3>1, PutKeeps DEF Settled
    <3> QED
      BY <1>1, <3>1, <3>2 DEF Settled
  <2>4. CASE Emit
    <3>1. UNCHANGED <<pill, poll>> /\ Put(s)
      BY <1>1, <2>4 DEF Emit, Settled, pageVars
    <3>2. queue' \in Seq({"change", s})
      BY <1>1, <3>1, PutKeeps DEF Settled
    <3> QED
      BY <1>1, <3>1, <3>2 DEF Settled
  <2>5. CASE Connect \/ Hello \/ Break
    BY <1>1, <2>5 DEF Connect, Hello, Break, Settled
  <2>6. CASE Receive
    <3>1. Head(queue) \in {"change", s} /\ Tail(queue) \in Seq({"change", s})
      BY <1>1, <2>6, HeadTailProperties DEF Receive, Settled
    <3>2. pill' = pill
      BY <1>1, <2>6, <3>1, SameStatusKeeps DEF Receive, Settled
    <3> QED
      BY <1>1, <2>6, <3>1, <3>2 DEF Receive, Settled
  <2>7. CASE Ask
    BY <1>1, <2>7 DEF Ask, Settled, clientVars
  <2>8. CASE Answer
    <3>1. poll = s /\ poll' = "none" /\ pill' = Shown(poll) /\ queue' = queue
      BY <1>1, <2>8 DEF Answer, Settled, clientVars
    <3>2. pill' = {s}
      BY <1>1, <3>1, SameStatusKeeps DEF Settled
    <3> QED
      BY <1>1, <3>1, <3>2 DEF Settled
  <2> QED
    BY <1>1, <2>2, <2>3, <2>4, <2>5, <2>6, <2>7, <2>8 DEF Next
<1>2. Next => (Settled(s) /\ ~Switch /\ Status' = s /\ sse' = "open" => Settled(s)')
  BY <1>1
<1> QED
  BY <1>2, PTL DEF Spec
=============================================================================
