----------------------------- MODULE HealthSignal -----------------------------
(***************************************************************************)
(* What a dashboard shows of the health of the service: the state behind   *)
(* HEALTH and classify (health.py), the periodic message and the notices   *)
(* of the kill switch (routes/admin.py), which share the client's bounded  *)
(* queue with the events, the poll of /health (routes/health.py) beside    *)
(* them, and the connection pill of client/dashboard.html that all of them *)
(* move.                                                                   *)
(*                                                                         *)
(* Of the clock only the thresholds are kept: the last event is more than  *)
(* 30 s old ("late"), more than 50 events were dropped within 60 s         *)
(* (dropping).  db_connected is set before the first request is served     *)
(* and never cleared.                                                      *)
(***************************************************************************)
EXTENDS Naturals, Sequences

CONSTANTS MaxQueue,    \* max_client_queue
          MaxStrikes,  \* drops after which a client is unregistered: 5
          MaxSwitches  \* bound on the uses of the kill switch (model only)

ASSUME HealthAssumption == /\ MaxQueue \in Nat \ {0} /\ MaxStrikes \in Nat \ {0}
                           /\ MaxSwitches \in Nat

VARIABLES alive,       \* watcher_alive
          stream,      \* age of the last event: "unseen", "fresh" or "late"
          dropping,    \* dropped_events_60s > 50
          engaged,     \* the kill switch
          switches,    \* how often it was used
          registered,  \* is the dashboard a client of the broker
          queue,       \* its queue: statuses, and "change" for any event
          strikes,     \* its drops
          sse,         \* its EventSource: "down", "opening", "open"
          poll,        \* the answer of /health under way, "none" otherwise
          pill,        \* the classes of the connection pill
          troubled     \* has a poll shown trouble since the connection broke
                       \* (history)

healthVars == <<alive, stream, dropping>>
killVars == <<engaged, switches>>
clientVars == <<registered, queue, strikes>>
pageVars == <<sse, poll, pill, troubled>>
vars == <<healthVars, killVars, clientVars, pageVars>>

Bad == {"degraded", "critical"}

Init == /\ alive = FALSE /\ stream = "unseen" /\ dropping = FALSE
        /\ engaged = FALSE /\ switches = 0
        /\ registered = FALSE /\ queue = <<>> /\ strikes = 0
        /\ sse = "down" /\ poll = "none" /\ pill = {"connecting"} /\ troubled = FALSE

-----------------------------------------------------------------------------
(* The process.                                                            *)

\* mutant: only the age of the last event counts
StatusByLag == IF stream = "late" \/ dropping THEN "degraded" ELSE "nominal"
(* classify; no event yet is no lag. *)
Status == IF ~alive THEN "critical"
          ELSE IF stream = "late" \/ dropping THEN "degraded" ELSE "nominal"

(* The watcher opens its stream, or loses it. *)
Flip == /\ alive' = ~alive
        /\ UNCHANGED <<stream, dropping, killVars, clientVars, pageVars>>

(* record_event; 30 s without one. *)
Record == /\ alive /\ stream' = "fresh"
          /\ UNCHANGED <<alive, dropping, killVars, clientVars, pageVars>>
Silence == /\ stream = "fresh" /\ stream' = "late"
           /\ UNCHANGED <<alive, dropping, killVars, clientVars, pageVars>>

(* Drops of whatever clients enter the window of 60 s, or leave it. *)
Drops == /\ dropping' = ~dropping
         /\ UNCHANGED <<alive, stream, killVars, clientVars, pageVars>>

(* put_nowait of a message of the system: a full queue is passed over. *)
Put(m) == queue' = IF registered /\ Len(queue) < MaxQueue THEN Append(queue, m)
                   ELSE queue

(* broadcast of an event of the dashboard's scope. *)
Fanout == /\ registered /\ ~engaged
          /\ IF Len(queue) < MaxQueue
             THEN Put("change") /\ UNCHANGED <<registered, strikes>>
             ELSE /\ strikes' = strikes + 1
                  /\ registered' = (strikes + 1 < MaxStrikes)
                  /\ UNCHANGED queue
          /\ UNCHANGED <<healthVars, killVars, pageVars>>

(* One turn of periodic_health_emitter. *)
Emit == /\ Put(Status)
        /\ UNCHANGED <<healthVars, killVars, registered, strikes, pageVars>>

(* Engaging is announced as critical, over again as well; releasing what   *)
(* is engaged as nominal, whatever the health is.                          *)
Switch == /\ switches < MaxSwitches /\ switches' = switches + 1
          /\ \/ engaged' = TRUE /\ Put("critical")
             \/ engaged /\ engaged' = FALSE /\ Put("nominal")
          /\ UNCHANGED <<healthVars, registered, strikes, pageVars>>

-----------------------------------------------------------------------------
(* The dashboard.                                                          *)

\* mutant: a good status does not take a bad one back
NeverBack(s) == IF s # "nominal" THEN (pill \ (Bad \cup {"nominal"})) \cup {s}
                ELSE pill
(* applyHealth: the pill under status s. *)
Shown(s) == IF s # "nominal" THEN (pill \ (Bad \cup {"nominal"})) \cup {s}
            ELSE IF pill \cap Bad # {} THEN {"nominal"} ELSE pill

(* connectStream: a new EventSource, a new client of the broker. *)
Connect == /\ sse = "down" /\ sse' = "opening"
           /\ pill' = {"connecting"} /\ troubled' = FALSE
           /\ registered' = TRUE /\ queue' = <<>> /\ strikes' = 0
           /\ UNCHANGED <<healthVars, killVars, poll>>

(* The event "connected". *)
Hello == /\ sse = "opening" /\ sse' = "open"
         /\ pill' = {"nominal"}
         /\ UNCHANGED <<healthVars, killVars, clientVars, poll, troubled>>

Receive == /\ sse = "open" /\ queue # <<>>
           /\ queue' = Tail(queue)
           /\ pill' = IF Head(queue) = "change" THEN pill ELSE Shown(Head(queue))
           /\ UNCHANGED <<healthVars, killVars, registered, strikes, sse, poll,
                          troubled>>

\* mutant: onerror closes and says nothing
Closed == pill
(* onerror: setConnection('connecting'). *)
Lost == {"connecting"}

Break == /\ sse # "down" /\ sse' = "down"
         /\ pill' = Lost /\ troubled' = FALSE
         /\ registered' = FALSE /\ queue' = <<>> /\ strikes' = 0
         /\ UNCHANGED <<healthVars, killVars, poll>>

(* /health is answered, and later the page has the answer.                 *)
Ask == /\ poll = "none" /\ poll' = Status
       /\ UNCHANGED <<healthVars, killVars, clientVars, sse, pill, troubled>>

Answer == /\ poll # "none" /\ poll' = "none"
          /\ pill' = Shown(poll)
          /\ troubled' = (troubled \/ (sse # "open" /\ poll \in Bad))
          /\ UNCHANGED <<healthVars, killVars, clientVars, sse>>

Next == \/ Flip \/ Record \/ Silence \/ Drops \/ Fanout \/ Emit \/ Switch
        \/ Connect \/ Hello \/ Receive \/ Break \/ Ask \/ Answer

Spec == Init /\ [][Next]_vars

(* The loops of the emitter, the handler and the page run, and requests    *)
(* are answered.  Nobody has to write, drop, break or use the switch.      *)
FairSpec == /\ Spec
            /\ WF_vars(Emit) /\ WF_vars(Connect) /\ WF_vars(Hello)
            /\ WF_vars(Receive) /\ WF_vars(Ask) /\ WF_vars(Answer)

-----------------------------------------------------------------------------
(* While there is no connection the pill says so, unless a poll has shown  *)
(* trouble since: the good poll after that one turns it to "live".         *)
LossIsShown == sse # "open" /\ ~troubled => "connecting" \in pill

(* A watcher that stays down is shown again and again, however often the   *)
(* connection breaks and "connected" resets the pill, and even to a client *)
(* that was evicted and is sent nothing any more.                          *)
OutageIsShown == <>[]~alive => []<>("critical" \in pill)

(* Once the health and the connection stay as they are, the pill settles   *)
(* on the health: stale answers, the notices of the kill switch and full   *)
(* queues wear off.                                                        *)
PillSettles == \A s \in Bad \cup {"nominal"} :
                  <>[](Status = s /\ sse = "open") => <>[](pill = {s})
=============================================================================
