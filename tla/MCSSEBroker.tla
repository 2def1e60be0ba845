---------------------------- MODULE MCSSEBroker ----------------------------
(* SSEBroker with one kind of event and no filter; OrderStream has filters. *)
EXTENDS SSEBroker

MCIntents == {"deletion", "status_change"}
MCOpenQuery == {[intents |-> All, customer |-> All]}
MCOneKind == {[intent |-> "deletion", before |-> "alice", after |-> NoDoc]}
=============================================================================
