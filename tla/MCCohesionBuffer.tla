-------------------------- MODULE MCCohesionBuffer --------------------------
(* CohesionBuffer with small sets of order documents, with a field that    *)
(* holds None (algo_id of an order made without one).                      *)
EXTENDS CohesionBuffer

Doc(s, p)  == [status |-> s, price |-> p, algo_id |-> None]
MCDocs     == {Doc("pending", "p1"), Doc("pending", "p2"), Doc("cancelled", "p2")}
MCOpenDocs == {Doc("pending", "p1"), Doc("pending", "p2"), Doc("shipped", "p2")}
=============================================================================
