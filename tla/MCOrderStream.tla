---------------------------- MODULE MCOrderStream ----------------------------
(* OrderStream with two documents, which differ in price and customer, and *)
(* a few filters.  An update between them is a price correction, or, when  *)
(* the cache does not hold the order, a status change.                     *)
EXTENDS OrderStream

Doc(p, c) == [status |-> "pending", price |-> p, customer_name |-> c]
MCDocs == {Doc("p1", "alice"), Doc("p2", "bob")}
MCQueries == {[intents |-> All, customer |-> All],
              [intents |-> {"status_change"}, customer |-> All],
              [intents |-> All, customer |-> "alice"],
              [intents |-> {"deletion", "unknown"}, customer |-> "bob"]}
=============================================================================
