---------------------------- MODULE MCChainAudit ----------------------------
(* EventSpine and ChainAudit on small instances: processes are             *)
(* interchangeable.                                                        *)
EXTENDS ChainAudit, TLC

Symmetry == Permutations(Procs)
=============================================================================
