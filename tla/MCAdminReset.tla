---------------------------- MODULE MCAdminReset ----------------------------
(* AdminReset on small instances: processes are interchangeable. *)
EXTENDS AdminReset, TLC

Symmetry == Permutations(Procs)
=============================================================================
