---------------------------- MODULE MCIngestion ----------------------------
(* Ingestion on small instances.  Places other than the first are alike. *)
EXTENDS Ingestion, TLC
Symm == Permutations(Places \ {Start})
=============================================================================
