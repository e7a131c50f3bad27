------------------------------ MODULE MCOpLog ------------------------------
(* OpLog on small instances, for TLC. *)
EXTENDS OpLog

=============================================================================
