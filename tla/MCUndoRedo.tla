----------------------------- MODULE MCUndoRedo -----------------------------
(* UndoRedo on small instances, for TLC. *)
EXTENDS UndoRedo

=============================================================================
