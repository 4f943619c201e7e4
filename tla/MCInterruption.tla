--------------------------- MODULE MCInterruption ---------------------------
(* Interruption on a small instance. *)
EXTENDS Interruption, TLC
=============================================================================
