--------------------------- MODULE MCToolScheduler ---------------------------
(***************************************************************************)
(* ToolScheduler on small instances.                                       *)
(***************************************************************************)
EXTENDS ToolScheduler
=============================================================================
