--------------------------- MODULE MCTerminalInputs ---------------------------
(***************************************************************************)
(* TerminalInputs on a small instance.                                     *)
(***************************************************************************)
EXTENDS TerminalInputs
=============================================================================
