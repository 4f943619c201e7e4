---------------------------- MODULE MCSessionInputs ----------------------------
(***************************************************************************)
(* SessionInputs on small instances.                                       *)
(***************************************************************************)
EXTENDS SessionInputs
================================================================================
