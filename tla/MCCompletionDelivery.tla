------------------------ MODULE MCCompletionDelivery ------------------------
(* CompletionDelivery on a small instance.                                  *)
EXTENDS CompletionDelivery
=============================================================================
