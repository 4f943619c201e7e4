--------------------------- MODULE MCCronScheduler ---------------------------
(* CronScheduler on small instances. *)
EXTENDS CronScheduler, TLC
=============================================================================
