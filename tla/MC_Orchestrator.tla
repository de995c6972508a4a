--------------------------- MODULE MC_Orchestrator ---------------------------
(* Model-checking instance of Orchestrator: the constants are set by the   *)
(* .cfg files (MC_cron*.cfg, MC_oneshot.cfg).                              *)
EXTENDS Orchestrator
=============================================================================
