---------------------------- MODULE MCPoolAlerts ----------------------------
(***************************************************************************)
(* Small instances of PoolAlerts for TLC.                                  *)
(***************************************************************************)
EXTENDS PoolAlerts, MCDaemon
=============================================================================
