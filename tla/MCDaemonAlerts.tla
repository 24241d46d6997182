--------------------------- MODULE MCDaemonAlerts ---------------------------
(***************************************************************************)
(* Small instances of DaemonAlerts for TLC.                                *)
(***************************************************************************)
EXTENDS DaemonAlerts, MCDaemon
=============================================================================
