------------------------------ MODULE MCDaemon ------------------------------
(***************************************************************************)
(* Small instances of Daemon for TLC.                                      *)
(***************************************************************************)
EXTENDS DaemonRefines, TLC

CONSTANTS p1, p2, p3

OnePid == {p1}
TwoPids == {p1, p2}
ThreePids == {p1, p2, p3}

Web == [app |-> "web", addr |-> "10.0.0.1"]
Backup == [app |-> "backup", addr |-> "10.0.0.1"]
Batch == [app |-> "batch", addr |-> "10.0.0.1"]

OneClient == {Web}
WebAndBackup == {Web, Backup}
WebAndBatch == {Web, Batch}

NoApps == {}
BackupOnly == {"backup"}
NoIPs == {}
NoProtected == <<>>
BatchProtected == <<[name |-> "batch", min |-> 4, confirm |-> FALSE],
                    [name |-> "batch", min |-> 0, confirm |-> TRUE]>>

NoFaults == {}
SignalOnly == {"signal"}
CrashOnly == {"crash"}
CrashOrOrphan == {"crash", "orphan"}
AllFaults == {"signal", "crash", "orphan", "others"}

PidSymmetry == Permutations(PID)
=============================================================================
