------------------------- MODULE TerminationPolicy --------------------------
(***************************************************************************)
(* shouldTerminate (internal/cli/daemon.go): whom auto-termination spares, *)
(* given auto_terminate.exclude_apps, exclude_ips and protected_apps.      *)
(***************************************************************************)
EXTENDS Integers, Sequences

CONSTANTS
    ExcludeApps,    \* application names never terminated
    ExcludeIPs,     \* client addresses never terminated
    ProtectedApps   \* a sequence of [name, min, confirm]: protected_apps

ASSUME PolicyAssumption ==
    \A i \in DOMAIN ProtectedApps : ProtectedApps[i].min \in Int

Excluded(c) == c.app \in ExcludeApps \/ c.addr \in ExcludeIPs

\* The loop over ProtectedApps returns at the first entry with the name.
FirstMatch(i, c) ==
    /\ ProtectedApps[i].name = c.app
    /\ \A j \in DOMAIN ProtectedApps : j < i => ProtectedApps[j].name # c.app

ShouldTerminate(c, duration) ==
    /\ ~Excluded(c)
    /\ \A i \in DOMAIN ProtectedApps :
          FirstMatch(i, c) => /\ ~ProtectedApps[i].confirm
                              /\ duration >= ProtectedApps[i].min
=============================================================================
