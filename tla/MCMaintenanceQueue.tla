------------------------- MODULE MCMaintenanceQueue -------------------------
(* The fault sets of the runs of MaintenanceQueue.                         *)
EXTENDS MaintenanceQueue

\* Safety: everything but the failed wake-up whose message locks a row, which
\* lets a younger job overtake.
FaultsSafety == FaultNames \ {"wakefail"}

\* One job: everything but a web service that cannot start and an offline
\* action that outlasts the health watch.
FaultsSingle == FaultNames \ {"slowoffline", "webfail"}

\* Two jobs share the queue: two that leave and stop the web service, and the
\* exclusive one.
KindsOfTwo == {"routine", "restore", "nuclear"}

\* Liveness of two jobs: what takes a process or a write away from the queue.
\* (After a failing heartbeat a Nuclear reset may find company in the queue; the
\* others disturb one job as much as two, and only make the instance larger.)
FaultsLive == {"kill", "reboot", "dbfail", "startfail"}

\* Liveness of one job alone: everything.
FaultsAlone == FaultNames

\* The single disturbances of the two counterexamples.
FaultsHeartbeat == {"heartbeat"}
FaultsProbe == {"slowoffline"}
=============================================================================
