--------------------------- MODULE MCAgentDelivery ---------------------------
(* The fault sets of the runs of AgentDelivery.                            *)
EXTENDS AgentDelivery

\* What the Agent and the receipts are built to survive.
FaultsHandled == {"kill", "stop", "clear"}

\* Faults that may lose traffic, but never count it twice.
FaultsLossy == {"kill", "stop", "clear", "reset", "clockstep"}

\* Liveness: everything that happens once.
FaultsLive == FaultNames

\* The disturbance of the counterexample.
FaultsDisk == {"diskfull"}
=============================================================================
