---------------------------- MODULE MCAgentScenes ----------------------------
(***************************************************************************)
(* Two instances of AgentDelivery in one run.  The safety run: scene       *)
(* "base" has the constants of the configuration, scene "long" more time   *)
(* but only one fault.  The other run: scene "base" has the faults that    *)
(* may lose traffic, scene "live" everything that happens once, on an      *)
(* Agent whose clock is fast.                                              *)
(***************************************************************************)
EXTENDS MCAgentDelivery

VARIABLE scene
sv == <<vars, scene>>

Live == INSTANCE AgentDelivery
        WITH Skew <- 1, MaxFuture <- 0, Faults <- FaultsLive, MaxFaults <- 1

Long == INSTANCE AgentDelivery WITH MaxTime <- 5, MaxWire <- 1, MaxFaults <- 1

SafetyInit == scene \in {"base", "long"} /\ Init
SafetyNext == \/ scene = "base" /\ Next /\ UNCHANGED scene
              \/ scene = "long" /\ Long!Next /\ UNCHANGED scene
SafetySpec == SafetyInit /\ [][SafetyNext]_sv

ScenesInit == \/ scene = "base" /\ Init
              \/ scene = "live" /\ Live!Init

ScenesNext == \/ scene = "base" /\ Next /\ UNCHANGED scene
              \/ scene = "live" /\ Live!Next /\ UNCHANGED scene

\* The fairness of FairSpec, in the scene "live".
OnlyLive(A) == scene = "live" /\ A /\ UNCHANGED scene

ScenesSpec ==
    /\ ScenesInit /\ [][ScenesNext]_sv
    /\ WF_sv(OnlyLive(Live!Agent)) /\ WF_sv(OnlyLive(Live!PostFails))
    /\ WF_sv(OnlyLive(Live!Tick)) /\ SF_sv(OnlyLive(Live!AnswerPending))

\* The rollups never hold more than the wire carried, even when counters
\* restart or two pushes share a second.
LossyNoDoubleCount == scene = "base" => NoDoubleCount

\* Every payload is confirmed in the end, whatever happens once: a retry is
\* never refused for good.
LivePendingConfirmed == scene = "live" => PendingConfirmed
=============================================================================
