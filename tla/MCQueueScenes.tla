---------------------------- MODULE MCQueueScenes ----------------------------
(***************************************************************************)
(* Two instances of MaintenanceQueue in one run.  Scene "single": one job  *)
(* and several faults.  Scene "several": MaxJobs jobs and at most one.     *)
(* The configuration gives the constants of the first scene of the safety  *)
(* run, and of the second scene of the liveness run.                       *)
(***************************************************************************)
EXTENDS MCMaintenanceQueue

VARIABLE scene
sv == <<vars, scene>>

\* The second scene of the safety run, and the first of the liveness run.
Several == INSTANCE MaintenanceQueue
           WITH MaxFaults <- 1, Faults <- FaultsSafety, Kinds <- KindsOfTwo
One == INSTANCE MaintenanceQueue
       WITH MaxFaults <- 2, Faults <- FaultsAlone

ScenesInit == scene \in {"single", "several"} /\ Init

Single(A) == scene = "single" /\ A /\ nextId' <= 2 /\ UNCHANGED scene
InTwo(A) == scene = "several" /\ A /\ UNCHANGED scene

ScenesNext == Single(Next) \/ InTwo(Several!Next)
ScenesSpec == ScenesInit /\ [][ScenesNext]_sv

\* The fairness of FairSpec, in either scene.
LiveNext == Single(One!Next) \/ InTwo(Next)
LiveSpec ==
    /\ ScenesInit /\ [][LiveNext]_sv
    /\ WF_sv(Single(One!DispatchStart) \/ InTwo(DispatchStart))
    /\ WF_sv(Single(One!Dispatcher) \/ InTwo(Dispatcher))
    /\ WF_sv(Single(One!RetentionRun) \/ InTwo(RetentionRun))
    /\ WF_sv(Single(One!HealthProbe) \/ InTwo(HealthProbe))
    /\ \A j \in Jobs :
        /\ WF_sv(Single(One!Worker(j)) \/ InTwo(Worker(j)))
        /\ WF_sv(Single(One!Expire(j)) \/ InTwo(Expire(j)))
        /\ WF_sv(\/ Single(One!OpenNote(j) \/ One!CloseNote(j))
                 \/ InTwo(OpenNote(j) \/ CloseNote(j)))

-----------------------------------------------------------------------------
\* With one job and up to three faults.  stop_service and ExecStopPost: once no
\* worker unit is left, the web service is up and no marker remains.
\* reset_app_data: a finished clear or Nuclear reset has fenced off older samples
\* in the web process that answers /push.  finalize_nuclear_audit: a Nuclear
\* reset is "ok" only with its audit closed.
SingleSettles == scene = "single" => WebRestored /\ ResetFenced /\ AuditClosed
=============================================================================
