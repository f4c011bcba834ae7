----------------------- MODULE MaintenanceQueueProofs -----------------------
(***************************************************************************)
(* Proofs about MaintenanceQueue, for any number of jobs, any kinds, any   *)
(* faults and any number of them.                                          *)
(*                                                                         *)
(* MutualExclusion needs to know who holds the lock file (LockInv).        *)
(* FifoOrder, OutcomeTruthful and CancelledForGood speak of status only    *)
(* and are not inductive: a unit that lives on after its row was recovered *)
(* may still write the row.  Claimed(j) collects every trace a claim       *)
(* leaves behind, and ClaimInv says what each of them rules out.           *)
(* NuclearAlone needs that a live worker keeps its running row (AliveInv): *)
(* only then can no report bring a recovered row back into the queue.      *)
(* SingleSettles is proved in the scene "single" of MCQueueScenes, where   *)
(* SoloInv follows marker, service, epochs and audit step by step.         *)
(***************************************************************************)
EXTENDS MCQueueScenes, TLAPS

USE MaxJobsAssumption, KindsAssumption, FaultsAssumption, MaxFaultsAssumption

\* A worker past acquire_lock holds the lock file, and so does a retention run.
LockInv ==
    /\ \A j \in Jobs : wpc[j] \in Holding => flock = j
    /\ rpc # "off" => flock = Retention

\* claim_next has taken job j at some time: its row says so, its unit is
\* alive, or the dispatcher is about to start it.
Claimed(j) == \/ status[j] \in ACTIVE_STATES \cup {"ok", "error"}
              \/ wpc[j] # "off"
              \/ dpc \in {"start", "starterror"} /\ dclaim = j

\* A claimed job is an existing one that can no longer be cancelled; a row of
\* an older release is cancelled before the dispatcher claims anything.
ClaimInv ==
    \A j \in Jobs :
        /\ Claimed(j) => /\ status[j] \notin {"queued", "cancelled"}
                         /\ j < nextId /\ kind[j] # "legacy"
        /\ kind[j] = "legacy" /\ status[j] = "queued"
               => dpc \in {"idle", "read"}
        /\ j >= nextId => status[j] = "none" /\ kind[j] # "legacy"

\* No job enqueued before a claimed one still waits (FifoOrder, strengthened
\* to jobs that are no longer active), when no row is ever locked by a message.
OrderInv ==
    /\ \A j \in Jobs : note[j] = "no"
    /\ \A i, j \in Jobs : Claimed(j) /\ i < j => status[i] # "queued"

\* How far the action of a job got, by the step of its worker.
EffectInv ==
    \A j \in Jobs :
        /\ effect[j] # "none" => j < nextId
        /\ status[j] \in {"queued", "cancelled"} => effect[j] = "none"
        /\ status[j] = "ok" => effect[j] = "done"
        /\ wpc[j] \in {"audit", "ok", "return"} => effect[j] = "done"
        /\ wpc[j] = "restart" /\ ~werr[j] => effect[j] = "done"

\* A step that neither claims a job nor queues one.
NoClaim ==
    /\ \A i \in Jobs : Claimed(i)' => Claimed(i)
    /\ \A i \in Jobs : status'[i] = "queued" => status[i] = "queued"
    /\ \A i \in Jobs : note'[i] = "no"

\* What CancelledForGood says of one step.
StaysCancelled ==
    \A j \in Jobs :
        status[j] = "cancelled" => status'[j] \in {"cancelled", "none"}

-----------------------------------------------------------------------------
(* Types.                                                                  *)

\* The initial states are well typed.
LEMMA TypeInit == Init => TypeOK
<1> SUFFICES ASSUME Init PROVE TypeOK
  OBVIOUS
<1> USE DEF Jobs
<1>1. nextId \in 1..(MaxJobs + 1)
  BY DEF Init
<1>2. status \in [Jobs -> Statuses]
  BY DEF Init, Statuses, Pending
<1>3. kind \in [Jobs -> AllKinds \cup {"legacy"}]
  BY DEF Init, AllKinds
<1>4. wpc \in [Jobs -> WorkerSteps]
  BY DEF Init, WorkerSteps
<1>5. /\ stale \in [Jobs -> BOOLEAN]
      /\ was \in [Jobs -> BOOLEAN]
      /\ werr \in [Jobs -> BOOLEAN]
  BY DEF Init
<1>6. /\ note \in [Jobs -> {"no", "due", "open"}]
      /\ wexp \in [Jobs -> {"queued", "starting"}]
      /\ effect \in [Jobs -> {"none", "started", "done"}]
  BY DEF Init
<1>7. /\ drows \in SUBSET [id : Jobs, st : ACTIVE_STATES]
      /\ marker \in BOOLEAN
  BY DEF Init
<1>8. /\ dpc = "idle" /\ dclaim = 0 /\ flock = 0 /\ rpc = "off"
      /\ web = "up" /\ failures = 0 /\ dbEpoch = 0 /\ webEpoch = 0
      /\ audit = "none" /\ faults = 0
  BY DEF Init, Nobody
<1> QED
  BY <1>1, <1>2, <1>3, <1>4, <1>5, <1>6, <1>7, <1>8 DEF TypeOK

\* Every step keeps the types.
LEMMA TypeStep == TypeOK /\ [Next]_vars => TypeOK'
<1> SUFFICES ASSUME TypeOK, [Next]_vars PROVE TypeOK'
  OBVIOUS
<1> USE DEF TypeOK, Jobs, Statuses, Pending, ACTIVE_STATES, TERMINAL_STATES,
            AllKinds, WorkerSteps, Holding, Nobody, Retention,
            jobVars, dispVars, workVars, webVars, Fault, Goto, SetStatus
<1>1. ASSUME NEW k \in Kinds, enqueue_job(k) PROVE TypeOK'
  BY <1>1 DEF enqueue_job
<1>2. ASSUME NEW j \in Jobs, OpenNote(j) PROVE TypeOK'
  BY <1>2 DEF OpenNote
<1>3. ASSUME NEW j \in Jobs, CloseNote(j) PROVE TypeOK'
  BY <1>3 DEF CloseNote
<1>4. ASSUME NEW j \in Jobs, cancel_queued_job(j) PROVE TypeOK'
  BY <1>4 DEF cancel_queued_job
<1>5. ASSUME NEW j \in Jobs, acquire_lock(j) PROVE TypeOK'
  BY <1>5 DEF acquire_lock
<1>6. ASSUME NEW j \in Jobs, read_job(j) PROVE TypeOK'
  <2>1. wexp' \in [Jobs -> {"queued", "starting"}]
    <3>1. CASE status[j] \in {"starting", "queued"}
      BY <1>6, <3>1 DEF read_job
    <3>2. CASE status[j] \notin {"starting", "queued"}
      BY <1>6, <3>2 DEF read_job
    <3> QED
      BY <3>1, <3>2
  <2>2. wpc' \in [Jobs -> WorkerSteps]
    <3>1. \/ wpc' = [wpc EXCEPT ![j] = "claim"]
          \/ wpc' = [wpc EXCEPT ![j] = "error"]
      BY <1>6 DEF read_job
    <3> QED
      BY <3>1, SMTT(30)
  <2> QED
    BY <1>6, <2>1, <2>2 DEF read_job
<1>7. ASSUME NEW j \in Jobs, ClaimRunning(j) PROVE TypeOK'
  <2>1. status' \in [Jobs -> Statuses]
    BY <1>7 DEF ClaimRunning
  <2>2. stale' \in [Jobs -> BOOLEAN]
    BY <1>7, ZenonT(40) DEF ClaimRunning
  <2>3. effect' \in [Jobs -> {"none", "started", "done"}]
    BY <1>7 DEF ClaimRunning
  <2>4. wpc' \in [Jobs -> WorkerSteps]
    BY <1>7 DEF ClaimRunning
  <2> QED
    BY <1>7, <2>1, <2>2, <2>3, <2>4 DEF ClaimRunning
<1>8. ASSUME NEW j \in Jobs, RunOnline(j) PROVE TypeOK'
  BY <1>8 DEF RunOnline
<1>9. ASSUME NEW j \in Jobs, BackupFails(j) PROVE TypeOK'
  BY <1>9 DEF BackupFails
<1>10. ASSUME NEW j \in Jobs, WriteMarker(j) PROVE TypeOK'
  BY <1>10, ZenonT(40) DEF WriteMarker
<1>11. ASSUME NEW j \in Jobs, StopWeb(j) PROVE TypeOK'
  BY <1>11 DEF StopWeb
<1>12. ASSUME NEW j \in Jobs, Act(j) PROVE TypeOK'
  <2>1. status' \in [Jobs -> Statuses]
    BY <1>12 DEF Act, CanReport, Report
  <2>2. stale' \in [Jobs -> BOOLEAN]
    BY <1>12 DEF Act, CanReport, Report
  <2>3. effect' \in [Jobs -> {"none", "started", "done"}]
    BY <1>12 DEF Act, CanReport, Report
  <2>4. werr' \in [Jobs -> BOOLEAN]
    BY <1>12 DEF Act, CanReport, Report
  <2>5. wpc' \in [Jobs -> WorkerSteps]
    BY <1>12 DEF Act, CanReport, Report
  <2> QED
    BY <1>12, <2>1, <2>2, <2>3, <2>4, <2>5 DEF Act
<1>13. ASSUME NEW j \in Jobs, Act2(j) PROVE TypeOK'
  <2>1. status' \in [Jobs -> Statuses]
    BY <1>13 DEF Act2
  <2>2. werr' \in [Jobs -> BOOLEAN]
    BY <1>13 DEF Act2
  <2>3. dbEpoch' \in 0..MaxJobs
    BY <1>13 DEF Act2
  <2>4. audit' \in {"none", "running", "done", "reset_done_service_failed"}
    BY <1>13 DEF Act2
  <2>5. effect' \in [Jobs -> {"none", "started", "done"}]
    BY <1>13 DEF Act2
  <2>6. wpc' \in [Jobs -> WorkerSteps]
    BY <1>13 DEF Act2
  <2> QED
    BY <1>13, <2>1, <2>2, <2>3, <2>4, <2>5, <2>6 DEF Act2
<1>14. ASSUME NEW j \in Jobs, ActFails(j) PROVE TypeOK'
  <2>1. werr' \in [Jobs -> BOOLEAN]
    BY <1>14, ZenonT(40) DEF ActFails, Detached
  <2>2. wpc' \in [Jobs -> WorkerSteps]
    BY <1>14 DEF ActFails, Detached
  <2> QED
    BY <1>14, <2>1, <2>2 DEF ActFails
<1>15. ASSUME NEW j \in Jobs, RestartWeb(j) PROVE TypeOK'
  <2>1. werr' \in [Jobs -> BOOLEAN]
    BY <1>15, ZenonT(40) DEF RestartWeb, StartWeb, AfterRestart
  <2>2. wpc' \in [Jobs -> WorkerSteps]
    BY <1>15 DEF RestartWeb, StartWeb, AfterRestart
  <2>3. web' \in {"up", "down"}
    BY <1>15 DEF RestartWeb, StartWeb, AfterRestart
  <2>4. marker' \in BOOLEAN
    BY <1>15 DEF RestartWeb, StartWeb, AfterRestart
  <2>5. webEpoch' \in 0..MaxJobs
    BY <1>15 DEF RestartWeb, StartWeb, AfterRestart
  <2>6. faults' \in 0..MaxFaults
    BY <1>15 DEF RestartWeb, StartWeb, AfterRestart
  <2> QED
    BY <1>15, <2>1, <2>2, <2>3, <2>4, <2>5, <2>6 DEF RestartWeb
<1>16. ASSUME NEW j \in Jobs, finalize_nuclear_audit(j) PROVE TypeOK'
  <2>1. audit' \in {"none", "running", "done", "reset_done_service_failed"}
    BY <1>16 DEF finalize_nuclear_audit
  <2>2. werr' \in [Jobs -> BOOLEAN]
    BY <1>16, ZenonT(120) DEF finalize_nuclear_audit
  <2>3. wpc' \in [Jobs -> WorkerSteps]
    BY <1>16 DEF finalize_nuclear_audit
  <2>4. faults' \in 0..MaxFaults
    BY <1>16 DEF finalize_nuclear_audit
  <2> QED
    BY <1>16, <2>1, <2>2, <2>3, <2>4 DEF finalize_nuclear_audit
<1>17. ASSUME NEW j \in Jobs, WriteOk(j) PROVE TypeOK'
  BY <1>17 DEF WriteOk
<1>18. ASSUME NEW j \in Jobs, WriteError(j) PROVE TypeOK'
  BY <1>18 DEF WriteError
<1>19. ASSUME NEW j \in Jobs, Release(j) PROVE TypeOK'
  BY <1>19 DEF Release
<1>20. ASSUME NEW j \in Jobs, ExecStopPost(j) PROVE TypeOK'
  <2>1. was' \in [Jobs -> BOOLEAN]
    BY <1>20 DEF ExecStopPost, StartWeb
  <2>2. werr' \in [Jobs -> BOOLEAN]
    BY <1>20 DEF ExecStopPost, StartWeb
  <2>3. wpc' \in [Jobs -> WorkerSteps]
    BY <1>20 DEF ExecStopPost, StartWeb
  <2>4. web' \in {"up", "down"}
    BY <1>20 DEF ExecStopPost, StartWeb
  <2>5. marker' \in BOOLEAN
    BY <1>20 DEF ExecStopPost, StartWeb
  <2>6. webEpoch' \in 0..MaxJobs
    BY <1>20 DEF ExecStopPost, StartWeb
  <2>7. faults' \in 0..MaxFaults
    BY <1>20 DEF ExecStopPost, StartWeb
  <2> QED
    BY <1>20, <2>1, <2>2, <2>3, <2>4, <2>5, <2>6, <2>7 DEF ExecStopPost
<1>21. ASSUME NEW j \in Jobs, heartbeat_job(j) PROVE TypeOK'
  BY <1>21 DEF heartbeat_job
<1>22. ASSUME NEW j \in Jobs, ReportProgress(j) PROVE TypeOK'
  <2>1. status' \in [Jobs -> Statuses]
    BY <1>22 DEF ReportProgress, CanReport, Report
  <2>2. stale' \in [Jobs -> BOOLEAN]
    BY <1>22 DEF ReportProgress, CanReport, Report
  <2>3. wpc' \in [Jobs -> WorkerSteps]
    BY <1>22 DEF ReportProgress
  <2> QED
    BY <1>22, <2>1, <2>2, <2>3 DEF ReportProgress
<1>23. ASSUME NEW j \in Jobs, WorkerKilled(j) PROVE TypeOK'
  BY <1>23 DEF WorkerKilled
<1>24. ASSUME NEW j \in Jobs, WorkerTerminated(j) PROVE TypeOK'
  <2>1. werr' \in [Jobs -> BOOLEAN]
    BY <1>24, ZenonT(40) DEF WorkerTerminated, Detached, AfterRestart
  <2>2. wpc' \in [Jobs -> WorkerSteps]
    <3>1. AfterRestart(j, TRUE) \in WorkerSteps
      BY DEF AfterRestart
    <3>2. \E p \in WorkerSteps : wpc' = [wpc EXCEPT ![j] = p]
      BY <1>24, <3>1 DEF WorkerTerminated
    <3> QED
      BY <3>2
  <2>3. faults' \in 0..MaxFaults
    BY <1>24 DEF WorkerTerminated, Detached, AfterRestart
  <2> QED
    BY <1>24, <2>1, <2>2, <2>3 DEF WorkerTerminated
<1>25. ASSUME NEW j \in Jobs, Expire(j) PROVE TypeOK'
  BY <1>25 DEF Expire
<1>26. ASSUME NEW r \in [id : Jobs, st : ACTIVE_STATES], RecoverRow(r)
       PROVE  TypeOK'
  BY <1>26 DEF RecoverRow
<1>27. CASE DispatchStart
  BY <1>27 DEF DispatchStart
<1>28. CASE ReadRows
  BY <1>28 DEF ReadRows
<1>29. CASE RecoverDone
  BY <1>29 DEF RecoverDone
<1>30. CASE claim_next
  <2>1. status' \in [Jobs -> Statuses]
    BY <1>30 DEF claim_next, Claimable
  <2>2. stale' \in [Jobs -> BOOLEAN]
    BY <1>30, ZenonT(40) DEF claim_next, Claimable
  <2>3. dclaim' \in 0..MaxJobs
    BY <1>30 DEF claim_next, Claimable
  <2>4. dpc' \in {"idle", "read", "recover", "claim", "start", "starterror"}
    BY <1>30 DEF claim_next, Claimable
  <2> QED
    BY <1>30, <2>1, <2>2, <2>3, <2>4 DEF claim_next
<1>31. CASE StartUnit
  BY <1>31 DEF StartUnit
<1>32. CASE mark_start_error
  <2>1. status' \in [Jobs -> Statuses]
    BY <1>32 DEF mark_start_error
  <2>2. dclaim' \in 0..MaxJobs
    BY <1>32 DEF mark_start_error
  <2>3. dpc' \in {"idle", "read", "recover", "claim", "start", "starterror"}
    BY <1>32 DEF mark_start_error
  <2> QED
    BY <1>32, <2>1, <2>2, <2>3 DEF mark_start_error
<1>33. CASE DispatchKilled
  BY <1>33 DEF DispatchKilled
<1>34. CASE RetentionStart
  BY <1>34 DEF RetentionStart
<1>35. CASE RetentionCheck
  BY <1>35 DEF RetentionCheck
<1>36. CASE RetentionEnd
  BY <1>36 DEF RetentionEnd
<1>37. CASE HealthProbe
  BY <1>37 DEF HealthProbe, StartWeb, Detached
<1>38. CASE Reboot
  <2>1. wpc' \in [Jobs -> WorkerSteps]
    BY <1>38 DEF Reboot
  <2>2. was' \in [Jobs -> BOOLEAN]
    BY <1>38 DEF Reboot
  <2>3. werr' \in [Jobs -> BOOLEAN]
    BY <1>38 DEF Reboot
  <2>4. note' \in [Jobs -> {"no", "due", "open"}]
    BY <1>38 DEF Reboot
  <2>5. faults' \in 0..MaxFaults
    BY <1>38 DEF Reboot
  <2>6. webEpoch' \in 0..MaxJobs
    BY <1>38 DEF Reboot
  <2>7. drows' \in SUBSET [id : Jobs, st : ACTIVE_STATES]
    BY <1>38 DEF Reboot
  <2>8. dclaim' \in 0..MaxJobs /\ flock' \in 0..(MaxJobs + 1)
    BY <1>38 DEF Reboot
  <2>9. /\ dpc' = "idle" /\ rpc' = "off" /\ web' = "up"
        /\ marker' \in BOOLEAN /\ failures' = 0
        /\ UNCHANGED <<status, kind, stale, nextId, wexp, dbEpoch, audit,
                       effect>>
    BY <1>38 DEF Reboot
  <2> HIDE DEF Jobs, Statuses, AllKinds, WorkerSteps, ACTIVE_STATES
  <2> QED
    BY <2>1, <2>2, <2>3, <2>4, <2>5, <2>6, <2>7, <2>8, <2>9
<1>39. CASE UNCHANGED vars
  BY <1>39 DEF vars
<1> QED
  BY <1>1, <1>2, <1>3, <1>4, <1>5, <1>6, <1>7, <1>8, <1>9, <1>10, <1>11,
     <1>12, <1>13, <1>14, <1>15, <1>16, <1>17, <1>18, <1>19, <1>20, <1>21,
     <1>22, <1>23, <1>24, <1>25, <1>26, <1>27, <1>28, <1>29, <1>30, <1>31,
     <1>32, <1>33, <1>34, <1>35, <1>36, <1>37, <1>38, <1>39
     DEF Next, Worker, Dispatcher, RetentionRun


\* TypeOK: every value the queue, the dispatcher, the workers and the host
\* take is of its type.
THEOREM TypeCorrect == Spec => []TypeOK
<1>1. Init => TypeOK
  BY TypeInit
<1>2. TypeOK /\ [Next]_vars => TypeOK'
  BY TypeStep
<1> QED
  BY <1>1, <1>2, PTL DEF Spec

-----------------------------------------------------------------------------
(* The lock file.                                                          *)

\* LockInv is inductive: acquire_lock, retention, kills and releases.
LEMMA LockStep == TypeOK /\ LockInv /\ [Next]_vars => LockInv'
<1> SUFFICES ASSUME TypeOK, LockInv, [Next]_vars
             PROVE  LockInv'
  OBVIOUS
<1> USE DEF TypeOK, Jobs, Nobody, Retention, Holding, Goto, LockInv
<1>1. ASSUME NEW j \in Jobs, acquire_lock(j)
      PROVE  LockInv'
  <2>1. CASE flock = Nobody
    <3>1. rpc = "off" /\ \A i \in Jobs : wpc[i] \notin Holding
      BY <2>1
    <3>2. flock' = j /\ wpc' = [wpc EXCEPT ![j] = "read"] /\ rpc' = rpc
      BY <1>1, <2>1 DEF acquire_lock
    <3> QED
      BY <3>1, <3>2
  <2>2. CASE flock # Nobody
    BY <1>1, <2>2 DEF acquire_lock
  <2> QED
    BY <2>1, <2>2
<1>2. ASSUME NEW j \in Jobs, read_job(j)
      PROVE  LockInv'
BY <1>2 DEF read_job
<1>3. ASSUME NEW j \in Jobs, ClaimRunning(j)
      PROVE  LockInv'
BY <1>3 DEF ClaimRunning
<1>4. ASSUME NEW j \in Jobs, RunOnline(j)
      PROVE  LockInv'
BY <1>4 DEF RunOnline
<1>5. ASSUME NEW j \in Jobs, BackupFails(j)
      PROVE  LockInv'
BY <1>5 DEF BackupFails
<1>6. ASSUME NEW j \in Jobs, WriteMarker(j)
      PROVE  LockInv'
BY <1>6 DEF WriteMarker
<1>7. ASSUME NEW j \in Jobs, StopWeb(j)
      PROVE  LockInv'
BY <1>7 DEF StopWeb
<1>8. ASSUME NEW j \in Jobs, Act(j)
      PROVE  LockInv'
BY <1>8 DEF Act, CanReport, Report
<1>9. ASSUME NEW j \in Jobs, Act2(j)
      PROVE  LockInv'
BY <1>9 DEF Act2
<1>10. ASSUME NEW j \in Jobs, ActFails(j)
       PROVE  LockInv'
BY <1>10 DEF ActFails, Detached
<1>11. ASSUME NEW j \in Jobs, RestartWeb(j)
       PROVE  LockInv'
BY <1>11 DEF RestartWeb, StartWeb, AfterRestart
<1>12. ASSUME NEW j \in Jobs, finalize_nuclear_audit(j)
       PROVE  LockInv'
BY <1>12 DEF finalize_nuclear_audit
<1>13. ASSUME NEW j \in Jobs, WriteOk(j)
       PROVE  LockInv'
BY <1>13 DEF WriteOk
<1>14. ASSUME NEW j \in Jobs, WriteError(j)
       PROVE  LockInv'
BY <1>14 DEF WriteError
<1>15. ASSUME NEW j \in Jobs, Release(j)
       PROVE  LockInv'
BY <1>15 DEF Release
<1>16. ASSUME NEW j \in Jobs, ExecStopPost(j)
       PROVE  LockInv'
BY <1>16 DEF ExecStopPost, StartWeb
<1>17. ASSUME NEW j \in Jobs, ReportProgress(j)
       PROVE  LockInv'
BY <1>17 DEF ReportProgress, CanReport, Report
<1>18. ASSUME NEW j \in Jobs, WorkerKilled(j)
       PROVE  LockInv'
BY <1>18 DEF WorkerKilled
<1>19. ASSUME NEW j \in Jobs, WorkerTerminated(j)
       PROVE  LockInv'
BY <1>19 DEF WorkerTerminated, Detached, AfterRestart
<1>20. CASE StartUnit
BY <1>20 DEF StartUnit
<1>21. CASE RetentionStart
  <2>1. \A i \in Jobs : wpc[i] \notin Holding
    BY <1>21 DEF RetentionStart
  <2> QED
    BY <1>21, <2>1 DEF RetentionStart, workVars
<1>22. CASE RetentionCheck
  <2>1. \A i \in Jobs : wpc[i] \notin Holding
    BY <1>22 DEF RetentionCheck
  <2> QED
    BY <1>22, <2>1 DEF RetentionCheck, workVars
<1>23. CASE RetentionEnd
  <2>1. \A i \in Jobs : wpc[i] \notin Holding
    BY <1>23 DEF RetentionEnd
  <2> QED
    BY <1>23, <2>1 DEF RetentionEnd, workVars
<1>24. CASE Reboot
BY <1>24 DEF Reboot
<1>25. ASSUME NEW j \in Jobs, OpenNote(j) \/ CloseNote(j) \/
             cancel_queued_job(j) \/ heartbeat_job(j) \/ Expire(j)
      PROVE  UNCHANGED <<wpc, flock, rpc>>
BY <1>25 DEF OpenNote, CloseNote, cancel_queued_job, heartbeat_job, Expire,
         jobVars, dispVars, workVars, webVars
<1>26. ASSUME NEW k \in Kinds, enqueue_job(k)
      PROVE  UNCHANGED <<wpc, flock, rpc>>
BY <1>26 DEF enqueue_job, jobVars, dispVars, workVars, webVars
<1>27. ASSUME NEW r \in [id : Jobs, st : ACTIVE_STATES], RecoverRow(r)
      PROVE  UNCHANGED <<wpc, flock, rpc>>
BY <1>27 DEF RecoverRow, jobVars, dispVars, workVars, webVars
<1>28. ASSUME DispatchStart \/ ReadRows \/ RecoverDone \/ claim_next \/
             mark_start_error \/ DispatchKilled \/ HealthProbe
      PROVE  UNCHANGED <<wpc, flock, rpc>>
BY <1>28 DEF DispatchStart, ReadRows, RecoverDone, claim_next,
         mark_start_error, DispatchKilled, HealthProbe, StartWeb, Detached,
         jobVars, dispVars, workVars, webVars
<1>29. CASE UNCHANGED <<wpc, flock, rpc>>
  BY <1>29
<1> QED
  BY <1>1, <1>2, <1>3, <1>4, <1>5, <1>6, <1>7, <1>8, <1>9, <1>10, <1>11,
     <1>12, <1>13, <1>14, <1>15, <1>16, <1>17, <1>18, <1>19, <1>20, <1>21,
     <1>22, <1>23, <1>24, <1>25, <1>26, <1>27, <1>28, <1>29
     DEF Next, Worker, Dispatcher, RetentionRun, vars

\* Every reachable state satisfies LockInv.
LEMMA LockHeld == Spec => []LockInv
<1>1. Init => LockInv
  BY DEF Init, LockInv, Holding
<1>2. TypeOK /\ LockInv /\ [Next]_vars => LockInv'
  BY LockStep
<1> QED
  BY <1>1, <1>2, TypeCorrect, PTL DEF Spec

\* MutualExclusion: the flock of maintenance.py and retention.py keeps every
\* two pieces of maintenance work apart, whatever systemd has started.
THEOREM WorkIsExclusive == Spec => []MutualExclusion
<1>1. LockInv => MutualExclusion
  BY DEF LockInv, MutualExclusion, InWork, Jobs, Retention
<1> QED
  BY <1>1, LockHeld, PTL

-----------------------------------------------------------------------------
(* The unique index.                                                       *)

\* OneActiveRow is inductive: every update to an active status either finds
\* no active row (claim_next) or is checked by the index.
LEMMA ActiveRowStep == TypeOK /\ OneActiveRow /\ [Next]_vars =>
    OneActiveRow'
<1> SUFFICES ASSUME TypeOK, OneActiveRow, [Next]_vars
             PROVE  OneActiveRow'
  OBVIOUS
<1> USE DEF TypeOK, Jobs, ACTIVE_STATES, IndexFree, SetStatus, OneActiveRow
<1>1. ASSUME NEW k \in Kinds, enqueue_job(k)
      PROVE  OneActiveRow'
BY <1>1 DEF enqueue_job
<1>2. ASSUME NEW j \in Jobs, cancel_queued_job(j)
      PROVE  OneActiveRow'
BY <1>2 DEF cancel_queued_job
<1>3. ASSUME NEW j \in Jobs, ClaimRunning(j)
      PROVE  OneActiveRow'
BY <1>3 DEF ClaimRunning
<1>4. ASSUME NEW j \in Jobs, Act(j)
      PROVE  OneActiveRow'
BY <1>4 DEF Act, CanReport, Report
<1>5. ASSUME NEW j \in Jobs, Act2(j)
      PROVE  OneActiveRow'
BY <1>5, ZenonT(40) DEF Act2
<1>6. ASSUME NEW j \in Jobs, WriteOk(j)
      PROVE  OneActiveRow'
BY <1>6 DEF WriteOk
<1>7. ASSUME NEW j \in Jobs, WriteError(j)
      PROVE  OneActiveRow'
BY <1>7 DEF WriteError
<1>8. ASSUME NEW j \in Jobs, ReportProgress(j)
      PROVE  OneActiveRow'
BY <1>8 DEF ReportProgress, CanReport, Report
<1>9. ASSUME NEW r \in [id : Jobs, st : ACTIVE_STATES], RecoverRow(r)
      PROVE  OneActiveRow'
BY <1>9 DEF RecoverRow
<1>10. CASE ReadRows
BY <1>10 DEF ReadRows, Pending
<1>11. CASE claim_next
BY <1>11 DEF claim_next, Claimable
<1>12. CASE mark_start_error
BY <1>12 DEF mark_start_error
<1>13. ASSUME NEW j \in Jobs, OpenNote(j) \/ CloseNote(j) \/ acquire_lock(j)
             \/ read_job(j) \/ RunOnline(j) \/ BackupFails(j) \/
             WriteMarker(j) \/ StopWeb(j) \/ ActFails(j) \/ RestartWeb(j) \/
             finalize_nuclear_audit(j) \/ Release(j) \/ ExecStopPost(j) \/
             heartbeat_job(j) \/ WorkerKilled(j) \/ WorkerTerminated(j) \/
             Expire(j)
      PROVE  UNCHANGED <<status>>
BY <1>13 DEF OpenNote, CloseNote, acquire_lock, read_job, RunOnline,
         BackupFails, WriteMarker, StopWeb, ActFails, RestartWeb,
         finalize_nuclear_audit, Release, ExecStopPost, heartbeat_job,
         WorkerKilled, WorkerTerminated, Expire, StartWeb, AfterRestart,
         StartWeb, Detached, AfterRestart, jobVars, dispVars, workVars,
         webVars
<1>14. ASSUME DispatchStart \/ RecoverDone \/ StartUnit \/ DispatchKilled \/
             RetentionStart \/ RetentionCheck \/ RetentionEnd \/ HealthProbe
             \/ Reboot
      PROVE  UNCHANGED <<status>>
BY <1>14 DEF DispatchStart, RecoverDone, StartUnit, DispatchKilled,
         RetentionStart, RetentionCheck, RetentionEnd, HealthProbe, Reboot,
         StartWeb, Detached, jobVars, dispVars, workVars, webVars
<1>15. CASE UNCHANGED <<status>>
  BY <1>15
<1> QED
  BY <1>1, <1>2, <1>3, <1>4, <1>5, <1>6, <1>7, <1>8, <1>9, <1>10, <1>11,
     <1>12, <1>13, <1>14, <1>15
     DEF Next, Worker, Dispatcher, RetentionRun, vars

\* OneActiveRow: at most one row is starting or running, although workers
\* outlive their rows and report without an expected status.
THEOREM ActiveRowIsUnique == Spec => []OneActiveRow
<1>1. Init => OneActiveRow
  BY DEF Init, OneActiveRow, ACTIVE_STATES
<1>2. TypeOK /\ OneActiveRow /\ [Next]_vars => OneActiveRow'
  BY ActiveRowStep
<1> QED
  BY <1>1, <1>2, TypeCorrect, PTL DEF Spec

-----------------------------------------------------------------------------
(* Claims.                                                                 *)

\* ClaimInv is inductive.
LEMMA ClaimStep == TypeOK /\ ClaimInv /\ [Next]_vars => ClaimInv'
<1> SUFFICES ASSUME TypeOK, ClaimInv, [Next]_vars
             PROVE  ClaimInv'
  OBVIOUS
<1> USE DEF TypeOK, Jobs, ACTIVE_STATES, SetStatus, Goto, Claimed, ClaimInv,
            jobVars, dispVars, workVars, webVars
<1>1. ASSUME NEW k \in Kinds, enqueue_job(k)
      PROVE  ClaimInv'
BY <1>1 DEF enqueue_job, AllKinds
<1>2. ASSUME NEW j \in Jobs, cancel_queued_job(j)
      PROVE  ClaimInv'
BY <1>2 DEF cancel_queued_job
<1>3. ASSUME NEW j \in Jobs, acquire_lock(j)
      PROVE  ClaimInv'
BY <1>3 DEF acquire_lock
<1>4. ASSUME NEW j \in Jobs, read_job(j)
      PROVE  ClaimInv'
BY <1>4 DEF read_job
<1>5. ASSUME NEW j \in Jobs, ClaimRunning(j)
      PROVE  ClaimInv'
BY <1>5 DEF ClaimRunning
<1>6. ASSUME NEW j \in Jobs, RunOnline(j)
      PROVE  ClaimInv'
BY <1>6 DEF RunOnline
<1>7. ASSUME NEW j \in Jobs, BackupFails(j)
      PROVE  ClaimInv'
BY <1>7 DEF BackupFails
<1>8. ASSUME NEW j \in Jobs, WriteMarker(j)
      PROVE  ClaimInv'
BY <1>8 DEF WriteMarker
<1>9. ASSUME NEW j \in Jobs, StopWeb(j)
      PROVE  ClaimInv'
BY <1>9 DEF StopWeb
<1>10. ASSUME NEW j \in Jobs, Act(j)
       PROVE  ClaimInv'
BY <1>10 DEF Act, CanReport, Report
<1>11. ASSUME NEW j \in Jobs, Act2(j)
       PROVE  ClaimInv'
BY <1>11 DEF Act2
<1>12. ASSUME NEW j \in Jobs, ActFails(j)
       PROVE  ClaimInv'
BY <1>12 DEF ActFails, Detached
<1>13. ASSUME NEW j \in Jobs, RestartWeb(j)
       PROVE  ClaimInv'
BY <1>13 DEF RestartWeb, StartWeb, AfterRestart
<1>14. ASSUME NEW j \in Jobs, finalize_nuclear_audit(j)
       PROVE  ClaimInv'
BY <1>14 DEF finalize_nuclear_audit
<1>15. ASSUME NEW j \in Jobs, WriteOk(j)
       PROVE  ClaimInv'
BY <1>15 DEF WriteOk
<1>16. ASSUME NEW j \in Jobs, WriteError(j)
       PROVE  ClaimInv'
BY <1>16 DEF WriteError
<1>17. ASSUME NEW j \in Jobs, Release(j)
       PROVE  ClaimInv'
BY <1>17 DEF Release
<1>18. ASSUME NEW j \in Jobs, ExecStopPost(j)
       PROVE  ClaimInv'
BY <1>18 DEF ExecStopPost, StartWeb
<1>19. ASSUME NEW j \in Jobs, ReportProgress(j)
       PROVE  ClaimInv'
BY <1>19 DEF ReportProgress, CanReport, Report
<1>20. ASSUME NEW j \in Jobs, WorkerKilled(j)
       PROVE  ClaimInv'
BY <1>20 DEF WorkerKilled
<1>21. ASSUME NEW j \in Jobs, WorkerTerminated(j)
       PROVE  ClaimInv'
BY <1>21 DEF WorkerTerminated, Detached, AfterRestart
<1>22. ASSUME NEW r \in [id : Jobs, st : ACTIVE_STATES], RecoverRow(r)
       PROVE  ClaimInv'
BY <1>22 DEF RecoverRow
<1>23. CASE DispatchStart
BY <1>23 DEF DispatchStart
<1>24. CASE ReadRows
BY <1>24 DEF ReadRows, Pending
<1>25. CASE RecoverDone
BY <1>25 DEF RecoverDone
<1>26. CASE claim_next
BY <1>26 DEF claim_next, Claimable
<1>27. CASE StartUnit
BY <1>27 DEF StartUnit
<1>28. CASE mark_start_error
BY <1>28 DEF mark_start_error
<1>29. CASE DispatchKilled
BY <1>29 DEF DispatchKilled
<1>30. CASE Reboot
BY <1>30 DEF Reboot
<1>31. ASSUME NEW j \in Jobs, OpenNote(j) \/ CloseNote(j) \/
             heartbeat_job(j) \/ Expire(j)
      PROVE  UNCHANGED <<status, kind, nextId, wpc, dpc, dclaim>>
BY <1>31 DEF OpenNote, CloseNote, heartbeat_job, Expire, jobVars, dispVars,
         workVars, webVars
<1>32. ASSUME RetentionStart \/ RetentionCheck \/ RetentionEnd \/
             HealthProbe
      PROVE  UNCHANGED <<status, kind, nextId, wpc, dpc, dclaim>>
BY <1>32 DEF RetentionStart, RetentionCheck, RetentionEnd, HealthProbe,
         StartWeb, Detached, jobVars, dispVars, workVars, webVars
<1>33. CASE UNCHANGED <<status, kind, nextId, wpc, dpc, dclaim>>
  BY <1>33
<1> QED
  BY <1>1, <1>2, <1>3, <1>4, <1>5, <1>6, <1>7, <1>8, <1>9, <1>10, <1>11,
     <1>12, <1>13, <1>14, <1>15, <1>16, <1>17, <1>18, <1>19, <1>20, <1>21,
     <1>22, <1>23, <1>24, <1>25, <1>26, <1>27, <1>28, <1>29, <1>30, <1>31,
     <1>32, <1>33
     DEF Next, Worker, Dispatcher, RetentionRun, vars

\* Every reachable state satisfies ClaimInv.
LEMMA ClaimsTraced == Spec => []ClaimInv
<1>1. Init => ClaimInv
  BY DEF Init, ClaimInv, Claimed, ACTIVE_STATES, Jobs
<1>2. TypeOK /\ ClaimInv /\ [Next]_vars => ClaimInv'
  BY ClaimStep
<1> QED
  BY <1>1, <1>2, TypeCorrect, PTL DEF Spec

\* OrderInv is inductive when enqueue_job never locks a row for a message.
LEMMA OrderStep == "wakefail" \notin Faults /\ TypeOK /\ ClaimInv /\
    OrderInv /\ [Next]_vars => OrderInv'
<1> SUFFICES ASSUME "wakefail" \notin Faults, TypeOK, ClaimInv, OrderInv,
      [Next]_vars
             PROVE  OrderInv'
  OBVIOUS
<1> USE DEF TypeOK, Jobs, ACTIVE_STATES, SetStatus, Goto, Claimed, ClaimInv,
            OrderInv, jobVars, dispVars, workVars, webVars
<1>0. NoClaim => OrderInv'
  <2> HIDE DEF Claimed, ClaimInv
  <2> QED
    BY DEF NoClaim
<1>1. ASSUME NEW k \in Kinds, enqueue_job(k)
      PROVE  OrderInv'
BY <1>1 DEF enqueue_job, Fault
<1>2. ASSUME NEW j \in Jobs, OpenNote(j)
      PROVE  NoClaim
BY <1>2 DEF OpenNote, NoClaim
<1>3. ASSUME NEW j \in Jobs, CloseNote(j)
      PROVE  NoClaim
BY <1>3 DEF CloseNote, NoClaim
<1>4. ASSUME NEW j \in Jobs, cancel_queued_job(j)
      PROVE  NoClaim
BY <1>4 DEF cancel_queued_job, NoClaim
<1>5. ASSUME NEW j \in Jobs, acquire_lock(j)
      PROVE  NoClaim
BY <1>5 DEF acquire_lock, NoClaim
<1>6. ASSUME NEW j \in Jobs, read_job(j)
      PROVE  NoClaim
BY <1>6 DEF read_job, NoClaim
<1>7. ASSUME NEW j \in Jobs, ClaimRunning(j)
      PROVE  NoClaim
BY <1>7 DEF ClaimRunning, NoClaim
<1>8. ASSUME NEW j \in Jobs, RunOnline(j)
      PROVE  NoClaim
BY <1>8 DEF RunOnline, NoClaim
<1>9. ASSUME NEW j \in Jobs, BackupFails(j)
      PROVE  NoClaim
BY <1>9 DEF BackupFails, NoClaim
<1>10. ASSUME NEW j \in Jobs, WriteMarker(j)
       PROVE  NoClaim
BY <1>10 DEF WriteMarker, NoClaim
<1>11. ASSUME NEW j \in Jobs, StopWeb(j)
       PROVE  NoClaim
BY <1>11 DEF StopWeb, NoClaim
<1>12. ASSUME NEW j \in Jobs, Act(j)
       PROVE  NoClaim
BY <1>12 DEF Act, CanReport, Report, NoClaim
<1>13. ASSUME NEW j \in Jobs, Act2(j)
       PROVE  NoClaim
BY <1>13 DEF Act2, NoClaim
<1>14. ASSUME NEW j \in Jobs, ActFails(j)
       PROVE  NoClaim
BY <1>14 DEF ActFails, Detached, NoClaim
<1>15. ASSUME NEW j \in Jobs, RestartWeb(j)
       PROVE  NoClaim
BY <1>15 DEF RestartWeb, StartWeb, AfterRestart, NoClaim
<1>16. ASSUME NEW j \in Jobs, finalize_nuclear_audit(j)
       PROVE  NoClaim
BY <1>16 DEF finalize_nuclear_audit, NoClaim
<1>17. ASSUME NEW j \in Jobs, WriteOk(j)
       PROVE  NoClaim
BY <1>17 DEF WriteOk, NoClaim
<1>18. ASSUME NEW j \in Jobs, WriteError(j)
       PROVE  NoClaim
BY <1>18 DEF WriteError, NoClaim
<1>19. ASSUME NEW j \in Jobs, Release(j)
       PROVE  NoClaim
BY <1>19 DEF Release, NoClaim
<1>20. ASSUME NEW j \in Jobs, ExecStopPost(j)
       PROVE  NoClaim
BY <1>20 DEF ExecStopPost, StartWeb, NoClaim
<1>21. ASSUME NEW j \in Jobs, ReportProgress(j)
       PROVE  NoClaim
BY <1>21 DEF ReportProgress, CanReport, Report, NoClaim
<1>22. ASSUME NEW j \in Jobs, WorkerKilled(j)
       PROVE  NoClaim
BY <1>22 DEF WorkerKilled, NoClaim
<1>23. ASSUME NEW j \in Jobs, WorkerTerminated(j)
       PROVE  NoClaim
BY <1>23 DEF WorkerTerminated, Detached, AfterRestart, NoClaim
<1>24. ASSUME NEW r \in [id : Jobs, st : ACTIVE_STATES], RecoverRow(r)
       PROVE  NoClaim
BY <1>24 DEF RecoverRow, NoClaim
<1>25. ASSUME DispatchStart PROVE NoClaim
BY <1>25 DEF DispatchStart, NoClaim
<1>26. ASSUME ReadRows PROVE NoClaim
BY <1>26 DEF ReadRows, Pending, NoClaim
<1>27. ASSUME RecoverDone PROVE NoClaim
BY <1>27 DEF RecoverDone, NoClaim
<1>28. CASE claim_next
BY <1>28 DEF claim_next, Claimable
<1>29. ASSUME StartUnit PROVE NoClaim
BY <1>29 DEF StartUnit, NoClaim
<1>30. ASSUME mark_start_error PROVE NoClaim
BY <1>30 DEF mark_start_error, NoClaim
<1>31. ASSUME DispatchKilled PROVE NoClaim
BY <1>31 DEF DispatchKilled, NoClaim
<1>32. ASSUME Reboot PROVE NoClaim
BY <1>32 DEF Reboot, NoClaim
<1>33. ASSUME NEW j \in Jobs, heartbeat_job(j) \/ Expire(j)
      PROVE  UNCHANGED <<status, note, nextId, wpc, dpc, dclaim>>
BY <1>33 DEF heartbeat_job, Expire, jobVars, dispVars, workVars, webVars
<1>34. ASSUME RetentionStart \/ RetentionCheck \/ RetentionEnd \/
             HealthProbe
      PROVE  UNCHANGED <<status, note, nextId, wpc, dpc, dclaim>>
BY <1>34 DEF RetentionStart, RetentionCheck, RetentionEnd, HealthProbe,
         StartWeb, Detached, jobVars, dispVars, workVars, webVars
<1>35. CASE UNCHANGED <<status, note, nextId, wpc, dpc, dclaim>>
  BY <1>35
<1> QED
  BY <1>0, <1>1, <1>2, <1>3, <1>4, <1>5, <1>6, <1>7, <1>8, <1>9, <1>10,
     <1>11, <1>12, <1>13, <1>14, <1>15, <1>16, <1>17, <1>18, <1>19, <1>20,
     <1>21, <1>22, <1>23, <1>24, <1>25, <1>26, <1>27, <1>28, <1>29, <1>30,
     <1>31, <1>32, <1>33, <1>34, <1>35
     DEF Next, Worker, Dispatcher, RetentionRun, vars

\* FifoOrder: when every wake-up succeeds, claim_next never lets a job
\* overtake one that was enqueued before it.
THEOREM QueueIsFifo ==
    ASSUME "wakefail" \notin Faults
    PROVE  Spec => []FifoOrder
<1>1. Init => OrderInv
  BY DEF Init, OrderInv, Claimed, ACTIVE_STATES, Jobs
<1>2. TypeOK /\ ClaimInv /\ OrderInv /\ [Next]_vars => OrderInv'
  BY OrderStep
<1>3. OrderInv => FifoOrder
  BY DEF OrderInv, FifoOrder, Claimed
<1> QED
  BY <1>1, <1>2, <1>3, TypeCorrect, ClaimsTraced, PTL DEF Spec

\* One step leaves a cancelled job cancelled, or deletes its row.
LEMMA CancelStep == TypeOK /\ ClaimInv /\ [Next]_vars => StaysCancelled
<1> SUFFICES ASSUME TypeOK, ClaimInv, [Next]_vars
             PROVE  StaysCancelled
  OBVIOUS
<1> USE DEF TypeOK, Jobs, ACTIVE_STATES, SetStatus, Claimed, ClaimInv,
            StaysCancelled, jobVars, dispVars, workVars, webVars
<1>1. ASSUME NEW k \in Kinds, enqueue_job(k)
      PROVE  StaysCancelled
BY <1>1 DEF enqueue_job
<1>2. ASSUME NEW j \in Jobs, cancel_queued_job(j)
      PROVE  StaysCancelled
BY <1>2 DEF cancel_queued_job
<1>3. ASSUME NEW j \in Jobs, ClaimRunning(j)
      PROVE  StaysCancelled
BY <1>3 DEF ClaimRunning
<1>4. ASSUME NEW j \in Jobs, Act(j)
      PROVE  StaysCancelled
BY <1>4 DEF Act, CanReport, Report
<1>5. ASSUME NEW j \in Jobs, Act2(j)
      PROVE  StaysCancelled
BY <1>5, ZenonT(40) DEF Act2
<1>6. ASSUME NEW j \in Jobs, WriteOk(j)
      PROVE  StaysCancelled
BY <1>6 DEF WriteOk
<1>7. ASSUME NEW j \in Jobs, WriteError(j)
      PROVE  StaysCancelled
BY <1>7 DEF WriteError
<1>8. ASSUME NEW j \in Jobs, ReportProgress(j)
      PROVE  StaysCancelled
BY <1>8 DEF ReportProgress, CanReport, Report
<1>9. ASSUME NEW r \in [id : Jobs, st : ACTIVE_STATES], RecoverRow(r)
      PROVE  StaysCancelled
BY <1>9 DEF RecoverRow
<1>10. CASE ReadRows
BY <1>10 DEF ReadRows, Pending
<1>11. CASE claim_next
BY <1>11 DEF claim_next, Claimable
<1>12. CASE mark_start_error
BY <1>12 DEF mark_start_error
<1>13. ASSUME NEW j \in Jobs, OpenNote(j) \/ CloseNote(j) \/ acquire_lock(j)
             \/ read_job(j) \/ RunOnline(j) \/ BackupFails(j) \/
             WriteMarker(j) \/ StopWeb(j) \/ ActFails(j) \/ RestartWeb(j) \/
             finalize_nuclear_audit(j) \/ Release(j) \/ ExecStopPost(j) \/
             heartbeat_job(j) \/ WorkerKilled(j) \/ WorkerTerminated(j) \/
             Expire(j)
      PROVE  UNCHANGED <<status>>
BY <1>13 DEF OpenNote, CloseNote, acquire_lock, read_job, RunOnline,
         BackupFails, WriteMarker, StopWeb, ActFails, RestartWeb,
         finalize_nuclear_audit, Release, ExecStopPost, heartbeat_job,
         WorkerKilled, WorkerTerminated, Expire, StartWeb, AfterRestart,
         StartWeb, Detached, AfterRestart, jobVars, dispVars, workVars,
         webVars
<1>14. ASSUME DispatchStart \/ RecoverDone \/ StartUnit \/ DispatchKilled \/
             RetentionStart \/ RetentionCheck \/ RetentionEnd \/ HealthProbe
             \/ Reboot
      PROVE  UNCHANGED <<status>>
BY <1>14 DEF DispatchStart, RecoverDone, StartUnit, DispatchKilled,
         RetentionStart, RetentionCheck, RetentionEnd, HealthProbe, Reboot,
         StartWeb, Detached, jobVars, dispVars, workVars, webVars
<1>15. CASE UNCHANGED <<status>>
  BY <1>15
<1> QED
  BY <1>1, <1>2, <1>3, <1>4, <1>5, <1>6, <1>7, <1>8, <1>9, <1>10, <1>11,
     <1>12, <1>13, <1>14, <1>15
     DEF Next, Worker, Dispatcher, RetentionRun, vars

\* CancelledForGood: no late unit, recovery or report brings a cancelled job
\* back.
THEOREM CancelIsFinal == Spec => CancelledForGood
<1>1. TypeOK /\ ClaimInv /\ [Next]_vars => [StaysCancelled]_vars
  BY CancelStep
<1> QED
  BY <1>1, TypeCorrect, ClaimsTraced, PTL
     DEF Spec, CancelledForGood, StaysCancelled

-----------------------------------------------------------------------------
(* Outcomes.                                                               *)

\* EffectInv is inductive.
LEMMA EffectStep == TypeOK /\ ClaimInv /\ EffectInv /\ [Next]_vars =>
    EffectInv'
<1> SUFFICES ASSUME TypeOK, ClaimInv, EffectInv, [Next]_vars
             PROVE  EffectInv'
  OBVIOUS
<1> USE DEF TypeOK, Jobs, ACTIVE_STATES, SetStatus, Goto, Claimed, ClaimInv,
            EffectInv, jobVars, dispVars, workVars, webVars
<1>1. ASSUME NEW k \in Kinds, enqueue_job(k)
      PROVE  EffectInv'
BY <1>1 DEF enqueue_job
<1>2. ASSUME NEW j \in Jobs, cancel_queued_job(j)
      PROVE  EffectInv'
BY <1>2 DEF cancel_queued_job
<1>3. ASSUME NEW j \in Jobs, acquire_lock(j)
      PROVE  EffectInv'
BY <1>3 DEF acquire_lock
<1>4. ASSUME NEW j \in Jobs, read_job(j)
      PROVE  EffectInv'
BY <1>4 DEF read_job
<1>5. ASSUME NEW j \in Jobs, ClaimRunning(j)
      PROVE  EffectInv'
BY <1>5 DEF ClaimRunning
<1>6. ASSUME NEW j \in Jobs, RunOnline(j)
      PROVE  EffectInv'
BY <1>6 DEF RunOnline
<1>7. ASSUME NEW j \in Jobs, BackupFails(j)
      PROVE  EffectInv'
BY <1>7 DEF BackupFails
<1>8. ASSUME NEW j \in Jobs, WriteMarker(j)
      PROVE  EffectInv'
BY <1>8 DEF WriteMarker
<1>9. ASSUME NEW j \in Jobs, StopWeb(j)
      PROVE  EffectInv'
BY <1>9 DEF StopWeb
<1>10. ASSUME NEW j \in Jobs, Act(j)
       PROVE  EffectInv'
BY <1>10 DEF Act, CanReport, Report
<1>11. ASSUME NEW j \in Jobs, Act2(j)
       PROVE  EffectInv'
BY <1>11 DEF Act2
<1>12. ASSUME NEW j \in Jobs, ActFails(j)
       PROVE  EffectInv'
BY <1>12 DEF ActFails, Detached
<1>13. ASSUME NEW j \in Jobs, RestartWeb(j)
       PROVE  EffectInv'
BY <1>13 DEF RestartWeb, StartWeb, AfterRestart
<1>14. ASSUME NEW j \in Jobs, finalize_nuclear_audit(j)
       PROVE  EffectInv'
BY <1>14 DEF finalize_nuclear_audit
<1>15. ASSUME NEW j \in Jobs, WriteOk(j)
       PROVE  EffectInv'
BY <1>15 DEF WriteOk
<1>16. ASSUME NEW j \in Jobs, WriteError(j)
       PROVE  EffectInv'
BY <1>16 DEF WriteError
<1>17. ASSUME NEW j \in Jobs, Release(j)
       PROVE  EffectInv'
BY <1>17 DEF Release
<1>18. ASSUME NEW j \in Jobs, ExecStopPost(j)
       PROVE  EffectInv'
BY <1>18 DEF ExecStopPost, StartWeb
<1>19. ASSUME NEW j \in Jobs, ReportProgress(j)
       PROVE  EffectInv'
BY <1>19 DEF ReportProgress, CanReport, Report
<1>20. ASSUME NEW j \in Jobs, WorkerKilled(j)
       PROVE  EffectInv'
BY <1>20 DEF WorkerKilled
<1>21. ASSUME NEW j \in Jobs, WorkerTerminated(j)
       PROVE  EffectInv'
BY <1>21 DEF WorkerTerminated, Detached, AfterRestart
<1>22. ASSUME NEW r \in [id : Jobs, st : ACTIVE_STATES], RecoverRow(r)
       PROVE  EffectInv'
BY <1>22 DEF RecoverRow
<1>23. CASE ReadRows
BY <1>23 DEF ReadRows, Pending
<1>24. CASE claim_next
BY <1>24 DEF claim_next, Claimable
<1>25. CASE StartUnit
BY <1>25 DEF StartUnit
<1>26. CASE mark_start_error
BY <1>26 DEF mark_start_error
<1>27. CASE Reboot
BY <1>27 DEF Reboot
<1>28. ASSUME NEW j \in Jobs, OpenNote(j) \/ CloseNote(j) \/
             heartbeat_job(j) \/ Expire(j)
      PROVE  UNCHANGED <<status, nextId, wpc, werr, effect>>
BY <1>28 DEF OpenNote, CloseNote, heartbeat_job, Expire, jobVars, dispVars,
         workVars, webVars
<1>29. ASSUME DispatchStart \/ RecoverDone \/ DispatchKilled \/
             RetentionStart \/ RetentionCheck \/ RetentionEnd \/ HealthProbe
      PROVE  UNCHANGED <<status, nextId, wpc, werr, effect>>
BY <1>29 DEF DispatchStart, RecoverDone, DispatchKilled, RetentionStart,
         RetentionCheck, RetentionEnd, HealthProbe, StartWeb, Detached,
         jobVars, dispVars, workVars, webVars
<1>30. CASE UNCHANGED <<status, nextId, wpc, werr, effect>>
  BY <1>30
<1> QED
  BY <1>1, <1>2, <1>3, <1>4, <1>5, <1>6, <1>7, <1>8, <1>9, <1>10, <1>11,
     <1>12, <1>13, <1>14, <1>15, <1>16, <1>17, <1>18, <1>19, <1>20, <1>21,
     <1>22, <1>23, <1>24, <1>25, <1>26, <1>27, <1>28, <1>29, <1>30
     DEF Next, Worker, Dispatcher, RetentionRun, vars

\* OutcomeTruthful: "ok" means the action was done and "cancelled" that it
\* was never begun, whatever was killed, interrupted or recovered.
THEOREM OutcomesAreTruthful == Spec => []OutcomeTruthful
<1>1. Init => EffectInv
  BY DEF Init, EffectInv, Jobs
<1>2. TypeOK /\ ClaimInv /\ EffectInv /\ [Next]_vars => EffectInv'
  BY EffectStep
<1>3. EffectInv => OutcomeTruthful
  BY DEF EffectInv, OutcomeTruthful
<1> QED
  BY <1>1, <1>2, <1>3, TypeCorrect, ClaimsTraced, PTL DEF Spec

-----------------------------------------------------------------------------
(* A Nuclear reset in the queue.                                           *)

\* The steps at which a live worker still needs its row.
Owning == Beating \ {"return"}

\* While every heartbeat is written, a live worker's row is running and fresh,
\* and recover_stale_rows never holds a running row whose worker lives.
AliveInv ==
    /\ \A j \in Jobs : wpc[j] \in Owning => status[j] = "running" /\ ~stale[j]
    /\ \A j \in Jobs : wpc[j] = "return" => status[j] = "ok"
    /\ \A r \in drows : r.st = "running" =>
           /\ wpc[r.id] \notin Beating
           /\ status[r.id] \notin {"queued", "starting"}
           /\ r.id < nextId

\* AliveInv is inductive: only an expired row is recovered, and a row whose
\* worker writes its heartbeats does not expire.
LEMMA AliveStep == "heartbeat" \notin Faults /\ TypeOK /\ LockInv /\ ClaimInv
    /\ AliveInv /\ [Next]_vars => AliveInv'
<1> SUFFICES ASSUME "heartbeat" \notin Faults, TypeOK, LockInv,
                    ClaimInv, AliveInv, [Next]_vars
             PROVE  AliveInv'
  OBVIOUS
<1> USE DEF TypeOK, Jobs, ACTIVE_STATES, SetStatus, Goto, Claimed, ClaimInv,
            LockInv, Holding, Owning, Beating, AliveInv, jobVars, dispVars,
            workVars, webVars
<1>0. ASSUME NEW j \in Jobs, NEW pc \in WorkerSteps,
             wpc' = [wpc EXCEPT ![j] = pc], pc # "return",
             pc \in Beating => wpc[j] \in Owning,
             UNCHANGED <<status, stale, nextId, drows>>
      PROVE  AliveInv'
  BY <1>0
<1>1. ASSUME NEW k \in Kinds, enqueue_job(k) PROVE AliveInv'
  BY <1>1 DEF enqueue_job
<1>2. ASSUME NEW j \in Jobs, cancel_queued_job(j) PROVE AliveInv'
  BY <1>2 DEF cancel_queued_job
<1>3. ASSUME NEW j \in Jobs, acquire_lock(j) PROVE AliveInv'
  <2>1. PICK pc \in {"read", "error"} : wpc' = [wpc EXCEPT ![j] = pc]
    BY <1>3 DEF acquire_lock
  <2>2. UNCHANGED <<status, stale, nextId, drows>>
    BY <1>3 DEF acquire_lock
  <2>3. pc \in WorkerSteps /\ (pc \in Beating => wpc[j] \in Owning)
    BY <1>3, <2>1 DEF acquire_lock, WorkerSteps
  <2> HIDE DEF AliveInv, TypeOK, ClaimInv, LockInv
  <2> QED
    BY <1>0, <2>1, <2>2, <2>3
<1>4. ASSUME NEW j \in Jobs, read_job(j) PROVE AliveInv'
  BY <1>4 DEF read_job
<1>5. ASSUME NEW j \in Jobs, ClaimRunning(j) PROVE AliveInv'
  BY <1>5 DEF ClaimRunning
<1>6. ASSUME NEW j \in Jobs, RunOnline(j) PROVE AliveInv'
  <2>1. PICK pc \in {"ok", "error"} : wpc' = [wpc EXCEPT ![j] = pc]
    BY <1>6 DEF RunOnline
  <2>2. UNCHANGED <<status, stale, nextId, drows>>
    BY <1>6 DEF RunOnline
  <2>3. pc \in WorkerSteps /\ (pc \in Beating => wpc[j] \in Owning)
    BY <1>6, <2>1 DEF RunOnline, WorkerSteps
  <2> HIDE DEF AliveInv, TypeOK, ClaimInv, LockInv
  <2> QED
    BY <1>0, <2>1, <2>2, <2>3
<1>7. ASSUME NEW j \in Jobs, BackupFails(j) PROVE AliveInv'
  BY <1>7 DEF BackupFails
<1>8. ASSUME NEW j \in Jobs, WriteMarker(j) PROVE AliveInv'
  <2>1. PICK pc \in {"stopping", "act"} : wpc' = [wpc EXCEPT ![j] = pc]
    BY <1>8 DEF WriteMarker
  <2>2. UNCHANGED <<status, stale, nextId, drows>>
    BY <1>8 DEF WriteMarker
  <2>3. pc \in WorkerSteps /\ (pc \in Beating => wpc[j] \in Owning)
    BY <1>8, <2>1 DEF WriteMarker, WorkerSteps
  <2> HIDE DEF AliveInv, TypeOK, ClaimInv, LockInv
  <2> QED
    BY <1>0, <2>1, <2>2, <2>3
<1>9. ASSUME NEW j \in Jobs, StopWeb(j) PROVE AliveInv'
  BY <1>9 DEF StopWeb
<1>10. ASSUME NEW j \in Jobs, Act(j) PROVE AliveInv'
  <2>1. PICK pc \in {"act2", "restart"} : wpc' = [wpc EXCEPT ![j] = pc]
    BY <1>10 DEF Act
  <2>2. status[j] = "running" /\ stale[j] = FALSE /\ wpc[j] \in Owning
    BY <1>10 DEF Act
  <2>3. /\ status' = status \/ status' = [status EXCEPT ![j] = "running"]
        /\ stale' = stale \/ stale' = [stale EXCEPT ![j] = FALSE]
        /\ UNCHANGED <<nextId, drows>>
    BY <1>10 DEF Act, CanReport, Report
  <2>4. UNCHANGED <<status, stale, nextId, drows>>
    <3>1. status \in [Jobs -> Statuses] /\ stale \in [Jobs -> BOOLEAN]
      OBVIOUS
    <3> HIDE DEF TypeOK, AliveInv, ClaimInv, LockInv, Jobs
    <3>2. [status EXCEPT ![j] = "running"] = status
      BY <2>2, <3>1
    <3>3. [stale EXCEPT ![j] = FALSE] = stale
      BY <2>2, <3>1
    <3> QED
      BY <2>3, <3>2, <3>3
  <2>5. pc \in WorkerSteps
    BY <2>1 DEF WorkerSteps
  <2> HIDE DEF AliveInv, TypeOK, ClaimInv, LockInv
  <2> QED
    BY <1>0, <2>1, <2>2, <2>4, <2>5
<1>11. ASSUME NEW j \in Jobs, Act2(j) PROVE AliveInv'
  BY <1>11 DEF Act2
<1>12. ASSUME NEW j \in Jobs, ActFails(j) PROVE AliveInv'
  <2>1. PICK pc \in {"restart", "error"} : wpc' = [wpc EXCEPT ![j] = pc]
    BY <1>12 DEF ActFails, Detached
  <2>2. UNCHANGED <<status, stale, nextId, drows>>
    BY <1>12 DEF ActFails, Detached
  <2>3. pc \in WorkerSteps /\ (pc \in Beating => wpc[j] \in Owning)
    BY <1>12, <2>1 DEF ActFails, Detached, WorkerSteps
  <2> HIDE DEF AliveInv, TypeOK, ClaimInv, LockInv
  <2> QED
    BY <1>0, <2>1, <2>2, <2>3
<1>13. ASSUME NEW j \in Jobs, RestartWeb(j) PROVE AliveInv'
  <2>1. PICK pc \in {"audit", "ok", "error"} : wpc' = [wpc EXCEPT ![j] = pc]
    BY <1>13 DEF RestartWeb, AfterRestart
  <2>2. UNCHANGED <<status, stale, nextId, drows>>
    BY <1>13 DEF RestartWeb, AfterRestart
  <2>3. pc \in WorkerSteps /\ (pc \in Beating => wpc[j] \in Owning)
    BY <1>13, <2>1 DEF RestartWeb, AfterRestart, WorkerSteps
  <2> HIDE DEF AliveInv, TypeOK, ClaimInv, LockInv
  <2> QED
    BY <1>0, <2>1, <2>2, <2>3
<1>14. ASSUME NEW j \in Jobs, finalize_nuclear_audit(j) PROVE AliveInv'
  BY <1>14 DEF finalize_nuclear_audit
<1>15. ASSUME NEW j \in Jobs, WriteOk(j) PROVE AliveInv'
  <2>1. CASE status' = status
    BY <1>0, <1>15, <2>1 DEF WriteOk, WorkerSteps
  <2>2. CASE wpc' = [wpc EXCEPT ![j] = "return"]
    <3>1. status[j] = "running" /\ UNCHANGED <<stale, nextId, drows>>
      BY <1>15 DEF WriteOk
    <3>2. status' = [status EXCEPT ![j] = "ok"]
      BY <1>15, <2>2, <3>1 DEF WriteOk
    <3> QED
      BY <1>15, <2>2, <3>1, <3>2 DEF WriteOk
  <2> QED
    BY <1>15, <2>1, <2>2 DEF WriteOk
<1>16. ASSUME NEW j \in Jobs, WriteError(j) PROVE AliveInv'
  BY <1>16 DEF WriteError
<1>17. ASSUME NEW j \in Jobs, Release(j) PROVE AliveInv'
  BY <1>17 DEF Release
<1>18. ASSUME NEW j \in Jobs, ExecStopPost(j) PROVE AliveInv'
  BY <1>18 DEF ExecStopPost, StartWeb
<1>19. ASSUME NEW j \in Jobs, heartbeat_job(j) PROVE AliveInv'
  BY <1>19 DEF heartbeat_job
<1>20. ASSUME NEW j \in Jobs, ReportProgress(j) PROVE AliveInv'
  BY <1>20 DEF ReportProgress, CanReport, Report
<1>21. ASSUME NEW j \in Jobs, WorkerKilled(j) PROVE AliveInv'
  BY <1>21 DEF WorkerKilled
<1>22. ASSUME NEW j \in Jobs, WorkerTerminated(j) PROVE AliveInv'
  BY <1>22 DEF WorkerTerminated, Detached, AfterRestart
<1>23. ASSUME NEW j \in Jobs, Expire(j) PROVE AliveInv'
  BY <1>23 DEF Expire
<1>24. ASSUME NEW r \in [id : Jobs, st : ACTIVE_STATES], RecoverRow(r)
      PROVE  AliveInv'
  BY <1>24 DEF RecoverRow
<1>25. CASE ReadRows
  BY <1>25 DEF ReadRows, Pending
<1>26. CASE claim_next
  BY <1>26 DEF claim_next, Claimable
<1>27. CASE StartUnit
  BY <1>27 DEF StartUnit
<1>28. CASE mark_start_error
  BY <1>28 DEF mark_start_error
<1>29. CASE DispatchKilled
  BY <1>29 DEF DispatchKilled
<1>30. CASE Reboot
  BY <1>30 DEF Reboot
<1>31. ASSUME NEW j \in Jobs, OpenNote(j) \/ CloseNote(j)
      PROVE  UNCHANGED <<status, stale, nextId, drows, wpc>>
  BY <1>31 DEF OpenNote, CloseNote, jobVars, dispVars, workVars, webVars
<1>32. ASSUME DispatchStart \/ RecoverDone \/ RetentionStart \/ RetentionCheck
             \/ RetentionEnd \/ HealthProbe
      PROVE  UNCHANGED <<status, stale, nextId, drows, wpc>>
  BY <1>32 DEF DispatchStart, RecoverDone, RetentionStart, RetentionCheck,
      RetentionEnd, HealthProbe, StartWeb, Detached, jobVars, dispVars,
      workVars, webVars
<1>33. CASE UNCHANGED <<status, stale, nextId, drows, wpc>>
  BY <1>33
<1> QED
  BY <1>0, <1>1, <1>2, <1>3, <1>4, <1>5, <1>6, <1>7, <1>8, <1>9, <1>10, <1>11,
     <1>12, <1>13, <1>14, <1>15, <1>16, <1>17, <1>18, <1>19, <1>20, <1>21,
     <1>22, <1>23, <1>24, <1>25, <1>26, <1>27, <1>28, <1>29, <1>30, <1>31,
     <1>32, <1>33
     DEF Next, Worker, Dispatcher, RetentionRun, vars

\* One step never lets other work join a Nuclear reset.
LEMMA AloneStep == TypeOK /\ ClaimInv /\ AliveInv /\ NuclearAlone
    /\ [Next]_vars => NuclearAlone'
<1> SUFFICES ASSUME TypeOK, ClaimInv, AliveInv, NuclearAlone,
                    [Next]_vars
             PROVE  NuclearAlone'
  OBVIOUS
<1> USE DEF TypeOK, Jobs, Pending, ACTIVE_STATES, SetStatus, Goto, Claimed,
            ClaimInv, Owning, Beating, AliveInv, NuclearAlone, jobVars,
            dispVars, workVars, webVars
<1>1. ASSUME NEW k \in Kinds, enqueue_job(k) PROVE NuclearAlone'
  BY <1>1 DEF enqueue_job, NuclearPending, Exclusive, AllKinds
<1>2. ASSUME NEW j \in Jobs, cancel_queued_job(j) PROVE NuclearAlone'
  BY <1>2 DEF cancel_queued_job
<1>3. ASSUME NEW j \in Jobs, ClaimRunning(j) PROVE NuclearAlone'
  BY <1>3 DEF ClaimRunning
<1>4. ASSUME NEW j \in Jobs, Act(j) PROVE NuclearAlone'
  BY <1>4 DEF Act, CanReport, Report
<1>5. ASSUME NEW j \in Jobs, Act2(j) PROVE NuclearAlone'
  BY <1>5 DEF Act2
<1>6. ASSUME NEW j \in Jobs, WriteOk(j) PROVE NuclearAlone'
  BY <1>6 DEF WriteOk
<1>7. ASSUME NEW j \in Jobs, WriteError(j) PROVE NuclearAlone'
  BY <1>7 DEF WriteError
<1>8. ASSUME NEW j \in Jobs, ReportProgress(j) PROVE NuclearAlone'
  BY <1>8 DEF ReportProgress, CanReport, Report
<1>9. ASSUME NEW r \in [id : Jobs, st : ACTIVE_STATES], RecoverRow(r)
      PROVE  NuclearAlone'
  BY <1>9 DEF RecoverRow
<1>10. CASE ReadRows
  BY <1>10 DEF ReadRows, Pending
<1>11. CASE claim_next
  BY <1>11 DEF claim_next, Claimable
<1>12. CASE mark_start_error
  BY <1>12 DEF mark_start_error
<1>13. ASSUME NEW j \in Jobs, OpenNote(j) \/ CloseNote(j) \/ acquire_lock(j) \/
             read_job(j) \/ RunOnline(j) \/ BackupFails(j) \/ WriteMarker(j) \/
             StopWeb(j) \/ ActFails(j) \/ RestartWeb(j) \/
             finalize_nuclear_audit(j) \/ Release(j) \/ ExecStopPost(j) \/
             heartbeat_job(j) \/ WorkerKilled(j) \/ WorkerTerminated(j) \/
             Expire(j)
      PROVE  UNCHANGED <<status, kind>>
  BY <1>13 DEF OpenNote, CloseNote, acquire_lock, read_job, RunOnline,
      BackupFails, WriteMarker, StopWeb, ActFails, RestartWeb,
      finalize_nuclear_audit, Release, ExecStopPost, heartbeat_job,
      WorkerKilled, WorkerTerminated, Expire, Detached, StartWeb, AfterRestart,
      jobVars, dispVars, workVars, webVars
<1>14. ASSUME DispatchStart \/ RecoverDone \/ StartUnit \/ DispatchKilled \/
             RetentionStart \/ RetentionCheck \/ RetentionEnd \/ HealthProbe \/
             Reboot
      PROVE  UNCHANGED <<status, kind>>
  BY <1>14 DEF DispatchStart, RecoverDone, StartUnit, DispatchKilled,
      RetentionStart, RetentionCheck, RetentionEnd, HealthProbe, Reboot,
      StartWeb, Detached, jobVars, dispVars, workVars, webVars
<1>15. CASE UNCHANGED <<status, kind>>
  BY <1>15
<1> QED
  BY <1>1, <1>2, <1>3, <1>4, <1>5, <1>6, <1>7, <1>8, <1>9, <1>10, <1>11, <1>12,
     <1>13, <1>14, <1>15
     DEF Next, Worker, Dispatcher, RetentionRun, vars

\* NuclearAlone: while every heartbeat is written, enqueue_job's two checks
\* keep a Nuclear reset alone in the queue until it is settled.
THEOREM ResetIsAlone ==
    ASSUME "heartbeat" \notin Faults
    PROVE  Spec => []NuclearAlone
<1>1. Init => AliveInv /\ NuclearAlone
  BY DEF Init, AliveInv, Owning, Beating, NuclearAlone, Pending,
         ACTIVE_STATES, Jobs
<1>2. TypeOK /\ LockInv /\ ClaimInv /\ AliveInv /\ [Next]_vars => AliveInv'
  BY AliveStep
<1>3. TypeOK /\ ClaimInv /\ AliveInv /\ NuclearAlone /\ [Next]_vars
          => NuclearAlone'
  BY AloneStep
<1> QED
  BY <1>1, <1>2, <1>3, TypeCorrect, LockHeld, ClaimsTraced, PTL DEF Spec

-----------------------------------------------------------------------------
(* One job.                                                                *)

\* With one job: the marker is there while the service is down for it, the
\* running web process has loaded the newest epoch, and "ok" comes last.
SoloInv ==
    /\ nextId <= 2
    /\ marker => wpc[1] \notin {"off", "lock", "read", "claim", "exec"}
    /\ web = "down" \/ wpc[1] = "stopping" => marker
    /\ wpc[1] \in Detached \cup {"restart"} => web = "down" /\ was[1]
    /\ web = "up" => webEpoch = dbEpoch
    /\ effect[1] = "done" /\ kind[1] \in {"clear", "nuclear"} => dbEpoch = 1
    /\ wpc[1] = "ok" /\ kind[1] = "nuclear" => audit = "done"
    /\ status[1] = "ok" => /\ wpc[1] \notin Owning
                           /\ kind[1] = "nuclear" => audit = "done"

\* SoloInv is inductive when systemd can start the service and no health check
\* falls into an offline action.
LEMMA SoloStep == "webfail" \notin Faults /\ "slowoffline" \notin Faults
    /\ TypeOK /\ ClaimInv /\ EffectInv /\ SoloInv /\ [Next]_vars
    /\ nextId' <= 2 => SoloInv'
<1> SUFFICES ASSUME "webfail" \notin Faults, "slowoffline" \notin Faults,
                    TypeOK, ClaimInv, EffectInv, SoloInv, [Next]_vars,
                    nextId' <= 2
             PROVE  SoloInv'
  OBVIOUS
<1> USE DEF TypeOK, Jobs, ACTIVE_STATES, SetStatus, Goto, Claimed, ClaimInv,
            EffectInv, Owning, Beating, Detached, StartWeb, Fault, SoloInv,
            jobVars, dispVars, workVars, webVars
<1>0. 1 \in Jobs /\ \A j \in Jobs : wpc[j] # "off" => j = 1
  OBVIOUS
<1>1. ASSUME NEW k \in Kinds, enqueue_job(k) PROVE SoloInv'
  BY <1>1 DEF enqueue_job
<1>2. ASSUME NEW j \in Jobs, cancel_queued_job(j) PROVE SoloInv'
  BY <1>2 DEF cancel_queued_job
<1>3. ASSUME NEW j \in Jobs, acquire_lock(j) PROVE SoloInv'
  BY <1>3 DEF acquire_lock
<1>4. ASSUME NEW j \in Jobs, read_job(j) PROVE SoloInv'
  BY <1>4 DEF read_job
<1>5. ASSUME NEW j \in Jobs, ClaimRunning(j) PROVE SoloInv'
  BY <1>5 DEF ClaimRunning
<1>6. ASSUME NEW j \in Jobs, RunOnline(j) PROVE SoloInv'
  <2>1. j = 1 /\ kind[1] \notin Offline
    BY <1>0, <1>6 DEF RunOnline
  <2> QED
    BY <1>6, <2>1 DEF RunOnline, Offline
<1>7. ASSUME NEW j \in Jobs, BackupFails(j) PROVE SoloInv'
  BY <1>7 DEF BackupFails
<1>8. ASSUME NEW j \in Jobs, WriteMarker(j) PROVE SoloInv'
  BY <1>8 DEF WriteMarker
<1>9. ASSUME NEW j \in Jobs, StopWeb(j) PROVE SoloInv'
  BY <1>9 DEF StopWeb
<1>10. ASSUME NEW j \in Jobs, Act(j) PROVE SoloInv'
  BY <1>10 DEF Act, CanReport, Report
<1>11. ASSUME NEW j \in Jobs, Act2(j) PROVE SoloInv'
  BY <1>11 DEF Act2
<1>12. ASSUME NEW j \in Jobs, ActFails(j) PROVE SoloInv'
  BY <1>12 DEF ActFails, Detached
<1>13. ASSUME NEW j \in Jobs, RestartWeb(j) PROVE SoloInv'
  BY <1>13 DEF RestartWeb, StartWeb, AfterRestart
<1>14. ASSUME NEW j \in Jobs, finalize_nuclear_audit(j) PROVE SoloInv'
  BY <1>14 DEF finalize_nuclear_audit
<1>15. ASSUME NEW j \in Jobs, WriteOk(j) PROVE SoloInv'
  BY <1>15 DEF WriteOk
<1>16. ASSUME NEW j \in Jobs, WriteError(j) PROVE SoloInv'
  BY <1>16 DEF WriteError
<1>17. ASSUME NEW j \in Jobs, Release(j) PROVE SoloInv'
  BY <1>17 DEF Release
<1>18. ASSUME NEW j \in Jobs, ExecStopPost(j) PROVE SoloInv'
  BY <1>18 DEF ExecStopPost, StartWeb
<1>19. ASSUME NEW j \in Jobs, ReportProgress(j) PROVE SoloInv'
  BY <1>19 DEF ReportProgress, CanReport, Report
<1>20. ASSUME NEW j \in Jobs, WorkerKilled(j) PROVE SoloInv'
  BY <1>20 DEF WorkerKilled
<1>21. ASSUME NEW j \in Jobs, WorkerTerminated(j) PROVE SoloInv'
  BY <1>21 DEF WorkerTerminated, Detached, AfterRestart
<1>22. ASSUME NEW r \in [id : Jobs, st : ACTIVE_STATES], RecoverRow(r)
      PROVE  SoloInv'
  BY <1>22 DEF RecoverRow
<1>23. CASE ReadRows
  BY <1>23 DEF ReadRows, Pending
<1>24. CASE claim_next
  BY <1>24 DEF claim_next, Claimable
<1>25. CASE StartUnit
  BY <1>25 DEF StartUnit
<1>26. CASE mark_start_error
  BY <1>26 DEF mark_start_error
<1>27. CASE HealthProbe
  BY <1>27 DEF HealthProbe, StartWeb, Detached
<1>28. CASE Reboot
  BY <1>28 DEF Reboot
<1>29. ASSUME NEW j \in Jobs, OpenNote(j) \/ CloseNote(j) \/ heartbeat_job(j)
             \/ Expire(j)
      PROVE  UNCHANGED <<status, kind, nextId, wpc, was, web, marker, webEpoch,
             dbEpoch, audit, effect>>
  BY <1>29 DEF OpenNote, CloseNote, heartbeat_job, Expire, jobVars, dispVars,
      workVars, webVars
<1>30. ASSUME DispatchStart \/ RecoverDone \/ DispatchKilled \/ RetentionStart
             \/ RetentionCheck \/ RetentionEnd
      PROVE  UNCHANGED <<status, kind, nextId, wpc, was, web, marker, webEpoch,
             dbEpoch, audit, effect>>
  BY <1>30 DEF DispatchStart, RecoverDone, DispatchKilled, RetentionStart,
      RetentionCheck, RetentionEnd, jobVars, dispVars, workVars, webVars
<1>31. CASE UNCHANGED <<status, kind, nextId, wpc, was, web, marker, webEpoch,
         dbEpoch, audit, effect>>
  BY <1>31
<1> QED
  BY <1>0, <1>1, <1>2, <1>3, <1>4, <1>5, <1>6, <1>7, <1>8, <1>9, <1>10, <1>11,
     <1>12, <1>13, <1>14, <1>15, <1>16, <1>17, <1>18, <1>19, <1>20, <1>21,
     <1>22, <1>23, <1>24, <1>25, <1>26, <1>27, <1>28, <1>29, <1>30, <1>31
     DEF Next, Worker, Dispatcher, RetentionRun, vars

\* SingleSettles: with one job, once its unit is gone the web service is up
\* again without a marker (stop_service, ExecStopPost), a finished clear or
\* Nuclear reset has fenced off older samples, and a Nuclear reset is "ok"
\* only with its audit closed, whatever was killed, interrupted or rebooted.
THEOREM OneJobSettles ==
    ASSUME "webfail" \notin Faults, "slowoffline" \notin Faults
    PROVE  ScenesSpec => []SingleSettles
<1> DEFINE Inv == scene = "single" => TypeOK /\ ClaimInv /\ EffectInv /\ SoloInv
<1>1. ScenesInit => Inv
  <2> SUFFICES ASSUME Init PROVE TypeOK /\ ClaimInv /\ EffectInv /\ SoloInv
    BY DEF ScenesInit
  <2>1. ClaimInv
    BY DEF Init, ClaimInv, Claimed, ACTIVE_STATES, Jobs
  <2>2. EffectInv
    BY DEF Init, EffectInv, Jobs
  <2>3. SoloInv
    BY DEF Init, SoloInv, Jobs, Detached, Owning, Beating
  <2> QED
    BY <2>1, <2>2, <2>3, TypeInit
<1>2. Inv /\ [ScenesNext]_sv => Inv'
  <2> SUFFICES ASSUME Inv, [ScenesNext]_sv, scene' = "single"
               PROVE  (TypeOK /\ ClaimInv /\ EffectInv /\ SoloInv)'
    OBVIOUS
  <2>1. CASE Single(Next)
    BY <2>1, TypeStep, ClaimStep, EffectStep, SoloStep DEF Single
  <2>2. CASE InTwo(Several!Next)
    BY <2>2 DEF InTwo
  <2>3. CASE UNCHANGED sv
    <3>1. UNCHANGED vars /\ nextId' = nextId /\ scene' = scene
      BY <2>3 DEF sv, vars
    <3>2. TypeOK /\ ClaimInv /\ EffectInv /\ SoloInv
      BY <3>1
    <3>3. nextId' <= 2
      BY <3>1, <3>2 DEF SoloInv
    <3> QED
      BY <3>1, <3>2, <3>3, TypeStep, ClaimStep, EffectStep, SoloStep
  <2> QED
    BY <2>1, <2>2, <2>3 DEF ScenesNext
<1>3. Inv => SingleSettles
  <2> SUFFICES ASSUME TypeOK, ClaimInv, EffectInv, SoloInv
               PROVE  WebRestored /\ ResetFenced /\ AuditClosed
    BY DEF SingleSettles
  <2>1. \A j \in Jobs : status[j] = "ok" => j = 1
    BY DEF TypeOK, ClaimInv, Claimed, ACTIVE_STATES, SoloInv, Jobs
  <2>2. WebRestored
    BY DEF WebRestored, SoloInv, TypeOK, Jobs
  <2>3. ResetFenced
    BY <2>1 DEF ResetFenced, SoloInv, EffectInv, TypeOK, Jobs
  <2>4. AuditClosed
    BY <2>1 DEF AuditClosed, SoloInv
  <2> QED
    BY <2>2, <2>3, <2>4
<1> QED
  BY <1>1, <1>2, <1>3, PTL DEF ScenesSpec
=============================================================================
