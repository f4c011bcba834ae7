-------------------------- MODULE MaintenanceQueue --------------------------
(***************************************************************************)
(* The maintenance pipeline: the PostgreSQL queue of maintenance_jobs      *)
(* (app/maintenance_queue.py), the one-shot dispatcher that recovers stale *)
(* rows and claims the next one (app/maintenance_dispatch.py), the worker  *)
(* process of each job (app/maintenance.py), the automatic retention run   *)
(* that shares the workers' lock file (app/retention.py), and what systemd *)
(* does around them: one unit per job, its ExecStopPost, the web service   *)
(* and the health watch.                                                   *)
(*                                                                         *)
(* A SQL transaction, a flock call and a systemctl call are one step each. *)
(* Time is abstracted to the only thing the code asks of it: whether the   *)
(* age of a row has passed its limit ("stale").                            *)
(***************************************************************************)
EXTENDS Integers, FiniteSets

CONSTANTS
    MaxJobs,    \* job ids are 1..MaxJobs: maintenance_jobs.id is a sequence
    Kinds,      \* the kinds of action the web application may enqueue
    Faults,     \* what may go wrong: a subset of FaultNames
    MaxFaults   \* how many one-time faults a behaviour may contain

\* kill        a process gets SIGKILL, or the dispatcher's unit times out
\* term        systemctl stop: SIGTERM raises MaintenanceInterrupted
\* reboot      the host goes down and comes back
\* heartbeat   a live worker's heartbeat writes fail for 300 s
\* slowstart   a claimed unit takes more than 120 s to reach its claim
\* slowoffline an offline action outlasts two health probes
\* webfail     systemctl cannot start the web service
\* dbfail      the write of a job's outcome fails
\* wakefail    systemctl cannot start the dispatcher after an enqueue
\* startfail   systemctl cannot start a claimed unit
FaultNames == {"kill", "term", "reboot", "heartbeat", "slowstart",
               "slowoffline", "webfail", "dbfail", "wakefail", "startfail"}

\* routine: every action that leaves the web service up.  clear, restore and
\* nuclear are clear_monitoring_data, configuration_restore, reset_app_data.
AllKinds == {"routine", "clear", "restore", "nuclear"}

ASSUME MaxJobsAssumption == MaxJobs \in Nat \ {0}
ASSUME KindsAssumption == Kinds \subseteq AllKinds /\ Kinds # {}
ASSUME FaultsAssumption == Faults \subseteq FaultNames
ASSUME MaxFaultsAssumption == MaxFaults \in Nat

VARIABLES
    status,     \* maintenance_jobs.status; "none" when there is no such row
    kind,       \* maintenance_jobs.action
    stale,      \* the age the row's status is judged by has passed its limit
    nextId,     \* the next value of the id sequence
    note,       \* the wake-failure message of enqueue_job: no, due, row locked
    dpc,        \* the dispatcher's next step
    drows,      \* the stale rows it has read: records of id and status
    dclaim,     \* the job it has claimed, 0 for none
    wpc,        \* the next step of each job's worker unit
    wexp,       \* the status the worker read
    was,        \* stop_service returned: the web service was active
    werr,       \* action_error is set
    flock,      \* who holds the maintenance lock file
    rpc,        \* the automatic retention run
    web,        \* bw-monitor.service
    marker,     \* the offline marker under /run exists
    failures,   \* failed live checks in a row
    dbEpoch,    \* admin_settings.operational_push_accept_after: who set it
    webEpoch,   \* the value the running web process loaded when it started
    audit,      \* the status of the Nuclear audit row
    effect,     \* history: how far the job's action got
    faults      \* one-time faults so far

jobVars  == <<status, kind, stale, nextId, note>>
dispVars == <<dpc, drows, dclaim>>
workVars == <<wpc, wexp, was, werr>>
webVars  == <<web, marker, webEpoch>>
vars == <<status, kind, stale, nextId, note, dpc, drows, dclaim, wpc, wexp,
          was, werr, flock, rpc, web, marker, failures, dbEpoch, webEpoch,
          audit, effect, faults>>

Jobs == 1..MaxJobs
Nobody == 0
Retention == MaxJobs + 1

ACTIVE_STATES == {"starting", "running"}
TERMINAL_STATES == {"ok", "error", "cancelled"}
Pending == {"queued"} \cup ACTIVE_STATES
Statuses == {"none"} \cup Pending \cup TERMINAL_STATES

\* The actions that stop the web service, and those that must be enqueued alone.
Offline == {"clear", "restore", "nuclear"}
Exclusive == {"restore", "nuclear"}

\* The steps of a worker between acquire_lock and its release.
Holding == {"read", "claim", "exec", "stopping", "act", "act2", "restart",
            "audit", "ok", "return"}
\* The steps during which the heartbeat thread runs.
Beating == {"exec", "stopping", "act", "act2", "restart", "audit", "ok",
            "return"}
\* The steps of an action that has stopped the web service.
Detached == {"act", "act2"}
WorkerSteps == {"off", "lock", "error", "unlock", "post"} \cup Holding

TypeOK ==
    /\ status \in [Jobs -> Statuses]
    /\ kind \in [Jobs -> AllKinds \cup {"legacy"}]
    /\ stale \in [Jobs -> BOOLEAN]
    /\ nextId \in 1..(MaxJobs + 1)
    /\ note \in [Jobs -> {"no", "due", "open"}]
    /\ dpc \in {"idle", "read", "recover", "claim", "start", "starterror"}
    /\ drows \in SUBSET [id : Jobs, st : ACTIVE_STATES]
    /\ dclaim \in 0..MaxJobs
    /\ wpc \in [Jobs -> WorkerSteps]
    /\ wexp \in [Jobs -> {"queued", "starting"}]
    /\ was \in [Jobs -> BOOLEAN]
    /\ werr \in [Jobs -> BOOLEAN]
    /\ flock \in 0..(MaxJobs + 1)
    /\ rpc \in {"off", "check", "run"}
    /\ web \in {"up", "down"}
    /\ marker \in BOOLEAN
    /\ failures \in 0..1
    /\ dbEpoch \in 0..MaxJobs
    /\ webEpoch \in 0..MaxJobs
    /\ audit \in {"none", "running", "done", "reset_done_service_failed"}
    /\ effect \in [Jobs -> {"none", "started", "done"}]
    /\ faults \in 0..MaxFaults

\* An installation: an empty queue, or one row that an older release queued
\* (clear_live_cache or checkpoint) just before an in-place upgrade.
Init ==
    /\ \/ /\ status = [j \in Jobs |-> "none"]
          /\ kind = [j \in Jobs |-> "routine"]
          /\ nextId = 1
       \/ /\ status = [j \in Jobs |-> IF j = 1 THEN "queued" ELSE "none"]
          /\ kind = [j \in Jobs |-> IF j = 1 THEN "legacy" ELSE "routine"]
          /\ nextId = 2
    /\ stale = [j \in Jobs |-> FALSE]
    /\ note = [j \in Jobs |-> "no"]
    /\ dpc = "idle" /\ drows = {} /\ dclaim = 0
    /\ wpc = [j \in Jobs |-> "off"]
    /\ wexp = [j \in Jobs |-> "queued"]
    /\ was = [j \in Jobs |-> FALSE]
    /\ werr = [j \in Jobs |-> FALSE]
    /\ flock = Nobody /\ rpc = "off"
    /\ web = "up" /\ marker = FALSE /\ failures = 0
    /\ dbEpoch = 0 /\ webEpoch = 0
    /\ audit = "none"
    /\ effect = [j \in Jobs |-> "none"]
    /\ faults = 0

-----------------------------------------------------------------------------
(* What the steps share.                                                   *)

\* The one-time fault f happens.
Fault(f) == f \in Faults /\ faults < MaxFaults /\ faults' = faults + 1

\* An UPDATE of row j's status; it changes nothing when there is no row.
SetStatus(j, s) ==
    status' = IF status[j] = "none" THEN status ELSE [status EXCEPT ![j] = s]

\* Mutant: the index was dropped with its predecessor and never created.
IndexFreeNever(j) == TRUE

\* The partial unique index uq_maintenance_jobs_one_worker rejects a second
\* row in an active status.
IndexFree(j) == \A i \in Jobs \ {j} : status[i] \notin ACTIVE_STATES

\* update_job(..., "running", ...) without expected_status succeeds.
CanReport(j) == status[j] = "none" \/ IndexFree(j)
Report(j) == /\ SetStatus(j, "running")
             /\ stale' = [stale EXCEPT ![j] = FALSE]

\* systemctl start bw-monitor.service: a stopped service starts and loads the
\* epoch, a running one is left alone.
StartWeb == /\ web' = "up"
            /\ webEpoch' = IF web = "down" THEN dbEpoch ELSE webEpoch

Goto(j, pc) == wpc' = [wpc EXCEPT ![j] = pc]

-----------------------------------------------------------------------------
(* The web application: enqueue_job and cancel_queued_job.                 *)

NuclearPending ==
    \E i \in Jobs : kind[i] = "nuclear" /\ status[i] \in Pending

\* Mutant: the queue is not checked for a pending Nuclear reset.
enqueue_jobUnchecked(k) ==
    /\ web = "up"
    /\ nextId <= MaxJobs
    /\ k \in Exclusive => \A i \in Jobs : status[i] \notin Pending
    /\ status' = [status EXCEPT ![nextId] = "queued"]
    /\ kind' = [kind EXCEPT ![nextId] = k]
    /\ nextId' = nextId + 1
    /\ UNCHANGED <<stale, note, dispVars, workVars, flock, rpc, webVars,
                   failures, dbEpoch, audit, effect, faults>>

\* enqueue_job under its advisory lock.  A failed wake is followed by a
\* second transaction that writes a message into the row.
enqueue_job(k) ==
    /\ web = "up"
    /\ nextId <= MaxJobs
    /\ k \notin Exclusive => ~NuclearPending
    /\ k \in Exclusive => \A i \in Jobs : status[i] \notin Pending
    /\ status' = [status EXCEPT ![nextId] = "queued"]
    /\ kind' = [kind EXCEPT ![nextId] = k]
    /\ nextId' = nextId + 1
    /\ \/ note' = note /\ faults' = faults
       \/ Fault("wakefail") /\ note' = [note EXCEPT ![nextId] = "due"]
    /\ UNCHANGED <<stale, dispVars, workVars, flock, rpc, webVars, failures,
                   dbEpoch, audit, effect>>

\* The message transaction locks the row while it is open.
OpenNote(j) ==
    /\ note[j] = "due"
    /\ note' = [note EXCEPT ![j] = IF status[j] = "queued" THEN "open" ELSE "no"]
    /\ UNCHANGED <<status, kind, stale, nextId, dispVars, workVars, flock, rpc,
                   webVars, failures, dbEpoch, audit, effect, faults>>

CloseNote(j) ==
    /\ note[j] = "open"
    /\ note' = [note EXCEPT ![j] = "no"]
    /\ UNCHANGED <<status, kind, stale, nextId, dispVars, workVars, flock, rpc,
                   webVars, failures, dbEpoch, audit, effect, faults>>

\* Mutant: UPDATE without AND status='queued'.
cancel_queued_jobAny(j) ==
    /\ web = "up"
    /\ status[j] \in Pending
    /\ status' = [status EXCEPT ![j] = "cancelled"]
    /\ UNCHANGED <<kind, stale, nextId, note, dispVars, workVars, flock, rpc,
                   webVars, failures, dbEpoch, audit, effect, faults>>

cancel_queued_job(j) ==
    /\ web = "up"
    /\ status[j] = "queued"
    /\ note[j] # "open"
    /\ status' = [status EXCEPT ![j] = "cancelled"]
    /\ UNCHANGED <<kind, stale, nextId, note, dispVars, workVars, flock, rpc,
                   webVars, failures, dbEpoch, audit, effect, faults>>

-----------------------------------------------------------------------------
(* The dispatcher.  Its unit is a oneshot: one instance at a time, started *)
(* by a wake-up, by a worker's ExecStopPost or by the one-minute timer.    *)

\* systemctl is-active: a oneshot unit without RemainAfterExit is
\* "activating" while its process runs and never becomes "active".
UnitState(j) == IF wpc[j] = "off" THEN "inactive"
                ELSE IF wpc[j] = "post" THEN "deactivating" ELSE "activating"
unit_active(j) == UnitState(j) = "active"

DispatchStart ==
    /\ dpc = "idle"
    /\ dpc' = "read"
    /\ UNCHANGED <<jobVars, drows, dclaim, workVars, flock, rpc, webVars,
                   failures, dbEpoch, audit, effect, faults>>

\* Mutant: only starting rows are looked at.
ReadRowsStarting ==
    /\ dpc = "read"
    /\ drows' = {r \in [id : Jobs, st : {"starting"}] :
                    status[r.id] = r.st /\ stale[r.id]}
    /\ dpc' = "recover"
    /\ UNCHANGED <<jobVars, dclaim, workVars, flock, rpc, webVars, failures,
                   dbEpoch, audit, effect, faults>>

\* The first transaction of recover_stale_rows.
ReadRows ==
    /\ dpc = "read"
    /\ status' = [j \in Jobs |->
                    IF kind[j] = "legacy" /\ status[j] \in Pending
                    THEN "cancelled" ELSE status[j]]
    /\ drows' = {r \in [id : Jobs, st : ACTIVE_STATES] :
                    status'[r.id] = r.st /\ stale[r.id]}
    /\ dpc' = "recover"
    /\ UNCHANGED <<kind, stale, nextId, note, dclaim, workVars, flock, rpc,
                   webVars, failures, dbEpoch, audit, effect, faults>>

\* The loop of recover_stale_rows: each row is judged by what was read, and
\* updated only if it still has the status that was read.
RecoverRow(r) ==
    /\ dpc = "recover"
    /\ r \in drows
    /\ drows' = drows \ {r}
    /\ status' = IF ~unit_active(r.id) /\ status[r.id] = r.st
                 THEN [status EXCEPT ![r.id] = "error"] ELSE status
    /\ UNCHANGED <<kind, stale, nextId, note, dpc, dclaim, workVars, flock,
                   rpc, webVars, failures, dbEpoch, audit, effect, faults>>

RecoverDone ==
    /\ dpc = "recover" /\ drows = {}
    /\ dpc' = "claim"
    /\ UNCHANGED <<jobVars, drows, dclaim, workVars, flock, rpc, webVars,
                   failures, dbEpoch, audit, effect, faults>>

\* The rows claim_next may take: SKIP LOCKED passes over a locked row.
Claimable == {j \in Jobs : status[j] = "queued" /\ note[j] # "open"}

\* Mutant: the SELECT has lost its ORDER BY id.
claim_nextAnyOrder ==
    /\ dpc = "claim"
    /\ \A i \in Jobs : status[i] \notin ACTIVE_STATES
    /\ \E j \in Claimable :
          /\ status' = [status EXCEPT ![j] = "starting"]
          /\ stale' = [stale EXCEPT ![j] = FALSE]
          /\ dclaim' = j
    /\ dpc' = "start"
    /\ UNCHANGED <<kind, nextId, note, drows, workVars, flock, rpc, webVars,
                   failures, dbEpoch, audit, effect, faults>>

claim_next ==
    /\ dpc = "claim"
    /\ \/ /\ \/ \E i \in Jobs : status[i] \in ACTIVE_STATES
             \/ Claimable = {}
          /\ dpc' = "idle"
          /\ UNCHANGED <<status, stale, dclaim>>
       \/ /\ \A i \in Jobs : status[i] \notin ACTIVE_STATES
          /\ \E j \in Claimable :
                /\ \A i \in Claimable : j <= i
                /\ status' = [status EXCEPT ![j] = "starting"]
                /\ stale' = [stale EXCEPT ![j] = FALSE]
                /\ dclaim' = j
          /\ dpc' = "start"
    /\ UNCHANGED <<kind, nextId, note, drows, workVars, flock, rpc, webVars,
                   failures, dbEpoch, audit, effect, faults>>

\* systemctl --no-block start of the claimed unit; a unit that is already
\* running is left alone.
StartUnit ==
    /\ dpc = "start"
    /\ \/ /\ wpc' = IF wpc[dclaim] = "off"
                    THEN [wpc EXCEPT ![dclaim] = "lock"] ELSE wpc
          /\ dpc' = "idle" /\ dclaim' = 0 /\ faults' = faults
       \/ /\ Fault("startfail")
          /\ dpc' = "starterror" /\ UNCHANGED <<wpc, dclaim>>
    /\ UNCHANGED <<jobVars, drows, wexp, was, werr, flock, rpc, webVars,
                   failures, dbEpoch, audit, effect>>

mark_start_error ==
    /\ dpc = "starterror"
    /\ status' = IF status[dclaim] = "starting"
                 THEN [status EXCEPT ![dclaim] = "error"] ELSE status
    /\ dpc' = "idle" /\ dclaim' = 0
    /\ UNCHANGED <<kind, stale, nextId, note, drows, workVars, flock, rpc,
                   webVars, failures, dbEpoch, audit, effect, faults>>

DispatchKilled ==
    /\ dpc # "idle"
    /\ Fault("kill")
    /\ dpc' = "idle" /\ drows' = {} /\ dclaim' = 0
    /\ UNCHANGED <<jobVars, workVars, flock, rpc, webVars, failures, dbEpoch,
                   audit, effect>>

-----------------------------------------------------------------------------
(* The worker unit of job j: maintenance.py main and execute_action.       *)

\* Mutant: a lock that is taken does not stop the worker.
acquire_lockIgnored(j) ==
    /\ wpc[j] = "lock"
    /\ flock' = IF flock = Nobody THEN j ELSE flock
    /\ Goto(j, "read")
    /\ UNCHANGED <<jobVars, dispVars, wexp, was, werr, rpc, webVars, failures,
                   dbEpoch, audit, effect, faults>>

acquire_lock(j) ==
    /\ wpc[j] = "lock"
    /\ IF flock = Nobody
       THEN flock' = j /\ Goto(j, "read")
       ELSE flock' = flock /\ Goto(j, "error")
    /\ UNCHANGED <<jobVars, dispVars, wexp, was, werr, rpc, webVars, failures,
                   dbEpoch, audit, effect, faults>>

read_job(j) ==
    /\ wpc[j] = "read"
    /\ IF status[j] \in {"starting", "queued"}
       THEN wexp' = [wexp EXCEPT ![j] = status[j]] /\ Goto(j, "claim")
       ELSE wexp' = wexp /\ Goto(j, "error")
    /\ UNCHANGED <<jobVars, dispVars, was, werr, flock, rpc, webVars, failures,
                   dbEpoch, audit, effect, faults>>

\* update_job("running") with expected_status.
ClaimRunning(j) ==
    /\ wpc[j] = "claim"
    /\ IF status[j] = wexp[j] /\ IndexFree(j)
       THEN /\ status' = [status EXCEPT ![j] = "running"]
            /\ stale' = [stale EXCEPT ![j] = FALSE]
            /\ effect' = [effect EXCEPT ![j] = "started"]
            /\ Goto(j, "exec")
       ELSE Goto(j, "error") /\ UNCHANGED <<status, stale, effect>>
    /\ UNCHANGED <<kind, nextId, note, dispVars, wexp, was, werr, flock, rpc,
                   webVars, failures, dbEpoch, audit, faults>>

\* heartbeat_job: the write is restricted to a running row.
heartbeat_job(j) ==
    /\ wpc[j] \in Beating
    /\ status[j] = "running" /\ stale[j]
    /\ stale' = [stale EXCEPT ![j] = FALSE]
    /\ UNCHANGED <<status, kind, nextId, note, dispVars, workVars, flock, rpc,
                   webVars, failures, dbEpoch, audit, effect, faults>>

\* A progress report while the action runs.  The purge and history actions
\* swallow a rejected update; restore and Nuclear abort.
ReportProgress(j) ==
    /\ wpc[j] = "exec" /\ kind[j] # "clear"
    /\ IF CanReport(j)
       THEN Report(j) /\ wpc' = wpc
       ELSE /\ UNCHANGED <<status, stale>>
            /\ wpc' = IF kind[j] = "routine" THEN wpc
                      ELSE [wpc EXCEPT ![j] = "error"]
    /\ UNCHANGED <<kind, nextId, note, dispVars, wexp, was, werr, flock, rpc,
                   webVars, failures, dbEpoch, audit, effect, faults>>

\* An online action, or the backups that precede an offline one, ends.
RunOnline(j) ==
    /\ wpc[j] = "exec" /\ kind[j] \notin Offline
    /\ \/ effect' = [effect EXCEPT ![j] = "done"] /\ Goto(j, "ok")
       \/ effect' = effect /\ Goto(j, "error")
    /\ UNCHANGED <<jobVars, dispVars, wexp, was, werr, flock, rpc, webVars,
                   failures, dbEpoch, audit, faults>>

BackupFails(j) ==
    /\ wpc[j] = "exec" /\ kind[j] \in Exclusive
    /\ Goto(j, "error")
    /\ UNCHANGED <<jobVars, dispVars, wexp, was, werr, flock, rpc, webVars,
                   failures, dbEpoch, audit, effect, faults>>

\* Mutant: the service is stopped without a marker.
WriteMarkerNot(j) ==
    /\ wpc[j] = "exec" /\ kind[j] \in Offline
    /\ Goto(j, IF web = "up" THEN "stopping" ELSE "act")
    /\ UNCHANGED <<jobVars, dispVars, wexp, was, werr, flock, rpc, webVars,
                   failures, dbEpoch, audit, effect, faults>>

\* stop_service: the marker is written before the service is stopped.
WriteMarker(j) ==
    /\ wpc[j] = "exec" /\ kind[j] \in Offline
    /\ IF web = "up"
       THEN marker' = TRUE /\ Goto(j, "stopping")
       ELSE marker' = marker /\ Goto(j, "act")
    /\ UNCHANGED <<jobVars, dispVars, wexp, was, werr, flock, rpc, web,
                   webEpoch, failures, dbEpoch, audit, effect, faults>>

StopWeb(j) ==
    /\ wpc[j] = "stopping"
    /\ web' = "down"
    /\ was' = [was EXCEPT ![j] = TRUE]
    /\ Goto(j, "act")
    /\ UNCHANGED <<jobVars, dispVars, wexp, werr, flock, rpc, marker, webEpoch,
                   failures, dbEpoch, audit, effect, faults>>

\* The first half of the offline action: TRUNCATE of the monitoring tables,
\* the whole configuration restore, or the last report before the reset.
Act(j) ==
    /\ wpc[j] = "act"
    /\ \/ /\ kind[j] = "clear"
          /\ Goto(j, "act2")
          /\ UNCHANGED <<status, stale, effect, werr>>
       \/ /\ kind[j] = "restore"
          /\ effect' = [effect EXCEPT ![j] = "done"]
          /\ Goto(j, "restart")
          /\ UNCHANGED <<status, stale, werr>>
       \/ /\ kind[j] = "nuclear" /\ CanReport(j)
          /\ Report(j)
          /\ Goto(j, "act2")
          /\ UNCHANGED <<effect, werr>>
       \/ /\ kind[j] = "nuclear" /\ ~CanReport(j)
          /\ werr' = [werr EXCEPT ![j] = TRUE]
          /\ Goto(j, "restart")
          /\ UNCHANGED <<status, stale, effect>>
    /\ UNCHANGED <<kind, nextId, note, dispVars, wexp, was, flock, rpc, webVars,
                   failures, dbEpoch, audit, faults>>

\* The second half: set_reset_acceptance_epochs in its own transaction, or the
\* transaction of reset_app_data, which deletes every other job.
Act2(j) ==
    /\ wpc[j] = "act2"
    /\ \/ /\ kind[j] = "clear"
          /\ dbEpoch' = j
          /\ effect' = [effect EXCEPT ![j] = "done"]
          /\ UNCHANGED <<status, werr, audit>>
       \/ /\ kind[j] = "nuclear" /\ status[j] \in ACTIVE_STATES
          /\ status' = [i \in Jobs |-> IF i = j THEN status[i] ELSE "none"]
          /\ dbEpoch' = j
          /\ audit' = "running"
          /\ effect' = [effect EXCEPT ![j] = "done"]
          /\ werr' = werr
       \/ /\ kind[j] = "nuclear" /\ status[j] \notin ACTIVE_STATES
          /\ werr' = [werr EXCEPT ![j] = TRUE]
          /\ UNCHANGED <<status, dbEpoch, audit, effect>>
    /\ Goto(j, "restart")
    /\ UNCHANGED <<kind, stale, nextId, note, dispVars, wexp, was, flock, rpc,
                   webVars, failures, faults>>

\* An exception in the offline action, or in stop_service before it returns.
ActFails(j) ==
    /\ \/ /\ wpc[j] \in Detached
          /\ werr' = [werr EXCEPT ![j] = TRUE]
          /\ Goto(j, "restart")
       \/ /\ wpc[j] = "stopping"
          /\ werr' = werr
          /\ Goto(j, "error")
    /\ UNCHANGED <<jobVars, dispVars, wexp, was, flock, rpc, webVars, failures,
                   dbEpoch, audit, effect, faults>>

\* Mutant: action_error is not raised again.
AfterRestartForgets(j, err) ==
    IF kind[j] = "nuclear" /\ effect[j] = "done" THEN "audit" ELSE "ok"

\* Where execute_action goes after its finally clause.
AfterRestart(j, err) ==
    IF kind[j] = "nuclear" /\ effect[j] = "done" THEN "audit"
    ELSE IF err THEN "error" ELSE "ok"

\* _start_service_reliably and verify_monitor_health, only if the service was
\* active.
RestartWeb(j) ==
    /\ wpc[j] = "restart"
    /\ \/ /\ ~was[j]
          /\ Goto(j, AfterRestart(j, werr[j]))
          /\ UNCHANGED <<werr, webVars, faults>>
       \/ /\ was[j]
          /\ StartWeb /\ marker' = FALSE
          /\ Goto(j, AfterRestart(j, werr[j]))
          /\ UNCHANGED <<werr, faults>>
       \/ /\ was[j]
          /\ Fault("webfail")
          /\ werr' = [werr EXCEPT ![j] = TRUE]
          /\ Goto(j, AfterRestart(j, TRUE))
          /\ UNCHANGED webVars
    /\ UNCHANGED <<jobVars, dispVars, wexp, was, flock, rpc, failures, dbEpoch,
                   audit, effect>>

finalize_nuclear_audit(j) ==
    /\ wpc[j] = "audit"
    /\ \/ /\ audit' = IF werr[j] THEN "reset_done_service_failed" ELSE "done"
          /\ Goto(j, IF werr[j] THEN "error" ELSE "ok")
          /\ UNCHANGED <<werr, faults>>
       \/ /\ Fault("dbfail")
          /\ werr' = [werr EXCEPT ![j] = TRUE]
          /\ audit' = audit
          /\ Goto(j, "error")
    /\ UNCHANGED <<jobVars, dispVars, wexp, was, flock, rpc, webVars, failures,
                   dbEpoch, effect>>

\* The outcome is written without expected_status.  A failed "ok" falls into
\* the exception handler, a failed "error" is swallowed.
WriteOk(j) ==
    /\ wpc[j] = "ok"
    /\ \/ SetStatus(j, "ok") /\ Goto(j, "return") /\ faults' = faults
       \/ Fault("dbfail") /\ status' = status /\ Goto(j, "error")
    /\ UNCHANGED <<kind, stale, nextId, note, dispVars, wexp, was, werr, flock,
                   rpc, webVars, failures, dbEpoch, audit, effect>>

WriteError(j) ==
    /\ wpc[j] = "error"
    /\ \/ SetStatus(j, "error") /\ faults' = faults
       \/ Fault("dbfail") /\ status' = status
    /\ Goto(j, "unlock")
    /\ UNCHANGED <<kind, stale, nextId, note, dispVars, wexp, was, werr, flock,
                   rpc, webVars, failures, dbEpoch, audit, effect>>

Release(j) ==
    /\ wpc[j] \in {"return", "unlock"}
    /\ flock' = IF flock = j THEN Nobody ELSE flock
    /\ Goto(j, "post")
    /\ UNCHANGED <<jobVars, dispVars, wexp, was, werr, rpc, webVars, failures,
                   dbEpoch, audit, effect, faults>>

\* ExecStopPost of the unit: it reads the marker, whoever wrote it.
ExecStopPost(j) ==
    /\ wpc[j] = "post"
    /\ Goto(j, "off")
    /\ \/ ~marker /\ UNCHANGED <<webVars, faults>>
       \/ marker /\ marker' = FALSE /\ StartWeb /\ faults' = faults
       \/ marker /\ marker' = FALSE /\ Fault("webfail")
          /\ UNCHANGED <<web, webEpoch>>
    /\ was' = [was EXCEPT ![j] = FALSE]
    /\ werr' = [werr EXCEPT ![j] = FALSE]
    /\ UNCHANGED <<jobVars, dispVars, wexp, flock, rpc, failures, dbEpoch,
                   audit, effect>>

\* SIGKILL: the kernel drops the lock, systemd runs ExecStopPost.
WorkerKilled(j) ==
    /\ wpc[j] \notin {"off", "post"}
    /\ Fault("kill")
    /\ flock' = IF flock = j THEN Nobody ELSE flock
    /\ Goto(j, "post")
    /\ UNCHANGED <<jobVars, dispVars, wexp, was, werr, rpc, webVars, failures,
                   dbEpoch, audit, effect>>

\* SIGTERM: MaintenanceInterrupted is raised at the current step.
WorkerTerminated(j) ==
    /\ Fault("term")
    /\ \/ /\ wpc[j] \in {"lock", "read", "claim", "exec", "stopping", "ok",
                        "return"}
          /\ werr' = werr /\ Goto(j, "error")
       \/ /\ wpc[j] \in Detached
          /\ werr' = [werr EXCEPT ![j] = TRUE] /\ Goto(j, "restart")
       \/ /\ wpc[j] \in {"restart", "audit"}
          /\ werr' = [werr EXCEPT ![j] = TRUE]
          /\ Goto(j, IF wpc[j] = "restart" THEN AfterRestart(j, TRUE)
                     ELSE "error")
    /\ UNCHANGED <<jobVars, dispVars, wexp, was, flock, rpc, webVars, failures,
                   dbEpoch, audit, effect>>

-----------------------------------------------------------------------------
(* The automatic retention run: it takes the same lock without waiting and *)
(* gives way to any pending job it sees after that.                        *)

RetentionStart ==
    /\ rpc = "off" /\ flock = Nobody
    /\ flock' = Retention /\ rpc' = "check"
    /\ UNCHANGED <<jobVars, dispVars, workVars, webVars, failures, dbEpoch,
                   audit, effect, faults>>

RetentionCheck ==
    /\ rpc = "check"
    /\ IF \E j \in Jobs : status[j] \in Pending
       THEN rpc' = "off" /\ flock' = Nobody
       ELSE rpc' = "run" /\ flock' = flock
    /\ UNCHANGED <<jobVars, dispVars, workVars, webVars, failures, dbEpoch,
                   audit, effect, faults>>

\* It ends, or dies: the lock goes with the process.
RetentionEnd ==
    /\ rpc = "run"
    /\ rpc' = "off" /\ flock' = Nobody
    /\ UNCHANGED <<jobVars, dispVars, workVars, webVars, failures, dbEpoch,
                   audit, effect, faults>>

-----------------------------------------------------------------------------
(* The host.                                                               *)

\* Mutant: the threshold is three failures in a row.
HealthProbeThree ==
    /\ IF web = "up"
       THEN failures' = 0 /\ UNCHANGED webVars
       ELSE IF failures + 1 >= 3
            THEN failures' = 0 /\ StartWeb /\ marker' = marker
            ELSE failures' = failures + 1 /\ UNCHANGED webVars
    /\ UNCHANGED <<jobVars, dispVars, workVars, flock, rpc, dbEpoch, audit,
                   effect, faults>>

\* Mutant: the count of failures is not kept between two checks.
HealthProbeForgets ==
    /\ failures' = 0
    /\ UNCHANGED <<jobVars, dispVars, workVars, flock, rpc, webVars, dbEpoch,
                   audit, effect, faults>>

\* The health watch: after two failed live checks it restarts the service.
\* Without "slowoffline" no check falls into an offline action.
HealthProbe ==
    /\ "slowoffline" \in Faults
       \/ \A j \in Jobs : wpc[j] \notin Detached \cup {"restart"}
    /\ IF web = "up"
       THEN failures' = 0 /\ UNCHANGED webVars
       ELSE IF failures + 1 >= 2
            THEN failures' = 0 /\ StartWeb /\ marker' = marker
            ELSE failures' = failures + 1 /\ UNCHANGED webVars
    /\ UNCHANGED <<jobVars, dispVars, workVars, flock, rpc, dbEpoch, audit,
                   effect, faults>>

\* The dispatcher is on its way to the unit, or the unit is on its way to its
\* claim.
Launching(j) == \/ dpc = "start" /\ dclaim = j
                \/ wpc[j] \in {"lock", "read", "claim"}

\* Time passes: 120 s since the claim of a starting row, 300 s since the last
\* heartbeat of a running one.
Expire(j) ==
    /\ status[j] \in ACTIVE_STATES /\ ~stale[j]
    /\ status[j] = "starting" => "slowstart" \in Faults \/ ~Launching(j)
    /\ status[j] = "running" => "heartbeat" \in Faults \/ wpc[j] \notin Beating
    /\ stale' = [stale EXCEPT ![j] = TRUE]
    /\ UNCHANGED <<status, kind, nextId, note, dispVars, workVars, flock, rpc,
                   webVars, failures, dbEpoch, audit, effect, faults>>

\* Every process and everything under /run is gone; the web service starts.
Reboot ==
    /\ Fault("reboot")
    /\ dpc' = "idle" /\ drows' = {} /\ dclaim' = 0
    /\ wpc' = [j \in Jobs |-> "off"]
    /\ was' = [j \in Jobs |-> FALSE]
    /\ werr' = [j \in Jobs |-> FALSE]
    /\ note' = [j \in Jobs |-> "no"]
    /\ flock' = Nobody /\ rpc' = "off"
    /\ web' = "up" /\ webEpoch' = dbEpoch
    /\ marker' = FALSE /\ failures' = 0
    /\ UNCHANGED <<status, kind, stale, nextId, wexp, dbEpoch, audit, effect>>

-----------------------------------------------------------------------------
Worker(j) ==
    \/ acquire_lock(j) \/ read_job(j) \/ ClaimRunning(j)
    \/ RunOnline(j) \/ BackupFails(j)
    \/ WriteMarker(j) \/ StopWeb(j) \/ Act(j) \/ Act2(j) \/ ActFails(j)
    \/ RestartWeb(j) \/ finalize_nuclear_audit(j)
    \/ WriteOk(j) \/ WriteError(j) \/ Release(j) \/ ExecStopPost(j)

Dispatcher ==
    \/ ReadRows \/ RecoverDone \/ claim_next \/ StartUnit \/ mark_start_error
    \/ \E r \in [id : Jobs, st : ACTIVE_STATES] : RecoverRow(r)

RetentionRun == RetentionCheck \/ RetentionEnd

Next ==
    \/ \E k \in Kinds : enqueue_job(k)
    \/ \E j \in Jobs : OpenNote(j) \/ CloseNote(j) \/ cancel_queued_job(j)
    \/ DispatchStart \/ Dispatcher \/ DispatchKilled
    \/ \E j \in Jobs : Worker(j) \/ heartbeat_job(j) \/ ReportProgress(j)
                       \/ WorkerKilled(j) \/ WorkerTerminated(j)
    \/ RetentionStart \/ RetentionRun
    \/ HealthProbe
    \/ \E j \in Jobs : Expire(j)
    \/ Reboot

Spec == Init /\ [][Next]_vars

\* The timers, processes and transactions that run by themselves.
Fairness ==
    /\ WF_vars(DispatchStart) /\ WF_vars(Dispatcher)
    /\ WF_vars(RetentionRun) /\ WF_vars(HealthProbe)
    /\ \A j \in Jobs : /\ WF_vars(Worker(j)) /\ WF_vars(Expire(j))
                       /\ WF_vars(OpenNote(j) \/ CloseNote(j))

FairSpec == Spec /\ Fairness

-----------------------------------------------------------------------------
(* Properties.                                                             *)

\* What runs maintenance work: the workers past acquire_lock, and retention.
InWork == {j \in Jobs : wpc[j] \in Holding}
               \cup (IF rpc = "off" THEN {} ELSE {Retention})

\* The lock file of maintenance.py acquire_lock and retention.py main: no two
\* jobs, and no job and an automatic retention run, ever work at once, however
\* many units systemd has started and whatever was killed.
MutualExclusion == \A i, j \in InWork : i = j

\* uq_maintenance_jobs_one_worker with claim_next, the worker's claim and the
\* unconditional progress reports: never two rows in an active status.
OneActiveRow ==
    \A i, j \in Jobs :
        status[i] \in ACTIVE_STATES /\ status[j] \in ACTIVE_STATES => i = j

\* claim_next takes jobs in the order of their ids: while a job is starting or
\* running, no job that was enqueued before it still waits.
FifoOrder ==
    \A i, j \in Jobs :
        status[j] \in ACTIVE_STATES /\ i < j => status[i] # "queued"

\* enqueue_job: a Nuclear reset never shares the queue with other work, so
\* the rows reset_app_data deletes are those of finished jobs.
NuclearAlone ==
    \A i, j \in Jobs :
        kind[j] = "nuclear" /\ status[j] \in Pending /\ i # j
            => status[i] \notin Pending

\* A job reported "ok" did all of its work, one reported "cancelled" did none
\* of it, whatever was killed, interrupted, recovered or not written between.
OutcomeTruthful ==
    \A j \in Jobs : /\ status[j] = "ok" => effect[j] = "done"
                    /\ status[j] = "cancelled" => effect[j] = "none"

\* A cancelled job stays cancelled: no late unit, recovery or report brings
\* it back.
CancelledForGood ==
    [][\A j \in Jobs : status[j] = "cancelled"
                          => status'[j] \in {"cancelled", "none"}]_vars

\* stop_service and ExecStopPost: once no worker unit is left, the web service
\* is up again and no marker remains, wherever the worker was killed.
WebRestored ==
    (\A j \in Jobs : wpc[j] = "off") => web = "up" /\ ~marker

\* A finished clear or Nuclear reset has fenced off older samples: the web
\* process that answers /push has loaded an epoch at least as new.
ResetFenced ==
    \A j \in Jobs :
        /\ status[j] = "ok" /\ kind[j] \in {"clear", "nuclear"} /\ web = "up"
        => webEpoch >= j

\* finalize_nuclear_audit: a Nuclear job is "ok" only with its audit closed.
AuditClosed ==
    \A j \in Jobs : status[j] = "ok" /\ kind[j] = "nuclear" => audit = "done"

\* recover_stale_rows leaves a running row alone as long as its worker lives.
RecoverOnlyDead ==
    [][\A j \in Jobs :
          /\ dpc = "recover" /\ drows' # drows
          /\ status[j] = "running" /\ status'[j] = "error"
          => wpc[j] \notin Beating]_vars

\* Every job that was accepted is settled in the end: executed, failed,
\* cancelled or recovered.
JobsSettle == \A j \in Jobs : (status[j] \in Pending) ~> (status[j] \notin Pending)

\* The web service never stays down for good.
WebReturns == (web = "down") ~> (web = "up")
=============================================================================
