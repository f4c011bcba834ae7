----------------------------- MODULE MCVMPresence -----------------------------
(***************************************************************************)
(* Instances of VMPresence.  Scene "serial": one worker, one VM, every     *)
(* kind of actor and late payloads.  Scene "overlap": two pushes at once,  *)
(* two VMs that swap their nodes, everything confirmed at once.  VPRace    *)
(* has no scenes: two pushes at once, one VM.                              *)
(***************************************************************************)
EXTENDS VMPresence

EveryActor == {"partial", "page", "admin"}
PushesOnly == {}

Overlap == INSTANCE VMPresence
    WITH VMs <- {1, 2}, ConfirmPushes <- 1, ConfirmAge <- 1, PurgeAge <- 1,
         Slots <- 2, MaxDelay <- 0, MaxActs <- 2, Extras <- PushesOnly

\* The scene is told by the VMs there are.
serial == DOMAIN loc = VMs
overlap == ~serial

ScenesInit == Init \/ Overlap!Init
ScenesNext == \/ serial /\ Next
              \/ overlap /\ Overlap!Next

\* The fairness of FairSpec in the one scene and of ServerSpec in the other.
ScenesSpec ==
    /\ ScenesInit /\ [][ScenesNext]_vars
    /\ WF_vars(serial /\ Tick)
    /\ WF_vars((serial /\ WebPurge) \/ (overlap /\ Overlap!WebPurge))
    /\ \A n \in Nodes :
        /\ WF_vars((serial /\ PushStep(n)) \/ (overlap /\ Overlap!PushStep(n)))
        /\ SF_vars(\/ serial /\ CollectAll(n)
                   \/ overlap /\ Overlap!create_or_update_location(n))
        /\ SF_vars(overlap /\ Overlap!LocateSeen(n))

-----------------------------------------------------------------------------
\* The types of both scenes.
ScenesTypeOK == IF serial THEN TypeOK ELSE Overlap!TypeOK

\* process_node_vm_presence with one worker: a VM whose node reports it is not
\* declared migrated or purged there, also by late payloads and node pages, and
\* what an administrator has hidden stays hidden.
RowsKept == [][serial => ReportedKept /\ HiddenKept]_vars

\* create_or_update_location: with one worker the location of a VM is a node with
\* a live row for it; with overlapping transactions a VM that migrated away from
\* a node is located on another one.
LocationHolds == IF serial THEN LocatedIsLive ELSE Overlap!MigratedIsElsewhere

\* With one worker, once the VMs have stopped moving, each is found where it
\* is, whatever late payloads reported.
SerialSettledIsFound == serial => SettledIsFound

\* push_v5058r4_deadlock_retry with overlapping pushes: deadlocks and waiting
\* do not starve a node, every payload is committed.
OverlapPushesFinish == overlap => PushesFinish
=============================================================================
