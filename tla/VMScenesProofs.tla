---------------------------- MODULE VMScenesProofs ----------------------------
(***************************************************************************)
(* What the scenes of MCVMPresence check on small sets, for every value of *)
(* the constants: a behaviour of the one-worker scene is one of VMPresence *)
(* and a behaviour of the overlapping scene is one of VMPresence with that *)
(* scene's constants, and VMPresenceProofs speaks of both.                 *)
(***************************************************************************)
EXTENDS MCVMPresence, VMPresenceProofs

\* The overlapping scene is told with the operators of VMPresence; OP names the
\* same instance with the lemmas of VMPresenceProofs about it.
OP == INSTANCE VMPresenceProofs
    WITH VMs <- {1, 2}, ConfirmPushes <- 1, ConfirmAge <- 1, PurgeAge <- 1,
         Slots <- 2, MaxDelay <- 0, MaxActs <- 2, Extras <- PushesOnly

\* Both names stand for the same formulas.
LEMMA SameScene ==
    /\ Overlap!TypeOK <=> OP!TypeOK
    /\ Overlap!MigratedIsElsewhere <=> OP!MigratedIsElsewhere
    /\ Overlap!Init <=> OP!Init
    /\ Overlap!Next <=> OP!Next
<1> USE DEF
      Overlap!Actors, OP!Actors, Overlap!Web, OP!Web, Overlap!Keys, OP!Keys,
      Overlap!Row, OP!Row, Overlap!Null, OP!Null, Overlap!SinceCap, OP!SinceCap,
      Overlap!Statuses, OP!Statuses, Overlap!NoRow, OP!NoRow, Overlap!Unset,
      OP!Unset, Overlap!Payload, OP!Payload, Overlap!NoPayload, OP!NoPayload,
      Overlap!NoDec, OP!NoDec, Overlap!Absent, OP!Absent, Overlap!txn, OP!txn,
      Overlap!Older, OP!Older, Overlap!AtMost, OP!AtMost, Overlap!Collect,
      OP!Collect, Overlap!db, OP!db, Overlap!Listed, OP!Listed, Overlap!Free,
      OP!Free, Overlap!RowsHeld, OP!RowsHeld, Overlap!LocsHeld, OP!LocsHeld,
      Overlap!MayStart, OP!MayStart, Overlap!Reported, OP!Reported,
      Overlap!Invent, OP!Invent, Overlap!Missed, OP!Missed, Overlap!Change,
      OP!Change, Overlap!MarkMissing, OP!MarkMissing, Overlap!Here, OP!Here,
      Overlap!First, OP!First, Overlap!SeenRow, OP!SeenRow,
      Overlap!old_node_missing_enough, OP!old_node_missing_enough,
      Overlap!Touched, OP!Touched, Overlap!NewRow, OP!NewRow, Overlap!Migrated,
      OP!Migrated, Overlap!Purgeable, OP!Purgeable, Overlap!Purged, OP!Purged,
      Overlap!Cardinality, OP!Cardinality, Overlap!SeenLoc, OP!SeenLoc,
      Overlap!Deadlocked, OP!Deadlocked, Overlap!WaitsFor, OP!WaitsFor,
      Overlap!SetInventory, OP!SetInventory, Overlap!Unlocked, OP!Unlocked
<1>1. Overlap!TypeOK <=> OP!TypeOK
  BY DEF Overlap!TypeOK, OP!TypeOK
<1>2. Overlap!MigratedIsElsewhere <=> OP!MigratedIsElsewhere
  BY DEF Overlap!MigratedIsElsewhere, OP!MigratedIsElsewhere
<1>3. Overlap!Init <=> OP!Init
  BY DEF Overlap!Init, OP!Init
<1>4. Overlap!Tick <=> OP!Tick
  BY DEF Overlap!Tick, OP!Tick
<1>5. \A n \in Nodes : Overlap!CollectAll(n) <=> OP!CollectAll(n)
  BY DEF Overlap!CollectAll, OP!CollectAll
<1>6. \A n \in Nodes : Overlap!CollectSome(n) <=> OP!CollectSome(n)
  BY DEF Overlap!CollectSome, OP!CollectSome
<1>7. \A n \in Nodes : Overlap!process_node_vm_presence(n)
         <=> OP!process_node_vm_presence(n)
  BY DEF Overlap!process_node_vm_presence, OP!process_node_vm_presence
<1>8. \A n \in Nodes : Overlap!SelectMoved(n) <=> OP!SelectMoved(n)
  BY DEF Overlap!SelectMoved, OP!SelectMoved
<1>9. \A n \in Nodes : Overlap!LocateSeen(n) <=> OP!LocateSeen(n)
  BY DEF Overlap!LocateSeen, OP!LocateSeen
<1>10. \A n \in Nodes : Overlap!ReadLocation(n) <=> OP!ReadLocation(n)
  BY DEF Overlap!ReadLocation, OP!ReadLocation
<1>11. \A n \in Nodes : Overlap!create_or_update_location(n)
         <=> OP!create_or_update_location(n)
  BY DEF Overlap!create_or_update_location, OP!create_or_update_location
<1>12. \A n \in Nodes : Overlap!SelectPurge(n) <=> OP!SelectPurge(n)
  BY DEF Overlap!SelectPurge, OP!SelectPurge
<1>13. \A n \in Nodes : Overlap!auto_purge_migrated_vms(n)
         <=> OP!auto_purge_migrated_vms(n)
  BY DEF Overlap!auto_purge_migrated_vms, OP!auto_purge_migrated_vms
<1>14. \A n \in Nodes : Overlap!Commit(n) <=> OP!Commit(n)
  BY DEF Overlap!Commit, OP!Commit
<1>15. \A n \in Nodes : Overlap!push_v5058r4_deadlock_retry(n)
         <=> OP!push_v5058r4_deadlock_retry(n)
  BY DEF Overlap!push_v5058r4_deadlock_retry, OP!push_v5058r4_deadlock_retry
<1>16. Overlap!WebSelect <=> OP!WebSelect
  BY DEF Overlap!WebSelect, OP!WebSelect
<1>17. Overlap!WebPurge <=> OP!WebPurge
  BY DEF Overlap!WebPurge, OP!WebPurge
<1>18. \A v \in {1, 2}, n \in Nodes : Overlap!Appear(v, n) <=> OP!Appear(v, n)
  BY DEF Overlap!Appear, OP!Appear
<1>19. \A v \in {1, 2}, n \in Nodes : Overlap!Vanish(v, n) <=> OP!Vanish(v, n)
  BY DEF Overlap!Vanish, OP!Vanish
<1>20. \A v \in {1, 2}, n \in Nodes : Overlap!admin_delete_vm(v, n)
         <=> OP!admin_delete_vm(v, n)
  BY DEF Overlap!admin_delete_vm, OP!admin_delete_vm
<1>21. \A v \in {1, 2}, n \in Nodes : Overlap!admin_restore_vm(v, n)
         <=> OP!admin_restore_vm(v, n)
  BY DEF Overlap!admin_restore_vm, OP!admin_restore_vm
<1>22. \A v \in {1, 2} : Overlap!purge_vm_data(v) <=> OP!purge_vm_data(v)
  BY DEF Overlap!purge_vm_data, OP!purge_vm_data
<1> HIDE DEF
      Overlap!Actors, OP!Actors, Overlap!Web, OP!Web, Overlap!Keys, OP!Keys,
      Overlap!Row, OP!Row, Overlap!Null, OP!Null, Overlap!SinceCap, OP!SinceCap,
      Overlap!Statuses, OP!Statuses, Overlap!NoRow, OP!NoRow, Overlap!Unset,
      OP!Unset, Overlap!Payload, OP!Payload, Overlap!NoPayload, OP!NoPayload,
      Overlap!NoDec, OP!NoDec, Overlap!Absent, OP!Absent, Overlap!txn, OP!txn,
      Overlap!Older, OP!Older, Overlap!AtMost, OP!AtMost, Overlap!Collect,
      OP!Collect, Overlap!db, OP!db, Overlap!Listed, OP!Listed, Overlap!Free,
      OP!Free, Overlap!RowsHeld, OP!RowsHeld, Overlap!LocsHeld, OP!LocsHeld,
      Overlap!MayStart, OP!MayStart, Overlap!Reported, OP!Reported,
      Overlap!Invent, OP!Invent, Overlap!Missed, OP!Missed, Overlap!Change,
      OP!Change, Overlap!MarkMissing, OP!MarkMissing, Overlap!Here, OP!Here,
      Overlap!First, OP!First, Overlap!SeenRow, OP!SeenRow,
      Overlap!old_node_missing_enough, OP!old_node_missing_enough,
      Overlap!Touched, OP!Touched, Overlap!NewRow, OP!NewRow, Overlap!Migrated,
      OP!Migrated, Overlap!Purgeable, OP!Purgeable, Overlap!Purged, OP!Purged,
      Overlap!Cardinality, OP!Cardinality, Overlap!SeenLoc, OP!SeenLoc,
      Overlap!Deadlocked, OP!Deadlocked, Overlap!WaitsFor, OP!WaitsFor,
      Overlap!SetInventory, OP!SetInventory, Overlap!Unlocked, OP!Unlocked
<1>23. \A n \in Nodes : Overlap!PushStep(n) <=> OP!PushStep(n)
  BY <1>7, <1>8, <1>9, <1>10, <1>11, <1>12, <1>13, <1>14, <1>15
     DEF Overlap!PushStep, OP!PushStep
<1>24. Overlap!Next <=> OP!Next
  BY <1>4, <1>5, <1>6, <1>23, <1>16, <1>17, <1>18, <1>19, <1>20, <1>21, <1>22, Zenon
     DEF Overlap!Next, OP!Next
<1> QED
  BY <1>1, <1>2, <1>3, <1>24

\* The constants of the overlapping scene are ones that VMPresence allows.
LEMMA OverlapAssumption == OP!PresenceAssumption
  BY PresenceAssumption DEF OP!PresenceAssumption, PushesOnly

\* What holds in each scene.
ScenesInv == IF serial THEN PresenceInv ELSE OP!PresenceInv
ScenesSerialInv == serial => SerialInv

\* A scene starts as its own instance of VMPresence does.
LEMMA ScenesStart == ScenesInit => ScenesInv /\ ScenesSerialInv
<1>1. Init => serial
  BY DEF Init, serial
<1>2. CASE Init
  BY <1>1, <1>2, PresenceInit, SerialInit DEF ScenesInv, ScenesSerialInv
<1>3. CASE Overlap!Init
  <2>1. DOMAIN loc = {1, 2}
    BY <1>3 DEF Overlap!Init
  <2>2. OP!PresenceInv
    BY <1>3, SameScene, OverlapAssumption, OP!PresenceInit
  <2>3. CASE serial
    <3>1. Init
      BY <1>3, <2>1, <2>3
         DEF Init, Overlap!Init, serial, Absent, Overlap!Absent, Null, Overlap!Null,
             NoRow, Overlap!NoRow, Unset, Overlap!Unset, NoPayload, Overlap!NoPayload,
             NoDec, Overlap!NoDec, Actors, Overlap!Actors, Web, Overlap!Web,
             Keys, Overlap!Keys
    <3> QED
      BY <1>2, <3>1
  <2>4. CASE ~serial
    BY <2>2, <2>4 DEF ScenesInv, ScenesSerialInv
  <2> QED
    BY <2>3, <2>4
<1> QED
  BY <1>2, <1>3 DEF ScenesInit

\* A scene stays what it is, and keeps what holds in it.
LEMMA ScenesStep ==
    ASSUME ScenesInv, [ScenesNext]_vars
    PROVE  ScenesInv' /\ (serial => HiddenKept) /\ (serial <=> serial')
<1>1. CASE serial
  <2>1. PresenceInv /\ [Next]_vars
    BY <1>1 DEF ScenesInv, ScenesNext, overlap
  <2>2. PresenceInv' /\ HiddenKept
    BY <2>1, PresenceStep
  <2>3. serial'
    BY <2>2 DEF PresenceInv, TypeOK, serial
  <2> QED
    BY <1>1, <2>2, <2>3 DEF ScenesInv
<1>2. CASE ~serial
  <2>1. OP!PresenceInv /\ [Overlap!Next]_vars
    BY <1>2 DEF ScenesInv, ScenesNext, overlap
  <2>2. [OP!Next]_OP!vars
    BY <2>1, SameScene DEF vars, OP!vars, db, OP!db, txn, OP!txn
  <2>3. OP!PresenceInv'
    BY <2>1, <2>2, OverlapAssumption, OP!PresenceStep
  <2>4. DOMAIN loc = {1, 2} /\ DOMAIN loc' = {1, 2}
    BY <2>1, <2>3 DEF OP!PresenceInv, OP!TypeOK
  <2>5. ~serial'
    BY <1>2, <2>4 DEF serial
  <2> QED
    BY <1>2, <2>3, <2>5 DEF ScenesInv
<1> QED
  BY <1>1, <1>2

\* With one worker the views of the transactions stay in order.
LEMMA ScenesSerialStep ==
    ASSUME Slots = 1, IsFiniteSet(Nodes), ScenesInv, ScenesSerialInv, [ScenesNext]_vars
    PROVE  ScenesSerialInv' /\ (serial => ReportedKept)
<1>1. ScenesInv' /\ (serial <=> serial')
  BY ScenesStep
<1>2. CASE serial
  <2>1. PresenceInv /\ PresenceInv' /\ SerialInv /\ [Next]_vars
    BY <1>1, <1>2 DEF ScenesInv, ScenesSerialInv, ScenesNext, overlap
  <2>2. SerialInv' /\ ReportedKept
    BY <2>1, SerialStep
  <2> QED
    BY <2>2 DEF ScenesSerialInv
<1> QED
  BY <1>1, <1>2 DEF ScenesSerialInv

\* process_node_vm_presence, _create_or_update_location, auto_purge_migrated_vms:
\* in both scenes, of any nodes, VMs and limits, rows, locations and open
\* transactions always have their types.
THEOREM ScenesTypes == ScenesSpec => []ScenesTypeOK
<1>1. ScenesInv /\ [ScenesNext]_vars => ScenesInv'
  BY ScenesStep
<1>2. ScenesInv => ScenesTypeOK
  BY SameScene DEF ScenesInv, ScenesTypeOK, PresenceInv, OP!PresenceInv
<1> QED
  BY <1>1, <1>2, ScenesStart, PTL DEF ScenesSpec

\* _create_or_update_location: with one worker a VM's location is a node with a
\* live row for it; with overlapping pushes a VM that migrated away from a node
\* is located on another one.
THEOREM LocationsHold ==
    ASSUME Slots = 1, IsFiniteSet(Nodes)
    PROVE  ScenesSpec => []LocationHolds
<1>1. ScenesInv /\ ScenesSerialInv /\ [ScenesNext]_vars => ScenesInv' /\ ScenesSerialInv'
  BY ScenesStep, ScenesSerialStep
<1>2. ScenesInv /\ ScenesSerialInv => LocationHolds
  BY SameScene DEF ScenesInv, ScenesSerialInv, LocationHolds, SerialInv,
         OP!PresenceInv, OP!MoveInv
<1> QED
  BY <1>1, <1>2, ScenesStart, PTL DEF ScenesSpec

\* process_node_vm_presence with one worker: no push or node page declares a VM
\* migrated or purged on a node that reports it, and none brings back a VM an
\* administrator has hidden.
THEOREM RowsAreKept ==
    ASSUME Slots = 1, IsFiniteSet(Nodes)
    PROVE  ScenesSpec => RowsKept
<1>1. ScenesInv /\ ScenesSerialInv /\ [ScenesNext]_vars
      => ScenesInv' /\ ScenesSerialInv' /\ (serial => ReportedKept /\ HiddenKept)
  BY ScenesStep, ScenesSerialStep
<1> QED
  BY <1>1, ScenesStart, PTL DEF ScenesSpec, RowsKept
=============================================================================
