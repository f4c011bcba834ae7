--------------------------- MODULE VMPresenceProofs ---------------------------
(***************************************************************************)
(* Proofs about VMPresence, for any nodes, VMs, limits and number of       *)
(* requests at once.                                                       *)
(***************************************************************************)
EXTENDS VMPresence, FiniteSetTheorems, WellFoundedInduction, TLAPS

USE PresenceAssumption

\* What the transaction of node n holds at each of its steps: the rows of all
\* VMs it reports, no more locations than rows, and a decision about a VM that
\* is located elsewhere.
TxnOf(n) ==
    /\ pc[n] # "idle" =>
        /\ pend[n] \in Payload
        /\ \A v \in pend[n].seen : wrow[n][<<v, n>>] # NoRow
    /\ pc[n] = "idle" => \A k \in Keys : wrow[n][k] = NoRow
    /\ pc[n] \in {"idle", "merged", "selected"} =>
        \A v \in VMs : wloc[n][v] = Unset
    /\ pc[n] \notin {"selected", "moving"} => todo[n] = {}
    /\ pc[n] # "moving" => dec[n] = NoDec
    /\ pc[n] # "purging" => sel[n] = {}
    /\ \A v \in todo[n] : v \in pend[n].seen /\ loc[v] \notin {n, "none"}
    /\ dec[n] # NoDec => dec[n].vm \in todo[n] /\ dec[n].old # n
    /\ \A v \in VMs : wloc[n][v] # Unset => wrow[n][<<v, n>>] # NoRow

\* The node page only selects and purges.
TxnOfWeb ==
    /\ pc[Web] \in {"idle", "purging"}
    /\ pc[Web] = "idle" => sel[Web] = {}
    /\ \A k \in Keys : wrow[Web][k] = NoRow
    /\ \A v \in VMs : wloc[Web][v] = Unset

TxnInv == TxnOfWeb /\ \A n \in Nodes : TxnOf(n)

\* PostgreSQL's locks: a row or a location has one writer, and a writer that
\* does not move a VM leaves its location as it is.
HoldInv ==
    /\ \A a, b \in Actors : a # b =>
        /\ \A k \in Keys : wrow[a][k] = NoRow \/ wrow[b][k] = NoRow
        /\ \A v \in VMs : wloc[a][v] = Unset \/ wloc[b][v] = Unset
    /\ \A n \in Nodes, v \in VMs :
        wloc[n][v] \notin {Unset, n} => wloc[n][v] = loc[v]

\* How far node n has moved its VMs: not yet the ones it still has to handle;
\* only to itself the ones it declares migrated from another node; and never
\* away from itself the ones it reports.
MoveOf(n) ==
    /\ pc[n] \in {"idle", "merged", "selected"} =>
        \A v \in VMs, m \in Nodes \ {n} : wrow[n][<<v, m>>] = NoRow
    /\ \A v \in todo[n] : /\ wloc[n][v] = Unset
                          /\ \A m \in Nodes \ {n} : wrow[n][<<v, m>>] = NoRow
    /\ \A v \in VMs, m \in Nodes :
        wrow[n][<<v, m>>].st = "migrated" => m # n /\ wloc[n][v] = n
    /\ pc[n] # "idle" =>
        \A v \in pend[n].seen :
            wrow[n][<<v, n>>].st \in {"active", "pending_migration"}
    /\ \A k \in sel[n] : wrow[n][k] # NoRow => wrow[n][k].st = "migrated"

MoveInv == MigratedIsElsewhere /\ \A n \in Nodes : MoveOf(n)

\* A transaction that has written a hidden VM's row has left it hidden.
HiddenInv ==
    \A n \in Nodes, k \in Keys :
        wrow[n][k] # NoRow /\ row[k].inv = "hidden" => wrow[n][k].inv = "hidden"

-----------------------------------------------------------------------------
(* The operators on rows.                                                  *)

\* The helpers yield rows.
LEMMA RowTypes ==
    ASSUME NEW r \in Row
    PROVE  /\ \A s \in Statuses : Invent(r, s) \in Statuses \cup {"hidden"}
           /\ \A s \in Statuses : Change(r, s) \in Row
           /\ Reported(r) \in Row
           /\ \A age \in 0..MaxDelay : Missed(r, age) \in Row
           /\ \A age \in 0..MaxDelay : Migrated(r, age) \in Row
           /\ Purged(r) \in Row
<1>1. \A s \in Statuses : Invent(r, s) \in Statuses \cup {"hidden"}
  BY DEF Invent
<1>2. \A s \in Statuses : Change(r, s) \in Row
  BY <1>1 DEF Change, Row
<1>3. Reported(r) \in Row
  <2>1. "active" \in Statuses /\ Null \in Null..SinceCap /\ 0 \in 0..ConfirmPushes
        /\ Null \in Null..PurgeAge
    BY DEF Statuses, Null, SinceCap
  <2> QED
    BY <1>1, <2>1 DEF Reported, Row
<1>4. ASSUME NEW age \in 0..MaxDelay PROVE Missed(r, age) \in Row
  <2> DEFINE c == Change(r, "missing")
  <2>1. c \in Row
    BY <1>2 DEF Statuses
  <2> HIDE DEF c
  <2>2. age \in Null..SinceCap /\ AtMost(c.count + 1, ConfirmPushes) \in 0..ConfirmPushes
    BY <2>1 DEF Row, Null, SinceCap, AtMost
  <2>3. [c EXCEPT !.since = IF @ = Null THEN age ELSE @,
                  !.count = AtMost(@ + 1, ConfirmPushes)] \in Row
    BY <2>1, <2>2 DEF Row
  <2> QED
    BY <2>3 DEF Missed, c
<1>5. ASSUME NEW age \in 0..MaxDelay PROVE Migrated(r, age) \in Row
  <2> DEFINE c == Change(r, "migrated")
  <2>1. c \in Row
    BY <1>2 DEF Statuses
  <2> HIDE DEF c
  <2>2. AtMost(age, PurgeAge) \in Null..PurgeAge
    BY DEF Null, AtMost
  <2>3. [c EXCEPT !.mig = AtMost(age, PurgeAge)] \in Row
    BY <2>1, <2>2 DEF Row
  <2> QED
    BY <2>3 DEF Migrated, c
<1>6. Purged(r) \in Row
  BY <1>2 DEF Purged, Statuses
<1> QED
  BY <1>1, <1>2, <1>3, <1>4, <1>5, <1>6

\* What the helpers do to a row's status, and that none of them brings back a
\* hidden VM.
LEMMA RowEffects ==
    ASSUME NEW r \in Row
    PROVE  /\ Reported(r).st = "active"
           /\ \A s \in Statuses : Change(r, s).st \in {s, "none"}
           /\ \A s \in Statuses : r.st # "none" => Change(r, s).st = s
           /\ \A age \in 0..MaxDelay : Missed(r, age).st \in {"missing", "none"}
           /\ \A age \in 0..MaxDelay : r.st # "none" => Missed(r, age).st = "missing"
           /\ \A age \in 0..MaxDelay : Migrated(r, age).st \in {"migrated", "none"}
           /\ Purged(r).st \in {"purged", "none"}
           /\ r.st = "none" => Purged(r).st = "none"
           /\ r.inv = "hidden" =>
                /\ Reported(r).inv = "hidden" /\ Purged(r).inv = "hidden"
                /\ \A s \in Statuses : Change(r, s).inv = "hidden"
                /\ \A age \in 0..MaxDelay : /\ Missed(r, age).inv = "hidden"
                                            /\ Migrated(r, age).inv = "hidden"
<1>1. \A s \in Statuses : /\ Change(r, s).st \in {s, "none"}
                          /\ r.st # "none" => Change(r, s).st = s
                          /\ r.st = "none" => Change(r, s).st = "none"
                          /\ r.inv = "hidden" => Change(r, s).inv = "hidden"
  BY DEF Change, Row, Invent
<1>2. Reported(r).st = "active" /\ (r.inv = "hidden" => Reported(r).inv = "hidden")
  BY DEF Reported, Invent
<1>3. ASSUME NEW age \in 0..MaxDelay
      PROVE  /\ Missed(r, age).st = Change(r, "missing").st
             /\ Missed(r, age).inv = Change(r, "missing").inv
             /\ Migrated(r, age).st = Change(r, "migrated").st
             /\ Migrated(r, age).inv = Change(r, "migrated").inv
  <2>1. Change(r, "missing") \in Row /\ Change(r, "migrated") \in Row
    BY RowTypes DEF Statuses
  <2> HIDE DEF Change
  <2> QED
    BY <2>1 DEF Missed, Migrated, Row
<1> QED
  BY <1>1, <1>2, <1>3 DEF Purged, Statuses

\* ORDER BY vm_uuid: a set of uuids that is not empty has a first one.
LEMMA LeastOf ==
    ASSUME NEW s \in SUBSET Nat, s # {}
    PROVE  (CHOOSE v \in s : \A u \in s : v <= u) \in s
<1> DEFINE R == OpToRel(<, Nat)
<1>1. IsWellFoundedOn(R, Nat)
  BY NatLessThanWellFounded
<1>2. \A u, v \in Nat : u < v => <<u, v>> \in R
  BY DEF OpToRel
<1> HIDE DEF R
<1>3. \E v \in s : \A u \in s : ~(<<u, v>> \in R)
  BY <1>1, WFMin
<1>4. \E v \in s : \A u \in s : v <= u
  <2>1. PICK v \in s : \A u \in s : ~(<<u, v>> \in R)
    BY <1>3
  <2>2. \A u \in s : ~(u < v)
    BY <1>2, <2>1
  <2> QED
    BY <2>2
<1> QED
  BY <1>4

\* What a transaction sees is a row.
LEMMA SeenTypes ==
    ASSUME TypeOK, NEW a \in Actors, NEW k \in Keys
    PROVE  SeenRow(a, k) \in Row
  BY DEF TypeOK, SeenRow

-----------------------------------------------------------------------------
(* Types.                                                                  *)

\* The initial states are well typed.
LEMMA TypeInit == Init => TypeOK
<1> SUFFICES ASSUME Init PROVE TypeOK
  OBVIOUS
<1>1. at \in [VMs -> SUBSET Nodes]
  BY DEF Init
<1>2. pend \in [Nodes -> Payload \cup {NoPayload}] /\ fresh \in [Nodes -> BOOLEAN]
  BY DEF Init
<1>3. row \in [Keys -> Row]
  <2>1. Absent \in Row
    BY DEF Absent, Row, Statuses, Null, SinceCap
  <2> QED
    BY <2>1 DEF Init
<1>4. loc \in [VMs -> Nodes \cup {"none"}] /\ todo \in [Nodes -> SUBSET VMs]
  BY DEF Init
<1>5. /\ pc \in [Actors -> {"idle", "merged", "selected", "moving", "purging",
                            "commit"}]
      /\ wloc \in [Actors -> [VMs -> Nodes \cup {Unset}]]
  BY DEF Init
<1>6. wrow \in [Actors -> [Keys -> Row \cup {NoRow}]]
  BY DEF Init
<1>7. /\ dec \in [Nodes -> [vm : VMs, old : Nodes, confirmed : BOOLEAN]
                               \cup {NoDec}]
      /\ sel \in [Actors -> SUBSET Keys]
      /\ acts \in 0..MaxActs
  BY DEF Init
<1> QED
  BY <1>1, <1>2, <1>3, <1>4, <1>5, <1>6, <1>7 DEF TypeOK

\* Every step keeps the types: ages stay below their caps, and a transaction
\* only writes rows and places that exist.
LEMMA TypeStep == TypeOK /\ TxnInv /\ [Next]_vars => TypeOK'
<1> SUFFICES ASSUME TypeOK, TxnInv, [Next]_vars PROVE TypeOK'
  OBVIOUS
<1> USE DEF db, txn, Actors
<1>0. Null \in Int /\ SinceCap \in Nat
  BY DEF Null, SinceCap
<1>1. CASE Tick
  <2>1. \A x \in Null..SinceCap : Older(x, SinceCap) \in Null..SinceCap
    BY DEF Older, AtMost, Null, SinceCap
  <2>2. \A x \in Null..PurgeAge : Older(x, PurgeAge) \in Null..PurgeAge
    BY DEF Older, AtMost, Null
  <2>3. row' \in [Keys -> Row]
    <3>1. \A k \in Keys : [row[k] EXCEPT !.since = Older(@, SinceCap),
                                         !.mig = Older(@, PurgeAge)] \in Row
      <4> SUFFICES ASSUME NEW k \in Keys
                   PROVE  [row[k] EXCEPT !.since = Older(@, SinceCap),
                                         !.mig = Older(@, PurgeAge)] \in Row
        OBVIOUS
      <4> DEFINE r == row[k]
      <4>1. r \in Row
        BY DEF TypeOK
      <4> HIDE DEF r
      <4>2. [r EXCEPT !.since = Older(@, SinceCap),
                      !.mig = Older(@, PurgeAge)] \in Row
        BY <2>1, <2>2, <4>1 DEF Row
      <4> QED
        BY <4>2 DEF r
    <3> QED
      BY <1>1, <3>1 DEF Tick
  <2>4. pend' \in [Nodes -> Payload \cup {NoPayload}]
    <3> SUFFICES ASSUME NEW n \in Nodes, pend[n] # NoPayload
                 PROVE  [pend[n] EXCEPT !.age = @ + 1] \in Payload
      BY <1>1 DEF Tick
    <3>1. pend[n] \in Payload /\ pend[n].age < MaxDelay
      BY <1>1, ZenonT(40) DEF TypeOK, Tick
    <3> QED
      BY <3>1 DEF Payload
  <2>5. fresh' \in [Nodes -> BOOLEAN]
    BY <1>1 DEF Tick
  <2> QED
    BY <1>1, <2>3, <2>4, <2>5 DEF TypeOK, Tick
<1>2. ASSUME NEW n \in Nodes, NEW seen \in SUBSET VMs, NEW full \in BOOLEAN,
             Collect(n, seen, full)
      PROVE  TypeOK'
  <2>1. [age |-> 0, seen |-> seen, full |-> full] \in Payload
    BY DEF Payload
  <2> QED
    BY <1>2, <2>1 DEF TypeOK, Collect
<1>3. ASSUME NEW n \in Nodes, process_node_vm_presence(n) PROVE TypeOK'
  <2>1. pend[n].age \in 0..MaxDelay
    BY <1>3 DEF process_node_vm_presence, TypeOK, Payload
  <2>2. \A k \in Keys : /\ Reported(row[k]) \in Row
                        /\ Missed(row[k], pend[n].age) \in Row
    BY <2>1, RowTypes DEF TypeOK
  <2>3. wrow' \in [Actors -> [Keys -> Row \cup {NoRow}]]
    BY <1>3, <2>2 DEF process_node_vm_presence, TypeOK
  <2>4. pc' \in [Actors -> {"idle", "merged", "selected", "moving", "purging",
                            "commit"}]
    BY <1>3 DEF process_node_vm_presence, TypeOK
  <2> QED
    BY <1>3, <2>3, <2>4 DEF process_node_vm_presence, TypeOK
<1>4. ASSUME NEW n \in Nodes, SelectMoved(n) PROVE TypeOK'
  <2>1. pend[n].seen \in SUBSET VMs
    BY <1>4 DEF SelectMoved, TypeOK, TxnInv, TxnOf, Payload
  <2>2. todo' \in [Nodes -> SUBSET VMs]
    BY <1>4, <2>1 DEF SelectMoved, TypeOK
  <2> QED
    BY <1>4, <2>2 DEF SelectMoved, TypeOK
<1>5. ASSUME NEW n \in Nodes, LocateSeen(n) PROVE TypeOK'
  <2>1. wloc' \in [Actors -> [VMs -> Nodes \cup {Unset}]]
    BY <1>5 DEF LocateSeen, TypeOK
  <2> QED
    BY <1>5, <2>1 DEF LocateSeen, TypeOK
<1>6. ASSUME NEW n \in Nodes, ReadLocation(n) PROVE TypeOK'
  <2>1. First(todo[n]) \in todo[n] /\ todo[n] \in SUBSET VMs
    <3>1. todo[n] \in SUBSET VMs
      BY DEF TypeOK
    <3>2. todo[n] # {} /\ todo[n] \in SUBSET Nat
      BY <1>6 DEF ReadLocation, TypeOK
    <3> QED
      BY <3>1, <3>2, LeastOf DEF First
  <2>2. /\ First(todo[n]) \in VMs /\ loc[First(todo[n])] \in Nodes
    <3>1. loc[First(todo[n])] \notin {n, "none"}
      BY <2>1 DEF TxnInv, TxnOf
    <3> QED
      BY <2>1, <3>1 DEF TypeOK
  <2>3. \A r, age : old_node_missing_enough(r, age) \in BOOLEAN
    BY DEF old_node_missing_enough
  <2>4. dec' \in [Nodes -> [vm : VMs, old : Nodes, confirmed : BOOLEAN]
                               \cup {NoDec}]
    BY <1>6, <2>2, <2>3 DEF ReadLocation, TypeOK
  <2> QED
    BY <1>6, <2>4 DEF ReadLocation, TypeOK
<1>7. ASSUME NEW n \in Nodes, create_or_update_location(n) PROVE TypeOK'
  <2>1. pend[n].age \in 0..MaxDelay
    BY <1>7 DEF create_or_update_location, TypeOK, TxnInv, TxnOf, Payload
  <2>2. \A k \in Keys : NewRow(n, k) \in Row
    <3> SUFFICES ASSUME NEW k \in Keys PROVE NewRow(n, k) \in Row
      OBVIOUS
    <3>1. SeenRow(n, k) \in Row
      BY SeenTypes
    <3> QED
      BY <2>1, <3>1, RowTypes DEF NewRow, Statuses
  <2>3. wrow' \in [Actors -> [Keys -> Row \cup {NoRow}]]
    BY <1>7, <2>2 DEF create_or_update_location, TypeOK
  <2>4. dec[n].vm \in VMs /\ loc[dec[n].vm] \in Nodes
    <3>1. dec[n] # NoDec
      BY <1>7 DEF create_or_update_location
    <3>2. dec[n].vm \in VMs
      BY <3>1 DEF TypeOK
    <3>3. loc[dec[n].vm] # "none"
      BY <3>1 DEF TxnInv, TxnOf
    <3> QED
      BY <3>2, <3>3 DEF TypeOK
  <2>5. wloc' \in [Actors -> [VMs -> Nodes \cup {Unset}]]
    BY <1>7, <2>4 DEF create_or_update_location, TypeOK
  <2>6. todo' \in [Nodes -> SUBSET VMs]
    BY <1>7 DEF create_or_update_location, TypeOK
  <2>7. dec' \in [Nodes -> [vm : VMs, old : Nodes, confirmed : BOOLEAN]
                               \cup {NoDec}]
    BY <1>7 DEF create_or_update_location, TypeOK
  <2> QED
    BY <1>7, <2>3, <2>5, <2>6, <2>7 DEF create_or_update_location, TypeOK
<1>8. ASSUME NEW n \in Nodes, SelectPurge(n) PROVE TypeOK'
  BY <1>8 DEF SelectPurge, TypeOK, Purgeable
<1>9. ASSUME NEW n \in Nodes, auto_purge_migrated_vms(n) PROVE TypeOK'
  <2>1. \A k \in Keys : Purged(SeenRow(n, k)) \in Row
    BY SeenTypes, RowTypes
  <2>2. wrow' \in [Actors -> [Keys -> Row \cup {NoRow}]]
    BY <1>9, <2>1 DEF auto_purge_migrated_vms, TypeOK
  <2>3. sel' \in [Actors -> SUBSET Keys]
    BY <1>9 DEF auto_purge_migrated_vms, TypeOK
  <2> QED
    BY <1>9, <2>2, <2>3 DEF auto_purge_migrated_vms, TypeOK
<1>10. ASSUME NEW n \in Nodes, Commit(n) PROVE TypeOK'
  <2>1. row' \in [Keys -> Row]
    BY <1>10, SeenTypes DEF Commit
  <2>2. loc' \in [VMs -> Nodes \cup {"none"}]
    BY <1>10 DEF Commit, TypeOK, SeenLoc
  <2>3. wrow' \in [Actors -> [Keys -> Row \cup {NoRow}]]
    BY <1>10 DEF Commit, TypeOK
  <2>4. wloc' \in [Actors -> [VMs -> Nodes \cup {Unset}]]
    BY <1>10 DEF Commit, TypeOK
  <2> QED
    BY <1>10, <2>1, <2>2, <2>3, <2>4 DEF Commit, TypeOK
<1>11. ASSUME NEW n \in Nodes, push_v5058r4_deadlock_retry(n) PROVE TypeOK'
  <2>1. wrow' \in [Actors -> [Keys -> Row \cup {NoRow}]]
    BY <1>11 DEF push_v5058r4_deadlock_retry, TypeOK
  <2>2. wloc' \in [Actors -> [VMs -> Nodes \cup {Unset}]]
    BY <1>11 DEF push_v5058r4_deadlock_retry, TypeOK
  <2> QED
    BY <1>11, <2>1, <2>2 DEF push_v5058r4_deadlock_retry, TypeOK
<1>12. CASE WebSelect
  BY <1>12 DEF WebSelect, TypeOK, Purgeable
<1>13. CASE WebPurge
  <2>1. row' \in [Keys -> Row]
    BY <1>13, RowTypes DEF WebPurge, TypeOK
  <2> QED
    BY <1>13, <2>1 DEF WebPurge, TypeOK
<1>14. ASSUME NEW v \in VMs, NEW n \in Nodes, Appear(v, n) \/ Vanish(v, n)
       PROVE  TypeOK'
  <2>1. at' \in [VMs -> SUBSET Nodes]
    <3>1. at \in [VMs -> SUBSET Nodes]
      BY DEF TypeOK
    <3>2. at' = [at EXCEPT ![v] = at[v] \cup {n}] \/ at' = [at EXCEPT ![v] = at[v] \ {n}]
      BY <1>14 DEF Appear, Vanish
    <3>3. at[v] \cup {n} \in SUBSET Nodes /\ at[v] \ {n} \in SUBSET Nodes
      BY <3>1
    <3> QED
      BY <3>1, <3>2, <3>3
  <2> QED
    BY <1>14, <2>1 DEF Appear, Vanish, TypeOK
<1>15. ASSUME NEW v \in VMs, NEW n \in Nodes, NEW s \in {"hidden", "active"},
              SetInventory(v, n, s)
       PROVE  TypeOK'
  <2>0. acts' \in 0..MaxActs
    <3>1. acts < MaxActs /\ acts' = acts + 1
      BY <1>15 DEF SetInventory
    <3>2. acts \in 0..MaxActs
      BY DEF TypeOK
    <3> QED
      BY <3>1, <3>2
  <2>1. row' \in [Keys -> Row]
    <3> DEFINE k == <<v, n>>
               r == [row[k] EXCEPT !.inv = s]
    <3>1. k \in Keys /\ row[k] \in Row
      BY DEF TypeOK, Keys
    <3>2. r \in Row
      <4> DEFINE q == row[k]
      <4>1. q \in Row
        BY <3>1
      <4> HIDE DEF q
      <4>2. [q EXCEPT !.inv = s] \in Row
        BY <4>1 DEF Row, Statuses
      <4> QED
        BY <4>2 DEF q
    <3>3. row' = [row EXCEPT ![k] = r]
      BY <1>15 DEF SetInventory
    <3> HIDE DEF k, r
    <3> QED
      BY <3>1, <3>2, <3>3 DEF TypeOK
  <2> QED
    BY <1>15, <2>0, <2>1 DEF SetInventory, TypeOK
<1>16. ASSUME NEW v \in VMs, purge_vm_data(v) PROVE TypeOK'
  <2>1. Absent \in Row
    BY DEF Absent, Row, Statuses, Null, SinceCap
  <2>2. row' \in [Keys -> Row]
    BY <1>16, <2>1 DEF purge_vm_data, TypeOK
  <2> QED
    BY <1>16, <2>2 DEF purge_vm_data, TypeOK
<1>17. CASE UNCHANGED vars
  BY <1>17 DEF vars, TypeOK
<1>18. \A n \in Nodes : CollectAll(n) \/ CollectSome(n) =>
          \E seen \in SUBSET VMs, full \in BOOLEAN : Collect(n, seen, full)
  BY DEF CollectAll, CollectSome, Listed
<1>19. \A v \in VMs, n \in Nodes : admin_delete_vm(v, n) \/ admin_restore_vm(v, n)
          => \E s \in {"hidden", "active"} : SetInventory(v, n, s)
  BY DEF admin_delete_vm, admin_restore_vm
<1> HIDE DEF db, txn, Actors
<1> QED
  BY <1>1, <1>2, <1>3, <1>4, <1>5, <1>6, <1>7, <1>8, <1>9, <1>10, <1>11,
     <1>12, <1>13, <1>14, <1>15, <1>16, <1>17, <1>18, <1>19 DEF Next, PushStep

-----------------------------------------------------------------------------
(* Transactions and locks.                                                 *)

\* Another transaction is not disturbed by what leaves it alone and moves none
\* of its VMs to its node.
LEMMA OthersKeep ==
    ASSUME NEW n \in Nodes, TxnOf(n),
           pc'[n] = pc[n], pc[n] # "idle" => pend'[n] = pend[n],
           wrow'[n] = wrow[n], wloc'[n] = wloc[n], todo'[n] = todo[n],
           dec'[n] = dec[n], sel'[n] = sel[n],
           \A v \in todo[n] : loc'[v] \notin {n, "none"}
    PROVE  TxnOf(n)'
  BY DEF TxnOf

\* Every step of a transaction keeps what it holds.
LEMMA TxnStep == TypeOK /\ TxnInv /\ HoldInv /\ [Next]_vars => TxnInv'
<1> SUFFICES ASSUME TypeOK, TxnInv, HoldInv, [Next]_vars PROVE TxnInv'
  OBVIOUS
<1> USE DEF db, txn, Actors
<1>0. /\ TxnOfWeb
      /\ \A n \in Nodes : TxnOf(n) /\ n # Web
      /\ \A n \in Nodes : \A v \in todo[n] : loc[v] \notin {n, "none"}
  <2>1. \A n \in Nodes : n # Web
    BY DEF Web
  <2>2. \A n \in Nodes : \A v \in todo[n] : loc[v] \notin {n, "none"}
    BY DEF TxnInv, TxnOf
  <2> QED
    BY <2>1, <2>2 DEF TxnInv
<1>20. ASSUME UNCHANGED <<pend, loc, pc, wrow, wloc, todo, dec, sel>> PROVE TxnInv'
  BY <1>20 DEF TxnInv, TxnOf, TxnOfWeb
<1>1. CASE Tick
  <2>1. ASSUME NEW m \in Nodes PROVE TxnOf(m)'
    BY <1>0, <1>1, OthersKeep DEF Tick
  <2> QED
    BY <1>0, <1>1, <2>1 DEF TxnInv, TxnOfWeb, Tick
<1>2. ASSUME NEW n \in Nodes, NEW seen \in SUBSET VMs, NEW full \in BOOLEAN,
             Collect(n, seen, full)
      PROVE  TxnInv'
  <2>1. pc[n] = "idle"
    BY <1>0, <1>2 DEF Collect, TxnOf, Payload, NoPayload, Null
  <2>2. ASSUME NEW m \in Nodes PROVE TxnOf(m)'
    <3>1. pc[m] # "idle" => pend'[m] = pend[m]
      BY <1>2, <2>1 DEF Collect, TypeOK
    <3> QED
      BY <1>0, <1>2, <3>1, OthersKeep DEF Collect
  <2> QED
    BY <1>0, <1>2, <2>2 DEF TxnInv, TxnOfWeb, Collect
<1>3. ASSUME NEW n \in Nodes, process_node_vm_presence(n) PROVE TxnInv'
  <2>1. ASSUME NEW m \in Nodes, m # n PROVE TxnOf(m)'
    BY <1>0, <1>3, <2>1, OthersKeep DEF process_node_vm_presence, TypeOK
  <2>2. /\ pend[n] \in Payload /\ pc[n] = "idle" /\ pc'[n] = "merged"
        /\ UNCHANGED <<pend, loc, wloc, todo, dec, sel>>
    BY <1>3 DEF process_node_vm_presence, MayStart, TypeOK
  <2>3. \A v \in pend[n].seen : wrow'[n][<<v, n>>] # NoRow
    <3> SUFFICES ASSUME NEW v \in pend[n].seen
                 PROVE  wrow'[n][<<v, n>>] # NoRow
      OBVIOUS
    <3>1. <<v, n>> \in Keys
      BY <2>2 DEF Keys, Payload
    <3>2. wrow'[n] = [k \in Keys |->
                        CASE k[2] = n /\ k[1] \in pend[n].seen -> Reported(row[k])
                          [] k[2] = n /\ k[1] \in MarkMissing(n)
                             -> Missed(row[k], pend[n].age)
                          [] OTHER -> NoRow]
      BY <1>3 DEF process_node_vm_presence, TypeOK
    <3>4. wrow'[n][<<v, n>>] = Reported(row[<<v, n>>])
      <4> DEFINE k == <<v, n>>
      <4>1. k \in Keys /\ k[1] = v /\ k[2] = n /\ v \in pend[n].seen
        BY <3>1
      <4> HIDE DEF k
      <4>2. wrow'[n][k] = CASE k[2] = n /\ k[1] \in pend[n].seen -> Reported(row[k])
                            [] k[2] = n /\ k[1] \in MarkMissing(n)
                               -> Missed(row[k], pend[n].age)
                            [] OTHER -> NoRow
        BY <3>2, <4>1
      <4>3. k[1] \notin MarkMissing(n)
        BY <4>1 DEF MarkMissing
      <4>4. wrow'[n][k] = Reported(row[k])
        BY <4>1, <4>2, <4>3
      <4> QED
        BY <4>4 DEF k
    <3>3. Reported(row[<<v, n>>]).st = "active" /\ NoRow.st = "unlocked"
      BY <3>1, RowEffects DEF TypeOK, NoRow
    <3> QED
      BY <3>3, <3>4
  <2>5. /\ \A v \in VMs : wloc[n][v] = Unset
        /\ todo[n] = {} /\ dec[n] = NoDec /\ sel[n] = {}
    BY <1>0, <2>2 DEF TxnOf
  <2>4. TxnOf(n)'
    BY <2>2, <2>3, <2>5 DEF TxnOf
  <2> QED
    BY <1>0, <1>3, <2>1, <2>4
       DEF TxnInv, TxnOfWeb, process_node_vm_presence, TypeOK
<1>4. ASSUME NEW n \in Nodes, SelectMoved(n) PROVE TxnInv'
  <2>1. ASSUME NEW m \in Nodes, m # n PROVE TxnOf(m)'
    BY <1>0, <1>4, <2>1, OthersKeep DEF SelectMoved, TypeOK
  <2>3. /\ pc[n] = "merged" /\ pc'[n] = "selected"
        /\ todo'[n] = {v \in pend[n].seen : loc[v] \notin {n, "none"}}
        /\ UNCHANGED <<pend, loc, wrow, wloc, dec, sel>>
    BY <1>4 DEF SelectMoved, TypeOK
  <2>2. TxnOf(n)'
    BY <1>0, <2>3 DEF TxnOf
  <2> QED
    BY <1>0, <1>4, <2>1, <2>2 DEF TxnInv, TxnOfWeb, SelectMoved, TypeOK
<1>5. ASSUME NEW n \in Nodes, LocateSeen(n) PROVE TxnInv'
  <2>1. ASSUME NEW m \in Nodes, m # n PROVE TxnOf(m)'
    BY <1>0, <1>5, <2>1, OthersKeep DEF LocateSeen, TypeOK
  <2>2. \A v \in VMs : wloc'[n][v] # Unset => v \in pend[n].seen
    BY <1>5 DEF LocateSeen, Here, TypeOK
  <2>3. TxnOf(n)'
    BY <1>0, <1>5, <2>2 DEF LocateSeen, TxnOf, TypeOK
  <2> QED
    BY <1>0, <1>5, <2>1, <2>3 DEF TxnInv, TxnOfWeb, LocateSeen, TypeOK
<1>6. ASSUME NEW n \in Nodes, ReadLocation(n) PROVE TxnInv'
  <2>1. ASSUME NEW m \in Nodes, m # n PROVE TxnOf(m)'
    BY <1>0, <1>6, <2>1, OthersKeep DEF ReadLocation, TypeOK
  <2>2. First(todo[n]) \in todo[n]
    <3>1. todo[n] # {} /\ todo[n] \in SUBSET Nat
      BY <1>6 DEF ReadLocation, TypeOK
    <3> QED
      BY <3>1, LeastOf DEF First
  <2>3. dec'[n].vm = First(todo[n]) /\ dec'[n].old = loc[First(todo[n])]
    BY <1>6 DEF ReadLocation, TypeOK
  <2>4. dec'[n].vm \in todo[n] /\ dec'[n].old # n
    BY <1>0, <2>2, <2>3
  <2>5. TxnOf(n)'
    BY <1>0, <1>6, <2>4 DEF ReadLocation, TxnOf
  <2> QED
    BY <1>0, <1>6, <2>1, <2>5 DEF TxnInv, TxnOfWeb, ReadLocation
<1>7. ASSUME NEW n \in Nodes, create_or_update_location(n) PROVE TxnInv'
  <2>1. ASSUME NEW m \in Nodes, m # n PROVE TxnOf(m)'
    BY <1>0, <1>7, <2>1, OthersKeep DEF create_or_update_location, TypeOK
  <2>2. pend[n].age \in 0..MaxDelay /\ pc[n] = "moving" /\ dec[n].vm \in todo[n]
        /\ dec[n].vm \in VMs
    BY <1>0, <1>7 DEF create_or_update_location, TxnOf, Payload, TypeOK
  <2>3. \A k \in Keys : NewRow(n, k) # NoRow
    <3> SUFFICES ASSUME NEW k \in Keys PROVE NewRow(n, k) # NoRow
      OBVIOUS
    <3>1. SeenRow(n, k) \in Row
      BY SeenTypes
    <3>2. NewRow(n, k) \in Row
      BY <2>2, <3>1, RowTypes DEF NewRow, Statuses
    <3> QED
      BY <3>2 DEF Row, NoRow, Statuses
  <2>4. \A k \in Keys : wrow[n][k] # NoRow => wrow'[n][k] # NoRow
    BY <1>7, <2>3 DEF create_or_update_location, TypeOK
  <2>5. \A v \in VMs : wloc'[n][v] # Unset => wloc[n][v] # Unset \/ v = dec[n].vm
    BY <1>7 DEF create_or_update_location, TypeOK
  <2>6. /\ todo'[n] \subseteq todo[n] /\ dec'[n] = NoDec
        /\ pc' = pc /\ pend' = pend /\ loc' = loc /\ sel' = sel
    BY <1>7 DEF create_or_update_location, TypeOK
  <2>7. pend[n].seen \subseteq VMs /\ \A v \in VMs : <<v, n>> \in Keys
    BY <1>0, <2>2 DEF TxnOf, Payload, Keys
  <2>9. wrow[n][<<dec[n].vm, n>>] # NoRow /\ <<dec[n].vm, n>> \in Keys
    BY <1>0, <2>2, <2>7, ZenonT(40) DEF TxnOf
  <2>10. \A v \in VMs : wloc'[n][v] # Unset => wrow'[n][<<v, n>>] # NoRow
    <3>1. \A v \in VMs : wloc[n][v] # Unset => wrow[n][<<v, n>>] # NoRow
      BY <1>0 DEF TxnOf
    <3> QED
      BY <2>4, <2>5, <2>7, <2>9, <3>1
  <2>11. \A v \in pend[n].seen : wrow'[n][<<v, n>>] # NoRow
    BY <1>0, <2>2, <2>4, <2>7, ZenonT(40) DEF TxnOf
  <2>8. TxnOf(n)'
    BY <1>0, <2>2, <2>6, <2>10, <2>11 DEF TxnOf
  <2> QED
    BY <1>0, <1>7, <2>1, <2>8
       DEF TxnInv, TxnOfWeb, create_or_update_location, TypeOK
<1>8. ASSUME NEW n \in Nodes, SelectPurge(n) PROVE TxnInv'
  <2>1. ASSUME NEW m \in Nodes, m # n PROVE TxnOf(m)'
    BY <1>0, <1>8, <2>1, OthersKeep DEF SelectPurge, TypeOK
  <2>2. dec[n] = NoDec
    BY <1>0, <1>8 DEF SelectPurge, TxnOf
  <2>3. TxnOf(n)'
    BY <1>0, <1>8, <2>2 DEF SelectPurge, TxnOf, TypeOK
  <2> QED
    BY <1>0, <1>8, <2>1, <2>3 DEF TxnInv, TxnOfWeb, SelectPurge, TypeOK
<1>9. ASSUME NEW n \in Nodes, auto_purge_migrated_vms(n) PROVE TxnInv'
  <2>1. ASSUME NEW m \in Nodes, m # n PROVE TxnOf(m)'
    BY <1>0, <1>9, <2>1, OthersKeep DEF auto_purge_migrated_vms, TypeOK
  <2>2. \A k \in Keys : wrow[n][k] # NoRow => wrow'[n][k] # NoRow
    <3> SUFFICES ASSUME NEW k \in Keys, wrow[n][k] # NoRow
                 PROVE  wrow'[n][k] # NoRow
      OBVIOUS
    <3>1. Purged(SeenRow(n, k)) \in Row
      BY SeenTypes, RowTypes
    <3>2. Purged(SeenRow(n, k)) # NoRow
      BY <3>1 DEF Row, NoRow, Statuses
    <3> QED
      BY <1>9, <3>2 DEF auto_purge_migrated_vms, TypeOK
  <2>3. /\ pc[n] = "purging" /\ pc'[n] = "commit" /\ sel'[n] = {}
        /\ UNCHANGED <<wloc, todo, dec, pend, loc>>
    BY <1>9 DEF auto_purge_migrated_vms, TypeOK
  <2>4. pend[n].seen \subseteq VMs /\ \A v \in VMs : <<v, n>> \in Keys
    BY <1>0, <2>3 DEF TxnOf, Payload, Keys
  <2>5. TxnOf(n)'
    BY <1>0, <2>2, <2>3, <2>4 DEF TxnOf
  <2> QED
    BY <1>0, <1>9, <2>1, <2>5
       DEF TxnInv, TxnOfWeb, auto_purge_migrated_vms, TypeOK
<1>10. ASSUME NEW n \in Nodes, Commit(n) PROVE TxnInv'
  <2>1. ASSUME NEW m \in Nodes, m # n PROVE TxnOf(m)'
    <3>1. ASSUME NEW v \in todo[m] PROVE loc'[v] \notin {m, "none"}
      <4>1. v \in VMs /\ loc[v] \notin {m, "none"}
        BY <1>0, <3>1 DEF TypeOK
      <4>2. loc'[v] = IF wloc[n][v] # Unset THEN wloc[n][v] ELSE loc[v]
        BY <1>10, <4>1 DEF Commit, SeenLoc
      <4>3. wloc[n][v] # Unset => wloc[n][v] = n \/ wloc[n][v] = loc[v]
        BY <4>1 DEF HoldInv
      <4> QED
        BY <1>0, <2>1, <4>1, <4>2, <4>3
    <3> QED
      BY <1>0, <1>10, <2>1, <3>1, OthersKeep DEF Commit, TypeOK
  <2>2. TxnOf(n)'
    BY <1>0, <1>10 DEF Commit, TxnOf, TypeOK
  <2> QED
    BY <1>0, <1>10, <2>1, <2>2 DEF TxnInv, TxnOfWeb, Commit, TypeOK
<1>11. ASSUME NEW n \in Nodes, push_v5058r4_deadlock_retry(n) PROVE TxnInv'
  <2>1. ASSUME NEW m \in Nodes, m # n PROVE TxnOf(m)'
    BY <1>0, <1>11, <2>1, OthersKeep DEF push_v5058r4_deadlock_retry, TypeOK
  <2>2. TxnOf(n)'
    BY <1>0, <1>11 DEF push_v5058r4_deadlock_retry, TxnOf, TypeOK
  <2> QED
    BY <1>0, <1>11, <2>1, <2>2
       DEF TxnInv, TxnOfWeb, push_v5058r4_deadlock_retry, TypeOK
<1>12. CASE WebSelect
  <2>1. ASSUME NEW m \in Nodes PROVE TxnOf(m)'
    BY <1>0, <1>12, OthersKeep DEF WebSelect, TypeOK
  <2> QED
    BY <1>0, <1>12, <2>1 DEF TxnInv, TxnOfWeb, WebSelect, TypeOK
<1>13. CASE WebPurge
  <2>1. ASSUME NEW m \in Nodes PROVE TxnOf(m)'
    BY <1>0, <1>13, OthersKeep DEF WebPurge, TypeOK
  <2> QED
    BY <1>0, <1>13, <2>1 DEF TxnInv, TxnOfWeb, WebPurge, TypeOK
<1>14. ASSUME NEW v \in VMs, NEW n \in Nodes, NEW s,
              Appear(v, n) \/ Vanish(v, n) \/ SetInventory(v, n, s)
       PROVE  TxnInv'
  <2>1. UNCHANGED <<pend, loc, pc, wrow, wloc, todo, dec, sel>>
    BY <1>14 DEF Appear, Vanish, SetInventory
  <2> QED
    BY <1>20, <2>1
<1>15. ASSUME NEW v \in VMs, purge_vm_data(v) PROVE TxnInv'
  <2>1. ASSUME NEW m \in Nodes PROVE TxnOf(m)'
    <3>1. \A u \in todo[m] : loc'[u] \notin {m, "none"}
      <4> SUFFICES ASSUME NEW u \in todo[m] PROVE u # v
        BY <1>0, <1>15 DEF purge_vm_data, TypeOK
      <4>1. /\ pc[m] # "idle" /\ u \in pend[m].seen
            /\ wrow[m][<<u, m>>] # NoRow
        BY <1>0 DEF TxnOf
      <4>2. <<v, m>> \notin RowsHeld(m)
        BY <1>15 DEF purge_vm_data, Unlocked
      <4> QED
        BY <4>1, <4>2 DEF RowsHeld, Keys
    <3> QED
      BY <1>0, <1>15, <3>1, OthersKeep DEF purge_vm_data
  <2> QED
    BY <1>0, <1>15, <2>1 DEF TxnInv, TxnOfWeb, purge_vm_data
<1>16. CASE UNCHANGED vars
  <2>1. UNCHANGED <<pend, loc, pc, wrow, wloc, todo, dec, sel>>
    BY <1>16 DEF vars
  <2> QED
    BY <1>20, <2>1
<1>17. \A n \in Nodes : CollectAll(n) \/ CollectSome(n) =>
          \E seen \in SUBSET VMs, full \in BOOLEAN : Collect(n, seen, full)
  BY DEF CollectAll, CollectSome, Listed
<1> HIDE DEF db, txn, Actors
<1> QED
  BY <1>1, <1>2, <1>3, <1>4, <1>5, <1>6, <1>7, <1>8, <1>9, <1>10, <1>11,
     <1>12, <1>13, <1>14, <1>15, <1>16, <1>17
     DEF Next, PushStep, admin_delete_vm, admin_restore_vm

\* A location or a row has one writer at a time, and nobody changes the
\* location of a VM that another transaction has written.
LEMMA HoldStep == TypeOK /\ TxnInv /\ HoldInv /\ [Next]_vars => HoldInv'
<1> SUFFICES ASSUME TypeOK, TxnInv, HoldInv, [Next]_vars PROVE HoldInv'
  OBVIOUS
<1> USE DEF db, txn, Actors
<1>0. /\ \A n \in Nodes : TxnOf(n) /\ n \in Actors /\ n # Web
      /\ Web \in Actors
  BY DEF TxnInv, Web
\* A transaction that writes free rows and locations only.
<1>1. ASSUME NEW n \in Actors, NEW ks \in SUBSET Keys, NEW vs \in SUBSET VMs,
             Free(n, ks, vs), loc' = loc,
             wrow' = [wrow EXCEPT ![n] = wrow'[n]],
             wloc' = [wloc EXCEPT ![n] = wloc'[n]],
             \A k \in Keys : wrow[n][k] = NoRow /\ k \notin ks => wrow'[n][k] = NoRow,
             \A v \in VMs : wloc[n][v] = Unset /\ v \notin vs => wloc'[n][v] = Unset,
             \A v \in VMs : wloc'[n][v] \notin {Unset, n} => wloc'[n][v] = loc[v]
      PROVE  HoldInv'
  <2>1. \A b \in Actors : b # n => wrow'[b] = wrow[b] /\ wloc'[b] = wloc[b]
    BY <1>1 DEF TypeOK
  <2>2. ASSUME NEW b \in Actors, b # n
        PROVE  /\ \A k \in Keys : wrow'[n][k] = NoRow \/ wrow[b][k] = NoRow
               /\ \A v \in VMs : wloc'[n][v] = Unset \/ wloc[b][v] = Unset
    <3>1. \A k \in ks : wrow[b][k] = NoRow
      BY <1>1, <2>2 DEF Free, RowsHeld
    <3>2. \A v \in vs : wloc[b][v] = Unset
      BY <1>1, <2>2 DEF Free, LocsHeld
    <3> QED
      BY <1>1, <2>2, <3>1, <3>2 DEF HoldInv
  <2>3. \A m \in Nodes, v \in VMs :
           wloc'[m][v] \notin {Unset, m} => wloc'[m][v] = loc'[v]
    BY <1>0, <1>1, <2>1 DEF HoldInv
  <2> QED
    BY <2>1, <2>2, <2>3 DEF HoldInv
<1>2. ASSUME UNCHANGED <<wrow, wloc, loc>> PROVE HoldInv'
  BY <1>2 DEF HoldInv
<1>3. ASSUME NEW n \in Nodes, process_node_vm_presence(n) PROVE HoldInv'
  <2> DEFINE ks == (pend[n].seen \cup MarkMissing(n)) \X {n}
  <2>1. pend[n] \in Payload /\ Free(n, ks, {})
    BY <1>3 DEF process_node_vm_presence, TypeOK
  <2>2. ks \in SUBSET Keys
    BY <2>1 DEF Keys, MarkMissing, Payload
  <2>3. \A k \in Keys : k \notin ks => wrow'[n][k] = NoRow
    BY <1>3 DEF process_node_vm_presence, TypeOK, Keys
  <2>4. wrow' = [wrow EXCEPT ![n] = wrow'[n]] /\ wloc' = wloc /\ loc' = loc
    BY <1>3 DEF process_node_vm_presence, TypeOK
  <2>5. wloc' = [wloc EXCEPT ![n] = wloc'[n]]
    BY <2>4 DEF TypeOK
  <2>6. \A v \in VMs : wloc'[n][v] = wloc[n][v]
    BY <2>4
  <2> HIDE DEF ks
  <2>7. \A v \in VMs : wloc[n][v] \notin {Unset, n} => wloc[n][v] = loc[v]
    BY DEF HoldInv
  <2> QED
    BY <1>0, <1>1, <2>1, <2>2, <2>3, <2>4, <2>5, <2>6, <2>7
<1>4. ASSUME NEW n \in Nodes, LocateSeen(n) PROVE HoldInv'
  <2>1. Free(n, {}, Here(n)) /\ Here(n) \in SUBSET VMs
    <3>1. pend[n] \in Payload
      BY <1>0, <1>4 DEF LocateSeen, TxnOf
    <3> QED
      BY <1>4, <3>1 DEF LocateSeen, Here, Payload
  <2>2. wloc' = [wloc EXCEPT ![n] = wloc'[n]] /\ wrow' = wrow /\ loc' = loc
    BY <1>4 DEF LocateSeen, TypeOK
  <2>3. \A v \in VMs : wloc'[n][v] = IF v \in Here(n) THEN n ELSE Unset
    BY <1>4 DEF LocateSeen, TypeOK
  <2>4. wrow' = [wrow EXCEPT ![n] = wrow'[n]]
    BY <2>2 DEF TypeOK
  <2> QED
    BY <1>0, <1>1, <2>1, <2>2, <2>3, <2>4
<1>5. ASSUME NEW n \in Nodes, create_or_update_location(n) PROVE HoldInv'
  <2> DEFINE v == dec[n].vm
  <2>1. v \in VMs /\ dec[n].old \in Nodes /\ loc[v] \in Nodes
    <3>1. dec[n] # NoDec
      BY <1>5 DEF create_or_update_location
    <3>2. v \in VMs /\ dec[n].old \in Nodes
      BY <3>1 DEF TypeOK
    <3>3. loc[v] # "none"
      BY <1>0, <3>1 DEF TxnOf
    <3> QED
      BY <3>2, <3>3 DEF TypeOK
  <2>2. Free(n, Touched(n), {v}) /\ Touched(n) \in SUBSET Keys
    BY <1>5, <2>1 DEF create_or_update_location, Touched, Keys
  <2>3. \A k \in Keys : k \notin Touched(n) => wrow'[n][k] = wrow[n][k]
    BY <1>5 DEF create_or_update_location, TypeOK
  <2>4. /\ wrow' = [wrow EXCEPT ![n] = wrow'[n]] /\ loc' = loc
        /\ wloc' = [wloc EXCEPT ![n] = wloc'[n]]
    BY <1>5 DEF create_or_update_location, TypeOK
  <2>5. \A u \in VMs : wloc'[n][u] = IF u = v THEN (IF dec[n].confirmed THEN n ELSE loc[v])
                                               ELSE wloc[n][u]
    BY <1>5, <2>1 DEF create_or_update_location, TypeOK
  <2> HIDE DEF v
  <2>6. \A u \in VMs : wloc[n][u] \notin {Unset, n} => wloc[n][u] = loc[u]
    BY DEF HoldInv
  <2>7. /\ \A u \in VMs : wloc'[n][u] \notin {Unset, n} => wloc'[n][u] = loc[u]
        /\ \A u \in VMs : wloc[n][u] = Unset /\ u \notin {v} => wloc'[n][u] = Unset
    BY <2>5, <2>6
  <2>8. /\ {v} \in SUBSET VMs
        /\ \A k \in Keys : wrow[n][k] = NoRow /\ k \notin Touched(n)
                        => wrow'[n][k] = NoRow
    BY <2>1, <2>3
  <2> QED
    BY <1>0, <1>1, <2>2, <2>4, <2>7, <2>8
<1>6. ASSUME NEW n \in Nodes, auto_purge_migrated_vms(n) PROVE HoldInv'
  <2>1. Free(n, sel[n], {}) /\ sel[n] \in SUBSET Keys
    BY <1>0, <1>6 DEF auto_purge_migrated_vms, TypeOK
  <2>2. \A k \in Keys : k \notin sel[n] => wrow'[n][k] = wrow[n][k]
    BY <1>6 DEF auto_purge_migrated_vms, TypeOK
  <2>3. wrow' = [wrow EXCEPT ![n] = wrow'[n]] /\ wloc' = wloc /\ loc' = loc
    BY <1>6 DEF auto_purge_migrated_vms, TypeOK
  <2>4. wloc' = [wloc EXCEPT ![n] = wloc'[n]]
    BY <2>3 DEF TypeOK
  <2>5. \A v \in VMs : wloc'[n][v] = wloc[n][v]
    BY <2>3
  <2>6. \A v \in VMs : wloc[n][v] \notin {Unset, n} => wloc[n][v] = loc[v]
    BY DEF HoldInv
  <2> QED
    BY <1>0, <1>1, <2>1, <2>2, <2>3, <2>4, <2>5, <2>6
<1>7. ASSUME NEW n \in Nodes, Commit(n) PROVE HoldInv'
  <2>1. \A b \in Actors : b # n => wrow'[b] = wrow[b] /\ wloc'[b] = wloc[b]
    BY <1>7 DEF Commit, TypeOK
  <2>2. /\ \A k \in Keys : wrow'[n][k] = NoRow
        /\ \A v \in VMs : wloc'[n][v] = Unset
    BY <1>7 DEF Commit, TypeOK
  <2>3. ASSUME NEW m \in Nodes, NEW v \in VMs, wloc'[m][v] \notin {Unset, m}
        PROVE  wloc'[m][v] = loc'[v]
    <3>1. m # n /\ wloc[m][v] # Unset /\ wloc[m][v] = loc[v]
      BY <1>0, <2>1, <2>2, <2>3 DEF HoldInv
    <3>2. wloc[n][v] = Unset
      BY <1>0, <3>1 DEF HoldInv
    <3> QED
      BY <1>0, <1>7, <2>1, <3>1, <3>2 DEF Commit, SeenLoc
  <2>4. \A a, b \in Actors : a # b =>
          /\ \A k \in Keys : wrow'[a][k] = NoRow \/ wrow'[b][k] = NoRow
          /\ \A v \in VMs : wloc'[a][v] = Unset \/ wloc'[b][v] = Unset
    BY <2>1, <2>2 DEF HoldInv
  <2> QED
    BY <2>3, <2>4 DEF HoldInv
<1>8. ASSUME NEW n \in Nodes, push_v5058r4_deadlock_retry(n) PROVE HoldInv'
  <2>1. \A b \in Actors : b # n => wrow'[b] = wrow[b] /\ wloc'[b] = wloc[b]
    BY <1>8 DEF push_v5058r4_deadlock_retry, TypeOK
  <2>2. /\ \A k \in Keys : wrow'[n][k] = NoRow
        /\ \A v \in VMs : wloc'[n][v] = Unset
        /\ loc' = loc
    BY <1>8 DEF push_v5058r4_deadlock_retry, TypeOK
  <2> QED
    BY <1>0, <2>1, <2>2 DEF HoldInv
<1>9. ASSUME NEW v \in VMs, purge_vm_data(v) PROVE HoldInv'
  <2>1. UNCHANGED <<wrow, wloc>> /\ loc' = [loc EXCEPT ![v] = "none"]
    BY <1>9 DEF purge_vm_data
  <2>2. \A m \in Nodes : wloc[m][v] = Unset
    BY <1>0, <1>9 DEF purge_vm_data, Unlocked, LocsHeld
  <2> QED
    BY <2>1, <2>2 DEF HoldInv, TypeOK
<1>10. \/ UNCHANGED <<wrow, wloc, loc>>
       \/ \E n \in Nodes : \/ process_node_vm_presence(n) \/ LocateSeen(n)
                           \/ create_or_update_location(n)
                           \/ auto_purge_migrated_vms(n) \/ Commit(n)
                           \/ push_v5058r4_deadlock_retry(n)
       \/ \E v \in VMs : purge_vm_data(v)
  <2>1. \A n \in Nodes : SelectMoved(n) \/ ReadLocation(n) \/ SelectPurge(n)
                         => UNCHANGED <<wrow, wloc, loc>>
    BY DEF SelectMoved, ReadLocation, SelectPurge
  <2>2. Tick \/ WebSelect \/ WebPurge => UNCHANGED <<wrow, wloc, loc>>
    BY DEF Tick, WebSelect, WebPurge
  <2>3. \A n \in Nodes : CollectAll(n) \/ CollectSome(n)
                         => UNCHANGED <<wrow, wloc, loc>>
    BY DEF CollectAll, CollectSome, Collect
  <2>4. \A v \in VMs, n \in Nodes :
           Appear(v, n) \/ Vanish(v, n) \/ admin_delete_vm(v, n)
           \/ admin_restore_vm(v, n) => UNCHANGED <<wrow, wloc, loc>>
    BY DEF Appear, Vanish, admin_delete_vm, admin_restore_vm, SetInventory
  <2>5. UNCHANGED vars => UNCHANGED <<wrow, wloc, loc>>
    BY DEF vars
  <2> QED
    BY <2>1, <2>2, <2>3, <2>4, <2>5 DEF Next, PushStep
<1> QED
  BY <1>2, <1>3, <1>4, <1>5, <1>6, <1>7, <1>8, <1>9, <1>10

-----------------------------------------------------------------------------
(* Moves.                                                                  *)

\* Another transaction has moved its VMs as far as before.
LEMMA OthersMove ==
    ASSUME NEW n \in Nodes, MoveOf(n),
           pc'[n] = pc[n], pc[n] # "idle" => pend'[n] = pend[n],
           wrow'[n] = wrow[n], wloc'[n] = wloc[n], todo'[n] = todo[n],
           sel'[n] = sel[n]
    PROVE  MoveOf(n)'
  BY DEF MoveOf

\* A step of one push leaves what the other actors hold.
LEMMA OthersStay ==
    ASSUME TypeOK, NEW n \in Nodes, PushStep(n), NEW o \in Actors, o # n
    PROVE  /\ pc'[o] = pc[o] /\ wrow'[o] = wrow[o] /\ wloc'[o] = wloc[o]
           /\ sel'[o] = sel[o]
           /\ o \in Nodes => pend'[o] = pend[o] /\ todo'[o] = todo[o] /\ dec'[o] = dec[o]
<1> USE DEF db, txn, Actors
<1>1. CASE process_node_vm_presence(n) \/ SelectMoved(n) \/ LocateSeen(n)
  BY <1>1 DEF process_node_vm_presence, SelectMoved, LocateSeen, TypeOK
<1>2. CASE ReadLocation(n) \/ create_or_update_location(n)
  BY <1>2 DEF ReadLocation, create_or_update_location, TypeOK
<1>3. CASE SelectPurge(n) \/ auto_purge_migrated_vms(n)
  BY <1>3 DEF SelectPurge, auto_purge_migrated_vms, TypeOK
<1>4. CASE Commit(n) \/ push_v5058r4_deadlock_retry(n)
  BY <1>4 DEF Commit, push_v5058r4_deadlock_retry, TypeOK
<1> QED
  BY <1>1, <1>2, <1>3, <1>4 DEF PushStep

\* A push moves a VM to its own node, or not at all.
LEMMA MoveStep ==
    TypeOK /\ TxnInv /\ MoveInv /\ [Next]_vars => \A n \in Nodes : MoveOf(n)'
<1> SUFFICES ASSUME TypeOK, TxnInv, MoveInv, [Next]_vars, NEW n \in Nodes
             PROVE  MoveOf(n)'
  OBVIOUS
<1> USE DEF db, txn
<1>0. TxnOf(n) /\ MoveOf(n) /\ n \in Actors
  BY DEF TxnInv, MoveInv, Actors
<1>1. ASSUME /\ pc[n] # "idle" => pend'[n] = pend[n]
             /\ pc'[n] = pc[n] /\ wrow'[n] = wrow[n] /\ wloc'[n] = wloc[n]
             /\ todo'[n] = todo[n] /\ sel'[n] = sel[n]
      PROVE  MoveOf(n)'
  BY <1>0, <1>1, OthersMove
<1>2. CASE \E m \in Nodes \ {n} : PushStep(m)
  BY <1>0, <1>1, <1>2, OthersStay
<1>3. CASE process_node_vm_presence(n)
  <2>1. /\ pend[n] \in Payload /\ pend' = pend /\ pc[n] = "idle" /\ pc'[n] = "merged"
        /\ todo'[n] = {} /\ sel'[n] = {}
    BY <1>0, <1>3 DEF process_node_vm_presence, MayStart, TypeOK, TxnOf
  <2>2. wrow'[n] = [k \in Keys |->
                      CASE k[2] = n /\ k[1] \in pend[n].seen -> Reported(row[k])
                        [] k[2] = n /\ k[1] \in MarkMissing(n)
                           -> Missed(row[k], pend[n].age)
                        [] OTHER -> NoRow]
    BY <1>0, <1>3 DEF process_node_vm_presence, TypeOK
  <2>3. \A k \in Keys : k[1] \in pend[n].seen => k[1] \notin MarkMissing(n)
    BY DEF MarkMissing
  <2>4. ASSUME NEW k \in Keys
        PROVE  /\ k[2] = n /\ k[1] \in pend[n].seen => wrow'[n][k].st = "active"
               /\ wrow'[n][k].st # "migrated"
    <3>1. wrow'[n][k] \in {Reported(row[k]), Missed(row[k], pend[n].age), NoRow}
      BY <2>2
    <3>2. k[2] = n /\ k[1] \in pend[n].seen => wrow'[n][k] = Reported(row[k])
      BY <2>2, <2>3
    <3>3. /\ Reported(row[k]).st = "active"
          /\ Missed(row[k], pend[n].age).st \in {"missing", "none"}
      BY <2>1, RowEffects DEF TypeOK, Payload
    <3>4. NoRow.st = "unlocked"
      BY DEF NoRow
    <3> QED
      BY <3>1, <3>2, <3>3, <3>4
  <2>5. \A v \in VMs, m \in Nodes :
          /\ <<v, m>> \in Keys /\ <<v, m>>[1] = v /\ <<v, m>>[2] = m
    BY DEF Keys
  <2>6. pend[n].seen \subseteq VMs
    BY <2>1 DEF Payload
  <2>7. \A v \in pend[n].seen : wrow'[n][<<v, n>>].st = "active"
    BY <2>4, <2>5, <2>6
  <2>8. \A v \in VMs, m \in Nodes : wrow'[n][<<v, m>>].st # "migrated"
    BY <2>4, <2>5
  <2>9. \A v \in VMs, m \in Nodes \ {n} : wrow'[n][<<v, m>>] = NoRow
    <3> SUFFICES ASSUME NEW v \in VMs, NEW m \in Nodes \ {n}
                 PROVE  wrow'[n][<<v, m>>] = NoRow
      OBVIOUS
    <3> DEFINE k == <<v, m>>
    <3>1. k \in Keys /\ k[2] # n
      BY <2>5
    <3> HIDE DEF k
    <3>2. wrow'[n][k] = NoRow
      BY <2>2, <3>1
    <3> QED
      BY <3>2 DEF k
  <2> QED
    BY <2>1, <2>7, <2>8, <2>9 DEF MoveOf
<1>4. CASE SelectMoved(n)
  <2>1. /\ pc[n] = "merged" /\ pc'[n] = "selected"
        /\ todo'[n] = {v \in pend[n].seen : loc[v] \notin {n, "none"}}
        /\ UNCHANGED <<pend, wrow, wloc, sel>>
    BY <1>0, <1>4 DEF SelectMoved, TypeOK
  <2>2. pend[n].seen \subseteq VMs /\ \A v \in VMs : wloc[n][v] = Unset
    BY <1>0, <2>1 DEF TxnOf, Payload
  <2>3. \A v \in VMs, m \in Nodes \ {n} : wrow[n][<<v, m>>] = NoRow
    BY <1>0, <2>1 DEF MoveOf
  <2> QED
    BY <1>0, <2>1, <2>2, <2>3, ZenonT(40) DEF MoveOf
<1>5. CASE LocateSeen(n)
  <2>1. /\ pc[n] = "selected" /\ pc'[n] = "moving"
        /\ wloc'[n] = [v \in VMs |-> IF v \in Here(n) THEN n ELSE Unset]
        /\ UNCHANGED <<pend, wrow, todo, sel>>
    BY <1>0, <1>5 DEF LocateSeen, TypeOK
  <2>2. \A v \in VMs : wloc[n][v] = Unset /\ n # Unset
    BY <1>0, <2>1 DEF TxnOf, Unset
  <2>3. \A v \in todo[n] : v \notin Here(n) /\ v \in VMs
    BY <1>0 DEF TxnOf, Here, TypeOK
  <2> QED
    BY <1>0, <2>1, <2>2, <2>3 DEF MoveOf
<1>6. CASE ReadLocation(n)
  BY <1>0, <1>1, <1>6 DEF ReadLocation
<1>7. CASE create_or_update_location(n)
  <2> DEFINE v == dec[n].vm
             old == dec[n].old
  <2>1. /\ pc[n] = "moving" /\ pend[n].age \in 0..MaxDelay /\ pend[n].seen \subseteq VMs
        /\ dec[n] # NoDec /\ UNCHANGED <<pend, pc, sel>> /\ todo'[n] = todo[n] \ {v}
    BY <1>0, <1>7 DEF create_or_update_location, TypeOK, TxnOf, Payload
  <2>2. /\ v \in todo[n] /\ v \in VMs /\ v \in pend[n].seen
        /\ old \in Nodes /\ old # n
    BY <1>0, <2>1 DEF TxnOf, TypeOK
  <2>3. Touched(n) = {<<v, old>>, <<v, n>>}
    BY DEF Touched
  <2>4. wrow'[n] = [k \in Keys |-> IF k \in Touched(n) THEN NewRow(n, k) ELSE wrow[n][k]]
    BY <1>0, <1>7 DEF create_or_update_location, TypeOK
  <2>5. \A u \in VMs : wloc'[n][u] = IF u = v THEN IF dec[n].confirmed THEN n ELSE loc[v]
                                               ELSE wloc[n][u]
    BY <1>0, <1>7 DEF create_or_update_location, TypeOK
  <2>6. <<v, old>> \in Keys /\ <<v, n>> \in Keys
        /\ <<v, old>>[2] = old /\ <<v, n>>[2] = n
    BY <2>2 DEF Keys
  <2>7. /\ wrow[n][<<v, n>>].st \in {"active", "pending_migration"}
        /\ SeenRow(n, <<v, n>>) = wrow[n][<<v, n>>]
    BY <1>0, <2>1, <2>2 DEF MoveOf, SeenRow, NoRow
  <2> HIDE DEF v, old
  <2>8. wrow'[n][<<v, n>>].st \in {"active", "pending_migration"}
    <3>1. wrow'[n][<<v, n>>] = NewRow(n, <<v, n>>)
      BY <2>3, <2>4, <2>6
    <3>2. SeenRow(n, <<v, n>>) \in Row
      BY <1>0, <2>6, SeenTypes
    <3>3. Change(SeenRow(n, <<v, n>>), "pending_migration").st = "pending_migration"
      BY <2>7, <3>2, RowEffects DEF Statuses
    <3>4. NewRow(n, <<v, n>>) \in {Change(SeenRow(n, <<v, n>>), "pending_migration"),
                                  SeenRow(n, <<v, n>>)}
      <4> DEFINE k == <<v, n>>
      <4>1. k[2] = n
        BY <2>6
      <4> HIDE DEF k
      <4>2. NewRow(n, k) \in {Change(SeenRow(n, k), "pending_migration"), SeenRow(n, k)}
        BY <4>1 DEF NewRow
      <4> QED
        BY <4>2 DEF k
    <3> QED
      BY <2>7, <3>1, <3>3, <3>4
  <2>9. wrow'[n][<<v, old>>].st # "migrated" \/ dec[n].confirmed
    <3>1. wrow'[n][<<v, old>>] = NewRow(n, <<v, old>>)
      BY <2>3, <2>4, <2>6
    <3>2. SeenRow(n, <<v, old>>) \in Row
      BY <1>0, <2>6, SeenTypes
    <3>3. Change(SeenRow(n, <<v, old>>), "pending_migration").st # "migrated"
      BY <3>2, RowEffects DEF Statuses
    <3>4. ~dec[n].confirmed
          => NewRow(n, <<v, old>>) = Change(SeenRow(n, <<v, old>>), "pending_migration")
      BY DEF NewRow
    <3> QED
      BY <3>1, <3>3, <3>4
  <2>10. ASSUME NEW u \in VMs, NEW m \in Nodes, <<u, m>> \notin Touched(n)
         PROVE  wrow'[n][<<u, m>>] = wrow[n][<<u, m>>]
    BY <2>4, <2>10 DEF Keys
  <2>11. wloc[n][v] = Unset /\ n # Unset
    BY <1>0, <2>2 DEF MoveOf, Unset
  <2>12. ASSUME NEW u \in VMs, NEW m \in Nodes, wrow'[n][<<u, m>>].st = "migrated"
         PROVE  m # n /\ wloc'[n][u] = n
    <3>1. CASE <<u, m>> = <<v, n>>
      BY <2>8, <2>12, <3>1
    <3>2. CASE <<u, m>> = <<v, old>>
      BY <2>2, <2>5, <2>9, <2>12, <3>2
    <3>3. CASE <<u, m>> \notin Touched(n)
      <4>1. m # n /\ wloc[n][u] = n
        BY <1>0, <2>10, <2>12, <3>3 DEF MoveOf
      <4> QED
        BY <2>5, <2>11, <4>1
    <3> QED
      BY <2>3, <3>1, <3>2, <3>3
  <2>13. \A u \in pend[n].seen : wrow'[n][<<u, n>>].st \in {"active", "pending_migration"}
    <3> SUFFICES ASSUME NEW u \in pend[n].seen, u # v
                 PROVE  wrow'[n][<<u, n>>].st \in {"active", "pending_migration"}
      BY <2>8
    <3>1. u \in VMs /\ <<u, n>> \notin Touched(n)
      BY <2>1, <2>3
    <3> QED
      BY <1>0, <2>1, <2>10, <3>1 DEF MoveOf
  <2>14. \A u \in todo[n] \ {v} : /\ wloc'[n][u] = Unset
                                 /\ \A m \in Nodes \ {n} : wrow'[n][<<u, m>>] = NoRow
    <3> SUFFICES ASSUME NEW u \in todo[n], u # v
                 PROVE  /\ wloc'[n][u] = Unset
                        /\ \A m \in Nodes \ {n} : wrow'[n][<<u, m>>] = NoRow
      OBVIOUS
    <3>1. u \in VMs /\ \A m \in Nodes : <<u, m>> \notin Touched(n)
      BY <1>0, <2>1, <2>3 DEF TxnOf
    <3> QED
      BY <1>0, <2>5, <2>10, <3>1 DEF MoveOf
  <2>15. sel'[n] = {}
    BY <1>0, <2>1 DEF TxnOf
  <2> QED
    BY <2>1, <2>12, <2>13, <2>14, <2>15 DEF MoveOf
<1>8. CASE SelectPurge(n)
  <2>1. /\ pc[n] = "moving" /\ pc'[n] = "purging" /\ sel'[n] = Purgeable(n)
        /\ UNCHANGED <<pend, wrow, wloc, todo>>
    BY <1>0, <1>8 DEF SelectPurge, TypeOK
  <2>2. \A k \in Purgeable(n) : wrow[n][k] # NoRow => wrow[n][k].st = "migrated"
    BY DEF Purgeable, SeenRow
  <2> QED
    BY <1>0, <2>1, <2>2 DEF MoveOf
<1>9. CASE auto_purge_migrated_vms(n)
  <2>1. /\ pc[n] = "purging" /\ pc'[n] = "commit" /\ sel'[n] = {}
        /\ UNCHANGED <<pend, wloc, todo>>
    BY <1>0, <1>9 DEF auto_purge_migrated_vms, TypeOK
  <2>2. wrow'[n] = [k \in Keys |-> IF k \in sel[n] THEN Purged(SeenRow(n, k))
                                                  ELSE wrow[n][k]]
    BY <1>0, <1>9 DEF auto_purge_migrated_vms, TypeOK
  <2>3. \A k \in Keys : Purged(SeenRow(n, k)).st # "migrated"
    BY <1>0, SeenTypes, RowEffects
  <2>4. ASSUME NEW k \in Keys, wrow'[n][k].st = "migrated"
        PROVE  wrow[n][k].st = "migrated"
    BY <2>2, <2>3, <2>4
  <2>5. todo[n] = {} /\ pend[n].seen \subseteq VMs
        /\ \A v \in VMs, m \in Nodes : <<v, m>> \in Keys
    BY <1>0, <2>1 DEF TxnOf, Keys, Payload
  <2>6. ASSUME NEW v \in pend[n].seen
        PROVE  wrow'[n][<<v, n>>].st \in {"active", "pending_migration"}
    <3>1. wrow[n][<<v, n>>].st \in {"active", "pending_migration"}
      BY <1>0, <2>1 DEF MoveOf
    <3>2. <<v, n>> \notin sel[n]
      BY <1>0, <3>1 DEF MoveOf, NoRow
    <3> QED
      BY <2>2, <2>5, <3>1, <3>2
  <2> QED
    BY <1>0, <2>1, <2>4, <2>5, <2>6 DEF MoveOf
<1>10. CASE Commit(n) \/ push_v5058r4_deadlock_retry(n)
  <2>1. /\ pc'[n] = "idle" /\ \A k \in Keys : wrow'[n][k] = NoRow
        /\ todo'[n] = {} /\ sel'[n] = {}
    BY <1>0, <1>10 DEF Commit, push_v5058r4_deadlock_retry, TypeOK, TxnOf
  <2> QED
    BY <2>1 DEF MoveOf, NoRow, Keys
<1>11. CASE Tick
  BY <1>0, <1>1, <1>11 DEF Tick
<1>12. ASSUME NEW m \in Nodes, CollectAll(m) \/ CollectSome(m) PROVE MoveOf(n)'
  <2>1. pend[m] = NoPayload /\ UNCHANGED txn /\ \A x \in Nodes : x # m => pend'[x] = pend[x]
    BY <1>12 DEF CollectAll, CollectSome, Collect, TypeOK
  <2>2. pc[n] # "idle" => pend'[n] = pend[n]
    BY <1>0, <2>1 DEF TxnOf, Payload, NoPayload, Null
  <2> QED
    BY <1>1, <2>1, <2>2
<1>13. CASE WebSelect \/ WebPurge
  <2>1. n # Web
    BY DEF Web
  <2> QED
    BY <1>0, <1>1, <1>13, <2>1 DEF WebSelect, WebPurge, TypeOK
<1>14. ASSUME UNCHANGED <<pend, txn>> PROVE MoveOf(n)'
  BY <1>1, <1>14
<1>15. ASSUME NEW v \in VMs, NEW m \in Nodes,
              Appear(v, m) \/ Vanish(v, m) \/ admin_delete_vm(v, m)
              \/ admin_restore_vm(v, m) \/ purge_vm_data(v)
       PROVE  MoveOf(n)'
  BY <1>14, <1>15
     DEF Appear, Vanish, admin_delete_vm, admin_restore_vm, SetInventory, purge_vm_data
<1>16. CASE UNCHANGED vars
  BY <1>14, <1>16 DEF vars
<1>17. CASE \E v \in VMs : purge_vm_data(v)
  BY <1>14, <1>17 DEF purge_vm_data
<1> HIDE DEF db, txn
<1> QED
  BY <1>2, <1>3, <1>4, <1>5, <1>6, <1>7, <1>8, <1>9, <1>10, <1>11, <1>12,
     <1>13, <1>15, <1>16, <1>17 DEF Next, PushStep

\* What a commit makes of a row and a location.
LEMMA CommitEffect ==
    ASSUME TypeOK, NEW n \in Nodes, Commit(n)
    PROVE  /\ \A k \in Keys :
               row'[k] = IF wrow[n][k] # NoRow THEN wrow[n][k] ELSE row[k]
           /\ \A v \in VMs :
               loc'[v] = IF wloc[n][v] # Unset THEN wloc[n][v] ELSE loc[v]
           /\ \A v \in VMs, m \in Nodes : <<v, m>> \in Keys
  BY DEF Commit, SeenRow, SeenLoc, Keys

\* What the other steps do to the committed rows and locations.
LEMMA RowSteps ==
    ASSUME TypeOK, [Next]_vars
    PROVE  \/ UNCHANGED db
           \/ Tick
           \/ \E n \in Nodes : Commit(n)
           \/ WebPurge
           \/ \E v \in VMs, n \in Nodes : admin_delete_vm(v, n) \/ admin_restore_vm(v, n)
           \/ \E v \in VMs : purge_vm_data(v)
<1> USE DEF db, txn
<1>1. \A n \in Nodes : PushStep(n) => Commit(n) \/ UNCHANGED db
  BY DEF PushStep, process_node_vm_presence, SelectMoved, LocateSeen, ReadLocation,
         create_or_update_location, SelectPurge, auto_purge_migrated_vms,
         push_v5058r4_deadlock_retry
<1>2. \A n \in Nodes : CollectAll(n) \/ CollectSome(n) => UNCHANGED db
  BY DEF CollectAll, CollectSome, Collect
<1>3. WebSelect => UNCHANGED db
  BY DEF WebSelect
<1>4. \A v \in VMs, n \in Nodes : Appear(v, n) \/ Vanish(v, n) => UNCHANGED db
  BY DEF Appear, Vanish
<1>5. UNCHANGED vars => UNCHANGED db
  BY DEF vars
<1> HIDE DEF db, txn
<1> QED
  BY <1>1, <1>2, <1>3, <1>4, <1>5 DEF Next

\* A tick and an administrator leave every status, and the locations.
LEMMA StatusKept ==
    ASSUME TypeOK, NEW k \in Keys,
           \/ Tick
           \/ \E v \in VMs, n \in Nodes : admin_delete_vm(v, n) \/ admin_restore_vm(v, n)
    PROVE  row'[k].st = row[k].st /\ loc' = loc
<1> DEFINE r == row[k]
<1>0. r \in Row
  BY DEF TypeOK
<1>1. CASE Tick
  <2>1. row'[k] = [r EXCEPT !.since = Older(@, SinceCap), !.mig = Older(@, PurgeAge)]
    BY <1>1 DEF Tick
  <2> HIDE DEF r
  <2>2. row'[k].st = r.st
    BY <1>0, <2>1 DEF Row
  <2> QED
    BY <1>1, <2>2 DEF Tick, r
<1>2. ASSUME NEW v \in VMs, NEW n \in Nodes, NEW s, SetInventory(v, n, s)
      PROVE  row'[k].st = row[k].st /\ loc' = loc
  <2> DEFINE j == <<v, n>>
             q == row[j]
  <2>1. j \in Keys /\ q \in Row /\ row' = [row EXCEPT ![j] = [q EXCEPT !.inv = s]]
    BY <1>2 DEF SetInventory, TypeOK, Keys
  <2>2. j = k => q = r
    OBVIOUS
  <2>3. k # j => row'[k] = r
    <3> HIDE DEF j
    <3> QED
      BY <2>1 DEF TypeOK
  <2>4. j = k => row'[k] = [q EXCEPT !.inv = s]
    <3> HIDE DEF j, q
    <3> QED
      BY <2>1 DEF TypeOK
  <2> HIDE DEF j, q, r
  <2>5. [q EXCEPT !.inv = s].st = q.st
    BY <2>1 DEF Row
  <2> QED
    BY <1>2, <2>2, <2>3, <2>4, <2>5 DEF SetInventory, r
<1> QED
  BY <1>1, <1>2 DEF admin_delete_vm, admin_restore_vm

\* Both rows of a move, and the location, change in one commit.
LEMMA ElsewhereStep ==
    TypeOK /\ TxnInv /\ HoldInv /\ MoveInv /\ [Next]_vars => MigratedIsElsewhere'
<1> SUFFICES ASSUME TypeOK, TxnInv, HoldInv, MoveInv, [Next]_vars,
                    NEW v \in VMs, NEW m \in Nodes, row'[<<v, m>>].st = "migrated"
             PROVE  loc'[v] # m
  BY DEF MigratedIsElsewhere
<1> DEFINE k == <<v, m>>
<1>0. k \in Keys /\ (row[k].st = "migrated" => loc[v] # m)
  BY DEF Keys, MoveInv, MigratedIsElsewhere
<1>1. CASE UNCHANGED db
  BY <1>0, <1>1 DEF db
<1>2. ASSUME NEW n \in Nodes, Commit(n) PROVE loc'[v] # m
  <2>1. /\ row'[k] = IF wrow[n][k] # NoRow THEN wrow[n][k] ELSE row[k]
        /\ loc'[v] = IF wloc[n][v] # Unset THEN wloc[n][v] ELSE loc[v]
    BY <1>0, <1>2, CommitEffect
  <2>2. CASE wrow[n][k] # NoRow
    <3>1. m # n /\ wloc[n][v] = n
      BY <2>1, <2>2 DEF MoveInv, MoveOf
    <3> QED
      BY <2>1, <3>1 DEF Unset
  <2>3. CASE wrow[n][k] = NoRow
    <3>1. loc[v] # m
      BY <1>0, <2>1, <2>3
    <3>2. wloc[n][v] # Unset => wrow[n][<<v, n>>] # NoRow
      BY DEF TxnInv, TxnOf
    <3>3. wloc[n][v] \notin {Unset, n} => wloc[n][v] = loc[v]
      BY DEF HoldInv
    <3> QED
      BY <2>1, <2>3, <3>1, <3>2, <3>3
  <2> QED
    BY <2>2, <2>3
<1>3. CASE \/ Tick
           \/ \E u \in VMs, n \in Nodes : admin_delete_vm(u, n) \/ admin_restore_vm(u, n)
  BY <1>0, <1>3, StatusKept
<1>4. CASE WebPurge
  <2>1. row'[k] \in {row[k], Purged(row[k])} /\ loc' = loc
    BY <1>0, <1>4 DEF WebPurge
  <2>2. Purged(row[k]).st # "migrated"
    <3>1. row[k] \in Row
      BY <1>0 DEF TypeOK
    <3> HIDE DEF k
    <3> QED
      BY <3>1, RowEffects
  <2> QED
    BY <1>0, <2>1, <2>2
<1>5. ASSUME NEW u \in VMs, purge_vm_data(u) PROVE loc'[v] # m
  <2>1. row'[k] = (IF u = v THEN Absent ELSE row[k]) /\ loc' = [loc EXCEPT ![u] = "none"]
    BY <1>0, <1>5 DEF purge_vm_data
  <2> QED
    BY <1>0, <2>1 DEF TypeOK, Absent
<1> QED
  BY <1>1, <1>2, <1>3, <1>4, <1>5, RowSteps

-----------------------------------------------------------------------------
(* Hidden VMs.                                                             *)

\* No transaction writes a hidden VM's row other than hidden.
LEMMA HiddenInvStep ==
    TypeOK /\ TxnInv /\ HoldInv /\ HiddenInv /\ [Next]_vars => HiddenInv'
<1> SUFFICES ASSUME TypeOK, TxnInv, HoldInv, HiddenInv, [Next]_vars,
                    NEW n \in Nodes, NEW k \in Keys,
                    wrow'[n][k] # NoRow, row'[k].inv = "hidden"
             PROVE  wrow'[n][k].inv = "hidden"
  BY DEF HiddenInv
<1> USE DEF db, txn
<1>0. /\ TxnOf(n) /\ n \in Actors /\ n # Web /\ row[k] \in Row
      /\ SeenRow(n, k) \in Row
      /\ wrow[n][k] # NoRow /\ row[k].inv = "hidden" => wrow[n][k].inv = "hidden"
  BY SeenTypes DEF TxnInv, Actors, Web, TypeOK, HiddenInv
<1>1. ASSUME wrow'[n] = wrow[n], wrow[n][k] # NoRow => row'[k] = row[k]
      PROVE  wrow'[n][k].inv = "hidden"
  BY <1>0, <1>1
<1>2. ASSUME NEW m \in Nodes, m # n, PushStep(m) PROVE wrow'[n][k].inv = "hidden"
  <2>1. wrow'[n] = wrow[n]
    BY <1>0, <1>2, OthersStay
  <2>2. Commit(m) /\ wrow[n][k] # NoRow => row'[k] = row[k]
    <3>1. wrow[n][k] # NoRow => wrow[m][k] = NoRow
      BY <1>2 DEF HoldInv, Actors
    <3> QED
      BY <3>1, CommitEffect
  <2>3. row' = row \/ Commit(m)
    BY <1>2 DEF PushStep, process_node_vm_presence, SelectMoved, LocateSeen,
                ReadLocation, create_or_update_location, SelectPurge,
                auto_purge_migrated_vms, push_v5058r4_deadlock_retry
  <2> QED
    BY <1>1, <2>1, <2>2, <2>3
<1>3. CASE process_node_vm_presence(n)
  <2>1. /\ pend[n] \in Payload /\ row' = row
        /\ wrow'[n][k] \in {Reported(row[k]), Missed(row[k], pend[n].age), NoRow}
    BY <1>0, <1>3 DEF process_node_vm_presence, TypeOK
  <2>2. pend[n].age \in 0..MaxDelay
    BY <2>1 DEF Payload
  <2> QED
    BY <1>0, <2>1, <2>2, RowEffects
<1>4. CASE create_or_update_location(n)
  <2>1. pend[n].age \in 0..MaxDelay /\ row' = row
    BY <1>0, <1>4 DEF create_or_update_location, TypeOK, TxnOf, Payload
  <2>2. wrow'[n][k] \in {NewRow(n, k), wrow[n][k]}
    BY <1>0, <1>4 DEF create_or_update_location, TypeOK
  <2>3. SeenRow(n, k).inv = "hidden"
    BY <1>0, <2>1 DEF SeenRow
  <2>4. NewRow(n, k).inv = "hidden"
    BY <1>0, <2>1, <2>3, RowEffects DEF NewRow, Statuses
  <2> QED
    BY <1>0, <2>1, <2>2, <2>4
<1>5. CASE auto_purge_migrated_vms(n)
  <2>1. wrow'[n][k] \in {Purged(SeenRow(n, k)), wrow[n][k]} /\ row' = row
    BY <1>0, <1>5 DEF auto_purge_migrated_vms, TypeOK
  <2>2. SeenRow(n, k).inv = "hidden"
    BY <1>0, <2>1 DEF SeenRow
  <2>3. Purged(SeenRow(n, k)).inv = "hidden"
    BY <1>0, <2>2, RowEffects
  <2> QED
    BY <1>0, <2>1, <2>3
<1>6. CASE Commit(n) \/ push_v5058r4_deadlock_retry(n)
  <2>1. wrow'[n][k] = NoRow
    BY <1>0, <1>6 DEF Commit, push_v5058r4_deadlock_retry, TypeOK
  <2> QED
    BY <2>1
<1>7. CASE SelectMoved(n) \/ LocateSeen(n) \/ ReadLocation(n) \/ SelectPurge(n)
  BY <1>1, <1>7 DEF SelectMoved, LocateSeen, ReadLocation, SelectPurge
<1>8. CASE Tick
  <2>1. wrow[n][k] = NoRow /\ wrow' = wrow
    BY <1>0, <1>8 DEF Tick, TxnOf
  <2> QED
    BY <2>1
<1>9. CASE WebPurge
  <2>1. wrow[n][k] # NoRow => k \notin sel[Web]
    BY <1>0, <1>9 DEF WebPurge, Free, RowsHeld
  <2> QED
    BY <1>1, <1>9, <2>1 DEF WebPurge
<1>10. ASSUME NEW v \in VMs, Unlocked(v) PROVE k[1] = v => wrow[n][k] = NoRow
  BY <1>0, <1>10 DEF Unlocked, RowsHeld, Keys
<1>11. ASSUME NEW v \in VMs, NEW m \in Nodes, NEW s, SetInventory(v, m, s)
       PROVE  wrow'[n][k].inv = "hidden"
  <2> DEFINE j == <<v, m>>
  <2>1. j[1] = v /\ Unlocked(v) /\ wrow' = wrow
    BY <1>11 DEF SetInventory
  <2>2. row' = [row EXCEPT ![j].inv = s]
    BY <1>11 DEF SetInventory
  <2> HIDE DEF j
  <2>3. k # j => row'[k] = row[k]
    BY <2>2 DEF TypeOK
  <2> QED
    BY <1>1, <1>10, <2>1, <2>3
<1>12. ASSUME NEW v \in VMs, purge_vm_data(v) PROVE wrow'[n][k].inv = "hidden"
  <2>1. /\ Unlocked(v) /\ wrow' = wrow
        /\ row'[k] = IF k[1] = v THEN Absent ELSE row[k]
    BY <1>12 DEF purge_vm_data
  <2> QED
    BY <1>1, <1>10, <2>1
<1>13. CASE WebSelect \/ UNCHANGED vars
  BY <1>1, <1>13 DEF WebSelect, vars
<1>14. ASSUME NEW m \in Nodes, NEW v \in VMs,
              CollectAll(m) \/ CollectSome(m) \/ Appear(v, m) \/ Vanish(v, m)
       PROVE  wrow'[n][k].inv = "hidden"
  BY <1>1, <1>14 DEF CollectAll, CollectSome, Collect, Appear, Vanish
<1>15. ASSUME NEW m \in Nodes, CollectAll(m) \/ CollectSome(m)
       PROVE  wrow'[n][k].inv = "hidden"
  BY <1>1, <1>15 DEF CollectAll, CollectSome, Collect
<1> HIDE DEF db, txn
<1> QED
  BY <1>2, <1>3, <1>4, <1>5, <1>6, <1>7, <1>8, <1>9, <1>11, <1>12, <1>13,
     <1>14, <1>15 DEF Next, PushStep, admin_delete_vm, admin_restore_vm

\* A row of a hidden VM changes only to another hidden one, or by an
\* administrator's hand.
LEMMA HiddenStep ==
    TypeOK /\ TxnInv /\ HoldInv /\ HiddenInv /\ [Next]_vars => HiddenKept
<1> SUFFICES ASSUME TypeOK, HiddenInv, [Next]_vars, NEW v \in VMs, NEW n \in Nodes,
                    row[<<v, n>>].inv = "hidden", row'[<<v, n>>].inv # "hidden"
             PROVE  admin_restore_vm(v, n) \/ purge_vm_data(v)
  BY DEF HiddenKept
<1> DEFINE k == <<v, n>>
<1>0. k \in Keys /\ row[k] \in Row
  BY DEF Keys, TypeOK
<1>1. CASE UNCHANGED db
  BY <1>1 DEF db
<1>2. CASE Tick
  <2> DEFINE r == row[k]
  <2>1. row'[k] = [r EXCEPT !.since = Older(@, SinceCap), !.mig = Older(@, PurgeAge)]
    BY <1>0, <1>2 DEF Tick
  <2>2. r \in Row
    BY <1>0
  <2> HIDE DEF r
  <2>3. row'[k].inv = r.inv
    BY <2>1, <2>2 DEF Row
  <2> QED
    BY <2>3 DEF r
<1>3. ASSUME NEW m \in Nodes, Commit(m) PROVE FALSE
  <2>1. row'[k] = IF wrow[m][k] # NoRow THEN wrow[m][k] ELSE row[k]
    BY <1>0, <1>3, CommitEffect
  <2>2. wrow[m][k] # NoRow => wrow[m][k].inv = "hidden"
    BY <1>0 DEF HiddenInv
  <2> QED
    BY <2>1, <2>2
<1>4. CASE WebPurge
  <2>1. row'[k] \in {row[k], Purged(row[k])}
    BY <1>0, <1>4 DEF WebPurge
  <2>2. Purged(row[k]).inv = "hidden"
    <3>1. row[k].inv = "hidden"
      OBVIOUS
    <3> HIDE DEF k
    <3> QED
      BY <1>0, <3>1, RowEffects
  <2> QED
    BY <2>1, <2>2
<1>5. ASSUME NEW u \in VMs, NEW m \in Nodes, admin_delete_vm(u, m) \/ admin_restore_vm(u, m)
      PROVE  admin_restore_vm(v, n)
  <2> DEFINE j == <<u, m>>
             s == IF admin_delete_vm(u, m) THEN "hidden" ELSE "active"
             q == row[j]
  <2>1. SetInventory(u, m, s)
    BY <1>5 DEF admin_delete_vm, admin_restore_vm
  <2>2. row' = [row EXCEPT ![j] = [q EXCEPT !.inv = s]] /\ j \in Keys
    BY <2>1 DEF SetInventory, Keys
  <2>3. q \in Row
    BY <2>2 DEF TypeOK
  <2>4. k # j => row'[k] = row[k]
    <3> HIDE DEF j, q, s
    <3> QED
      BY <1>0, <2>2 DEF TypeOK
  <2>5. row'[j].inv = s
    <3> HIDE DEF j, q, s
    <3>1. row'[j] = [q EXCEPT !.inv = s]
      BY <2>2 DEF TypeOK
    <3> QED
      BY <2>3, <3>1 DEF Row
  <2>6. k = j /\ s # "hidden"
    BY <2>4, <2>5
  <2> QED
    BY <1>5, <2>6
<1>6. ASSUME NEW u \in VMs, purge_vm_data(u) PROVE purge_vm_data(v)
  <2>1. row'[k] = IF u = v THEN Absent ELSE row[k]
    BY <1>0, <1>6 DEF purge_vm_data
  <2> QED
    BY <1>6, <2>1
<1> QED
  BY <1>1, <1>2, <1>3, <1>4, <1>5, <1>6, RowSteps

-----------------------------------------------------------------------------
(* Any number of requests at once.                                         *)

PresenceInv == TypeOK /\ TxnInv /\ HoldInv /\ MoveInv /\ HiddenInv

\* Nothing is written or selected at first.
LEMMA PresenceInit == Init => PresenceInv
<1> SUFFICES ASSUME Init PROVE PresenceInv
  OBVIOUS
<1>1. TypeOK
  BY TypeInit
<1>2. /\ \A a \in Actors : /\ pc[a] = "idle" /\ sel[a] = {}
                           /\ \A k \in Keys : wrow[a][k] = NoRow
                           /\ \A v \in VMs : wloc[a][v] = Unset
      /\ \A n \in Nodes : todo[n] = {} /\ dec[n] = NoDec
      /\ \A v \in VMs : loc[v] = "none"
  BY DEF Init
<1>3. Web \in Actors /\ \A n \in Nodes : n \in Actors
  BY DEF Actors
<1>4. TxnInv /\ HoldInv
  BY <1>2, <1>3 DEF TxnInv, TxnOfWeb, TxnOf, HoldInv
<1>5. HiddenInv
  BY <1>2, <1>3 DEF HiddenInv
<1>6. MigratedIsElsewhere
  BY <1>2 DEF MigratedIsElsewhere
<1>7. \A v \in VMs, m \in Nodes : <<v, m>> \in Keys
  BY DEF Keys
<1>8. \A n \in Nodes : MoveOf(n)
  BY <1>2, <1>3, <1>7 DEF MoveOf, NoRow
<1> QED
  BY <1>1, <1>4, <1>5, <1>6, <1>8 DEF PresenceInv, MoveInv

\* Every step keeps the invariant, moves whole VMs and keeps the hidden ones.
LEMMA PresenceStep == PresenceInv /\ [Next]_vars => PresenceInv' /\ HiddenKept
  BY TypeStep, TxnStep, HoldStep, MoveStep, ElsewhereStep, HiddenInvStep, HiddenStep
     DEF PresenceInv, MoveInv

\* The tables, transactions and decisions always have their types: whatever the
\* pushes of other nodes do between process_node_vm_presence and the commit, a
\* transaction's decision is about a VM located on a known node.
THEOREM PresenceTypes == Spec => []TypeOK
<1>1. PresenceInv => TypeOK
  BY DEF PresenceInv
<1> QED
  BY <1>1, PresenceInit, PresenceStep, PTL DEF Spec

\* _create_or_update_location: a VM that migrated away from a node is located on
\* another one, with any number of overlapping pushes, node pages and
\* administrators; both rows and the location change in one commit.
THEOREM MovedIsElsewhere == Spec => []MigratedIsElsewhere
<1>1. PresenceInv => MigratedIsElsewhere
  BY DEF PresenceInv, MoveInv
<1> QED
  BY <1>1, PresenceInit, PresenceStep, PTL DEF Spec

\* No push, missing mark, move or purge brings back a VM that an administrator
\* has hidden, with any number of requests at once: vm_inventory.status stays
\* hidden until admin_restore_vm or purge_vm_data.
THEOREM HiddenIsKept == Spec => HiddenStays
  BY PresenceInit, PresenceStep, PTL DEF Spec, HiddenStays

-----------------------------------------------------------------------------
(* One request at a time.                                                  *)

Gone == {"missing", "migrated", "purged"}
Dead == {"none", "migrated", "purged"}

\* At most one transaction is open.
Alone == \A a, b \in Actors : pc[a] # "idle" /\ pc[b] # "idle" => a = b

\* What a transaction sees and has written fits together: the location it sees
\* has a live row, it declares gone only what was missed before, and it purges
\* what has migrated (or what an administrator has deleted since).
SerialOf(a) ==
    /\ \A v \in VMs, m \in Nodes :
        SeenLoc(a, v) = m => SeenRow(a, <<v, m>>).st \notin Dead
    /\ \A k \in Keys :
        wrow[a][k].st \in {"migrated", "purged"} => row[k].st \in Gone
    /\ \A k \in sel[a] : SeenRow(a, k).st \in {"migrated", "none"}

\* A confirmed move is still confirmed.
DecOf(n) ==
    dec[n] # NoDec /\ dec[n].confirmed => row[<<dec[n].vm, dec[n].old>>].st \in Gone

SerialInv ==
    /\ LocatedIsLive /\ Alone
    /\ \A a \in Actors : SerialOf(a)
    /\ \A n \in Nodes : DecOf(n)

\* The one worker starts a request when no other one is open.
LEMMA StartsAlone ==
    ASSUME Slots = 1, IsFiniteSet(Nodes), NEW a \in Actors, MayStart(a)
    PROVE  \A b \in Actors : pc[b] = "idle"
<1> DEFINE busy == {b \in Actors : pc[b] # "idle"}
<1>1. IsFiniteSet(Actors)
  BY FS_AddElement DEF Actors
<1>2. IsFiniteSet(busy) /\ Cardinality(busy) \in Nat
  BY <1>1, FS_Subset, FS_CardinalityType
<1>3. Cardinality(busy) < 1
  BY DEF MayStart
<1>4. busy = {}
  <2> HIDE DEF busy
  <2> QED
    BY <1>2, <1>3, FS_EmptySet
<1> QED
  BY <1>4

\* An actor without a transaction sees the committed rows.
LEMMA IdleSees ==
    ASSUME TxnInv, NEW a \in Actors, pc[a] = "idle"
    PROVE  /\ \A k \in Keys : wrow[a][k] = NoRow /\ SeenRow(a, k) = row[k]
           /\ \A v \in VMs : wloc[a][v] = Unset /\ SeenLoc(a, v) = loc[v]
           /\ sel[a] = {}
           /\ a \in Nodes => dec[a] = NoDec
           /\ LocatedIsLive => SerialOf(a)
           /\ a \in Nodes => DecOf(a)
<1>1. /\ \A k \in Keys : wrow[a][k] = NoRow
      /\ \A v \in VMs : wloc[a][v] = Unset
      /\ sel[a] = {}
      /\ a \in Nodes => dec[a] = NoDec
  BY DEF TxnInv, TxnOf, TxnOfWeb, Actors
<1>2. /\ \A k \in Keys : SeenRow(a, k) = row[k]
      /\ \A v \in VMs : SeenLoc(a, v) = loc[v]
  BY <1>1 DEF SeenRow, SeenLoc
<1>3. \A v \in VMs, m \in Nodes : <<v, m>> \in Keys
  BY DEF Keys
<1>4. LocatedIsLive => SerialOf(a)
  <2> SUFFICES ASSUME LocatedIsLive PROVE SerialOf(a)
    OBVIOUS
  <2>1. ASSUME NEW v \in VMs, NEW m \in Nodes, SeenLoc(a, v) = m
        PROVE  SeenRow(a, <<v, m>>).st \notin Dead
    <3>1. row[<<v, m>>].st \notin Dead
      BY <1>2, <2>1 DEF LocatedIsLive, Dead
    <3>2. SeenRow(a, <<v, m>>) = row[<<v, m>>]
      BY <1>2, <1>3
    <3> QED
      BY <3>1, <3>2
  <2>2. \A k \in Keys : wrow[a][k].st \notin {"migrated", "purged"}
    BY <1>1 DEF NoRow
  <2> QED
    BY <1>1, <2>1, <2>2 DEF SerialOf
<1>5. a \in Nodes => DecOf(a)
  BY <1>1 DEF DecOf
<1> QED
  BY <1>1, <1>2, <1>4, <1>5

\* With one worker, requests follow each other.
LEMMA AloneStep ==
    ASSUME Slots = 1, IsFiniteSet(Nodes), TypeOK, TxnInv, Alone, [Next]_vars
    PROVE  Alone'
<1> USE DEF db, txn
<1>0. Web \in Actors /\ \A n \in Nodes : n \in Actors /\ n # Web
  BY DEF Actors, Web
<1>1. ASSUME \A b \in Actors : pc'[b] # "idle" => pc[b] # "idle" PROVE Alone'
  BY <1>1 DEF Alone, Actors
<1>2. ASSUME NEW a \in Actors, MayStart(a), \A b \in Actors : b # a => pc'[b] = pc[b]
      PROVE  Alone'
  <2>1. \A b \in Actors : b # a => pc'[b] = "idle"
    BY <1>2, StartsAlone
  <2> QED
    BY <2>1 DEF Alone, Actors
<1>3. ASSUME NEW n \in Nodes, PushStep(n) PROVE Alone'
  <2>1. \A b \in Actors : b # n => pc'[b] = pc[b]
    BY <1>3, OthersStay
  <2>2. CASE process_node_vm_presence(n)
    BY <1>0, <1>2, <2>1, <2>2 DEF process_node_vm_presence
  <2>3. CASE SelectMoved(n) \/ LocateSeen(n) \/ ReadLocation(n)
             \/ create_or_update_location(n) \/ SelectPurge(n)
             \/ auto_purge_migrated_vms(n)
    <3>1. pc[n] # "idle"
      BY <2>3 DEF SelectMoved, LocateSeen, ReadLocation, create_or_update_location,
                  SelectPurge, auto_purge_migrated_vms
    <3> QED
      BY <1>1, <2>1, <3>1
  <2>4. CASE Commit(n) \/ push_v5058r4_deadlock_retry(n)
    <3>1. pc'[n] = "idle"
      BY <1>0, <2>4 DEF Commit, push_v5058r4_deadlock_retry, TypeOK
    <3> QED
      BY <1>1, <2>1, <3>1
  <2> QED
    BY <1>3, <2>2, <2>3, <2>4 DEF PushStep
<1>4. CASE WebSelect
  BY <1>0, <1>2, <1>4 DEF WebSelect, TypeOK
<1>5. CASE WebPurge
  BY <1>0, <1>1, <1>5 DEF WebPurge, TypeOK
<1>6. ASSUME UNCHANGED pc PROVE Alone'
  BY <1>1, <1>6
<1>7. CASE Tick \/ UNCHANGED vars
  BY <1>6, <1>7 DEF Tick, vars
<1>8. ASSUME NEW n \in Nodes, CollectAll(n) \/ CollectSome(n) PROVE Alone'
  BY <1>6, <1>8 DEF CollectAll, CollectSome, Collect
<1>9. ASSUME NEW v \in VMs, NEW n \in Nodes,
             Appear(v, n) \/ Vanish(v, n) \/ admin_delete_vm(v, n) \/ admin_restore_vm(v, n)
      PROVE  Alone'
  BY <1>6, <1>9 DEF Appear, Vanish, admin_delete_vm, admin_restore_vm, SetInventory
<1>10. ASSUME NEW v \in VMs, purge_vm_data(v) PROVE Alone'
  BY <1>6, <1>10 DEF purge_vm_data
<1> HIDE DEF db, txn
<1> QED
  BY <1>3, <1>4, <1>5, <1>7, <1>8, <1>9, <1>10 DEF Next

\* A push that does not commit keeps its own view in order, and leaves the
\* views of the others.
LEMMA SerialPush ==
    ASSUME Slots = 1, IsFiniteSet(Nodes), TypeOK, TxnInv, MoveInv, SerialInv,
           NEW n \in Nodes, PushStep(n), ~Commit(n), MoveOf(n)'
    PROVE  SerialOf(n)' /\ DecOf(n)' /\ UNCHANGED db
<1> USE DEF db
<1>0. /\ n \in Actors /\ TxnOf(n) /\ MoveOf(n) /\ SerialOf(n) /\ DecOf(n)
      /\ LocatedIsLive
      /\ \A v \in VMs, m \in Nodes : <<v, m>> \in Keys
  BY DEF Actors, TxnInv, MoveInv, SerialInv, Keys
<1>1. CASE process_node_vm_presence(n)
  <2>1. /\ pend[n].age \in 0..MaxDelay /\ MayStart(n) /\ UNCHANGED <<row, loc>>
        /\ wloc'[n] = wloc[n] /\ sel'[n] = sel[n] /\ dec'[n] = dec[n]
    BY <1>0, <1>1 DEF process_node_vm_presence, TypeOK, Payload
  <2>2. pc[n] = "idle"
    BY <2>1 DEF MayStart
  <2>3. /\ \A v \in VMs : wloc[n][v] = Unset
        /\ sel[n] = {} /\ dec[n] = NoDec
    BY <1>0, <2>2 DEF TxnOf
  <2>4. wrow'[n] = [k \in Keys |->
                      CASE k[2] = n /\ k[1] \in pend[n].seen -> Reported(row[k])
                        [] k[2] = n /\ k[1] \in MarkMissing(n)
                           -> Missed(row[k], pend[n].age)
                        [] OTHER -> NoRow]
    BY <1>0, <1>1 DEF process_node_vm_presence, TypeOK
  <2>5. \A k \in Keys : k[1] \in pend[n].seen => k[1] \notin MarkMissing(n)
    BY DEF MarkMissing
  <2>6. ASSUME NEW k \in Keys
        PROVE  \/ wrow'[n][k] = NoRow
               \/ wrow'[n][k].st = "active"
               \/ k[2] = n /\ k[1] \in MarkMissing(n)
                  /\ wrow'[n][k] = Missed(row[k], pend[n].age)
    <3>1. \/ wrow'[n][k] = NoRow
          \/ wrow'[n][k] = Reported(row[k])
          \/ k[2] = n /\ k[1] \in MarkMissing(n)
             /\ wrow'[n][k] = Missed(row[k], pend[n].age)
      BY <2>4, <2>5
    <3>2. row[k] \in Row
      BY DEF TypeOK
    <3>3. Reported(row[k]).st = "active"
      BY <3>2, RowEffects
    <3> QED
      BY <3>1, <3>3
  <2>7. ASSUME NEW v \in MarkMissing(n)
        PROVE  Missed(row[<<v, n>>], pend[n].age).st = "missing"
    <3>1. v \in VMs /\ row[<<v, n>>].st # "none"
      BY <2>7 DEF MarkMissing
    <3>2. row[<<v, n>>] \in Row
      BY <1>0, <3>1 DEF TypeOK
    <3> QED
      BY <2>1, <3>1, <3>2, RowEffects
  <2>8. ASSUME NEW k \in Keys
        PROVE  wrow'[n][k] = NoRow \/ wrow'[n][k].st \in {"active", "missing"}
    <3>1. k[2] = n => k = <<k[1], n>>
      BY DEF Keys
    <3> QED
      BY <2>6, <2>7, <3>1
  <2>9. ASSUME NEW v \in VMs, NEW m \in Nodes, SeenLoc(n, v)' = m
        PROVE  SeenRow(n, <<v, m>>)'.st \notin Dead
    <3>1. loc[v] = m
      BY <2>1, <2>3, <2>9 DEF SeenLoc
    <3>2. row[<<v, m>>].st \notin Dead
      BY <1>0, <3>1 DEF LocatedIsLive, Dead
    <3>3. wrow'[n][<<v, m>>] = NoRow \/ wrow'[n][<<v, m>>].st \in {"active", "missing"}
      BY <1>0, <2>8
    <3> QED
      BY <2>1, <3>2, <3>3 DEF SeenRow, Dead
  <2>10. \A k \in Keys : wrow'[n][k].st \notin {"migrated", "purged"}
    BY <2>8 DEF NoRow
  <2> QED
    BY <2>1, <2>3, <2>9, <2>10 DEF SerialOf, DecOf
<1>2. CASE SelectMoved(n)
  <2>1. UNCHANGED <<row, loc, wrow, wloc, sel, dec>>
    BY <1>2 DEF SelectMoved
  <2> QED
    BY <1>0, <2>1 DEF SerialOf, DecOf, SeenRow, SeenLoc
<1>3. CASE LocateSeen(n)
  <2>1. /\ UNCHANGED <<row, loc, wrow, sel, dec, pend>> /\ pc[n] = "selected"
        /\ wloc'[n] = [v \in VMs |-> IF v \in Here(n) THEN n ELSE Unset]
    BY <1>0, <1>3 DEF LocateSeen, TypeOK
  <2>2. \A v \in VMs : SeenLoc(n, v) = loc[v]
    BY <1>0, <2>1 DEF TxnOf, SeenLoc
  <2>3. \A k \in Keys : SeenRow(n, k)' = SeenRow(n, k)
    BY <2>1 DEF SeenRow
  <2>4. ASSUME NEW v \in VMs, NEW m \in Nodes, SeenLoc(n, v)' = m
        PROVE  SeenRow(n, <<v, m>>)'.st \notin Dead
    <3>1. CASE v \in Here(n)
      <4>1. m = n /\ v \in pend[n].seen
        BY <2>1, <2>4, <3>1 DEF SeenLoc, Here, Unset
      <4>2. wrow[n][<<v, n>>].st \in {"active", "pending_migration"}
        BY <1>0, <2>1, <4>1 DEF MoveOf
      <4>3. SeenRow(n, <<v, n>>)' = wrow[n][<<v, n>>]
        BY <2>1, <4>2 DEF SeenRow, NoRow
      <4> QED
        BY <4>1, <4>2, <4>3 DEF Dead
    <3>2. CASE v \notin Here(n)
      <4>1. SeenLoc(n, v) = m
        BY <2>1, <2>2, <2>4, <3>2 DEF SeenLoc
      <4> QED
        BY <1>0, <2>3, <4>1 DEF SerialOf
    <3> QED
      BY <3>1, <3>2
  <2>5. \A k \in sel'[n] : SeenRow(n, k)'.st \in {"migrated", "none"}
    BY <1>0, <2>1, <2>3 DEF SerialOf, TypeOK
  <2>6. \A k \in Keys :
           wrow'[n][k].st \in {"migrated", "purged"} => row'[k].st \in Gone
    BY <1>0, <2>1 DEF SerialOf
  <2>7. DecOf(n)'
    BY <1>0, <2>1 DEF DecOf
  <2> QED
    BY <2>1, <2>4, <2>5, <2>6, <2>7 DEF SerialOf
<1>4. CASE ReadLocation(n)
  <2> DEFINE v == First(todo[n])
             old == loc[v]
  <2>1. /\ UNCHANGED <<row, loc, wrow, wloc, sel>> /\ todo[n] # {}
        /\ dec'[n] = [vm |-> v, old |-> old,
                      confirmed |-> old_node_missing_enough(SeenRow(n, <<v, old>>),
                                                            pend[n].age)]
    BY <1>4 DEF ReadLocation, TypeOK
  <2>2. v \in todo[n] /\ v \in VMs
    <3>1. todo[n] \in SUBSET Nat /\ todo[n] \in SUBSET VMs
      BY DEF TypeOK
    <3> QED
      BY <2>1, <3>1, LeastOf DEF First
  <2> HIDE DEF v
  <2>3. old \in Nodes \ {n}
    BY <1>0, <2>2 DEF TxnOf, TypeOK
  <2>4. SeenRow(n, <<v, old>>) = row[<<v, old>>]
    BY <1>0, <2>2, <2>3 DEF MoveOf, SeenRow
  <2>5. old_node_missing_enough(SeenRow(n, <<v, old>>), pend[n].age)
        => row[<<v, old>>].st \in Gone
    BY <2>4 DEF old_node_missing_enough, Gone
  <2> HIDE DEF old
  <2>6. DecOf(n)'
    BY <2>1, <2>5 DEF DecOf
  <2>7. SerialOf(n)'
    BY <1>0, <2>1 DEF SerialOf, SeenRow, SeenLoc
  <2> QED
    BY <2>1, <2>6, <2>7
<1>5. CASE create_or_update_location(n)
  <2> DEFINE v == dec[n].vm
             old == dec[n].old
  <2>1. /\ pc[n] = "moving" /\ pc'[n] = "moving" /\ pend[n].age \in 0..MaxDelay
        /\ dec[n] # NoDec /\ UNCHANGED <<pend, row, loc, sel>> /\ dec'[n] = NoDec
        /\ sel[n] = {}
    BY <1>0, <1>5 DEF create_or_update_location, TypeOK, TxnOf, Payload
  <2>2. /\ v \in todo[n] /\ v \in VMs /\ v \in pend[n].seen
        /\ old \in Nodes /\ loc[v] \in Nodes \ {n}
    BY <1>0, <2>1 DEF TxnOf, TypeOK
  <2>3. Touched(n) = {<<v, old>>, <<v, n>>}
    BY DEF Touched
  <2>4. wrow'[n] = [k \in Keys |-> IF k \in Touched(n) THEN NewRow(n, k) ELSE wrow[n][k]]
    BY <1>0, <1>5 DEF create_or_update_location, TypeOK
  <2>5. \A u \in VMs : wloc'[n][u] = IF u = v THEN IF dec[n].confirmed THEN n ELSE loc[v]
                                               ELSE wloc[n][u]
    BY <1>0, <1>5 DEF create_or_update_location, TypeOK
  <2>6. <<v, old>> \in Keys /\ <<v, n>> \in Keys
    BY <2>2 DEF Keys
  <2>7. SeenLoc(n, v) = loc[v]
    BY <1>0, <2>2 DEF MoveOf, SeenLoc
  <2>8. wrow'[n][<<v, n>>].st \in {"active", "pending_migration"}
    BY <2>1, <2>2 DEF MoveOf
  <2>9. dec[n].confirmed => row[<<v, old>>].st \in Gone
    BY <1>0, <2>1 DEF DecOf
  <2> HIDE DEF v, old
  <2>10. \A k \in Keys : k \notin Touched(n) =>
            wrow'[n][k] = wrow[n][k] /\ SeenRow(n, k)' = SeenRow(n, k)
    BY <2>1, <2>4 DEF SeenRow
  <2>11. ASSUME NEW k \in Touched(n), ~dec[n].confirmed
         PROVE  /\ wrow'[n][k].st \in {"pending_migration", "none"}
                /\ SeenRow(n, k)' = wrow'[n][k]
                /\ SeenRow(n, k).st # "none" => wrow'[n][k].st = "pending_migration"
    <3>1. k \in Keys
      BY <2>3, <2>6
    <3>2. SeenRow(n, k) \in Row
      BY <1>0, <3>1, SeenTypes
    <3>3. wrow'[n][k] = Change(SeenRow(n, k), "pending_migration")
      <4>1. wrow'[n][k] = NewRow(n, k)
        BY <2>4, <3>1
      <4>2. NewRow(n, k) = Change(SeenRow(n, k), "pending_migration")
        BY <2>11 DEF NewRow
      <4> QED
        BY <4>1, <4>2
    <3>4. /\ wrow'[n][k].st \in {"pending_migration", "none"}
          /\ SeenRow(n, k).st # "none" => wrow'[n][k].st = "pending_migration"
      BY <3>2, <3>3, RowEffects DEF Statuses
    <3>5. SeenRow(n, k)' = wrow'[n][k]
      BY <3>4 DEF SeenRow, NoRow
    <3> QED
      BY <3>4, <3>5
  <2>12. ASSUME NEW u \in VMs, NEW m \in Nodes, SeenLoc(n, u)' = m
         PROVE  SeenRow(n, <<u, m>>)'.st \notin Dead
    <3> DEFINE k == <<u, m>>
    <3>0. k \in Keys
      BY <1>0
    <3>1. CASE u # v
      <4>1. k \notin Touched(n) /\ wloc'[n][u] = wloc[n][u]
        BY <2>3, <2>5, <3>1
      <4>2. SeenLoc(n, u) = m
        BY <2>1, <2>12, <4>1 DEF SeenLoc
      <4>3. SeenRow(n, k).st \notin Dead
        BY <1>0, <4>2 DEF SerialOf
      <4>4. SeenRow(n, k)' = SeenRow(n, k)
        BY <2>10, <3>0, <4>1
      <4> QED
        BY <4>3, <4>4
    <3>2. CASE u = v /\ dec[n].confirmed
      <4>1. m = n
        BY <2>5, <2>12, <3>2 DEF SeenLoc, Unset
      <4> QED
        BY <2>8, <3>2, <4>1 DEF SeenRow, NoRow, Dead
    <3>3. CASE u = v /\ ~dec[n].confirmed
      <4>1. m = loc[v]
        BY <2>1, <2>2, <2>5, <2>12, <3>3 DEF SeenLoc
      <4>2. SeenRow(n, k).st \notin Dead
        BY <1>0, <2>7, <3>3, <4>1 DEF SerialOf
      <4>3. CASE k \in Touched(n)
        <5> HIDE DEF k
        <5>1. SeenRow(n, k)'.st = "pending_migration"
          BY <2>11, <3>3, <4>2, <4>3 DEF Dead
        <5> QED
          BY <5>1 DEF k, Dead
      <4>4. CASE k \notin Touched(n)
        <5>1. SeenRow(n, k)' = SeenRow(n, k)
          BY <2>10, <3>0, <4>4
        <5> QED
          BY <4>2, <5>1
      <4> QED
        BY <4>3, <4>4
    <3> QED
      BY <3>1, <3>2, <3>3
  <2>13. ASSUME NEW k \in Keys, wrow'[n][k].st \in {"migrated", "purged"}
         PROVE  row'[k].st \in Gone
    <3>1. CASE k \notin Touched(n)
      BY <1>0, <2>1, <2>10, <2>13, <3>1 DEF SerialOf
    <3>2. CASE k \in Touched(n)
      <4>1. dec[n].confirmed
        BY <2>11, <2>13, <3>2
      <4>2. k # <<v, n>>
        BY <2>8, <2>13
      <4> QED
        BY <2>1, <2>3, <2>9, <3>2, <4>1, <4>2
    <3> QED
      BY <3>1, <3>2
  <2>14. SerialOf(n)'
    BY <2>1, <2>12, <2>13 DEF SerialOf
  <2>15. DecOf(n)'
    BY <2>1 DEF DecOf
  <2> QED
    BY <2>1, <2>14, <2>15
<1>6. CASE SelectPurge(n)
  <2>1. UNCHANGED <<row, loc, wrow, wloc, dec>> /\ sel'[n] = Purgeable(n)
    BY <1>0, <1>6 DEF SelectPurge, TypeOK
  <2>2. /\ \A k \in Keys : SeenRow(n, k)' = SeenRow(n, k)
        /\ \A v \in VMs : SeenLoc(n, v)' = SeenLoc(n, v)
    BY <2>1 DEF SeenRow, SeenLoc
  <2>3. \A k \in sel'[n] : SeenRow(n, k)'.st \in {"migrated", "none"}
    BY <2>1, <2>2 DEF Purgeable
  <2>4. ASSUME NEW v \in VMs, NEW m \in Nodes, SeenLoc(n, v)' = m
        PROVE  SeenRow(n, <<v, m>>)'.st \notin Dead
    BY <1>0, <2>2, <2>4 DEF SerialOf
  <2>5. \A k \in Keys :
           wrow'[n][k].st \in {"migrated", "purged"} => row'[k].st \in Gone
    BY <1>0, <2>1 DEF SerialOf
  <2>6. DecOf(n)'
    BY <1>0, <2>1 DEF DecOf
  <2> QED
    BY <2>1, <2>3, <2>4, <2>5, <2>6 DEF SerialOf
<1>7. CASE auto_purge_migrated_vms(n)
  <2>1. /\ UNCHANGED <<row, loc, wloc, dec>> /\ sel'[n] = {}
        /\ wrow'[n] = [k \in Keys |-> IF k \in sel[n] THEN Purged(SeenRow(n, k))
                                                     ELSE wrow[n][k]]
    BY <1>0, <1>7 DEF auto_purge_migrated_vms, TypeOK
  <2>2. \A k \in Keys : k \notin sel[n] =>
           wrow'[n][k] = wrow[n][k] /\ SeenRow(n, k)' = SeenRow(n, k)
    BY <2>1 DEF SeenRow
  <2>3. ASSUME NEW v \in VMs, NEW m \in Nodes, SeenLoc(n, v)' = m
        PROVE  SeenRow(n, <<v, m>>)'.st \notin Dead
    <3> DEFINE k == <<v, m>>
    <3>1. SeenLoc(n, v) = m
      BY <2>1, <2>3 DEF SeenLoc
    <3>2. k \in Keys /\ SeenRow(n, k).st \notin Dead
      BY <1>0, <3>1 DEF SerialOf
    <3>3. k \notin sel[n]
      <4> HIDE DEF k
      <4> QED
        BY <1>0, <3>2 DEF SerialOf, Dead
    <3> HIDE DEF k
    <3>4. SeenRow(n, k)'.st \notin Dead
      BY <2>2, <3>2, <3>3
    <3> QED
      BY <3>4 DEF k
  <2>4. ASSUME NEW k \in Keys, wrow'[n][k].st \in {"migrated", "purged"}
        PROVE  row'[k].st \in Gone
    <3>1. CASE k \notin sel[n]
      BY <1>0, <2>1, <2>2, <2>4, <3>1 DEF SerialOf
    <3>2. CASE k \in sel[n]
      <4>1. SeenRow(n, k) \in Row
        BY <1>0, SeenTypes
      <4>2. SeenRow(n, k).st # "none"
        <5>1. wrow'[n][k] = Purged(SeenRow(n, k))
          BY <2>1, <3>2
        <5> QED
          BY <2>4, <4>1, <5>1, RowEffects
      <4>3. SeenRow(n, k).st = "migrated"
        BY <1>0, <3>2, <4>2 DEF SerialOf
      <4> QED
        BY <1>0, <2>1, <4>3 DEF SerialOf, SeenRow, Gone
    <3> QED
      BY <3>1, <3>2
  <2>5. DecOf(n)'
    BY <1>0, <2>1 DEF DecOf
  <2> QED
    BY <2>1, <2>3, <2>4, <2>5 DEF SerialOf
<1>8. CASE push_v5058r4_deadlock_retry(n)
  <2>1. /\ UNCHANGED <<row, loc>> /\ sel'[n] = {} /\ dec'[n] = NoDec
        /\ \A k \in Keys : wrow'[n][k] = NoRow
        /\ \A v \in VMs : wloc'[n][v] = Unset
    BY <1>0, <1>8 DEF push_v5058r4_deadlock_retry, TypeOK
  <2>2. /\ \A k \in Keys : SeenRow(n, k)' = row[k]
        /\ \A v \in VMs : SeenLoc(n, v)' = loc[v]
    BY <2>1 DEF SeenRow, SeenLoc
  <2>3. ASSUME NEW v \in VMs, NEW m \in Nodes, SeenLoc(n, v)' = m
        PROVE  SeenRow(n, <<v, m>>)'.st \notin Dead
    <3>1. row[<<v, m>>].st \notin Dead
      BY <1>0, <2>2, <2>3 DEF LocatedIsLive, Dead
    <3>2. SeenRow(n, <<v, m>>)' = row[<<v, m>>]
      BY <1>0, <2>2
    <3> QED
      BY <3>1, <3>2
  <2>4. \A k \in Keys : wrow'[n][k].st \notin {"migrated", "purged"}
    BY <2>1 DEF NoRow
  <2> QED
    BY <2>1, <2>3, <2>4 DEF SerialOf, DecOf
<1> HIDE DEF db
<1> QED
  BY <1>1, <1>2, <1>3, <1>4, <1>5, <1>6, <1>7, <1>8 DEF PushStep

\* When only one actor is busy and it stops, the committed rows are what all see.
LEMMA AllSee ==
    ASSUME TxnInv, LocatedIsLive, \A a \in Actors : pc[a] = "idle"
    PROVE  /\ \A a \in Actors : SerialOf(a)
           /\ \A n \in Nodes : DecOf(n)
  BY IdleSees DEF Actors

\* With one worker, every step keeps locations on live rows, and no row that its
\* own node has not missed is declared gone.
LEMMA SerialStep ==
    ASSUME Slots = 1, IsFiniteSet(Nodes), PresenceInv, PresenceInv', SerialInv, [Next]_vars
    PROVE  SerialInv' /\ ReportedKept
<1> USE DEF db, txn
<1>0. /\ TypeOK /\ TxnInv /\ TxnInv' /\ MoveInv /\ Alone' /\ LocatedIsLive /\ Alone
      /\ \A n \in Nodes : MoveOf(n)' /\ n \in Actors /\ n # Web /\ DecOf(n)
      /\ \A a \in Actors : SerialOf(a)
      /\ Web \in Actors
      /\ \A v \in VMs, m \in Nodes : <<v, m>> \in Keys
  BY AloneStep DEF PresenceInv, MoveInv, SerialInv, Actors, Web, Keys
<1>1. ASSUME UNCHANGED db, \A a \in Actors : SerialOf(a)', \A n \in Nodes : DecOf(n)'
      PROVE  SerialInv' /\ ReportedKept
  BY <1>0, <1>1 DEF SerialInv, LocatedIsLive, ReportedKept, Actors
\* Nobody holds anything after the step.
<1>2. ASSUME \A a \in Actors : pc'[a] = "idle", LocatedIsLive'
      PROVE  SerialInv'
  <2>1. ASSUME NEW a \in Actors
        PROVE  /\ \A k \in Keys : wrow'[a][k] = NoRow
               /\ \A v \in VMs : wloc'[a][v] = Unset
               /\ sel'[a] = {}
               /\ a \in Nodes => dec'[a] = NoDec
    BY <1>0, <1>2 DEF TxnInv, TxnOf, TxnOfWeb, Actors
  <2>2. ASSUME NEW a \in Actors PROVE SerialOf(a)'
    <3>1. /\ \A k \in Keys : SeenRow(a, k)' = row'[k]
          /\ \A v \in VMs : SeenLoc(a, v)' = loc'[v]
      BY <2>1 DEF SeenRow, SeenLoc
    <3>2. ASSUME NEW v \in VMs, NEW m \in Nodes, SeenLoc(a, v)' = m
          PROVE  SeenRow(a, <<v, m>>)'.st \notin Dead
      <4>1. row'[<<v, m>>].st \notin Dead
        BY <1>2, <3>1, <3>2 DEF LocatedIsLive, Dead
      <4>2. SeenRow(a, <<v, m>>)' = row'[<<v, m>>]
        BY <1>0, <3>1
      <4> QED
        BY <4>1, <4>2
    <3>3. \A k \in Keys : wrow'[a][k].st \notin {"migrated", "purged"}
      BY <2>1 DEF NoRow
    <3> QED
      BY <2>1, <3>2, <3>3 DEF SerialOf
  <2>3. \A n \in Nodes : DecOf(n)'
    BY <1>0, <2>1 DEF DecOf
  <2> QED
    BY <1>0, <1>2, <2>2, <2>3 DEF SerialInv
<1>3. ASSUME NEW n \in Nodes, PushStep(n), ~Commit(n) PROVE SerialInv' /\ ReportedKept
  <2>1. SerialOf(n)' /\ DecOf(n)' /\ UNCHANGED db
    BY <1>0, <1>3, SerialPush
  <2>2. ASSUME NEW a \in Actors, a # n PROVE SerialOf(a)'
    <3>1. wrow'[a] = wrow[a] /\ wloc'[a] = wloc[a] /\ sel'[a] = sel[a]
          /\ UNCHANGED <<row, loc>>
      BY <1>0, <1>3, <2>1, <2>2, OthersStay
    <3> QED
      BY <1>0, <3>1 DEF SerialOf, SeenRow, SeenLoc
  <2>3. ASSUME NEW m \in Nodes, m # n PROVE DecOf(m)'
    <3>1. dec'[m] = dec[m] /\ row' = row
      BY <1>0, <1>3, <2>1, <2>3, OthersStay
    <3> QED
      BY <1>0, <3>1 DEF DecOf
  <2> QED
    BY <1>1, <2>1, <2>2, <2>3
<1>4. ASSUME NEW n \in Nodes, Commit(n) PROVE SerialInv' /\ ReportedKept
  <2>1. \A a \in Actors : pc'[a] = "idle"
    <3>1. pc[n] = "commit" /\ pc' = [pc EXCEPT ![n] = "idle"]
      BY <1>4 DEF Commit
    <3> QED
      BY <1>0, <3>1 DEF Alone, TypeOK
  <2>2. /\ \A k \in Keys : row'[k] = SeenRow(n, k)
        /\ \A v \in VMs : loc'[v] = SeenLoc(n, v)
    BY <1>4 DEF Commit
  <2>3. LocatedIsLive'
    <3> SUFFICES ASSUME NEW v \in VMs, NEW m \in Nodes, loc'[v] = m
                 PROVE  row'[<<v, m>>].st \notin Dead
      BY DEF LocatedIsLive, Dead
    <3>1. SeenRow(n, <<v, m>>).st \notin Dead
      BY <1>0, <2>2 DEF SerialOf
    <3> QED
      BY <1>0, <2>2, <3>1
  <2>4. ReportedKept
    <3> SUFFICES ASSUME NEW k \in Keys, row[k].st \in {"active", "pending_migration"},
                        row'[k].st \in {"migrated", "purged"}
                 PROVE  FALSE
      BY DEF ReportedKept
    <3>1. row'[k] = wrow[n][k]
      BY <2>2 DEF SeenRow
    <3> QED
      BY <1>0, <3>1 DEF SerialOf, Gone
  <2> QED
    BY <1>2, <2>1, <2>3, <2>4
<1>5. CASE Tick
  <2>1. /\ \A a \in Actors : pc'[a] = "idle"
        /\ \A k \in Keys : row'[k].st = row[k].st /\ loc' = loc
    BY <1>0, <1>5, StatusKept DEF Tick
  <2>2. loc' = loc
    BY <1>5 DEF Tick
  <2>3. LocatedIsLive'
    BY <1>0, <2>1, <2>2 DEF LocatedIsLive
  <2>4. ReportedKept
    BY <2>1 DEF ReportedKept
  <2> QED
    BY <1>2, <2>1, <2>3, <2>4
<1>6. CASE WebSelect
  <2>1. /\ \A a \in Actors : pc[a] = "idle"
        /\ UNCHANGED <<row, loc, wrow, wloc, dec>>
        /\ sel' = [sel EXCEPT ![Web] = Purgeable(Web)]
    BY <1>0, <1>6, StartsAlone DEF WebSelect
  <2>2. \A a \in Actors : /\ \A k \in Keys : SeenRow(a, k)' = SeenRow(a, k)
                          /\ \A v \in VMs : SeenLoc(a, v)' = SeenLoc(a, v)
    BY <2>1 DEF SeenRow, SeenLoc
  <2>3. ASSUME NEW a \in Actors PROVE SerialOf(a)'
    <3>1. sel'[a] = sel[a] \/ sel'[a] = Purgeable(a)
      BY <1>0, <2>1 DEF TypeOK
    <3>2. sel[a] \subseteq Keys /\ Purgeable(a) \subseteq Keys
      BY <1>0 DEF TypeOK, Purgeable
    <3>3. \A k \in sel'[a] : SeenRow(a, k)'.st \in {"migrated", "none"}
      BY <1>0, <2>2, <3>1, <3>2 DEF SerialOf, Purgeable
    <3>4. \A k \in Keys :
             wrow'[a][k].st \in {"migrated", "purged"} => row'[k].st \in Gone
      BY <1>0, <2>1 DEF SerialOf
    <3>5. \A v \in VMs, m \in Nodes :
             SeenLoc(a, v)' = m => SeenRow(a, <<v, m>>)'.st \notin Dead
      BY <1>0, <2>2 DEF SerialOf
    <3> QED
      BY <3>3, <3>4, <3>5 DEF SerialOf
  <2>4. \A n \in Nodes : DecOf(n)'
    BY <1>0, <2>1 DEF DecOf
  <2> QED
    BY <1>1, <2>1, <2>3, <2>4
<1>7. CASE WebPurge
  <2>1. \A a \in Actors : pc'[a] = "idle"
    <3>1. pc[Web] = "purging" /\ pc' = [pc EXCEPT ![Web] = "idle"]
      BY <1>7 DEF WebPurge
    <3> QED
      BY <1>0, <3>1 DEF Alone, TypeOK
  <2>2. \A k \in Keys : SeenRow(Web, k) = row[k]
    BY <1>0 DEF TxnInv, TxnOfWeb, SeenRow
  <2>3. \A k \in sel[Web] : k \in Keys /\ row[k].st \in {"migrated", "none"}
    BY <1>0, <2>2 DEF SerialOf, TypeOK
  <2>4. \A k \in Keys : row'[k] = IF k \in sel[Web] THEN Purged(row[k]) ELSE row[k]
    BY <1>7 DEF WebPurge
  <2>5. \A k \in Keys : row'[k] = row[k] \/ row[k].st \in {"migrated", "none"}
    BY <2>3, <2>4
  <2>6. loc' = loc
    BY <1>7 DEF WebPurge
  <2>7. LocatedIsLive'
    <3> SUFFICES ASSUME NEW v \in VMs, NEW m \in Nodes, loc[v] = m
                 PROVE  row'[<<v, m>>].st \notin Dead
      BY <2>6 DEF LocatedIsLive, Dead
    <3>1. row[<<v, m>>].st \notin Dead
      BY <1>0 DEF LocatedIsLive, Dead
    <3>2. row'[<<v, m>>] = row[<<v, m>>]
      BY <1>0, <2>5, <3>1 DEF Dead
    <3> QED
      BY <3>1, <3>2
  <2>8. ReportedKept
    BY <2>5 DEF ReportedKept
  <2> QED
    BY <1>2, <2>1, <2>7, <2>8
\* Statuses, locations and transactions stay.
<1>8. ASSUME UNCHANGED <<loc, txn>>, \A k \in Keys : row'[k].st = row[k].st
      PROVE  SerialInv' /\ ReportedKept
  <2>1. ASSUME NEW a \in Actors
        PROVE  /\ \A k \in Keys : SeenRow(a, k)'.st = SeenRow(a, k).st
               /\ \A v \in VMs : SeenLoc(a, v)' = SeenLoc(a, v)
    BY <1>8 DEF SeenRow, SeenLoc
  <2>2. ASSUME NEW a \in Actors PROVE SerialOf(a)'
    <3>1. \A k \in sel'[a] : SeenRow(a, k)'.st \in {"migrated", "none"}
      BY <1>0, <1>8, <2>1, ZenonT(40) DEF SerialOf, TypeOK
    <3>2. \A v \in VMs, m \in Nodes :
             SeenLoc(a, v)' = m => SeenRow(a, <<v, m>>)'.st \notin Dead
      BY <1>0, <2>1 DEF SerialOf
    <3>3. \A k \in Keys :
             wrow'[a][k].st \in {"migrated", "purged"} => row'[k].st \in Gone
      BY <1>0, <1>8 DEF SerialOf
    <3> QED
      BY <3>1, <3>2, <3>3 DEF SerialOf
  <2>3. ASSUME NEW n \in Nodes PROVE DecOf(n)'
    <3>1. dec[n] # NoDec => <<dec[n].vm, dec[n].old>> \in Keys
      BY <1>0 DEF TypeOK
    <3> QED
      BY <1>0, <1>8, <3>1 DEF DecOf
  <2>4. LocatedIsLive'
    BY <1>0, <1>8 DEF LocatedIsLive
  <2>5. ReportedKept
    BY <1>8 DEF ReportedKept
  <2> QED
    BY <1>0, <2>2, <2>3, <2>4, <2>5 DEF SerialInv
<1>9. ASSUME NEW v \in VMs, NEW n \in Nodes, admin_delete_vm(v, n) \/ admin_restore_vm(v, n)
      PROVE  SerialInv' /\ ReportedKept
  <2>1. UNCHANGED <<loc, txn>>
    BY <1>9 DEF admin_delete_vm, admin_restore_vm, SetInventory
  <2>2. \A k \in Keys : row'[k].st = row[k].st
    BY <1>0, <1>9, StatusKept
  <2> QED
    BY <1>8, <2>1, <2>2
<1>10. ASSUME NEW v \in VMs, purge_vm_data(v) PROVE SerialInv' /\ ReportedKept
  <2>1. /\ UNCHANGED txn /\ loc' = [loc EXCEPT ![v] = "none"]
        /\ \A k \in Keys : row'[k] = IF k[1] = v THEN Absent ELSE row[k]
    BY <1>10 DEF purge_vm_data
  <2>2. \A a \in Actors : /\ wloc[a][v] = Unset
                          /\ \A k \in Keys : k[1] = v => wrow[a][k] = NoRow
    <3> SUFFICES ASSUME NEW a \in Actors
                 PROVE  /\ wloc[a][v] = Unset
                        /\ \A k \in Keys : k[1] = v => wrow[a][k] = NoRow
      OBVIOUS
    <3>1. v \notin LocsHeld(a) /\ \A m \in Nodes : <<v, m>> \notin RowsHeld(a)
      BY <1>10 DEF purge_vm_data, Unlocked
    <3> QED
      BY <3>1 DEF LocsHeld, RowsHeld, Keys
  <2>3. /\ \A u \in VMs : loc'[u] = IF u = v THEN "none" ELSE loc[u]
        /\ "none" \notin Nodes
        /\ \A u \in VMs, m \in Nodes : <<u, m>> \in Keys /\ <<u, m>>[1] = u
    BY <1>0, <2>1 DEF TypeOK
  <2>4. ASSUME NEW a \in Actors, NEW u \in VMs, NEW m \in Nodes, SeenLoc(a, u)' = m
        PROVE  SeenRow(a, <<u, m>>)'.st \notin Dead
    <3>1. u # v
      BY <2>1, <2>2, <2>3, <2>4 DEF SeenLoc
    <3>2. SeenLoc(a, u) = m
      BY <2>1, <2>3, <2>4, <3>1 DEF SeenLoc
    <3>3. SeenRow(a, <<u, m>>)' = SeenRow(a, <<u, m>>)
      BY <2>1, <2>3, <3>1 DEF SeenRow
    <3> QED
      BY <1>0, <3>2, <3>3 DEF SerialOf
  <2>5. ASSUME NEW a \in Actors, NEW k \in Keys, wrow'[a][k].st \in {"migrated", "purged"}
        PROVE  row'[k].st \in Gone
    <3>1. k[1] # v
      BY <2>1, <2>2, <2>5 DEF NoRow
    <3> QED
      BY <1>0, <2>1, <2>5, <3>1 DEF SerialOf
  <2>6. ASSUME NEW a \in Actors, NEW k \in sel'[a]
        PROVE  SeenRow(a, k)'.st \in {"migrated", "none"}
    <3>1. k \in sel[a] /\ k \in Keys
      BY <1>0, <2>1 DEF TypeOK
    <3>2. CASE k[1] = v
      BY <2>1, <2>2, <3>1, <3>2 DEF SeenRow, Absent
    <3>3. CASE k[1] # v
      <4>1. SeenRow(a, k)' = SeenRow(a, k)
        BY <2>1, <3>1, <3>3 DEF SeenRow
      <4> QED
        BY <1>0, <3>1, <4>1 DEF SerialOf
    <3> QED
      BY <3>2, <3>3
  <2>7. ASSUME NEW n \in Nodes PROVE DecOf(n)'
    <3>1. dec[n] # NoDec =>
            /\ dec[n].vm # v /\ dec[n].vm \in VMs /\ dec[n].old \in Nodes
      <4> SUFFICES ASSUME dec[n] # NoDec
                   PROVE  dec[n].vm # v /\ dec[n].vm \in VMs /\ dec[n].old \in Nodes
        OBVIOUS
      <4>1. dec[n].vm \in VMs /\ dec[n].old \in Nodes
        BY <1>0 DEF TypeOK
      <4>2. wrow[n][<<dec[n].vm, n>>] # NoRow
        BY <1>0 DEF TxnInv, TxnOf
      <4> QED
        BY <1>0, <2>2, <2>3, <4>1, <4>2
    <3> QED
      BY <1>0, <2>1, <2>3, <3>1 DEF DecOf
  <2>8. LocatedIsLive'
    <3> SUFFICES ASSUME NEW u \in VMs, NEW m \in Nodes, loc'[u] = m
                 PROVE  row'[<<u, m>>].st \notin Dead
      BY DEF LocatedIsLive, Dead
    <3>1. u # v /\ loc[u] = m
      BY <2>3
    <3>2. row[<<u, m>>].st \notin Dead
      BY <1>0, <3>1 DEF LocatedIsLive, Dead
    <3> QED
      BY <2>1, <2>3, <3>1, <3>2
  <2>9. ReportedKept
    BY <2>1 DEF ReportedKept, Absent
  <2> QED
    BY <1>0, <2>4, <2>5, <2>6, <2>7, <2>8, <2>9 DEF SerialInv, SerialOf
<1>11. ASSUME UNCHANGED <<db, txn>> PROVE SerialInv' /\ ReportedKept
  BY <1>8, <1>11
<1>12. ASSUME NEW v \in VMs, NEW n \in Nodes, Appear(v, n) \/ Vanish(v, n)
       PROVE  SerialInv' /\ ReportedKept
  BY <1>11, <1>12 DEF Appear, Vanish
<1>13. ASSUME NEW n \in Nodes, CollectAll(n) \/ CollectSome(n)
       PROVE  SerialInv' /\ ReportedKept
  BY <1>11, <1>13 DEF CollectAll, CollectSome, Collect
<1>14. CASE UNCHANGED vars
  BY <1>11, <1>14 DEF vars
<1> HIDE DEF db, txn
<1> QED
  BY <1>3, <1>4, <1>5, <1>6, <1>7, <1>9, <1>10, <1>12, <1>13, <1>14 DEF Next

\* No location is known and no transaction is open at first.
LEMMA SerialInit == Init => SerialInv
<1> SUFFICES ASSUME Init PROVE SerialInv
  OBVIOUS
<1>1. TxnInv
  BY PresenceInit DEF PresenceInv
<1>2. /\ \A a \in Actors : pc[a] = "idle"
      /\ \A v \in VMs : loc[v] = "none"
  BY DEF Init
<1>3. LocatedIsLive
  BY <1>2 DEF LocatedIsLive
<1> QED
  BY <1>1, <1>2, <1>3, AllSee DEF SerialInv, Alone

\* process_node_vm_presence and _create_or_update_location, run one at a time:
\* the location of a VM is a node that has a live row for it, never one it has
\* migrated away from or was purged from, whatever late payloads, partial
\* inventories, node pages and administrators do.
THEOREM LocatedOnLiveRow ==
    ASSUME Slots = 1, IsFiniteSet(Nodes)
    PROVE  Spec => []LocatedIsLive
<1>1. PresenceInv /\ PresenceInv' /\ SerialInv /\ [Next]_vars => SerialInv'
  BY SerialStep
<1>2. SerialInv => LocatedIsLive
  BY DEF SerialInv
<1> QED
  BY <1>1, <1>2, PresenceInit, SerialInit, PresenceStep, PTL DEF Spec

\* Run one at a time, no push declares a VM migrated or purged on a node whose
\* latest word is that it has it: the row is first missed by its own node.
THEOREM ReportedStays ==
    ASSUME Slots = 1, IsFiniteSet(Nodes)
    PROVE  Spec => ReportedIsKept
<1>1. PresenceInv /\ PresenceInv' /\ SerialInv /\ [Next]_vars
      => SerialInv' /\ ReportedKept
  BY SerialStep
<1> QED
  BY <1>1, PresenceInit, SerialInit, PresenceStep, PTL DEF Spec, ReportedIsKept
=============================================================================
