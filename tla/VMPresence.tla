------------------------------ MODULE VMPresence ------------------------------
(***************************************************************************)
(* Where the monitor believes each VM lives.  Every accepted push of a     *)
(* node refreshes the presence rows of the VMs it reports, marks the ones  *)
(* it no longer reports as missing, moves a VM's location to this node     *)
(* once the old node has missed it long enough, and purges the rows that   *)
(* migrated away long ago.  All of that is one PostgreSQL transaction per  *)
(* push, READ COMMITTED, serialised per node by an advisory lock;          *)
(* transactions of different nodes overlap, wait for each other's row      *)
(* locks and may deadlock.  Opening a node page purges too.                *)
(*                                                                         *)
(* One clock unit is one push cycle (300 s).  Timestamps are kept as ages, *)
(* cut off where no comparison can tell them apart any more.               *)
(***************************************************************************)
EXTENDS Integers, FiniteSets

CONSTANTS
    VMs,            \* VM uuids; their order is ORDER BY vm_uuid
    Nodes,          \* hypervisor nodes
    ConfirmPushes,  \* VM_MIGRATION_CONFIRM_PUSHES
    ConfirmAge,     \* VM_MIGRATION_CONFIRM_SECONDS, in cycles
    PurgeAge,       \* VM_MIGRATION_PURGE_SECONDS, in cycles
    Slots,          \* requests the web service runs at once: workers * threads
    Extras,         \* of "partial" inventories, the node "page", an "admin"
    MaxDelay,       \* bound: cycles a payload may wait at its Agent
    MaxActs         \* bound: VM moves and administrator acts

ASSUME PresenceAssumption ==
    /\ VMs \subseteq Nat
    /\ ConfirmPushes \in Nat \ {0} /\ ConfirmAge \in Nat \ {0}
    /\ PurgeAge \in Nat \ {0} /\ Slots \in Nat \ {0}
    /\ MaxDelay \in Nat /\ MaxActs \in Nat
    /\ Extras \subseteq {"partial", "page", "admin"}
    /\ {"web", "none", "unset"} \cap Nodes = {}

VARIABLES
    at,     \* at[v]: the nodes whose hypervisor lists v
    pend,   \* pend[n]: the payload n's Agent wants to deliver, or NoPayload
    fresh,  \* fresh[n]: n has collected in this cycle
    row,    \* row[v, n]: committed vm_node_presence and vm_inventory rows
    loc,    \* loc[v]: committed vm_location_latest.node, or "none"
    pc,     \* pc[a]: where actor a's transaction stands
    wrow,   \* wrow[a]: rows a has written and locked, NoRow elsewhere
    wloc,   \* wloc[a]: locations a has written and locked, Unset elsewhere
    todo,   \* todo[n]: reported VMs located elsewhere, not yet handled
    dec,    \* dec[n]: what n's transaction read about the first of them
    sel,    \* sel[a]: rows a's purge has selected
    acts    \* VM moves and administrator acts so far

vars == <<at, pend, fresh, row, loc, pc, wrow, wloc, todo, dec, sel, acts>>
db == <<row, loc>>
txn == <<pc, wrow, wloc, todo, dec, sel>>

Web == "web"
Actors == Nodes \cup {Web}
Keys == VMs \X Nodes

(***************************************************************************)
(* Values                                                                  *)
(***************************************************************************)
Null == -1
SinceCap == ConfirmAge + MaxDelay

Statuses == {"none", "active", "missing", "pending_migration", "migrated",
             "purged"}

\* st, since, count, mig: vm_node_presence.status, missing_since,
\* missing_count (only compared with ConfirmPushes) and migrated_at;
\* inv: vm_inventory.status of the same key.
Row == [st : Statuses, since : Null..SinceCap, count : 0..ConfirmPushes,
        mig : Null..PurgeAge, inv : Statuses \cup {"hidden"}]

Absent == [st |-> "none", since |-> Null, count |-> 0, mig |-> Null,
           inv |-> "none"]
NoRow == [st |-> "unlocked"]
Unset == "unset"

Payload == [age : 0..MaxDelay, seen : SUBSET VMs, full : BOOLEAN]
NoPayload == [age |-> Null]

NoDec == [vm |-> Null]

AtMost(x, cap) == IF x < cap THEN x ELSE cap
First(s) == CHOOSE v \in s : \A u \in s : v <= u

TypeOK ==
    /\ at \in [VMs -> SUBSET Nodes]
    /\ pend \in [Nodes -> Payload \cup {NoPayload}]
    /\ fresh \in [Nodes -> BOOLEAN]
    /\ row \in [Keys -> Row]
    /\ loc \in [VMs -> Nodes \cup {"none"}]
    /\ pc \in [Actors -> {"idle", "merged", "selected", "moving", "purging",
                       "commit"}]
    /\ wrow \in [Actors -> [Keys -> Row \cup {NoRow}]]
    /\ wloc \in [Actors -> [VMs -> Nodes \cup {Unset}]]
    /\ todo \in [Nodes -> SUBSET VMs]
    /\ dec \in [Nodes -> [vm : VMs, old : Nodes, confirmed : BOOLEAN]
                          \cup {NoDec}]
    /\ sel \in [Actors -> SUBSET Keys]
    /\ acts \in 0..MaxActs

(***************************************************************************)
(* Transactions.  A transaction reads its own writes and otherwise the     *)
(* committed rows; it may write a row that no other transaction has        *)
(* written.  An UPDATE changes the fields it names on the version it then  *)
(* finds, and nothing if the row is gone.                                  *)
(***************************************************************************)
SeenRow(a, k) == IF wrow[a][k] # NoRow THEN wrow[a][k] ELSE row[k]
SeenLoc(a, v) == IF wloc[a][v] # Unset THEN wloc[a][v] ELSE loc[v]

RowsHeld(a) == {k \in Keys : wrow[a][k] # NoRow}
LocsHeld(a) == {v \in VMs : wloc[a][v] # Unset}

Free(a, ks, vs) ==
    \A b \in Actors \ {a} : RowsHeld(b) \cap ks = {} /\ LocsHeld(b) \cap vs = {}

Unlocked(v) == \A a \in Actors :
    /\ v \notin LocsHeld(a)
    /\ \A n \in Nodes : <<v, n>> \notin RowsHeld(a)

MayStart(a) ==
    /\ pc[a] = "idle"
    /\ Cardinality({b \in Actors : pc[b] # "idle"}) < Slots

\* vm_inventory.status is overwritten unless an administrator hid the VM.
Invent(r, s) == IF r.inv = "hidden" THEN "hidden" ELSE s

Change(r, s) == IF r.st = "none" THEN r
                ELSE [r EXCEPT !.st = s, !.inv = Invent(r, s)]

Init ==
    /\ \E home \in [VMs -> Nodes] : at = [v \in VMs |-> {home[v]}]
    /\ pend = [n \in Nodes |-> NoPayload]
    /\ fresh = [n \in Nodes |-> FALSE]
    /\ row = [k \in Keys |-> Absent]
    /\ loc = [v \in VMs |-> "none"]
    /\ pc = [a \in Actors |-> "idle"]
    /\ wrow = [a \in Actors |-> [k \in Keys |-> NoRow]]
    /\ wloc = [a \in Actors |-> [v \in VMs |-> Unset]]
    /\ todo = [n \in Nodes |-> {}]
    /\ dec = [n \in Nodes |-> NoDec]
    /\ sel = [a \in Actors |-> {}]
    /\ acts = 0

(***************************************************************************)
(* The hypervisors, the clock and the Agents                               *)
(***************************************************************************)
\* A domain is started, or is the target of a live migration.
Appear(v, n) ==
    /\ acts < MaxActs /\ n \notin at[v]
    /\ at' = [at EXCEPT ![v] = @ \cup {n}]
    /\ acts' = acts + 1
    /\ UNCHANGED <<pend, fresh, db, txn>>

\* A domain is undefined, or was the source of a live migration.
Vanish(v, n) ==
    /\ acts < MaxActs /\ n \in at[v]
    /\ at' = [at EXCEPT ![v] = @ \ {n}]
    /\ acts' = acts + 1
    /\ UNCHANGED <<pend, fresh, db, txn>>

Older(x, cap) == IF x = Null THEN Null ELSE AtMost(x + 1, cap)

\* A cycle passes.  A transaction is over well within one.
Tick ==
    /\ \A a \in Actors : pc[a] = "idle"
    /\ \A n \in Nodes : pend[n].age < MaxDelay
    /\ row' = [k \in Keys |-> [row[k] EXCEPT !.since = Older(@, SinceCap),
                                            !.mig = Older(@, PurgeAge)]]
    /\ pend' = [n \in Nodes |-> IF pend[n] = NoPayload THEN NoPayload
                                ELSE [pend[n] EXCEPT !.age = @ + 1]]
    /\ fresh' = [n \in Nodes |-> FALSE]
    /\ UNCHANGED <<at, loc, txn, acts>>

\* The Agent holds one payload at a time and delivers it before it collects
\* the next one.
Collect(n, seen, full) ==
    /\ pend[n] = NoPayload /\ ~fresh[n]
    /\ pend' = [pend EXCEPT ![n] = [age |-> 0, seen |-> seen, full |-> full]]
    /\ fresh' = [fresh EXCEPT ![n] = TRUE]
    /\ UNCHANGED <<at, db, txn, acts>>

Listed(n) == {v \in VMs : n \in at[v]}

CollectAll(n) == Collect(n, Listed(n), TRUE)

\* virsh list failed, so inventory_complete is false; the payload still names the
\* VMs whose counters could be read.
CollectSome(n) ==
    "partial" \in Extras /\ \E s \in SUBSET Listed(n) : Collect(n, s, FALSE)

(***************************************************************************)
(* process_node_vm_presence: the rows of the pushing node                  *)
(***************************************************************************)
Reported(r) == [st |-> "active", since |-> Null, count |-> 0, mig |-> Null,
                inv |-> Invent(r, "active")]

\* Rows that are neither active nor pending_migration keep their count.
Missed(r, age) ==
    [Change(r, "missing") EXCEPT
        !.since = IF @ = Null THEN age ELSE @,
        !.count = AtMost(@ + 1, ConfirmPushes)]

\* Mutant: a VM whose migration is pending is never missed.
MarkMissingActive(n) ==
    IF pend[n].full
    THEN {v \in VMs \ pend[n].seen : row[v, n].st = "active"}
    ELSE {}

MarkMissing(n) ==
    IF pend[n].full
    THEN {v \in VMs \ pend[n].seen :
              row[v, n].st \in {"active", "pending_migration"}}
    ELSE {}

process_node_vm_presence(n) ==
    LET seen == pend[n].seen  gone == MarkMissing(n)
    IN  /\ MayStart(n) /\ pend[n] # NoPayload
        /\ Free(n, (seen \cup gone) \X {n}, {})
        /\ wrow' = [wrow EXCEPT ![n] = [k \in Keys |->
                CASE k[2] = n /\ k[1] \in seen -> Reported(row[k])
                  [] k[2] = n /\ k[1] \in gone -> Missed(row[k], pend[n].age)
                  [] OTHER -> NoRow]]
        /\ pc' = [pc EXCEPT ![n] = "merged"]
        /\ UNCHANGED <<at, pend, fresh, db, wloc, todo, dec, sel, acts>>

\* moved_rows: reported VMs that are located on another node.
SelectMoved(n) ==
    /\ pc[n] = "merged"
    /\ todo' = [todo EXCEPT ![n] = {v \in pend[n].seen :
                                        loc[v] \notin {n, "none"}}]
    /\ pc' = [pc EXCEPT ![n] = "selected"]
    /\ UNCHANGED <<at, pend, fresh, db, wrow, wloc, dec, sel, acts>>

\* INSERT for the VMs without a location, UPDATE for the ones located here.  A
\* VM another node's transaction has just inserted is left to the next push.
Here(n) == {v \in pend[n].seen : loc[v] \in {n, "none"}}

LocateSeen(n) ==
    /\ pc[n] = "selected"
    /\ Free(n, {}, Here(n))
    /\ wloc' = [wloc EXCEPT ![n] = [v \in VMs |->
                                      IF v \in Here(n) THEN n ELSE Unset]]
    /\ pc' = [pc EXCEPT ![n] = "moving"]
    /\ UNCHANGED <<at, pend, fresh, db, wrow, todo, dec, sel, acts>>

(***************************************************************************)
(* _create_or_update_location, for one VM that is located elsewhere        *)
(***************************************************************************)
\* Mutant: the count of an earlier absence is enough, whatever the status.
old_node_missing_enoughAnyStatus(r, age) ==
    \/ r.count >= ConfirmPushes
    \/ r.since # Null /\ r.since - age >= ConfirmAge

old_node_missing_enough(r, age) ==
    /\ r.st \in {"missing", "migrated", "purged"}
    /\ \/ r.count >= ConfirmPushes
       \/ r.since # Null /\ r.since - age >= ConfirmAge

\* The location and the old node's row are read ...
ReadLocation(n) ==
    /\ pc[n] = "moving" /\ todo[n] # {} /\ dec[n] = NoDec
    /\ LET v == First(todo[n])  old == loc[v]
       IN  dec' = [dec EXCEPT ![n] =
               [vm |-> v, old |-> old,
                confirmed |-> old_node_missing_enough(SeenRow(n, <<v, old>>),
                                                      pend[n].age)]]
    /\ UNCHANGED <<at, pend, fresh, db, pc, wrow, wloc, todo, sel, acts>>

\* ... and written by later statements, which wait for their locks.
Touched(n) == {<<dec[n].vm, dec[n].old>>, <<dec[n].vm, n>>}

Migrated(r, age) == [Change(r, "migrated") EXCEPT !.mig = AtMost(age, PurgeAge)]

NewRow(n, k) ==
    LET r == SeenRow(n, k)
    IN  CASE ~dec[n].confirmed -> Change(r, "pending_migration")
          [] dec[n].confirmed /\ k[2] # n -> Migrated(r, pend[n].age)
          [] OTHER -> r

\* Mutant: the location keeps its node after a confirmed move.
create_or_update_locationStays(n) ==
    /\ pc[n] = "moving" /\ dec[n] # NoDec
    /\ Free(n, Touched(n), {dec[n].vm})
    /\ wrow' = [wrow EXCEPT ![n] = [k \in Keys |->
                    IF k \in Touched(n) THEN NewRow(n, k) ELSE @[k]]]
    /\ wloc' = [wloc EXCEPT ![n][dec[n].vm] = loc[dec[n].vm]]
    /\ todo' = [todo EXCEPT ![n] = @ \ {dec[n].vm}]
    /\ dec' = [dec EXCEPT ![n] = NoDec]
    /\ UNCHANGED <<at, pend, fresh, db, pc, sel, acts>>

create_or_update_location(n) ==
    /\ pc[n] = "moving" /\ dec[n] # NoDec
    /\ Free(n, Touched(n), {dec[n].vm})
    /\ wrow' = [wrow EXCEPT ![n] = [k \in Keys |->
                    IF k \in Touched(n) THEN NewRow(n, k) ELSE @[k]]]
    /\ wloc' = [wloc EXCEPT ![n][dec[n].vm] =
                    IF dec[n].confirmed THEN n ELSE loc[dec[n].vm]]
    /\ todo' = [todo EXCEPT ![n] = @ \ {dec[n].vm}]
    /\ dec' = [dec EXCEPT ![n] = NoDec]
    /\ UNCHANGED <<at, pend, fresh, db, pc, sel, acts>>

(***************************************************************************)
(* auto_purge_migrated_vms, inside a push and from the node page           *)
(***************************************************************************)
Purgeable(a) == {k \in Keys : SeenRow(a, k).st = "migrated"
                              /\ SeenRow(a, k).mig = PurgeAge}

SelectPurge(n) ==
    /\ pc[n] = "moving" /\ todo[n] = {}
    /\ sel' = [sel EXCEPT ![n] = Purgeable(n)]
    /\ pc' = [pc EXCEPT ![n] = "purging"]
    /\ UNCHANGED <<at, pend, fresh, db, wrow, wloc, todo, dec, acts>>

\* Mutant: a purged row gets a status no reader knows.
PurgedAsDeleted(r) == Change(r, "deleted")

\* The UPDATE names the key of a selected row, not its status.
Purged(r) == Change(r, "purged")

auto_purge_migrated_vms(n) ==
    /\ pc[n] = "purging"
    /\ Free(n, sel[n], {})
    /\ wrow' = [wrow EXCEPT ![n] = [k \in Keys |->
                    IF k \in sel[n] THEN Purged(SeenRow(n, k)) ELSE @[k]]]
    /\ sel' = [sel EXCEPT ![n] = {}]
    /\ pc' = [pc EXCEPT ![n] = "commit"]
    /\ UNCHANGED <<at, pend, fresh, db, wloc, todo, dec, acts>>

Commit(n) ==
    /\ pc[n] = "commit"
    /\ row' = [k \in Keys |-> SeenRow(n, k)]
    /\ loc' = [v \in VMs |-> SeenLoc(n, v)]
    /\ wrow' = [wrow EXCEPT ![n] = [k \in Keys |-> NoRow]]
    /\ wloc' = [wloc EXCEPT ![n] = [v \in VMs |-> Unset]]
    /\ pc' = [pc EXCEPT ![n] = "idle"]
    /\ pend' = [pend EXCEPT ![n] = NoPayload]
    /\ UNCHANGED <<at, fresh, todo, dec, sel, acts>>

\* query_node_bridge: the node page purges on a connection of its own.
WebSelect ==
    /\ "page" \in Extras
    /\ MayStart(Web) /\ Purgeable(Web) # {}
    /\ sel' = [sel EXCEPT ![Web] = Purgeable(Web)]
    /\ pc' = [pc EXCEPT ![Web] = "purging"]
    /\ UNCHANGED <<at, pend, fresh, db, wrow, wloc, todo, dec, acts>>

WebPurge ==
    /\ pc[Web] = "purging"
    /\ Free(Web, sel[Web], {})
    /\ row' = [k \in Keys |-> IF k \in sel[Web] THEN Purged(row[k]) ELSE row[k]]
    /\ sel' = [sel EXCEPT ![Web] = {}]
    /\ pc' = [pc EXCEPT ![Web] = "idle"]
    /\ UNCHANGED <<at, pend, fresh, loc, wrow, wloc, todo, dec, acts>>

(***************************************************************************)
(* PostgreSQL aborts a transaction of a cycle of waiting ones.  The server *)
(* runs the push again from its start, and so does the Agent after it.     *)
(***************************************************************************)
WaitsFor(n) ==
    {b \in Nodes \ {n} :
        \/ pc[n] = "selected" /\ LocsHeld(b) \cap Here(n) # {}
        \/ /\ pc[n] = "moving" /\ dec[n] # NoDec
           /\ \/ RowsHeld(b) \cap Touched(n) # {}
              \/ dec[n].vm \in LocsHeld(b)
        \/ pc[n] = "purging" /\ RowsHeld(b) \cap sel[n] # {}}

Deadlocked(n) ==
    \E s \in SUBSET Nodes :
        n \in s /\ \A a \in s : /\ WaitsFor(a) \cap s # {}
                                /\ \E b \in s : a \in WaitsFor(b)

\* Mutant: the push is run again without a rollback of the transaction.
push_v5058r4_deadlock_retryNoRollback(n) ==
    /\ Deadlocked(n)
    /\ pc' = [pc EXCEPT ![n] = "idle"]
    /\ todo' = [todo EXCEPT ![n] = {}]
    /\ dec' = [dec EXCEPT ![n] = NoDec]
    /\ sel' = [sel EXCEPT ![n] = {}]
    /\ UNCHANGED <<at, pend, fresh, db, wrow, wloc, acts>>

push_v5058r4_deadlock_retry(n) ==
    /\ Deadlocked(n)
    /\ pc' = [pc EXCEPT ![n] = "idle"]
    /\ wrow' = [wrow EXCEPT ![n] = [k \in Keys |-> NoRow]]
    /\ wloc' = [wloc EXCEPT ![n] = [v \in VMs |-> Unset]]
    /\ todo' = [todo EXCEPT ![n] = {}]
    /\ dec' = [dec EXCEPT ![n] = NoDec]
    /\ sel' = [sel EXCEPT ![n] = {}]
    /\ UNCHANGED <<at, pend, fresh, db, acts>>

(***************************************************************************)
(* Administrators                                                          *)
(***************************************************************************)
SetInventory(v, n, s) ==
    /\ "admin" \in Extras /\ acts < MaxActs
    /\ Unlocked(v) /\ row[v, n].inv # "none"
    /\ row' = [row EXCEPT ![<<v, n>>].inv = s]
    /\ acts' = acts + 1
    /\ UNCHANGED <<at, pend, fresh, loc, txn>>

admin_delete_vm(v, n) == SetInventory(v, n, "hidden")

admin_restore_vm(v, n) == SetInventory(v, n, "active")

\* The maintenance worker deletes the VM's rows on every node.
purge_vm_data(v) ==
    /\ "admin" \in Extras /\ acts < MaxActs
    /\ Unlocked(v)
    /\ loc[v] # "none"
    /\ row' = [k \in Keys |-> IF k[1] = v THEN Absent ELSE row[k]]
    /\ loc' = [loc EXCEPT ![v] = "none"]
    /\ acts' = acts + 1
    /\ UNCHANGED <<at, pend, fresh, txn>>

PushStep(n) ==
    \/ process_node_vm_presence(n)
    \/ SelectMoved(n)
    \/ LocateSeen(n)
    \/ ReadLocation(n)
    \/ create_or_update_location(n)
    \/ SelectPurge(n)
    \/ auto_purge_migrated_vms(n)
    \/ Commit(n)
    \/ push_v5058r4_deadlock_retry(n)

Next ==
    \/ Tick
    \/ \E n \in Nodes : CollectAll(n) \/ CollectSome(n) \/ PushStep(n)
    \/ WebSelect
    \/ WebPurge
    \/ \E v \in VMs, n \in Nodes :
           \/ Appear(v, n) \/ Vanish(v, n)
           \/ admin_delete_vm(v, n) \/ admin_restore_vm(v, n)
    \/ \E v \in VMs : purge_vm_data(v)

Spec == Init /\ [][Next]_vars

\* The server finishes what it starts: a transaction takes its next step, and a
\* statement that waits for a row gets it when the holder ends, before the
\* holder's next attempt, since PostgreSQL queues the waiters of a lock.
ServerSpec ==
    /\ Spec
    /\ WF_vars(WebPurge)
    /\ \A n \in Nodes : /\ WF_vars(PushStep(n))
                        /\ SF_vars(create_or_update_location(n))
                        /\ SF_vars(LocateSeen(n))

\* Agents keep pushing, and a complete inventory succeeds again and again.  A
\* service that runs one request at a time keeps no statement waiting.
FairSpec ==
    /\ Spec
    /\ WF_vars(Tick) /\ WF_vars(WebPurge)
    /\ \A n \in Nodes : SF_vars(CollectAll(n)) /\ WF_vars(PushStep(n))

(***************************************************************************)
(* Properties                                                              *)
(***************************************************************************)
\* A VM whose node reports it is not declared migrated or purged there: a row
\* leaves active and pending_migration only when its own node misses the VM
\* (or an administrator deletes it).
ReportedKept ==
    \A k \in Keys : row[k].st \in {"active", "pending_migration"}
                    => row'[k].st \notin {"migrated", "purged"}

ReportedIsKept == [][ReportedKept]_vars

\* The location of a VM is a node that has a row for it, and not one the VM
\* has migrated away from or was purged from.
LocatedIsLive ==
    \A v \in VMs, n \in Nodes :
        loc[v] = n => row[v, n].st \notin {"none", "migrated", "purged"}

\* A VM that migrated away from a node is located on another one, also when
\* transactions overlap: both rows change in one commit.
MigratedIsElsewhere ==
    \A v \in VMs, n \in Nodes : row[v, n].st = "migrated" => loc[v] # n

\* No push, missing mark, move or purge brings back a VM an administrator has
\* hidden; only restoring or deleting it does.
HiddenKept ==
    \A v \in VMs, n \in Nodes :
        row[v, n].inv = "hidden" /\ row'[v, n].inv # "hidden"
        => admin_restore_vm(v, n) \/ purge_vm_data(v)

HiddenStays == [][HiddenKept]_vars

\* Once the VMs have stopped moving, the location of a VM that one node lists
\* is that node, for good, whatever overlapping transactions decided before.
SettledIsFound ==
    <>[](\A v \in VMs, n \in Nodes :
            at[v] = {n} => /\ loc[v] = n
                           /\ row[v, n].inv \in {"active", "hidden"}
                           /\ \A m \in Nodes \ {n} : row[v, m].st # "active")

\* Waiting and deadlocking transactions do not starve a node: every payload is
\* committed.
PushesFinish == \A n \in Nodes : pend[n] # NoPayload ~> pend[n] = NoPayload

=============================================================================
