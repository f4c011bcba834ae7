------------------------------ MODULE NodeGroups ------------------------------
(***************************************************************************)
(* Node Groups: every node of the inventory belongs to exactly one group,  *)
(* the system group Ungrouped if to no other.  Requests of administrators  *)
(* are READ COMMITTED transactions (BEGIN IMMEDIATE is a no-op on          *)
(* PostgreSQL): what they read may be overtaken before they write, they    *)
(* wait for each other's membership rows and may deadlock.                 *)
(***************************************************************************)
EXTENDS Integers, FiniteSets, Sequences, SequencesExt

CONSTANTS
    GNodes,     \* node names
    Custom,     \* ids of groups that are not the system group
    Managers,   \* administrators, one request each
    Lists       \* the node lists a request may carry: sequences of GNodes

System == "ungrouped"
Groups == Custom \cup {System}

ASSUME GroupsAssumption == /\ System \notin Custom /\ "none" \notin Custom
                           /\ IsFiniteSet(GNodes)
                           /\ \A s \in Lists : s \in Seq(GNodes) /\ s # <<>>

VARIABLES
    grp,    \* grp[g]: "absent", "active" or "hidden", of a custom group
    ninv,   \* ninv[n]: node_inventory: "absent", "active" or "hidden"
    mem,    \* mem[n]: node_group_memberships.group_id, "none" without a row
    last,   \* last[n]: new group of the newest history row, since n's insert
    gtx     \* gtx[a]: a's request, or Idle

ngVars == <<grp, ninv, mem, last, gtx>>

Idle == [op |-> "idle"]
NoWrites == [n \in GNodes |-> "none"]

NGTypeOK ==
    /\ grp \in [Custom -> {"absent", "active", "hidden"}]
    /\ ninv \in [GNodes -> {"absent", "active", "hidden"}]
    /\ mem \in [GNodes -> Groups \cup {"none"}]
    /\ last \in [GNodes -> Groups \cup {"none"}]
    /\ \A a \in Managers :
        \/ gtx[a] = Idle
        \/ gtx[a] \in [op : {"count", "delete"}, g : Custom]
        \/ gtx[a] \in [op : {"read", "write", "commit"}, g : Groups,
                       todo : Seq(GNodes), new : [GNodes -> Groups \cup {"none"}]]

\* ensure_schema has run: every node of an older release is in Ungrouped.
NGInit ==
    /\ grp = [g \in Custom |-> "absent"]
    /\ ninv \in [GNodes -> {"absent", "active"}]
    /\ mem = [n \in GNodes |-> IF ninv[n] = "absent" THEN "none" ELSE System]
    /\ last = [n \in GNodes |-> "none"]
    /\ gtx = [a \in Managers |-> Idle]

GroupExists(g) == IF g = System THEN TRUE ELSE grp[g] # "absent"
GroupActive(g) == IF g = System THEN TRUE ELSE grp[g] = "active"

\* a has written n's membership row and not committed.
Wrote(a, n) == gtx[a].op \in {"read", "write", "commit"} /\ gtx[a].new[n] # "none"
Locked(n) == \E a \in Managers : Wrote(a, n)
Others(a, n) == \E b \in Managers \ {a} : Wrote(b, n)

(***************************************************************************)
(* The inventory                                                           *)
(***************************************************************************)
\* Mutant: there is no trigger on node_inventory.
NodeInsertBare(n) ==
    /\ ninv[n] = "absent"
    /\ ninv' = [ninv EXCEPT ![n] = "active"]
    /\ UNCHANGED <<grp, mem, last, gtx>>

\* The first push of a node; the trigger of 012 adds the membership.
NodeInsert(n) ==
    /\ ninv[n] = "absent" /\ ~Locked(n)
    /\ ninv' = [ninv EXCEPT ![n] = "active"]
    /\ mem' = [mem EXCEPT ![n] = System]
    /\ UNCHANGED <<grp, last, gtx>>

\* The maintenance worker purges the node: ON DELETE CASCADE.
NodePurge(n) ==
    /\ ninv[n] # "absent" /\ ~Locked(n)
    /\ ninv' = [ninv EXCEPT ![n] = "absent"]
    /\ mem' = [mem EXCEPT ![n] = "none"]
    /\ last' = [last EXCEPT ![n] = "none"]
    /\ UNCHANGED <<grp, gtx>>

\* The administrator hides or restores a node.
NodeHide(n) ==
    /\ ninv[n] # "absent"
    /\ ninv' = [ninv EXCEPT ![n] = IF @ = "active" THEN "hidden" ELSE "active"]
    /\ UNCHANGED <<grp, mem, last, gtx>>

(***************************************************************************)
(* Groups                                                                  *)
(***************************************************************************)
admin_node_groups_create(g) ==
    /\ grp[g] = "absent"
    /\ grp' = [grp EXCEPT ![g] = "active"]
    /\ UNCHANGED <<ninv, mem, last, gtx>>

\* Hide and restore: the row is read again in the transaction that writes.
HideGroup(g) ==
    /\ grp[g] # "absent"
    /\ grp' = [grp EXCEPT ![g] = IF @ = "active" THEN "hidden" ELSE "active"]
    /\ UNCHANGED <<ninv, mem, last, gtx>>

\* Delete: the group is read, its members are counted ...
admin_node_groups_action(a, g) ==
    /\ gtx[a] = Idle /\ grp[g] # "absent"
    /\ gtx' = [gtx EXCEPT ![a] = [op |-> "count", g |-> g]]
    /\ UNCHANGED <<grp, ninv, mem, last>>

CountMembers(a) ==
    /\ gtx[a].op = "count"
    /\ gtx' = [gtx EXCEPT ![a] =
          IF grp[gtx[a].g] = "absent" \/ \E n \in GNodes : mem[n] = gtx[a].g
          THEN Idle ELSE [op |-> "delete", g |-> gtx[a].g]]
    /\ UNCHANGED <<grp, ninv, mem, last>>

\* Mutant: the foreign key of memberships does not restrict the delete.
DeleteGroupFree(a) ==
    /\ gtx[a].op = "delete"
    /\ grp' = [grp EXCEPT ![gtx[a].g] = "absent"]
    /\ gtx' = [gtx EXCEPT ![a] = Idle]
    /\ UNCHANGED <<ninv, mem, last>>

\* ... and the row is deleted, which waits for transactions that have put a
\* node into it, and fails if by now one has committed: ON DELETE RESTRICT.
DeleteGroup(a) ==
    /\ gtx[a].op = "delete"
    /\ \A b \in Managers, n \in GNodes : Wrote(b, n) => gtx[b].new[n] # gtx[a].g
    /\ grp' = IF \E n \in GNodes : mem[n] = gtx[a].g THEN grp
              ELSE [grp EXCEPT ![gtx[a].g] = "absent"]
    /\ gtx' = [gtx EXCEPT ![a] = Idle]
    /\ UNCHANGED <<ninv, mem, last>>

(***************************************************************************)
(* Assignments                                                             *)
(***************************************************************************)
Assigning(a, g, s) ==
    /\ gtx' = [gtx EXCEPT ![a] =
                  [op |-> "read", g |-> g, todo |-> s, new |-> NoWrites]]
    /\ UNCHANGED <<grp, ninv, mem, last>>

\* assign_nodes: the target must exist and be active when it is read.
assign_nodes(a, g, s) == gtx[a] = Idle /\ GroupActive(g) /\ Assigning(a, g, s)

\* admin_node_groups_bulk with move_all_ungrouped: the members of a group, as
\* they were when it was read, move to Ungrouped in order.
move_all_ungrouped(a, g) ==
    /\ gtx[a] = Idle /\ grp[g] # "absent"
    /\ \E n \in GNodes : mem[n] = g
    /\ Assigning(a, System, SetToSeq({n \in GNodes : mem[n] = g}))

\* For each node: is it in the inventory, and not in the group already?
AssignRead(a) ==
    /\ gtx[a].op = "read"
    /\ LET n == Head(gtx[a].todo)
           rest == Tail(gtx[a].todo)
           skip == \/ ninv[n] = "absent"
                   \/ mem[n] = gtx[a].g
       IN  gtx' = [gtx EXCEPT
                     ![a].todo = IF skip THEN rest ELSE @,
                     ![a].op = IF ~skip THEN "write"
                               ELSE IF rest = <<>> THEN "commit" ELSE "read"]
    /\ UNCHANGED <<grp, ninv, mem, last>>

\* The upsert and its history row.  It waits while another transaction has
\* written the row; the foreign keys fail if the group or the node has gone,
\* and the exception rolls everything back.
AssignWrite(a) ==
    /\ gtx[a].op = "write"
    /\ LET n == Head(gtx[a].todo)
           rest == Tail(gtx[a].todo)
       IN  /\ ~Others(a, n)
           /\ gtx' = [gtx EXCEPT ![a] =
                 IF ~GroupExists(gtx[a].g) \/ ninv[n] = "absent" THEN Idle
                 ELSE [@ EXCEPT !.todo = rest, !.new[n] = gtx[a].g,
                         !.op = IF rest = <<>> THEN "commit" ELSE "read"]]
    /\ UNCHANGED <<grp, ninv, mem, last>>

\* PostgreSQL ends one transaction of a cycle of waiting ones; the handler
\* rolls back.
DeadlockAbort(a) ==
    /\ gtx[a].op = "write" /\ Others(a, Head(gtx[a].todo))
    /\ \E b \in Managers \ {a} :
        /\ Wrote(b, Head(gtx[a].todo))
        /\ gtx[b].op = "write" /\ Wrote(a, Head(gtx[b].todo))
    /\ gtx' = [gtx EXCEPT ![a] = Idle]
    /\ UNCHANGED <<grp, ninv, mem, last>>

AssignCommit(a) ==
    /\ gtx[a].op = "commit"
    /\ mem' = [n \in GNodes |-> IF Wrote(a, n) THEN gtx[a].new[n] ELSE mem[n]]
    /\ last' = [n \in GNodes |-> IF Wrote(a, n) THEN gtx[a].new[n] ELSE last[n]]
    /\ gtx' = [gtx EXCEPT ![a] = Idle]
    /\ UNCHANGED <<grp, ninv>>

NGNext ==
    \/ \E n \in GNodes : NodeInsert(n) \/ NodePurge(n) \/ NodeHide(n)
    \/ \E g \in Custom : admin_node_groups_create(g) \/ HideGroup(g)
    \/ \E a \in Managers :
        \/ CountMembers(a) \/ DeleteGroup(a)
        \/ AssignRead(a) \/ AssignWrite(a) \/ DeadlockAbort(a) \/ AssignCommit(a)
        \/ \E g \in Custom : admin_node_groups_action(a, g)
                             \/ move_all_ungrouped(a, g)
        \/ \E g \in Groups, s \in Lists : assign_nodes(a, g, s)

NGSpec == NGInit /\ [][NGNext]_ngVars

(***************************************************************************)
(* Properties                                                              *)
(***************************************************************************)
\* The trigger and both foreign keys: whatever is inserted, purged, assigned
\* and deleted at once, a node of the inventory is in exactly one existing
\* group, so group_for_node never has to repair one and no node is lost to
\* every page.
MembershipTotal ==
    \A n \in GNodes : IF ninv[n] = "absent" THEN mem[n] = "none"
                      ELSE mem[n] \in Groups /\ GroupExists(mem[n])

\* _audit_membership: the newest history row since a node was inserted names the
\* group it is in, in whichever order overlapping assignments read, write and
\* commit; a node without one is in Ungrouped.
HistoryTells ==
    \A n \in GNodes : ninv[n] # "absent" =>
        mem[n] = IF last[n] = "none" THEN System ELSE last[n]
=============================================================================
