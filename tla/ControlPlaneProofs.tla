--------------------------- MODULE ControlPlaneProofs ---------------------------
(***************************************************************************)
(* What the scenes of MCControlPlane check on small sets holds for every   *)
(* value of the constants: a behaviour of the scenes is one of each        *)
(* component, which moves in its own scene and stays in the others, so the *)
(* theorems of the components carry over.                                  *)
(*                                                                         *)
(* First those of NodeGroups: for any nodes, groups and administrators,    *)
(* and for node lists of any length, every node of the inventory stays in  *)
(* one group that exists, and the history names it.  Neither is inductive. *)
(* What is missing is what an open transaction relies on: the row locks    *)
(* keep a node whose membership it has written in the inventory, the       *)
(* foreign key keeps the group it has put it into, and the history of a    *)
(* purged node went with it.                                               *)
(*                                                                         *)
(* Then those of EmergencyBackup and ConfigBackup, while no request        *)
(* deletes what another one protects or a job verifies (RemoveOverlaps and *)
(* DeleteOverlaps FALSE, as the runs assume), for any number of jobs,      *)
(* directories, edits and faults.  The properties speak of the moment a    *)
(* dump is listed or data is about to be replaced.  What makes them        *)
(* inductive is what holds at each step of the job that leads there: which *)
(* directory or archive it works on, that nobody is removing it, and what  *)
(* is already known of it.                                                 *)
(***************************************************************************)
EXTENDS MCControlPlane, AccessProofs, TLAPS

-----------------------------------------------------------------------------
(* Node Groups.                                                            *)

USE GroupsAssumption

Requests ==
    {Idle} \cup [op : {"count", "delete"}, g : Custom]
    \cup [op : {"read", "write", "commit"}, g : Groups, todo : Seq(GNodes),
          new : [GNodes -> Groups \cup {"none"}]]

\* NGTypeOK with the domain of gtx, and a node to be looked at as long as a
\* request reads or writes one.
TxInv ==
    /\ grp \in [Custom -> {"absent", "active", "hidden"}]
    /\ ninv \in [GNodes -> {"absent", "active", "hidden"}]
    /\ mem \in [GNodes -> Groups \cup {"none"}]
    /\ last \in [GNodes -> Groups \cup {"none"}]
    /\ gtx \in [Managers -> Requests]
    /\ \A a \in Managers : gtx[a].op \in {"read", "write"} => gtx[a].todo # <<>>

\* What the locks and the foreign keys keep for an open transaction.
LockInv ==
    \A a \in Managers, n \in GNodes :
        Wrote(a, n) => ninv[n] # "absent" /\ GroupExists(gtx[a].new[n])

\* A node that was purged has no history.
CascadeInv == \A n \in GNodes : ninv[n] = "absent" => last[n] = "none"

NGInv == TxInv /\ LockInv /\ MembershipTotal /\ HistoryTells /\ CascadeInv

-----------------------------------------------------------------------------
\* SetToSeq lists the elements of a finite set: move_all_ungrouped hands the
\* members of a group that has some to assign_nodes as a list of nodes.
LEMMA MembersListed ==
    ASSUME NEW S \in SUBSET GNodes, S # {}
    PROVE  SetToSeq(S) \in Seq(GNodes) /\ SetToSeq(S) # <<>>
<1>1. IsFiniteSet(S)
  BY FS_Subset
<1>2. /\ Cardinality(S) \in Nat /\ Cardinality(S) # 0
      /\ ExistsBijection(1..Cardinality(S), S)
  BY <1>1, FS_CardinalityType, FS_EmptySet
<1>3. \E f \in [1..Cardinality(S) -> S] : IsInjective(f)
  BY <1>2 DEF ExistsBijection, Bijection, Injection
<1>4. SetToSeq(S) \in [1..Cardinality(S) -> S]
  BY <1>3 DEF SetToSeq
<1>5. SetToSeq(S) \in Seq(S) /\ Len(SetToSeq(S)) = Cardinality(S)
  BY <1>2, <1>4
<1> QED
  BY <1>2, <1>5

LEMMA GroupsInitially == NGInit => NGInv
  BY DEF NGInit, NGInv, TxInv, LockInv, MembershipTotal, HistoryTells, CascadeInv,
         Requests, Idle, Wrote, GroupExists, Groups, System

\* What requests that only read, wait or end leave as it is: the tables.  The
\* invariant then is about gtx alone.
LEMMA TablesStay ==
    ASSUME NGInv, UNCHANGED <<grp, ninv, mem, last>>, TxInv', LockInv'
    PROVE  NGInv'
  BY DEF NGInv, MembershipTotal, HistoryTells, CascadeInv, GroupExists

\* A request that begins has written nothing.
LEMMA RequestBegins ==
    ASSUME NGInv, NEW a \in Managers, NEW r \in Requests,
           gtx' = [gtx EXCEPT ![a] = r],
           r.op \in {"idle", "count", "delete"}
             \/ (r.op = "read" /\ r.todo # <<>> /\ r.new = NoWrites),
           UNCHANGED <<grp, ninv, mem, last>>
    PROVE  NGInv'
<1>1. TxInv'
  BY DEF NGInv, TxInv
<1>2. LockInv'
  BY DEF NGInv, TxInv, LockInv, Wrote, NoWrites, GroupExists
<1> QED
  BY <1>1, <1>2, TablesStay

-----------------------------------------------------------------------------
\* An assignment goes on: a's record changes, and what it has written so far
\* stays written; what it writes now is a node and a group that exist.
LEMMA AssignmentGoesOn ==
    ASSUME NGInv, NEW a \in Managers, NEW r \in Requests,
           gtx[a].op \in {"read", "write"}, gtx' = [gtx EXCEPT ![a] = r],
           r.op \in {"read", "write", "commit"},
           r.op \in {"read", "write"} => r.todo # <<>>,
           \A n \in GNodes : r.new[n] # "none" =>
               \/ r.new[n] = gtx[a].new[n]
               \/ ninv[n] # "absent" /\ GroupExists(r.new[n]),
           UNCHANGED <<grp, ninv, mem, last>>
    PROVE  NGInv'
<1>1. TxInv'
  BY DEF NGInv, TxInv
<1>2. LockInv'
  <2> SUFFICES ASSUME NEW b \in Managers, NEW n \in GNodes, Wrote(b, n)'
               PROVE  ninv[n] # "absent" /\ GroupExists(gtx'[b].new[n])
    BY DEF LockInv, GroupExists
  <2>1. CASE b = a
    <3>1. gtx'[b] = r /\ r.new[n] # "none"
      BY <2>1 DEF NGInv, TxInv, Wrote
    <3>2. CASE r.new[n] = gtx[a].new[n]
      BY <3>1, <3>2 DEF NGInv, LockInv, Wrote
    <3> QED
      BY <3>1, <3>2
  <2>2. CASE b # a
    <3>1. gtx'[b] = gtx[b]
      BY <2>2 DEF NGInv, TxInv
    <3> QED
      BY <3>1 DEF NGInv, LockInv, Wrote
  <2> QED
    BY <2>1, <2>2
<1> QED
  BY <1>1, <1>2, TablesStay

\* The step of each action; in the inventory the row locks matter, for the
\* groups the foreign key.
LEMMA InventoryKeeps ==
    ASSUME NGInv, NEW n \in GNodes, NodeInsert(n) \/ NodePurge(n) \/ NodeHide(n)
    PROVE  NGInv'
<1>1. TxInv'
  BY DEF NGInv, TxInv, NodeInsert, NodePurge, NodeHide, Groups, System
<1>2. LockInv'
  BY DEF NGInv, TxInv, LockInv, NodeInsert, NodePurge, NodeHide, Locked, Wrote, GroupExists
<1>3. MembershipTotal'
  BY DEF NGInv, TxInv, MembershipTotal, NodeInsert, NodePurge, NodeHide, GroupExists,
         Groups
<1>4. HistoryTells' /\ CascadeInv'
  BY DEF NGInv, TxInv, HistoryTells, CascadeInv, NodeInsert, NodePurge, NodeHide
<1> QED
  BY <1>1, <1>2, <1>3, <1>4 DEF NGInv

LEMMA GroupRowKeeps ==
    ASSUME NGInv, NEW g \in Custom, admin_node_groups_create(g) \/ HideGroup(g)
    PROVE  NGInv'
<1>1. UNCHANGED <<ninv, mem, last, gtx>>
  BY DEF admin_node_groups_create, HideGroup
<1>2. \A h \in Groups : GroupExists(h) => GroupExists(h)'
  BY DEF NGInv, TxInv, admin_node_groups_create, HideGroup, GroupExists, Groups
<1>3. TxInv'
  BY DEF NGInv, TxInv, admin_node_groups_create, HideGroup
<1>4. LockInv'
  <2> SUFFICES ASSUME NEW a \in Managers, NEW n \in GNodes, Wrote(a, n)
               PROVE  ninv[n] # "absent" /\ GroupExists(gtx[a].new[n])'
    BY <1>1 DEF LockInv, Wrote
  <2>1. gtx[a].new[n] \in Groups
    BY DEF NGInv, TxInv, Wrote, Requests, Idle
  <2> QED
    BY <1>1, <1>2, <2>1 DEF NGInv, LockInv, GroupExists
<1>5. MembershipTotal'
  BY <1>1, <1>2 DEF NGInv, MembershipTotal
<1>6. HistoryTells' /\ CascadeInv'
  BY <1>1 DEF NGInv, HistoryTells, CascadeInv
<1> QED
  BY <1>3, <1>4, <1>5, <1>6 DEF NGInv

LEMMA DeleteKeeps ==
    ASSUME NGInv, NEW a \in Managers, DeleteGroup(a)
    PROVE  NGInv'
<1>1. gtx[a] \in [op : {"count", "delete"}, g : Custom] /\ gtx[a].g \in Custom
  BY DEF NGInv, TxInv, DeleteGroup, Requests, Idle
<1>2. /\ gtx' = [gtx EXCEPT ![a] = Idle]
      /\ UNCHANGED <<ninv, mem, last>>
      /\ \A g \in Groups : GroupExists(g)' \/ ~GroupExists(g) \/ g = gtx[a].g
      /\ \A n \in GNodes : mem[n] = gtx[a].g => grp' = grp
  BY <1>1 DEF NGInv, TxInv, DeleteGroup, GroupExists, Groups
<1>3. TxInv'
  BY <1>1, <1>2 DEF NGInv, TxInv, DeleteGroup, Requests, Idle
<1>4. LockInv'
  <2> SUFFICES ASSUME NEW b \in Managers, NEW n \in GNodes, Wrote(b, n)'
               PROVE  ninv[n] # "absent" /\ GroupExists(gtx[b].new[n])'
    BY <1>2 DEF LockInv
  <2>1. b # a /\ gtx'[b] = gtx[b] /\ Wrote(b, n)
    BY <1>2 DEF NGInv, TxInv, Wrote, Idle
  <2>2. gtx[b].new[n] \in Groups
    BY <2>1 DEF NGInv, TxInv, Wrote, Requests, Idle
  <2>3. ninv[n] # "absent" /\ GroupExists(gtx[b].new[n]) /\ gtx[b].new[n] # gtx[a].g
    BY <2>1 DEF NGInv, LockInv, DeleteGroup
  <2> QED
    BY <1>2, <2>1, <2>2, <2>3 DEF GroupExists
<1>5. MembershipTotal'
  BY <1>2 DEF NGInv, MembershipTotal, GroupExists
<1>6. HistoryTells' /\ CascadeInv'
  BY <1>2 DEF NGInv, HistoryTells, CascadeInv
<1> QED
  BY <1>3, <1>4, <1>5, <1>6 DEF NGInv

LEMMA AssignmentCommits ==
    ASSUME NGInv, NEW a \in Managers, AssignCommit(a)
    PROVE  NGInv'
<1>1. /\ gtx' = [gtx EXCEPT ![a] = Idle]
      /\ UNCHANGED <<grp, ninv>>
      /\ \A n \in GNodes : mem'[n] = IF Wrote(a, n) THEN gtx[a].new[n] ELSE mem[n]
      /\ \A n \in GNodes : last'[n] = IF Wrote(a, n) THEN gtx[a].new[n] ELSE last[n]
  BY DEF AssignCommit
<1>2. \A n \in GNodes : Wrote(a, n) => /\ gtx[a].new[n] \in Groups
                                       /\ gtx[a].new[n] # "none"
                                       /\ ninv[n] # "absent"
                                       /\ GroupExists(gtx[a].new[n])
  BY DEF NGInv, TxInv, LockInv, Wrote, Requests, Idle
<1>3. TxInv'
  BY <1>1, <1>2 DEF NGInv, TxInv, Requests, Idle, AssignCommit
<1>4. LockInv'
  BY <1>1 DEF NGInv, TxInv, LockInv, Wrote, Idle, GroupExists
<1>5. MembershipTotal'
  BY <1>1, <1>2 DEF NGInv, MembershipTotal, GroupExists
<1>6. HistoryTells' /\ CascadeInv'
  BY <1>1, <1>2 DEF NGInv, HistoryTells, CascadeInv
<1> QED
  BY <1>3, <1>4, <1>5, <1>6 DEF NGInv

\* The steps of a request that leave the tables alone.
LEMMA RequestKeeps ==
    ASSUME NGInv, NEW a \in Managers,
           \/ CountMembers(a) \/ AssignRead(a) \/ AssignWrite(a) \/ DeadlockAbort(a)
           \/ \E g \in Custom : admin_node_groups_action(a, g) \/ move_all_ungrouped(a, g)
           \/ \E g \in Groups, s \in Lists : assign_nodes(a, g, s)
    PROVE  NGInv'
<1> DEFINE Assigns == [op : {"read", "write", "commit"}, g : Groups, todo : Seq(GNodes),
                       new : [GNodes -> Groups \cup {"none"}]]
<1> Idle \in Requests /\ Idle.op = "idle"
  BY DEF Requests, Idle
<1>1. CASE CountMembers(a)
  <2>1. gtx[a].g \in Custom
    BY <1>1 DEF CountMembers, NGInv, TxInv, Requests, Idle
  <2> DEFINE r == [op |-> "delete", g |-> gtx[a].g]
  <2>2. r \in Requests /\ r.op = "delete"
    BY <2>1 DEF Requests
  <2>3. gtx' = [gtx EXCEPT ![a] = Idle] \/ gtx' = [gtx EXCEPT ![a] = r]
    BY <1>1 DEF CountMembers
  <2> HIDE DEF r
  <2> QED
    BY <1>1, <2>2, <2>3, RequestBegins DEF CountMembers
<1>2. ASSUME NEW g \in Custom, admin_node_groups_action(a, g)
      PROVE  NGInv'
  <2> DEFINE r == [op |-> "count", g |-> g]
  <2>1. r \in Requests /\ r.op = "count"
    BY DEF Requests
  <2>2. gtx' = [gtx EXCEPT ![a] = r] /\ UNCHANGED <<grp, ninv, mem, last>>
    BY <1>2 DEF admin_node_groups_action
  <2> HIDE DEF r
  <2> QED
    BY <2>1, <2>2, RequestBegins
<1>3. ASSUME NEW g \in Groups, NEW s \in Seq(GNodes), s # <<>>, Assigning(a, g, s)
      PROVE  NGInv'
  <2> DEFINE r == [op |-> "read", g |-> g, todo |-> s, new |-> NoWrites]
  <2>1. r \in Requests /\ r.op = "read" /\ r.todo # <<>> /\ r.new = NoWrites
    BY <1>3 DEF Requests, NoWrites
  <2>2. gtx' = [gtx EXCEPT ![a] = r] /\ UNCHANGED <<grp, ninv, mem, last>>
    BY <1>3 DEF Assigning
  <2> HIDE DEF r
  <2> QED
    BY <2>1, <2>2, RequestBegins
<1>4. ASSUME NEW g \in Custom, move_all_ungrouped(a, g)
      PROVE  NGInv'
  <2>1. System \in Groups
    BY DEF Groups
  <2> QED
    BY <1>3, <1>4, <2>1, MembersListed DEF move_all_ungrouped
<1>5. ASSUME NEW g \in Groups, NEW s \in Lists, assign_nodes(a, g, s)
      PROVE  NGInv'
  BY <1>3, <1>5 DEF assign_nodes
<1>6. CASE AssignRead(a)
  <2> DEFINE t == gtx[a]
             skip == ninv[Head(t.todo)] = "absent" \/ mem[Head(t.todo)] = t.g
             r == [t EXCEPT !.todo = IF skip THEN Tail(t.todo) ELSE @,
                            !.op = IF ~skip THEN "write"
                                   ELSE IF Tail(t.todo) = <<>> THEN "commit" ELSE "read"]
  <2>1. t \in Assigns /\ t.op = "read" /\ t.todo # <<>>
    BY <1>6 DEF AssignRead, NGInv, TxInv, Requests, Idle
  <2>2. Tail(t.todo) \in Seq(GNodes)
    BY <2>1
  <2>3. /\ r \in Assigns /\ r.new = t.new
        /\ r.op \in {"read", "write"} => r.todo # <<>>
    BY <2>1, <2>2
  <2>4. gtx' = [gtx EXCEPT ![a] = r] /\ UNCHANGED <<grp, ninv, mem, last>>
    BY <1>6, <2>1 DEF AssignRead, NGInv, TxInv
  <2>5. r \in Requests /\ r.op \in {"read", "write", "commit"}
    BY <2>3 DEF Requests
  <2> HIDE DEF r
  <2> QED
    BY <2>1, <2>3, <2>4, <2>5, AssignmentGoesOn
<1>7. CASE AssignWrite(a)
  <2> DEFINE t == gtx[a]
             n == Head(t.todo)
             r == [t EXCEPT !.todo = Tail(t.todo), !.new[n] = t.g,
                            !.op = IF Tail(t.todo) = <<>> THEN "commit" ELSE "read"]
  <2>1. t \in Assigns /\ t.op = "write" /\ t.todo # <<>> /\ n \in GNodes
    BY <1>7 DEF AssignWrite, NGInv, TxInv, Requests, Idle
  <2>2. Tail(t.todo) \in Seq(GNodes)
    BY <2>1
  <2>3. /\ r \in Assigns
        /\ r.op \in {"read", "write"} => r.todo # <<>>
        /\ \A m \in GNodes : r.new[m] = IF m = n THEN t.g ELSE t.new[m]
    BY <2>1, <2>2
  <2>4. r \in Requests /\ r.op \in {"read", "write", "commit"}
    BY <2>3 DEF Requests
  <2>5. UNCHANGED <<grp, ninv, mem, last>>
    BY <1>7 DEF AssignWrite
  <2>6. CASE ~GroupExists(t.g) \/ ninv[n] = "absent"
    <3>1. gtx' = [gtx EXCEPT ![a] = Idle]
      BY <1>7, <2>6 DEF AssignWrite
    <3> QED
      BY <2>5, <3>1, RequestBegins
  <2>7. CASE GroupExists(t.g) /\ ninv[n] # "absent"
    <3>1. gtx' = [gtx EXCEPT ![a] = r]
      BY <1>7, <2>7 DEF AssignWrite
    <3>2. \A m \in GNodes : r.new[m] # "none" =>
              \/ r.new[m] = gtx[a].new[m]
              \/ ninv[m] # "absent" /\ GroupExists(r.new[m])
      BY <2>3, <2>7
    <3> HIDE DEF r
    <3> QED
      BY <2>1, <2>3, <2>4, <2>5, <3>1, <3>2, AssignmentGoesOn
  <2> QED
    BY <2>6, <2>7
<1>8. CASE DeadlockAbort(a)
  BY <1>8, RequestBegins DEF DeadlockAbort
<1> QED
  BY <1>1, <1>2, <1>4, <1>5, <1>6, <1>7, <1>8

LEMMA GroupsStep == NGInv /\ [NGNext]_ngVars => NGInv'
<1> SUFFICES ASSUME NGInv, [NGNext]_ngVars PROVE NGInv'
  OBVIOUS
<1>1. CASE UNCHANGED ngVars
  BY <1>1 DEF ngVars, NGInv, TxInv, LockInv, MembershipTotal, HistoryTells, CascadeInv,
              Wrote, GroupExists
<1>2. CASE NGNext
  BY <1>2, InventoryKeeps, GroupRowKeeps, DeleteKeeps, AssignmentCommits, RequestKeeps DEF NGNext
<1> QED
  BY <1>1, <1>2

LEMMA GroupsTyped == NGInv => NGTypeOK
  BY DEF NGInv, TxInv, NGTypeOK, Requests

-----------------------------------------------------------------------------
LEMMA GroupsInvariant == NGSpec => []NGInv
  BY GroupsInitially, GroupsStep, PTL DEF NGSpec

\* Types of the tables of Node Groups and of what requests have read and will
\* write.
THEOREM GroupTypes == NGSpec => []NGTypeOK
  BY GroupsInvariant, GroupsTyped, PTL

\* Whatever administrators assign, delete and hide at once and whatever nodes
\* appear and are purged meanwhile, a node of the inventory is in exactly one
\* group, and that group exists.
THEOREM EveryNodeHasAGroup == NGSpec => []MembershipTotal
<1>1. NGInv => MembershipTotal
  BY DEF NGInv
<1> QED
  BY GroupsInvariant, <1>1, PTL

\* _audit_membership: the newest row of a node's history names its group.
THEOREM HistoryNamesTheGroup == NGSpec => []HistoryTells
<1>1. NGInv => HistoryTells
  BY DEF NGInv
<1> QED
  BY GroupsInvariant, <1>1, PTL

-----------------------------------------------------------------------------
(* Dumps and archives.                                                     *)

USE EmergencyAssumption, BackupAssumption

(***************************************************************************)
(* Full emergency backups                                                  *)
(***************************************************************************)
Tasks == [at : Required \cup {"hash", "record", "protect", "reset"},
          id : Dirs, reset : BOOLEAN]

\* Only a directory that a job has made has files; only an intact dump has the
\* stamp that is recorded.
DirsInv ==
    /\ dir \in [Dirs -> [files : SUBSET Required, intact : BOOLEAN, stamp : 0..2]]
    /\ seenAs \in [Dirs -> {0, 1}]
    /\ kept \subseteq Dirs /\ removing \subseteq Dirs /\ freed \subseteq Dirs
    /\ dirs \in 0..MaxDirs
    /\ ejob \in Tasks \cup {NoTask}
    /\ \A i \in Dirs :
        /\ dir[i].intact <=> dir[i].stamp = 1
        /\ dir[i].stamp = 0 => dir[i] = NoDir
        /\ seenAs[i] # 0 => dir[i] # NoDir
        /\ dir[i] # NoDir => i <= dirs

\* Nothing that is protected is being removed.
RemovalInv == \A i \in removing : i <= dirs /\ i \notin kept

\* What a job knows of its directory; one that is being removed may disappear
\* under a verification that an administrator asked for, but not under a reset.
TaskInv ==
    ejob # NoTask =>
        /\ ejob.id <= dirs
        /\ ejob.reset => ejob.id \notin removing
        /\ ejob.at = "record" => dir[ejob.id].intact \/ dir[ejob.id] = NoDir
        /\ ejob.at \in {"protect", "reset"} => ejob.reset /\ seenAs[ejob.id] = 1
        /\ ejob.reset /\ ejob.at \in {"record", "protect", "reset"} => ManifestHolds(ejob.id)
        /\ ejob.at = "reset" => ejob.id \in kept \cup freed

EmergencyInv == DirsInv /\ RemovalInv /\ TaskInv

\* What ProtectedStays says of one step.
NothingProtectedGoes ==
    \A i \in Dirs : i \in kept => dir[i].files \subseteq dir'[i].files

-----------------------------------------------------------------------------
LEMMA EmergencyInitially == EmergencyInit => EmergencyInv
  BY DEF EmergencyInit, EmergencyInv, DirsInv, RemovalInv, TaskInv, Dirs, NoDir, NoTask

\* The steps of a job.
LEMMA EmergencyJobKeeps ==
    ASSUME EmergencyInv,
           \/ \E reset \in BOOLEAN : StartFull(reset)
           \/ ScriptStep \/ TaskFails \/ HashFiles \/ RecordVerified
           \/ ProtectForReset \/ ResetGoesOn
    PROVE  EmergencyInv' /\ NothingProtectedGoes
<1> USE DEF EmergencyInv, DirsInv, RemovalInv, TaskInv, NothingProtectedGoes, Tasks, NoTask,
            NoDir, Dirs, Required
<1>1. ASSUME NEW reset \in BOOLEAN, StartFull(reset)
      PROVE  EmergencyInv' /\ NothingProtectedGoes
  BY <1>1 DEF StartFull
<1>2. CASE ScriptStep
  <2> DEFINE i == ejob.id
             d == [files |-> dir[i].files \cup {ejob.at}, intact |-> TRUE, stamp |-> 1]
  <2>1. /\ i \in Dirs /\ i <= dirs /\ ejob.at \in Required
        /\ ejob \in Tasks /\ ejob'.id = i /\ ejob'.reset = ejob.reset
        /\ ejob'.at \in {"list", "sums", "hash"} /\ ejob' \in Tasks
        /\ UNCHANGED <<seenAs, kept, removing, dirs, faults, freed>>
    <3>1. ejob \in Tasks /\ ejob.at \in Required
      BY <1>2 DEF ScriptStep
    <3>2. \E t \in {"list", "sums", "hash"} : ejob' = [ejob EXCEPT !.at = t]
      BY <1>2, <3>1 DEF ScriptStep
    <3>3. /\ ejob'.id = i /\ ejob'.reset = ejob.reset
          /\ ejob'.at \in {"list", "sums", "hash"} /\ ejob' \in Tasks
      BY <3>1, <3>2
    <3>4. i \in Dirs /\ i <= dirs
      BY <3>1
    <3>5. UNCHANGED <<seenAs, kept, removing, dirs, faults, freed>>
      BY <1>2 DEF ScriptStep
    <3> QED
      BY <3>1, <3>3, <3>4, <3>5
  <2>2. /\ d \in [files : SUBSET Required, intact : BOOLEAN, stamp : 0..2]
        /\ d.stamp = 1 /\ d.intact /\ d # NoDir /\ dir[i].files \subseteq d.files
    BY <2>1
  <2>3. dir' = [dir EXCEPT ![i] = d]
    BY <1>2 DEF ScriptStep
  <2> HIDE DEF d
  <2>4. DirsInv'
    <3>1. dir' \in [Dirs -> [files : SUBSET Required, intact : BOOLEAN, stamp : 0..2]]
      BY <2>1, <2>2, <2>3
    <3>2. ASSUME NEW j \in Dirs
          PROVE  /\ dir'[j].intact <=> dir'[j].stamp = 1
                 /\ dir'[j].stamp = 0 => dir'[j] = NoDir
                 /\ seenAs[j] # 0 => dir'[j] # NoDir
                 /\ dir'[j] # NoDir => j <= dirs
      <4>1. CASE j = i
        BY <2>1, <2>2, <2>3, <4>1
      <4>2. CASE j # i
        <5>1. dir'[j] = dir[j]
          BY <2>3, <4>2
        <5> QED
          BY <5>1
      <4> QED
        BY <4>1, <4>2
    <3> QED
      BY <2>1, <3>1, <3>2
  <2>5. RemovalInv'
    BY <2>1
  <2>6. TaskInv'
    BY <2>1
  <2>7. NothingProtectedGoes
    BY <2>2, <2>3
  <2> QED
    BY <2>4, <2>5, <2>6, <2>7
<1>3. CASE TaskFails
  BY <1>3 DEF TaskFails, Fault
<1>4. CASE HashFiles
  <2>1. /\ ejob \in Tasks /\ ejob.at = "hash"
        /\ UNCHANGED <<dir, seenAs, kept, removing, dirs, faults, freed>>
        /\ \/ ejob' = NoTask
           \/ ManifestHolds(ejob.id) /\ ejob' = [ejob EXCEPT !.at = "record"]
    BY <1>4 DEF HashFiles
  <2>2. CASE ejob' = NoTask
    BY <2>1, <2>2
  <2>3. CASE ManifestHolds(ejob.id) /\ ejob' = [ejob EXCEPT !.at = "record"]
    <3>1. /\ ejob' \in Tasks /\ ejob'.at = "record" /\ ejob'.id = ejob.id
          /\ ejob'.reset = ejob.reset
      BY <2>1, <2>3
    <3>2. dir[ejob.id].intact
      BY <2>3 DEF ManifestHolds
    <3> QED
      BY <2>1, <2>3, <3>1, <3>2 DEF ManifestHolds
  <2> QED
    BY <2>1, <2>2, <2>3
<1>5. CASE RecordVerified
  <2> DEFINE i == ejob.id
  <2>1. /\ ejob \in Tasks /\ i \in Dirs /\ i <= dirs /\ ejob.at = "record"
        /\ UNCHANGED <<dir, kept, removing, dirs, faults, freed>>
        /\ dir[i].intact \/ dir[i] = NoDir
    BY <1>5 DEF RecordVerified
  <2>2. CASE Required \ {"list"} \subseteq dir[i].files
    <3>1. dir[i] # NoDir /\ dir[i].stamp = 1
      <4>1. "dump" \in dir[i].files
        BY <2>2
      <4> QED
        BY <2>1, <4>1
    <3>2. seenAs' = [seenAs EXCEPT ![i] = 1]
      BY <1>5, <2>2, <3>1 DEF RecordVerified, Record
    <3>3. DirsInv'
      <4>1. ejob' \in Tasks \cup {NoTask}
        BY <1>5, <2>1 DEF RecordVerified
      <4> QED
        BY <2>1, <3>1, <3>2, <4>1
    <3>4. RemovalInv'
      BY <2>1
    <3>5. CASE ejob.reset
      <4>1. /\ ejob' \in Tasks /\ ejob'.at = "protect" /\ ejob'.id = i /\ ejob'.reset
        BY <1>5, <2>1, <3>5 DEF RecordVerified
      <4>2. ManifestHolds(i) /\ i \notin removing
        BY <2>1, <3>5
      <4> QED
        BY <2>1, <3>2, <3>3, <3>4, <4>1, <4>2 DEF ManifestHolds
    <3>6. CASE ~ejob.reset
      BY <1>5, <2>1, <3>3, <3>4, <3>6 DEF RecordVerified
    <3> QED
      BY <3>5, <3>6
  <2>3. CASE ~(Required \ {"list"} \subseteq dir[i].files)
    <3>1. ~ejob.reset
      BY <2>1, <2>3 DEF ManifestHolds
    <3> QED
      BY <1>5, <2>1, <2>3, <3>1 DEF RecordVerified, Record
  <2> QED
    BY <2>2, <2>3
<1>6. CASE ProtectForReset
  BY <1>6, SMTT(60) DEF ProtectForReset, ManifestHolds
<1>7. CASE ResetGoesOn
  BY <1>7 DEF ResetGoesOn
<1> QED
  BY <1>1, <1>2, <1>3, <1>4, <1>5, <1>6, <1>7

\* The row of a directory whose dump is replaced.
LEMMA RowAltered ==
    ASSUME NEW F, NEW r \in [files : SUBSET F, intact : BOOLEAN, stamp : 0..2],
           NEW d, d = [r EXCEPT !.intact = FALSE, !.stamp = 2]
    PROVE  /\ d \in [files : SUBSET F, intact : BOOLEAN, stamp : 0..2]
           /\ d.intact = FALSE /\ d.stamp = 2 /\ d.files = r.files
<1>1. d = [k \in {"files", "intact", "stamp"} |->
             IF k = "intact" THEN FALSE ELSE IF k = "stamp" THEN 2 ELSE r[k]]
  OBVIOUS
<1>2. d.intact = FALSE /\ d.stamp = 2 /\ d.files = r.files
  BY <1>1
<1>3. d = [files |-> d.files, intact |-> d.intact, stamp |-> d.stamp]
  BY ONLY <1>1
<1>4. d = [files |-> r.files, intact |-> FALSE, stamp |-> 2]
  BY ONLY <1>2, <1>3
<1>5. r.files \in SUBSET F
  OBVIOUS
<1>6. d \in [files : SUBSET F, intact : BOOLEAN, stamp : 0..2]
  BY ONLY <1>4, <1>5
<1> QED
  BY <1>2, <1>6

\* The dump of a directory is replaced or damaged on disk.
LEMMA AlterKeeps ==
    ASSUME ~RemoveOverlaps, EmergencyInv, NEW i \in Dirs, Alter(i)
    PROVE  EmergencyInv' /\ NothingProtectedGoes
<1> DEFINE Shape == [files : SUBSET Required, intact : BOOLEAN, stamp : 0..2]
           d == [dir[i] EXCEPT !.intact = FALSE, !.stamp = 2]
<1>1. /\ dir \in [Dirs -> Shape] /\ dir[i].intact
      /\ ejob # NoTask => ejob.id # i
      /\ dir' = [dir EXCEPT ![i] = d]
      /\ UNCHANGED <<seenAs, kept, ejob, removing, dirs, freed>>
  BY DEF EmergencyInv, DirsInv, Alter
<1>2. d \in Shape /\ d.stamp = 2 /\ d.intact = FALSE /\ d.files = dir[i].files
  <2>1. dir[i] \in Shape
    BY <1>1
  <2> QED
    BY <2>1, RowAltered, Zenon
<1> HIDE DEF d, Shape
<1>3. /\ dir' \in [Dirs -> Shape] /\ dir'[i] = d
      /\ \A j \in Dirs : j # i => dir'[j] = dir[j]
  BY <1>1, <1>2
<1>4. dir[i] # NoDir /\ d # NoDir
  BY <1>1, <1>2 DEF NoDir
<1>5. DirsInv'
  <2>1. /\ dir'[i].intact <=> dir'[i].stamp = 1
        /\ dir'[i].stamp # 0 /\ dir'[i] # NoDir /\ i <= dirs
    BY <1>2, <1>3, <1>4 DEF EmergencyInv, DirsInv
  <2> QED
    BY <1>1, <1>3, <2>1 DEF EmergencyInv, DirsInv, Shape
<1>6. RemovalInv'
  BY <1>1 DEF EmergencyInv, RemovalInv
<1>7. TaskInv'
  <2>1. CASE ejob = NoTask
    BY <1>1, <2>1 DEF TaskInv
  <2>2. CASE ejob # NoTask
    <3>1. ejob \in Tasks /\ ejob.id \in Dirs
      BY <2>2 DEF EmergencyInv, DirsInv, Tasks
    <3>2. dir'[ejob.id] = dir[ejob.id] /\ (ManifestHolds(ejob.id)' <=> ManifestHolds(ejob.id))
      BY <1>1, <1>3, <2>2, <3>1 DEF ManifestHolds
    <3> QED
      BY <1>1, <3>2 DEF EmergencyInv, TaskInv
  <2> QED
    BY <2>1, <2>2
<1>8. NothingProtectedGoes
  BY <1>1, <1>2, <1>3, <1>4 DEF NothingProtectedGoes
<1> QED
  BY <1>5, <1>6, <1>7, <1>8 DEF EmergencyInv

\* Requests and the file system.
LEMMA EmergencyRequestKeeps ==
    ASSUME ~RemoveOverlaps, EmergencyInv, NEW i \in Dirs,
           \/ RequestVerify(i) \/ ProtectDir(i) \/ UnprotectDir(i) \/ DeleteDir(i)
           \/ RemoveMarker(i) \/ RemoveDir(i) \/ RemovalStops(i) \/ Alter(i)
           \/ \E f \in Required : RemoveFile(i, f)
    PROVE  EmergencyInv' /\ NothingProtectedGoes
<1> USE DEF EmergencyInv, DirsInv, RemovalInv, TaskInv, NothingProtectedGoes, Tasks, NoTask,
            NoDir, Dirs, Required, ManifestHolds, Fault
<1>1. CASE RequestVerify(i)
  BY <1>1 DEF RequestVerify
<1>2. CASE ProtectDir(i)
  BY <1>2 DEF ProtectDir
<1>3. CASE UnprotectDir(i)
  BY <1>3 DEF UnprotectDir
<1>4. CASE DeleteDir(i)
  BY <1>4 DEF DeleteDir, Deletable
<1>5. CASE RemoveMarker(i)
  BY <1>5 DEF RemoveMarker
<1>6. CASE RemoveDir(i)
  <2>1. /\ i \in removing /\ i \notin kept /\ seenAs[i] = 0
        /\ dir' = [dir EXCEPT ![i] = NoDir] /\ removing' = removing \ {i}
        /\ UNCHANGED <<seenAs, kept, ejob, dirs, faults, freed>>
    BY <1>6 DEF RemoveDir
  <2>2. DirsInv' /\ RemovalInv'
    <3>1. NoDir \in [files : SUBSET Required, intact : BOOLEAN, stamp : 0..2]
      OBVIOUS
    <3> HIDE DEF NoDir
    <3>2. dir' \in [Dirs -> [files : SUBSET Required, intact : BOOLEAN, stamp : 0..2]]
      BY <2>1, <3>1
    <3>3. ASSUME NEW j \in Dirs
          PROVE  /\ dir'[j].intact <=> dir'[j].stamp = 1
                 /\ dir'[j].stamp = 0 => dir'[j] = NoDir
                 /\ seenAs[j] # 0 => dir'[j] # NoDir
                 /\ dir'[j] # NoDir => j <= dirs
      <4>1. CASE j = i
        <5>1. dir'[j] = NoDir /\ seenAs[j] = 0
          BY <2>1, <4>1
        <5> QED
          BY <5>1 DEF NoDir
      <4>2. CASE j # i
        <5>1. dir'[j] = dir[j]
          BY <2>1, <4>2
        <5> QED
          BY <5>1
      <4> QED
        BY <4>1, <4>2
    <3> QED
      BY <2>1, <3>2, <3>3
  <2>3. TaskInv'
    <3>1. CASE ejob # NoTask /\ ejob.id = i
      BY <2>1, <3>1
    <3>2. CASE ejob = NoTask \/ ejob.id # i
      BY <2>1, <3>2
    <3> QED
      BY <3>1, <3>2
  <2> QED
    BY <2>1, <2>2, <2>3
<1>7. CASE RemovalStops(i)
  BY <1>7 DEF RemovalStops
<1>8. CASE Alter(i)
  BY <1>8, AlterKeeps
<1>9. ASSUME NEW f \in Required, RemoveFile(i, f)
      PROVE  EmergencyInv' /\ NothingProtectedGoes
  <2> DEFINE d == [dir[i] EXCEPT !.files = @ \ {f}]
  <2>1. /\ i \in removing /\ i \notin kept /\ dir[i] # NoDir
        /\ UNCHANGED <<seenAs, kept, ejob, removing, dirs, faults, freed>>
    BY <1>9 DEF RemoveFile
  <2>2. /\ d \in [files : SUBSET Required, intact : BOOLEAN, stamp : 0..2]
        /\ d.stamp = dir[i].stamp /\ d.intact = dir[i].intact /\ d.stamp # 0
    BY <2>1
  <2>3. dir' = [dir EXCEPT ![i] = d] /\ d # NoDir
    BY <1>9, <2>2 DEF RemoveFile
  <2> HIDE DEF d
  <2>4. DirsInv' /\ RemovalInv'
    BY <2>1, <2>2, <2>3
  <2>5. TaskInv'
    <3>1. CASE ejob # NoTask /\ ejob.id = i
      BY <2>1, <2>2, <2>3, <3>1
    <3>2. CASE ejob = NoTask \/ ejob.id # i
      BY <2>1, <2>3, <3>2
    <3> QED
      BY <3>1, <3>2
  <2>6. NothingProtectedGoes
    BY <2>1, <2>3
  <2> QED
    BY <2>4, <2>5, <2>6
<1> QED
  BY <1>1, <1>2, <1>3, <1>4, <1>5, <1>6, <1>7, <1>8, <1>9

LEMMA EmergencyStep ==
    ASSUME ~RemoveOverlaps
    PROVE  EmergencyInv /\ [EmergencyNext]_emergencyVars
           => EmergencyInv' /\ NothingProtectedGoes
<1> SUFFICES ASSUME EmergencyInv, [EmergencyNext]_emergencyVars
             PROVE  EmergencyInv' /\ NothingProtectedGoes
  OBVIOUS
<1>1. CASE UNCHANGED emergencyVars
  BY <1>1 DEF emergencyVars, EmergencyInv, DirsInv, RemovalInv, TaskInv, ManifestHolds,
              NothingProtectedGoes
<1>2. CASE EmergencyNext
  BY <1>2, EmergencyJobKeeps, EmergencyRequestKeeps DEF EmergencyNext
<1> QED
  BY <1>1, <1>2

\* What the invariant says of the page and of a reset.
LEMMA EmergencyImplies ==
    EmergencyInv => EmergencyTypeOK /\ VerifiedIsIntact /\ ResetHasDump
<1> SUFFICES ASSUME EmergencyInv
             PROVE  EmergencyTypeOK /\ VerifiedIsIntact /\ ResetHasDump
  OBVIOUS
<1>1. EmergencyTypeOK
  BY DEF EmergencyInv, DirsInv, EmergencyTypeOK
<1>2. ASSUME NEW i \in Dirs, Shown(i) = "verified"
      PROVE  ManifestHolds(i)
  <2>1. Required \subseteq dir[i].files /\ Cached(i)
    BY <1>2 DEF Shown
  <2>2. dir[i].files = Required /\ dir[i].stamp = 1
    BY <2>1 DEF EmergencyInv, DirsInv, Cached
  <2> QED
    BY <2>2 DEF EmergencyInv, DirsInv, ManifestHolds
<1>3. ResetHasDump
  <2> SUFFICES ASSUME ejob # NoTask, ejob.at = "reset"
               PROVE  ejob.id \in kept \cup freed /\ Shown(ejob.id) = "verified"
    BY DEF ResetHasDump
  <2>1. /\ ejob \in Tasks /\ ejob.id \in Dirs /\ ejob.reset
        /\ ejob.id \in kept \cup freed
        /\ ManifestHolds(ejob.id) /\ seenAs[ejob.id] = 1
    BY DEF EmergencyInv, DirsInv, TaskInv, Tasks
  <2>2. dir[ejob.id].stamp = 1 /\ dir[ejob.id] # NoDir
        /\ Required \subseteq dir[ejob.id].files
    BY <2>1 DEF EmergencyInv, DirsInv, ManifestHolds, NoDir
  <2> QED
    BY <2>1, <2>2 DEF Shown, Cached
<1> QED
  BY <1>1, <1>2, <1>3 DEF VerifiedIsIntact

\* list_emergency_backups and create_verified_pre_nuclear_backup: a dump that
\* the page shows as verified is complete and intact, and a reset that asked
\* for one goes on only with a protected, verified dump.
THEOREM DumpsHold ==
    ASSUME ~RemoveOverlaps
    PROVE  EmergencySpec => [](EmergencyTypeOK /\ VerifiedIsIntact /\ ResetHasDump)
<1>1. EmergencyInit => EmergencyInv
  BY EmergencyInitially
<1>2. EmergencyInv /\ [EmergencyNext]_emergencyVars => EmergencyInv'
  BY EmergencyStep
<1>3. EmergencyInv => EmergencyTypeOK /\ VerifiedIsIntact /\ ResetHasDump
  BY EmergencyImplies
<1> QED
  BY <1>1, <1>2, <1>3, PTL DEF EmergencySpec

\* delete_emergency_backup: no file of a protected directory is removed.
THEOREM ProtectedDumpsStay ==
    ASSUME ~RemoveOverlaps
    PROVE  EmergencySpec => ProtectedStays
<1>1. EmergencyInit => EmergencyInv
  BY EmergencyInitially
<1>2. EmergencyInv /\ [EmergencyNext]_emergencyVars
      => EmergencyInv' /\ [NothingProtectedGoes]_emergencyVars
  BY EmergencyStep
<1> QED
  BY <1>1, <1>2, PTL DEF EmergencySpec, ProtectedStays, NothingProtectedGoes

(***************************************************************************)
(* Configuration backups                                                   *)
(***************************************************************************)
UserRoles == {"none", "viewer", "super_admin"}

\* What a section of an archive may hold.
SectionValues(s) ==
    CASE s = "users" -> [People -> UserRoles]
      [] s \in {"api_keys", "settings"} -> 0..2
      [] s = "groups" -> SUBSET BGroups
      [] s = "node_group_mapping" -> [BNodes -> BGroups \cup {"none"}]
Confs == UNION {[T -> UNION {SectionValues(s) : s \in Sections}] : T \in SUBSET Sections}
Holds(c, T) == DOMAIN c = T /\ \A s \in T : c[s] \in SectionValues(s)

\* The sections that an export has read when it is about to read the k-th.
ReadBefore(k) == {Order[j] : j \in 1..(k - 1)}

Archives == [sound : BOOLEAN, conf : Confs, whole : BOOLEAN]
Phases == {"verify", "export", "write", "mark", "check", "stop", "commit", "start"}
BackupJobs ==
    [at : Phases, kind : {"backup", "restore", "reset"}, actor : People, uid : Nat,
     from : Ids \cup {0}, sections : SUBSET Sections, saves : BOOLEAN, id : Ids, read : 1..6,
     quiet : BOOLEAN, done : BOOLEAN, conf : Confs]

\* The tables: their types, the foreign key of the memberships, a Super Admin,
\* and that what a restore promised is of a group that exists.
ConfInv ==
    /\ person \in [People -> [role : UserRoles, uid : Nat]]
    /\ vers \in [{"api_keys", "settings"} -> 0..2] /\ groups \subseteq BGroups
    /\ memberOf \in [BNodes -> {"absent", "Ungrouped"} \cup groups]
    /\ pending \in [BNodes -> BGroups \cup {"none"}]
    /\ promise \in [BNodes -> groups \cup {"none"}]
    /\ \E p \in People : person[p].role = "super_admin"
    /\ MappingKept

\* The archives: of jobs that have run, complete, and if they are of one moment
\* their mapping names groups that they hold.
ArchiveInv ==
    /\ file \in [Ids -> Archives \cup {NoFile}] /\ jobs \in 0..MaxJobs
    /\ mark \subseteq Ids /\ unmarked \subseteq Ids /\ dreq \in 0..jobs /\ web \in BOOLEAN
    /\ preview \in [age : {"none", "new", "valid"}, backup : BOOLEAN]
    /\ \A i \in Ids : file[i] # NoFile =>
        /\ i <= jobs /\ Holds(file[i].conf, Sections)
        /\ file[i].whole =>
            \A n \in BNodes : file[i].conf["node_group_mapping"][n]
                                  \in file[i].conf["groups"] \cup {"none"}

\* The job: what it has exported is what the tables hold unless somebody edited,
\* its archive is not about to be deleted, and from the mark on it is protected.
JobInv ==
    /\ bjob \in BackupJobs \cup {NoJob}
    /\ secret \in Nat /\ secret <= jobs
    /\ bjob # NoJob =>
        /\ bjob.id <= jobs /\ dreq # bjob.id
        /\ bjob.at # "start" => secret < jobs /\ ~bjob.done
        /\ bjob.kind = "restore" => bjob.from # 0
        /\ bjob.at \in {"commit", "start"} => ~web /\ dreq = 0
        /\ bjob.at \in {"mark", "stop", "commit", "start"} => Protects(bjob.kind)
        /\ bjob.at = "verify" => bjob.read = 1
        /\ bjob.at = "export" => bjob.read <= 5
        /\ bjob.at = "write" => bjob.read = 6
        /\ bjob.at \in {"verify", "export", "write"} =>
            /\ Holds(bjob.conf, ReadBefore(bjob.read))
            /\ bjob.quiet => \A s \in DOMAIN bjob.conf : bjob.conf[s] = Current(s)
        /\ bjob.saves /\ bjob.at \in {"mark", "check", "stop", "commit"} =>
            /\ file[bjob.id] # NoFile
            /\ bjob.quiet => \A s \in Sections : file[bjob.id].conf[s] = Current(s)
        /\ bjob.saves /\ bjob.at \in {"check", "stop", "commit"} /\ Protects(bjob.kind) =>
            bjob.id \in mark \cup unmarked

\* What a transaction that replaced the configuration has left.
DoneInv ==
    Works("start") /\ bjob.done =>
        /\ ActorStands
        /\ bjob.kind = "restore" => file[bjob.from] # NoFile
        /\ RoundTrip

BackupInv == ConfInv /\ ArchiveInv /\ JobInv /\ DoneInv

-----------------------------------------------------------------------------
LEMMA SectionsAre ==
    /\ Len(Order) = 5
    /\ Order[1] = "users" /\ Order[2] = "api_keys" /\ Order[3] = "settings"
    /\ Order[4] = "groups" /\ Order[5] = "node_group_mapping"
    /\ Sections = {"users", "api_keys", "settings", "groups", "node_group_mapping"}
  BY DEF Order, Sections

LEMMA ReadSections ==
    /\ ReadBefore(1) = {} /\ ReadBefore(6) = Sections
    /\ \A k \in 1..6 : ReadBefore(k) \subseteq Sections
    /\ \A k \in 1..5 : ReadBefore(k + 1) = ReadBefore(k) \cup {Order[k]}
<1>1. DOMAIN Order = 1..5
  BY DEF Order
<1>2. ReadBefore(1) = {} /\ ReadBefore(6) = Sections
  BY <1>1 DEF ReadBefore, Sections
<1>3. \A k \in 1..6 : ReadBefore(k) \subseteq Sections
  BY <1>1 DEF ReadBefore, Sections
<1>4. ASSUME NEW k \in 1..5
      PROVE  ReadBefore(k + 1) = ReadBefore(k) \cup {Order[k]}
  <2>1. \A j \in 1..((k + 1) - 1) : j \in 1..(k - 1) \/ j = k
    OBVIOUS
  <2> QED
    BY <2>1 DEF ReadBefore
<1> QED
  BY <1>2, <1>3, <1>4

\* What is exported is of the section's type.
LEMMA CurrentTyped ==
    ASSUME ConfInv, NEW s \in Sections
    PROVE  Current(s) \in SectionValues(s)
<1>1. CASE s = "users"
  BY <1>1 DEF Current, SectionValues, ConfInv
<1>2. CASE s = "api_keys" \/ s = "settings"
  BY <1>2 DEF Current, SectionValues, ConfInv
<1>3. CASE s = "groups"
  BY <1>3 DEF Current, SectionValues, ConfInv
<1>4. CASE s = "node_group_mapping"
  BY <1>4 DEF Current, SectionValues, ConfInv
<1> QED
  BY <1>1, <1>2, <1>3, <1>4, SectionsAre

LEMMA HoldsIsConf ==
    ASSUME NEW c, NEW T \in SUBSET Sections, Holds(c, T), c = [s \in DOMAIN c |-> c[s]]
    PROVE  c \in Confs
<1>1. \A s \in T : c[s] \in UNION {SectionValues(t) : t \in Sections}
  BY DEF Holds
<1>2. c \in [T -> UNION {SectionValues(t) : t \in Sections}]
  BY <1>1 DEF Holds
<1> QED
  BY <1>2 DEF Confs

LEMMA BackupInitially == BackupInit => BackupInv
<1> SUFFICES ASSUME BackupInit PROVE BackupInv
  OBVIOUS
<1>1. ConfInv
  BY DEF BackupInit, ConfInv, MappingKept, Nobody, UserRoles
<1>2. ArchiveInv
  BY DEF BackupInit, ArchiveInv, Ids, NoPreview
<1>3. JobInv /\ DoneInv
  BY DEF BackupInit, JobInv, DoneInv, Works
<1> QED
  BY <1>1, <1>2, <1>3 DEF BackupInv

(***************************************************************************)
(* Edits                                                                   *)
(***************************************************************************)
\* An edit makes every export under way one of more than one moment, and
\* there is none while the web service is stopped.
LEMMA EditKeeps ==
    ASSUME BackupInv, Edit, ConfInv'
    PROVE  BackupInv'
<1>1. /\ web
      /\ UNCHANGED <<secret, file, mark, dreq, web, jobs, unmarked, preview>>
      /\ bjob' = IF bjob = NoJob THEN NoJob ELSE [bjob EXCEPT !.quiet = FALSE]
  BY DEF Edit
<1>2. ArchiveInv'
  BY <1>1 DEF BackupInv, ArchiveInv
<1>3. CASE bjob = NoJob
  BY <1>1, <1>2, <1>3 DEF BackupInv, JobInv, DoneInv, Works
<1>4. CASE bjob # NoJob
  <2>1. bjob \in BackupJobs /\ bjob.at \notin {"commit", "start"}
    BY <1>1, <1>4 DEF BackupInv, JobInv
  <2>2. /\ bjob' \in BackupJobs /\ ~bjob'.quiet /\ bjob' # NoJob
        /\ bjob'.at = bjob.at /\ bjob'.kind = bjob.kind /\ bjob'.from = bjob.from
        /\ bjob'.saves = bjob.saves /\ bjob'.id = bjob.id /\ bjob'.read = bjob.read
        /\ bjob'.done = bjob.done /\ bjob'.conf = bjob.conf
    BY <1>1, <1>4, <2>1 DEF BackupJobs, NoJob
  <2>3. JobInv'
    BY <1>1, <1>4, <2>1, <2>2 DEF BackupInv, JobInv
  <2>4. DoneInv'
    BY <2>1, <2>2 DEF DoneInv, Works
  <2> QED
    BY <1>2, <2>3, <2>4 DEF BackupInv
<1> QED
  BY <1>3, <1>4

LEMMA EditsKeep ==
    ASSUME BackupInv,
           \/ \E p \in People, r \in {"none", "viewer", "super_admin"} : EditUser(p, r)
           \/ \E s \in {"api_keys", "settings"} : EditRows(s)
           \/ \E g \in BGroups : EditGroup(g)
           \/ \E n \in BNodes, g \in BGroups \cup {"Ungrouped"} : EditNode(n, g)
           \/ \E n \in BNodes : NodeAppears(n) \/ NodeLeaves(n)
    PROVE  BackupInv'
<1>1. ASSUME NEW p \in People, NEW r \in {"none", "viewer", "super_admin"}, EditUser(p, r)
      PROVE  BackupInv'
  <2>1. UNCHANGED <<vers, groups, memberOf, pending, promise>>
    BY <1>1 DEF EditUser
  <2>2. person' \in [People -> [role : UserRoles, uid : Nat]]
    BY <1>1 DEF EditUser, BackupInv, ConfInv, UserRoles
  <2>3. \E q \in People : person'[q].role = "super_admin"
    BY <1>1 DEF EditUser, BackupInv, ConfInv
  <2>4. ConfInv'
    BY <2>1, <2>2, <2>3 DEF BackupInv, ConfInv, MappingKept
  <2> QED
    BY <1>1, <2>4, EditKeeps DEF EditUser
<1>2. ASSUME NEW s \in {"api_keys", "settings"}, EditRows(s)
      PROVE  BackupInv'
  <2>1. ConfInv'
    BY <1>2 DEF EditRows, BackupInv, ConfInv, MappingKept
  <2> QED
    BY <1>2, <2>1, EditKeeps DEF EditRows
<1>3. ASSUME NEW g \in BGroups, EditGroup(g)
      PROVE  BackupInv'
  <2>1. UNCHANGED <<person, vers, memberOf, pending>>
    BY <1>3 DEF EditGroup
  <2>2. ASSUME groups' = groups \cup {g}, UNCHANGED promise
        PROVE  ConfInv'
    <3>1. groups' \subseteq BGroups
      BY <2>2 DEF BackupInv, ConfInv
    <3>2. \A n \in BNodes : memberOf[n] \in {"absent", "Ungrouped"} \cup groups'
      BY <2>2 DEF BackupInv, ConfInv
    <3>3. \A n \in BNodes : promise[n] \in groups' \cup {"none"}
      BY <2>2 DEF BackupInv, ConfInv
    <3>4. memberOf' \in [BNodes -> {"absent", "Ungrouped"} \cup groups']
      BY <2>1, <3>2 DEF BackupInv, ConfInv
    <3>5. promise' \in [BNodes -> groups' \cup {"none"}]
      BY <2>2, <3>3 DEF BackupInv, ConfInv
    <3>6. MappingKept'
      BY <2>1, <2>2 DEF BackupInv, ConfInv, MappingKept
    <3> QED
      BY <2>1, <3>1, <3>4, <3>5, <3>6 DEF BackupInv, ConfInv
  <2>3. ASSUME \A n \in BNodes : memberOf[n] # g, groups' = groups \ {g},
               promise' = [n \in BNodes |-> IF promise[n] = g THEN "none" ELSE promise[n]]
        PROVE  ConfInv'
    <3>1. groups' \subseteq BGroups
      BY <2>3 DEF BackupInv, ConfInv
    <3>2. \A n \in BNodes : memberOf[n] \in {"absent", "Ungrouped"} \cup groups'
      BY <2>3 DEF BackupInv, ConfInv
    <3>3. \A n \in BNodes : promise'[n] \in groups' \cup {"none"}
      BY <2>3 DEF BackupInv, ConfInv
    <3>4. memberOf' \in [BNodes -> {"absent", "Ungrouped"} \cup groups']
      BY <2>1, <3>2 DEF BackupInv, ConfInv
    <3>5. promise' \in [BNodes -> groups' \cup {"none"}]
      BY <2>3, <3>3
    <3>6. MappingKept'
      BY <2>1, <2>3 DEF BackupInv, ConfInv, MappingKept
    <3> QED
      BY <2>1, <3>1, <3>4, <3>5, <3>6 DEF BackupInv, ConfInv
  <2>4. ConfInv'
    BY <1>3, <2>2, <2>3 DEF EditGroup, BackupInv, ConfInv
  <2> QED
    BY <1>3, <2>4, EditKeeps DEF EditGroup
<1>4. ASSUME NEW n \in BNodes, NEW g \in BGroups \cup {"Ungrouped"}, EditNode(n, g)
      PROVE  BackupInv'
  <2>1. ConfInv'
    BY <1>4 DEF EditNode, BackupInv, ConfInv, MappingKept
  <2> QED
    BY <1>4, <2>1, EditKeeps DEF EditNode
<1>5. ASSUME NEW n \in BNodes, NodeAppears(n)
      PROVE  BackupInv'
  <2>1. ConfInv'
    BY <1>5 DEF NodeAppears, BackupInv, ConfInv, MappingKept
  <2> QED
    BY <1>5, <2>1, EditKeeps DEF NodeAppears
<1>6. ASSUME NEW n \in BNodes, NodeLeaves(n)
      PROVE  BackupInv'
  <2>1. ConfInv'
    BY <1>6 DEF NodeLeaves, BackupInv, ConfInv, MappingKept
  <2> QED
    BY <1>6, <2>1, EditKeeps DEF NodeLeaves
<1> QED
  BY <1>1, <1>2, <1>3, <1>4, <1>5, <1>6

(***************************************************************************)
(* Requests about backups                                                  *)
(***************************************************************************)
\* What leaves the tables alone leaves what a section holds.
LEMMA CurrentStays ==
    ASSUME UNCHANGED confVars
    PROVE  (ConfInv => ConfInv') /\ \A s \in Sections : Current(s)' = Current(s)
<1>1. ConfInv => ConfInv'
  BY DEF confVars, ConfInv, MappingKept
<1>2. \A s \in Sections : Current(s)' = Current(s)
  BY DEF confVars, Current
<1> QED
  BY <1>1, <1>2

LEMMA SubmitKeeps ==
    ASSUME BackupInv, NEW kind \in {"backup", "restore", "reset"}, NEW p \in People,
           NEW from \in Ids \cup {0}, NEW S \in SUBSET Sections, NEW saves \in BOOLEAN,
           Submit(kind, p, from, S, saves),
           preview' \in [age : {"none", "new", "valid"}, backup : BOOLEAN],
           kind = "restore" => from # 0, kind = "backup" => saves
    PROVE  BackupInv'
<1> DEFINE none == [s \in {} |-> 0]
           r == [at |-> IF kind = "restore" THEN "verify" ELSE IF saves THEN "export" ELSE "stop",
                 kind |-> kind, actor |-> p, uid |-> person[p].uid, from |-> from, sections |-> S,
                 saves |-> saves, id |-> jobs + 1, read |-> 1, quiet |-> TRUE, done |-> FALSE,
                 conf |-> none]
<1>1. /\ jobs < MaxJobs /\ jobs' = jobs + 1 /\ bjob = NoJob /\ web
      /\ bjob' = r /\ UNCHANGED <<confVars, fileVars, web, edits>>
  BY DEF Submit
<1>2. ConfInv' /\ ArchiveInv'
  <2>1. ConfInv'
    BY <1>1, CurrentStays DEF BackupInv
  <2>2. /\ UNCHANGED <<file, mark, dreq, unmarked, web>>
        /\ preview' \in [age : {"none", "new", "valid"}, backup : BOOLEAN]
        /\ jobs' \in 0..MaxJobs /\ jobs \in 0..MaxJobs /\ jobs <= jobs'
    BY <1>1 DEF BackupInv, ArchiveInv, fileVars
  <2>3. ArchiveInv'
    BY <2>2 DEF BackupInv, ArchiveInv, Ids
  <2> QED
    BY <2>1, <2>3
<1>3. none \in Confs /\ DOMAIN none = {} /\ Holds(none, {})
  <2>1. DOMAIN none = {} /\ none = [s \in DOMAIN none |-> none[s]]
    OBVIOUS
  <2>2. Holds(none, {})
    BY <2>1 DEF Holds
  <2> HIDE DEF none
  <2> QED
    BY <2>1, <2>2, HoldsIsConf
<1> HIDE DEF none
<1>4. r \in BackupJobs /\ r.at \in {"verify", "export", "stop"} /\ r.id = jobs + 1
  BY <1>1, <1>3 DEF BackupJobs, Phases, Ids, BackupInv, ConfInv, ArchiveInv
<1>5. /\ r.kind = kind /\ r.from = from /\ r.saves = saves /\ r.read = 1 /\ ~r.done
      /\ r.conf = none /\ (r.at = "stop" => ~saves /\ kind = "reset")
  OBVIOUS
<1>6. dreq # jobs + 1 /\ secret < jobs + 1 /\ secret \in Nat
  BY <1>1 DEF BackupInv, ArchiveInv, JobInv, fileVars
<1> HIDE DEF r
<1>8. JobInv'
  <2>1. bjob' # NoJob
    BY <1>1, <1>4 DEF BackupJobs, NoJob
  <2>2. Holds(r.conf, ReadBefore(r.read))
    BY <1>3, <1>5, ReadSections
  <2> QED
    BY <1>1, <1>3, <1>4, <1>5, <1>6, <2>1, <2>2 DEF JobInv, Protects, fileVars, confVars
<1>9. DoneInv'
  BY <1>1, <1>5 DEF DoneInv
<1> QED
  BY <1>2, <1>8, <1>9 DEF BackupInv

\* Requests that leave the tables and the job alone; an archive that a job
\* works on is not deleted, and what it has protected only loses its mark to
\* somebody who asks for that.
LEMMA ArchiveRequestKeeps ==
    ASSUME BackupInv, UNCHANGED <<confVars, bjob, web, jobs>>, ArchiveInv',
           bjob # NoJob => dreq' # bjob.id,
           ~web => dreq' = dreq,
           \A i \in Ids : bjob # NoJob /\ file[i] # NoFile =>
               \/ file'[i] # NoFile /\ file'[i].conf = file[i].conf
                                    /\ file'[i].whole = file[i].whole
               \/ web /\ i # bjob.id,
           mark \cup unmarked \subseteq mark' \cup unmarked'
    PROVE  BackupInv'
<1>1. ConfInv' /\ \A s \in Sections : Current(s)' = Current(s)
  BY CurrentStays DEF BackupInv
<1>2. JobInv'
  <2>1. CASE bjob = NoJob
    BY <2>1 DEF BackupInv, JobInv, confVars
  <2>2. CASE bjob # NoJob
    <3>1. bjob \in BackupJobs /\ bjob.id \in Ids
      BY <2>2 DEF BackupInv, JobInv, BackupJobs
    <3>2. file[bjob.id] # NoFile =>
              file'[bjob.id] # NoFile /\ file'[bjob.id].conf = file[bjob.id].conf
      BY <2>2, <3>1
    <3>3. bjob.at \in {"verify", "export", "write"} => DOMAIN bjob.conf \subseteq Sections
      BY <2>2, <3>1, ReadSections DEF BackupInv, JobInv, Holds, BackupJobs
    <3> QED
      BY <1>1, <2>2, <3>1, <3>2, <3>3 DEF BackupInv, JobInv, confVars
  <2> QED
    BY <2>1, <2>2
<1>3. DoneInv'
  <2> SUFFICES ASSUME Works("start"), bjob.done
               PROVE  /\ ActorStands
                      /\ bjob.kind = "restore" => file'[bjob.from] # NoFile
                      /\ RoundTrip'
    BY DEF DoneInv, Works, ActorStands, confVars
  <2>1. /\ ActorStands /\ RoundTrip /\ bjob \in BackupJobs /\ ~web
        /\ bjob.kind = "restore" => file[bjob.from] # NoFile /\ bjob.from \in Ids
    BY DEF BackupInv, DoneInv, JobInv, Works, BackupJobs
  <2>2. bjob.kind = "restore" =>
            /\ file'[bjob.from] # NoFile /\ file'[bjob.from].conf = file[bjob.from].conf
            /\ file'[bjob.from].whole = file[bjob.from].whole
    BY <2>1 DEF Works
  <2>3. Current("node_group_mapping")' = Current("node_group_mapping")
    BY <1>1, SectionsAre
  <2>4. RoundTrip'
    BY <2>1, <2>2, <2>3 DEF RoundTrip, Works, confVars
  <2> QED
    BY <2>1, <2>2, <2>4
<1> QED
  BY <1>1, <1>2, <1>3 DEF BackupInv

LEMMA RequestsKeep ==
    ASSUME ~DeleteOverlaps, BackupInv,
           \/ \E p \in People :
                \/ SubmitBackup(p)
                \/ \E i \in Ids, S \in Picks : SubmitRestore(p, i, S)
                \/ ConfirmReset(p)
           \/ \E saves \in BOOLEAN : PreviewReset(saves)
           \/ PreviewAges
           \/ \E i \in Ids : Protect(i) \/ Unprotect(i) \/ DeleteChecks(i) \/ Damage(i)
           \/ DeleteUnlinks
    PROVE  BackupInv'
<1>1. ASSUME NEW p \in People, SubmitBackup(p)
      PROVE  BackupInv'
  BY <1>1, SubmitKeeps DEF SubmitBackup, BackupInv, ArchiveInv
<1>2. ASSUME NEW p \in People, NEW i \in Ids, NEW S \in Picks, SubmitRestore(p, i, S)
      PROVE  BackupInv'
  <2>1. S \in SUBSET Sections /\ i # 0 /\ i \in Ids \cup {0}
    BY DEF Ids
  <2>2. /\ Submit("restore", p, i, S, TRUE)
        /\ preview' \in [age : {"none", "new", "valid"}, backup : BOOLEAN]
    BY <1>2 DEF SubmitRestore, BackupInv, ArchiveInv
  <2> QED
    BY <2>1, <2>2, SubmitKeeps
<1>3. ASSUME NEW p \in People, ConfirmReset(p)
      PROVE  BackupInv'
  <2>1. preview.backup \in BOOLEAN
    BY DEF BackupInv, ArchiveInv
  <2> QED
    BY <1>3, <2>1, SubmitKeeps DEF ConfirmReset, NoPreview
<1>4. ASSUME \/ \E saves \in BOOLEAN : PreviewReset(saves)
             \/ PreviewAges
      PROVE  BackupInv'
  <2>1. /\ UNCHANGED <<confVars, bjob, web, jobs, file, mark, dreq, unmarked>>
        /\ \/ \E saves \in BOOLEAN : preview' = [age |-> "new", backup |-> saves]
           \/ preview' = [preview EXCEPT !.age = "valid"]
           \/ preview' = [age |-> "none", backup |-> TRUE]
    BY <1>4 DEF PreviewReset, PreviewAges, NoPreview, fileVars
  <2>2. preview' \in [age : {"none", "new", "valid"}, backup : BOOLEAN]
    <3>1. preview \in [age : {"none", "new", "valid"}, backup : BOOLEAN]
      BY DEF BackupInv, ArchiveInv
    <3>2. CASE preview' = [preview EXCEPT !.age = "valid"]
      BY <3>1, <3>2
    <3>3. ASSUME NEW b \in BOOLEAN, NEW t \in {"none", "new"},
                 preview' = [age |-> t, backup |-> b]
          PROVE  preview' \in [age : {"none", "new", "valid"}, backup : BOOLEAN]
      BY <3>3
    <3> QED
      BY <2>1, <3>2, <3>3
  <2>3. ArchiveInv'
    BY <2>1, <2>2 DEF BackupInv, ArchiveInv
  <2> QED
    BY <2>1, <2>3, ArchiveRequestKeeps DEF BackupInv, JobInv
<1>5. ASSUME NEW i \in Ids, Protect(i)
      PROVE  BackupInv'
  <2>1. /\ UNCHANGED <<confVars, bjob, web, jobs, preview, file, dreq, unmarked>>
        /\ mark' = mark \cup {i}
    BY <1>5 DEF Protect
  <2>2. ArchiveInv'
    BY <2>1 DEF BackupInv, ArchiveInv
  <2> QED
    BY <2>1, <2>2, ArchiveRequestKeeps DEF BackupInv, JobInv
<1>6. ASSUME NEW i \in Ids, Unprotect(i)
      PROVE  BackupInv'
  <2>1. /\ UNCHANGED <<confVars, bjob, web, jobs, preview, file, dreq>>
        /\ mark' = mark \ {i} /\ unmarked' = unmarked \cup {i}
    BY <1>6 DEF Unprotect
  <2>2. ArchiveInv'
    BY <2>1 DEF BackupInv, ArchiveInv
  <2> QED
    BY <2>1, <2>2, ArchiveRequestKeeps DEF BackupInv, JobInv
<1>7. ASSUME NEW i \in Ids, DeleteChecks(i)
      PROVE  BackupInv'
  <2>1. /\ UNCHANGED <<confVars, bjob, web, jobs, preview, file, mark, unmarked>>
        /\ dreq' = i /\ file[i] # NoFile /\ web
        /\ bjob # NoJob => bjob.id # i
    BY <1>7 DEF DeleteChecks, Offered, Listed
  <2>2. ArchiveInv'
    BY <2>1 DEF BackupInv, ArchiveInv, Ids
  <2> QED
    BY <2>1, <2>2, ArchiveRequestKeeps
<1>8. ASSUME NEW i \in Ids, Damage(i)
      PROVE  BackupInv'
  <2>1. /\ UNCHANGED <<confVars, bjob, web, jobs, preview, mark, dreq, unmarked>>
        /\ file[i] # NoFile /\ file' = [file EXCEPT ![i].sound = FALSE]
        /\ file[i] \in Archives
    BY <1>8 DEF Damage, BackupInv, ArchiveInv
  <2>2. ASSUME NEW j \in Ids
        PROVE  /\ file'[j] \in Archives \cup {NoFile}
               /\ file[j] # NoFile =>
                    /\ file'[j].conf = file[j].conf /\ file'[j].whole = file[j].whole
                    /\ file'[j] # NoFile
               /\ file[j] = NoFile => file'[j] = NoFile
    BY <2>1 DEF BackupInv, ArchiveInv, Archives, NoFile
  <2>3. ArchiveInv'
    BY <2>1, <2>2 DEF BackupInv, ArchiveInv
  <2> QED
    BY <2>1, <2>2, <2>3, ArchiveRequestKeeps DEF BackupInv, JobInv
<1>9. CASE DeleteUnlinks
  <2>1. /\ UNCHANGED <<confVars, bjob, web, jobs, preview, mark, unmarked>>
        /\ web /\ dreq # 0 /\ dreq' = 0 /\ file' = [file EXCEPT ![dreq] = NoFile]
    BY <1>9 DEF DeleteUnlinks
  <2>2. dreq \in Ids
    BY <2>1 DEF BackupInv, ArchiveInv, Ids
  <2>3. \A i \in Ids : file'[i] = IF i = dreq THEN NoFile ELSE file[i]
    BY <2>1 DEF BackupInv, ArchiveInv
  <2>4. ArchiveInv'
    BY <2>1, <2>2, <2>3 DEF BackupInv, ArchiveInv
  <2>5. bjob # NoJob => bjob.id # dreq /\ bjob.id # 0
    BY DEF BackupInv, JobInv, BackupJobs, Ids
  <2> QED
    BY <2>1, <2>3, <2>5, <2>4, ArchiveRequestKeeps
<1> QED
  BY <1>1, <1>2, <1>3, <1>4, <1>5, <1>6, <1>7, <1>8, <1>9

(***************************************************************************)
(* The worker                                                              *)
(***************************************************************************)
\* The job ends: the web service is up, or as it was.
LEMMA JobEnds ==
    ASSUME BackupInv, bjob' = NoJob, web' \in {web, TRUE},
           UNCHANGED <<confVars, file, mark, dreq, unmarked, jobs, preview>>
    PROVE  BackupInv'
<1>1. ConfInv'
  BY CurrentStays DEF BackupInv
<1>2. ArchiveInv'
  BY DEF BackupInv, ArchiveInv
<1>3. JobInv' /\ DoneInv'
  BY DEF BackupInv, JobInv, DoneInv, Works, confVars
<1> QED
  BY <1>1, <1>2, <1>3 DEF BackupInv

\* A step of the job before the transaction: the tables stay.
LEMMA PhaseKeeps ==
    ASSUME BackupInv, UNCHANGED <<confVars, jobs, preview>>, ArchiveInv',
           NEW r \in BackupJobs, bjob' = r, bjob # NoJob,
           bjob.at \notin {"start"}, r.at # "start" \/ bjob.at = "commit", ~r.done,
           r.id = bjob.id, r.kind = bjob.kind, r.from = bjob.from, r.saves = bjob.saves,
           dreq' # r.id,
           r.at \in {"commit", "start"} => ~web' /\ dreq' = 0,
           r.at \in {"mark", "stop", "commit", "start"} => Protects(r.kind),
           r.at # "verify",
           r.at = "export" => r.read <= 5,
           r.at = "write" => r.read = 6,
           r.at \in {"export", "write"} =>
               /\ Holds(r.conf, ReadBefore(r.read))
               /\ r.quiet => \A s \in DOMAIN r.conf : r.conf[s] = Current(s),
           r.saves /\ r.at \in {"mark", "check", "stop", "commit"} =>
               /\ file'[r.id] # NoFile
               /\ r.quiet => \A s \in Sections : file'[r.id].conf[s] = Current(s),
           r.saves /\ r.at \in {"check", "stop", "commit"} /\ Protects(r.kind) =>
               r.id \in mark' \cup unmarked'
    PROVE  BackupInv'
<1>1. ConfInv' /\ \A s \in Sections : Current(s)' = Current(s)
  BY CurrentStays DEF BackupInv
<1>2. r # NoJob
  BY DEF BackupJobs, NoJob
<1>3. r.at \in {"export", "write"} => DOMAIN r.conf \subseteq Sections
  BY ReadSections DEF Holds, BackupJobs
<1>4. JobInv'
  BY <1>1, <1>2, <1>3 DEF BackupInv, JobInv, confVars
<1>5. DoneInv'
  BY DEF DoneInv
<1> QED
  BY <1>1, <1>4, <1>5 DEF BackupInv

LEMMA WorkerKeeps ==
    ASSUME BackupInv,
           \/ VerifyFirst \/ ExportSection \/ WriteArchive \/ MarkArchive \/ CheckArchive
           \/ StopForJob \/ CommitFails
    PROVE  BackupInv'
<1>1. /\ bjob \in BackupJobs /\ bjob # NoJob /\ bjob.id \in Ids
      /\ bjob.at # "start" /\ ~bjob.done
  BY DEF VerifyFirst, ExportSection, WriteArchive, MarkArchive, CheckArchive, StopForJob,
         CommitFails, Works, BackupInv, JobInv, BackupJobs
<1>2. CASE VerifyFirst
  <2>1. /\ bjob.at = "verify" /\ UNCHANGED <<confVars, fileVars, preview, web, jobs, edits>>
        /\ bjob' = NoJob \/ bjob' = [bjob EXCEPT !.at = "export"]
    BY <1>2 DEF VerifyFirst, Works, Fails
  <2>2. ArchiveInv'
    BY <2>1 DEF BackupInv, ArchiveInv, fileVars
  <2>3. CASE bjob' = [bjob EXCEPT !.at = "export"]
    <3> DEFINE r == [bjob EXCEPT !.at = "export"]
    <3>1. /\ r \in BackupJobs /\ r.at = "export" /\ r.done = bjob.done /\ r.id = bjob.id
          /\ r.kind = bjob.kind /\ r.from = bjob.from /\ r.saves = bjob.saves
          /\ r.read = bjob.read /\ r.conf = bjob.conf /\ r.quiet = bjob.quiet
      BY <1>1 DEF BackupJobs, Phases
    <3>2. bjob' = r
      BY <2>3
    <3> HIDE DEF r
    <3> QED
      BY <1>1, <2>1, <2>2, <3>1, <3>2, PhaseKeeps DEF BackupInv, JobInv, fileVars
  <2> QED
    BY <2>1, <2>3, JobEnds DEF fileVars
<1>3. CASE MarkArchive
  <2> DEFINE r == [bjob EXCEPT !.at = "check"]
  <2>1. /\ bjob.at = "mark" /\ mark' = mark \cup {bjob.id} /\ bjob' = r
        /\ UNCHANGED <<confVars, file, dreq, unmarked, preview, web, jobs, edits>>
    BY <1>3 DEF MarkArchive, Works
  <2>2. ArchiveInv'
    BY <1>1, <2>1 DEF BackupInv, ArchiveInv
  <2>3. /\ r \in BackupJobs /\ r.at = "check" /\ r.done = bjob.done /\ r.id = bjob.id
        /\ r.kind = bjob.kind /\ r.from = bjob.from /\ r.saves = bjob.saves
        /\ r.quiet = bjob.quiet
    BY <1>1 DEF BackupJobs, Phases
  <2> HIDE DEF r
  <2> QED
    BY <1>1, <2>1, <2>2, <2>3, PhaseKeeps DEF BackupInv, JobInv
<1>4. CASE CheckArchive
  <2>1. /\ bjob.at = "check" /\ UNCHANGED <<confVars, fileVars, preview, web, jobs, edits>>
        /\ \/ bjob' = NoJob
           \/ bjob' = [bjob EXCEPT !.at = "stop"] /\ bjob.kind # "backup"
    BY <1>4 DEF CheckArchive, Works, Fails
  <2>2. ArchiveInv'
    BY <2>1 DEF BackupInv, ArchiveInv, fileVars
  <2>3. CASE bjob' = [bjob EXCEPT !.at = "stop"] /\ bjob.kind # "backup"
    <3> DEFINE r == [bjob EXCEPT !.at = "stop"]
    <3>1. /\ r \in BackupJobs /\ r.at = "stop" /\ r.done = bjob.done /\ r.id = bjob.id
          /\ r.kind = bjob.kind /\ r.from = bjob.from /\ r.saves = bjob.saves
          /\ r.quiet = bjob.quiet
      BY <1>1 DEF BackupJobs, Phases
    <3>2. Protects(bjob.kind) /\ bjob' = r
      BY <1>1, <2>3 DEF BackupJobs, Protects
    <3> HIDE DEF r
    <3> QED
      BY <1>1, <2>1, <2>2, <3>1, <3>2, PhaseKeeps, SMTT(30) DEF BackupInv, JobInv, fileVars
  <2> QED
    BY <2>1, <2>3, JobEnds DEF fileVars
<1>5. CASE StopForJob
  <2> DEFINE r == [bjob EXCEPT !.at = "commit"]
  <2>1. /\ bjob.at = "stop" /\ web' = FALSE /\ dreq' = 0 /\ bjob' = r
        /\ UNCHANGED <<confVars, file, mark, unmarked, preview, jobs, edits>>
    BY <1>5 DEF StopForJob, Works
  <2>2. ArchiveInv'
    <3>1. 0 \in 0..jobs
      BY DEF BackupInv, ArchiveInv
    <3> QED
      BY <2>1, <3>1 DEF BackupInv, ArchiveInv
  <2>3. /\ r \in BackupJobs /\ r.at = "commit" /\ r.done = bjob.done /\ r.id = bjob.id
        /\ r.kind = bjob.kind /\ r.from = bjob.from /\ r.saves = bjob.saves
        /\ r.quiet = bjob.quiet /\ r.id # 0
    BY <1>1, SMTT(40) DEF BackupJobs, Phases, Ids
  <2> HIDE DEF r
  <2> QED
    BY <1>1, <2>1, <2>2, <2>3, PhaseKeeps DEF BackupInv, JobInv
<1>6. CASE CommitFails
  <2> DEFINE r == [bjob EXCEPT !.at = "start"]
  <2>1. /\ bjob.at = "commit" /\ bjob' = r
        /\ UNCHANGED <<confVars, fileVars, preview, web, jobs, edits>>
    BY <1>6 DEF CommitFails, Works
  <2>2. ArchiveInv'
    BY <2>1 DEF BackupInv, ArchiveInv, fileVars
  <2>3. /\ r \in BackupJobs /\ r.at = "start" /\ r.done = bjob.done /\ r.id = bjob.id
        /\ r.kind = bjob.kind /\ r.from = bjob.from /\ r.saves = bjob.saves
        /\ r.quiet = bjob.quiet /\ r.id # 0
    <3>1. bjob \in BackupJobs /\ bjob.id # 0 /\ "start" \in Phases
      BY <1>1, <2>1 DEF BackupInv, JobInv, Phases
    <3> QED
      BY <3>1 DEF BackupJobs
  <2> HIDE DEF r
  <2> QED
    BY <1>1, <2>1, <2>2, <2>3, PhaseKeeps DEF BackupInv, JobInv, fileVars
<1>7. CASE ExportSection
  <2> DEFINE k == bjob.read
             s == Order[k]
             c == [t \in DOMAIN bjob.conf \cup {s} |-> IF t = s THEN Current(s) ELSE bjob.conf[t]]
             r == [bjob EXCEPT !.conf = c, !.quiet = @ \/ k = 1, !.read = @ + 1,
                               !.at = IF k = Len(Order) THEN "write" ELSE "export"]
  <2>1. /\ bjob.at = "export" /\ UNCHANGED <<confVars, fileVars, preview, web, jobs, edits>>
        /\ bjob' = r
    BY <1>7 DEF ExportSection, Works
  <2>2. ArchiveInv'
    BY <2>1 DEF BackupInv, ArchiveInv, fileVars
  <2>3. /\ k \in 1..5 /\ s \in Sections /\ Holds(bjob.conf, ReadBefore(k))
        /\ bjob.quiet \in BOOLEAN
        /\ bjob.quiet => \A t \in DOMAIN bjob.conf : bjob.conf[t] = Current(t)
    BY <1>1, <2>1, SectionsAre DEF BackupInv, JobInv, BackupJobs
  <2>4. DOMAIN c = ReadBefore(k + 1) /\ ReadBefore(k + 1) \subseteq Sections
    BY <2>3, ReadSections DEF Holds
  <2>5. Holds(c, ReadBefore(k + 1))
    <3>1. Current(s) \in SectionValues(s)
      BY <2>3, CurrentTyped DEF BackupInv
    <3>2. \A t \in DOMAIN bjob.conf : bjob.conf[t] \in SectionValues(t)
      BY <2>3 DEF Holds
    <3>3. \A t \in DOMAIN c : c[t] \in SectionValues(t)
      BY <3>1, <3>2
    <3> QED
      BY <2>4, <3>3 DEF Holds
  <2>6. bjob.quiet \/ k = 1 => \A t \in DOMAIN c : c[t] = Current(t)
    <3>1. k = 1 => DOMAIN bjob.conf = {}
      BY <2>3, ReadSections DEF Holds
    <3> QED
      BY <2>3, <3>1
  <2>7. c = [t \in DOMAIN c |-> c[t]]
    OBVIOUS
  <2> HIDE DEF c
  <2>8. c \in Confs
    BY <2>4, <2>5, <2>7, HoldsIsConf
  <2>9. /\ r.done = bjob.done /\ r.id = bjob.id /\ r.conf = c /\ r.read = k + 1
        /\ r.kind = bjob.kind /\ r.from = bjob.from /\ r.saves = bjob.saves
        /\ r.quiet = (bjob.quiet \/ k = 1)
        /\ r.at = IF k = 5 THEN "write" ELSE "export"
    BY <1>1, SectionsAre DEF BackupJobs
  <2>10. r \in BackupJobs
    <3>1. k + 1 \in 1..6 /\ (bjob.quiet \/ k = 1) \in BOOLEAN
      BY <2>3
    <3> QED
      BY <1>1, <2>8, <3>1 DEF BackupJobs, Phases
  <2> HIDE DEF r
  <2> QED
    BY <1>1, <2>1, <2>2, <2>3, <2>5, <2>6, <2>9, <2>10, PhaseKeeps
       DEF BackupInv, JobInv, fileVars
<1>8. CASE WriteArchive
  <2> DEFINE a == [sound |-> TRUE, conf |-> bjob.conf, whole |-> bjob.quiet]
             r == [bjob EXCEPT !.at = IF Protects(bjob.kind) THEN "mark" ELSE "check"]
  <2>1. /\ bjob.at = "write" /\ UNCHANGED <<confVars, mark, dreq, unmarked, preview, web, jobs>>
        /\ bjob' = r /\ file' = [file EXCEPT ![bjob.id] = a]
    BY <1>8 DEF WriteArchive, Works
  <2>2. /\ Holds(bjob.conf, Sections) /\ bjob.id <= jobs
        /\ bjob.quiet => \A s \in Sections : bjob.conf[s] = Current(s)
    BY <1>1, <2>1, ReadSections DEF BackupInv, JobInv, Holds
  <2>3. a \in Archives /\ a.conf = bjob.conf /\ a.whole = bjob.quiet /\ a # NoFile
    BY <1>1 DEF Archives, BackupJobs, NoFile
  <2>4. a.whole => \A n \in BNodes : a.conf["node_group_mapping"][n]
                                          \in a.conf["groups"] \cup {"none"}
    <3> SUFFICES ASSUME bjob.quiet, NEW n \in BNodes
                 PROVE  Current("node_group_mapping")[n] \in Current("groups") \cup {"none"}
      BY <2>2, <2>3, SectionsAre
    <3> QED
      BY DEF Current, BackupInv, ConfInv
  <2> HIDE DEF a
  <2>5. ArchiveInv'
    BY <1>1, <2>1, <2>2, <2>3, <2>4 DEF BackupInv, ArchiveInv
  <2>6. /\ r \in BackupJobs /\ r.at \in {"mark", "check"} /\ r.done = bjob.done
        /\ r.id = bjob.id /\ r.kind = bjob.kind /\ r.from = bjob.from
        /\ r.saves = bjob.saves /\ r.quiet = bjob.quiet
        /\ r.at = "mark" <=> Protects(r.kind)
    BY <1>1 DEF BackupJobs, Phases
  <2>7. file'[bjob.id] = a
    BY <1>1, <2>1 DEF BackupInv, ArchiveInv
  <2> HIDE DEF r
  <2> QED
    BY <1>1, <2>1, <2>2, <2>3, <2>5, <2>6, <2>7, PhaseKeeps DEF BackupInv, JobInv
<1> QED
  BY <1>2, <1>3, <1>4, <1>5, <1>6, <1>7, <1>8

\* The transaction ends the job's work on the tables: they are what ConfInv
\* says, the actor stands, and a restore has given back what it read.
LEMMA CommitKeeps ==
    ASSUME BackupInv, Works("commit"), ConfInv',
           bjob' = [bjob EXCEPT !.at = "start", !.done = TRUE],
           secret' \in {secret, secret + 1},
           UNCHANGED <<fileVars, preview, web, jobs, edits>>,
           person'[bjob.actor] = [role |-> "super_admin", uid |-> bjob.uid],
           bjob.kind = "restore" => file[bjob.from] # NoFile,
           RoundTrip'
    PROVE  BackupInv'
<1>1. /\ bjob \in BackupJobs /\ bjob # NoJob /\ bjob.at = "commit"
      /\ bjob' \in BackupJobs /\ bjob'.at = "start" /\ bjob'.done
      /\ bjob'.id = bjob.id /\ bjob'.kind = bjob.kind /\ bjob'.from = bjob.from
      /\ bjob'.actor = bjob.actor /\ bjob'.uid = bjob.uid /\ bjob'.saves = bjob.saves
  BY DEF Works, BackupInv, JobInv, BackupJobs, Phases
<1>2. bjob' # NoJob
  BY <1>1 DEF BackupJobs, NoJob
<1>3. ArchiveInv'
  BY DEF BackupInv, ArchiveInv, fileVars
<1>4. JobInv'
  <2>1. /\ secret \in Nat /\ secret < jobs /\ jobs \in Nat
        /\ bjob.id <= jobs /\ dreq # bjob.id /\ ~web /\ dreq = 0 /\ Protects(bjob.kind)
        /\ bjob.kind = "restore" => bjob.from # 0
    BY <1>1 DEF BackupInv, JobInv, ArchiveInv
  <2>2. secret' \in Nat /\ secret' <= jobs
    BY <2>1
  <2> QED
    BY <1>1, <1>2, <2>1, <2>2 DEF JobInv, fileVars
<1>5. DoneInv'
  BY <1>1 DEF DoneInv, ActorStands, fileVars
<1> QED
  BY <1>3, <1>4, <1>5 DEF BackupInv

\* What a mapping gives to a node is a group that the restore leaves.
LEMMA GivenKnown ==
    ASSUME NEW S, NEW c, NEW n \in BNodes
    PROVE  Given(S, c, n) \in Known(S, c) \cup {"none"}
  BY DEF Given

LEMMA RestoreKeeps ==
    ASSUME BackupInv, CommitRestore
    PROVE  BackupInv'
<1> DEFINE f == file[bjob.from]
           c == f.conf
           S == bjob.sections
           G == Known(S, c)
<1>1. /\ Works("commit") /\ bjob.kind = "restore" /\ f # NoFile /\ ActorStands
      /\ person' = IF "users" \in S THEN RestoredUsers(c, bjob.actor) ELSE person
      /\ vers' = [s \in DOMAIN vers |-> IF s \in S THEN c[s] ELSE vers[s]]
      /\ groups' = G
      /\ memberOf' = [n \in BNodes |->
            IF memberOf[n] # "absent" /\ Given(S, c, n) # "none" THEN Given(S, c, n)
            ELSE RestoredMembers(S, c)[n]]
      /\ pending' = RestoredPending(S, c)
      /\ secret' = IF "users" \in S THEN secret + 1 ELSE secret
      /\ promise' = Promised(S, f)
      /\ bjob' = [bjob EXCEPT !.at = "start", !.done = TRUE]
      /\ UNCHANGED <<fileVars, preview, web, jobs, edits>>
  BY DEF CommitRestore, Verified
<1>2. /\ bjob \in BackupJobs /\ bjob # NoJob /\ bjob.from \in Ids /\ S \subseteq Sections
      /\ bjob.actor \in People
      /\ person[bjob.actor] = [role |-> "super_admin", uid |-> bjob.uid]
  BY <1>1 DEF Works, BackupInv, JobInv, BackupJobs, ActorStands
<1>3. /\ Holds(c, Sections)
      /\ f.whole => \A n \in BNodes : c["node_group_mapping"][n] \in c["groups"] \cup {"none"}
  BY <1>1, <1>2 DEF BackupInv, ArchiveInv
<1>4. /\ c["users"] \in [People -> UserRoles]
      /\ c["api_keys"] \in 0..2 /\ c["settings"] \in 0..2
      /\ c["groups"] \in SUBSET BGroups
      /\ c["node_group_mapping"] \in [BNodes -> BGroups \cup {"none"}]
  BY <1>3, SectionsAre DEF Holds, SectionValues
<1> HIDE DEF c, f, S
<1>5. G \subseteq BGroups
  BY <1>4 DEF Known, BackupInv, ConfInv
<1>6. \A n \in BNodes : Given(S, c, n) \in G \cup {"none"}
  BY GivenKnown
<1>7. person' \in [People -> [role : UserRoles, uid : Nat]]
  <2>1. person \in [People -> [role : UserRoles, uid : Nat]]
    BY DEF BackupInv, ConfInv
  <2> QED
    BY <1>1, <1>4, <2>1 DEF RestoredUsers, UserRoles
<1>8. vers' \in [{"api_keys", "settings"} -> 0..2]
  BY <1>1, <1>4 DEF BackupInv, ConfInv
<1>9. memberOf' \in [BNodes -> {"absent", "Ungrouped"} \cup groups']
  <2> SUFFICES ASSUME NEW n \in BNodes
               PROVE  memberOf'[n] \in {"absent", "Ungrouped"} \cup G
    BY <1>1
  <2>1. RestoredMembers(S, c)[n] \in {"absent", "Ungrouped"} \cup G
    BY DEF RestoredMembers, Known, BackupInv, ConfInv
  <2> QED
    BY <1>1, <1>6, <2>1
<1>10. pending' \in [BNodes -> BGroups \cup {"none"}]
  BY <1>1, <1>5, <1>6 DEF RestoredPending, BackupInv, ConfInv
<1>11. promise' \in [BNodes -> groups' \cup {"none"}]
  <2> SUFFICES ASSUME NEW n \in BNodes
               PROVE  Promised(S, f)[n] \in G \cup {"none"}
    BY <1>1 DEF Promised
  <2>1. CASE "node_group_mapping" \in S
    <3>1. CASE f.whole /\ "groups" \in S
      BY <1>3, <2>1, <3>1 DEF Promised, Known, c
    <3>2. CASE ~(f.whole /\ "groups" \in S)
      BY <1>6, <2>1, <3>2 DEF Promised, c
    <3> QED
      BY <3>1, <3>2
  <2>2. CASE "node_group_mapping" \notin S
    BY <2>2 DEF Promised, Known, BackupInv, ConfInv, c
  <2> QED
    BY <2>1, <2>2
<1>12. person'[bjob.actor] = [role |-> "super_admin", uid |-> bjob.uid]
  BY <1>1, <1>2 DEF RestoredUsers
\* The mapping of an archive of one moment is given to every node it names.
<1>13. ASSUME NEW n \in BNodes, "node_group_mapping" \in S, f.whole, "groups" \in S
       PROVE  Given(S, c, n) = c["node_group_mapping"][n]
  BY <1>3, <1>13 DEF Given, Known
<1>14. MappingKept'
  <2> SUFFICES ASSUME NEW n \in BNodes, promise'[n] # "none"
               PROVE  IF memberOf'[n] = "absent" THEN pending'[n] = promise'[n]
                      ELSE memberOf'[n] = promise'[n]
    BY DEF MappingKept
  <2>1. CASE "node_group_mapping" \in S
    <3>1. promise'[n] = Given(S, c, n)
      BY <1>1, <1>13, <2>1 DEF Promised, c
    <3>2. Given(S, c, n) \in BGroups /\ Given(S, c, n) # "absent"
      BY <1>5, <1>6, <3>1
    <3>3. CASE memberOf[n] = "absent"
      <4>1. memberOf'[n] = "absent"
        BY <1>1, <3>3 DEF RestoredMembers
      <4>2. pending'[n] = Given(S, c, n)
        BY <1>1, <2>1, <3>3 DEF RestoredPending
      <4> QED
        BY <3>1, <4>1, <4>2
    <3>4. CASE memberOf[n] # "absent"
      BY <1>1, <3>1, <3>2, <3>4
    <3> QED
      BY <3>3, <3>4
  <2>2. CASE "node_group_mapping" \notin S
    <3>1. Given(S, c, n) = "none" /\ pending' = pending
      BY <1>1, <2>2 DEF Given, RestoredPending
    <3>2. /\ promise'[n] = promise[n]
          /\ "groups" \notin S \/ memberOf[n] = "absent"
      BY <1>1, <2>2 DEF Promised
    <3>3. memberOf'[n] = memberOf[n]
      BY <1>1, <3>1, <3>2 DEF RestoredMembers
    <3> QED
      BY <3>1, <3>2, <3>3 DEF BackupInv, ConfInv, MappingKept
  <2> QED
    BY <2>1, <2>2
<1>15. ConfInv'
  BY <1>1, <1>2, <1>5, <1>7, <1>8, <1>9, <1>10, <1>11, <1>12, <1>14 DEF ConfInv
<1>16. RoundTrip'
  <2> SUFFICES ASSUME S = Sections, f.whole
               PROVE  /\ \A p \in People \ {bjob.actor} : person'[p].role = c["users"][p]
                      /\ vers' = [s \in DOMAIN vers' |-> c[s]] /\ groups' = c["groups"]
                      /\ \A n \in BNodes :
                            c["node_group_mapping"][n] =
                                IF memberOf'[n] = "absent" THEN pending'[n]
                                ELSE Current("node_group_mapping")'[n]
    <3>1. /\ bjob'.actor = bjob.actor /\ bjob'.sections = S /\ bjob'.from = bjob.from
          /\ file'[bjob.from] = f
      BY <1>1, <1>2 DEF BackupJobs, fileVars, f, S
    <3> QED
      BY <3>1 DEF RoundTrip, c
  <2>1. \A p \in People \ {bjob.actor} : person'[p].role = c["users"][p]
    <3>1. person \in [People -> [role : UserRoles, uid : Nat]] /\ "users" \in S
      BY SectionsAre DEF BackupInv, ConfInv
    <3> QED
      BY <1>1, <3>1 DEF RestoredUsers
  <2>2. vers' = [s \in DOMAIN vers' |-> c[s]]
    BY <1>1, SectionsAre DEF BackupInv, ConfInv
  <2>3. groups' = c["groups"]
    BY <1>1, SectionsAre DEF Known
  <2>4. ASSUME NEW n \in BNodes
        PROVE  c["node_group_mapping"][n] = IF memberOf'[n] = "absent" THEN pending'[n]
                                            ELSE Current("node_group_mapping")'[n]
    <3>1. /\ "node_group_mapping" \in S /\ "groups" \in S
          /\ Given(S, c, n) = c["node_group_mapping"][n]
          /\ Given(S, c, n) \in BGroups \cup {"none"}
      BY <1>5, <1>6, <1>13, SectionsAre
    <3>2. Current("node_group_mapping")'[n] =
              IF memberOf'[n] \in BGroups THEN memberOf'[n] ELSE "none"
      BY DEF Current
    <3>3. CASE memberOf[n] = "absent"
      <4>1. memberOf'[n] = "absent" /\ pending'[n] = Given(S, c, n)
        BY <1>1, <3>1, <3>3 DEF RestoredMembers, RestoredPending
      <4> QED
        BY <3>1, <4>1
    <3>4. CASE memberOf[n] # "absent"
      <4>1. memberOf'[n] = IF Given(S, c, n) # "none" THEN Given(S, c, n) ELSE "Ungrouped"
        BY <1>1, <3>1, <3>4 DEF RestoredMembers
      <4> QED
        BY <3>1, <3>2, <4>1
    <3> QED
      BY <3>3, <3>4
  <2> QED
    BY <2>1, <2>2, <2>3, <2>4
<1> QED
  BY <1>1, <1>12, <1>15, <1>16, CommitKeeps DEF f

LEMMA ResetKeeps ==
    ASSUME BackupInv, CommitReset
    PROVE  BackupInv'
<1>1. /\ Works("commit") /\ bjob.kind = "reset" /\ ActorStands
      /\ person' = [p \in People |-> IF p = bjob.actor THEN person[p]
                                     ELSE [person[p] EXCEPT !.role = "none"]]
      /\ vers' = [s \in DOMAIN vers |-> 0] /\ groups' = {}
      /\ memberOf' = [n \in BNodes |-> "absent"] /\ pending' = Nobody /\ promise' = Nobody
      /\ secret' = secret + 1
      /\ bjob' = [bjob EXCEPT !.at = "start", !.done = TRUE]
      /\ UNCHANGED <<fileVars, preview, web, jobs, edits>>
  BY DEF CommitReset
<1>2. /\ bjob \in BackupJobs /\ bjob # NoJob /\ bjob.actor \in People
      /\ person[bjob.actor] = [role |-> "super_admin", uid |-> bjob.uid]
      /\ person \in [People -> [role : UserRoles, uid : Nat]]
  BY <1>1 DEF Works, BackupInv, ConfInv, JobInv, BackupJobs, ActorStands
<1>3. person' \in [People -> [role : UserRoles, uid : Nat]]
  BY <1>1, <1>2 DEF UserRoles
<1>4. person'[bjob.actor] = [role |-> "super_admin", uid |-> bjob.uid]
  BY <1>1, <1>2
<1>5. ConfInv'
  BY <1>1, <1>2, <1>3, <1>4 DEF BackupInv, ConfInv, MappingKept, Nobody
<1>6. RoundTrip'
  BY <1>1, <1>2 DEF RoundTrip, BackupJobs
<1> QED
  BY <1>1, <1>4, <1>5, <1>6, CommitKeeps

LEMMA BackupStep ==
    ASSUME ~DeleteOverlaps
    PROVE  BackupInv /\ [BackupNext]_backupVars => BackupInv'
<1> SUFFICES ASSUME BackupInv, [BackupNext]_backupVars
             PROVE  BackupInv'
  OBVIOUS
<1>1. CASE UNCHANGED backupVars
  <2>1. ConfInv' /\ \A s \in Sections : Current(s)' = Current(s)
    BY <1>1, CurrentStays DEF backupVars, confVars, BackupInv
  <2>2. ArchiveInv'
    BY <1>1 DEF backupVars, BackupInv, ArchiveInv
  <2> QED
    BY <1>1, <2>2, ArchiveRequestKeeps DEF backupVars, confVars, BackupInv, JobInv
<1>2. CASE StartAgain \/ WorkerDies
  BY <1>2, JobEnds DEF StartAgain, WorkerDies, fileVars
<1>3. CASE BackupNext
  BY <1>2, <1>3, EditsKeep, RequestsKeep, WorkerKeeps, RestoreKeeps, ResetKeeps DEF BackupNext
<1> QED
  BY <1>1, <1>3

\* What the invariant says of the safety snapshot and of a restore.
LEMMA BackupImplies ==
    BackupInv => BackupTypeOK /\ ActorStays /\ MappingKept /\ SafetyHeld /\ RoundTrip
<1> SUFFICES ASSUME BackupInv
             PROVE  BackupTypeOK /\ ActorStays /\ MappingKept /\ SafetyHeld /\ RoundTrip
  OBVIOUS
<1>1. BackupTypeOK
  <2>1. \A i \in Ids : file[i] # NoFile => DOMAIN file[i].conf = Sections
    BY DEF BackupInv, ArchiveInv, Holds
  <2>2. secret \in 0..MaxJobs /\ dreq \in Ids \cup {0}
    BY DEF BackupInv, ArchiveInv, JobInv, Ids
  <2> QED
    BY <2>1, <2>2 DEF BackupTypeOK, BackupInv, ConfInv, ArchiveInv, UserRoles
<1>2. ActorStays
  BY DEF BackupInv, ConfInv, DoneInv, ActorStays
<1>3. SafetyHeld
  <2> SUFFICES ASSUME Works("commit"), bjob.saves
               PROVE  \/ bjob.id \in unmarked
                      \/ /\ file[bjob.id] # NoFile /\ bjob.id \in mark
                         /\ bjob.quiet => \A s \in Sections : file[bjob.id].conf[s] = Current(s)
    BY DEF SafetyHeld
  <2> QED
    BY DEF Works, BackupInv, JobInv
<1>4. RoundTrip
  BY DEF BackupInv, DoneInv, RoundTrip
<1> QED
  BY <1>1, <1>2, <1>3, <1>4 DEF BackupInv, ConfInv

\* create_configuration_backup, restore_configuration_backup and reset_app_data:
\* when data is about to be replaced its protected archive exists and holds it;
\* afterwards the actor stands, the tables are what an archive of one moment
\* holds, and a node has, or will have, the group the restore gave it.
THEOREM RestoresHold ==
    ASSUME ~DeleteOverlaps
    PROVE  BackupSpec =>
             [](BackupTypeOK /\ ActorStays /\ MappingKept /\ SafetyHeld /\ RoundTrip)
<1>1. BackupInit => BackupInv
  BY BackupInitially
<1>2. BackupInv /\ [BackupNext]_backupVars => BackupInv'
  BY BackupStep
<1>3. BackupInv => BackupTypeOK /\ ActorStays /\ MappingKept /\ SafetyHeld /\ RoundTrip
  BY BackupImplies
<1> QED
  BY <1>1, <1>2, <1>3, PTL DEF BackupSpec

-----------------------------------------------------------------------------
(* The scenes.                                                             *)

\* Each component of the control plane behaves as its own specification says,
\* whichever scene runs.
THEOREM ScenesImplement ==
    ScenesSpec => AccSpec /\ NGSpec /\ KeysSpec /\ BackupSpec /\ EmergencySpec
<1>1. ScenesInit => AccInit /\ NGInit /\ KeysInit /\ BackupInit /\ EmergencyInit
  BY DEF ScenesInit
<1>2. [ScenesNext]_cpVars => /\ [AccNext]_accVars /\ [NGNext]_ngVars /\ [KeysNext]_apiVars
                             /\ [BackupNext]_backupVars /\ [EmergencyNext]_emergencyVars
  <2>1. CASE ScenesNext
    BY <2>1 DEF ScenesNext
  <2>2. CASE UNCHANGED cpVars
    BY <2>2 DEF cpVars
  <2> QED
    BY <2>1, <2>2
<1> QED
  BY <1>1, <1>2, PTL DEF ScenesSpec, AccSpec, NGSpec, KeysSpec, BackupSpec, EmergencySpec

\* assign_nodes, delete_group and the history of memberships: in every scene
\* of any nodes, groups and administrators each node of the inventory has one
\* group that exists, and its history names it.
THEOREM GroupsAlwaysTell == ScenesSpec => []GroupsTell
<1>1. NGTypeOK /\ MembershipTotal /\ HistoryTells => GroupsTell
  BY DEF GroupsTell
<1> QED
  BY <1>1, ScenesImplement, GroupTypes, EveryNodeHasAGroup, HistoryNamesTheGroup, PTL

\* dashboard_allowed, while one request runs at a time, and require_api_scope
\* with any number of processes: whoever is let in has typed the password the
\* account has now, and keys are revoked, limited, logged and dated as they say.
THEOREM AccessAlwaysHolds ==
    ASSUME AccSlots = 1
    PROVE  ScenesSpec => []AccessHolds
<1>1. /\ AccTypeOK /\ ResetEndsSessions
      /\ KeyTypeOK /\ SupersededIsRevoked /\ RateHolds /\ DeletedLeavesNoLog /\ LastUsedRecent
      => AccessHolds
  BY DEF AccessHolds
<1>2. AccSpec => [](AccTypeOK /\ ResetEndsSessions)
  BY ResetsEndSessions
<1> QED
  BY <1>1, <1>2, ScenesImplement, KeysHold, PTL

\* create_configuration_backup, restore_configuration_backup, reset_app_data and
\* the full dumps: a restore keeps its actor and gives back what was saved, and
\* a reset finds the archive or dump it asked for; while deletions do not
\* overlap with the jobs.
THEOREM BackupsAlwaysHold ==
    ASSUME ~DeleteOverlaps, ~RemoveOverlaps
    PROVE  ScenesSpec => []BackupsHold
<1>1. /\ BackupTypeOK /\ ActorStays /\ MappingKept /\ SafetyHeld /\ RoundTrip
      /\ EmergencyTypeOK /\ VerifiedIsIntact /\ ResetHasDump
      => BackupsHold
  BY DEF BackupsHold
<1>2. BackupSpec => [](BackupTypeOK /\ ActorStays /\ MappingKept /\ SafetyHeld /\ RoundTrip)
  BY RestoresHold
<1>3. EmergencySpec => [](EmergencyTypeOK /\ VerifiedIsIntact /\ ResetHasDump)
  BY DumpsHold
<1> QED
  BY <1>1, <1>2, <1>3, ScenesImplement, PTL

\* admin_user_action, _can_manage_user, admin_change_password, ensure_schema and
\* delete_emergency_backup: no step removes the last Super Admin, touches one as
\* a regular Admin, changes a role with a password, promotes anybody without a
\* request, or removes a file of a protected dump.
THEOREM AdminsAlwaysGuarded ==
    ASSUME AccSlots = 1, ~RemoveOverlaps
    PROVE  ScenesSpec => AdminsGuarded
<1>1. AccSpec => SuperAdminRemains
  BY ASuperAdminRemains
<1>2. AccSpec => SuperIsBeyondAdmins /\ PasswordKeepsRole /\ OnlySupersPromote
  BY RolesAreGuarded
<1>3. EmergencySpec => ProtectedStays
  BY ProtectedDumpsStay
<1> QED
  BY <1>1, <1>2, <1>3, ScenesImplement DEF AdminsGuarded
=============================================================================
