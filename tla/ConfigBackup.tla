----------------------------- MODULE ConfigBackup -----------------------------
(***************************************************************************)
(* Configuration backups: a maintenance worker exports users, API keys,    *)
(* settings, groups and the groups of nodes, one statement each, while     *)
(* administrators go on editing; a restore or a nuclear reset first takes  *)
(* a protected safety backup, then stops the web service and replaces what *)
(* was selected in one transaction.  Groups of nodes that are not in the   *)
(* inventory wait until the node appears.                                  *)
(***************************************************************************)
EXTENDS Integers, Sequences, FiniteSets

CONSTANTS
    People,         \* usernames
    BNodes,         \* nodes
    BGroups,        \* names of groups other than Ungrouped
    Picks,        \* sets of sections an administrator may restore
    DeleteOverlaps, \* may a worker mark a backup between the check of a
                    \* delete request and its unlink?
    MaxJobs,        \* bound: jobs
    MaxEdits        \* bound: edits, nodes that come or go, requests about
                    \* archives, damaged files

Order == <<"users", "api_keys", "settings", "groups", "node_group_mapping">>
Sections == {Order[i] : i \in DOMAIN Order}

ASSUME BackupAssumption ==
    /\ Picks \subseteq (SUBSET Sections) \ {{}}
    /\ BGroups \cap {"absent", "Ungrouped", "none"} = {}
    /\ DeleteOverlaps \in BOOLEAN /\ MaxJobs \in Nat /\ MaxEdits \in Nat

VARIABLES
    person,     \* person[p]: role, "none" without a row, and id of the last row
    vers,       \* api_keys and the safe rows of admin_settings, by content
    groups,     \* custom groups in node_groups
    memberOf,   \* memberOf[n]: its group, "absent" outside the inventory
    pending,    \* pending[n]: pending_node_group_restore, or "none"
    secret,     \* app_secret_key, counted
    file,       \* file[i]: the archive of job i, or NoFile
    mark,       \* archives with a .protected file
    bjob,       \* the job that runs, or NoJob
    dreq,       \* the delete request between check and unlink, 0 without one
    preview,    \* the session's nuclear preview, or NoPreview
    web,        \* is the web service up?
    jobs, edits,
    promise,    \* history: promise[n], group that a restore has given n
    unmarked    \* history: archives that an administrator unprotected

backupVars == <<person, vers, groups, memberOf, pending, secret, file, mark, bjob, dreq,
                preview, web, jobs, edits, promise, unmarked>>
confVars == <<person, vers, groups, memberOf, pending, secret, promise>>
fileVars == <<file, mark, dreq, unmarked>>

Ids == 1..MaxJobs
NoFile == [sound |-> FALSE]
NoJob == [at |-> "none"]
NoPreview == [age |-> "none", backup |-> TRUE]
Nobody == [p \in BNodes |-> "none"]

BackupInit ==
    /\ \E p \in People : person = [q \in People |->
          [role |-> IF q = p THEN "super_admin" ELSE "viewer", uid |-> 1]]
    /\ vers = [api_keys |-> 1, settings |-> 1]
    /\ groups = BGroups /\ memberOf \in [BNodes -> {"absent"} \cup BGroups]
    /\ pending = Nobody /\ promise = Nobody /\ secret = 0
    /\ file = [i \in Ids |-> NoFile] /\ mark = {} /\ dreq = 0 /\ unmarked = {}
    /\ bjob = NoJob /\ preview = NoPreview /\ web = TRUE /\ jobs = 0 /\ edits = 0

(***************************************************************************)
(* Edits while the web service is up                                       *)
(***************************************************************************)
\* What _export_configuration reads for a section; nodes without a custom group
\* have no row.
Current(s) ==
    CASE s = "users" -> [p \in People |-> person[p].role]
      [] s \in {"api_keys", "settings"} -> vers[s]
      [] s = "groups" -> groups
      [] s = "node_group_mapping" ->
            [n \in BNodes |-> IF memberOf[n] \in BGroups THEN memberOf[n] ELSE "none"]

Counted == edits < MaxEdits /\ edits' = edits + 1

\* An edit: exports under way are no longer of one moment.
Edit ==
    /\ web /\ Counted
    /\ bjob' = IF bjob = NoJob THEN NoJob ELSE [bjob EXCEPT !.quiet = FALSE]
    /\ UNCHANGED <<secret, file, mark, dreq, preview, web, jobs, unmarked>>

EditUser(p, r) ==
    /\ Edit /\ person[p].role # r
    /\ r # "super_admin" => \E q \in People \ {p} : person[q].role = "super_admin"
    /\ person' = [person EXCEPT ![p] =
          [role |-> r, uid |-> IF @.role = "none" THEN @.uid + 1 ELSE @.uid]]
    /\ UNCHANGED <<vers, groups, memberOf, pending, promise>>
EditRows(s) ==
    /\ Edit /\ vers' = [vers EXCEPT ![s] = IF @ = 1 THEN 2 ELSE 1]
    /\ UNCHANGED <<person, groups, memberOf, pending, promise>>

\* admin_node_groups_action deletes a group without members.
EditGroup(g) ==
    /\ Edit
    /\ \/ g \notin groups /\ groups' = groups \cup {g} /\ UNCHANGED promise
       \/ /\ g \in groups /\ \A n \in BNodes : memberOf[n] # g
          /\ groups' = groups \ {g}
          /\ promise' = [n \in BNodes |-> IF promise[n] = g THEN "none" ELSE promise[n]]
    /\ UNCHANGED <<person, vers, memberOf, pending>>
EditNode(n, g) ==
    /\ Edit /\ memberOf[n] # "absent" /\ g \in groups \cup {"Ungrouped"}
    /\ memberOf' = [memberOf EXCEPT ![n] = g] /\ promise' = [promise EXCEPT ![n] = "none"]
    /\ UNCHANGED <<person, vers, groups, pending>>

\* virtinfra_assign_ungrouped_membership, the trigger of node_inventory
NodeAppears(n) ==
    /\ Edit /\ memberOf[n] = "absent"
    /\ memberOf' = [memberOf EXCEPT ![n] = IF pending[n] \in groups THEN pending[n]
                                           ELSE "Ungrouped"]
    /\ pending' = [pending EXCEPT ![n] = "none"]
    /\ UNCHANGED <<person, vers, groups, promise>>
NodeLeaves(n) ==
    /\ Edit /\ memberOf[n] # "absent"
    /\ memberOf' = [memberOf EXCEPT ![n] = "absent"] /\ promise' = [promise EXCEPT ![n] = "none"]
    /\ UNCHANGED <<person, vers, groups, pending>>

(***************************************************************************)
(* Requests about backups                                                  *)
(***************************************************************************)
\* list_configuration_backups and the forms of _r225_configuration_backup_card
Listed(i) == IF file[i] = NoFile THEN "none" ELSE IF file[i].sound THEN "verified" ELSE "corrupted"
Offered(i) ==
    (IF Listed(i) = "verified" THEN {"restore", "download"} ELSE {})
    \cup (IF Listed(i) = "none" THEN {}
          ELSE IF i \in mark THEN {"unprotect"} ELSE {"protect", "delete"})

\* admin_database_maintenance_v5057: enqueue_job, and the worker begins.
Submit(kind, p, from, S, saves) ==
    /\ web /\ bjob = NoJob /\ jobs < MaxJobs /\ jobs' = jobs + 1
    /\ person[p].role = "super_admin"
    /\ bjob' = [at |-> IF kind = "restore" THEN "verify" ELSE IF saves THEN "export" ELSE "stop",
                kind |-> kind, actor |-> p, uid |-> person[p].uid, from |-> from, sections |-> S,
                saves |-> saves, id |-> jobs + 1, read |-> 1, quiet |-> TRUE, done |-> FALSE,
                conf |-> [s \in {} |-> 0]]
    /\ UNCHANGED <<confVars, fileVars, web, edits>>
SubmitBackup(p) == Submit("backup", p, 0, {}, TRUE) /\ UNCHANGED preview
SubmitRestore(p, i, S) ==
    /\ "restore" \in Offered(i) /\ Submit("restore", p, i, S, TRUE) /\ UNCHANGED preview

\* reset_app_data_preview: the queue is empty, and what will be saved is chosen
\* now; the preview can be confirmed after a delay and until it expires.
PreviewReset(saves) ==
    /\ web /\ bjob = NoJob /\ preview.age = "none" /\ jobs < MaxJobs
    /\ preview' = [age |-> "new", backup |-> saves]
    /\ UNCHANGED <<confVars, fileVars, bjob, web, jobs, edits>>
PreviewAges ==
    /\ preview.age # "none"
    /\ preview' = IF preview.age = "new" THEN [preview EXCEPT !.age = "valid"] ELSE NoPreview
    /\ UNCHANGED <<confVars, fileVars, bjob, web, jobs, edits>>
ConfirmReset(p) ==
    /\ preview.age = "valid" /\ preview' = NoPreview
    /\ Submit("reset", p, 0, {}, preview.backup)

\* set_configuration_backup_protected
Protect(i) ==
    /\ web /\ "protect" \in Offered(i) /\ Counted /\ mark' = mark \cup {i}
    /\ dreq = i => DeleteOverlaps
    /\ UNCHANGED <<confVars, file, dreq, unmarked, bjob, preview, web, jobs>>
Unprotect(i) ==
    /\ web /\ "unprotect" \in Offered(i) /\ Counted
    /\ mark' = mark \ {i} /\ unmarked' = unmarked \cup {i}
    /\ UNCHANGED <<confVars, file, dreq, bjob, preview, web, jobs>>

\* delete_configuration_backup looks for the marker, and then unlinks.
DeleteChecks(i) ==
    /\ web /\ dreq = 0 /\ "delete" \in Offered(i) /\ Counted /\ dreq' = i
    /\ (bjob # NoJob /\ bjob.id = i) => DeleteOverlaps
    /\ UNCHANGED <<confVars, file, mark, unmarked, bjob, preview, web, jobs>>
DeleteUnlinks ==
    /\ web /\ dreq # 0 /\ file' = [file EXCEPT ![dreq] = NoFile] /\ dreq' = 0
    /\ UNCHANGED <<confVars, mark, unmarked, bjob, preview, web, jobs, edits>>

\* A damaged archive: entries or checksums that do not match the manifest.
Damage(i) ==
    /\ file[i] # NoFile /\ file[i].sound /\ Counted
    /\ file' = [file EXCEPT ![i].sound = FALSE]
    /\ UNCHANGED <<confVars, mark, dreq, unmarked, bjob, preview, web, jobs>>

(***************************************************************************)
(* The worker                                                              *)
(***************************************************************************)
Works(at) == bjob # NoJob /\ bjob.at = at
Fails == bjob' = NoJob

\* verify_configuration_backup
Verified(i) == file[i] # NoFile /\ file[i].sound
VerifyFirst ==
    /\ Works("verify")
    /\ IF Verified(bjob.from) THEN bjob' = [bjob EXCEPT !.at = "export"] ELSE Fails
    /\ UNCHANGED <<confVars, fileVars, preview, web, jobs, edits>>

\* _export_configuration: READ COMMITTED, one statement per section.
ExportSection ==
    LET s == Order[bjob.read] IN
    /\ Works("export")
    /\ bjob' = [bjob EXCEPT
          !.conf = [t \in DOMAIN @ \cup {s} |-> IF t = s THEN Current(s) ELSE @[t]],
          !.quiet = @ \/ bjob.read = 1,
          !.read = @ + 1, !.at = IF bjob.read = Len(Order) THEN "write" ELSE "export"]
    /\ UNCHANGED <<confVars, fileVars, preview, web, jobs, edits>>

\* The jobs that ask create_configuration_backup to protect the archive.
Protects(kind) == kind \in {"restore", "reset"}

\* create_configuration_backup: a temporary file is renamed, then marked, then
\* verified.
WriteArchive ==
    /\ Works("write")
    /\ file' = [file EXCEPT ![bjob.id] = [sound |-> TRUE, conf |-> bjob.conf,
                                          whole |-> bjob.quiet]]
    /\ bjob' = [bjob EXCEPT !.at = IF Protects(bjob.kind) THEN "mark" ELSE "check"]
    /\ UNCHANGED <<confVars, mark, dreq, unmarked, preview, web, jobs, edits>>
MarkArchive ==
    /\ Works("mark") /\ mark' = mark \cup {bjob.id} /\ bjob' = [bjob EXCEPT !.at = "check"]
    /\ UNCHANGED <<confVars, file, dreq, unmarked, preview, web, jobs, edits>>
CheckArchive ==
    /\ Works("check")
    /\ IF Verified(bjob.id) /\ bjob.kind # "backup" THEN bjob' = [bjob EXCEPT !.at = "stop"]
       ELSE Fails
    /\ UNCHANGED <<confVars, fileVars, preview, web, jobs, edits>>

\* stop_service ends the requests that are under way.
StopForJob ==
    /\ Works("stop") /\ web' = FALSE /\ dreq' = 0 /\ bjob' = [bjob EXCEPT !.at = "commit"]
    /\ UNCHANGED <<confVars, file, mark, unmarked, preview, jobs, edits>>

\* _validate_actor
ActorStands == person[bjob.actor] = [role |-> "super_admin", uid |-> bjob.uid]

\* restore_configuration_backup: everybody but the actor is deleted and inserted.
RestoredUsers(c, actor) ==
    [p \in People |-> IF p = actor THEN person[p]
                      ELSE IF c.users[p] = "none" THEN [person[p] EXCEPT !.role = "none"]
                      ELSE [role |-> c.users[p], uid |-> person[p].uid + 1]]

\* Groups are replaced: their nodes are moved to Ungrouped first.
RestoredMembers(S, c) ==
    IF "groups" \in S THEN [n \in BNodes |-> IF memberOf[n] = "absent" THEN "absent" ELSE "Ungrouped"]
    ELSE memberOf

\* The groups that the mapping may name, and what it gives to a node.
Known(S, c) == IF "groups" \in S THEN c.groups ELSE groups
Given(S, c, n) ==
    IF "node_group_mapping" \in S /\ c.node_group_mapping[n] \in Known(S, c)
    THEN c.node_group_mapping[n] ELSE "none"

\* Mutant: nodes outside the inventory are left out.
RestoredPendingNone(S, c) == [n \in BNodes |-> "none"]

\* pending_node_group_restore is truncated and filled again.
RestoredPending(S, c) ==
    IF "node_group_mapping" \in S
    THEN [n \in BNodes |-> IF memberOf[n] = "absent" THEN Given(S, c, n) ELSE "none"]
    ELSE pending

\* History: what a restore promises.  The mapping of an archive of one moment
\* is promised as it is.
Promised(S, f) ==
    LET c == f.conf IN
    [n \in BNodes |->
        IF "node_group_mapping" \in S
        THEN IF f.whole /\ "groups" \in S THEN c.node_group_mapping[n] ELSE Given(S, c, n)
        ELSE IF "groups" \notin S \/ (memberOf[n] = "absent" /\ promise[n] \in c.groups)
             THEN promise[n] ELSE "none"]

\* The transaction of restore_configuration_backup
CommitRestore ==
    LET f == file[bjob.from]
        c == f.conf
        S == bjob.sections
    IN
    /\ Works("commit") /\ bjob.kind = "restore" /\ Verified(bjob.from) /\ ActorStands
    /\ person' = IF "users" \in S THEN RestoredUsers(c, bjob.actor) ELSE person
    /\ vers' = [s \in DOMAIN vers |-> IF s \in S THEN c[s] ELSE vers[s]]
    /\ groups' = Known(S, c)
    /\ memberOf' = [n \in BNodes |->
          IF memberOf[n] # "absent" /\ Given(S, c, n) # "none" THEN Given(S, c, n)
          ELSE RestoredMembers(S, c)[n]]
    /\ pending' = RestoredPending(S, c)
    /\ secret' = IF "users" \in S THEN secret + 1 ELSE secret
    /\ promise' = Promised(S, f)
    /\ bjob' = [bjob EXCEPT !.at = "start", !.done = TRUE]
    /\ UNCHANGED <<fileVars, preview, web, jobs, edits>>

\* The transaction of reset_app_data, as far as it is about configuration
CommitReset ==
    /\ Works("commit") /\ bjob.kind = "reset" /\ ActorStands
    /\ person' = [p \in People |-> IF p = bjob.actor THEN person[p]
                                   ELSE [person[p] EXCEPT !.role = "none"]]
    /\ vers' = [s \in DOMAIN vers |-> 0] /\ groups' = {}
    /\ memberOf' = [n \in BNodes |-> "absent"] /\ pending' = Nobody /\ promise' = Nobody
    /\ secret' = secret + 1
    /\ bjob' = [bjob EXCEPT !.at = "start", !.done = TRUE]
    /\ UNCHANGED <<fileVars, preview, web, jobs, edits>>

\* The archive or the actor is not what it was: the transaction is rolled back.
CommitFails ==
    /\ Works("commit") /\ ~(ActorStands /\ (bjob.kind = "restore" => Verified(bjob.from)))
    /\ bjob' = [bjob EXCEPT !.at = "start"]
    /\ UNCHANGED <<confVars, fileVars, preview, web, jobs, edits>>

StartAgain ==
    /\ Works("start") /\ web' = TRUE /\ bjob' = NoJob
    /\ UNCHANGED <<confVars, fileVars, preview, jobs, edits>>

\* The worker dies; the dispatcher's recovery starts the web service.
WorkerDies ==
    /\ bjob # NoJob /\ bjob' = NoJob /\ web' = TRUE
    /\ UNCHANGED <<confVars, fileVars, preview, jobs, edits>>

BackupNext ==
    \/ \E p \in People, r \in {"none", "viewer", "super_admin"} : EditUser(p, r)
    \/ \E s \in {"api_keys", "settings"} : EditRows(s)
    \/ \E g \in BGroups : EditGroup(g)
    \/ \E n \in BNodes, g \in BGroups \cup {"Ungrouped"} : EditNode(n, g)
    \/ \E n \in BNodes : NodeAppears(n) \/ NodeLeaves(n)
    \/ \E p \in People :
        \/ SubmitBackup(p)
        \/ \E i \in Ids, S \in Picks : SubmitRestore(p, i, S)
        \/ ConfirmReset(p)
    \/ \E saves \in BOOLEAN : PreviewReset(saves)
    \/ PreviewAges
    \/ \E i \in Ids : Protect(i) \/ Unprotect(i) \/ DeleteChecks(i) \/ Damage(i)
    \/ DeleteUnlinks
    \/ VerifyFirst \/ ExportSection \/ WriteArchive \/ MarkArchive \/ CheckArchive
    \/ StopForJob \/ CommitRestore \/ CommitReset \/ CommitFails \/ StartAgain \/ WorkerDies

BackupSpec == BackupInit /\ [][BackupNext]_backupVars

(***************************************************************************)
(* Properties                                                              *)
(***************************************************************************)
\* Types, and the foreign key of node_group_memberships.
BackupTypeOK ==
    /\ person \in [People -> [role : {"none", "viewer", "super_admin"}, uid : Nat]]
    /\ vers \in [{"api_keys", "settings"} -> 0..2] /\ groups \subseteq BGroups
    /\ \A n \in BNodes : memberOf[n] \in {"absent", "Ungrouped"} \cup groups
    /\ pending \in [BNodes -> BGroups \cup {"none"}] /\ secret \in 0..MaxJobs
    /\ \A i \in Ids : file[i] # NoFile => DOMAIN file[i].conf = Sections
    /\ mark \subseteq Ids /\ dreq \in Ids \cup {0} /\ web \in BOOLEAN

\* restore_configuration_backup and reset_app_data keep their actor: the Super
\* Admin who asked can log in afterwards, also when the archive is from a time
\* when the account was a viewer's, and somebody can always administer.
ActorStays ==
    /\ Works("start") /\ bjob.done => ActorStands
    /\ \E p \in People : person[p].role = "super_admin"

\* The group that a restore gave to a node is the node's group, or waits for a
\* node that is not in the inventory, until somebody changes it or deletes the
\* group.
MappingKept ==
    \A n \in BNodes : promise[n] # "none" =>
        IF memberOf[n] = "absent" THEN pending[n] = promise[n] ELSE memberOf[n] = promise[n]

\* "A protected safety snapshot will be created first": when a restore or a
\* reset is about to replace the configuration, its protected archive exists,
\* unless an administrator has unprotected it; it holds what will be replaced
\* unless somebody edited since the export began.
SafetyHeld ==
    Works("commit") /\ bjob.saves =>
        \/ bjob.id \in unmarked
        \/ /\ file[bjob.id] # NoFile /\ bjob.id \in mark
           /\ bjob.quiet => \A s \in Sections : file[bjob.id].conf[s] = Current(s)

\* What a restore of everything from an archive of one moment leaves is what
\* was saved, but for the actor's row, through edits, deletes and damage.
RoundTrip ==
    Works("start") /\ bjob.kind = "restore" /\ bjob.done /\ bjob.sections = Sections
    /\ file[bjob.from].whole =>
        LET c == file[bjob.from].conf IN
        /\ \A p \in People \ {bjob.actor} : person[p].role = c.users[p]
        /\ vers = [s \in DOMAIN vers |-> c[s]] /\ groups = c.groups
        /\ \A n \in BNodes :
              c.node_group_mapping[n] = IF memberOf[n] = "absent" THEN pending[n]
                                        ELSE Current("node_group_mapping")[n]
=============================================================================
