--------------------------- MODULE EmergencyBackup ---------------------------
(***************************************************************************)
(* Full emergency backups: directories that backup.sh fills file by file,  *)
(* a job verifies against their manifest and the page lists without        *)
(* hashing, from a marker that holds what the dump looked like when it was *)
(* verified.  Deleting a directory takes one file after the other.         *)
(***************************************************************************)
EXTENDS Integers, FiniteSets

CONSTANTS
    RemoveOverlaps, \* may a request protect, or a job verify, a directory that
                    \* another request deletes, or a dump change while it is hashed?
    MaxDirs,        \* bound: directories, one per backup job
    MaxFaults       \* bound: requests, changes and interruptions

ASSUME EmergencyAssumption ==
    RemoveOverlaps \in BOOLEAN /\ MaxDirs \in Nat /\ MaxFaults \in Nat

VARIABLES
    dir,        \* dir[i]: its files, is the dump intact, its stamp, or NoDir
    seenAs,     \* .verified.json: the stamp of the dump, 0 without a marker
    kept,       \* directories with .protected
    ejob,       \* the job that runs, or NoTask
    removing,   \* directories that requests have begun to remove
    dirs, faults,
    freed       \* history: directories that somebody unprotected

emergencyVars == <<dir, seenAs, kept, ejob, removing, dirs, faults, freed>>

Dirs == 1..MaxDirs
Required == {"dump", "list", "sums"}
NoDir == [files |-> {}, intact |-> FALSE, stamp |-> 0]
NoTask == [at |-> "none"]

EmergencyInit ==
    /\ dir = [i \in Dirs |-> NoDir] /\ seenAs = [i \in Dirs |-> 0] /\ kept = {}
    /\ ejob = NoTask /\ removing = {} /\ dirs = 0 /\ faults = 0 /\ freed = {}

Fault == faults < MaxFaults /\ faults' = faults + 1

(***************************************************************************)
(* Jobs                                                                    *)
(***************************************************************************)
\* full_backup, or the backup before a nuclear reset, which is protected
StartFull(reset) ==
    /\ ejob = NoTask /\ dirs < MaxDirs /\ dirs' = dirs + 1
    /\ ejob' = [at |-> "dump", id |-> dirs + 1, reset |-> reset]
    /\ UNCHANGED <<dir, seenAs, kept, removing, faults, freed>>

\* backup.sh: the dump, its catalog, and the manifest at the end
ScriptStep ==
    /\ ejob.at \in Required
    /\ dir' = [dir EXCEPT ![ejob.id] = [files |-> @.files \cup {ejob.at}, intact |-> TRUE,
                                        stamp |-> 1]]
    /\ ejob' = [ejob EXCEPT !.at = CASE ejob.at = "dump" -> "list" [] ejob.at = "list" -> "sums"
                                     [] ejob.at = "sums" -> "hash"]
    /\ UNCHANGED <<seenAs, kept, removing, dirs, faults, freed>>

\* The script fails or the worker dies.
TaskFails ==
    /\ ejob # NoTask /\ Fault /\ ejob' = NoTask
    /\ UNCHANGED <<dir, seenAs, kept, removing, dirs, freed>>

\* emergency_dump_path, and a full_backup_verify job is queued.
RequestVerify(i) ==
    /\ ejob = NoTask /\ "dump" \in dir[i].files /\ Fault
    /\ ejob' = [at |-> "hash", id |-> i, reset |-> FALSE]
    /\ UNCHANGED <<dir, seenAs, kept, removing, dirs, freed>>

\* _verify_manifest: every file of the manifest is there and has its checksum.
ManifestHolds(i) == dir[i].files = Required /\ dir[i].intact
HashFiles ==
    /\ ejob.at = "hash"
    /\ ejob' = IF ManifestHolds(ejob.id) THEN [ejob EXCEPT !.at = "record"] ELSE NoTask
    /\ UNCHANGED <<dir, seenAs, kept, removing, dirs, faults, freed>>

\* record_verified_backup: the stamp that the dump has now
Record(i) ==
    IF Required \ {"list"} \subseteq dir[i].files
    THEN [seenAs EXCEPT ![i] = dir[i].stamp] ELSE seenAs

\* The end of the verification; before a reset the directory is protected.
RecordVerified ==
    /\ ejob.at = "record" /\ seenAs' = Record(ejob.id)
    /\ ejob' = IF ejob.reset THEN [ejob EXCEPT !.at = "protect"] ELSE NoTask
    /\ UNCHANGED <<dir, kept, removing, dirs, faults, freed>>

\* create_verified_pre_nuclear_backup with protect, and the reset goes on.
ProtectForReset ==
    /\ ejob.at = "protect" /\ kept' = kept \cup {ejob.id} /\ ejob' = [ejob EXCEPT !.at = "reset"]
    /\ UNCHANGED <<dir, seenAs, removing, dirs, faults, freed>>
ResetGoesOn ==
    /\ ejob.at = "reset" /\ ejob' = NoTask
    /\ UNCHANGED <<dir, seenAs, kept, removing, dirs, faults, freed>>

(***************************************************************************)
(* Requests and the file system                                            *)
(***************************************************************************)
\* _cached_verification
Cached(i) == seenAs[i] # 0 /\ seenAs[i] = dir[i].stamp

\* list_emergency_backups
Shown(i) ==
    IF dir[i] = NoDir THEN "none"
    ELSE IF ~(Required \subseteq dir[i].files) THEN "corrupted"
    ELSE IF Cached(i) THEN "verified" ELSE "unverified"

\* set_emergency_backup_protected
ProtectDir(i) ==
    /\ dir[i] # NoDir /\ i \notin kept /\ Fault /\ (i \in removing => RemoveOverlaps)
    /\ kept' = kept \cup {i} /\ freed' = freed \ {i}
    /\ UNCHANGED <<dir, seenAs, ejob, removing, dirs>>
UnprotectDir(i) ==
    /\ i \in kept /\ Fault /\ kept' = kept \ {i} /\ freed' = freed \cup {i}
    /\ UNCHANGED <<dir, seenAs, ejob, removing, dirs>>

\* delete_emergency_backup, and the expiry of backup.sh: not what is protected
Deletable(i) == dir[i] # NoDir /\ i \notin kept
DeleteDir(i) ==
    /\ Deletable(i) /\ i \notin removing /\ Fault
    /\ (ejob # NoTask /\ ejob.id = i) => RemoveOverlaps
    /\ removing' = removing \cup {i}
    /\ UNCHANGED <<dir, seenAs, kept, ejob, dirs, freed>>

\* rmtree in the order of the directory; the directory itself at the end, unless
\* something is left in it.
RemoveFile(i, f) ==
    /\ i \in removing /\ f \in dir[i].files
    /\ dir' = [dir EXCEPT ![i].files = @ \ {f}]
    /\ UNCHANGED <<seenAs, kept, ejob, removing, dirs, faults, freed>>
RemoveMarker(i) ==
    /\ i \in removing /\ seenAs[i] # 0 /\ seenAs' = [seenAs EXCEPT ![i] = 0]
    /\ UNCHANGED <<dir, kept, ejob, removing, dirs, faults, freed>>
RemoveDir(i) ==
    /\ i \in removing /\ dir[i].files = {} /\ seenAs[i] = 0
    /\ removing' = removing \ {i}
    /\ dir' = IF i \in kept THEN dir ELSE [dir EXCEPT ![i] = NoDir]
    /\ UNCHANGED <<seenAs, kept, ejob, dirs, faults, freed>>
RemovalStops(i) ==
    /\ i \in removing /\ Fault /\ removing' = removing \ {i}
    /\ UNCHANGED <<dir, seenAs, kept, ejob, dirs, freed>>

\* Somebody writes to the dump: its time changes, its checksum does not match.
Alter(i) ==
    /\ "dump" \in dir[i].files /\ dir[i].intact /\ Fault
    /\ (ejob # NoTask /\ ejob.id = i) => RemoveOverlaps
    /\ dir' = [dir EXCEPT ![i].intact = FALSE, ![i].stamp = 2]
    /\ UNCHANGED <<seenAs, kept, ejob, removing, dirs, freed>>

EmergencyNext ==
    \/ \E reset \in BOOLEAN : StartFull(reset)
    \/ ScriptStep \/ TaskFails \/ HashFiles \/ RecordVerified \/ ProtectForReset \/ ResetGoesOn
    \/ \E i \in Dirs :
        \/ RequestVerify(i) \/ ProtectDir(i) \/ UnprotectDir(i) \/ DeleteDir(i)
        \/ RemoveMarker(i) \/ RemoveDir(i) \/ RemovalStops(i) \/ Alter(i)
        \/ \E f \in Required : RemoveFile(i, f)

EmergencySpec == EmergencyInit /\ [][EmergencyNext]_emergencyVars

(***************************************************************************)
(* Properties                                                              *)
(***************************************************************************)
EmergencyTypeOK ==
    /\ dir \in [Dirs -> [files : SUBSET Required, intact : BOOLEAN, stamp : 0..2]]
    /\ seenAs \in [Dirs -> 0..2] /\ kept \subseteq Dirs /\ removing \subseteq Dirs
    /\ \A i \in Dirs : seenAs[i] # 0 => dir[i] # NoDir

\* list_emergency_backups: "List backups without hashing large database dumps on
\* page render."  What the page shows as verified is complete and intact, after
\* scripts that failed, directories that are half removed, and changed dumps.
VerifiedIsIntact ==
    \A i \in Dirs : Shown(i) = "verified" => ManifestHolds(i)

\* A reset that asked for a full backup goes on only while the protected
\* directory is complete and listed as verified, unless somebody unprotected it.
ResetHasDump ==
    ejob # NoTask /\ ejob.at = "reset" =>
        ejob.id \in freed \/ (ejob.id \in kept /\ Shown(ejob.id) = "verified")

\* "Protected full emergency backup must be unprotected before deletion": no
\* file of a protected directory is removed.
ProtectedStays ==
    [][\A i \in Dirs : i \in kept => dir[i].files \subseteq dir'[i].files]_emergencyVars
=============================================================================
