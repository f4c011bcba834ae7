---------------------------- MODULE MCControlPlane ----------------------------
(***************************************************************************)
(* The components that administrators operate, one scene each: in a scene  *)
(* one component runs and the others stay in one of their initial states.  *)
(***************************************************************************)
EXTENDS Accounts, NodeGroups, ApiKeys, ConfigBackup, EmergencyBackup, TLC

CONSTANTS
    n1, n2,     \* nodes
    Scenes      \* the components that run

VARIABLE scene

cpVars == <<accVars, ngVars, apiVars, backupVars, emergencyVars, scene>>

\* The node lists that administrators submit.
NodeLists == {<<n1>>, <<n1, n2>>, <<n2, n1>>}

\* The sections that administrators restore.
Restores == {Sections, {"users", "node_group_mapping"}}

Sym == Permutations(Keys) \cup Permutations(Callers) \cup Permutations(People)

ScenesInit ==
    /\ scene \in Scenes
    /\ AccInit /\ (scene = "accounts" \/ nextPw = 1)
    /\ NGInit /\ (scene = "groups" \/ \A n \in GNodes : ninv[n] = "absent")
    /\ KeysInit
    /\ BackupInit /\ (scene = "backups" \/ \A n \in BNodes : memberOf[n] = "absent")
    /\ EmergencyInit

ScenesNext ==
    \/ /\ scene = "accounts" /\ AccNext
       /\ UNCHANGED <<ngVars, apiVars, backupVars, emergencyVars, scene>>
    \/ /\ scene = "groups" /\ NGNext
       /\ UNCHANGED <<accVars, apiVars, backupVars, emergencyVars, scene>>
    \/ /\ scene = "keys" /\ KeysNext
       /\ UNCHANGED <<accVars, ngVars, backupVars, emergencyVars, scene>>
    \/ /\ scene = "backups" /\ BackupNext
       /\ UNCHANGED <<accVars, ngVars, apiVars, emergencyVars, scene>>
    \/ /\ scene = "dumps" /\ EmergencyNext
       /\ UNCHANGED <<accVars, ngVars, apiVars, backupVars, scene>>

ScenesSpec == ScenesInit /\ [][ScenesNext]_cpVars
-----------------------------------------------------------------------------
\* dashboard_allowed and require_api_scope: whoever is let in has the password
\* the account has now; a replaced key stays revoked, a key is let through no
\* more often than its limit, a deleted one leaves no log, and the time of last
\* use is at most one flush old.
AccessHolds ==
    /\ scene = "accounts" => AccTypeOK /\ ResetEndsSessions
    /\ scene = "keys" => /\ KeyTypeOK /\ SupersededIsRevoked /\ RateHolds
                        /\ DeletedLeavesNoLog /\ LastUsedRecent

\* assign_nodes and node_group_history: every node of the inventory has one group
\* that exists, and the history names it.
GroupsTell == scene = "groups" => NGTypeOK /\ MembershipTotal /\ HistoryTells

\* The configuration backups and the full dumps: a restore keeps its actor and
\* gives back what was saved, the safety snapshot exists when data is replaced,
\* and what is listed as verified is intact and was there before a reset.
BackupsHold ==
    /\ scene = "backups" => BackupTypeOK /\ ActorStays /\ MappingKept /\ SafetyHeld /\ RoundTrip
    /\ scene = "dumps" => EmergencyTypeOK /\ VerifiedIsIntact /\ ResetHasDump

\* What no request of an administrator and no restart may do: remove the last
\* Super Admin, touch a Super Admin's account as a regular Admin, change a role
\* with a password, promote anybody, or delete a protected dump.
AdminsGuarded ==
    /\ SuperAdminRemains /\ SuperIsBeyondAdmins /\ PasswordKeepsRole /\ OnlySupersPromote
    /\ ProtectedStays
=============================================================================
