------------------------------- MODULE Accounts -------------------------------
(***************************************************************************)
(* Dashboard accounts, their roles and the browsers' sessions.  A session  *)
(* is a signed cookie that names the account and carries a stamp of its    *)
(* password hash, role and enabled flag; every request compares the stamp  *)
(* with the account's row.  A request reads on one connection and writes   *)
(* on another, with nothing held in between: a step that checks and a step *)
(* that writes.  AccSlots requests may be between the two at once.         *)
(***************************************************************************)
EXTENDS Integers, FiniteSets

CONSTANTS
    Names,      \* usernames; "admin" of the legacy settings may be one
    Browsers,   \* sessions
    AccSlots,   \* requests the web service runs at once
    MaxUid,     \* bound: values of the id sequence
    MaxPw       \* bound: passwords ever set (every hash has its own salt)

ASSUME AccountsAssumption ==
    /\ AccSlots \in Nat \ {0} /\ MaxUid \in Nat \ {0} /\ MaxPw \in Nat \ {0}
    /\ IsFiniteSet(Browsers)

VARIABLES
    user,       \* user[n]: the row of dashboard_users, or NoUser
    legacy,     \* admin_settings: the name and password hash of old releases
    sess,       \* sess[b]: the browser's cookie, or NoSession
    areq,       \* areq[b]: what b's request has read and will write, or NoReq
    migrated,   \* admin_settings[ROLE_MIGRATION_KEY] is "completed"
    nextUid,
    nextPw

accVars == <<user, legacy, sess, areq, migrated, nextUid, nextPw>>

Roles == {"viewer", "admin", "super_admin"}
NoUser == [id |-> 0]
UserRow == [id : 1..MaxUid, pw : 1..MaxPw, role : Roles, on : BOOLEAN]
NoSession == [name |-> "none"]
NoStamp == [id |-> -1]
NoReq == [op |-> "none"]
NoLegacy == [pw |-> 0]

\* name, id, stamp: the cookie.  pw: history, the password that was typed for
\* this session.
Session == [name : Names, id : 1..MaxUid, stamp : UserRow \cup {NoStamp},
            pw : 1..MaxPw]

AccTypeOK ==
    /\ user \in [Names -> UserRow \cup {NoUser}]
    /\ legacy = NoLegacy \/ legacy \in [name : Names, pw : 1..MaxPw]
    /\ sess \in [Browsers -> Session \cup {NoSession}]
    /\ \A b \in Browsers : areq[b].op \in
          {"none", "login", "setup", "create", "disable", "enable", "delete",
           "reset_password", "change_role", "own_password"}
    /\ migrated \in BOOLEAN
    /\ nextUid \in 1..(MaxUid + 1) /\ nextPw \in 1..(MaxPw + 1)

Exists(n) == user[n] # NoUser
NameOf(i) == {n \in Names : user[n].id = i}

\* A new installation; one of an old release without users, whose settings hold
\* a password; one of a release before Super Admins, with an Admin.
AccInit ==
    /\ \/ /\ legacy = NoLegacy /\ user = [n \in Names |-> NoUser]
          /\ nextUid = 1 /\ nextPw = 1
       \/ \E n \in Names :
          /\ legacy = [name |-> n, pw |-> 1] /\ user = [m \in Names |-> NoUser]
          /\ nextUid = 1 /\ nextPw = 2
       \/ \E n \in Names :
          /\ legacy = NoLegacy
          /\ user = [m \in Names |-> IF m # n THEN NoUser ELSE
                       [id |-> 1, pw |-> 1, role |-> "admin", on |-> TRUE]]
          /\ nextUid = 2 /\ nextPw = 2
    /\ migrated = FALSE
    /\ sess = [b \in Browsers |-> NoSession]
    /\ areq = [b \in Browsers |-> NoReq]

(***************************************************************************)
(* Reading the session                                                     *)
(***************************************************************************)
\* _user_auth_stamp: id, username, password hash, role and enabled flag.
UserAuthStamp(r) == r

\* current_dashboard_user: by id, else by name.
CurrentUser(b) ==
    IF sess[b] = NoSession THEN NoUser
    ELSE LET ns == NameOf(sess[b].id)
         IN  IF ns # {} THEN user[CHOOSE n \in ns : TRUE]
             ELSE user[sess[b].name]

\* dashboard_allowed
Allowed(b) ==
    LET u == CurrentUser(b)
    IN  u # NoUser /\ u.on /\ sess[b].stamp = UserAuthStamp(u)

SuperAdmins == {n \in Names : Exists(n) /\ user[n].role = "super_admin"
                              /\ user[n].on}

\* require_admin and ADMIN_ALLOWED_ENDPOINTS: while no enabled Super Admin
\* exists nobody may do anything.
RequireAdmin(b) ==
    /\ SuperAdmins # {}
    /\ Allowed(b)
    /\ CurrentUser(b).role \in {"admin", "super_admin"}

IsSuper(b) == CurrentUser(b).role = "super_admin"

\* A worker thread is free for a request of this browser.
MayAsk(b) ==
    /\ migrated
    /\ areq[b] = NoReq
    /\ Cardinality({c \in Browsers : areq[c] # NoReq}) < AccSlots

Fresh == nextPw <= MaxPw

(***************************************************************************)
(* Setup and login                                                         *)
(***************************************************************************)
\* ensure_schema, when the application starts: the administrators of old
\* releases become Super Admins, once.
ensure_schema ==
    /\ user' = [n \in Names |->
          IF Exists(n) /\ user[n].role = "admin" /\ ~migrated
          THEN [user[n] EXCEPT !.role = "super_admin"] ELSE user[n]]
    /\ migrated' = TRUE
    /\ UNCHANGED <<legacy, sess, areq, nextUid, nextPw>>

\* bootstrap_dashboard_admin_from_settings, which every one of these pages
\* calls first: without any user the legacy account becomes a Super Admin.
bootstrap_dashboard_admin_from_settings ==
    /\ migrated
    /\ \A n \in Names : ~Exists(n)
    /\ legacy # NoLegacy /\ nextUid <= MaxUid
    /\ user' = [user EXCEPT ![legacy.name] =
                  [id |-> nextUid, pw |-> legacy.pw, role |-> "super_admin",
                   on |-> TRUE]]
    /\ nextUid' = nextUid + 1
    /\ UNCHANGED <<legacy, sess, areq, nextPw, migrated>>

\* admin_setup: only while there is no user and no legacy password.
admin_setup(b, n) ==
    /\ MayAsk(b)
    /\ legacy = NoLegacy
    /\ \A m \in Names : ~Exists(m)
    /\ areq' = [areq EXCEPT ![b] = [op |-> "setup", name |-> n]]
    /\ UNCHANGED <<user, legacy, sess, nextUid, nextPw, migrated>>

\* Both logins: the row is read by name, must be enabled and its password be
\* the one that was typed.  The admin page also wants an administrator's role.
LoginCheck(b, n) ==
    /\ MayAsk(b)
    /\ user[n].on
    /\ areq' = [areq EXCEPT ![b] = [op |-> "login", name |-> n,
                                    id |-> user[n].id, pw |-> user[n].pw]]
    /\ UNCHANGED <<user, legacy, sess, nextUid, nextPw, migrated>>

dashboard_login(b, n) == ~Allowed(b) /\ Exists(n) /\ LoginCheck(b, n)

admin_login(b, n) ==
    /\ SuperAdmins # {}
    /\ ~(Allowed(b) /\ CurrentUser(b).role \in {"admin", "super_admin"})
    /\ Exists(n) /\ user[n].role \in {"admin", "super_admin"}
    /\ LoginCheck(b, n)

\* The login is recorded and the stamp taken from the row as it is now.
LoginStamp(b) ==
    /\ areq[b].op = "login"
    /\ LET u == user[areq[b].name]
       IN  sess' = [sess EXCEPT ![b] =
              [name |-> areq[b].name, id |-> areq[b].id, pw |-> areq[b].pw,
               stamp |-> IF u = NoUser THEN NoStamp ELSE UserAuthStamp(u)]]
    /\ areq' = [areq EXCEPT ![b] = NoReq]
    /\ UNCHANGED <<user, legacy, nextUid, nextPw, migrated>>

\* upsert_dashboard_user as a Super Admin: a new row, or the old one with a
\* new password, role and flag.
Upsert(n, p) ==
    /\ Exists(n) \/ nextUid <= MaxUid
    /\ user' = [user EXCEPT ![n] =
          [id |-> IF Exists(n) THEN user[n].id ELSE nextUid, pw |-> p,
           role |-> "super_admin", on |-> TRUE]]
    /\ nextUid' = IF Exists(n) THEN nextUid ELSE nextUid + 1

\* The cookie of a session opened for the account as it then is.
Opened(n, p) == [name |-> n, id |-> user'[n].id, pw |-> p,
                 stamp |-> UserAuthStamp(user'[n])]

\* set_admin_credentials, and the session of the new Super Admin.
SetupWrite(b) ==
    /\ areq[b].op = "setup" /\ Fresh
    /\ legacy' = [name |-> areq[b].name, pw |-> nextPw]
    /\ Upsert(areq[b].name, nextPw)
    /\ sess' = [sess EXCEPT ![b] = Opened(areq[b].name, nextPw)]
    /\ areq' = [areq EXCEPT ![b] = NoReq]
    /\ nextPw' = nextPw + 1 /\ UNCHANGED migrated

\* admin_login with the legacy name, for which there is no user: the account
\* comes back as a Super Admin.
LegacyLogin(b) ==
    /\ MayAsk(b) /\ SuperAdmins # {}
    /\ legacy # NoLegacy /\ ~Exists(legacy.name) /\ Fresh
    /\ Upsert(legacy.name, nextPw)
    /\ sess' = [sess EXCEPT ![b] = Opened(legacy.name, nextPw)]
    /\ nextPw' = nextPw + 1
    /\ UNCHANGED <<legacy, areq, migrated>>

\* dashboard_logout and admin_logout
logout(b) ==
    /\ areq[b] = NoReq /\ sess[b] # NoSession
    /\ sess' = [sess EXCEPT ![b] = NoSession]
    /\ UNCHANGED <<user, legacy, areq, nextUid, nextPw, migrated>>

(***************************************************************************)
(* User management: the check, then the write of what was read             *)
(***************************************************************************)
\* admin_create_user: a Super Admin may only be made by one.
admin_create_user(b, n, r) ==
    /\ MayAsk(b) /\ RequireAdmin(b)
    /\ r = "super_admin" => IsSuper(b)
    /\ areq' = [areq EXCEPT ![b] = [op |-> "create", name |-> n, role |-> r]]
    /\ UNCHANGED <<user, legacy, sess, nextUid, nextPw, migrated>>

\* _insert_dashboard_user: an existing name is an error, never overwritten.
CreateWrite(b) ==
    /\ areq[b].op = "create" /\ Fresh
    /\ \/ Exists(areq[b].name) /\ UNCHANGED <<user, nextUid, nextPw>>
       \/ /\ ~Exists(areq[b].name) /\ nextUid <= MaxUid
          /\ user' = [user EXCEPT ![areq[b].name] =
                [id |-> nextUid, pw |-> nextPw, role |-> areq[b].role,
                 on |-> TRUE]]
          /\ nextUid' = nextUid + 1 /\ nextPw' = nextPw + 1
    /\ areq' = [areq EXCEPT ![b] = NoReq]
    /\ UNCHANGED <<legacy, sess, migrated>>

\* is_last_enabled_admin and active_super_admin_count: the target is an
\* enabled Super Admin and there is no other one.
LastSuper(n) == SuperAdmins = {n}

\* Mutant: anyone with access to the page may manage every account.
CanManageAny(b, n) == TRUE

\* _can_manage_user
CanManage(b, n) == IsSuper(b) \/ user[n].role # "super_admin"

\* admin_user_action: the target is read by id; nobody changes his own account
\* here, and the last enabled Super Admin is neither disabled nor deleted nor
\* downgraded.
admin_user_action(b, op, n, r) ==
    /\ MayAsk(b) /\ RequireAdmin(b)
    /\ Exists(n) /\ CanManage(b, n)
    /\ op = "enable" \/ user[n].id # CurrentUser(b).id
    /\ op \in {"disable", "delete"} => ~LastSuper(n)
    /\ op = "change_role" => /\ r = "super_admin" => IsSuper(b)
                             /\ r # "super_admin" => ~LastSuper(n)
    /\ areq' = [areq EXCEPT ![b] = [op |-> op, id |-> user[n].id, role |-> r]]
    /\ UNCHANGED <<user, legacy, sess, nextUid, nextPw, migrated>>

\* UPDATE or DELETE ... WHERE id = ?: nothing happens if the row is gone.
ActionWrite(b) ==
    /\ areq[b].op \in {"disable", "enable", "delete", "change_role"}
    /\ user' = [n \in Names |->
          IF ~Exists(n) \/ user[n].id # areq[b].id THEN user[n]
          ELSE CASE areq[b].op = "delete" -> NoUser
                 [] areq[b].op = "disable" -> [user[n] EXCEPT !.on = FALSE]
                 [] areq[b].op = "enable" -> [user[n] EXCEPT !.on = TRUE]
                 [] OTHER -> [user[n] EXCEPT !.role = areq[b].role]]
    /\ areq' = [areq EXCEPT ![b] = NoReq]
    /\ UNCHANGED <<legacy, sess, nextUid, nextPw, migrated>>

\* reset_dashboard_user_password with role=None: the password alone.
ResetWrite(b) ==
    /\ areq[b].op = "reset_password" /\ Fresh
    /\ user' = [n \in Names |->
          IF Exists(n) /\ user[n].id = areq[b].id
          THEN [user[n] EXCEPT !.pw = nextPw] ELSE user[n]]
    /\ nextPw' = nextPw + 1
    /\ areq' = [areq EXCEPT ![b] = NoReq]
    /\ UNCHANGED <<legacy, sess, nextUid, migrated>>

\* admin_change_password: the session's own row, and its present password.
admin_change_password(b) ==
    /\ MayAsk(b) /\ RequireAdmin(b)
    /\ areq' = [areq EXCEPT ![b] =
          [op |-> "own_password", id |-> CurrentUser(b).id,
           role |-> CurrentUser(b).role]]
    /\ UNCHANGED <<user, legacy, sess, nextUid, nextPw, migrated>>

\* reset_dashboard_user_password with the role that was read, and a new stamp
\* from the row as it now is.
OwnPasswordWrite(b) ==
    /\ areq[b].op = "own_password" /\ Fresh
    /\ user' = [n \in Names |->
          IF Exists(n) /\ user[n].id = areq[b].id
          THEN [user[n] EXCEPT !.pw = nextPw, !.role = areq[b].role]
          ELSE user[n]]
    /\ LET ns == NameOf(areq[b].id)
       IN  sess' = IF ns = {} THEN [sess EXCEPT ![b].stamp = NoStamp]
                   ELSE [sess EXCEPT ![b].pw = nextPw, ![b].stamp =
                            UserAuthStamp(user'[CHOOSE n \in ns : TRUE])]
    /\ nextPw' = nextPw + 1
    /\ areq' = [areq EXCEPT ![b] = NoReq]
    /\ UNCHANGED <<legacy, nextUid, migrated>>

AccNext ==
    \/ ensure_schema
    \/ bootstrap_dashboard_admin_from_settings
    \/ \E b \in Browsers :
        \/ LoginStamp(b) \/ SetupWrite(b) \/ LegacyLogin(b) \/ logout(b)
        \/ CreateWrite(b) \/ ActionWrite(b) \/ ResetWrite(b)
        \/ admin_change_password(b) \/ OwnPasswordWrite(b)
        \/ \E n \in Names :
            \/ admin_setup(b, n) \/ dashboard_login(b, n) \/ admin_login(b, n)
            \/ \E r \in Roles :
                \/ admin_create_user(b, n, r)
                \/ admin_user_action(b, "change_role", n, r)
            \/ \E op \in {"disable", "enable", "delete", "reset_password"} :
                admin_user_action(b, op, n, "viewer")

AccSpec == AccInit /\ [][AccNext]_accVars

(***************************************************************************)
(* Properties                                                              *)
(***************************************************************************)
\* admin_user_action and the last Super Admin: once the installation has one,
\* an enabled Super Admin always remains (without one require_admin refuses
\* everything, and only the server console helps).
SuperAdminRemains == [][SuperAdmins # {} => SuperAdmins' # {}]_accVars

\* dashboard_allowed: whoever is let in has typed the password the account
\* has now; a reset ends the sessions that were opened before it.
ResetEndsSessions ==
    \A b \in Browsers : Allowed(b) => sess[b].pw = CurrentUser(b).pw

\* _can_manage_user: only a Super Admin's request changes, disables, resets or
\* deletes the account of a Super Admin; a regular Admin never does.
SuperIsBeyondAdmins ==
    [][\A b \in Browsers, n \in Names :
          /\ areq[b].op \in {"disable", "delete", "reset_password",
                             "change_role"}
          /\ areq'[b] = NoReq
          /\ Exists(n) /\ user[n].role = "super_admin" /\ user'[n] # user[n]
          => IsSuper(b)]_accVars

\* admin_change_password and reset_password: a password is never changed
\* together with a role; roles change by change_role alone.
PasswordKeepsRole ==
    [][\A n \in Names :
          /\ Exists(n) /\ user'[n] # NoUser /\ user'[n].id = user[n].id
          /\ user'[n].pw # user[n].pw
          => user'[n].role = user[n].role]_accVars

\* ensure_schema: once migrated, no restart of the application promotes the
\* regular Admins that were made since; only a Super Admin's request does.
OnlySupersPromote ==
    [][migrated /\ areq' = areq
       => \A n \in Names : Exists(n) => user'[n] = user[n]]_accVars
=============================================================================
