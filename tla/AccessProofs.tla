------------------------------ MODULE AccessProofs ------------------------------
(***************************************************************************)
(* Proofs about Accounts, while the web service runs one request at a time *)
(* (AccSlots = 1, as the runs but acc_race assume), and about ApiKeys with *)
(* any number of processes, callers and administrators.                    *)
(*                                                                         *)
(* With one request at a time a request's check still holds when it        *)
(* writes; the invariants say so for each request, and what is known of a  *)
(* session's stamp.  For the keys they say that what is gone stays gone,   *)
(* what the processes of this minute have counted, and what a process that *)
(* skips a flush may rely on.                                              *)
(***************************************************************************)
EXTENDS Accounts, ApiKeys, FiniteSetTheorems, TLAPS

USE AccountsAssumption, ApiAssumption

(***************************************************************************)
(* Accounts                                                                *)
(***************************************************************************)
Targeted == {"disable", "enable", "delete", "reset_password", "change_role"}
AccRequests ==
    {NoReq} \cup [op : {"login"}, name : Names, id : 1..MaxUid, pw : 1..MaxPw]
    \cup [op : {"setup"}, name : Names] \cup [op : {"create"}, name : Names, role : Roles]
    \cup [op : Targeted \cup {"own_password"}, id : 1..MaxUid, role : Roles]

\* Types, and no id is given twice.
RowsInv ==
    /\ user \in [Names -> UserRow \cup {NoUser}]
    /\ legacy \in {NoLegacy} \cup [name : Names, pw : 1..MaxPw]
    /\ sess \in [Browsers -> Session \cup {NoSession}]
    /\ areq \in [Browsers -> AccRequests]
    /\ migrated \in BOOLEAN
    /\ nextUid \in 1..(MaxUid + 1) /\ nextPw \in 1..(MaxPw + 1)
    /\ \A n \in Names : Exists(n) => user[n].id < nextUid
    /\ \A m, n \in Names : Exists(m) /\ Exists(n) /\ user[m].id = user[n].id => m = n

\* One request at a time.
OneInv ==
    /\ \A b, c \in Browsers : areq[b] # NoReq /\ areq[c] # NoReq => b = c
    /\ \A b \in Browsers : areq[b] # NoReq => migrated

\* What the request of b, and the row it is about, were when it was let in.
Checked(b) ==
    /\ areq[b].op = "login" => /\ Exists(areq[b].name)
                               /\ user[areq[b].name].id = areq[b].id
                               /\ user[areq[b].name].pw = areq[b].pw
    /\ areq[b].op = "setup" => legacy = NoLegacy /\ \A n \in Names : ~Exists(n)
    /\ areq[b].op \in Targeted \cup {"own_password"} => areq[b].id < nextUid
    /\ \/ areq[b].op \in {"disable", "delete"}
       \/ areq[b].op = "change_role" /\ areq[b].role # "super_admin"
       => \E m \in SuperAdmins : user[m].id # areq[b].id
    /\ areq[b].op \in Targeted =>
        \A n \in Names : user[n].id = areq[b].id /\ user[n].role = "super_admin" => IsSuper(b)
    /\ areq[b].op = "own_password" =>
        /\ sess[b] # NoSession
        /\ \A n \in Names : user[n].id = areq[b].id => user[n].role = areq[b].role

\* A stamp tells the password that was typed for its session.
Stamped(b) == sess[b] # NoSession => sess[b].stamp = NoStamp \/ sess[b].stamp.pw = sess[b].pw

AccInv == RowsInv /\ OneInv /\ \A b \in Browsers : Checked(b) /\ Stamped(b)

\* What the action properties say of one step.
SomeSuperRemains == SuperAdmins # {} => SuperAdmins' # {}
SupersUntouched ==
    \A b \in Browsers, n \in Names :
        /\ areq[b].op \in {"disable", "delete", "reset_password", "change_role"}
        /\ areq'[b] = NoReq
        /\ Exists(n) /\ user[n].role = "super_admin" /\ user'[n] # user[n]
        => IsSuper(b)
RoleStays ==
    \A n \in Names :
        /\ Exists(n) /\ user'[n] # NoUser /\ user'[n].id = user[n].id
        /\ user'[n].pw # user[n].pw
        => user'[n].role = user[n].role
NobodyPromoted == migrated /\ areq' = areq => \A n \in Names : Exists(n) => user'[n] = user[n]
Guarded == SomeSuperRemains /\ SupersUntouched /\ RoleStays /\ NobodyPromoted

-----------------------------------------------------------------------------
\* A row of a user has an id; NoUser and NoSession are no rows.
LEMMA RowsAre ==
    ASSUME RowsInv
    PROVE  /\ \A n \in Names : Exists(n) <=> user[n] \in UserRow
           /\ \A n \in Names : Exists(n) <=> user[n].id # 0
           /\ \A b \in Browsers : sess[b] # NoSession <=> sess[b] \in Session
<1>1. \A r \in UserRow : r # NoUser /\ r.id # 0
  BY DEF UserRow, NoUser
<1>2. \A r \in Session : r # NoSession
  BY DEF Session, NoSession
<1> QED
  BY <1>1, <1>2 DEF RowsInv, Exists, NoUser

\* current_dashboard_user gives the row of an account.
LEMMA CurrentUserIsARow ==
    ASSUME RowsInv, NEW b \in Browsers, Allowed(b)
    PROVE  /\ sess[b] \in Session
           /\ \E n \in Names : Exists(n) /\ CurrentUser(b) = user[n]
<1>1. CurrentUser(b) # NoUser
  BY DEF Allowed
<1>2. sess[b] # NoSession
  BY <1>1 DEF CurrentUser
<1>3. sess[b] \in Session /\ sess[b].name \in Names
  BY <1>2, RowsAre DEF Session
<1>4. \E n \in Names : CurrentUser(b) = user[n]
  BY <1>2, <1>3 DEF CurrentUser, NameOf
<1> QED
  BY <1>1, <1>3, <1>4 DEF Exists

\* A worker thread is free: with one slot, no other request is under way.
LEMMA NoneUnderWay ==
    ASSUME AccSlots = 1, NEW b \in Browsers, MayAsk(b)
    PROVE  migrated /\ \A c \in Browsers : areq[c] = NoReq
<1> DEFINE busy == {c \in Browsers : areq[c] # NoReq}
<1>1. busy \in SUBSET Browsers /\ IsFiniteSet(busy)
  BY FS_Subset
<1>2. Cardinality(busy) \in Nat /\ Cardinality(busy) < 1
  BY <1>1, FS_CardinalityType DEF MayAsk
<1>3. busy = {}
  BY <1>1, <1>2, FS_EmptySet
<1> QED
  BY <1>3 DEF MayAsk

LEMMA AccountsInitially == AccInit => AccInv
<1> SUFFICES ASSUME AccInit PROVE AccInv
  OBVIOUS
<1>1. RowsInv
  <2>1. /\ sess \in [Browsers -> Session \cup {NoSession}]
        /\ areq \in [Browsers -> AccRequests] /\ migrated \in BOOLEAN
    BY DEF AccInit, AccRequests
  <2>2. CASE /\ legacy = NoLegacy /\ user = [n \in Names |-> NoUser]
             /\ nextUid = 1 /\ nextPw = 1
    BY <2>1, <2>2 DEF RowsInv, Exists
  <2>3. ASSUME NEW n \in Names, legacy = [name |-> n, pw |-> 1],
               user = [m \in Names |-> NoUser], nextUid = 1, nextPw = 2
        PROVE  RowsInv
    BY <2>1, <2>3 DEF RowsInv, Exists
  <2>4. ASSUME NEW n \in Names, legacy = NoLegacy, nextUid = 2, nextPw = 2,
               user = [m \in Names |-> IF m # n THEN NoUser ELSE
                          [id |-> 1, pw |-> 1, role |-> "admin", on |-> TRUE]]
        PROVE  RowsInv
    <3>1. [id |-> 1, pw |-> 1, role |-> "admin", on |-> TRUE] \in UserRow
      BY DEF UserRow, Roles
    <3> QED
      BY <2>1, <2>4, <3>1 DEF RowsInv, Exists
  <2> QED
    BY <2>2, <2>3, <2>4 DEF AccInit
<1>2. OneInv /\ \A b \in Browsers : Checked(b) /\ Stamped(b)
  BY DEF AccInit, OneInv, Checked, Stamped, NoReq, Targeted
<1> QED
  BY <1>1, <1>2 DEF AccInv

\* A request is let in: nothing but its record changes.
LEMMA RequestEnters ==
    ASSUME AccInv, NEW b \in Browsers, NEW r \in AccRequests,
           migrated, \A c \in Browsers : areq[c] = NoReq,
           areq' = [areq EXCEPT ![b] = r],
           UNCHANGED <<user, legacy, sess, nextUid, nextPw, migrated>>,
           Checked(b)'
    PROVE  AccInv' /\ Guarded
<1>1. /\ \A c \in Browsers : c # b => areq'[c] = NoReq
      /\ areq' \in [Browsers -> AccRequests]
  BY DEF AccInv, RowsInv
<1>2. RowsInv'
  BY <1>1 DEF AccInv, RowsInv, Exists
<1>3. OneInv'
  BY <1>1 DEF OneInv
<1>4. \A c \in Browsers : Checked(c)'
  BY <1>1 DEF Checked, NoReq, Targeted
<1>5. \A c \in Browsers : Stamped(c)'
  BY DEF AccInv, Stamped
<1>6. Guarded
  <2>1. SuperAdmins' = SuperAdmins
    BY DEF SuperAdmins, Exists
  <2>2. \A c \in Browsers : areq[c].op = "none"
    BY DEF NoReq
  <2> QED
    BY <2>1, <2>2 DEF Guarded, SomeSuperRemains, SupersUntouched, RoleStays, NobodyPromoted
<1> QED
  BY <1>2, <1>3, <1>4, <1>5, <1>6 DEF AccInv

\* The requests that are let in.
LEMMA ChecksKeep ==
    ASSUME AccSlots = 1, AccInv, NEW b \in Browsers,
           \/ admin_change_password(b)
           \/ \E n \in Names :
                \/ admin_setup(b, n) \/ dashboard_login(b, n) \/ admin_login(b, n)
                \/ \E r \in Roles : \/ admin_create_user(b, n, r)
                                    \/ admin_user_action(b, "change_role", n, r)
                \/ \E op \in {"disable", "enable", "delete", "reset_password"} :
                     admin_user_action(b, op, n, "viewer")
    PROVE  AccInv' /\ Guarded
<1>1. MayAsk(b)
  BY DEF admin_change_password, admin_setup, dashboard_login, admin_login, LoginCheck,
         admin_create_user, admin_user_action
<1>2. migrated /\ \A c \in Browsers : areq[c] = NoReq
  BY <1>1, NoneUnderWay
<1>3. RowsInv
  BY DEF AccInv
<1> USE DEF Targeted
<1>4. CASE admin_change_password(b)
  <2> DEFINE u == CurrentUser(b)
             r == [op |-> "own_password", id |-> u.id, role |-> u.role]
  <2>1. /\ sess[b] \in Session /\ sess[b] # NoSession
        /\ \E n \in Names : Exists(n) /\ u = user[n] /\ u \in UserRow /\ u.id < nextUid
    BY <1>3, <1>4, CurrentUserIsARow, RowsAre DEF admin_change_password, RequireAdmin, RowsInv
  <2>2. r \in AccRequests /\ r.op = "own_password" /\ r.id = u.id /\ r.role = u.role
    BY <2>1 DEF AccRequests, UserRow
  <2>3. \A n \in Names : user[n].id = u.id => user[n].role = u.role
    BY <1>3, <2>1, RowsAre DEF RowsInv, UserRow
  <2>4. /\ areq' = [areq EXCEPT ![b] = r]
        /\ UNCHANGED <<user, legacy, sess, nextUid, nextPw, migrated>>
    BY <1>4 DEF admin_change_password
  <2>5. areq'[b] = r
    BY <1>3, <2>4 DEF RowsInv
  <2> HIDE DEF r, u
  <2>6. Checked(b)'
    BY <2>1, <2>2, <2>3, <2>4, <2>5 DEF Checked
  <2> QED
    BY <1>2, <2>2, <2>4, <2>6, RequestEnters
<1>5. ASSUME NEW n \in Names, admin_setup(b, n)
      PROVE  AccInv' /\ Guarded
  <2> DEFINE r == [op |-> "setup", name |-> n]
  <2>1. r \in AccRequests /\ r.op = "setup"
    BY DEF AccRequests
  <2>2. /\ areq' = [areq EXCEPT ![b] = r] /\ areq'[b] = r
        /\ UNCHANGED <<user, legacy, sess, nextUid, nextPw, migrated>>
        /\ legacy = NoLegacy /\ \A m \in Names : ~Exists(m)
    BY <1>3, <1>5 DEF admin_setup, RowsInv
  <2> HIDE DEF r
  <2>3. Checked(b)'
    BY <2>1, <2>2 DEF Checked, Exists
  <2> QED
    BY <1>2, <2>1, <2>2, <2>3, RequestEnters
<1>6. ASSUME NEW n \in Names, Exists(n), LoginCheck(b, n)
      PROVE  AccInv' /\ Guarded
  <2> DEFINE r == [op |-> "login", name |-> n, id |-> user[n].id, pw |-> user[n].pw]
  <2>1. r \in AccRequests /\ r.op = "login" /\ r.name = n /\ r.id = user[n].id
        /\ r.pw = user[n].pw
    BY <1>3, <1>6, RowsAre DEF AccRequests, UserRow
  <2>2. /\ areq' = [areq EXCEPT ![b] = r] /\ areq'[b] = r
        /\ UNCHANGED <<user, legacy, sess, nextUid, nextPw, migrated>>
    BY <1>3, <1>6 DEF LoginCheck, RowsInv
  <2> HIDE DEF r
  <2>3. Checked(b)'
    BY <1>6, <2>1, <2>2 DEF Checked, Exists
  <2> QED
    BY <1>2, <2>1, <2>2, <2>3, RequestEnters
<1>7. ASSUME NEW n \in Names, NEW role \in Roles, admin_create_user(b, n, role)
      PROVE  AccInv' /\ Guarded
  <2> DEFINE r == [op |-> "create", name |-> n, role |-> role]
  <2>1. r \in AccRequests /\ r.op = "create"
    BY DEF AccRequests
  <2>2. /\ areq' = [areq EXCEPT ![b] = r] /\ areq'[b] = r
        /\ UNCHANGED <<user, legacy, sess, nextUid, nextPw, migrated>>
    BY <1>3, <1>7 DEF admin_create_user, RowsInv
  <2> HIDE DEF r
  <2>3. Checked(b)'
    BY <2>1, <2>2 DEF Checked
  <2> QED
    BY <1>2, <2>1, <2>2, <2>3, RequestEnters
<1>8. ASSUME NEW op \in Targeted, NEW n \in Names, NEW role \in Roles,
             admin_user_action(b, op, n, role)
      PROVE  AccInv' /\ Guarded
  <2> DEFINE r == [op |-> op, id |-> user[n].id, role |-> role]
  <2>1. Exists(n) /\ user[n] \in UserRow /\ user[n].id < nextUid
    BY <1>3, <1>8, RowsAre DEF admin_user_action, RowsInv
  <2>2. r \in AccRequests /\ r.op = op /\ r.id = user[n].id /\ r.role = role
    BY <2>1 DEF AccRequests, UserRow
  <2>3. /\ areq' = [areq EXCEPT ![b] = r] /\ areq'[b] = r
        /\ UNCHANGED <<user, legacy, sess, nextUid, nextPw, migrated>>
    BY <1>3, <1>8 DEF admin_user_action, RowsInv
  <2> HIDE DEF r
  <2>4. \A m \in Names : user[m].id = user[n].id => m = n
    BY <1>3, <2>1, RowsAre DEF RowsInv, UserRow
  <2>5. op \in {"disable", "delete"} \/ (op = "change_role" /\ role # "super_admin")
        => \E m \in SuperAdmins : user[m].id # user[n].id
    <3> SUFFICES ASSUME SuperAdmins # {}, SuperAdmins # {n}
                 PROVE  \E m \in SuperAdmins : user[m].id # user[n].id
      BY <1>8 DEF admin_user_action, RequireAdmin, LastSuper
    <3>1. \E m \in SuperAdmins : m # n
      OBVIOUS
    <3> QED
      BY <2>4, <3>1 DEF SuperAdmins
  <2>6. user[n].role = "super_admin" => IsSuper(b)
    BY <1>8 DEF admin_user_action, CanManage
  <2>7. SuperAdmins' = SuperAdmins /\ IsSuper(b)' = IsSuper(b)
    BY <2>3 DEF SuperAdmins, Exists, IsSuper, CurrentUser, NameOf
  <2>8. Checked(b)'
    BY <2>1, <2>2, <2>3, <2>4, <2>5, <2>6, <2>7 DEF Checked
  <2> QED
    BY <1>2, <2>2, <2>3, <2>8, RequestEnters
<1> QED
  BY <1>4, <1>5, <1>6, <1>7, <1>8 DEF dashboard_login, admin_login, Roles

-----------------------------------------------------------------------------
\* While no request is under way after a step, nothing has been checked.
LEMMA NothingChecked ==
    ASSUME RowsInv', \A c \in Browsers : areq'[c] = NoReq, \A c \in Browsers : Stamped(c)'
    PROVE  AccInv'
  BY DEF AccInv, OneInv, Checked, NoReq, Targeted

\* The request of b ends: it was the only one.
LEMMA RequestEnds ==
    ASSUME AccInv, NEW b \in Browsers, areq[b] # NoReq, areq' = [areq EXCEPT ![b] = NoReq],
           RowsInv', \A c \in Browsers : Stamped(c)'
    PROVE  AccInv' /\ \A c \in Browsers : areq'[c] = NoReq /\ (c # b => areq[c] = NoReq)
<1>1. \A c \in Browsers : areq'[c] = NoReq /\ (c # b => areq[c] = NoReq)
  BY DEF AccInv, RowsInv, OneInv
<1> QED
  BY <1>1, NothingChecked

\* A new row, with the next id.
LEMMA NewRowTyped ==
    ASSUME RowsInv, NEW n \in Names, ~Exists(n), NEW r \in UserRow, r.id = nextUid,
           user' = [user EXCEPT ![n] = r], nextUid' = nextUid + 1,
           legacy' \in {NoLegacy} \cup [name : Names, pw : 1..MaxPw],
           sess' \in [Browsers -> Session \cup {NoSession}],
           areq' \in [Browsers -> AccRequests], migrated' \in BOOLEAN,
           nextPw' \in 1..(MaxPw + 1)
    PROVE  RowsInv'
<1>1. r.id \in 1..MaxUid /\ nextUid' \in 1..(MaxUid + 1)
  BY DEF UserRow
<1>2. user' \in [Names -> UserRow \cup {NoUser}]
  BY DEF RowsInv
<1>3. \A m \in Names : user'[m] = IF m = n THEN r ELSE user[m]
  BY DEF RowsInv
<1>4. r # NoUser
  BY DEF UserRow, NoUser
<1>5. \A m \in Names : Exists(m)' => user'[m].id < nextUid'
  BY <1>1, <1>3, RowsAre DEF RowsInv, Exists, UserRow
<1>6. \A m, k \in Names : Exists(m)' /\ Exists(k)' /\ user'[m].id = user'[k].id => m = k
  BY <1>1, <1>3, <1>4, RowsAre DEF RowsInv, Exists, UserRow
<1> QED
  BY <1>1, <1>2, <1>5, <1>6 DEF RowsInv

\* Rows change, but for their id; others go.
LEMMA RowsChangeTyped ==
    ASSUME RowsInv, user' \in [Names -> UserRow \cup {NoUser}],
           \A n \in Names : user'[n] = NoUser \/ (Exists(n) /\ user'[n].id = user[n].id),
           sess' \in [Browsers -> Session \cup {NoSession}],
           areq' \in [Browsers -> AccRequests], migrated' \in BOOLEAN,
           nextPw' \in 1..(MaxPw + 1), UNCHANGED <<legacy, nextUid>>
    PROVE  RowsInv'
  BY DEF RowsInv, Exists

\* Nothing moves.
LEMMA NothingMoves ==
    ASSUME AccInv, UNCHANGED accVars
    PROVE  AccInv' /\ Guarded
<1>1. RowsInv' /\ OneInv'
  BY DEF accVars, AccInv, RowsInv, OneInv, Exists
<1>2. SuperAdmins' = SuperAdmins /\ \A c \in Browsers : IsSuper(c)' = IsSuper(c)
  BY DEF accVars, SuperAdmins, Exists, IsSuper, CurrentUser, NameOf
<1>3. \A c \in Browsers : Checked(c)' /\ Stamped(c)'
  BY <1>2 DEF accVars, AccInv, Checked, Stamped, Exists
<1>4. Guarded
  BY <1>2 DEF accVars, Guarded, SomeSuperRemains, SupersUntouched, RoleStays, NobodyPromoted
<1> QED
  BY <1>1, <1>3, <1>4 DEF AccInv

\* ensure_schema, bootstrap_dashboard_admin_from_settings and the logouts.
LEMMA ServiceKeeps ==
    ASSUME AccInv,
           \/ ensure_schema \/ bootstrap_dashboard_admin_from_settings
           \/ \E b \in Browsers : logout(b)
    PROVE  AccInv' /\ Guarded
<1> RowsInv
  BY DEF AccInv
<1>1. CASE ensure_schema
  <2>1. /\ user' = [n \in Names |->
              IF Exists(n) /\ user[n].role = "admin" /\ ~migrated
              THEN [user[n] EXCEPT !.role = "super_admin"] ELSE user[n]]
        /\ migrated' = TRUE /\ UNCHANGED <<legacy, sess, areq, nextUid, nextPw>>
    BY <1>1 DEF ensure_schema
  <2>2. CASE migrated
    <3>1. user' = user /\ migrated' = migrated
      BY <2>1, <2>2 DEF RowsInv
    <3> QED
      BY <2>1, <3>1, NothingMoves DEF accVars
  <2>3. CASE ~migrated
    <3>1. \A c \in Browsers : areq[c] = NoReq
      BY <2>3 DEF AccInv, OneInv
    <3>2. \A n \in Names : /\ Exists(n) => /\ user'[n] \in UserRow /\ user'[n].id = user[n].id
                                           /\ user'[n].pw = user[n].pw
                                           /\ user'[n].on = user[n].on
                                           /\ user[n].role = "super_admin" => user'[n] = user[n]
                           /\ ~Exists(n) => user'[n] = NoUser
      BY <2>1, RowsAre DEF UserRow, Roles, Exists
    <3>3. user' \in [Names -> UserRow \cup {NoUser}]
      BY <2>1, <3>2
    <3>4. RowsInv'
      BY <2>1, <3>2, <3>3, RowsChangeTyped DEF RowsInv
    <3>5. AccInv'
      BY <2>1, <3>1, <3>4, NothingChecked DEF AccInv, Stamped
    <3>6. SomeSuperRemains
      BY <3>2, RowsAre DEF SomeSuperRemains, SuperAdmins, Exists
    <3>7. SupersUntouched /\ RoleStays /\ NobodyPromoted
      BY <2>3, <3>1, <3>2 DEF SupersUntouched, RoleStays, NobodyPromoted, NoReq
    <3> QED
      BY <3>5, <3>6, <3>7 DEF Guarded
  <2> QED
    BY <2>2, <2>3 DEF RowsInv
<1>2. CASE bootstrap_dashboard_admin_from_settings
  <2> DEFINE n == legacy.name
             r == [id |-> nextUid, pw |-> legacy.pw, role |-> "super_admin", on |-> TRUE]
  <2>1. /\ \A m \in Names : ~Exists(m)
        /\ legacy # NoLegacy /\ nextUid <= MaxUid /\ nextUid' = nextUid + 1
        /\ user' = [user EXCEPT ![n] = r]
        /\ UNCHANGED <<legacy, sess, areq, nextPw, migrated>>
    BY <1>2 DEF bootstrap_dashboard_admin_from_settings
  <2>2. n \in Names /\ legacy.pw \in 1..MaxPw
    BY <2>1 DEF RowsInv
  <2>3. r \in UserRow /\ r.id = nextUid
    BY <2>1, <2>2 DEF UserRow, Roles, RowsInv
  <2> HIDE DEF r, n
  <2>4. RowsInv'
    BY <2>1, <2>2, <2>3, NewRowTyped DEF RowsInv
  <2>5. SuperAdmins = {}
    BY <2>1 DEF SuperAdmins
  <2>6. \A m \in Names : user'[m].id = 0 \/ user'[m].id = nextUid
    BY <2>1, <2>2, <2>3, RowsAre DEF RowsInv
  <2>7. \A c \in Browsers : areq[c].op \in Targeted \cup {"own_password"} =>
            areq[c].id \in 1..MaxUid /\ areq[c].id < nextUid
    BY DEF AccInv, RowsInv, Checked, AccRequests, NoReq, Targeted
  <2>8. ASSUME NEW c \in Browsers
        PROVE  Checked(c)' /\ Stamped(c)'
    <3>1. areq[c].op # "login" /\ areq[c].op # "setup"
      <4>1. areq[c].op = "login" => areq[c].name \in Names
        BY DEF RowsInv, AccRequests, NoReq, Targeted
      <4> QED
        BY <2>1, <4>1 DEF AccInv, Checked
    <3>2. ~(\/ areq[c].op \in {"disable", "delete"}
            \/ areq[c].op = "change_role" /\ areq[c].role # "super_admin")
      BY <2>5 DEF AccInv, Checked
    <3>3. areq[c].op \in Targeted \cup {"own_password"} =>
              /\ areq[c].id < nextUid + 1
              /\ \A m \in Names : user'[m].id # areq[c].id
      BY <2>6, <2>7 DEF RowsInv
    <3> QED
      BY <2>1, <3>1, <3>2, <3>3 DEF AccInv, Checked, Stamped
  <2>9. OneInv'
    BY <2>1 DEF AccInv, OneInv
  <2>10. Guarded
    BY <2>1, <2>5 DEF Guarded, SomeSuperRemains, SupersUntouched, RoleStays, NobodyPromoted
  <2> QED
    BY <2>4, <2>8, <2>9, <2>10 DEF AccInv
<1>3. ASSUME NEW b \in Browsers, logout(b)
      PROVE  AccInv' /\ Guarded
  <2>1. /\ areq[b] = NoReq /\ sess' = [sess EXCEPT ![b] = NoSession]
        /\ UNCHANGED <<user, legacy, areq, nextUid, nextPw, migrated>>
    BY <1>3 DEF logout
  <2>2. RowsInv' /\ OneInv'
    BY <2>1 DEF AccInv, RowsInv, OneInv, Exists
  <2>3. \A c \in Browsers : sess'[c] = IF c = b THEN NoSession ELSE sess[c]
    BY <2>1 DEF RowsInv
  <2>4. SuperAdmins' = SuperAdmins /\ \A c \in Browsers : c # b => IsSuper(c)' = IsSuper(c)
    BY <2>1, <2>3 DEF SuperAdmins, Exists, IsSuper, CurrentUser, NameOf
  <2>5. ASSUME NEW c \in Browsers
        PROVE  Checked(c)' /\ Stamped(c)'
    <3>1. CASE c = b
      BY <2>1, <2>3, <3>1 DEF Checked, Stamped, NoReq, Targeted
    <3>2. CASE c # b
      BY <2>1, <2>3, <2>4, <3>2 DEF AccInv, Checked, Stamped, Exists
    <3> QED
      BY <3>1, <3>2
  <2>6. Guarded
    BY <2>1, <2>4 DEF Guarded, SomeSuperRemains, SupersUntouched, RoleStays, NobodyPromoted
  <2> QED
    BY <2>2, <2>5, <2>6 DEF AccInv
<1> QED
  BY <1>1, <1>2, <1>3

\* The requests' writes.
LEMMA WritesKeep ==
    ASSUME AccSlots = 1, AccInv, NEW b \in Browsers,
           \/ LoginStamp(b) \/ SetupWrite(b) \/ LegacyLogin(b)
           \/ CreateWrite(b) \/ ActionWrite(b) \/ ResetWrite(b) \/ OwnPasswordWrite(b)
    PROVE  AccInv' /\ Guarded
<1>1. RowsInv /\ Checked(b) /\ areq[b] \in AccRequests /\ \A c \in Browsers : Stamped(c)
  BY DEF AccInv, RowsInv
<1>2. areq[b].op = "login" => /\ areq[b].name \in Names /\ areq[b].id \in 1..MaxUid
                              /\ areq[b].pw \in 1..MaxPw
  BY <1>1 DEF AccRequests, NoReq, Targeted
<1>3. areq[b].op = "setup" => areq[b].name \in Names
  BY <1>1 DEF AccRequests, NoReq, Targeted
<1>4. areq[b].op = "create" => areq[b].name \in Names /\ areq[b].role \in Roles
  BY <1>1 DEF AccRequests, NoReq, Targeted
<1>5. areq[b].op \in Targeted \cup {"own_password"} =>
          areq[b].id \in 1..MaxUid /\ areq[b].role \in Roles
  BY <1>1 DEF AccRequests, NoReq, Targeted
<1>6. areq[b].op # "none" => areq[b] # NoReq
  BY DEF NoReq
<1>7. NoReq \in AccRequests
  BY DEF AccRequests
\* The end of a request which leaves the accounts as they are.
<1>8. ASSUME areq[b] # NoReq, areq' = [areq EXCEPT ![b] = NoReq], RowsInv',
             \A c \in Browsers : Stamped(c)', user' = user
      PROVE  AccInv' /\ Guarded
  <2>1. AccInv' /\ areq'[b] = NoReq
    BY <1>8, RequestEnds
  <2>2. SuperAdmins' = SuperAdmins
    BY <1>8 DEF SuperAdmins, Exists
  <2> QED
    BY <1>8, <2>1, <2>2 DEF Guarded, SomeSuperRemains, SupersUntouched, RoleStays, NobodyPromoted
<1>9. CASE LoginStamp(b)
  <2> DEFINE u == user[areq[b].name]
             s == [name |-> areq[b].name, id |-> areq[b].id, pw |-> areq[b].pw,
                   stamp |-> IF u = NoUser THEN NoStamp ELSE UserAuthStamp(u)]
  <2>1. areq[b].op = "login" /\ areq[b] # NoReq
    BY <1>6, <1>9 DEF LoginStamp
  <2>2. u \in UserRow /\ u # NoUser /\ u.pw = areq[b].pw
    BY <1>1, <1>2, <2>1, RowsAre DEF Checked, Exists
  <2>3. s \in Session /\ s.stamp = u /\ s.pw = areq[b].pw
    BY <1>2, <2>1, <2>2 DEF Session, UserAuthStamp
  <2>4. /\ sess' = [sess EXCEPT ![b] = s] /\ areq' = [areq EXCEPT ![b] = NoReq]
        /\ UNCHANGED <<user, legacy, nextUid, nextPw, migrated>>
    BY <1>9 DEF LoginStamp
  <2> HIDE DEF s
  <2>5. RowsInv'
    BY <1>1, <1>7, <2>3, <2>4 DEF RowsInv, Exists
  <2>6. \A c \in Browsers : Stamped(c)'
    BY <1>1, <2>2, <2>3, <2>4 DEF RowsInv, Stamped
  <2> QED
    BY <1>8, <2>1, <2>4, <2>5, <2>6
\* A session is opened for a new row, of a Super Admin.
<1>10. ASSUME NEW n \in Names, ~Exists(n), Fresh, Upsert(n, nextPw),
              sess' = [sess EXCEPT ![b] = Opened(n, nextPw)], nextPw' = nextPw + 1,
              legacy' \in {NoLegacy} \cup [name : Names, pw : 1..MaxPw],
              areq' \in [Browsers -> AccRequests], migrated' = migrated
       PROVE  /\ RowsInv' /\ \A c \in Browsers : Stamped(c)'
              /\ SomeSuperRemains /\ \A m \in Names : Exists(m) => user'[m] = user[m]
  <2> DEFINE r == [id |-> nextUid, pw |-> nextPw, role |-> "super_admin", on |-> TRUE]
  <2>1. user' = [user EXCEPT ![n] = r] /\ nextUid' = nextUid + 1 /\ nextUid <= MaxUid
    BY <1>10 DEF Upsert
  <2>2. r \in UserRow /\ r.id = nextUid /\ r.pw = nextPw
    BY <1>1, <1>10, <2>1 DEF UserRow, Roles, RowsInv, Fresh
  <2> HIDE DEF r
  <2>3. user'[n] = r /\ \A m \in Names : m # n => user'[m] = user[m]
    BY <1>1, <2>1 DEF RowsInv
  <2>4. Opened(n, nextPw) \in Session /\ Opened(n, nextPw).stamp = r /\ Opened(n, nextPw).pw = nextPw
    BY <1>1, <1>10, <2>2, <2>3 DEF Opened, Session, UserAuthStamp, UserRow, RowsInv, Fresh
  <2>5. /\ sess' \in [Browsers -> Session \cup {NoSession}]
        /\ nextPw' \in 1..(MaxPw + 1)
    BY <1>1, <1>10, <2>4 DEF RowsInv, Fresh
  <2>6. RowsInv'
    BY <1>1, <1>10, <2>1, <2>2, <2>5, NewRowTyped DEF RowsInv
  <2>7. \A c \in Browsers : Stamped(c)'
    BY <1>1, <1>10, <2>2, <2>4 DEF Stamped, RowsInv
  <2>8. \A m \in Names : Exists(m) => user'[m] = user[m]
    BY <1>10, <2>3
  <2>9. SomeSuperRemains
    BY <2>8 DEF SomeSuperRemains, SuperAdmins, Exists
  <2> QED
    BY <2>6, <2>7, <2>8, <2>9
<1>11. CASE SetupWrite(b)
  <2> DEFINE n == areq[b].name
             p == [name |-> n, pw |-> nextPw]
  <2>1. /\ areq[b].op = "setup" /\ areq[b] # NoReq /\ Fresh /\ n \in Names /\ ~Exists(n)
        /\ Upsert(n, nextPw) /\ sess' = [sess EXCEPT ![b] = Opened(n, nextPw)]
        /\ legacy' = p /\ areq' = [areq EXCEPT ![b] = NoReq]
        /\ nextPw' = nextPw + 1 /\ migrated' = migrated
    BY <1>1, <1>3, <1>6, <1>11 DEF SetupWrite, Checked
  <2>2. p \in [name : Names, pw : 1..MaxPw] /\ areq' \in [Browsers -> AccRequests]
    BY <1>1, <1>7, <2>1 DEF RowsInv, Fresh
  <2> HIDE DEF n, p
  <2>3. /\ RowsInv' /\ \A c \in Browsers : Stamped(c)'
        /\ SomeSuperRemains /\ \A m \in Names : Exists(m) => user'[m] = user[m]
    BY <1>10, <2>1, <2>2
  <2>4. AccInv' /\ areq'[b] = NoReq
    BY <2>1, <2>3, RequestEnds
  <2> QED
    BY <2>1, <2>3, <2>4 DEF Guarded, SupersUntouched, RoleStays, NobodyPromoted
<1>12. CASE LegacyLogin(b)
  <2> DEFINE n == legacy.name
  <2>1. /\ MayAsk(b) /\ legacy # NoLegacy /\ ~Exists(n) /\ Fresh /\ SuperAdmins # {}
        /\ Upsert(n, nextPw) /\ sess' = [sess EXCEPT ![b] = Opened(n, nextPw)]
        /\ nextPw' = nextPw + 1 /\ UNCHANGED <<legacy, areq, migrated>>
    BY <1>12 DEF LegacyLogin
  <2>2. n \in Names /\ \A c \in Browsers : areq[c] = NoReq
    BY <1>1, <2>1, NoneUnderWay DEF RowsInv
  <2> HIDE DEF n
  <2>3. /\ RowsInv' /\ \A c \in Browsers : Stamped(c)'
        /\ SomeSuperRemains /\ \A m \in Names : Exists(m) => user'[m] = user[m]
    BY <1>1, <1>10, <2>1, <2>2 DEF RowsInv
  <2>4. AccInv'
    BY <2>1, <2>2, <2>3, NothingChecked
  <2> QED
    BY <2>1, <2>3, <2>4 DEF Guarded, SupersUntouched, RoleStays, NobodyPromoted
<1>13. CASE CreateWrite(b)
  <2> DEFINE n == areq[b].name
             r == [id |-> nextUid, pw |-> nextPw, role |-> areq[b].role, on |-> TRUE]
  <2>1. /\ areq[b].op = "create" /\ areq[b] # NoReq /\ Fresh /\ n \in Names
        /\ areq' = [areq EXCEPT ![b] = NoReq] /\ UNCHANGED <<legacy, sess, migrated>>
    BY <1>4, <1>6, <1>13 DEF CreateWrite
  <2>2. \A c \in Browsers : Stamped(c)'
    BY <1>1, <2>1 DEF Stamped
  <2>3. CASE Exists(n) /\ UNCHANGED <<user, nextUid, nextPw>>
    <3>1. RowsInv'
      BY <1>1, <1>7, <2>1, <2>3 DEF RowsInv, Exists
    <3> QED
      BY <1>8, <2>1, <2>2, <2>3, <3>1
  <2>4. CASE /\ ~Exists(n) /\ nextUid <= MaxUid /\ user' = [user EXCEPT ![n] = r]
             /\ nextUid' = nextUid + 1 /\ nextPw' = nextPw + 1
    <3>1. r \in UserRow /\ r.id = nextUid
      BY <1>1, <1>4, <2>1, <2>4 DEF UserRow, RowsInv, Fresh
    <3>2. nextPw' \in 1..(MaxPw + 1) /\ areq' \in [Browsers -> AccRequests]
      BY <1>1, <1>7, <2>1, <2>4 DEF RowsInv, Fresh
    <3> HIDE DEF n, r
    <3>3. RowsInv'
      BY <1>1, <2>1, <2>4, <3>1, <3>2, NewRowTyped DEF RowsInv
    <3>4. AccInv'
      BY <2>1, <2>2, <3>3, RequestEnds
    <3>5. \A m \in Names : Exists(m) => user'[m] = user[m]
      BY <1>1, <2>4 DEF RowsInv
    <3>6. SomeSuperRemains
      BY <3>5 DEF SomeSuperRemains, SuperAdmins, Exists
    <3>7. areq' # areq
      BY <1>1, <2>1 DEF RowsInv
    <3> QED
      BY <3>4, <3>5, <3>6, <3>7 DEF Guarded, SupersUntouched, RoleStays, NobodyPromoted
  <2> QED
    BY <1>13, <2>3, <2>4 DEF CreateWrite
\* A request which changes the row of an id.
<1>14. ASSUME areq[b] # NoReq, areq[b].op \in Targeted \cup {"own_password"},
              areq' = [areq EXCEPT ![b] = NoReq],
              user' \in [Names -> UserRow \cup {NoUser}],
              \A n \in Names : ~Exists(n) \/ user[n].id # areq[b].id => user'[n] = user[n],
              \A n \in Names : user'[n] = NoUser \/ user'[n].id = user[n].id,
              sess' \in [Browsers -> Session \cup {NoSession}],
              \A c \in Browsers : Stamped(c)',
              nextPw' \in 1..(MaxPw + 1), UNCHANGED <<legacy, nextUid, migrated>>,
              areq[b].op \in {"enable", "reset_password", "own_password"} =>
                  \A n \in Names : user[n] \in UserRow /\ user[n].id = areq[b].id
                      => /\ user'[n] \in UserRow /\ user'[n].role = user[n].role
                         /\ user'[n].on \in {user[n].on, TRUE},
              areq[b].op = "change_role" =>
                  \A n \in Names : user[n] \in UserRow /\ user[n].id = areq[b].id
                      => user'[n] = [user[n] EXCEPT !.role = areq[b].role],
              \A n \in Names : user[n] \in UserRow /\ user'[n] \in UserRow
                  /\ user'[n].pw # user[n].pw => user'[n].role = user[n].role
       PROVE  AccInv' /\ Guarded
  <2>1. areq' \in [Browsers -> AccRequests]
    BY <1>1, <1>7, <1>14 DEF RowsInv
  <2>2. \A n \in Names : user'[n] = NoUser \/ (Exists(n) /\ user'[n].id = user[n].id)
    BY <1>1, <1>14, RowsAre DEF RowsInv
  <2>3. RowsInv'
    BY <1>1, <1>14, <2>1, <2>2, RowsChangeTyped DEF RowsInv
  <2>4. AccInv' /\ \A c \in Browsers : areq'[c] = NoReq /\ (c # b => areq[c] = NoReq)
    BY <1>14, <2>3, RequestEnds
  <2>5. SupersUntouched
    <3> SUFFICES ASSUME NEW c \in Browsers, NEW n \in Names,
                        areq[c].op \in {"disable", "delete", "reset_password", "change_role"},
                        Exists(n), user[n].role = "super_admin", user'[n] # user[n]
                 PROVE  IsSuper(c)
      BY DEF SupersUntouched
    <3>1. c = b
      BY <2>4 DEF NoReq
    <3>2. user[n].id = areq[b].id
      BY <1>14
    <3> QED
      BY <1>1, <3>1, <3>2 DEF Checked, Targeted
  <2>6. RoleStays
    BY <1>1, <1>14, RowsAre DEF RoleStays, RowsInv
  <2>7. NobodyPromoted
    BY <1>14, <2>4 DEF NobodyPromoted
  <2>8. SomeSuperRemains
    <3> SUFFICES ASSUME NEW m \in SuperAdmins PROVE SuperAdmins' # {}
      BY DEF SomeSuperRemains
    <3>1. m \in Names /\ Exists(m) /\ user[m] \in UserRow /\ user[m].role = "super_admin" /\ user[m].on
      BY <1>1, RowsAre DEF SuperAdmins
    <3>2. CASE \E k \in SuperAdmins : user[k].id # areq[b].id
      <4>1. PICK k \in SuperAdmins : user[k].id # areq[b].id
        BY <3>2
      <4>2. k \in Names /\ user'[k] = user[k]
        BY <1>14, <4>1 DEF SuperAdmins
      <4>3. k \in SuperAdmins'
        BY <4>1, <4>2 DEF SuperAdmins, Exists
      <4> QED
        BY <4>3
    <3>3. CASE areq[b].op \in {"enable", "reset_password", "own_password"}
      <4>1. user'[m] \in UserRow /\ user'[m].on /\ user'[m].role = "super_admin"
        <5>1. CASE user[m].id = areq[b].id
          BY <1>14, <3>1, <3>3, <5>1
        <5>2. CASE user[m].id # areq[b].id
          BY <1>14, <3>1, <5>2
        <5> QED
          BY <5>1, <5>2
      <4>2. user'[m] # NoUser
        BY <4>1 DEF UserRow, NoUser
      <4>3. m \in SuperAdmins'
        BY <3>1, <4>1, <4>2 DEF SuperAdmins, Exists
      <4> QED
        BY <4>3
    <3>4. CASE areq[b].op = "change_role" /\ areq[b].role = "super_admin"
      <4>1. user'[m] = user[m]
        BY <1>14, <3>1, <3>4 DEF UserRow
      <4>2. m \in SuperAdmins'
        BY <3>1, <4>1 DEF SuperAdmins, Exists
      <4> QED
        BY <4>2
    <3> QED
      BY <1>1, <1>14, <3>2, <3>3, <3>4 DEF Checked, Targeted
  <2> QED
    BY <2>4, <2>5, <2>6, <2>7, <2>8 DEF Guarded
<1>15. CASE ActionWrite(b)
  <2> DEFINE i == areq[b].id
             o == areq[b].op
             RowNow(n) == CASE o = "delete" -> NoUser
                            [] o = "disable" -> [user[n] EXCEPT !.on = FALSE]
                            [] o = "enable" -> [user[n] EXCEPT !.on = TRUE]
                            [] OTHER -> [user[n] EXCEPT !.role = areq[b].role]
  <2>1. /\ o \in {"disable", "enable", "delete", "change_role"}
        /\ user' = [n \in Names |-> IF ~Exists(n) \/ user[n].id # i THEN user[n] ELSE RowNow(n)]
        /\ areq' = [areq EXCEPT ![b] = NoReq]
        /\ UNCHANGED <<legacy, sess, nextUid, nextPw, migrated>>
    BY <1>15 DEF ActionWrite
  <2>2. areq[b] # NoReq /\ o \in Targeted /\ areq[b].role \in Roles
    BY <1>5, <1>6, <2>1 DEF Targeted
  <2>3. \A n \in Names : user[n] \in UserRow =>
            /\ RowNow(n) = NoUser \/ RowNow(n) \in UserRow
            /\ RowNow(n) = NoUser \/ (RowNow(n).id = user[n].id /\ RowNow(n).pw = user[n].pw)
            /\ o = "enable" => /\ RowNow(n) \in UserRow /\ RowNow(n).on = TRUE
                               /\ RowNow(n).role = user[n].role
            /\ o = "change_role" => RowNow(n) = [user[n] EXCEPT !.role = areq[b].role]
    BY <2>1, <2>2 DEF UserRow
  <2>4. \A n \in Names : user'[n] = IF ~Exists(n) \/ user[n].id # i THEN user[n] ELSE RowNow(n)
    BY <2>1
  <2> HIDE DEF RowNow
  <2>5. user' \in [Names -> UserRow \cup {NoUser}]
    BY <1>1, <2>1, <2>3, RowsAre DEF RowsInv
  <2>6. \A c \in Browsers : Stamped(c)'
    BY <1>1, <2>1 DEF Stamped
  <2>7. \A n \in Names : user[n] \in UserRow /\ user[n].id = i => user'[n] = RowNow(n)
    BY <1>1, <2>4, RowsAre
  <2>8. \A n \in Names : user'[n] = NoUser \/ user'[n].id = user[n].id
    BY <1>1, <2>3, <2>4, RowsAre
  <2>9. \A n \in Names : user[n] \in UserRow /\ user'[n] \in UserRow => user'[n].pw = user[n].pw
    BY <1>1, <2>3, <2>4, RowsAre DEF UserRow, NoUser
  <2>10. sess' \in [Browsers -> Session \cup {NoSession}] /\ nextPw' \in 1..(MaxPw + 1)
    BY <1>1, <2>1 DEF RowsInv
  <2>11. o # "reset_password" /\ o # "own_password"
    BY <2>1
  <2> QED
    BY <1>14, <2>1, <2>2, <2>3, <2>4, <2>5, <2>6, <2>7, <2>8, <2>9, <2>10, <2>11
<1>16. CASE ResetWrite(b)
  <2> DEFINE i == areq[b].id
  <2>1. /\ areq[b].op = "reset_password" /\ Fresh
        /\ user' = [n \in Names |-> IF Exists(n) /\ user[n].id = i
                                    THEN [user[n] EXCEPT !.pw = nextPw] ELSE user[n]]
        /\ nextPw' = nextPw + 1 /\ areq' = [areq EXCEPT ![b] = NoReq]
        /\ UNCHANGED <<legacy, sess, nextUid, migrated>>
    BY <1>16 DEF ResetWrite
  <2>2. areq[b] # NoReq /\ areq[b].op \in Targeted
    BY <1>6, <2>1 DEF Targeted
  <2>3. nextPw \in 1..MaxPw /\ nextPw' \in 1..(MaxPw + 1)
    <3>1. nextPw \in 1..(MaxPw + 1) /\ nextPw <= MaxPw /\ nextPw' = nextPw + 1
      BY <1>1, <2>1 DEF RowsInv, Fresh
    <3> QED
      BY <3>1
  <2>4. \A n \in Names : user[n] \in UserRow =>
            /\ [user[n] EXCEPT !.pw = nextPw] \in UserRow
            /\ [user[n] EXCEPT !.pw = nextPw].id = user[n].id
            /\ [user[n] EXCEPT !.pw = nextPw].role = user[n].role
            /\ [user[n] EXCEPT !.pw = nextPw].on = user[n].on
    BY <2>3 DEF UserRow
  <2>5. \A n \in Names : user'[n] = IF Exists(n) /\ user[n].id = i
                                    THEN [user[n] EXCEPT !.pw = nextPw] ELSE user[n]
    BY <2>1
  <2>6. user' \in [Names -> UserRow \cup {NoUser}]
    BY <1>1, <2>1, <2>4, RowsAre DEF RowsInv
  <2>7. \A c \in Browsers : Stamped(c)'
    BY <1>1, <2>1 DEF Stamped
  <2>8. \A n \in Names : user[n] \in UserRow =>
            /\ user'[n] \in UserRow /\ user'[n].id = user[n].id
            /\ user'[n].on = user[n].on /\ user'[n].role = user[n].role
    BY <2>4, <2>5
  <2>9. \A n \in Names : ~Exists(n) \/ user[n].id # i => user'[n] = user[n]
    BY <2>5
  <2>10. \A n \in Names : user'[n] = NoUser \/ user'[n].id = user[n].id
    BY <1>1, <2>5, <2>8, RowsAre
  <2>11. sess' \in [Browsers -> Session \cup {NoSession}] /\ areq[b].op # "change_role"
    BY <1>1, <2>1 DEF RowsInv
  <2> QED
    BY <1>14, <2>1, <2>2, <2>3, <2>6, <2>7, <2>8, <2>9, <2>10, <2>11
<1>17. CASE OwnPasswordWrite(b)
  <2> DEFINE i == areq[b].id
             RowNow(n) == [user[n] EXCEPT !.pw = nextPw, !.role = areq[b].role]
             ns == NameOf(i)
  <2>1. /\ areq[b].op = "own_password" /\ Fresh
        /\ user' = [n \in Names |-> IF Exists(n) /\ user[n].id = i THEN RowNow(n) ELSE user[n]]
        /\ sess' = IF ns = {} THEN [sess EXCEPT ![b].stamp = NoStamp]
                   ELSE [sess EXCEPT ![b].pw = nextPw, ![b].stamp =
                            UserAuthStamp(user'[CHOOSE n \in ns : TRUE])]
        /\ nextPw' = nextPw + 1 /\ areq' = [areq EXCEPT ![b] = NoReq]
        /\ UNCHANGED <<legacy, nextUid, migrated>>
    BY <1>17 DEF OwnPasswordWrite
  <2>2. /\ areq[b] # NoReq /\ areq[b].op \in Targeted \cup {"own_password"}
        /\ areq[b].role \in Roles /\ i \in 1..MaxUid
    BY <1>5, <1>6, <2>1 DEF Targeted
  <2>3. nextPw \in 1..MaxPw /\ nextPw' \in 1..(MaxPw + 1)
    <3>1. nextPw \in 1..(MaxPw + 1) /\ nextPw <= MaxPw /\ nextPw' = nextPw + 1
      BY <1>1, <2>1 DEF RowsInv, Fresh
    <3> QED
      BY <3>1
  <2>4. \A n \in Names : user[n] \in UserRow =>
            /\ RowNow(n) \in UserRow /\ RowNow(n).id = user[n].id /\ RowNow(n).on = user[n].on
            /\ RowNow(n).role = areq[b].role /\ RowNow(n).pw = nextPw
    BY <2>2, <2>3 DEF UserRow
  <2>5. \A n \in Names : user'[n] = IF Exists(n) /\ user[n].id = i THEN RowNow(n) ELSE user[n]
    BY <2>1
  <2>6. sess[b] # NoSession /\ \A n \in Names : user[n].id = i => user[n].role = areq[b].role
    BY <1>1, <2>1 DEF Checked
  <2> HIDE DEF RowNow
  <2>7. user' \in [Names -> UserRow \cup {NoUser}]
    BY <1>1, <2>1, <2>4, RowsAre DEF RowsInv
  <2>8. \A n \in Names : user[n] \in UserRow =>
            /\ user'[n] \in UserRow /\ user'[n].id = user[n].id
            /\ user'[n].on = user[n].on /\ user'[n].role = user[n].role
    BY <2>4, <2>5, <2>6
  <2>9. \A n \in Names : ~Exists(n) \/ user[n].id # i => user'[n] = user[n]
    BY <2>5
  <2>10. \A n \in Names : user'[n] = NoUser \/ user'[n].id = user[n].id
    BY <1>1, <2>5, <2>8, RowsAre
  <2>11. /\ sess' \in [Browsers -> Session \cup {NoSession}]
         /\ \A c \in Browsers : Stamped(c)'
    <3>1. sess[b] \in Session /\ sess \in [Browsers -> Session \cup {NoSession}]
      BY <1>1, <2>6, RowsAre DEF RowsInv
    <3>2. CASE ns = {}
      <4> DEFINE s == [sess[b] EXCEPT !.stamp = NoStamp]
      <4>1. s \in Session /\ s.stamp = NoStamp
        BY <3>1 DEF Session
      <4>2. sess' = [sess EXCEPT ![b] = s]
        BY <2>1, <3>2
      <4> HIDE DEF s
      <4> QED
        BY <1>1, <3>1, <4>1, <4>2 DEF Stamped
    <3>3. CASE ns # {}
      <4> DEFINE k == CHOOSE n \in ns : TRUE
                 s == [sess[b] EXCEPT !.pw = nextPw, !.stamp = user'[k]]
      <4>1. k \in Names /\ user[k].id = i
        BY <3>3 DEF NameOf
      <4>2. Exists(k)
        BY <1>1, <2>2, <4>1, RowsAre
      <4>3. user'[k] = RowNow(k) /\ RowNow(k) \in UserRow /\ RowNow(k).pw = nextPw
        BY <1>1, <2>4, <2>5, <4>1, <4>2, RowsAre
      <4>4. sess' = [sess EXCEPT ![b] = s]
        <5>1. sess' = [sess EXCEPT ![b].pw = nextPw, ![b].stamp = user'[k]]
          BY <2>1, <3>3 DEF UserAuthStamp
        <5> DEFINE r1 == [sess[b] EXCEPT !.pw = nextPw]
                   f == [sess EXCEPT ![b] = r1]
        <5>2. sess' = [f EXCEPT ![b] = [f[b] EXCEPT !.stamp = user'[k]]]
          BY <5>1
        <5>3. f[b] = r1
          BY <3>1
        <5>4. [f[b] EXCEPT !.stamp = user'[k]] = s
          BY <5>3
        <5>5. sess' = [f EXCEPT ![b] = s]
          BY <5>2, <5>4
        <5> HIDE DEF r1, s
        <5>6. [f EXCEPT ![b] = s] = [sess EXCEPT ![b] = s]
          BY <3>1
        <5> QED
          BY <5>5, <5>6
      <4> HIDE DEF k
      <4>5. s \in Session /\ s.stamp.pw = nextPw /\ s.pw = nextPw
        BY <2>3, <3>1, <4>3 DEF Session
      <4> HIDE DEF s
      <4> QED
        BY <1>1, <3>1, <4>4, <4>5 DEF Stamped
    <3> QED
      BY <3>2, <3>3
  <2>12. areq[b].op # "change_role"
    BY <2>1
  <2> QED
    BY <1>14, <2>1, <2>2, <2>3, <2>7, <2>8, <2>9, <2>10, <2>11, <2>12
<1> QED
  BY <1>9, <1>11, <1>12, <1>13, <1>15, <1>16, <1>17

LEMMA AccountsStep ==
    ASSUME AccSlots = 1
    PROVE  AccInv /\ [AccNext]_accVars => AccInv' /\ Guarded
<1> SUFFICES ASSUME AccInv, [AccNext]_accVars
             PROVE  AccInv' /\ Guarded
  OBVIOUS
<1>1. CASE UNCHANGED accVars
  BY <1>1, NothingMoves
<1>2. CASE AccNext
  BY <1>2, ServiceKeeps, ChecksKeep, WritesKeep DEF AccNext
<1> QED
  BY <1>1, <1>2

LEMMA AccountsImply == AccInv => AccTypeOK /\ ResetEndsSessions
<1> SUFFICES ASSUME AccInv PROVE AccTypeOK /\ ResetEndsSessions
  OBVIOUS
<1>1. \A r \in AccRequests : r.op \in {"none", "login", "setup", "create", "disable", "enable",
          "delete", "reset_password", "change_role", "own_password"}
  BY DEF AccRequests, NoReq, Targeted
<1>2. AccTypeOK
  BY <1>1 DEF AccInv, RowsInv, AccTypeOK
<1>3. ASSUME NEW b \in Browsers, Allowed(b)
      PROVE  sess[b].pw = CurrentUser(b).pw
  <2>1. /\ sess[b] \in Session /\ CurrentUser(b) \in UserRow
        /\ sess[b].stamp = CurrentUser(b)
    BY <1>3, CurrentUserIsARow, RowsAre DEF AccInv, Allowed, UserAuthStamp
  <2>2. sess[b].stamp # NoStamp
    <3>1. \A r \in UserRow : r.id # -1
      BY DEF UserRow
    <3> QED
      BY <2>1, <3>1 DEF NoStamp
  <2>3. sess[b] # NoSession
    BY <2>1, RowsAre DEF AccInv
  <2> QED
    BY <2>1, <2>2, <2>3 DEF AccInv, Stamped
<1> QED
  BY <1>2, <1>3 DEF ResetEndsSessions

\* Accounts, sessions and requests have their types, and a session that is let
\* in was opened with the password the account has now (dashboard_allowed and
\* the stamp of the row): a reset ends every session opened before it.
THEOREM ResetsEndSessions ==
    ASSUME AccSlots = 1
    PROVE  AccSpec => [](AccTypeOK /\ ResetEndsSessions)
  BY AccountsInitially, AccountsStep, AccountsImply, PTL DEF AccSpec

\* admin_user_action: one request at a time, the last enabled Super Admin is
\* neither disabled, deleted nor downgraded.
THEOREM ASuperAdminRemains ==
    ASSUME AccSlots = 1
    PROVE  AccSpec => SuperAdminRemains
<1>1. AccInv /\ [AccNext]_accVars => [SuperAdmins # {} => SuperAdmins' # {}]_accVars
  BY AccountsStep DEF Guarded, SomeSuperRemains
<1> QED
  BY <1>1, AccountsInitially, AccountsStep, PTL DEF AccSpec, SuperAdminRemains

\* _can_manage_user: no administrator but a Super Admin changes the account of
\* one; admin_change_password and reset_password leave the role alone; and
\* after the migration of old roles only a request promotes.
THEOREM RolesAreGuarded ==
    ASSUME AccSlots = 1
    PROVE  AccSpec => SuperIsBeyondAdmins /\ PasswordKeepsRole /\ OnlySupersPromote
<1> DEFINE A == \A b \in Browsers, n \in Names :
                  /\ areq[b].op \in {"disable", "delete", "reset_password", "change_role"}
                  /\ areq'[b] = NoReq
                  /\ Exists(n) /\ user[n].role = "super_admin" /\ user'[n] # user[n]
                  => IsSuper(b)
           B == \A n \in Names :
                  /\ Exists(n) /\ user'[n] # NoUser /\ user'[n].id = user[n].id
                  /\ user'[n].pw # user[n].pw
                  => user'[n].role = user[n].role
           C == migrated /\ areq' = areq => \A n \in Names : Exists(n) => user'[n] = user[n]
<1>1. AccInv /\ [AccNext]_accVars => A /\ B /\ C
  BY AccountsStep DEF Guarded, SupersUntouched, RoleStays, NobodyPromoted
<1>2. AccSpec => []AccInv /\ [][AccNext]_accVars
  BY AccountsInitially, AccountsStep, PTL DEF AccSpec
<1>3. AccSpec => [][A]_accVars /\ [][B]_accVars /\ [][C]_accVars
  BY <1>1, <1>2, PTL
<1> QED
  BY <1>3 DEF SuperIsBeyondAdmins, PasswordKeepsRole, OnlySupersPromote

(***************************************************************************)
(* Keys of the API                                                         *)
(***************************************************************************)
CallRows == [at : {"rate", "flush", "write", "answer"}, k : Keys, p : Procs, t : 1..MaxClock]
AdminOps == {NoOp} \cup [op : {"rotate", "edit", "revoke"}, k : Keys, wide : BOOLEAN]
Windows == [min : 0..MaxClock, n : 0..(RateLimit + 1)]

KeysTyped ==
    /\ krow \in [Keys -> KeyRow \cup {New, Gone}]
    /\ call \in [Callers -> CallRows \cup {NoCall}]
    /\ rate \in [Procs -> [Keys -> Windows]]
    /\ cache \in [Procs -> [Keys -> 0..MaxClock]]
    /\ alog \in [Keys -> BOOLEAN] /\ late \in [Keys -> BOOLEAN]
    /\ aop \in [ApiAdmins -> AdminOps]
    /\ clock \in 1..MaxClock /\ served \in [Keys -> 0..MaxClock]
    /\ admitted \in [Keys -> Nat]
    /\ lives \in {Cardinality(Procs), Cardinality(Procs) + 1}

\* No call is older than the last tick, and nothing is dated after now.
TimesInv ==
    /\ \A c \in Callers : call[c] # NoCall => call[c].t \in {clock - 1, clock}
    /\ \A k \in Keys : served[k] <= clock /\ \A p \in Procs : cache[p][k] <= clock

\* Calls, requests and successors are about keys that have been issued; nothing
\* is known of one that has not.
IssuedInv ==
    /\ \A c \in Callers : call[c] # NoCall => krow[call[c].k] # New
    /\ \A a \in ApiAdmins : aop[a] # NoOp => krow[aop[a].k] # New
    /\ \A k \in Keys : Row(k) /\ krow[k].from # NoKey => krow[krow[k].from] # New
    /\ \A k \in Keys : krow[k] = New => served[k] = 0 /\ \A p \in Procs : cache[p][k] = 0

\* The calls of this minute that the processes still count, one pair for each.
InWindows(k) == {e \in Procs \X (1..RateLimit) :
                  rate[e[1]][k].min = Minute /\ e[2] <= rate[e[1]][k].n}

\* What a process that was replaced within the minute may have counted.
Forgotten == IF lives = Cardinality(Procs) THEN 0 ELSE RateLimit
RateInv == \A k \in Keys : krow[k] # Gone => admitted[k] <= Cardinality(InWindows(k)) + Forgotten

\* A key that is gone has log rows only of calls that were in flight.
LogInv ==
    /\ DeletedLeavesNoLog
    /\ \A c \in Callers : call[c] # NoCall /\ krow[call[c].k] = Gone => late[call[c].k]

\* A process that skips the write, a call it is about to answer and the answers
\* given so far rely on a time in the row, unless a write of one is under way.
Flushing(k) == \E c \in Callers : call[c] # NoCall /\ call[c].at = "write" /\ call[c].k = k
Flushed(k) ==
    /\ \A p \in Procs : cache[p][k] = 0 \/ krow[k].used >= cache[p][k] - 1
    /\ \A c \in Callers : call[c] # NoCall /\ call[c].at = "answer" /\ call[c].k = k
          => krow[k].used >= call[c].t - FlushWindow
    /\ served[k] = 0 \/ krow[k].used >= served[k] - FlushWindow
UseInv == \A k \in Keys : Row(k) /\ krow[k].on /\ ~flushLost => Flushing(k) \/ Flushed(k)

KeysInv ==
    /\ KeysTyped /\ TimesInv /\ IssuedInv /\ SupersededIsRevoked
    /\ RateInv /\ LogInv /\ UseInv

LEMMA KeyRowsAre ==
    /\ New \notin KeyRow /\ Gone \notin KeyRow /\ New # Gone
    /\ NoCall \notin CallRows /\ NoOp.op = "none" /\ NoCall.at = "none"
<1>1. \A r \in KeyRow : DOMAIN r = {"on", "wide", "used", "from"}
  BY DEF KeyRow
<1>2. DOMAIN New = {"row"} /\ DOMAIN Gone = {"row"}
  BY DEF New, Gone
<1> QED
  BY <1>1, <1>2 DEF New, Gone, NoCall, CallRows, NoOp

LEMMA TypedRows ==
    ASSUME KeysTyped
    PROVE  /\ \A k \in Keys : Row(k) <=> krow[k] \in KeyRow
           /\ \A k \in Keys : ~Row(k) <=> krow[k] \in {New, Gone}
           /\ \A c \in Callers : call[c] # NoCall <=> call[c] \in CallRows
           /\ \A c \in Callers : call[c].at # "none" <=> call[c] \in CallRows
           /\ \A a \in ApiAdmins : aop[a].op # "none" => aop[a] # NoOp
           /\ \A a \in ApiAdmins : aop[a] # NoOp => aop[a].k \in Keys /\ aop[a].wide \in BOOLEAN
<1>1. \A r \in CallRows : r.at # "none"
  BY DEF CallRows
<1> QED
  BY <1>1, KeyRowsAre DEF KeysTyped, Row, AdminOps

LEMMA ProcsAreFinite == Cardinality(Procs) \in Nat
  BY FS_CardinalityType

\* Pairs of processes and counts are finitely many.
LEMMA PairsAre ==
    /\ IsFiniteSet(Procs \X (1..RateLimit))
    /\ Cardinality(Procs \X (1..RateLimit)) = Cardinality(Procs) * RateLimit
    /\ \A p : /\ IsFiniteSet({p} \X (1..RateLimit))
              /\ Cardinality({p} \X (1..RateLimit)) = RateLimit
<1>1. RateLimit \in Nat /\ RateLimit >= 1
  OBVIOUS
<1>2. IsFiniteSet(1..RateLimit) /\ Cardinality(1..RateLimit) = RateLimit
  BY <1>1, FS_Interval
<1>3. ASSUME NEW p
      PROVE  /\ IsFiniteSet({p} \X (1..RateLimit))
             /\ Cardinality({p} \X (1..RateLimit)) = RateLimit
  <2>1. IsFiniteSet({p}) /\ Cardinality({p}) = 1
    BY FS_Singleton
  <2>2. Cardinality({p} \X (1..RateLimit)) = Cardinality({p}) * Cardinality(1..RateLimit)
        /\ IsFiniteSet({p} \X (1..RateLimit))
    BY <1>2, <2>1, FS_Product
  <2>3. 1 * RateLimit = RateLimit
    BY <1>1
  <2> QED
    BY <1>2, <2>1, <2>2, <2>3
<1>4. /\ IsFiniteSet(Procs \X (1..RateLimit))
      /\ Cardinality(Procs \X (1..RateLimit)) = Cardinality(Procs) * Cardinality(1..RateLimit)
  BY <1>2, FS_Product
<1> QED
  BY <1>2, <1>3, <1>4

LEMMA CountedIsFinite ==
    ASSUME NEW k
    PROVE  /\ IsFiniteSet(InWindows(k)) /\ Cardinality(InWindows(k)) \in Nat
           /\ Cardinality(InWindows(k)) <= Cardinality(Procs) * RateLimit
<1>1. InWindows(k) \in SUBSET (Procs \X (1..RateLimit))
  BY DEF InWindows
<1>2. IsFiniteSet(InWindows(k)) /\ Cardinality(InWindows(k)) <= Cardinality(Procs \X (1..RateLimit))
  BY <1>1, PairsAre, FS_Subset
<1> QED
  BY <1>2, PairsAre, FS_CardinalityType

LEMMA KeysInitially == KeysInit => KeysInv
<1> SUFFICES ASSUME KeysInit PROVE KeysInv
  OBVIOUS
<1>1. Cardinality(Procs) \in Nat
  BY ProcsAreFinite
<1>2. KeysTyped
  BY <1>1 DEF KeysInit, KeysTyped, AdminOps, Windows
<1>3. TimesInv /\ IssuedInv /\ SupersededIsRevoked /\ LogInv /\ UseInv
  BY KeyRowsAre DEF KeysInit, TimesInv, IssuedInv, SupersededIsRevoked, LogInv, UseInv,
     DeletedLeavesNoLog, Row
<1>4. RateInv
  BY <1>1, CountedIsFinite DEF KeysInit, RateInv, Forgotten
<1> QED
  BY <1>2, <1>3, <1>4 DEF KeysInv

LEMMA KeysImply ==
    KeysInv => /\ KeyTypeOK /\ SupersededIsRevoked /\ RateHolds
               /\ DeletedLeavesNoLog /\ LastUsedRecent
<1> SUFFICES ASSUME KeysInv
             PROVE  KeyTypeOK /\ RateHolds /\ LastUsedRecent
  BY DEF KeysInv, LogInv
<1>1. KeyTypeOK
  BY DEF KeysInv, KeysTyped, KeyTypeOK, CallRows, AdminOps, Windows
<1>2. ASSUME NEW k \in Keys, Row(k)
      PROVE  admitted[k] <= RateLimit * lives
  <2> DEFINE N == Cardinality(Procs)
  <2>1. /\ Cardinality(InWindows(k)) \in Nat /\ Cardinality(InWindows(k)) <= N * RateLimit
        /\ N \in Nat /\ RateLimit \in Nat /\ admitted[k] \in Nat
    BY CountedIsFinite, ProcsAreFinite DEF KeysInv, KeysTyped
  <2>2. admitted[k] <= Cardinality(InWindows(k)) + Forgotten
    BY <1>2 DEF KeysInv, RateInv, Row
  <2>3. RateLimit * (N + 1) = N * RateLimit + RateLimit /\ RateLimit * N = N * RateLimit
    BY <2>1
  <2>4. N * RateLimit \in Nat
    BY <2>1
  <2> HIDE DEF N
  <2>5. CASE lives = N
    BY <2>1, <2>2, <2>3, <2>4, <2>5 DEF Forgotten, N
  <2>6. CASE lives = N + 1
    <3>1. lives # N
      BY <2>1, <2>6
    <3> QED
      BY <2>1, <2>2, <2>3, <2>4, <2>6, <3>1 DEF Forgotten, N
  <2> QED
    BY <2>5, <2>6 DEF KeysInv, KeysTyped, N
<1>3. ASSUME NEW k \in Keys, Row(k), krow[k].on, served[k] > 0, ~flushLost
      PROVE  \/ served[k] - krow[k].used <= FlushWindow
             \/ \E c \in Callers : call[c].at = "write" /\ call[c].k = k
  <2>1. CASE Flushing(k)
    BY <2>1 DEF Flushing
  <2>2. CASE Flushed(k)
    <3>1. served[k] \in Nat /\ krow[k].used \in Nat
      BY <1>3, TypedRows DEF KeysInv, KeysTyped, KeyRow
    <3>2. krow[k].used >= served[k] - FlushWindow
      BY <1>3, <2>2, <3>1 DEF Flushed
    <3> QED
      BY <3>1, <3>2 DEF FlushWindow
  <2> QED
    BY <1>3, <2>1, <2>2 DEF KeysInv, UseInv
<1> QED
  BY <1>1, <1>2, <1>3 DEF RateHolds, LastUsedRecent

-----------------------------------------------------------------------------
\* What the processes count stays, while no window, clock or row of a key moves.
LEMMA RateStays ==
    ASSUME RateInv, UNCHANGED <<rate, clock, lives, admitted>>,
           \A k \in Keys : krow'[k] # Gone => krow[k] # Gone
    PROVE  RateInv'
<1>1. \A k : InWindows(k)' = InWindows(k)
  BY DEF InWindows, Minute
<1> QED
  BY <1>1 DEF RateInv, Forgotten

\* A client's call goes on: nothing but its record changes.
LEMMA CallGoesOn ==
    ASSUME KeysInv, NEW c \in Callers, NEW r \in CallRows \cup {NoCall},
           call' = [call EXCEPT ![c] = r],
           UNCHANGED <<krow, cache, alog, aop, clock, served, flushLost, late>>,
           rate' \in [Procs -> [Keys -> Windows]], admitted' \in [Keys -> Nat],
           lives' = lives, RateInv',
           r # NoCall => /\ r.t \in {clock - 1, clock}
                         /\ krow[r.k] # New
                         /\ krow[r.k] = Gone => late[r.k],
           r # NoCall /\ r.at = "answer" => /\ call[c] # NoCall /\ r.k = call[c].k
                                            /\ call[c].at # "write"
                                            /\ cache[r.p][r.k] # 0
                                            /\ r.t - cache[r.p][r.k] < FlushWindow,
           call[c].at = "write" => r.at = "write" /\ r.k = call[c].k
    PROVE  KeysInv'
<1>1. KeysTyped /\ \A d \in Callers : call'[d] = IF d = c THEN r ELSE call[d]
  BY DEF KeysInv, KeysTyped
<1>2. KeysTyped'
  BY <1>1 DEF KeysTyped
<1>3. TimesInv'
  BY <1>1 DEF KeysInv, TimesInv
<1>4. IssuedInv'
  BY <1>1 DEF KeysInv, IssuedInv, Row
<1>5. SupersededIsRevoked'
  BY DEF KeysInv, SupersededIsRevoked, Row
<1>6. LogInv'
  BY <1>1 DEF KeysInv, LogInv, DeletedLeavesNoLog
<1>7. UseInv'
  <2> SUFFICES ASSUME NEW k \in Keys, Row(k), krow[k].on, ~flushLost, ~Flushing(k)'
               PROVE  Flushed(k)'
    BY DEF UseInv, Row
  <2>1. ~Flushing(k)
    BY <1>1, TypedRows, KeyRowsAre DEF Flushing
  <2>2. Flushed(k)
    BY <2>1 DEF KeysInv, UseInv
  <2>3. krow[k].used \in Nat
    BY <1>1, TypedRows DEF KeyRow
  <2>4. ASSUME r # NoCall, r.at = "answer", r.k = k
        PROVE  krow[k].used >= r.t - FlushWindow
    <3>1. r \in CallRows /\ r.p \in Procs /\ r.t \in Nat
      BY <2>4 DEF CallRows
    <3>2. cache[r.p][k] \in Nat
      BY <1>1, <3>1 DEF KeysTyped
    <3>3. krow[k].used >= cache[r.p][k] - 1
      BY <2>2, <2>4, <3>1 DEF Flushed
    <3> QED
      BY <2>3, <2>4, <3>1, <3>2, <3>3 DEF FlushWindow
  <2> QED
    BY <1>1, <2>2, <2>4 DEF Flushed
<1> QED
  BY <1>2, <1>3, <1>4, <1>5, <1>6, <1>7 DEF KeysInv

LEMMA AuthenticateKeeps ==
    ASSUME KeysInv, NEW c \in Callers, NEW p \in Procs, NEW k \in Keys,
           NEW plain \in BOOLEAN, Authenticate(c, p, k, plain)
    PROVE  KeysInv'
<1> DEFINE r == [at |-> "rate", k |-> k, p |-> p, t |-> clock]
<1>1. /\ call' = [call EXCEPT ![c] = r] /\ call[c] = NoCall /\ Row(k)
      /\ UNCHANGED <<krow, rate, cache, alog, aop, clock, ops, admitted, lives,
                     served, flushLost, late>>
  BY DEF Authenticate
<1>2. r \in CallRows /\ r.at = "rate" /\ r.t = clock /\ r.k = k
  BY DEF KeysInv, KeysTyped, CallRows
<1>3. RateInv'
  BY <1>1, RateStays DEF KeysInv
<1>4. krow[k] # New /\ krow[k] # Gone /\ call[c].at # "write"
  BY <1>1, KeyRowsAre DEF Row
<1> HIDE DEF r
<1>5. rate' \in [Procs -> [Keys -> Windows]] /\ admitted' \in [Keys -> Nat]
  BY <1>1 DEF KeysInv, KeysTyped
<1> QED
  BY <1>1, <1>2, <1>3, <1>4, <1>5, CallGoesOn

\* The call of k that p lets through is the first one or one more.
LEMMA OneMoreCounted ==
    ASSUME KeysInv, NEW p \in Procs, NEW k \in Keys, NEW n \in 1..(RateLimit + 1),
           NEW w \in [Keys -> Windows],
           \A j \in Keys : rate[p][j].min = Minute => w[j] = rate[p][j],
           \A j \in Keys : w[j].min = Minute => w[j] = rate[p][j],
           n = IF w[k].min = Minute THEN Min2(w[k].n, RateLimit) + 1 ELSE 1,
           rate' = [rate EXCEPT ![p] = [w EXCEPT ![k] = [min |-> Minute, n |-> n]]],
           clock' = clock
    PROVE  /\ \A j \in Keys : Cardinality(InWindows(j)) <= Cardinality(InWindows(j)')
           /\ n <= RateLimit => Cardinality(InWindows(k)') = Cardinality(InWindows(k)) + 1
<1> DEFINE v == [min |-> Minute, n |-> n]
<1>1. rate \in [Procs -> [Keys -> Windows]] /\ Minute' = Minute
  BY DEF KeysInv, KeysTyped, Minute
<1>2. \A q \in Procs, j \in Keys :
          rate'[q][j] = IF q # p THEN rate[q][j] ELSE IF j = k THEN v ELSE w[j]
  BY <1>1
<1>3. v.min = Minute /\ v.n = n
  OBVIOUS
<1> HIDE DEF v
<1>4. ASSUME NEW j \in Keys, j # k
      PROVE  InWindows(j)' = InWindows(j)
  <2>1. ASSUME NEW e \in Procs \X (1..RateLimit)
        PROVE  (e \in InWindows(j)') <=> (e \in InWindows(j))
    BY <1>1, <1>2, <1>4 DEF InWindows
  <2> QED
    BY <2>1 DEF InWindows
<1>5. w[k].min = Minute => w[k] = rate[p][k] /\ w[k].n \in Nat
  BY DEF Windows
<1>6. rate[p][k].min = Minute => w[k].min = Minute
  OBVIOUS
<1>7. CASE n <= RateLimit
  <2>1. <<p, n>> \notin InWindows(k)
    BY <1>5, <1>6, <1>7 DEF InWindows, Min2
  <2>2. InWindows(k)' = InWindows(k) \cup {<<p, n>>}
    <3>1. ASSUME NEW q \in Procs, NEW i \in 1..RateLimit
          PROVE  (<<q, i>> \in InWindows(k)') <=> (<<q, i>> \in InWindows(k) \/ (q = p /\ i = n))
      <4>1. CASE q # p
        BY <1>1, <1>2, <4>1 DEF InWindows
      <4>2. CASE q = p
        BY <1>1, <1>2, <1>3, <1>5, <1>6, <1>7, <4>2 DEF InWindows, Min2
      <4> QED
        BY <4>1, <4>2
    <3>2. <<p, n>> \in Procs \X (1..RateLimit)
      BY <1>7
    <3> QED
      BY <3>1, <3>2 DEF InWindows
  <2>3. Cardinality(InWindows(k)') = Cardinality(InWindows(k)) + 1
    BY <2>1, <2>2, CountedIsFinite, FS_AddElement
  <2> QED
    BY <1>4, <2>3, CountedIsFinite
<1>8. CASE n > RateLimit
  <2>1. \A q \in Procs, i \in 1..RateLimit : <<q, i>> \in InWindows(k) => <<q, i>> \in InWindows(k)'
    BY <1>1, <1>2, <1>3, <1>8 DEF InWindows
  <2>2. InWindows(k) \in SUBSET (InWindows(k)')
    BY <2>1 DEF InWindows
  <2>3. IsFiniteSet(InWindows(k)')
    <3>1. InWindows(k)' \in SUBSET (Procs \X (1..RateLimit))
      BY DEF InWindows
    <3> QED
      BY <3>1, PairsAre, FS_Subset
  <2>4. Cardinality(InWindows(k)) <= Cardinality(InWindows(k)')
    BY <2>2, <2>3, FS_Subset
  <2> QED
    BY <1>4, <1>8, <2>4, CountedIsFinite
<1> QED
  BY <1>7, <1>8

LEMMA RateKeeps ==
    ASSUME KeysInv, NEW c \in Callers, RateAllowed(c)
    PROVE  KeysInv'
<1>1. /\ call[c].at = "rate"
      /\ UNCHANGED <<krow, cache, alog, aop, clock, ops, calls, lives, served, flushLost, late>>
  BY DEF RateAllowed
<1>2. KeysTyped
  BY DEF KeysInv
<1>3. call[c] \in CallRows /\ call[c] # NoCall /\ call[c].k \in Keys /\ call[c].p \in Procs
  BY <1>1, <1>2, TypedRows DEF CallRows
<1> PICK k \in Keys : k = call[c].k
  BY <1>3
<1> PICK p \in Procs : p = call[c].p
  BY <1>3
<1>4. Minute \in 0..MaxClock /\ RateLimit \in Nat
  BY <1>2 DEF Minute, KeysTyped
<1>5. PICK w \in [Keys -> Windows] :
          /\ w = Pruned(rate[p])
          /\ \A j \in Keys : rate[p][j].min = Minute => w[j] = rate[p][j]
          /\ \A j \in Keys : w[j].min = Minute => w[j] = rate[p][j]
  <2> DEFINE w == Pruned(rate[p])
  <2> SUFFICES /\ w \in [Keys -> Windows]
               /\ \A j \in Keys : rate[p][j].min = Minute => w[j] = rate[p][j]
               /\ \A j \in Keys : w[j].min = Minute => w[j] = rate[p][j]
    OBVIOUS
  <2>1. rate[p] \in [Keys -> Windows] /\ [min |-> 0, n |-> 0] \in Windows
    BY <1>2, <1>3, <1>4 DEF KeysTyped, Windows
  <2>2. CASE w = rate[p]
    BY <2>1, <2>2
  <2>3. CASE w = [j \in Keys |-> IF rate[p][j].min < Minute - 2 THEN [min |-> 0, n |-> 0]
                                 ELSE rate[p][j]]
    <3>1. \A j \in Keys : rate[p][j].min \in Nat
      BY <2>1 DEF Windows
    <3>2. w \in [Keys -> Windows]
      BY <2>1, <2>3
    <3>3. \A j \in Keys : rate[p][j].min < Minute - 2 => 0 # Minute
      BY <1>4, <3>1
    <3> HIDE DEF w
    <3>4. \A j \in Keys : w[j] = rate[p][j]
                          \/ (w[j].min = 0 /\ 0 # Minute /\ rate[p][j].min # Minute)
      <4>1. \A j \in Keys : rate[p][j].min < Minute - 2 => rate[p][j].min # Minute
        BY <1>4, <3>1
      <4> QED
        BY <2>3, <3>3, <4>1
    <3> QED
      BY <3>2, <3>4
  <2> QED
    BY <2>2, <2>3 DEF Pruned
<1>6. PICK n \in 1..(RateLimit + 1) :
          n = IF w[k].min = Minute THEN Min2(w[k].n, RateLimit) + 1 ELSE 1
  <2>1. w[k].n \in Nat
    BY DEF Windows
  <2> QED
    BY <1>4, <2>1 DEF Min2
<1> DEFINE r == IF n <= RateLimit THEN [call[c] EXCEPT !.at = "flush"] ELSE NoCall
<1>7. /\ rate' = [rate EXCEPT ![p] = [w EXCEPT ![k] = [min |-> Minute, n |-> n]]]
      /\ call' = [call EXCEPT ![c] = r]
      /\ admitted' = [admitted EXCEPT ![k] = IF n <= RateLimit THEN @ + 1 ELSE @]
  BY <1>5, <1>6 DEF RateAllowed
<1>8. /\ \A j \in Keys : Cardinality(InWindows(j)) <= Cardinality(InWindows(j)')
      /\ n <= RateLimit => Cardinality(InWindows(k)') = Cardinality(InWindows(k)) + 1
  <2>1. clock' = clock
    BY <1>1
  <2>2. /\ \A j \in Keys : rate[p][j].min = Minute => w[j] = rate[p][j]
        /\ \A j \in Keys : w[j].min = Minute => w[j] = rate[p][j]
    BY <1>5
  <2>3. n = IF w[k].min = Minute THEN Min2(w[k].n, RateLimit) + 1 ELSE 1
    BY ONLY <1>6
  <2>4. rate' = [rate EXCEPT ![p] = [w EXCEPT ![k] = [min |-> Minute, n |-> n]]]
    BY ONLY <1>7
  <2> QED
    BY ONLY KeysInv, <2>1, <2>2, <2>3, <2>4, OneMoreCounted, ZenonT(120)
<1>9. /\ r \in CallRows \cup {NoCall} /\ r.at \in {"flush", "none"}
      /\ r # NoCall => r.k = k /\ r.t = call[c].t
  BY <1>3 DEF CallRows, NoCall
<1> HIDE DEF r
<1>10. rate' \in [Procs -> [Keys -> Windows]] /\ admitted' \in [Keys -> Nat]
  <2>1. [min |-> Minute, n |-> n] \in Windows
    BY <1>4, <1>6 DEF Windows
  <2> QED
    BY <1>2, <1>7, <2>1 DEF KeysTyped
<1>11. RateInv'
  <2>1. Forgotten' = Forgotten /\ Forgotten \in Nat
    BY <1>1, <1>4 DEF Forgotten
  <2>2. ASSUME NEW j \in Keys, krow[j] # Gone
        PROVE  admitted'[j] <= Cardinality(InWindows(j)') + Forgotten
    <3>1. Cardinality(InWindows(j)) \in Nat /\ admitted[j] \in Nat
      BY <1>2, CountedIsFinite DEF KeysTyped
    <3>2. Cardinality(InWindows(j)') \in Nat
      <4>1. InWindows(j)' \in SUBSET (Procs \X (1..RateLimit))
        BY DEF InWindows
      <4> QED
        BY <4>1, PairsAre, FS_Subset, FS_CardinalityType
    <3>3. admitted[j] <= Cardinality(InWindows(j)) + Forgotten
      BY <2>2 DEF KeysInv, RateInv
    <3>4. admitted'[j] = IF j = k /\ n <= RateLimit THEN admitted[j] + 1 ELSE admitted[j]
      BY <1>2, <1>7 DEF KeysTyped
    <3> QED
      BY <1>8, <2>1, <3>1, <3>2, <3>3, <3>4
  <2> QED
    BY <1>1, <2>1, <2>2 DEF RateInv
<1>12. /\ call[c].t \in {clock - 1, clock} /\ krow[k] # New
       /\ krow[k] = Gone => late[k]
  BY <1>3 DEF KeysInv, TimesInv, IssuedInv, LogInv
<1>13. call[c].at # "write"
  BY <1>1
<1>14. /\ UNCHANGED <<krow, cache, alog, aop, clock, served, flushLost, late>> /\ lives' = lives
       /\ r.at # "answer"
  BY <1>1, <1>9
<1> QED
  BY <1>7, <1>9, <1>10, <1>11, <1>12, <1>13, <1>14, CallGoesOn

LEMMA FlushCheckKeeps ==
    ASSUME KeysInv, NEW c \in Callers, FlushCheck(c)
    PROVE  KeysInv'
<1>1. call[c].at = "flush" /\ KeysTyped
  BY DEF FlushCheck, KeysInv
<1>2. call[c] \in CallRows /\ call[c] # NoCall /\ call[c].k \in Keys /\ call[c].p \in Procs
  BY <1>1, TypedRows DEF CallRows
<1> PICK k \in Keys : k = call[c].k
  BY <1>2
<1> PICK p \in Procs : p = call[c].p
  BY <1>2
<1> DEFINE due == cache[p][k] = 0 \/ clock - cache[p][k] >= FlushWindow
           r == [[call[c] EXCEPT !.at = IF due THEN "write" ELSE "answer"] EXCEPT !.t = clock]
<1>3. /\ cache' = IF due THEN [cache EXCEPT ![p][k] = clock] ELSE cache
      /\ UNCHANGED <<krow, rate, alog, aop, clock, ops, calls, admitted, lives, served, flushLost, late>>
  BY DEF FlushCheck
<1>4. call' = [call EXCEPT ![c] = r]
  <2> DEFINE r1 == [call[c] EXCEPT !.at = IF due THEN "write" ELSE "answer"]
             f == [call EXCEPT ![c] = r1]
  <2>1. call' = [f EXCEPT ![c] = [f[c] EXCEPT !.t = clock]]
    BY DEF FlushCheck
  <2>2. f[c] = r1
    BY <1>1 DEF KeysTyped
  <2>3. [f[c] EXCEPT !.t = clock] = r
    BY <2>2
  <2>4. call' = [f EXCEPT ![c] = r]
    BY <2>1, <2>3
  <2> HIDE DEF r1, r
  <2>5. [f EXCEPT ![c] = r] = [call EXCEPT ![c] = r]
    BY <1>1 DEF KeysTyped
  <2> QED
    BY <2>4, <2>5
<1>5. clock \in 1..MaxClock /\ cache[p][k] \in 0..MaxClock /\ cache[p][k] <= clock
  BY <1>1 DEF KeysTyped, KeysInv, TimesInv
<1>6. /\ r \in CallRows /\ r # NoCall /\ r.k = k /\ r.p = p /\ r.t = clock
      /\ due => r.at = "write"
      /\ ~due => r.at = "answer"
  BY <1>1, <1>2, <1>5, KeyRowsAre DEF CallRows
<1>7. krow[k] # New /\ (krow[k] = Gone => late[k])
  BY <1>2 DEF KeysInv, IssuedInv, LogInv
<1>8. RateInv'
  BY <1>3, RateStays DEF KeysInv
<1>9. rate' \in [Procs -> [Keys -> Windows]] /\ admitted' \in [Keys -> Nat] /\ lives' = lives
  BY <1>1, <1>3 DEF KeysTyped
<1>10. CASE ~due
  <2>1. /\ r.at = "answer" /\ UNCHANGED <<krow, cache, alog, aop, clock, served, flushLost, late>>
        /\ cache[p][k] # 0 /\ clock - cache[p][k] < FlushWindow
    BY <1>3, <1>5, <1>6, <1>10, SMTT(20) DEF FlushWindow
  <2>2. call[c].at # "write"
    BY <1>1
  <2> HIDE DEF r, due
  <2> QED
    BY <1>2, <1>4, <1>6, <1>7, <1>8, <1>9, <2>1, <2>2, CallGoesOn
<1>11. CASE due
  <2>1. r.at = "write" /\ cache' = [cache EXCEPT ![p][k] = clock]
    BY <1>3, <1>6, <1>11
  <2> HIDE DEF r, due
  <2>2. \A d \in Callers : call'[d] = IF d = c THEN r ELSE call[d]
    BY <1>1, <1>4 DEF KeysTyped
  <2>3. \A q \in Procs, j \in Keys :
            cache'[q][j] = IF q = p /\ j = k THEN clock ELSE cache[q][j]
    BY <1>1, <2>1 DEF KeysTyped
  <2>4. KeysTyped'
    <3>1. cache' \in [Procs -> [Keys -> 0..MaxClock]]
      BY <1>1, <1>5, <2>1 DEF KeysTyped
    <3> QED
      BY <1>1, <1>3, <1>4, <1>6, <3>1 DEF KeysTyped
  <2>5. TimesInv'
    <3>1. clock <= clock
      BY <1>5
    <3> QED
      BY <1>3, <1>6, <2>2, <2>3, <3>1 DEF KeysInv, TimesInv
  <2>6. IssuedInv'
    <3>1. \A d \in Callers : call'[d] # NoCall => krow'[call'[d].k] # New
      BY <1>3, <1>6, <1>7, <2>2 DEF KeysInv, IssuedInv
    <3>2. \A j \in Keys : krow'[j] = New => served'[j] = 0 /\ \A q \in Procs : cache'[q][j] = 0
      BY <1>3, <1>7, <2>3 DEF KeysInv, IssuedInv
    <3> QED
      BY <1>3, <3>1, <3>2 DEF KeysInv, IssuedInv, Row
  <2>7. SupersededIsRevoked' /\ LogInv'
    BY <1>3, <1>6, <1>7, <2>2 DEF KeysInv, SupersededIsRevoked, LogInv, DeletedLeavesNoLog, Row
  <2>8. UseInv'
    <3> SUFFICES ASSUME NEW j \in Keys, Row(j), krow[j].on, ~flushLost, ~Flushing(j)'
                 PROVE  Flushed(j)'
      BY <1>3 DEF UseInv, Row
    <3>1. j # k
      BY <1>6, <2>1, <2>2 DEF Flushing
    <3>2. ~Flushing(j)
      BY <1>1, <2>2 DEF Flushing
    <3>3. Flushed(j)
      BY <3>2 DEF KeysInv, UseInv
    <3> QED
      BY <1>3, <1>6, <2>1, <2>2, <2>3, <3>1, <3>3 DEF Flushed
  <2> QED
    BY <1>8, <2>4, <2>5, <2>6, <2>7, <2>8 DEF KeysInv
<1> QED
  BY <1>10, <1>11

LEMMA FlushWriteKeeps ==
    ASSUME KeysInv, NEW c \in Callers, FlushWrite(c)
    PROVE  KeysInv'
<1>1. /\ call[c].at = "write" /\ KeysTyped
      /\ call' = [call EXCEPT ![c].at = "answer"]
      /\ UNCHANGED <<rate, cache, alog, aop, clock, ops, calls, admitted, lives, served, flushLost, late>>
  BY DEF FlushWrite, KeysInv
<1>2. call[c] \in CallRows /\ call[c] # NoCall /\ call[c].k \in Keys
  BY <1>1, TypedRows DEF CallRows
<1> PICK k \in Keys : k = call[c].k
  BY <1>2
<1> DEFINE r == [call[c] EXCEPT !.at = "answer"]
           row == [krow[k] EXCEPT !.used = call[c].t]
<1>3. krow' = IF Row(k) /\ krow[k].on THEN [krow EXCEPT ![k] = row] ELSE krow
  BY DEF FlushWrite
<1>4. /\ r \in CallRows /\ r # NoCall /\ r.at = "answer" /\ r.k = k /\ r.t = call[c].t
      /\ call' = [call EXCEPT ![c] = r]
  BY <1>1, <1>2, KeyRowsAre DEF CallRows
<1>5. /\ call[c].t \in {clock - 1, clock} /\ krow[k] # New /\ call[c].t \in 1..MaxClock
      /\ clock \in 1..MaxClock
  BY <1>1, <1>2 DEF KeysInv, TimesInv, IssuedInv, CallRows, KeysTyped
<1>6. Row(k) => /\ row \in KeyRow /\ row.used = call[c].t /\ row.on = krow[k].on
                /\ row.from = krow[k].from
  BY <1>1, <1>5, TypedRows DEF KeyRow
<1> HIDE DEF r, row
<1>7. /\ \A j \in Keys : krow'[j] = IF j = k /\ Row(k) /\ krow[k].on THEN row ELSE krow[j]
      /\ \A d \in Callers : call'[d] = IF d = c THEN r ELSE call[d]
  BY <1>1, <1>3, <1>4 DEF KeysTyped
<1>8. KeysTyped'
  BY <1>1, <1>3, <1>4, <1>6 DEF KeysTyped
<1>9. /\ \A j \in Keys : Row(j)' <=> Row(j)
      /\ \A j \in Keys : Row(j) => krow'[j].on = krow[j].on /\ krow'[j].from = krow[j].from
      /\ \A j \in Keys : /\ krow'[j] = New <=> krow[j] = New
                         /\ krow'[j] = Gone <=> krow[j] = Gone
  BY <1>6, <1>7, KeyRowsAre DEF Row
<1>10. TimesInv'
  BY <1>1, <1>4, <1>5, <1>7 DEF KeysInv, TimesInv
<1>11. IssuedInv'
  <2>1. \A j \in Keys : Row(j) => krow[j].from \in Keys \cup {NoKey}
    BY <1>1, TypedRows DEF KeyRow
  <2>2. \A d \in Callers : call[d] # NoCall => call[d].k \in Keys
    BY <1>1, TypedRows DEF CallRows
  <2>3. \A a \in ApiAdmins : aop[a] # NoOp => aop[a].k \in Keys
    BY <1>1, TypedRows
  <2>4. \A d \in Callers : call'[d] # NoCall => krow'[call'[d].k] # New
    BY <1>4, <1>5, <1>7, <1>9, <2>2 DEF KeysInv, IssuedInv
  <2>5. \A j \in Keys : Row(j)' /\ krow'[j].from # NoKey => krow'[krow'[j].from] # New
    BY <1>9, <2>1 DEF KeysInv, IssuedInv
  <2>6. \A j \in Keys : krow'[j] = New => served[j] = 0 /\ \A q \in Procs : cache[q][j] = 0
    BY <1>9 DEF KeysInv, IssuedInv
  <2>7. \A a \in ApiAdmins : aop[a] # NoOp => krow'[aop[a].k] # New
    BY <1>9, <2>3 DEF KeysInv, IssuedInv
  <2> QED
    BY <1>1, <2>4, <2>5, <2>6, <2>7 DEF IssuedInv
<1>12. SupersededIsRevoked'
  <2>1. \A j \in Keys : Row(j) => krow[j].from \in Keys \cup {NoKey}
    BY <1>1, TypedRows DEF KeyRow
  <2> QED
    BY <1>9, <2>1 DEF KeysInv, SupersededIsRevoked
<1>13. LogInv'
  <2>1. \A d \in Callers : call[d] # NoCall => call[d].k \in Keys
    BY <1>1, TypedRows DEF CallRows
  <2> QED
    BY <1>1, <1>2, <1>4, <1>7, <1>9, <2>1 DEF KeysInv, LogInv, DeletedLeavesNoLog
<1>14. RateInv'
  BY <1>1, <1>9, RateStays DEF KeysInv
<1>15. UseInv'
  <2> SUFFICES ASSUME NEW j \in Keys, Row(j), krow[j].on, ~flushLost, ~Flushing(j)'
               PROVE  Flushed(j)'
    BY <1>1, <1>9 DEF UseInv
  <2>1. CASE j = k
    <3>1. krow'[j].used = call[c].t
      BY <1>6, <1>7, <2>1
    <3>2. \A p \in Procs : cache[p][j] \in 0..MaxClock /\ cache[p][j] <= clock
      BY <1>1 DEF KeysTyped, KeysInv, TimesInv
    <3>3. served[j] \in 0..MaxClock /\ served[j] <= clock
      BY <1>1 DEF KeysTyped, KeysInv, TimesInv
    <3>4. \A d \in Callers : call'[d] # NoCall => call'[d].t \in {clock - 1, clock}
      BY <1>10, <1>1 DEF TimesInv
    <3> QED
      BY <1>1, <1>5, <3>1, <3>2, <3>3, <3>4 DEF Flushed, FlushWindow
  <2>2. CASE j # k
    <3>1. ~Flushing(j)
      BY <1>2, <1>7, <2>2 DEF Flushing
    <3>2. Flushed(j)
      BY <3>1 DEF KeysInv, UseInv
    <3> QED
      BY <1>1, <1>4, <1>7, <2>2, <3>2 DEF Flushed
  <2> QED
    BY <2>1, <2>2
<1> QED
  BY <1>8, <1>10, <1>11, <1>12, <1>13, <1>14, <1>15 DEF KeysInv

LEMMA FlushFailsKeeps ==
    ASSUME KeysInv, NEW c \in Callers, FlushFails(c)
    PROVE  KeysInv'
<1>1. /\ call' = [call EXCEPT ![c] = NoCall] /\ flushLost'
      /\ UNCHANGED <<krow, rate, cache, alog, aop, clock, ops, calls, admitted, lives, served, late>>
  BY DEF FlushFails
<1>2. KeysTyped /\ \A d \in Callers : call'[d] = IF d = c THEN NoCall ELSE call[d]
  BY <1>1 DEF KeysInv, KeysTyped
<1>3. KeysTyped'
  BY <1>1, <1>2 DEF KeysTyped
<1>4. TimesInv' /\ IssuedInv'
  BY <1>1, <1>2 DEF KeysInv, TimesInv, IssuedInv, Row
<1>5. SupersededIsRevoked' /\ LogInv'
  BY <1>1, <1>2 DEF KeysInv, SupersededIsRevoked, LogInv, DeletedLeavesNoLog, Row
<1>6. RateInv'
  BY <1>1, RateStays DEF KeysInv
<1>7. UseInv'
  BY <1>1 DEF UseInv
<1> QED
  BY <1>3, <1>4, <1>5, <1>6, <1>7 DEF KeysInv

LEMMA AnswerKeeps ==
    ASSUME KeysInv, NEW c \in Callers, NEW stored \in BOOLEAN, Answer(c, stored)
    PROVE  KeysInv'
<1>1. /\ call[c].at = "answer" /\ KeysTyped
      /\ call' = [call EXCEPT ![c] = NoCall]
      /\ UNCHANGED <<krow, rate, cache, aop, clock, ops, calls, admitted, lives, flushLost, late>>
  BY DEF Answer, KeysInv
<1>2. call[c] \in CallRows /\ call[c] # NoCall /\ call[c].k \in Keys
  BY <1>1, TypedRows DEF CallRows
<1> PICK k \in Keys : k = call[c].k
  BY <1>2
<1> PICK t \in 1..MaxClock : t = call[c].t
  BY <1>2 DEF CallRows
<1>3. /\ alog' = [alog EXCEPT ![k] = alog[k] \/ stored]
      /\ served' = [served EXCEPT ![k] = t]
  BY DEF Answer
<1>4. /\ \A d \in Callers : call'[d] = IF d = c THEN NoCall ELSE call[d]
      /\ \A j \in Keys : served'[j] = IF j = k THEN t ELSE served[j]
      /\ \A j \in Keys : alog'[j] = IF j = k THEN alog[k] \/ stored ELSE alog[j]
  BY <1>1, <1>3 DEF KeysTyped
<1>5. t \in {clock - 1, clock} /\ clock \in 1..MaxClock /\ krow[k] # New
      /\ (krow[k] = Gone => late[k])
  BY <1>1, <1>2 DEF KeysInv, TimesInv, IssuedInv, LogInv, KeysTyped
<1>6. KeysTyped'
  <2>1. served' \in [Keys -> 0..MaxClock] /\ alog' \in [Keys -> BOOLEAN]
    BY <1>1, <1>3 DEF KeysTyped
  <2> QED
    BY <1>1, <2>1 DEF KeysTyped
<1>7. TimesInv'
  BY <1>1, <1>4, <1>5 DEF KeysInv, TimesInv
<1>8. IssuedInv'
  BY <1>1, <1>4, <1>5 DEF KeysInv, IssuedInv, Row
<1>9. SupersededIsRevoked'
  BY <1>1 DEF KeysInv, SupersededIsRevoked, Row
<1>10. LogInv'
  BY <1>1, <1>4, <1>5 DEF KeysInv, LogInv, DeletedLeavesNoLog
<1>11. RateInv'
  BY <1>1, RateStays DEF KeysInv
<1>12. UseInv'
  <2> SUFFICES ASSUME NEW j \in Keys, Row(j), krow[j].on, ~flushLost, ~Flushing(j)'
               PROVE  Flushed(j)'
    BY <1>1 DEF UseInv, Row
  <2>1. ~Flushing(j)
    BY <1>1, <1>4 DEF Flushing
  <2>2. Flushed(j)
    BY <2>1 DEF KeysInv, UseInv
  <2>3. j = k => krow[j].used >= t - FlushWindow
    BY <1>1, <1>2, <2>2 DEF Flushed
  <2> QED
    BY <1>1, <1>4, <2>2, <2>3 DEF Flushed
<1> QED
  BY <1>6, <1>7, <1>8, <1>9, <1>10, <1>11, <1>12 DEF KeysInv

-----------------------------------------------------------------------------
\* Administrators write: rows change, but for their use and predecessor, none
\* becomes active, and new keys come with nothing used.
LEMMA RowsMove ==
    ASSUME KeysInv, krow' \in [Keys -> KeyRow \cup {New, Gone}],
           \A j \in Keys :
             \/ krow'[j] = krow[j]
             \/ /\ Row(j) /\ krow'[j] \in KeyRow
                /\ krow'[j].used = krow[j].used /\ krow'[j].from = krow[j].from
                /\ krow'[j].on => krow[j].on
             \/ /\ krow[j] = New /\ krow'[j] \in KeyRow
                /\ krow'[j].from # NoKey =>
                     /\ krow'[j].from \in Keys /\ krow[krow'[j].from] # New
                     /\ krow'[krow'[j].from] \in KeyRow => ~krow'[krow'[j].from].on,
           aop' \in [ApiAdmins -> AdminOps],
           \A a \in ApiAdmins : aop'[a] # NoOp => aop'[a] = aop[a] \/ krow[aop'[a].k] # New,
           UNCHANGED <<call, rate, cache, alog, clock, calls, admitted, lives, served,
                       flushLost, late>>
    PROVE  KeysInv'
<1>1. KeysTyped
  BY DEF KeysInv
<1>2. KeysTyped'
  BY <1>1 DEF KeysTyped
<1>3. \A j \in Keys : /\ krow[j] # New => krow'[j] # New
                      /\ krow'[j] = Gone <=> krow[j] = Gone
                      /\ krow'[j] = New => krow[j] = New
                      /\ Row(j)' <=> krow'[j] \in KeyRow
  BY <1>1, TypedRows, KeyRowsAre DEF Row
<1>4. TimesInv'
  BY DEF KeysInv, TimesInv
<1>5. /\ \A d \in Callers : call[d] # NoCall => call[d].k \in Keys
      /\ \A a \in ApiAdmins : aop[a] # NoOp => aop[a].k \in Keys
      /\ \A a \in ApiAdmins : aop'[a] # NoOp => aop'[a].k \in Keys
      /\ \A j \in Keys : Row(j) => krow[j].from \in Keys \cup {NoKey}
  <2>1. \A d \in Callers : call[d] # NoCall => call[d].k \in Keys
    BY <1>1, TypedRows DEF CallRows
  <2>2. \A j \in Keys : Row(j) => krow[j].from \in Keys \cup {NoKey}
    BY <1>1, TypedRows DEF KeyRow
  <2> QED
    BY <1>1, <2>1, <2>2 DEF KeysTyped, AdminOps
<1>6. IssuedInv'
  <2>1. \A d \in Callers : call'[d] # NoCall => krow'[call'[d].k] # New
    BY <1>3, <1>5 DEF KeysInv, IssuedInv
  <2>2. \A a \in ApiAdmins : aop'[a] # NoOp => krow'[aop'[a].k] # New
    BY <1>3, <1>5 DEF KeysInv, IssuedInv
  <2>3. ASSUME NEW j \in Keys, Row(j)', krow'[j].from # NoKey
        PROVE  krow'[krow'[j].from] # New
    BY <1>1, <1>3, <1>5, <2>3, TypedRows DEF KeysInv, IssuedInv
  <2>4. \A j \in Keys : krow'[j] = New => served'[j] = 0 /\ \A q \in Procs : cache'[q][j] = 0
    BY <1>3 DEF KeysInv, IssuedInv
  <2> QED
    BY <2>1, <2>2, <2>3, <2>4 DEF IssuedInv
<1>7. SupersededIsRevoked'
  <2> SUFFICES ASSUME NEW j \in Keys, NEW i, Row(j)', krow'[j].from = i, i # NoKey, Row(i)'
               PROVE  ~krow'[i].on
    BY DEF SupersededIsRevoked, Row
  <2>1. krow'[j] \in KeyRow /\ i \in Keys
    BY <1>3 DEF KeyRow
  <2>2. krow'[i] \in KeyRow
    BY <1>3, <2>1
  <2>3. CASE Row(j) /\ krow'[j].from = krow[j].from
    <3>1. krow[i] # New
      BY <2>1, <2>3 DEF KeysInv, IssuedInv
    <3>2. Row(i)
      BY <1>1, <1>3, <2>1, <2>2, <3>1, TypedRows, KeyRowsAre
    <3>3. ~krow[i].on
      BY <2>1, <2>3, <3>2 DEF KeysInv, SupersededIsRevoked
    <3> QED
      BY <2>1, <3>1, <3>3
  <2>4. CASE krow[j] = New
    BY <2>1, <2>2, <2>4, KeyRowsAre, <1>1, TypedRows
  <2> QED
    BY <1>1, <1>3, <2>1, <2>3, <2>4, TypedRows
<1>8. LogInv'
  BY <1>3, <1>5 DEF KeysInv, LogInv, DeletedLeavesNoLog
<1>9. RateInv'
  BY <1>3, RateStays DEF KeysInv
<1>10. UseInv'
  <2> SUFFICES ASSUME NEW j \in Keys, Row(j)', krow'[j].on, ~flushLost, ~Flushing(j)'
               PROVE  Flushed(j)'
    BY DEF UseInv
  <2>1. CASE Row(j) /\ krow'[j].used = krow[j].used
    <3>1. Row(j) /\ krow[j].on /\ ~Flushing(j)
      <4>1. ~Flushing(j)
        BY DEF Flushing
      <4>2. krow'[j].on => krow[j].on
        BY <1>1, <2>1, TypedRows, KeyRowsAre
      <4> QED
        BY <2>1, <4>1, <4>2
    <3>2. Flushed(j)
      BY <3>1 DEF KeysInv, UseInv
    <3> QED
      BY <2>1, <3>2 DEF Flushed
  <2>2. CASE krow[j] = New
    <3>1. served[j] = 0 /\ \A p \in Procs : cache[p][j] = 0
      BY <2>2 DEF KeysInv, IssuedInv
    <3>2. \A d \in Callers : call[d] # NoCall => call[d].k # j
      BY <2>2 DEF KeysInv, IssuedInv
    <3> QED
      BY <3>1, <3>2 DEF Flushed
  <2> QED
    BY <1>1, <1>3, <2>1, <2>2, TypedRows
<1> QED
  BY <1>2, <1>4, <1>6, <1>7, <1>8, <1>9, <1>10 DEF KeysInv

LEMMA NewRowIs ==
    ASSUME NEW wide \in BOOLEAN, NEW from \in Keys \cup {NoKey}
    PROVE  /\ NewRow(wide, from) \in KeyRow
           /\ NewRow(wide, from).from = from /\ NewRow(wide, from).used = 0
  BY DEF NewRow, KeyRow

LEMMA AdminsKeep ==
    ASSUME KeysInv,
           \/ \E k \in Keys, wide \in BOOLEAN : admin_api_key_create(k, wide)
           \/ \E a \in ApiAdmins :
                \/ \E k \in Keys : \/ \E op \in {"rotate", "edit", "revoke"} : AdminRead(a, op, k)
                                   \/ RotateWrite(a, k)
                \/ RevokeWrite(a)
                \/ \E wide \in BOOLEAN : EditWrite(a, wide)
    PROVE  KeysInv'
<1>1. KeysTyped /\ krow \in [Keys -> KeyRow \cup {New, Gone}]
      /\ aop \in [ApiAdmins -> AdminOps] /\ NoOp \in AdminOps
  BY DEF KeysInv, KeysTyped, AdminOps
<1>2. ASSUME NEW k \in Keys, NEW wide \in BOOLEAN, admin_api_key_create(k, wide)
      PROVE  KeysInv'
  <2>1. /\ krow[k] = New /\ krow' = [krow EXCEPT ![k] = NewRow(wide, NoKey)]
        /\ UNCHANGED <<call, rate, cache, alog, aop, clock, calls, admitted, lives, served,
                       flushLost, late>>
    BY <1>2 DEF admin_api_key_create
  <2>2. NewRow(wide, NoKey) \in KeyRow /\ NewRow(wide, NoKey).from = NoKey
    BY NewRowIs
  <2> QED
    BY <1>1, <2>1, <2>2, RowsMove
<1>3. ASSUME NEW a \in ApiAdmins, NEW k \in Keys, NEW op \in {"rotate", "edit", "revoke"},
             AdminRead(a, op, k)
      PROVE  KeysInv'
  <2> DEFINE r == [op |-> op, k |-> k, wide |-> krow[k].wide]
  <2>1. /\ Row(k) /\ aop' = [aop EXCEPT ![a] = r]
        /\ UNCHANGED <<krow, call, rate, cache, alog, clock, calls, admitted, lives, served,
                       flushLost, late>>
    BY <1>3 DEF AdminRead
  <2>2. r \in AdminOps /\ r.k = k /\ krow[k] # New
    BY <1>1, <2>1, TypedRows, KeyRowsAre DEF AdminOps, KeyRow
  <2> HIDE DEF r
  <2> QED
    BY <1>1, <2>1, <2>2, RowsMove
\* A row is written: the one that was read, if it is still there.
<1>4. ASSUME NEW a \in ApiAdmins, aop[a] # NoOp, NEW row,
             Row(aop[a].k) => /\ row \in KeyRow
                              /\ row.used = krow[aop[a].k].used
                              /\ row.from = krow[aop[a].k].from
                              /\ row.on => krow[aop[a].k].on
      PROVE  /\ aop[a].k \in Keys /\ Written(a, row) \in [Keys -> KeyRow \cup {New, Gone}]
             /\ \A j \in Keys : Written(a, row)[j] =
                   IF j = aop[a].k /\ Row(aop[a].k) THEN row ELSE krow[j]
  BY <1>1, <1>4, TypedRows DEF Written
<1>5. ASSUME NEW a \in ApiAdmins, aop[a] # NoOp, NEW row,
             Row(aop[a].k) => /\ row \in KeyRow
                              /\ row.used = krow[aop[a].k].used
                              /\ row.from = krow[aop[a].k].from
                              /\ row.on => krow[aop[a].k].on,
             krow' = Written(a, row), aop' = [aop EXCEPT ![a] = NoOp],
             UNCHANGED <<call, rate, cache, alog, clock, ops, calls, admitted, lives, served,
                         flushLost, late>>
      PROVE  KeysInv'
  <2>1. \A j \in Keys : krow'[j] = IF j = aop[a].k /\ Row(aop[a].k) THEN row ELSE krow[j]
    BY <1>4, <1>5
  <2>2. krow' \in [Keys -> KeyRow \cup {New, Gone}]
    BY <1>4, <1>5
  <2>3. /\ aop' \in [ApiAdmins -> AdminOps]
        /\ \A b \in ApiAdmins : aop'[b] # NoOp => aop'[b] = aop[b]
    BY <1>1, <1>5
  <2> QED
    BY <1>5, <2>1, <2>2, <2>3, RowsMove
<1>6. ASSUME NEW a \in ApiAdmins, RevokeWrite(a)
      PROVE  KeysInv'
  <2> DEFINE row == [krow[aop[a].k] EXCEPT !.on = FALSE]
  <2>1. /\ aop[a].op = "revoke" /\ krow' = Written(a, row)
        /\ aop' = [aop EXCEPT ![a] = NoOp]
        /\ UNCHANGED <<call, rate, cache, alog, clock, ops, calls, admitted, lives, served,
                       flushLost, late>>
    BY <1>6 DEF RevokeWrite
  <2>2. aop[a] # NoOp /\ aop[a].k \in Keys
    BY <1>1, <2>1, TypedRows
  <2>3. Row(aop[a].k) => /\ row \in KeyRow /\ row.used = krow[aop[a].k].used
                         /\ row.from = krow[aop[a].k].from /\ ~row.on
    BY <1>1, <2>2, TypedRows, ZenonT(40) DEF KeyRow
  <2> QED
    BY <1>5, <2>1, <2>2, <2>3
<1>7. ASSUME NEW a \in ApiAdmins, NEW wide \in BOOLEAN, EditWrite(a, wide)
      PROVE  KeysInv'
  <2> DEFINE row == [krow[aop[a].k] EXCEPT !.wide = wide]
  <2>1. /\ aop[a].op = "edit" /\ krow' = Written(a, row)
        /\ aop' = [aop EXCEPT ![a] = NoOp]
        /\ UNCHANGED <<call, rate, cache, alog, clock, ops, calls, admitted, lives, served,
                       flushLost, late>>
    BY <1>7 DEF EditWrite
  <2>2. aop[a] # NoOp /\ aop[a].k \in Keys
    BY <1>1, <2>1, TypedRows
  <2>3. Row(aop[a].k) => /\ row \in KeyRow /\ row.used = krow[aop[a].k].used
                         /\ row.from = krow[aop[a].k].from /\ row.on = krow[aop[a].k].on
    BY <1>1, <2>2, TypedRows DEF KeyRow
  <2> QED
    BY <1>5, <2>1, <2>2, <2>3
<1>8. ASSUME NEW a \in ApiAdmins, NEW new \in Keys, RotateWrite(a, new)
      PROVE  KeysInv'
  <2> DEFINE row == [krow[aop[a].k] EXCEPT !.on = FALSE]
             fresh == NewRow(aop[a].wide, aop[a].k)
  <2>1. /\ aop[a].op = "rotate" /\ krow[new] = New
        /\ krow' = [Written(a, row) EXCEPT ![new] = fresh]
        /\ aop' = [aop EXCEPT ![a] = NoOp]
        /\ UNCHANGED <<call, rate, cache, alog, clock, ops, calls, admitted, lives, served,
                       flushLost, late>>
    BY <1>8 DEF RotateWrite
  <2>2. aop[a] # NoOp /\ aop[a].k \in Keys /\ aop[a].wide \in BOOLEAN
    BY <1>1, <2>1, TypedRows
  <2>3. Row(aop[a].k) => /\ row \in KeyRow /\ row.used = krow[aop[a].k].used
                         /\ row.from = krow[aop[a].k].from /\ ~row.on
    BY <1>1, <2>2, TypedRows, ZenonT(40) DEF KeyRow
  <2>4. fresh \in KeyRow /\ fresh.from = aop[a].k
    BY <2>2, NewRowIs
  <2>5. krow[aop[a].k] # New /\ aop[a].k # new
    BY <2>1, <2>2 DEF KeysInv, IssuedInv
  <2>6. /\ Written(a, row) \in [Keys -> KeyRow \cup {New, Gone}]
        /\ \A j \in Keys : Written(a, row)[j] =
              IF j = aop[a].k /\ Row(aop[a].k) THEN row ELSE krow[j]
    BY <1>4, <2>2, <2>3
  <2> HIDE DEF row, fresh
  <2>7. /\ krow' \in [Keys -> KeyRow \cup {New, Gone}]
        /\ \A j \in Keys : krow'[j] = IF j = new THEN fresh
              ELSE IF j = aop[a].k /\ Row(aop[a].k) THEN row ELSE krow[j]
    BY <2>1, <2>4, <2>6
  <2>8. /\ aop' \in [ApiAdmins -> AdminOps]
        /\ \A b \in ApiAdmins : aop'[b] # NoOp => aop'[b] = aop[b]
    BY <1>1, <2>1
  <2>9. krow'[aop[a].k] \in KeyRow => ~krow'[aop[a].k].on
    BY <1>1, <2>2, <2>3, <2>5, <2>7, TypedRows
  <2>10. \A j \in Keys :
             \/ krow'[j] = krow[j]
             \/ /\ Row(j) /\ krow'[j] \in KeyRow
                /\ krow'[j].used = krow[j].used /\ krow'[j].from = krow[j].from
                /\ krow'[j].on => krow[j].on
             \/ /\ krow[j] = New /\ krow'[j] \in KeyRow
                /\ krow'[j].from # NoKey =>
                     /\ krow'[j].from \in Keys /\ krow[krow'[j].from] # New
                     /\ krow'[krow'[j].from] \in KeyRow => ~krow'[krow'[j].from].on
    BY <2>1, <2>2, <2>3, <2>4, <2>5, <2>7, <2>9
  <2> QED
    BY <2>1, <2>7, <2>8, <2>10, RowsMove
<1> QED
  BY <1>2, <1>3, <1>6, <1>7, <1>8

-----------------------------------------------------------------------------
\* Rows of keys go, with their log rows and what one process knows of them.
LEMMA ForgetKeeps ==
    ASSUME KeysInv, NEW p \in Procs, NEW ks \in SUBSET Keys,
           \A k \in ks : Row(k), Forget(ks, p),
           alog' \in [Keys -> BOOLEAN],
           \A k \in Keys : alog'[k] => alog[k] /\ k \notin ks
    PROVE  KeysInv'
<1> DEFINE none == [min |-> 0, n |-> 0]
<1>1. KeysTyped
  BY DEF KeysInv
<1>2. none \in Windows
  BY DEF Windows, KeysInv, KeysTyped
<1>3. /\ krow' = [k \in Keys |-> IF k \in ks THEN Gone ELSE krow[k]]
      /\ late' = [k \in Keys |-> IF k \in ks THEN InFlight(k) ELSE late[k]]
      /\ cache' = [cache EXCEPT ![p] = [k \in Keys |-> IF k \in ks THEN 0 ELSE cache[p][k]]]
      /\ rate' = [rate EXCEPT ![p] = [k \in Keys |-> IF k \in ks THEN none ELSE rate[p][k]]]
      /\ UNCHANGED <<call, aop, clock, calls, admitted, lives, served, flushLost>>
  BY DEF Forget
<1> HIDE DEF none
<1>4. /\ \A q \in Procs, k \in Keys :
            cache'[q][k] = IF q = p /\ k \in ks THEN 0 ELSE cache[q][k]
      /\ \A q \in Procs, k \in Keys :
            rate'[q][k] = IF q = p /\ k \in ks THEN none ELSE rate[q][k]
      /\ \A k \in Keys : krow'[k] = IF k \in ks THEN Gone ELSE krow[k]
      /\ \A k \in Keys : late'[k] = IF k \in ks THEN InFlight(k) ELSE late[k]
  BY <1>1, <1>3 DEF KeysTyped
<1>5. KeysTyped'
  <2>1. cache' \in [Procs -> [Keys -> 0..MaxClock]]
    <3>1. 0 \in 0..MaxClock
      OBVIOUS
    <3>2. [k \in Keys |-> IF k \in ks THEN 0 ELSE cache[p][k]] \in [Keys -> 0..MaxClock]
      BY <1>1, <3>1 DEF KeysTyped
    <3> QED
      BY <1>1, <1>3, <3>2 DEF KeysTyped
  <2>2. rate' \in [Procs -> [Keys -> Windows]]
    <3>1. [k \in Keys |-> IF k \in ks THEN none ELSE rate[p][k]] \in [Keys -> Windows]
      BY <1>1, <1>2 DEF KeysTyped
    <3> QED
      BY <1>1, <1>3, <3>1 DEF KeysTyped
  <2>3. late' \in [Keys -> BOOLEAN]
    BY <1>1, <1>3 DEF KeysTyped, InFlight
  <2>4. krow' \in [Keys -> KeyRow \cup {New, Gone}]
    BY <1>1, <1>3 DEF KeysTyped
  <2> QED
    BY <1>1, <1>3, <2>1, <2>2, <2>3, <2>4 DEF KeysTyped
<1>6. \A k \in Keys : /\ krow'[k] = New <=> krow[k] = New
                      /\ krow'[k] # Gone => krow[k] # Gone /\ k \notin ks /\ krow'[k] = krow[k]
                      /\ Row(k)' => Row(k) /\ k \notin ks /\ krow'[k] = krow[k]
  BY <1>1, <1>4, TypedRows, KeyRowsAre DEF Row
<1>7. /\ \A d \in Callers : call[d] # NoCall => call[d].k \in Keys
      /\ \A a \in ApiAdmins : aop[a] # NoOp => aop[a].k \in Keys
      /\ \A j \in Keys : Row(j) => krow[j].from \in Keys \cup {NoKey}
  <2>1. \A d \in Callers : call[d] # NoCall => call[d].k \in Keys
    BY <1>1, TypedRows DEF CallRows
  <2>2. \A j \in Keys : Row(j) => krow[j].from \in Keys \cup {NoKey}
    BY <1>1, TypedRows DEF KeyRow
  <2> QED
    BY <1>1, <2>1, <2>2, TypedRows
<1>8. TimesInv'
  <2>1. 0 <= clock
    BY <1>1 DEF KeysTyped
  <2> QED
    BY <1>3, <1>4, <2>1 DEF KeysInv, TimesInv
<1>9. IssuedInv'
  BY <1>3, <1>4, <1>6, <1>7 DEF KeysInv, IssuedInv
<1>10. SupersededIsRevoked'
  <2> SUFFICES ASSUME NEW j \in Keys, NEW i, Row(j)', krow'[j].from = i, i # NoKey, Row(i)'
               PROVE  ~krow'[i].on
    BY DEF SupersededIsRevoked, Row
  <2>1. Row(j) /\ krow[j].from = i /\ i \in Keys
    BY <1>6, <1>7
  <2> QED
    BY <1>6, <2>1 DEF KeysInv, SupersededIsRevoked
<1>11. LogInv'
  <2>1. DeletedLeavesNoLog'
    BY <1>4 DEF KeysInv, LogInv, DeletedLeavesNoLog
  <2>2. ASSUME NEW d \in Callers, call[d] # NoCall, krow'[call[d].k] = Gone
        PROVE  late'[call[d].k]
    <3>1. PICK j \in Keys : j = call[d].k
      BY <1>7, <2>2
    <3>2. CASE j \in ks
      BY <1>4, <2>2, <3>1, <3>2 DEF InFlight
    <3>3. CASE j \notin ks
      <4>1. krow[j] = Gone /\ late'[j] = late[j]
        BY <1>4, <2>2, <3>1, <3>3
      <4> QED
        BY <2>2, <3>1, <4>1 DEF KeysInv, LogInv
    <3> QED
      BY <3>2, <3>3
  <2> QED
    BY <1>3, <2>1, <2>2 DEF LogInv
<1>12. RateInv'
  <2>1. Minute' = Minute /\ Forgotten' = Forgotten
    BY <1>3 DEF Minute, Forgotten
  <2>2. ASSUME NEW k \in Keys, k \notin ks
        PROVE  InWindows(k)' = InWindows(k)
    <3>1. \A q \in Procs : rate'[q][k] = rate[q][k]
      BY <1>4, <2>2
    <3> QED
      BY <2>1, <3>1 DEF InWindows
  <2> QED
    BY <1>3, <1>6, <2>1, <2>2 DEF KeysInv, RateInv
<1>13. UseInv'
  <2> SUFFICES ASSUME NEW j \in Keys, Row(j)', krow'[j].on, ~flushLost, ~Flushing(j)'
               PROVE  Flushed(j)'
    BY <1>3 DEF UseInv
  <2>1. Row(j) /\ krow'[j] = krow[j] /\ ~Flushing(j) /\ j \notin ks
    BY <1>3, <1>6 DEF Flushing
  <2>2. Flushed(j)
    BY <2>1 DEF KeysInv, UseInv
  <2> QED
    BY <1>3, <1>4, <2>1, <2>2 DEF Flushed
<1> QED
  BY <1>5, <1>8, <1>9, <1>10, <1>11, <1>12, <1>13 DEF KeysInv

LEMMA ClearKeeps ==
    ASSUME KeysInv, NEW k \in Keys, ClearLogs(k)
    PROVE  KeysInv'
<1>1. /\ alog' = [alog EXCEPT ![k] = FALSE]
      /\ UNCHANGED <<krow, call, rate, cache, aop, clock, calls, admitted, lives, served,
                     flushLost, late>>
  BY DEF ClearLogs
<1>2. KeysTyped' /\ \A j \in Keys : alog'[j] => alog[j]
  BY <1>1 DEF KeysInv, KeysTyped
<1>3. TimesInv' /\ IssuedInv' /\ SupersededIsRevoked'
  BY <1>1 DEF KeysInv, TimesInv, IssuedInv, SupersededIsRevoked, Row
<1>4. LogInv'
  BY <1>1, <1>2 DEF KeysInv, LogInv, DeletedLeavesNoLog
<1>5. RateInv'
  BY <1>1, RateStays DEF KeysInv
<1>6. UseInv'
  BY <1>1 DEF KeysInv, UseInv, Row, Flushing, Flushed
<1> QED
  BY <1>2, <1>3, <1>4, <1>5, <1>6 DEF KeysInv

\* A process is replaced: what it had counted is forgotten, once a minute.
LEMMA RecycleKeeps ==
    ASSUME KeysInv, NEW p \in Procs, Recycle(p)
    PROVE  KeysInv'
<1> DEFINE none == [min |-> 0, n |-> 0]
<1>1. KeysTyped /\ Cardinality(Procs) \in Nat
  BY ProcsAreFinite DEF KeysInv
<1>2. none \in Windows
  BY DEF Windows, KeysInv, KeysTyped
<1>3. /\ lives < Cardinality(Procs) + 1 /\ lives' = lives + 1
      /\ rate' = [rate EXCEPT ![p] = [k \in Keys |-> none]]
      /\ cache' = [cache EXCEPT ![p] = [k \in Keys |-> 0]]
      /\ UNCHANGED <<krow, call, alog, aop, clock, ops, calls, admitted, served, flushLost, late>>
  BY DEF Recycle
<1>4. lives = Cardinality(Procs) /\ lives' = Cardinality(Procs) + 1
  BY <1>1, <1>3 DEF KeysTyped
<1> HIDE DEF none
<1>5. /\ \A q \in Procs, k \in Keys : cache'[q][k] = IF q = p THEN 0 ELSE cache[q][k]
      /\ \A q \in Procs, k \in Keys : q # p => rate'[q][k] = rate[q][k]
  BY <1>1, <1>3 DEF KeysTyped
<1>6. KeysTyped'
  BY <1>1, <1>2, <1>3, <1>4 DEF KeysTyped
<1>7. TimesInv'
  <2>1. 0 <= clock
    BY <1>1 DEF KeysTyped
  <2> QED
    BY <1>3, <1>5, <2>1 DEF KeysInv, TimesInv
<1>8. IssuedInv' /\ SupersededIsRevoked' /\ LogInv'
  BY <1>3, <1>5 DEF KeysInv, IssuedInv, SupersededIsRevoked, LogInv, DeletedLeavesNoLog, Row
<1>9. RateInv'
  <2>1. Minute' = Minute /\ Forgotten = 0 /\ Forgotten' = RateLimit
    <3>1. Cardinality(Procs) + 1 # Cardinality(Procs)
      BY <1>1
    <3> QED
      BY <1>3, <1>4, <3>1 DEF Minute, Forgotten
  <2>2. ASSUME NEW k \in Keys, krow[k] # Gone
        PROVE  admitted[k] <= Cardinality(InWindows(k)') + RateLimit
    <3> DEFINE own == {p} \X (1..RateLimit)
               A == InWindows(k)
               B == InWindows(k)'
    <3>1. A \in SUBSET (B \cup own)
      <4>1. ASSUME NEW q \in Procs, NEW i \in 1..RateLimit, <<q, i>> \in A
            PROVE  <<q, i>> \in B \cup own
        BY <1>5, <2>1, <4>1 DEF InWindows
      <4> QED
        BY <4>1 DEF InWindows
    <3>2. IsFiniteSet(own) /\ Cardinality(own) = RateLimit /\ RateLimit \in Nat
      BY PairsAre
    <3>3. IsFiniteSet(B) /\ Cardinality(B) \in Nat
      <4>1. B \in SUBSET (Procs \X (1..RateLimit))
        BY DEF InWindows
      <4> QED
        BY <4>1, PairsAre, FS_Subset, FS_CardinalityType
    <3>4. IsFiniteSet(A) /\ Cardinality(A) \in Nat /\ admitted[k] \in Nat
      BY <1>1, CountedIsFinite DEF KeysTyped
    <3>5. admitted[k] <= Cardinality(A)
      BY <2>1, <2>2, <3>4 DEF KeysInv, RateInv
    <3> HIDE DEF own, A, B
    <3>6. /\ IsFiniteSet(B \cup own)
          /\ Cardinality(B \cup own) = Cardinality(B) + Cardinality(own) - Cardinality(B \cap own)
      BY <3>2, <3>3, FS_Union
    <3>7. Cardinality(B \cap own) \in Nat
      BY <3>3, FS_Subset, FS_CardinalityType
    <3>8. Cardinality(A) <= Cardinality(B \cup own) /\ Cardinality(B \cup own) \in Nat
      BY <3>1, <3>6, FS_Subset, FS_CardinalityType
    <3>9. admitted[k] <= Cardinality(B) + RateLimit
      BY <3>2, <3>3, <3>4, <3>5, <3>6, <3>7, <3>8
    <3> QED
      BY <3>9 DEF B
  <2> QED
    BY <1>3, <2>1, <2>2 DEF RateInv
<1>10. UseInv'
  <2> SUFFICES ASSUME NEW j \in Keys, Row(j), krow[j].on, ~flushLost, ~Flushing(j)'
               PROVE  Flushed(j)'
    BY <1>3 DEF UseInv, Row
  <2>1. ~Flushing(j)
    BY <1>3 DEF Flushing
  <2>2. Flushed(j)
    BY <2>1 DEF KeysInv, UseInv
  <2> QED
    BY <1>3, <1>5, <2>2 DEF Flushed
<1> QED
  BY <1>6, <1>7, <1>8, <1>9, <1>10 DEF KeysInv

LEMMA KeysTickKeeps ==
    ASSUME KeysInv, KeysTick
    PROVE  KeysInv'
<1> DEFINE over == (clock + 1) \div 2 # Minute
<1>1. /\ clock < MaxClock /\ clock' = clock + 1
      /\ \A c \in Callers : call[c] # NoCall => call[c].t = clock
      /\ admitted' = IF over THEN [k \in Keys |-> 0] ELSE admitted
      /\ lives' = IF over THEN Cardinality(Procs) ELSE lives
      /\ UNCHANGED <<krow, call, rate, cache, alog, aop, ops, calls, served, flushLost, late>>
  BY DEF KeysTick
<1>2. KeysTyped /\ clock \in 1..MaxClock /\ Cardinality(Procs) \in Nat
  BY ProcsAreFinite DEF KeysInv, KeysTyped
<1>3. KeysTyped'
  <2>1. clock' \in 1..MaxClock
    BY <1>1, <1>2
  <2>2. admitted' \in [Keys -> Nat]
    BY <1>1, <1>2 DEF KeysTyped
  <2>3. lives' \in {Cardinality(Procs), Cardinality(Procs) + 1}
    BY <1>1, <1>2 DEF KeysTyped
  <2> QED
    BY <1>1, <1>2, <2>1, <2>2, <2>3 DEF KeysTyped
<1>4. TimesInv'
  <2>1. \A k \in Keys : served[k] \in 0..MaxClock /\ \A p \in Procs : cache[p][k] \in 0..MaxClock
    BY <1>2 DEF KeysTyped
  <2>2. \A k \in Keys : served[k] <= clock /\ \A p \in Procs : cache[p][k] <= clock
    BY DEF KeysInv, TimesInv
  <2>3. clock' - 1 = clock
    BY <1>1, <1>2
  <2> QED
    BY <1>1, <1>2, <2>1, <2>2, <2>3 DEF TimesInv
<1>5. IssuedInv' /\ SupersededIsRevoked' /\ LogInv'
  BY <1>1 DEF KeysInv, IssuedInv, SupersededIsRevoked, LogInv, DeletedLeavesNoLog, Row
<1>6. RateInv'
  <2>1. CASE over
    <3>1. ASSUME NEW k \in Keys
          PROVE  admitted'[k] <= Cardinality(InWindows(k)') + Forgotten'
      <4>1. admitted'[k] = 0 /\ Forgotten' = 0
        BY <1>1, <2>1 DEF Forgotten
      <4>2. Cardinality(InWindows(k)') \in Nat
        <5>1. InWindows(k)' \in SUBSET (Procs \X (1..RateLimit))
          BY DEF InWindows
        <5> QED
          BY <5>1, PairsAre, FS_Subset, FS_CardinalityType
      <4> QED
        BY <4>1, <4>2
    <3> QED
      BY <3>1 DEF RateInv
  <2>2. CASE ~over
    <3>1. Minute' = Minute /\ Forgotten' = Forgotten /\ admitted' = admitted
      BY <1>1, <2>2 DEF Minute, Forgotten
    <3>2. \A k : InWindows(k)' = InWindows(k)
      BY <1>1, <3>1 DEF InWindows
    <3> QED
      BY <1>1, <3>1, <3>2 DEF KeysInv, RateInv
  <2> QED
    BY <2>1, <2>2
<1>7. UseInv'
  BY <1>1 DEF KeysInv, UseInv, Row, Flushing, Flushed
<1> QED
  BY <1>3, <1>4, <1>5, <1>6, <1>7 DEF KeysInv

LEMMA KeysStep == KeysInv /\ [KeysNext]_apiVars => KeysInv'
<1> SUFFICES ASSUME KeysInv, [KeysNext]_apiVars
             PROVE  KeysInv'
  OBVIOUS
<1>1. CASE UNCHANGED apiVars
  <2>1. UNCHANGED <<krow, call, rate, cache, alog, aop, clock, calls, admitted, lives, served,
                    flushLost, late>>
    BY <1>1 DEF apiVars
  <2>2. KeysTyped' /\ TimesInv' /\ IssuedInv' /\ SupersededIsRevoked' /\ LogInv'
    BY <2>1 DEF KeysInv, KeysTyped, TimesInv, IssuedInv, SupersededIsRevoked, LogInv,
       DeletedLeavesNoLog, Row
  <2>3. RateInv'
    BY <2>1, RateStays DEF KeysInv
  <2>4. UseInv'
    BY <2>1 DEF KeysInv, UseInv, Row, Flushing, Flushed
  <2> QED
    BY <2>2, <2>3, <2>4 DEF KeysInv
<1>2. ASSUME NEW c \in Callers,
             \/ \E p \in Procs, k \in Keys, plain \in BOOLEAN : Authenticate(c, p, k, plain)
             \/ RateAllowed(c) \/ FlushCheck(c) \/ FlushWrite(c) \/ FlushFails(c)
             \/ \E stored \in BOOLEAN : Answer(c, stored)
      PROVE  KeysInv'
  BY <1>2, AuthenticateKeeps, RateKeeps, FlushCheckKeeps, FlushWriteKeeps, FlushFailsKeeps,
     AnswerKeeps
<1>3. ASSUME NEW p \in Procs, clear_all_api_data(p)
      PROVE  KeysInv'
  <2>1. /\ Forget({k \in Keys : Row(k)}, p)
        /\ alog' \in [Keys -> BOOLEAN] /\ \A k \in Keys : ~alog'[k]
    BY <1>3 DEF clear_all_api_data
  <2>2. PICK ks \in SUBSET Keys : ks = {k \in Keys : Row(k)}
    OBVIOUS
  <2> QED
    BY <2>1, <2>2, ForgetKeeps
<1>4. ASSUME NEW p \in Procs, NEW k \in Keys, admin_api_key_delete(k, p)
      PROVE  KeysInv'
  <2>1. Row(k) /\ Forget({k}, p) /\ alog' = [alog EXCEPT ![k] = FALSE]
    BY <1>4 DEF admin_api_key_delete
  <2>2. /\ alog' \in [Keys -> BOOLEAN]
        /\ \A j \in Keys : alog'[j] => alog[j] /\ j \notin {k}
    BY <2>1 DEF KeysInv, KeysTyped
  <2> QED
    BY <2>1, <2>2, ForgetKeeps
<1>5. CASE KeysNext
  BY <1>2, <1>3, <1>4, <1>5, AdminsKeep, ClearKeeps, RecycleKeeps, KeysTickKeeps DEF KeysNext
<1> QED
  BY <1>1, <1>5

\* admin_api_key_rotate, _delete, _api_rate_allowed and _api_flush_last_used, for
\* any number of processes, callers and administrators: a replaced key stays
\* revoked, no key is let through more often than its limit in each process of
\* the minute, a deleted key leaves no log but that of calls in flight, and the
\* time of last use is at most a flush window old.
THEOREM KeysHold ==
    KeysSpec => [](/\ KeyTypeOK /\ SupersededIsRevoked /\ RateHolds
                   /\ DeletedLeavesNoLog /\ LastUsedRecent)
  BY KeysInitially, KeysStep, KeysImply, PTL DEF KeysSpec
=============================================================================
