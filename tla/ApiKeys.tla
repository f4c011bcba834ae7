------------------------------- MODULE ApiKeys -------------------------------
(***************************************************************************)
(* The keys of the external API: the rows of api_keys, the requests that   *)
(* authenticate with them in several web processes, each with its own rate *)
(* windows and last-used cache, and the administrators who create, edit,   *)
(* rotate, revoke and delete keys.  A call runs in steps: the key is read, *)
(* the rate counted, the last use flushed, the answer logged; the key may  *)
(* change between them.  Scopes, allow-list and expiry are one flag: what   *)
(* an administrator may widen or narrow.  Time is in halves of a minute.   *)
(***************************************************************************)
EXTENDS Integers, FiniteSets

CONSTANTS
    Keys,           \* key ids; one is never issued twice
    Callers,        \* clients, one call each at a time
    Procs,          \* gunicorn processes
    ApiAdmins,      \* administrators
    RateLimit,      \* API_RATE_LIMIT_PER_MINUTE
    MaxWindows,     \* rate windows a process keeps before it prunes
    MaxClock,       \* bound: half minutes
    MaxOps,         \* bound: requests of administrators
    MaxCalls        \* bound: calls

FlushWindow == 2    \* API_LAST_USED_FLUSH_SECONDS, one minute

ASSUME ApiAssumption == /\ RateLimit \in Nat \ {0} /\ MaxClock \in Nat \ {0}
                        /\ MaxOps \in Nat /\ MaxCalls \in Nat /\ MaxWindows \in Nat
                        /\ IsFiniteSet(Procs)

VARIABLES
    krow,       \* krow[k]: the row of api_keys, New before and Gone after
    call,       \* call[c]: c's request, or NoCall
    rate,       \* rate[p][k]: minute and count of _api_rate_windows
    cache,      \* cache[p][k]: _api_last_used_cache, 0 without an entry
    alog,       \* alog[k]: api_access_logs has rows of k
    aop,        \* aop[a]: what the administrator has read, or NoOp
    clock,
    ops,        \* requests administrators have made
    calls,      \* calls that were let in
    admitted,   \* history: admitted[k], calls the limit let through this minute
    lives,      \* history: process lifetimes of this minute
    served,     \* history: served[k], time of the last call that was answered
    flushLost,  \* history: a write of last_used_at has failed
    late        \* history: late[k], calls were in flight when k was deleted

apiVars == <<krow, call, rate, cache, alog, aop, clock, ops, calls, admitted, lives,
             served, flushLost, late>>

NoCall == [at |-> "none"]
NoOp == [op |-> "none"]
NoKey == "none"
New == [row |-> "new"]
Gone == [row |-> "gone"]
Min2(a, b) == IF a < b THEN a ELSE b
Minute == clock \div 2

\* wide: permits every call.  used: last_used_at, 0 is NULL.
KeyRow == [on : BOOLEAN, wide : BOOLEAN, used : 0..MaxClock,
           from : Keys \cup {NoKey}]

KeyTypeOK ==
    /\ \A k \in Keys : krow[k] \in KeyRow \/ krow[k] \in {New, Gone}
    /\ \A c \in Callers :
        \/ call[c] = NoCall
        \/ call[c] \in [at : {"rate", "flush", "write", "answer"}, k : Keys,
                        p : Procs, t : 0..MaxClock]
    /\ rate \in [Procs -> [Keys -> [min : 0..MaxClock, n : 0..(RateLimit + 1)]]]
    /\ cache \in [Procs -> [Keys -> 0..MaxClock]]
    /\ alog \in [Keys -> BOOLEAN]
    /\ \A a \in ApiAdmins : aop[a] = NoOp \/ aop[a].op \in {"rotate", "edit", "revoke"}

Row(k) == krow[k] \notin {New, Gone}

KeysInit ==
    /\ krow = [k \in Keys |-> New]
    /\ call = [c \in Callers |-> NoCall]
    /\ rate = [p \in Procs |-> [k \in Keys |-> [min |-> 0, n |-> 0]]]
    /\ cache = [p \in Procs |-> [k \in Keys |-> 0]]
    /\ alog = [k \in Keys |-> FALSE]
    /\ late = [k \in Keys |-> FALSE]
    /\ aop = [a \in ApiAdmins |-> NoOp]
    /\ clock = 1 /\ ops = 0 /\ calls = 0
    /\ admitted = [k \in Keys |-> 0]
    /\ lives = Cardinality(Procs)
    /\ served = [k \in Keys |-> 0]
    /\ flushLost = FALSE

(***************************************************************************)
(* A call                                                                  *)
(***************************************************************************)
\* _api_authenticate reads the row: the secret, is_active, expiry, address and
\* scope are compared in this order; a refused call changes nothing.
Authenticate(c, p, k, plain) ==
    /\ calls < MaxCalls /\ calls' = calls + 1
    /\ call[c] = NoCall /\ Row(k)
    /\ krow[k].on /\ (plain \/ krow[k].wide)
    /\ call' = [call EXCEPT ![c] = [at |-> "rate", k |-> k, p |-> p, t |-> clock]]
    /\ UNCHANGED <<krow, rate, cache, alog, aop, clock, ops, admitted, lives,
                   served, flushLost, late>>

\* The windows of minutes long gone are dropped when there are too many.
Pruned(w) ==
    IF Cardinality({k \in Keys : w[k].n > 0}) <= MaxWindows THEN w
    ELSE [k \in Keys |-> IF w[k].min < Minute - 2 THEN [min |-> 0, n |-> 0]
                         ELSE w[k]]

\* _api_rate_allowed, under the process's lock; counts above the limit are one.
RateAllowed(c) ==
    /\ call[c].at = "rate"
    /\ LET k == call[c].k
           w == Pruned(rate[call[c].p])
           n == IF w[k].min = Minute THEN Min2(w[k].n, RateLimit) + 1 ELSE 1
       IN  /\ rate' = [rate EXCEPT ![call[c].p] =
                          [w EXCEPT ![k] = [min |-> Minute, n |-> n]]]
           /\ call' = [call EXCEPT ![c] = IF n <= RateLimit
                          THEN [@ EXCEPT !.at = "flush"] ELSE NoCall]
           /\ admitted' = [admitted EXCEPT ![k] = IF n <= RateLimit THEN @ + 1 ELSE @]
    /\ UNCHANGED <<krow, cache, alog, aop, clock, ops, calls, lives, served, flushLost, late>>

\* _api_flush_last_used, under its lock: at most once a minute for each key.
FlushCheck(c) ==
    /\ call[c].at = "flush"
    /\ LET k == call[c].k
           p == call[c].p
           due == cache[p][k] = 0 \/ clock - cache[p][k] >= FlushWindow
       IN  /\ cache' = IF due THEN [cache EXCEPT ![p][k] = clock] ELSE cache
           /\ call' = [call EXCEPT ![c].at = IF due THEN "write" ELSE "answer",
                                   ![c].t = clock]
    /\ UNCHANGED <<krow, rate, alog, aop, clock, ops, calls, admitted, lives, served, flushLost, late>>

\* ... UPDATE api_keys ... WHERE key_id = ? AND is_active = 1
FlushWrite(c) ==
    /\ call[c].at = "write"
    /\ LET k == call[c].k
       IN  krow' = IF Row(k) /\ krow[k].on THEN [krow EXCEPT ![k].used = call[c].t]
                   ELSE krow
    /\ call' = [call EXCEPT ![c].at = "answer"]
    /\ UNCHANGED <<rate, cache, alog, aop, clock, ops, calls, admitted, lives, served, flushLost, late>>

\* The write fails: the call ends in an error, and the cache keeps the time.
FlushFails(c) ==
    /\ call[c].at = "write"
    /\ call' = [call EXCEPT ![c] = NoCall]
    /\ flushLost' = TRUE
    /\ UNCHANGED <<krow, rate, cache, alog, aop, clock, ops, calls, admitted, lives, served, late>>

\* The endpoint answers and _v48120_store_api_request_log adds its row, unless
\* that fails, which is only logged.
Answer(c, stored) ==
    /\ call[c].at = "answer"
    /\ LET k == call[c].k
       IN  /\ alog' = [alog EXCEPT ![k] = @ \/ stored]
           /\ served' = [served EXCEPT ![k] = call[c].t]
    /\ call' = [call EXCEPT ![c] = NoCall]
    /\ UNCHANGED <<krow, rate, cache, aop, clock, ops, calls, admitted, lives, flushLost, late>>

(***************************************************************************)
(* Administrators.  What is read is used in a later statement.             *)
(***************************************************************************)
NewRow(wide, from) == [on |-> TRUE, wide |-> wide, used |-> 0, from |-> from]

\* One more request of an administrator.
Ask == ops < MaxOps /\ ops' = ops + 1

admin_api_key_create(k, wide) ==
    /\ Ask /\ krow[k] = New
    /\ krow' = [krow EXCEPT ![k] = NewRow(wide, NoKey)]
    /\ UNCHANGED <<call, rate, cache, alog, aop, clock, calls, admitted, lives, served,
                   flushLost, late>>

\* admin_api_key_rotate, _revoke and _edit read the row; the first two only go
\* on with an active one.
AdminRead(a, op, k) ==
    /\ Ask /\ aop[a] = NoOp /\ Row(k)
    /\ op \in {"rotate", "revoke"} => krow[k].on
    /\ aop' = [aop EXCEPT ![a] = [op |-> op, k |-> k, wide |-> krow[k].wide]]
    /\ UNCHANGED <<krow, call, rate, cache, alog, clock, calls, admitted, lives, served,
                   flushLost, late>>

\* What the request writes to the row it has read, if the row is still there.
Written(a, row) == IF Row(aop[a].k) THEN [krow EXCEPT ![aop[a].k] = row] ELSE krow

\* One transaction: a new key that permits what the old one did when it was
\* read, and the old one revoked.
RotateWrite(a, new) ==
    /\ aop[a].op = "rotate" /\ krow[new] = New
    /\ krow' = [Written(a, [krow[aop[a].k] EXCEPT !.on = FALSE])
                   EXCEPT ![new] = NewRow(aop[a].wide, aop[a].k)]
    /\ aop' = [aop EXCEPT ![a] = NoOp]
    /\ UNCHANGED <<call, rate, cache, alog, clock, ops, calls, admitted, lives, served,
                   flushLost, late>>

RevokeWrite(a) ==
    /\ aop[a].op = "revoke"
    /\ krow' = Written(a, [krow[aop[a].k] EXCEPT !.on = FALSE])
    /\ aop' = [aop EXCEPT ![a] = NoOp]
    /\ UNCHANGED <<call, rate, cache, alog, clock, ops, calls, admitted, lives, served,
                   flushLost, late>>

\* Mutant: the key an administrator has just edited is active.
EditWriteOn(a, wide) ==
    /\ aop[a].op = "edit"
    /\ krow' = Written(a, [krow[aop[a].k] EXCEPT !.wide = wide, !.on = TRUE])
    /\ aop' = [aop EXCEPT ![a] = NoOp]
    /\ UNCHANGED <<call, rate, cache, alog, clock, ops, calls, admitted, lives, served,
                   flushLost, late>>

\* UPDATE ... SET name, scopes, allow-list, expiry and note, of an active key or
\* of a revoked one.
EditWrite(a, wide) ==
    /\ aop[a].op = "edit"
    /\ krow' = Written(a, [krow[aop[a].k] EXCEPT !.wide = wide])
    /\ aop' = [aop EXCEPT ![a] = NoOp]
    /\ UNCHANGED <<call, rate, cache, alog, clock, ops, calls, admitted, lives, served,
                   flushLost, late>>

InFlight(k) == \E c \in Callers : call[c] # NoCall /\ call[c].k = k

\* Rows of keys go, and with them the windows and cache entries of the process
\* that serves the request.
Forget(ks, p) ==
    /\ krow' = [k \in Keys |-> IF k \in ks THEN Gone ELSE krow[k]]
    /\ late' = [k \in Keys |-> IF k \in ks THEN InFlight(k) ELSE late[k]]
    /\ cache' = [cache EXCEPT ![p] = [k \in Keys |-> IF k \in ks THEN 0 ELSE @[k]]]
    /\ rate' = [rate EXCEPT ![p] =
                  [k \in Keys |-> IF k \in ks THEN [min |-> 0, n |-> 0] ELSE @[k]]]
    /\ UNCHANGED <<call, aop, clock, calls, admitted, lives, served, flushLost>>

\* admin_api_key_delete: the row and its logs.
admin_api_key_delete(k, p) ==
    Ask /\ Row(k) /\ Forget({k}, p) /\ alog' = [alog EXCEPT ![k] = FALSE]

\* clear_all_api_data
clear_all_api_data(p) ==
    /\ Ask /\ \E k \in Keys : Row(k)
    /\ Forget({k \in Keys : Row(k)}, p)
    /\ alog' = [k \in Keys |-> FALSE]

\* admin_api_logs_clear, clear_api_logs and the daily prune: rows of the log go.
ClearLogs(k) ==
    /\ Ask /\ alog[k]
    /\ alog' = [alog EXCEPT ![k] = FALSE]
    /\ UNCHANGED <<krow, call, rate, cache, aop, clock, calls, admitted, lives, served,
                   flushLost, late>>

\* gunicorn replaces a process after --max-requests: its memory is lost.
Recycle(p) ==
    /\ \A c \in Callers : call[c] # NoCall => call[c].p # p
    /\ \E k \in Keys : rate[p][k].n > 0
    /\ lives < Cardinality(Procs) + 1
    /\ rate' = [rate EXCEPT ![p] = [k \in Keys |-> [min |-> 0, n |-> 0]]]
    /\ cache' = [cache EXCEPT ![p] = [k \in Keys |-> 0]]
    /\ lives' = lives + 1
    /\ UNCHANGED <<krow, call, alog, aop, clock, ops, calls, admitted, served, flushLost, late>>

\* A call takes less than half a minute: none is older than the last tick.
KeysTick ==
    /\ clock < MaxClock
    /\ \A c \in Callers : call[c] # NoCall => call[c].t = clock
    /\ clock' = clock + 1
    /\ LET over == (clock + 1) \div 2 # Minute
       IN  /\ admitted' = IF over THEN [k \in Keys |-> 0] ELSE admitted
           /\ lives' = IF over THEN Cardinality(Procs) ELSE lives
    /\ UNCHANGED <<krow, call, rate, cache, alog, aop, ops, calls, served, flushLost, late>>

KeysNext ==
    \/ \E c \in Callers :
        \/ \E p \in Procs, k \in Keys, plain \in BOOLEAN : Authenticate(c, p, k, plain)
        \/ RateAllowed(c) \/ FlushCheck(c) \/ FlushWrite(c) \/ FlushFails(c)
        \/ \E stored \in BOOLEAN : Answer(c, stored)
    \/ \E k \in Keys : \/ \E wide \in BOOLEAN : admin_api_key_create(k, wide)
                       \/ ClearLogs(k)
    \/ \E a \in ApiAdmins :
        \/ \E k \in Keys : \/ \E op \in {"rotate", "edit", "revoke"} : AdminRead(a, op, k)
                           \/ RotateWrite(a, k)
        \/ RevokeWrite(a)
        \/ \E wide \in BOOLEAN : EditWrite(a, wide)
    \/ \E p \in Procs : \/ clear_all_api_data(p) \/ Recycle(p)
                        \/ \E k \in Keys : admin_api_key_delete(k, p)
    \/ KeysTick

KeysSpec == KeysInit /\ [][KeysNext]_apiVars

(***************************************************************************)
(* Properties                                                              *)
(***************************************************************************)
\* admin_api_key_rotate: a key that has been replaced is never active (again),
\* whatever other administrators read before and write after the rotation.
SupersededIsRevoked ==
    \A j \in Keys : Row(j) /\ krow[j].from # NoKey =>
        LET k == krow[j].from IN Row(k) => ~krow[k].on

\* _api_rate_allowed: within one minute a key is let through at most RateLimit
\* times by each process that lived in it.  (A key under deletion may be let
\* through once more for a call that had read it before.)
RateHolds == \A k \in Keys : Row(k) => admitted[k] <= RateLimit * lives

\* admin_api_key_delete: a deleted key leaves no row of its request log, except
\* those of calls that were in flight when it went.
DeletedLeavesNoLog == \A k \in Keys : krow[k] = Gone /\ alog[k] => late[k]

\* _api_flush_last_used: an active key that answered a call shows a use at most
\* one flush window old, although most calls write nothing, unless that write
\* is still under way or one has failed.
LastUsedRecent ==
    \A k \in Keys : Row(k) /\ krow[k].on /\ served[k] > 0 /\ ~flushLost =>
        \/ served[k] - krow[k].used <= FlushWindow
        \/ \E c \in Callers : call[c].at = "write" /\ call[c].k = k
=============================================================================
