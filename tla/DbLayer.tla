------------------------------- MODULE DbLayer -------------------------------
(***************************************************************************)
(* The connection layer of src/app/bw_pg.py: a pool of PostgreSQL          *)
(* connections and the wrappers that handlers and background threads get   *)
(* from connect().  A thread executes statements through a wrapper, which  *)
(* may fail, commits or rolls back, and closes the wrapper in a finally    *)
(* block; some close it twice.  database_stats holds one wrapper while     *)
(* wal_size asks for another.                                              *)
(*                                                                         *)
(* A statement writes one or more rows; rows are <<thread, unit, number>>, *)
(* a unit being what a thread executes between two transaction ends.       *)
(***************************************************************************)
EXTENDS Naturals, FiniteSets, Sequences, SequencesExt

CONSTANTS
    Threads,        \* the threads that use the database
    PoolMax,        \* BW_DB_POOL_MAX
    MaxUnits,       \* bound: units per thread
    MaxRows,        \* bound: rows per unit
    MaxBroken       \* bound: connections the server ends

ASSUME DbConstants ==
    /\ PoolMax \in Nat \ {0}
    /\ {MaxUnits, MaxRows, MaxBroken} \subseteq Nat

VARIABLES
    raws,       \* the pool's connections: state of the session and rows not committed
    free,       \* those that are in the pool, the others have been handed out
    wraps,      \* thread -> its wrappers, the nested one last
    unit,       \* thread -> its unit: number, rows executed, whether a statement raised
    stored,     \* the rows the database holds
    ended,      \* history: the units that ended: how, their rows and whether one raised
    broken      \* counted against MaxBroken

dbVars == <<raws, free, wraps, unit, stored, ended, broken>>

Raws == 1 .. PoolMax

\* _configure_connection: a new connection's settings are committed, so that it is idle.
Fresh == [tx |-> "idle", pending |-> {}]

DbInit ==
    /\ raws = [r \in Raws |-> Fresh]
    /\ free = Raws
    /\ wraps = [t \in Threads |-> <<>>]
    /\ unit = [t \in Threads |-> [number |-> 0, rows |-> {}, raised |-> FALSE]]
    /\ stored = {}
    /\ ended = {}
    /\ broken = 0

\* The thread works through its last wrapper.
Uses(t) == wraps[t] # <<>> /\ ~Last(wraps[t]).closed
RawOf(t) == Last(wraps[t]).raw
NextUnit(t) ==
    LET number == IF unit[t].rows = {} THEN unit[t].number ELSE unit[t].number + 1
    IN  [unit EXCEPT ![t] = [number |-> number, rows |-> {}, raised |-> FALSE]]
Ended(t, how) ==
    IF unit[t].rows = {} THEN ended
    ELSE ended \cup {[how |-> how, rows |-> unit[t].rows, raised |-> unit[t].raised]}

\* connect: the pool hands out a free connection in a wrapper of its own.  A thread that
\* has a wrapper open asks for a second one only as database_stats does, between units.
connect(t) ==
    /\ \/ \A k \in DOMAIN wraps[t] : wraps[t][k].closed
       \/ Uses(t) /\ Len(wraps[t]) = 1 /\ unit[t].rows = {} /\ raws[RawOf(t)].tx = "open"
    /\ unit[t].number < MaxUnits
    /\ \E r \in free :
          /\ free' = free \ {r}
          /\ wraps' = [wraps EXCEPT ![t] =
                (IF Uses(t) THEN @ ELSE <<>>) \o <<[raw |-> r, closed |-> FALSE]>>]
    /\ UNCHANGED <<raws, unit, stored, ended, broken>>

\* execute of a SELECT: the driver opens a transaction; a BEGIN would change nothing.
Select(t) ==
    /\ Uses(t) /\ raws[RawOf(t)].tx = "idle" /\ unit[t].number < MaxUnits
    /\ raws' = [raws EXCEPT ![RawOf(t)].tx = "open"]
    /\ UNCHANGED <<free, wraps, unit, stored, ended, broken>>

\* execute, executemany and copy_rows write their rows in the thread's transaction.
Write(t, n) ==
    /\ Uses(t) /\ raws[RawOf(t)].tx \in {"idle", "open"} /\ unit[t].number < MaxUnits
    /\ Cardinality(unit[t].rows) + n <= MaxRows
    /\ LET new == {<<t, unit[t].number, Cardinality(unit[t].rows) + k>> : k \in 1 .. n}
       IN  /\ raws' = [raws EXCEPT ![RawOf(t)].tx = "open",
                                   ![RawOf(t)].pending = @ \cup new]
           /\ unit' = [unit EXCEPT ![t].rows = @ \cup new]
    /\ UNCHANGED <<free, wraps, stored, ended, broken>>

\* A statement raises: a constraint, a lock or statement timeout, a COPY row of the
\* wrong width.  The server fails the transaction, and every later statement raises.
StatementFails(t) ==
    /\ Uses(t) /\ unit[t].number < MaxUnits
    /\ raws' = [raws EXCEPT ![RawOf(t)].tx = IF @ = "broken" THEN @ ELSE "failed"]
    /\ unit' = [unit EXCEPT ![t].raised = TRUE]
    /\ UNCHANGED <<free, wraps, stored, ended, broken>>

\* commit.  The server turns the commit of a failed transaction into a rollback and
\* the driver raises nothing.
commit(t) ==
    /\ Uses(t) /\ raws[RawOf(t)].tx # "broken"
    /\ stored' = IF raws[RawOf(t)].tx = "open" THEN stored \cup raws[RawOf(t)].pending
                 ELSE stored
    /\ raws' = [raws EXCEPT ![RawOf(t)] = Fresh]
    /\ ended' = Ended(t, "committed")
    /\ unit' = NextUnit(t)
    /\ UNCHANGED <<free, wraps, broken>>

\* rollback, which raises when the connection is gone.
rollback(t) ==
    /\ Uses(t)
    /\ raws' = IF raws[RawOf(t)].tx = "broken" THEN raws
               ELSE [raws EXCEPT ![RawOf(t)] = Fresh]
    /\ ended' = Ended(t, "rolled back")
    /\ unit' = NextUnit(t)
    /\ UNCHANGED <<free, wraps, stored, broken>>

\* The server ends a connection that has been handed out (an idle transaction, a
\* restart): what was not committed is gone.
Breaks(r) ==
    /\ broken < MaxBroken /\ r \notin free /\ raws[r].tx # "broken"
    /\ raws' = [raws EXCEPT ![r] = [tx |-> "broken", pending |-> {}]]
    /\ broken' = broken + 1
    /\ UNCHANGED <<free, wraps, unit, stored, ended>>

\* It ends in the middle of a commit: the thread sees an error whichever way it went.
CommitBreaks(t) ==
    /\ broken < MaxBroken /\ Uses(t) /\ raws[RawOf(t)].tx = "open" /\ unit[t].rows # {}
    /\ stored' \in {stored, stored \cup raws[RawOf(t)].pending}
    /\ raws' = [raws EXCEPT ![RawOf(t)] = [tx |-> "broken", pending |-> {}]]
    /\ ended' = Ended(t, "unknown")
    /\ unit' = [NextUnit(t) EXCEPT ![t].raised = TRUE]
    /\ broken' = broken + 1
    /\ UNCHANGED <<free, wraps>>

\* close: a wrapper closes once; a transaction is rolled back, an error of that is
\* ignored, and the connection goes back.  The pool replaces one that is gone.
Returned(r) == IF raws[r].tx \in {"open", "failed", "broken"} THEN Fresh ELSE raws[r]

\* A bug: every close returns the connection.
closeAgain(t, k) ==
    /\ k \in DOMAIN wraps[t]
    /\ raws' = [raws EXCEPT ![wraps[t][k].raw] = Returned(wraps[t][k].raw)]
    /\ free' = free \cup {wraps[t][k].raw}
    /\ wraps' = [wraps EXCEPT ![t][k].closed = TRUE]
    /\ ended' = Ended(t, "closed")
    /\ unit' = NextUnit(t)
    /\ UNCHANGED <<stored, broken>>

close(t, k) ==
    /\ k \in DOMAIN wraps[t]
    /\ IF wraps[t][k].closed
       THEN UNCHANGED <<raws, free, wraps, ended, unit>>
       ELSE /\ raws' = [raws EXCEPT ![wraps[t][k].raw] = Returned(wraps[t][k].raw)]
            /\ free' = free \cup {wraps[t][k].raw}
            /\ wraps' = [wraps EXCEPT ![t][k].closed = TRUE]
            /\ ended' = Ended(t, "closed")
            /\ unit' = NextUnit(t)
    /\ UNCHANGED <<stored, broken>>

\* getconn gives up after the pool's timeout: PoolTimeout leaves wal_size before its
\* try block, and database_stats through its finally block.
StatsTimesOut(t) ==
    /\ Uses(t) /\ Len(wraps[t]) = 1 /\ unit[t].rows = {} /\ raws[RawOf(t)].tx = "open"
    /\ free = {}
    /\ close(t, 1)

\* A nested function has returned: the thread goes on with the wrapper it had.
Returns(t) ==
    /\ Len(wraps[t]) = 2 /\ Last(wraps[t]).closed
    /\ wraps' = [wraps EXCEPT ![t] = Front(@)]
    /\ UNCHANGED <<raws, free, unit, stored, ended, broken>>

DbNext ==
    \/ \E t \in Threads :
          \/ connect(t) \/ StatsTimesOut(t) \/ Select(t) \/ StatementFails(t)
          \/ \E n \in 1 .. MaxRows : Write(t, n)
          \/ commit(t) \/ rollback(t) \/ CommitBreaks(t) \/ Returns(t)
          \* A thread closes its last wrapper, and perhaps again later.
          \/ close(t, Len(wraps[t]))
    \/ \E r \in Raws : Breaks(r)
-----------------------------------------------------------------------------
DbTypeOK ==
    /\ raws \in [Raws -> [tx : {"idle", "open", "failed", "broken"},
                          pending : SUBSET (Threads \X (0 .. MaxUnits) \X (1 .. MaxRows))]]
    /\ free \subseteq Raws
    /\ \A t \in Threads :
          /\ Len(wraps[t]) <= 2
          /\ \A k \in DOMAIN wraps[t] : wraps[t][k] \in [raw : Raws, closed : BOOLEAN]
          /\ unit[t].number \in 0 .. MaxUnits + 1 /\ unit[t].raised \in BOOLEAN
    /\ stored \subseteq Threads \X (0 .. MaxUnits) \X (1 .. MaxRows)
    /\ broken \in 0 .. MaxBroken

\* A connection in the pool carries nothing of the thread that had it.
PooledIsClean == \A r \in free : raws[r] = Fresh

\* An open wrapper is the only one of its connection, which is not in the pool: no two
\* threads speak over one connection, and every connection is in one of the two places.
OneHolder ==
    LET open == {w \in Threads \X {1, 2} :
                    w[2] \in DOMAIN wraps[w[1]] /\ ~wraps[w[1]][w[2]].closed}
        raw(w) == wraps[w[1]][w[2]].raw
    IN  /\ \A v, w \in open : raw(v) = raw(w) => v = w
        /\ Raws \ free = {raw(w) : w \in open}

\* A unit is stored as a whole or not at all; as a whole if it was committed and no
\* statement of it raised, not at all if it was rolled back or only closed, or if a
\* statement raised.
UnitsAreAtomic ==
    \A u \in ended :
        /\ u.rows \cap stored \in {{}, u.rows}
        /\ u.how = "committed" => (u.rows \subseteq stored <=> ~u.raised)
        /\ u.how \in {"rolled back", "closed"} => u.rows \cap stored = {}

DbHolds == PooledIsClean /\ OneHolder /\ UnitsAreAtomic
=============================================================================
