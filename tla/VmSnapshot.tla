------------------------------ MODULE VmSnapshot ------------------------------
(***************************************************************************)
(* The shared snapshot behind the VM Consumption page: a timer and the web *)
(* processes aggregate the consumption rollups into one generation per     *)
(* period and five-minute boundary; pages filter, count and read a ready   *)
(* generation in separate statements.  Builders of a period exclude each   *)
(* other by an advisory transaction lock, but the note that a build failed *)
(* is written in a second transaction that does not hold it.  Both tables  *)
(* are UNLOGGED: a crash of PostgreSQL empties them.                       *)
(***************************************************************************)
EXTENDS Integers, FiniteSets, FiniteSetsExt, Sequences

CONSTANTS
    SVms,        \* VMs with a location row
    SPeriods,    \* the periods in the order the timer builds them
    Span,        \* period -> its number of five-minute slots
    SWorkers,    \* web processes
    SlotTicks,   \* clock ticks per slot
    SettleTicks,      \* ticks a boundary is left to settle before it is built
    MaxStale,    \* slots a page may lag behind the boundary it asks for
    Generations,        \* ready generations kept per period
    PageTicks,   \* ticks after which a page request has been killed
    MaxTick, MaxShown, MaxBuildFaults, MaxBuilds   \* bounds on time, visibility
                                                \* changes, sfaults and builds

SPeriodSet == {SPeriods[i] : i \in DOMAIN SPeriods}

ASSUME SnapshotConstants ==
    /\ IsFiniteSet(SVms) /\ SPeriods \in Seq(SPeriodSet) /\ Span \in [SPeriodSet -> Nat]
    /\ {SlotTicks, MaxStale, Generations, PageTicks, MaxTick} \subseteq Nat
    /\ SettleTicks \in 1..(SlotTicks - 1)
    /\ Generations >= 2 /\ MaxStale >= 1
    /\ PageTicks <= (Generations - 1 - MaxStale) * SlotTicks + SettleTicks

VARIABLES
    stick,     \* the clock
    arrived,       \* VM -> slot -> "no", "ontime" or "late": what the rollups hold
    passes,    \* VM -> the checks it passes now: node and VM not hidden or deleted in
               \* the inventory, node in an active group
    batches,   \* period -> boundary -> status and row count of the generation
    srows,     \* period -> boundary -> VM -> the slots its row sums
    builds,    \* the running builds
    todo,      \* the periods the timer run still has to build
    view,      \* the page being served, or the rows of the last one
    toggles, sfaults, begun   \* counted against the bounds

snapVars == <<stick, arrived, passes, batches, srows, builds, todo, view, toggles, sfaults, begun>>

Checks == {"inventory", "group"}
SnapSlots == 1..(MaxTick \div SlotTicks)
Ends == 0..(MaxTick \div SlotTicks)
Absent == [st |-> "none", count |-> 0]
NoSnapRows == [v \in {} |-> {}]
NoView == [pc |-> "idle", rows |-> {}]
Timer == "timer"

\* A boundary, and the last boundary old enough to be settled.  Mutant: not
\* settled.
NormalizedEnd(t) == t \div SlotTicks
StableEndUnsettled == NormalizedEnd(stick)
StableEnd == IF stick < SettleTicks THEN 0 ELSE NormalizedEnd(stick - SettleTicks)

SnapInit ==
    /\ stick = 0
    /\ arrived = [v \in SVms |-> [s \in SnapSlots |-> "no"]]
    /\ passes = [v \in SVms |-> Checks]
    /\ batches = [p \in SPeriodSet |-> [e \in Ends |-> Absent]]
    /\ srows = [p \in SPeriodSet |-> [e \in Ends |-> NoSnapRows]]
    /\ builds = {} /\ todo = <<>> /\ view = NoView
    /\ toggles = 0 /\ sfaults = 0 /\ begun = 0

Ready(p, e) == batches[p][e].st = "ready"
Holds(b) == b.pc \in {"building", "built"}
Locked(p) == \E b \in builds : b.p = p /\ Holds(b)
To(b, pc, rows) == (builds \ {b}) \cup {[b EXCEPT !.pc = pc, !.rows = rows]}

-----------------------------------------------------------------------------
(* The world around the snapshot. *)

SnapTick ==
    /\ stick < MaxTick
    /\ view.pc # "idle" => stick - view.began < PageTicks
    /\ stick' = stick + 1
    /\ UNCHANGED <<arrived, passes, batches, srows, builds, todo, view, toggles, sfaults, begun>>

\* A push for a slot that has ended reaches the rollups, in time or late.
SnapPush(v, s) ==
    /\ arrived[v][s] = "no" /\ s * SlotTicks <= stick
    /\ arrived' = [arrived EXCEPT ![v][s] =
                 IF stick < s * SlotTicks + SettleTicks THEN "ontime" ELSE "late"]
    /\ UNCHANGED <<stick, passes, batches, srows, builds, todo, view, toggles, sfaults, begun>>

\* An administrator hides or shows the VM or its node, or moves the node between
\* an active and an inactive group.
SnapToggle(v, c) ==
    /\ toggles < MaxShown
    /\ passes' = [passes EXCEPT ![v] = IF c \in @ THEN @ \ {c} ELSE @ \cup {c}]
    /\ toggles' = toggles + 1
    /\ UNCHANGED <<stick, arrived, batches, srows, builds, todo, view, sfaults, begun>>

\* PostgreSQL dies: every connection and transaction with it, and on restart
\* it truncates the two tables.
SnapCrash ==
    /\ sfaults < MaxBuildFaults
    /\ batches' = [p \in SPeriodSet |-> [e \in Ends |-> Absent]]
    /\ srows' = [p \in SPeriodSet |-> [e \in Ends |-> NoSnapRows]]
    /\ builds' = {b \in builds : b.pc = "start"} /\ view' = NoView
    /\ sfaults' = sfaults + 1
    /\ UNCHANGED <<stick, arrived, passes, todo, toggles, begun>>

-----------------------------------------------------------------------------
(* Builds. *)

NewBuild(who, p, e) == [who |-> who, p |-> p, e |-> e, pc |-> "start", rows |-> NoSnapRows]

\* A web process runs at most one build of a period and boundary.
AsyncBuild(w, p, e) ==
    IF \E b \in builds : b.who = w /\ b.p = p /\ b.e = e
    THEN builds
    ELSE builds \cup {NewBuild(w, p, e)}

\* The timer's run takes the periods one after the other; a build that fails
\* does not stop the next.
TimerFires ==
    /\ todo = <<>> /\ \A b \in builds : b.who # Timer
    /\ todo' = SPeriods
    /\ UNCHANGED <<stick, arrived, passes, batches, srows, builds, view, toggles, sfaults, begun>>

TimerBuilds ==
    /\ todo # <<>> /\ \A b \in builds : b.who # Timer
    /\ builds' = builds \cup {NewBuild(Timer, Head(todo), StableEnd)}
    /\ todo' = Tail(todo)
    /\ UNCHANGED <<stick, arrived, passes, batches, srows, view, toggles, sfaults, begun>>

\* The build gives up when the period is locked or the generation is ready;
\* otherwise it opens the generation inside its transaction.
BuildBegins(b) ==
    /\ b.pc = "start" /\ begun < MaxBuilds
    /\ begun' = begun + 1
    /\ builds' = IF Locked(b.p) \/ Ready(b.p, b.e)
                 THEN builds \ {b}
                 ELSE To(b, "building", NoSnapRows)
    /\ UNCHANGED <<stick, arrived, passes, batches, srows, todo, view, toggles, sfaults>>

\* One statement sums the window's slots for every VM whose node and VM are
\* visible; the group is left to the pages.
VisibleVm == {v \in SVms : "inventory" \in passes[v]}
VmRows(p, e) ==
    [v \in VisibleVm |->
        {s \in SnapSlots : s > e - Span[p] /\ s <= e /\ arrived[v][s] # "no"}]

BuildReads(b) ==
    /\ b.pc = "building"
    /\ builds' = To(b, "built", VmRows(b.p, b.e))
    /\ UNCHANGED <<stick, arrived, passes, batches, srows, todo, view, toggles, sfaults, begun>>

\* The boundaries older than the oldest of the newest ready generations.
Oldest(ready, keep) ==
    {e \in ready : Cardinality({f \in ready : f > e}) = keep - 1}
CleanedBatches(ready) == {e \in Ends : \E c \in Oldest(ready, Generations) : e < c}
CleanedRows(ready) == CleanedBatches(ready)

BuildCommits(b) ==
    /\ b.pc = "built"
    /\ LET ready == {e \in Ends : Ready(b.p, e)} \cup {b.e} IN
         /\ srows' = [srows EXCEPT ![b.p] = [e \in Ends |->
                IF e \in CleanedRows(ready) THEN NoSnapRows
                ELSE IF e = b.e THEN b.rows ELSE @[e]]]
         /\ batches' = [batches EXCEPT ![b.p] = [e \in Ends |->
                IF e \in CleanedBatches(ready) THEN Absent
                ELSE IF e = b.e
                     THEN [st |-> "ready", count |-> Cardinality(DOMAIN b.rows)]
                     ELSE @[e]]]
    /\ builds' = builds \ {b}
    /\ UNCHANGED <<stick, arrived, passes, todo, view, toggles, sfaults, begun>>

\* A statement fails: the transaction and its lock are gone.
BuildFails(b) ==
    /\ Holds(b) /\ sfaults < MaxBuildFaults
    /\ builds' = To(b, "failed", NoSnapRows)
    /\ sfaults' = sfaults + 1
    /\ UNCHANGED <<stick, arrived, passes, batches, srows, todo, view, toggles, begun>>

\* The second transaction notes the failure, whatever the generation has become
\* in between; it waits for a transaction that has the generation's row open.
FailureNoted(b) ==
    /\ b.pc = "failed"
    /\ \A c \in builds : c.p = b.p /\ c.e = b.e => ~Holds(c)
    /\ batches' = [batches EXCEPT ![b.p][b.e].st = "failed"]
    /\ builds' = builds \ {b}
    /\ UNCHANGED <<stick, arrived, passes, srows, todo, view, toggles, sfaults, begun>>

-----------------------------------------------------------------------------
(* Pages. *)

\* The newest ready generation that is not too old.
Selectable(p, req) == {e \in Ends : Ready(p, e) /\ e <= req /\ e >= req - MaxStale}

\* The page selects a generation; without one it comes back empty, and with one
\* that is not the latest it starts the build of a newer one.
PageSelects(w, p) ==
    LET req == NormalizedEnd(stick)
        ends == Selectable(p, req)
        fresh == Min({req, StableEnd}) IN
    /\ view.pc = "idle"
    /\ view' = IF ends = {} THEN NoView
               ELSE [pc |-> "count", p |-> p, e |-> Max(ends), began |-> stick,
                     held |-> srows[p][Max(ends)]]
    /\ builds' = IF ends = {} \/ fresh > Max(ends) THEN AsyncBuild(w, p, fresh) ELSE builds
    /\ UNCHANGED <<stick, arrived, passes, batches, srows, todo, toggles, sfaults, begun>>

SnapshotWhere(p, e) == {v \in DOMAIN srows[p][e] : passes[v] = Checks}

\* The count only limits the page number.
PageCounts ==
    /\ view.pc = "count"
    /\ view' = [view EXCEPT !.pc = "fetch"]
    /\ UNCHANGED <<stick, arrived, passes, batches, srows, builds, todo, toggles, sfaults, begun>>

\* The page reads its rows with the same conditions and returns.
PageFetches ==
    /\ view.pc = "fetch"
    /\ view' = [pc |-> "idle", rows |-> SnapshotWhere(view.p, view.e)]
    /\ UNCHANGED <<stick, arrived, passes, batches, srows, builds, todo, toggles, sfaults, begun>>

SnapNext ==
    \/ SnapTick
    \/ \E v \in SVms, s \in SnapSlots : SnapPush(v, s)
    \/ \E v \in SVms, c \in Checks : SnapToggle(v, c)
    \/ SnapCrash
    \/ TimerFires \/ TimerBuilds
    \/ \E b \in builds :
         BuildBegins(b) \/ BuildReads(b) \/ BuildCommits(b) \/ BuildFails(b) \/ FailureNoted(b)
    \/ \E w \in SWorkers, p \in SPeriodSet : PageSelects(w, p)
    \/ PageCounts \/ PageFetches

-----------------------------------------------------------------------------
\* Every variable has the shape its table or thread has.
SnapTypeOK ==
    /\ stick \in 0..MaxTick
    /\ \A p \in SPeriodSet, e \in Ends :
         /\ batches[p][e].st \in {"none", "ready", "failed"}
         /\ DOMAIN srows[p][e] \subseteq SVms
    /\ \A b \in builds : b.who \in SWorkers \cup {Timer} /\ b.p \in SPeriodSet /\ b.e \in Ends
    /\ view.pc \in {"idle", "count", "fetch"}

\* A generation that is ready has as many rows as its row count says, through
\* failed builds, rebuilds, cleanups and crashes that truncate both tables.
ReadyIsWhole ==
    \A p \in SPeriodSet, e \in Ends :
        Ready(p, e) => batches[p][e].count = Cardinality(DOMAIN srows[p][e])

\* A ready generation sums every slot of its window whose push arrived within
\* the settle time, whoever built it and however late; and nothing of another
\* window.
ReadyIsSettled ==
    \A p \in SPeriodSet, e \in Ends : Ready(p, e) =>
        \A v \in DOMAIN srows[p][e], s \in SnapSlots :
            /\ s \in srows[p][e][v] => s \in (e - Span[p] + 1)..e /\ arrived[v][s] # "no"
            /\ s \in (e - Span[p] + 1)..e /\ arrived[v][s] = "ontime" => s \in srows[p][e][v]

\* The generation a page selected stays until its last statement: neither the
\* cleanup of a builder that commits in between nor another build takes it away,
\* and without faults its rows are the ones that were selected.
PageKeepsGeneration ==
    view.pc \in {"count", "fetch"} =>
        /\ batches[view.p][view.e] # Absent
        /\ sfaults = 0 => srows[view.p][view.e] = view.held
=============================================================================
