------------------------------- MODULE EndsProofs -------------------------------
(***************************************************************************)
(* Proofs about both ends of the system: an Agent and what delivers its    *)
(* traffic to the monitor, and what stands behind the pages a user opens,  *)
(* the snapshot behind the VM Consumption page, the cache of pages and the *)
(* pool of database connections; for any traffic, VMs, periods, processes, *)
(* users, threads, limits and numbers of faults.                           *)
(*                                                                         *)
(* What the properties say of a ready generation is not inductive: whether *)
(* a generation that is ready is whole and settled was decided when its    *)
(* builder read the rollups, at a boundary no push in time can reach any   *)
(* more, and while no other builder had the period; and that a page keeps  *)
(* the generation it selected is a matter of time: until it has been       *)
(* killed not enough newer boundaries settle for the cleanup to take it.   *)
(* Of the cache: under which generation, in which slot and for whom the    *)
(* page of every entry was rendered, and that no entry is of a generation  *)
(* that is still to come.  Of the pool: what the connection a thread works *)
(* on knows of its unit of work, and that what is stored is of a unit that *)
(* has ended.                                                              *)
(*                                                                         *)
(* ExactlyOnce is not inductive: it needs what the two files and the       *)
(* memory of the Agent know of each other at each of its steps (FileInv)   *)
(* and which requests can still arrive and what their receipts or the      *)
(* epoch do to them (NetInv).  The same two carry NoDoubleCount through    *)
(* the faults that lose traffic (RoomInv).                                 *)
(***************************************************************************)
EXTENDS MCEnds, FiniteSetTheorems, WellFoundedInduction, SequenceTheorems, TLAPS

(***************************************************************************)
(* The snapshot                                                            *)
(***************************************************************************)
RowSets == UNION {[vs -> SUBSET SnapSlots] : vs \in SUBSET SVms}
Builds == [who : SWorkers \cup {Timer}, p : SPeriodSet, e : Ends,
           pc : {"start", "building", "built", "failed"}, rows : RowSets]
Views == [pc : {"idle"}, rows : SUBSET SVms]
    \cup [pc : {"count", "fetch"}, p : SPeriodSet, e : Ends, began : Nat, held : RowSets]

SnapShapes ==
    /\ stick \in 0..MaxTick
    /\ arrived \in [SVms -> [SnapSlots -> {"no", "ontime", "late"}]]
    /\ passes \in [SVms -> SUBSET Checks]
    /\ batches \in [SPeriodSet -> [Ends -> [st : {"none", "ready", "failed"}, count : Nat]]]
    /\ srows \in [SPeriodSet -> [Ends -> RowSets]]
    /\ builds \subseteq Builds
    /\ todo \in Seq(SPeriodSet)
    /\ view \in Views
    /\ sfaults \in Nat

\* The boundary e has settled.
Settled(e) == e = 0 \/ e * SlotTicks + SettleTicks <= stick

\* Rows that sum what a generation of the boundary e must.
SumsWindow(rows, p, e) ==
    \A v \in DOMAIN rows, s \in SnapSlots :
        /\ s \in rows[v] => s \in (e - Span[p] + 1)..e /\ arrived[v][s] # "no"
        /\ s \in (e - Span[p] + 1)..e /\ arrived[v][s] = "ontime" => s \in rows[v]

\* Builds work on settled boundaries, one at a time for each period, on a generation
\* that is not ready.
BuildInv ==
    /\ \A b \in builds :
        /\ Settled(b.e)
        /\ b.pc = "built" => SumsWindow(b.rows, b.p, b.e)
        /\ Holds(b) => ~Ready(b.p, b.e)
        /\ b.pc = "failed" => sfaults # 0
    /\ \A b, c \in builds : Holds(b) /\ Holds(c) /\ b.p = c.p => b = c

ReadyInv ==
    \A p \in SPeriodSet, e \in Ends : Ready(p, e) =>
        /\ Settled(e)
        /\ batches[p][e].count = Cardinality(DOMAIN srows[p][e])
        /\ SumsWindow(srows[p][e], p, e)

\* A page has not run for longer than it may, and its generation was not too old.
ViewInv ==
    view.pc \in {"count", "fetch"} =>
        /\ view.began <= stick /\ stick - view.began <= PageTicks
        /\ view.began \div SlotTicks <= view.e + MaxStale
        /\ batches[view.p][view.e].st # "none"
        /\ sfaults = 0 => Ready(view.p, view.e) /\ srows[view.p][view.e] = view.held

SnapInv == SnapShapes /\ BuildInv /\ ReadyInv /\ ViewInv

LEMMA TickNumbers ==
    /\ SlotTicks \in Nat \ {0} /\ SettleTicks \in Nat \ {0} /\ SettleTicks < SlotTicks
    /\ MaxStale \in Nat /\ Generations \in Nat /\ PageTicks \in Nat /\ MaxTick \in Nat
  BY SnapshotConstants

LEMMA DivOf == ASSUME NEW n \in Nat, NEW k \in Nat \ {0}
               PROVE  n \div k \in Nat /\ (n \div k) * k <= n
  OBVIOUS
LEMMA DivAtLeast == ASSUME NEW n \in Nat, NEW k \in Nat \ {0}, NEW q \in Int, q * k <= n
                    PROVE  q <= n \div k
  OBVIOUS
LEMMA DivMono == ASSUME NEW m \in Nat, NEW n \in Nat, NEW k \in Nat \ {0}, m <= n
                 PROVE  m \div k <= n \div k
  OBVIOUS
LEMMA TimesMono == ASSUME NEW a \in Int, NEW b \in Int, NEW k \in Nat, a <= b
                   PROVE  a * k <= b * k
  OBVIOUS
LEMMA TimesMinus == ASSUME NEW a \in Int, NEW b \in Int, NEW k \in Nat
                    PROVE  (a - b) * k = a * k - b * k
  OBVIOUS

\* The boundaries, and that the stable one has settled.
LEMMA EndsAre == Ends \subseteq Nat /\ SnapSlots \subseteq Nat \ {0}
                 /\ \A s \in SnapSlots : s \in Ends
  BY TickNumbers DEF Ends, SnapSlots

LEMMA StableEndSettled ==
    ASSUME SnapShapes
    PROVE  /\ StableEnd \in Ends /\ Settled(StableEnd)
           /\ NormalizedEnd(stick) \in Ends /\ StableEnd <= NormalizedEnd(stick)
<1> DEFINE n == stick - SettleTicks
<1>1. stick \in Nat /\ stick <= MaxTick
  BY TickNumbers DEF SnapShapes
<1>2. NormalizedEnd(stick) \in Ends
  BY <1>1, TickNumbers, DivOf, DivMono DEF NormalizedEnd, Ends
<1>3. CASE stick < SettleTicks
  BY <1>1, <1>2, <1>3, TickNumbers DEF StableEnd, Settled, Ends
<1>4. CASE ~(stick < SettleTicks)
  <2>1. n \in Nat /\ n <= stick /\ StableEnd = n \div SlotTicks
    BY <1>1, <1>4, TickNumbers DEF StableEnd, NormalizedEnd
  <2>2. StableEnd \in Nat /\ StableEnd * SlotTicks <= n /\ StableEnd <= NormalizedEnd(stick)
    BY <2>1, <1>1, TickNumbers, DivOf, DivMono DEF NormalizedEnd
  <2>3. StableEnd \in Ends
    BY <2>2, <1>2, TickNumbers, DivOf DEF Ends
  <2>4. StableEnd * SlotTicks + SettleTicks <= stick
    BY <2>2, <1>1, TickNumbers
  <2> QED
    BY <2>2, <2>3, <2>4, <1>2 DEF Settled
<1> QED
  BY <1>3, <1>4

LEMMA SmallerOf == ASSUME NEW a \in Int, NEW b \in Int, b <= a PROVE Min({a, b}) = b
  BY DEF Min

LEMMA MaxIs ==
    ASSUME NEW n \in Nat, NEW S \in SUBSET (0..n), S # {}
    PROVE  Max(S) \in S /\ \A x \in S : x <= Max(S)
<1> DEFINE R == OpToRel(<, Nat)
           T == {n - x : x \in S}
<1>1. IsWellFoundedOn(R, Nat)
  BY NatLessThanWellFounded
<1>2. \A x, y \in Nat : x < y => <<x, y>> \in R
  BY DEF OpToRel
<1> HIDE DEF R
<1>3. T \subseteq Nat /\ T # {}
  <2>1. \A x \in S : n - x \in Nat
    OBVIOUS
  <2> QED
    BY <2>1
<1> HIDE DEF T
<1>4. PICK d \in T : \A y \in T : ~(<<y, d>> \in R)
  BY <1>1, <1>3, WFMin
<1> USE DEF T
<1>5. PICK m \in S : d = n - m
  BY <1>4
<1>6. \A x \in S : x <= m
  <2> SUFFICES ASSUME NEW x \in S, ~(x <= m) PROVE FALSE
    OBVIOUS
  <2>1. n - x \in T
    BY Zenon
  <2>2. x \in 0..n /\ m \in 0..n
    OBVIOUS
  <2> HIDE DEF T
  <2>3. n - x \in Nat /\ n - m \in Nat /\ n - x < n - m
    BY <2>2
  <2> QED
    BY <1>2, <1>4, <1>5, <2>1, <2>3
<1> QED
  BY <1>6 DEF Max

\* What was settled stays so.
LEMMA SettledStays ==
    ASSUME SnapShapes, NEW e \in Ends, Settled(e), stick' \in Nat, stick <= stick'
    PROVE  Settled(e)'
  BY TickNumbers, EndsAre DEF Settled, SnapShapes

LEMMA RowsFinite ==
    ASSUME NEW rows \in RowSets
    PROVE  Cardinality(DOMAIN rows) \in Nat /\ DOMAIN rows \subseteq SVms
<1>1. DOMAIN rows \subseteq SVms
  BY DEF RowSets
<1> QED
  BY <1>1, FS_Subset, FS_CardinalityType, SnapshotConstants

LEMMA NoSnapRowsIs == NoSnapRows \in RowSets /\ DOMAIN NoSnapRows = {}
<1>1. NoSnapRows \in [{} -> SUBSET SnapSlots] /\ {} \in SUBSET SVms
  BY DEF NoSnapRows
<1> QED
  BY <1>1 DEF NoSnapRows, RowSets

LEMMA SnapInitially == ASSUME SnapInit PROVE SnapInv
<1>1. SnapShapes
  <2>1. 0 \in 0..MaxTick
    BY TickNumbers
  <2>2. arrived \in [SVms -> [SnapSlots -> {"no", "ontime", "late"}]]
        /\ passes \in [SVms -> SUBSET Checks]
    BY DEF SnapInit
  <2>3. Absent \in [st : {"none", "ready", "failed"}, count : Nat]
    BY DEF Absent
  <2>4. batches \in [SPeriodSet -> [Ends -> [st : {"none", "ready", "failed"}, count : Nat]]]
        /\ srows \in [SPeriodSet -> [Ends -> RowSets]]
    BY <2>3, NoSnapRowsIs DEF SnapInit
  <2>5. view \in Views /\ todo \in Seq(SPeriodSet)
    BY DEF SnapInit, NoView, Views
  <2> QED
    BY <2>1, <2>2, <2>4, <2>5 DEF SnapInit, SnapShapes
<1>2. BuildInv /\ ViewInv /\ ReadyInv
  BY DEF SnapInit, BuildInv, ViewInv, ReadyInv, NoView, Ready, Absent
<1> QED
  BY <1>1, <1>2 DEF SnapInv

LEMMA TickKeeps == ASSUME SnapInv, SnapTick PROVE SnapInv'
<1>1. stick \in Nat /\ stick' = stick + 1 /\ stick' \in 0..MaxTick /\ stick <= stick'
  BY TickNumbers DEF SnapInv, SnapShapes, SnapTick
<1>2. \A e \in Ends : Settled(e) => Settled(e)'
  BY <1>1, SettledStays DEF SnapInv
<1>3. SnapShapes'
  BY <1>1 DEF SnapInv, SnapShapes, SnapTick, Builds, Views
<1>4. BuildInv'
  <2>1. \A b \in builds : b.e \in Ends
    BY DEF SnapInv, SnapShapes, Builds
  <2>2. builds' = builds /\ arrived' = arrived /\ batches' = batches /\ sfaults' = sfaults
    BY DEF SnapTick
  <2> QED
    BY <1>2, <2>1, <2>2 DEF SnapInv, BuildInv, SumsWindow, Ready, Holds
<1>5. ReadyInv'
  <2>1. srows' = srows /\ arrived' = arrived /\ batches' = batches
    BY DEF SnapTick
  <2> QED
    BY <1>2, <2>1 DEF SnapInv, ReadyInv, SumsWindow, Ready
<1>6. ViewInv'
  <2>1. view' = view /\ srows' = srows /\ sfaults' = sfaults /\ batches' = batches
    BY DEF SnapTick
  <2> SUFFICES ASSUME view.pc \in {"count", "fetch"} PROVE ViewInv'
    BY <2>1 DEF ViewInv
  <2>2. view.began \in Nat /\ view.began <= stick
    BY DEF SnapInv, ViewInv, SnapShapes, Views
  <2>3. stick' - view.began <= PageTicks /\ view.began <= stick'
    BY <1>1, <2>2, TickNumbers DEF SnapTick
  <2> QED
    BY <2>1, <2>3 DEF SnapInv, ViewInv, Ready
<1> QED
  BY <1>3, <1>4, <1>5, <1>6 DEF SnapInv

\* A push that reaches the rollups in time is one of a slot whose boundary has
\* not settled.
LEMMA PushKeeps == ASSUME SnapInv, NEW v \in SVms, NEW s \in SnapSlots, SnapPush(v, s) PROVE SnapInv'
<1>1. /\ arrived' \in [SVms -> [SnapSlots -> {"no", "ontime", "late"}]]
      /\ \A w \in SVms, t \in SnapSlots : <<w, t>> # <<v, s>> => arrived'[w][t] = arrived[w][t]
      /\ arrived'[v][s] # "no"
      /\ arrived'[v][s] = "ontime" => stick < s * SlotTicks + SettleTicks
  BY DEF SnapInv, SnapShapes, SnapPush
<1>2. /\ UNCHANGED <<stick, passes, batches, srows, builds, todo, view, sfaults>>
      /\ stick \in Nat
  BY DEF SnapInv, SnapShapes, SnapPush
<1>3. SnapShapes'
  BY <1>1, <1>2 DEF SnapInv, SnapShapes, Builds, Views
<1>4. ASSUME NEW rows \in RowSets, NEW p \in SPeriodSet, NEW e \in Ends, Settled(e),
             SumsWindow(rows, p, e)
      PROVE  SumsWindow(rows, p, e)'
  <2>1. DOMAIN rows \subseteq SVms
    BY RowsFinite
  <2>2. Span[p] \in Nat /\ e \in Nat
    BY SnapshotConstants, EndsAre
  <2>3. s \in (e - Span[p] + 1)..e => arrived'[v][s] # "ontime"
    <3> SUFFICES ASSUME s \in (e - Span[p] + 1)..e, arrived'[v][s] = "ontime" PROVE FALSE
      OBVIOUS
    <3>1. s \in Nat \ {0} /\ s <= e /\ e # 0
      BY <2>2, EndsAre
    <3>2. s * SlotTicks <= e * SlotTicks
      BY <2>2, <3>1, TimesMono, TickNumbers
    <3>3. s * SlotTicks \in Nat /\ e * SlotTicks \in Nat
      BY <2>2, <3>1, TickNumbers
    <3>4. e * SlotTicks + SettleTicks <= stick /\ stick < s * SlotTicks + SettleTicks
      BY <1>1, <1>4, <3>1 DEF Settled
    <3> QED
      BY <3>2, <3>3, <3>4, <1>2, TickNumbers
  <2> SUFFICES ASSUME NEW w \in DOMAIN rows, NEW t \in SnapSlots
               PROVE  /\ t \in rows[w] => t \in (e - Span[p] + 1)..e /\ arrived'[w][t] # "no"
                      /\ t \in (e - Span[p] + 1)..e /\ arrived'[w][t] = "ontime" => t \in rows[w]
    BY DEF SumsWindow
  <2>4. CASE <<w, t>> = <<v, s>>
    BY <2>3, <2>4, <1>1, <1>4 DEF SumsWindow
  <2>5. CASE <<w, t>> # <<v, s>>
    <3>1. arrived'[w][t] = arrived[w][t]
      BY <2>1, <2>5, <1>1
    <3> QED
      BY <3>1, <1>4 DEF SumsWindow
  <2> QED
    BY <2>4, <2>5
<1>5. BuildInv'
  <2>1. \A b \in builds : b.rows \in RowSets /\ b.p \in SPeriodSet /\ b.e \in Ends
    BY DEF SnapInv, SnapShapes, Builds
  <2>2. \A b \in builds : b.pc = "built" => SumsWindow(b.rows, b.p, b.e)'
    BY <2>1, <1>4 DEF SnapInv, BuildInv
  <2>3. /\ \A b \in builds : Settled(b.e)' /\ (Holds(b) => ~Ready(b.p, b.e)')
                             /\ (b.pc = "failed" => sfaults' # 0)
        /\ \A b, c \in builds : Holds(b) /\ Holds(c) /\ b.p = c.p => b = c
    BY <1>2 DEF SnapInv, BuildInv, Settled, Ready
  <2> QED
    BY <1>2, <2>2, <2>3 DEF BuildInv, Holds
<1>6. ReadyInv'
  <2>1. \A p \in SPeriodSet, e \in Ends : srows[p][e] \in RowSets
    BY DEF SnapInv, SnapShapes
  <2>2. \A p \in SPeriodSet, e \in Ends : Ready(p, e) => SumsWindow(srows[p][e], p, e)'
    BY <2>1, <1>2, <1>4 DEF SnapInv, ReadyInv, SumsWindow
  <2> QED
    BY <1>2, <2>2 DEF SnapInv, ReadyInv, Ready, Settled, SumsWindow
<1>7. ViewInv'
  BY <1>2 DEF SnapInv, ViewInv, Ready
<1> QED
  BY <1>3, <1>5, <1>6, <1>7 DEF SnapInv

\* Steps that neither advance the clock, nor push, nor write a generation.
LEMMA RestKeeps ==
    ASSUME SnapInv, SnapShapes', BuildInv', UNCHANGED <<stick, arrived, batches, srows, sfaults>>,
           view' = view \/ view'.pc = "idle" \/ ViewInv'
    PROVE  SnapInv'
<1>1. ReadyInv'
  BY DEF SnapInv, ReadyInv, Ready, Settled, SumsWindow
<1>2. ViewInv'
  BY DEF SnapInv, ViewInv, Ready
<1> QED
  BY <1>1, <1>2 DEF SnapInv

LEMMA ToggleKeeps == ASSUME SnapInv, NEW v \in SVms, NEW c \in Checks, SnapToggle(v, c) PROVE SnapInv'
<1>1. SnapShapes'
  <2>1. passes' \in [SVms -> SUBSET Checks]
    BY DEF SnapInv, SnapShapes, SnapToggle
  <2> QED
    BY <2>1 DEF SnapInv, SnapShapes, SnapToggle, Builds, Views
<1>2. BuildInv'
  BY DEF SnapInv, BuildInv, SnapToggle, Settled, SumsWindow, Ready, Holds
<1> QED
  BY <1>1, <1>2, RestKeeps DEF SnapToggle

LEMMA CrashKeeps == ASSUME SnapInv, SnapCrash PROVE SnapInv'
<1>1. \A p \in SPeriodSet, e \in Ends : batches'[p][e] = Absent /\ ~Ready(p, e)'
  BY DEF SnapCrash, Ready, Absent
<1>2. SnapShapes'
  <2>1. Absent \in [st : {"none", "ready", "failed"}, count : Nat]
    BY DEF Absent
  <2>2. /\ batches' \in [SPeriodSet -> [Ends -> [st : {"none", "ready", "failed"}, count : Nat]]]
        /\ srows' \in [SPeriodSet -> [Ends -> RowSets]]
    BY <2>1, NoSnapRowsIs DEF SnapCrash
  <2>3. builds' \subseteq Builds /\ view' \in Views /\ sfaults' \in Nat
    BY DEF SnapInv, SnapShapes, SnapCrash, NoView, Views, Builds
  <2> QED
    BY <2>2, <2>3 DEF SnapInv, SnapShapes, SnapCrash
<1>3. BuildInv'
  <2>1. \A b \in builds' : b \in builds /\ b.pc = "start"
    BY DEF SnapCrash
  <2> QED
    BY <2>1 DEF SnapInv, BuildInv, SnapCrash, Settled, Holds
<1>4. ReadyInv' /\ ViewInv'
  BY <1>1 DEF ReadyInv, ViewInv, SnapCrash, NoView
<1> QED
  BY <1>2, <1>3, <1>4 DEF SnapInv

\* A build that starts has a settled boundary.
LEMMA NewBuildKeeps ==
    ASSUME SnapInv, NEW w \in SWorkers \cup {Timer}, NEW p \in SPeriodSet,
           UNCHANGED <<stick, arrived, passes, batches, srows, sfaults>>,
           todo' \in Seq(SPeriodSet), view' \in Views,
           view' = view \/ view'.pc = "idle" \/ ViewInv',
           builds' \in {builds, builds \cup {NewBuild(w, p, StableEnd)}}
    PROVE  SnapInv'
<1>1. StableEnd \in Ends /\ Settled(StableEnd)
  BY StableEndSettled DEF SnapInv
<1> DEFINE new == NewBuild(w, p, StableEnd)
<1>2. new \in Builds /\ new.pc = "start" /\ new.e = StableEnd
  BY <1>1, NoSnapRowsIs DEF NewBuild, Builds
<1> HIDE DEF new
<1>3. builds' \subseteq builds \cup {new}
  BY DEF new
<1>4. SnapShapes'
  BY <1>2, <1>3 DEF SnapInv, SnapShapes, Builds, Views
<1>5. BuildInv'
  BY <1>1, <1>2, <1>3 DEF SnapInv, BuildInv, Settled, SumsWindow, Ready, Holds
<1> QED
  BY <1>4, <1>5, RestKeeps

LEMMA TimerKeeps == ASSUME SnapInv, TimerFires \/ TimerBuilds PROVE SnapInv'
<1>1. view \in Views /\ todo \in Seq(SPeriodSet)
  BY DEF SnapInv, SnapShapes
<1>2. CASE TimerFires
  <2>1. builds' = builds /\ todo' = SPeriods /\ view' = view
        /\ UNCHANGED <<stick, arrived, passes, batches, srows, sfaults>>
    BY <1>2 DEF TimerFires
  <2>2. SnapShapes'
    BY <2>1, SnapshotConstants DEF SnapInv, SnapShapes, Builds, Views
  <2>3. BuildInv'
    BY <2>1 DEF SnapInv, BuildInv, Settled, SumsWindow, Ready, Holds
  <2> QED
    BY <2>1, <2>2, <2>3, RestKeeps
<1>3. CASE TimerBuilds
  <2>1. Head(todo) \in SPeriodSet /\ Tail(todo) \in Seq(SPeriodSet)
    BY <1>1, <1>3 DEF TimerBuilds
  <2>2. /\ todo' \in Seq(SPeriodSet) /\ view' = view
        /\ UNCHANGED <<stick, arrived, passes, batches, srows, sfaults>>
        /\ builds' \in {builds, builds \cup {NewBuild(Timer, Head(todo), StableEnd)}}
    BY <1>3, <2>1 DEF TimerBuilds
  <2>3. Timer \in SWorkers \cup {Timer}
    OBVIOUS
  <2> QED
    BY <1>1, <2>1, <2>2, <2>3, NewBuildKeeps
<1> QED
  BY <1>2, <1>3

\* A build that moves on while no generation changes.
LEMMA BuildMoves ==
    ASSUME SnapInv, NEW b \in builds, NEW d \in Builds, d.p = b.p, d.e = b.e,
           UNCHANGED <<stick, arrived, passes, batches, srows, todo, view>>,
           builds' = (builds \ {b}) \cup {d} \/ builds' = builds \ {b},
           sfaults' \in Nat, sfaults # 0 => sfaults' # 0,
           d.pc = "failed" => sfaults' # 0,
           d.pc = "built" => SumsWindow(d.rows, d.p, d.e),
           Holds(d) => Holds(b) \/ (~Locked(b.p) /\ ~Ready(b.p, b.e))
    PROVE  SnapInv'
<1>1. SnapShapes'
  BY DEF SnapInv, SnapShapes, Builds, Views
<1>2. builds' \subseteq (builds \ {b}) \cup {d}
  OBVIOUS
<1>3. \A x \in builds' : /\ Settled(x.e) /\ (Holds(x) => ~Ready(x.p, x.e))
                         /\ x.pc = "built" => SumsWindow(x.rows, x.p, x.e)
                         /\ x.pc = "failed" => sfaults' # 0
  BY <1>2 DEF SnapInv, BuildInv
<1>4. \A x, y \in builds' : Holds(x) /\ Holds(y) /\ x.p = y.p => x = y
  <2>1. \A x \in builds \ {b} : Holds(x) /\ Holds(d) => x.p # d.p
    BY DEF SnapInv, BuildInv, Locked
  <2>2. \A x, y \in builds : Holds(x) /\ Holds(y) /\ x.p = y.p => x = y
    BY DEF SnapInv, BuildInv
  <2> QED
    BY <1>2, <2>1, <2>2
<1>5. BuildInv'
  BY <1>3, <1>4 DEF BuildInv, Settled, SumsWindow, Ready, Holds
<1>6. ReadyInv'
  BY DEF SnapInv, ReadyInv, Ready, Settled, SumsWindow
<1>7. ViewInv'
  BY DEF SnapInv, ViewInv, Ready
<1> QED
  BY <1>1, <1>5, <1>6, <1>7 DEF SnapInv

LEMMA BeginsKeeps == ASSUME SnapInv, NEW b \in builds, BuildBegins(b) PROVE SnapInv'
<1> DEFINE d == [b EXCEPT !.pc = "building", !.rows = NoSnapRows]
<1>1. b \in Builds
  BY DEF SnapInv, SnapShapes
<1>2. d \in Builds /\ d.pc = "building" /\ d.p = b.p /\ d.e = b.e
  BY <1>1, NoSnapRowsIs DEF Builds
<1>3. builds' = builds \ {b} \/ (builds' = (builds \ {b}) \cup {d} /\ ~Locked(b.p) /\ ~Ready(b.p, b.e))
  BY DEF BuildBegins, To
<1>4. sfaults \in Nat /\ sfaults' = sfaults
      /\ UNCHANGED <<stick, arrived, passes, batches, srows, todo, view>>
  BY DEF SnapInv, SnapShapes, BuildBegins
<1> HIDE DEF d
<1>5. CASE builds' = builds \ {b}
  <2>1. b.pc = "start"
    BY DEF BuildBegins
  <2> QED
    BY <1>1, <1>4, <1>5, <2>1, BuildMoves DEF Holds
<1>6. CASE builds' = (builds \ {b}) \cup {d} /\ ~Locked(b.p) /\ ~Ready(b.p, b.e)
  BY <1>2, <1>4, <1>6, BuildMoves
<1> QED
  BY <1>3, <1>5, <1>6

LEMMA VmRowsSum ==
    ASSUME SnapShapes, NEW p \in SPeriodSet, NEW e \in Ends
    PROVE  VmRows(p, e) \in RowSets /\ SumsWindow(VmRows(p, e), p, e)
<1>1. VisibleVm \subseteq SVms /\ DOMAIN VmRows(p, e) = VisibleVm
  BY DEF VisibleVm, VmRows
<1>2. VmRows(p, e) \in [VisibleVm -> SUBSET SnapSlots]
  BY DEF VmRows
<1>3. \A v \in VisibleVm : VmRows(p, e)[v]
        = {s \in SnapSlots : s > e - Span[p] /\ s <= e /\ arrived[v][s] # "no"}
  BY DEF VmRows
<1>4. Span[p] \in Nat /\ e \in Nat /\ \A s \in SnapSlots : s \in Nat
  BY SnapshotConstants, EndsAre
<1>5. \A s \in SnapSlots : s > e - Span[p] /\ s <= e <=> s \in (e - Span[p] + 1)..e
  BY <1>4
<1>6. SumsWindow(VmRows(p, e), p, e)
  BY <1>1, <1>3, <1>5 DEF SumsWindow
<1> QED
  BY <1>1, <1>2, <1>6 DEF RowSets

LEMMA ReadsKeeps == ASSUME SnapInv, NEW b \in builds, BuildReads(b) PROVE SnapInv'
<1> DEFINE d == [b EXCEPT !.pc = "built", !.rows = VmRows(b.p, b.e)]
<1>1. b \in Builds /\ b.p \in SPeriodSet /\ b.e \in Ends
  BY DEF SnapInv, SnapShapes, Builds
<1>2. VmRows(b.p, b.e) \in RowSets /\ SumsWindow(VmRows(b.p, b.e), b.p, b.e)
  BY <1>1, VmRowsSum DEF SnapInv
<1>3. d \in Builds /\ d.pc = "built" /\ d.p = b.p /\ d.e = b.e /\ d.rows = VmRows(b.p, b.e)
  BY <1>1, <1>2 DEF Builds
<1>4. builds' = (builds \ {b}) \cup {d} /\ Holds(b)
  BY DEF BuildReads, To, Holds
<1>5. sfaults \in Nat /\ sfaults' = sfaults
      /\ UNCHANGED <<stick, arrived, passes, batches, srows, todo, view>>
  BY DEF SnapInv, SnapShapes, BuildReads
<1> HIDE DEF d
<1>6. SumsWindow(d.rows, d.p, d.e) /\ d.pc # "failed"
  BY <1>2, <1>3
<1> QED
  BY <1>3, <1>4, <1>5, <1>6, BuildMoves

LEMMA FailsKeeps == ASSUME SnapInv, NEW b \in builds, BuildFails(b) PROVE SnapInv'
<1> DEFINE d == [b EXCEPT !.pc = "failed", !.rows = NoSnapRows]
<1>1. b \in Builds
  BY DEF SnapInv, SnapShapes
<1>2. d \in Builds /\ d.pc = "failed" /\ d.p = b.p /\ d.e = b.e
  BY <1>1, NoSnapRowsIs DEF Builds
<1>3. builds' = (builds \ {b}) \cup {d} /\ Holds(b)
  BY DEF BuildFails, To
<1>4. sfaults' \in Nat /\ sfaults' # 0
      /\ UNCHANGED <<stick, arrived, passes, batches, srows, todo, view>>
  BY DEF SnapInv, SnapShapes, BuildFails
<1> HIDE DEF d
<1> QED
  BY <1>2, <1>3, <1>4, BuildMoves

LEMMA NotedKeeps == ASSUME SnapInv, NEW b \in builds, FailureNoted(b) PROVE SnapInv'
<1>1. b \in Builds /\ b.p \in SPeriodSet /\ b.e \in Ends /\ b.pc = "failed" /\ sfaults # 0
  BY DEF SnapInv, SnapShapes, Builds, BuildInv, FailureNoted
<1>2. /\ builds' = builds \ {b}
      /\ UNCHANGED <<stick, arrived, passes, srows, todo, view, sfaults>>
  BY DEF FailureNoted
<1>3. /\ batches' \in [SPeriodSet -> [Ends -> [st : {"none", "ready", "failed"}, count : Nat]]]
      /\ batches'[b.p][b.e].st = "failed"
      /\ \A p \in SPeriodSet, e \in Ends : <<p, e>> # <<b.p, b.e>> => batches'[p][e] = batches[p][e]
  <2> DEFINE r == [batches[b.p][b.e] EXCEPT !.st = "failed"]
  <2>0. batches[b.p][b.e] \in [st : {"none", "ready", "failed"}, count : Nat]
    BY <1>1 DEF SnapInv, SnapShapes
  <2>1. r \in [st : {"none", "ready", "failed"}, count : Nat] /\ r.st = "failed"
    BY <2>0
  <2>2. batches' = [batches EXCEPT ![b.p] = [batches[b.p] EXCEPT ![b.e] = r]]
    BY DEF FailureNoted
  <2> HIDE DEF r
  <2>3. batches \in [SPeriodSet -> [Ends -> [st : {"none", "ready", "failed"}, count : Nat]]]
    BY DEF SnapInv, SnapShapes
  <2>4. batches[b.p] \in [Ends -> [st : {"none", "ready", "failed"}, count : Nat]]
    BY <1>1, <2>3
  <2> QED
    BY <1>1, <2>1, <2>2, <2>3, <2>4
<1>4. \A p \in SPeriodSet, e \in Ends :
        /\ Ready(p, e)' => batches'[p][e] = batches[p][e] /\ Ready(p, e)
        /\ batches[p][e].st # "none" => batches'[p][e].st # "none"
  BY <1>1, <1>3 DEF Ready
<1>5. SnapShapes'
  BY <1>2, <1>3 DEF SnapInv, SnapShapes, Builds, Views
<1>6. BuildInv'
  <2>1. \A x \in builds : x.p \in SPeriodSet /\ x.e \in Ends
    BY DEF SnapInv, SnapShapes, Builds
  <2> QED
    BY <1>2, <1>4, <2>1 DEF SnapInv, BuildInv, Settled, SumsWindow, Holds
<1>7. ReadyInv'
  BY <1>2, <1>4 DEF SnapInv, ReadyInv, Settled, SumsWindow
<1>8. ViewInv'
  <2> SUFFICES ASSUME view.pc \in {"count", "fetch"} PROVE ViewInv'
    BY <1>2 DEF ViewInv
  <2>1. view.p \in SPeriodSet /\ view.e \in Ends
    BY DEF SnapInv, SnapShapes, Views
  <2> QED
    BY <1>1, <1>2, <1>4, <2>1 DEF SnapInv, ViewInv
<1> QED
  BY <1>5, <1>6, <1>7, <1>8 DEF SnapInv

\* No settled boundary lies so far above the generation of a page in progress that
\* the cleanup could take it.
LEMMA SettledIsNear ==
    ASSUME SnapInv, view.pc \in {"count", "fetch"}, NEW f \in Ends, Settled(f), f > view.e
    PROVE  f <= view.e + Generations - 1
<1> DEFINE k == Generations - 1 - MaxStale
<1>1. view.e \in Nat /\ f \in Nat /\ view.began \in Nat /\ stick \in Nat
  <2>1. view.e \in Ends /\ view.began \in Nat
    BY DEF SnapInv, SnapShapes, Views
  <2>2. stick \in Nat
    BY TickNumbers DEF SnapInv, SnapShapes
  <2> QED
    BY <2>1, <2>2, EndsAre
<1>2. stick <= view.began + k * SlotTicks + SettleTicks
  <2>1. stick - view.began <= PageTicks /\ PageTicks <= k * SlotTicks + SettleTicks
    BY SnapshotConstants DEF SnapInv, ViewInv
  <2>2. k \in Int /\ k * SlotTicks \in Int
    BY TickNumbers
  <2> HIDE DEF k
  <2> QED
    BY <1>1, <2>1, <2>2, TickNumbers
<1>3. f * SlotTicks + SettleTicks <= stick
  BY <1>1 DEF Settled
<1>4. k \in Int
  BY TickNumbers
<1> HIDE DEF k
<1>5. (f - k) * SlotTicks <= view.began
  <2>1. (f - k) * SlotTicks = f * SlotTicks - k * SlotTicks
    BY <1>1, <1>4, TimesMinus, TickNumbers
  <2>2. f * SlotTicks \in Int /\ k * SlotTicks \in Int
    BY <1>1, <1>4, TickNumbers
  <2> QED
    BY <1>1, <1>2, <1>3, <2>1, <2>2, TickNumbers
<1>6. f - k <= view.began \div SlotTicks
  BY <1>1, <1>4, <1>5, DivAtLeast, TickNumbers
<1>7. view.began \div SlotTicks <= view.e + MaxStale /\ view.began \div SlotTicks \in Nat
  BY <1>1, DivOf, TickNumbers DEF SnapInv, ViewInv
<1> QED
  BY <1>1, <1>4, <1>6, <1>7, TickNumbers DEF k

LEMMA CleanupSpares ==
    ASSUME SnapInv, view.pc \in {"count", "fetch"}, NEW ready \in SUBSET Ends,
           \A f \in ready : Settled(f)
    PROVE  view.e \notin CleanedBatches(ready)
<1> SUFFICES ASSUME NEW c \in ready, Cardinality({f \in ready : f > c}) = Generations - 1,
                    view.e < c
             PROVE  FALSE
  BY DEF CleanedBatches, Oldest
<1> DEFINE above == {f \in ready : f > c}
           room == (view.e + 2)..(view.e + Generations - 1)
<1>1. view.e \in Nat /\ c \in Nat /\ ready \subseteq Nat
  BY EndsAre DEF SnapInv, SnapShapes, Views
<1>2. above \subseteq room
  <2> SUFFICES ASSUME NEW f \in above PROVE f \in room
    OBVIOUS
  <2>1. f \in ready /\ f > c /\ f \in Ends /\ Settled(f) /\ f \in Nat
    BY <1>1
  <2>2. f <= view.e + Generations - 1
    BY <1>1, <2>1, SettledIsNear
  <2> QED
    BY <1>1, <2>1, <2>2, TickNumbers
<1>3. Cardinality(room) = Generations - 2
  <2>1. view.e + 2 \in Int /\ view.e + Generations - 1 \in Int /\ Generations >= 2
    BY <1>1, TickNumbers, SnapshotConstants
  <2>2. IsFiniteSet(room) /\ Cardinality(room) =
          IF view.e + 2 > view.e + Generations - 1 THEN 0
          ELSE (view.e + Generations - 1) - (view.e + 2) + 1
    BY <2>1, FS_Interval
  <2> QED
    BY <1>1, <2>1, <2>2, TickNumbers, SMTT(40)
<1>4. IsFiniteSet(room)
  BY <1>1, TickNumbers, FS_Interval
<1>5. Cardinality(above) <= Cardinality(room)
  BY <1>2, <1>4, FS_Subset
<1> QED
  BY <1>3, <1>5, TickNumbers

LEMMA CommitKeeps == ASSUME SnapInv, NEW b \in builds, BuildCommits(b) PROVE SnapInv'
<1> DEFINE ready == {e \in Ends : Ready(b.p, e)} \cup {b.e}
           done == [st |-> "ready", count |-> Cardinality(DOMAIN b.rows)]
<1>1. /\ b \in Builds /\ b.p \in SPeriodSet /\ b.e \in Ends /\ b.rows \in RowSets
      /\ b.pc = "built" /\ Holds(b) /\ Settled(b.e) /\ SumsWindow(b.rows, b.p, b.e)
      /\ ~Ready(b.p, b.e)
  BY DEF SnapInv, SnapShapes, Builds, BuildInv, BuildCommits, Holds
<1>2. ready \in SUBSET Ends /\ \A e \in ready : Settled(e)
  BY <1>1 DEF SnapInv, ReadyInv
<1>3. done \in [st : {"none", "ready", "failed"}, count : Nat]
      /\ Absent \in [st : {"none", "ready", "failed"}, count : Nat] /\ done.st = "ready"
      /\ done.count = Cardinality(DOMAIN b.rows)
  BY <1>1, RowsFinite DEF Absent
<1>4. /\ srows' = [srows EXCEPT ![b.p] = [e \in Ends |->
            IF e \in CleanedBatches(ready) THEN NoSnapRows
            ELSE IF e = b.e THEN b.rows ELSE srows[b.p][e]]]
      /\ batches' = [batches EXCEPT ![b.p] = [e \in Ends |->
            IF e \in CleanedBatches(ready) THEN Absent
            ELSE IF e = b.e THEN done ELSE batches[b.p][e]]]
      /\ builds' = builds \ {b}
      /\ UNCHANGED <<stick, arrived, passes, todo, view, sfaults>>
  BY <1>1 DEF BuildCommits, CleanedRows, SnapInv, SnapShapes
<1> HIDE DEF ready, done
<1>5. /\ batches' \in [SPeriodSet -> [Ends -> [st : {"none", "ready", "failed"}, count : Nat]]]
      /\ srows' \in [SPeriodSet -> [Ends -> RowSets]]
  BY <1>1, <1>3, <1>4, NoSnapRowsIs DEF SnapInv, SnapShapes
<1>6. \A p \in SPeriodSet, e \in Ends :
        \/ batches'[p][e] = Absent /\ p = b.p /\ e \in CleanedBatches(ready)
        \/ batches'[p][e] = done /\ srows'[p][e] = b.rows /\ p = b.p /\ e = b.e
        \/ batches'[p][e] = batches[p][e] /\ srows'[p][e] = srows[p][e] /\ <<p, e>> # <<b.p, b.e>>
  BY <1>1, <1>4 DEF SnapInv, SnapShapes
<1>7. SnapShapes'
  BY <1>4, <1>5 DEF SnapInv, SnapShapes, Builds, Views
<1>8. BuildInv'
  <2>1. \A x \in builds' : x \in builds /\ x # b /\ x.p \in SPeriodSet /\ x.e \in Ends
    BY <1>4 DEF SnapInv, SnapShapes, Builds
  <2>2. \A x \in builds' : Holds(x) => x.p # b.p
    BY <1>1, <2>1 DEF SnapInv, BuildInv
  <2>3. \A x \in builds' : Holds(x) => ~Ready(x.p, x.e)'
    BY <1>6, <2>1, <2>2 DEF SnapInv, BuildInv, Ready, Absent
  <2> QED
    BY <1>4, <2>1, <2>3 DEF SnapInv, BuildInv, Settled, SumsWindow, Holds
<1>9. ReadyInv'
  <2> SUFFICES ASSUME NEW p \in SPeriodSet, NEW e \in Ends, batches'[p][e].st = "ready"
               PROVE  /\ Settled(e)
                      /\ batches'[p][e].count = Cardinality(DOMAIN srows'[p][e])
                      /\ SumsWindow(srows'[p][e], p, e)
    BY <1>4 DEF ReadyInv, Ready, Settled, SumsWindow
  <2>1. batches'[p][e] # Absent
    BY DEF Absent
  <2> QED
    BY <1>1, <1>3, <1>6, <2>1 DEF SnapInv, ReadyInv, Ready
<1>10. ViewInv'
  <2> SUFFICES ASSUME view.pc \in {"count", "fetch"} PROVE ViewInv'
    BY <1>4 DEF ViewInv
  <2>1. view.p \in SPeriodSet /\ view.e \in Ends
    BY DEF SnapInv, SnapShapes, Views
  <2>2. view.e \notin CleanedBatches(ready)
    BY <1>2, CleanupSpares
  <2>3. sfaults = 0 => <<view.p, view.e>> # <<b.p, b.e>>
    BY <1>1 DEF SnapInv, ViewInv
  <2>4. /\ batches'[view.p][view.e].st # "none"
        /\ sfaults = 0 => batches'[view.p][view.e].st = "ready" /\ srows'[view.p][view.e] = view.held
    BY <1>3, <1>6, <2>1, <2>2, <2>3 DEF SnapInv, ViewInv, Ready
  <2> QED
    BY <1>4, <2>4 DEF SnapInv, ViewInv, Ready
<1> QED
  BY <1>7, <1>8, <1>9, <1>10 DEF SnapInv

LEMMA SelectsKeeps ==
    ASSUME SnapInv, NEW w \in SWorkers, NEW p \in SPeriodSet, PageSelects(w, p) PROVE SnapInv'
<1> DEFINE end == NormalizedEnd(stick)
           ends == Selectable(p, end)
           new == [pc |-> "count", p |-> p, e |-> Max(ends), began |-> stick, held |-> srows[p][Max(ends)]]
<1>1. StableEnd \in Ends /\ end \in Ends /\ StableEnd <= end /\ end \in Nat /\ StableEnd \in Nat
      /\ stick \in Nat
  <2>1. SnapShapes /\ stick \in Nat
    BY TickNumbers DEF SnapInv, SnapShapes
  <2> QED
    BY <2>1, StableEndSettled, EndsAre
<1>2. Min({end, StableEnd}) = StableEnd
  BY <1>1, SmallerOf
<1>3. builds' \in {builds, builds \cup {NewBuild(w, p, StableEnd)}}
  BY <1>2 DEF PageSelects, AsyncBuild
<1>4. UNCHANGED <<stick, arrived, passes, batches, srows, todo, sfaults>>
      /\ view' = IF ends = {} THEN NoView ELSE new
  BY DEF PageSelects
<1>5. todo' \in Seq(SPeriodSet) /\ w \in SWorkers \cup {Timer}
  BY <1>4 DEF SnapInv, SnapShapes
<1>6. CASE ends = {}
  <2>1. view' \in Views /\ view'.pc = "idle"
    BY <1>4, <1>6 DEF NoView, Views
  <2> QED
    BY <1>3, <1>4, <1>5, <2>1, NewBuildKeeps
<1>7. CASE ends # {}
  <2>1. Max(ends) \in ends
    <3>1. MaxTick \div SlotTicks \in Nat
      BY DivOf, TickNumbers
    <3>2. ends \subseteq 0..(MaxTick \div SlotTicks)
      BY DEF Selectable, Ends
    <3> QED
      BY <1>7, <3>1, <3>2, MaxIs
  <2> HIDE DEF ends
  <2> DEFINE m == Max(ends)
  <2>2. m \in Ends /\ m \in Nat /\ Ready(p, m) /\ m >= end - MaxStale
    BY <2>1, EndsAre DEF Selectable, ends
  <2>3. view' \in Views /\ view'.pc = "count" /\ view'.p = p /\ view'.e = m
        /\ view'.began = stick /\ view'.held = srows[p][m]
    BY <1>1, <1>4, <1>7, <2>2 DEF Views, SnapInv, SnapShapes
  <2> HIDE DEF m
  <2>4. stick \div SlotTicks <= m + MaxStale
    BY <1>1, <2>2, TickNumbers DEF NormalizedEnd
  <2>5. ViewInv'
    BY <1>1, <1>4, <2>2, <2>3, <2>4, TickNumbers DEF ViewInv, Ready
  <2> QED
    BY <1>3, <1>4, <1>5, <2>3, <2>5, NewBuildKeeps
<1> QED
  BY <1>6, <1>7

LEMMA PagesKeep == ASSUME SnapInv, PageCounts \/ PageFetches PROVE SnapInv'
<1>1. UNCHANGED <<stick, arrived, passes, batches, srows, builds, todo, sfaults>>
  BY DEF PageCounts, PageFetches
<1>2. view' \in Views /\ (view'.pc = "idle" \/ ViewInv')
  <2>1. CASE PageCounts
    <3>1. view' \in Views /\ view'.pc = "fetch" /\ view'.p = view.p /\ view'.e = view.e
          /\ view'.began = view.began /\ view'.held = view.held
      BY <2>1 DEF PageCounts, SnapInv, SnapShapes, Views
    <3> QED
      BY <1>1, <2>1, <3>1 DEF SnapInv, ViewInv, Ready, PageCounts
  <2>2. CASE PageFetches
    <3>1. view.p \in SPeriodSet /\ view.e \in Ends
      BY <2>2 DEF PageFetches, SnapInv, SnapShapes, Views
    <3>2. srows[view.p][view.e] \in RowSets
      BY <3>1 DEF SnapInv, SnapShapes
    <3>3. SnapshotWhere(view.p, view.e) \subseteq SVms
      BY <3>2, RowsFinite DEF SnapshotWhere
    <3> QED
      BY <2>2, <3>3 DEF PageFetches, Views
  <2> QED
    BY <2>1, <2>2
<1>3. SnapShapes'
  BY <1>1, <1>2 DEF SnapInv, SnapShapes, Builds
<1>4. BuildInv'
  BY <1>1 DEF SnapInv, BuildInv, Settled, SumsWindow, Ready, Holds
<1> QED
  BY <1>1, <1>2, <1>3, <1>4, RestKeeps

LEMMA SnapStepKeeps == ASSUME SnapInv, SnapNext PROVE SnapInv'
  BY TickKeeps, PushKeeps, ToggleKeeps, CrashKeeps, TimerKeeps, BeginsKeeps, ReadsKeeps, CommitKeeps,
     FailsKeeps, NotedKeeps, SelectsKeeps, PagesKeep
  DEF SnapNext

LEMMA SnapStutters == ASSUME SnapInv, UNCHANGED snapVars PROVE SnapInv'
<1>1. SnapShapes'
  BY DEF SnapInv, SnapShapes, snapVars, Builds, Views
<1>2. BuildInv'
  BY DEF SnapInv, BuildInv, Settled, SumsWindow, Ready, Holds, snapVars
<1> QED
  BY <1>1, <1>2, RestKeeps DEF snapVars

LEMMA SnapImplies ==
    ASSUME SnapInv PROVE SnapTypeOK /\ ReadyIsWhole /\ ReadyIsSettled /\ PageKeepsGeneration
<1>1. SnapTypeOK
  <2>1. \A p \in SPeriodSet, e \in Ends : batches[p][e].st \in {"none", "ready", "failed"}
                                          /\ DOMAIN srows[p][e] \subseteq SVms
    BY RowsFinite DEF SnapInv, SnapShapes
  <2> QED
    BY <2>1 DEF SnapInv, SnapShapes, SnapTypeOK, Builds, Views
<1>2. ReadyIsWhole /\ ReadyIsSettled
  BY DEF SnapInv, ReadyInv, ReadyIsWhole, ReadyIsSettled, SumsWindow
<1>3. PageKeepsGeneration
  BY DEF SnapInv, ViewInv, PageKeepsGeneration, Absent
<1> QED
  BY <1>1, <1>2, <1>3

(***************************************************************************)
(* The cache of pages                                                      *)
(***************************************************************************)
LEMMA RemoveAtIs ==
    ASSUME NEW X, NEW s \in Seq(X), NEW i \in DOMAIN s
    PROVE  /\ RemoveAt(s, i) \in Seq(X) /\ Len(RemoveAt(s, i)) = Len(s) - 1
           /\ ToSet(RemoveAt(s, i)) \subseteq ToSet(s)
<1> DEFINE a == SubSeq(s, 1, i - 1)
           b == SubSeq(s, i + 1, Len(s))
<1>1. Len(s) \in Nat /\ i \in 1..Len(s)
  OBVIOUS
<1>2. a \in Seq(X) /\ Len(a) = i - 1 /\ \A j \in 1..(i - 1) : a[j] = s[j]
  BY <1>1, SubSeqProperties
<1>3. b \in Seq(X) /\ Len(b) = Len(s) - i /\ \A j \in 1..(Len(s) - i) : b[j] = s[i + j]
  BY <1>1, SubSeqProperties
<1> HIDE DEF a, b
<1>4. a \o b \in Seq(X) /\ Len(a \o b) = Len(s) - 1
  BY <1>1, <1>2, <1>3, ConcatProperties
<1>5. \A j \in 1..(Len(s) - 1) : \E k \in 1..Len(s) : (a \o b)[j] = s[k]
  <2> TAKE j \in 1..(Len(s) - 1)
  <2>1. j \in 1..(Len(a) + Len(b))
    BY <1>1, <1>2, <1>3
  <2>2. (a \o b)[j] = IF j <= Len(a) THEN a[j] ELSE b[j - Len(a)]
    BY <1>2, <1>3, <2>1, ConcatProperties
  <2>3. CASE j <= i - 1
    <3>1. j \in 1..(i - 1) /\ j \in 1..Len(s)
      BY <1>1, <2>3
    <3> QED
      BY <1>2, <2>2, <2>3, <3>1
  <2>4. CASE ~(j <= i - 1)
    <3>1. j - (i - 1) \in 1..(Len(s) - i) /\ j + 1 \in 1..Len(s) /\ i + (j - (i - 1)) = j + 1
      BY <1>1, <2>4
    <3> QED
      BY <1>2, <1>3, <2>2, <2>4, <3>1
  <2> QED
    BY <2>3, <2>4
<1>6. RemoveAt(s, i) = a \o b
  BY DEF RemoveAt, a, b
<1>7. DOMAIN s = 1..Len(s) /\ DOMAIN (a \o b) = 1..(Len(s) - 1)
  BY <1>4
<1>8. ToSet(a \o b) \subseteq ToSet(s)
  BY <1>5, <1>7 DEF ToSet
<1> QED
  BY <1>4, <1>6, <1>8
LEMMA AppendIs ==
    ASSUME NEW X, NEW s \in Seq(X), NEW x \in X
    PROVE  Append(s, x) \in Seq(X) /\ Len(Append(s, x)) = Len(s) + 1
           /\ ToSet(Append(s, x)) = ToSet(s) \cup {x}
<1>1. Append(s, x) \in Seq(X) /\ Len(Append(s, x)) = Len(s) + 1 /\ Len(s) \in Nat
      /\ Append(s, x)[Len(s) + 1] = x /\ \A i \in 1..Len(s) : Append(s, x)[i] = s[i]
  OBVIOUS
<1> QED
  BY <1>1 DEF ToSet
LEMMA TailIs ==
    ASSUME NEW X, NEW s \in Seq(X), s # <<>>
    PROVE  Tail(s) \in Seq(X) /\ Len(Tail(s)) = Len(s) - 1 /\ ToSet(Tail(s)) \subseteq ToSet(s)
<1>1. Tail(s) \in Seq(X) /\ Len(Tail(s)) = Len(s) - 1 /\ Len(s) \in Nat
      /\ \A i \in 1..(Len(s) - 1) : Tail(s)[i] = s[i + 1]
  OBVIOUS
<1> QED
  BY <1>1 DEF ToSet

LEMMA SlotShort ==
    ASSUME NEW m \in Nat, NEW n \in Nat, NEW k \in Nat \ {0}, m <= n, m \div k = n \div k
    PROVE  n - m <= k - 1
  OBVIOUS

PageKinds == {a[1] : a \in PAsks}
PageUsers == {a[2] : a \in PAsks} \cup {"nobody"}
PageBodies == [ver : Nat, user : PageUsers, at : Nat]
PageKeys == Nat \X Nat \X PageKinds \X PageUsers
PageEntries == [key : PageKeys, body : PageBodies, expires : Nat]
PageGets ==
    {NoGet}
    \cup [pc : {"miss"}, key : PageKeys, kind : PageKinds, user : PageUsers, floor : Nat, blind : BOOLEAN]
    \cup [pc : {"rendered"}, key : PageKeys, kind : PageKinds, floor : Nat, blind : BOOLEAN,
          body : PageBodies]

CacheShapes ==
    /\ ptick \in 0..MaxClock
    /\ ver \in Nat /\ told \in 0..ver /\ gen \in Nat
    /\ ver <= MaxChanges \/ (ver = MaxChanges + 1 /\ purge = "idle")
    /\ purge \in {"idle", "raised"}
    /\ lgen \in [PWorkers -> Nat \ {0}]
    /\ lru \in [PWorkers -> Seq(PageEntries)]
    /\ \A w \in PWorkers : Len(lru[w]) <= LocalItems
    /\ redis \subseteq PageEntries
    /\ query \in [PWorkers -> [slot : Int, expires : Nat, ver : Nat, at : Nat]]
    /\ gets \in [PWorkers -> PageGets]
    /\ change \in [PWorkers -> Nat] /\ \A w \in PWorkers : change[w] <= ver
    /\ outages \in Nat

\* How long before its page was rendered the rows of a page may have been read.
RowsLag(kind) == IF kind = "nodes" THEN QueryTtl - 1 ELSE 0

\* A stored page belongs to its key: to the user, and to the slot in which it was
\* rendered; and if its generation is the current one, it has every answered change.
EntryInv(x) ==
    /\ x.key[1] <= gen
    /\ x.body.user = x.key[4]
    /\ \E r \in Nat : /\ r <= ptick /\ r \div PageTtl = x.key[2]
                      /\ r - x.body.at <= RowsLag(x.key[3])
    /\ x.key[1] = gen /\ x.key[3] = "list" => x.body.ver >= told

StoresInv ==
    /\ \A x \in redis : EntryInv(x)
    /\ \A w \in PWorkers : \A x \in ToSet(lru[w]) : EntryInv(x)

\* A request in progress looks its page up and renders it within one tick.
GetInv(g) ==
    /\ g.key[1] <= gen /\ g.key[2] = PageSlot /\ g.key[3] = g.kind /\ g.floor <= told
    /\ g.pc = "miss" => g.user = g.key[4]
    /\ g.pc = "rendered" =>
        /\ g.body.user = g.key[4] /\ ptick - g.body.at <= RowsLag(g.kind)
        /\ g.kind = "list" => /\ g.body.ver >= g.floor
                              /\ g.key[1] = gen => g.body.ver >= told

GetsInv == \A w \in PWorkers : gets[w] # NoGet => GetInv(gets[w])

QueryInv ==
    \A w \in PWorkers :
        query[w].slot = -1 \/ (query[w].slot = query[w].at \div QueryTtl /\ query[w].at <= ptick)

ServedInv == AnsweredIsShown /\ StaleBounded /\ OwnPage

CacheInv == CacheShapes /\ StoresInv /\ GetsInv /\ QueryInv /\ ServedInv

\* While a request may still lose the database, no process is ahead of it.
NoneAhead == outages < MaxOutages => \A w \in PWorkers : lgen[w] <= gen

LEMMA CacheNumbers ==
    /\ PageTtl \in Nat \ {0} /\ QueryTtl \in Nat \ {0} /\ LocalItems \in Nat \ {0}
    /\ MaxClock \in Nat /\ MaxChanges \in Nat /\ MaxOutages \in Nat
  BY CacheConstants

LEMMA SilenceHolds == ASSUME served = Silence PROVE ServedInv
  BY CacheNumbers DEF Silence, NoBody, ServedInv, AnsweredIsShown, StaleBounded, OwnPage

LEMMA CacheInitially == ASSUME CacheInit PROVE CacheInv /\ NoneAhead
<1>1. CacheShapes
  <2>1. lru \in [PWorkers -> Seq(PageEntries)] /\ \A w \in PWorkers : Len(lru[w]) = 0
    BY DEF CacheInit
  <2>2. gets \in [PWorkers -> PageGets]
    BY DEF CacheInit, PageGets
  <2>3. query \in [PWorkers -> [slot : Int, expires : Nat, ver : Nat, at : Nat]]
    BY DEF CacheInit, NoQuery
  <2>4. ptick \in 0..MaxClock /\ told \in 0..ver /\ ver <= MaxChanges
    BY CacheNumbers DEF CacheInit
  <2>5. \A w \in PWorkers : Len(lru[w]) <= LocalItems
    BY <2>1, CacheNumbers
  <2> QED
    BY <2>1, <2>2, <2>3, <2>4, <2>5 DEF CacheInit, CacheShapes
<1>2. StoresInv
  <2>1. ToSet(<<>>) = {}
    BY DEF ToSet
  <2> QED
    BY <2>1 DEF CacheInit, StoresInv
<1>3. GetsInv /\ QueryInv
  BY DEF CacheInit, GetsInv, QueryInv, NoQuery
<1> QED
  BY <1>1, <1>2, <1>3, SilenceHolds DEF CacheInit, CacheInv, NoneAhead

\* Stored pages stay what they are while the generation stays with what was told,
\* or is raised.
LEMMA EntriesStay ==
    ASSUME CacheShapes, gen' \in Nat, ptick' \in Nat, ptick <= ptick',
           (gen' = gen /\ told' = told) \/ gen' > gen,
           NEW x \in PageEntries, EntryInv(x)
    PROVE  EntryInv(x)'
<1>1. x.key[1] \in Nat /\ gen \in Nat /\ ptick \in Nat
  BY CacheNumbers DEF PageEntries, PageKeys, CacheShapes
<1>2. x.key[1] <= gen' /\ (x.key[1] = gen' => x.key[1] = gen /\ told' = told)
  BY <1>1 DEF EntryInv
<1>3. \E r \in Nat : /\ r <= ptick' /\ r \div PageTtl = x.key[2]
                     /\ r - x.body.at <= RowsLag(x.key[3])
  <2>1. PICK r \in Nat : /\ r <= ptick /\ r \div PageTtl = x.key[2]
                         /\ r - x.body.at <= RowsLag(x.key[3])
    BY DEF EntryInv
  <2>2. r <= ptick'
    BY <1>1, <2>1
  <2> QED
    BY <2>1, <2>2
<1> QED
  BY <1>2, <1>3 DEF EntryInv, RowsLag

\* Changes, purges and Redis: what is stored and rendered stays, or is dropped.
LEMMA QuietKeeps ==
    ASSUME CacheInv, CacheShapes', UNCHANGED <<ptick, redis, query, gets>>, served' = Silence,
           (gen' = gen /\ told' = told) \/ (gen' > gen /\ told <= told'),
           \A w \in PWorkers : lru'[w] \in {lru[w], <<>>}
    PROVE  CacheInv'
<1>1. gen' \in Nat /\ ptick' \in Nat /\ ptick <= ptick' /\ gen \in Nat /\ told \in Nat /\ told' \in Nat
  BY CacheNumbers DEF CacheInv, CacheShapes
<1>2. StoresInv'
  <2>1. ToSet(<<>>) = {}
    BY DEF ToSet
  <2>2. \A x \in redis : x \in PageEntries
    BY DEF CacheInv, CacheShapes
  <2>3. \A w \in PWorkers : \A x \in ToSet(lru[w]) : x \in PageEntries
    BY DEF CacheInv, CacheShapes, ToSet
  <2>4. \A x \in redis : EntryInv(x)'
    BY <1>1, <2>2, EntriesStay DEF CacheInv, StoresInv
  <2>5. \A w \in PWorkers : \A x \in ToSet(lru'[w]) : EntryInv(x)'
    BY <1>1, <2>1, <2>3, EntriesStay DEF CacheInv, StoresInv
  <2> QED
    BY <2>4, <2>5 DEF StoresInv
<1>3. GetsInv'
  <2> SUFFICES ASSUME NEW w \in PWorkers, gets[w] # NoGet PROVE GetInv(gets[w])'
    BY DEF GetsInv
  <2>1. gets[w] \in PageGets /\ GetInv(gets[w])
    BY DEF CacheInv, CacheShapes, GetsInv
  <2>2. gets[w].key[1] \in Nat /\ gets[w].floor \in Nat
    BY <2>1 DEF PageGets, PageKeys
  <2>3. gets[w].key[1] <= gen' /\ gets[w].floor <= told'
        /\ (gets[w].key[1] = gen' => gets[w].key[1] = gen /\ told' = told)
    BY <1>1, <2>1, <2>2 DEF GetInv
  <2> QED
    BY <2>1, <2>3 DEF GetInv, PageSlot, RowsLag
<1>4. QueryInv'
  BY DEF CacheInv, QueryInv
<1>5. ServedInv'
  BY CacheNumbers DEF Silence, NoBody, ServedInv, AnsweredIsShown, StaleBounded, OwnPage
<1> QED
  BY <1>2, <1>3, <1>4, <1>5 DEF CacheInv

LEMMA ChangesKeep ==
    ASSUME CacheInv, NEW w \in PWorkers, ChangeCommits(w) \/ ChangeAnswered(w) \/ RaiseFails(w)
    PROVE  CacheInv'
<1>1. /\ ver \in Nat /\ told \in Nat /\ told <= ver /\ gen \in Nat /\ change[w] \in Nat /\ change[w] <= ver
      /\ lru \in [PWorkers -> Seq(PageEntries)] /\ change \in [PWorkers -> Nat]
      /\ lgen \in [PWorkers -> Nat \ {0}] /\ outages \in Nat
      /\ \A u \in PWorkers : Len(lru[u]) <= LocalItems /\ change[u] <= ver
  BY DEF CacheInv, CacheShapes
<1>2. UNCHANGED <<ptick, redis, query, gets, purge>> /\ served' = Silence
  BY DEF ChangeCommits, ChangeAnswered, RaiseFails, Raise
<1>3. CASE ChangeCommits(w)
  <2>1. /\ ver' = ver + 1 /\ ver' \in Nat /\ ver' <= MaxChanges /\ UNCHANGED <<told, gen, lgen, lru, outages>>
        /\ change' \in [PWorkers -> Nat] /\ \A u \in PWorkers : change'[u] <= ver'
    BY <1>1, <1>3, CacheNumbers DEF ChangeCommits
  <2>2. told' \in 0..ver'
    BY <1>1, <2>1
  <2>3. CacheShapes'
    BY <1>2, <2>1, <2>2 DEF CacheInv, CacheShapes
  <2> QED
    BY <1>2, <2>1, <2>3, QuietKeeps
<1>4. CASE ChangeAnswered(w) \/ RaiseFails(w)
  <2>1. /\ lgen' = [lgen EXCEPT ![w] = lgen[w] + 1] /\ lru' = [lru EXCEPT ![w] = <<>>]
        /\ change' = [change EXCEPT ![w] = 0] /\ ver' = ver
    BY <1>4 DEF ChangeAnswered, RaiseFails, Raise
  <2>2. lgen' \in [PWorkers -> Nat \ {0}]
    BY <1>1, <2>1
  <2>3. lru' \in [PWorkers -> Seq(PageEntries)] /\ \A u \in PWorkers : lru'[u] \in {lru[u], <<>>}
    BY <1>1, <2>1
  <2>4. \A u \in PWorkers : Len(lru'[u]) <= LocalItems
    BY <1>1, <2>3, CacheNumbers
  <2>5. change' \in [PWorkers -> Nat] /\ \A u \in PWorkers : change'[u] <= ver'
    BY <1>1, <2>1
  <2>6. /\ gen' \in Nat /\ outages' \in Nat /\ told' \in 0..ver'
        /\ (gen' = gen /\ told' = told) \/ (gen' > gen /\ told <= told')
    BY <1>1, <1>4, <2>1 DEF ChangeAnswered, RaiseFails
  <2>7. CacheShapes'
    BY <1>2, <2>1, <2>2, <2>3, <2>4, <2>5, <2>6 DEF CacheInv, CacheShapes
  <2> QED
    BY <1>2, <2>3, <2>6, <2>7, QuietKeeps
<1> QED
  BY <1>3, <1>4

LEMMA PurgesKeep ==
    ASSUME CacheInv, PurgeRaises \/ PurgeCommits PROVE CacheInv'
<1>1. /\ ver \in Nat /\ told \in Nat /\ told <= ver /\ gen \in Nat
      /\ \A w \in PWorkers : change[w] \in Nat /\ change[w] <= ver
      /\ (ver <= MaxChanges \/ (ver = MaxChanges + 1 /\ purge = "idle"))
  BY DEF CacheInv, CacheShapes
<1>2. UNCHANGED <<ptick, redis, query, gets, lgen, lru, change, outages, told>> /\ served' = Silence
  BY DEF PurgeRaises, PurgeCommits
<1>3. /\ ver' \in Nat /\ ver <= ver' /\ gen' \in Nat /\ (gen' = gen \/ gen' > gen)
      /\ ver' <= MaxChanges \/ (ver' = MaxChanges + 1 /\ purge' = "idle")
      /\ purge' \in {"idle", "raised"}
  <2>1. CASE PurgeRaises
    BY <1>1, <2>1, CacheNumbers DEF PurgeRaises
  <2>2. CASE PurgeCommits
    <3>1. ver' = ver + 1 /\ gen' = gen /\ purge' = "idle" /\ ver <= MaxChanges
      BY <1>1, <2>2 DEF PurgeCommits
    <3> QED
      BY <1>1, <3>1, CacheNumbers
  <2> QED
    BY <2>1, <2>2
<1>4. told' \in 0..ver' /\ \A w \in PWorkers : change[w] <= ver'
  BY <1>1, <1>2, <1>3
<1>5. CacheShapes'
  BY <1>2, <1>3, <1>4 DEF CacheInv, CacheShapes
<1> QED
  BY <1>1, <1>2, <1>3, <1>5, QuietKeeps

LEMMA RedisKeeps ==
    ASSUME CacheInv, NEW w \in PWorkers, RedisLost(w) \/ RedisBack(w) PROVE CacheInv'
<1>1. UNCHANGED <<ptick, ver, told, gen, lgen, lru, redis, query, gets, change, purge>>
      /\ served' = Silence
  BY DEF RedisLost, RedisBack
<1>2. outages' \in Nat
  BY DEF RedisLost, RedisBack, CacheInv, CacheShapes
<1>3. CacheShapes'
  BY <1>1, <1>2 DEF CacheInv, CacheShapes
<1> QED
  BY <1>1, <1>3, QuietKeeps

LEMMA CacheTickKeeps == ASSUME CacheInv, CacheTick PROVE CacheInv'
<1>1. /\ ptick \in Nat /\ ptick' = ptick + 1 /\ ptick' \in 0..MaxClock /\ gen \in Nat
      /\ \A w \in PWorkers : gets[w] = NoGet
      /\ redis' \subseteq redis /\ served' = Silence
      /\ UNCHANGED <<ver, told, gen, lgen, lru, linked, query, gets, change, purge, outages>>
  BY CacheNumbers DEF CacheInv, CacheShapes, CacheTick
<1>2. CacheShapes'
  BY <1>1 DEF CacheInv, CacheShapes
<1>3. StoresInv'
  <2>1. gen' \in Nat /\ ptick' \in Nat /\ ptick <= ptick' /\ gen' = gen /\ told' = told
    BY <1>1
  <2>2. \A x \in redis : x \in PageEntries
    BY DEF CacheInv, CacheShapes
  <2>3. \A w \in PWorkers : \A x \in ToSet(lru[w]) : x \in PageEntries
    BY DEF CacheInv, CacheShapes, ToSet
  <2>4. \A x \in redis : EntryInv(x)'
    BY <2>1, <2>2, EntriesStay DEF CacheInv, StoresInv
  <2>5. \A w \in PWorkers : \A x \in ToSet(lru[w]) : EntryInv(x)'
    BY <2>1, <2>3, EntriesStay DEF CacheInv, StoresInv
  <2> QED
    BY <1>1, <2>4, <2>5 DEF StoresInv
<1>4. GetsInv'
  BY <1>1 DEF GetsInv
<1>5. QueryInv'
  <2> SUFFICES ASSUME NEW w \in PWorkers, query[w].slot # -1
               PROVE  query[w].slot = query[w].at \div QueryTtl /\ query[w].at <= ptick'
    BY <1>1 DEF QueryInv
  <2>1. query[w].at \in Nat
    BY DEF CacheInv, CacheShapes
  <2> QED
    BY <1>1, <2>1 DEF CacheInv, QueryInv
<1>6. ServedInv'
  BY <1>1, CacheNumbers DEF Silence, NoBody, ServedInv, AnsweredIsShown, StaleBounded, OwnPage
<1> QED
  BY <1>2, <1>3, <1>4, <1>5, <1>6 DEF CacheInv

\* A lookup, under the generation g, that is the current one unless it is blind.
LEMMA GetKeeps ==
    ASSUME CacheInv, NEW w \in PWorkers, NEW a \in PAsks, NEW g \in Nat, NEW blind \in BOOLEAN,
           g <= gen, ~blind => g = gen, outages' \in Nat, Get(w, a[1], a[2], g, blind)
    PROVE  CacheInv'
<1> DEFINE k == a[1]
           u == a[2]
           key == PageKey(g, k, u)
           hits == CacheGet(w, key)
<1>1. /\ ptick \in Nat /\ gen \in Nat /\ told \in Nat /\ redis \subseteq PageEntries
      /\ lru \in [PWorkers -> Seq(PageEntries)] /\ Len(lru[w]) <= LocalItems
      /\ gets \in [PWorkers -> PageGets]
  BY CacheNumbers DEF CacheInv, CacheShapes
<1>2. /\ key = <<g, PageSlot, k, u>> /\ key \in PageKeys /\ k \in PageKinds /\ u \in PageUsers
      /\ PageSlot \in Nat
  BY <1>1, DivOf, CacheNumbers DEF PageKey, PageSlot, PageKeys, PageKinds, PageUsers
<1>3. UNCHANGED <<ptick, ver, told, gen, lgen, redis, linked, query, change, purge>>
  BY DEF Get
<1>4. \/ \E x \in hits :
            /\ served' = [body |-> x.body, user |-> u, floor |-> told, now |-> ptick,
                          kind |-> k, blind |-> blind]
            /\ lru' = [lru EXCEPT ![w] = Used(w, x)]
            /\ UNCHANGED gets
      \/ /\ served' = Silence
         /\ gets' = [gets EXCEPT ![w] = [pc |-> "miss", key |-> key, kind |-> k, user |-> u,
                                         floor |-> told, blind |-> blind]]
         /\ UNCHANGED lru
  BY DEF Get
<1>5. \A x \in hits : x.key = key /\ x \in PageEntries /\ EntryInv(x)
  <2>1. hits \subseteq {x \in redis \cup ToSet(lru[w]) : x.key = key}
    BY DEF CacheGet, Found, Unexpired
  <2>2. ToSet(lru[w]) \subseteq PageEntries
    BY <1>1 DEF ToSet
  <2> QED
    BY <1>1, <2>1, <2>2 DEF CacheInv, StoresInv
<1> HIDE DEF key, hits
<1>6. CASE \E x \in hits :
            /\ served' = [body |-> x.body, user |-> u, floor |-> told, now |-> ptick,
                          kind |-> k, blind |-> blind]
            /\ lru' = [lru EXCEPT ![w] = Used(w, x)]
            /\ UNCHANGED gets
  <2>1. PICK x \in hits : /\ served' = [body |-> x.body, user |-> u, floor |-> told, now |-> ptick,
                                        kind |-> k, blind |-> blind]
                          /\ lru' = [lru EXCEPT ![w] = Used(w, x)]
                          /\ UNCHANGED gets
    BY <1>6
  <2>2. x.key = key /\ x \in PageEntries /\ EntryInv(x)
    BY <1>5
  <2>3. /\ Used(w, x) \in Seq(PageEntries) /\ Len(Used(w, x)) <= LocalItems
        /\ ToSet(Used(w, x)) \subseteq ToSet(lru[w])
    <3>1. CASE x \notin ToSet(lru[w])
      BY <1>1, <3>1 DEF Used
    <3>2. CASE x \in ToSet(lru[w])
      <4> DEFINE at == CHOOSE i \in DOMAIN lru[w] : lru[w][i] = x
                 others == RemoveAt(lru[w], at)
      <4>1. at \in DOMAIN lru[w] /\ lru[w] \in Seq(PageEntries)
        BY <1>1, <3>2 DEF ToSet
      <4> HIDE DEF at
      <4>2. others \in Seq(PageEntries) /\ Len(others) = Len(lru[w]) - 1
            /\ ToSet(others) \subseteq ToSet(lru[w])
        BY <4>1, RemoveAtIs
      <4>3. Used(w, x) = Append(others, x)
        BY <3>2 DEF Used, at
      <4> HIDE DEF others
      <4>4. Append(others, x) \in Seq(PageEntries) /\ Len(Append(others, x)) = Len(others) + 1
            /\ ToSet(Append(others, x)) = ToSet(others) \cup {x}
        BY <2>2, <4>2, AppendIs
      <4>5. Len(lru[w]) \in Nat
        BY <4>1
      <4> QED
        BY <1>1, <3>2, <4>2, <4>3, <4>4, <4>5
    <3> QED
      BY <3>1, <3>2
  <2>4. lru' \in [PWorkers -> Seq(PageEntries)] /\ lru'[w] = Used(w, x)
        /\ \A v \in PWorkers : v # w => lru'[v] = lru[v]
    BY <1>1, <2>1, <2>3
  <2>5. CacheShapes'
    <3>1. \A v \in PWorkers : Len(lru'[v]) <= LocalItems
      BY <2>3, <2>4 DEF CacheInv, CacheShapes
    <3> QED
      BY <1>3, <2>1, <2>4, <3>1 DEF CacheInv, CacheShapes
  <2>6. StoresInv'
    <3>1. \A v \in PWorkers : ToSet(lru'[v]) \subseteq ToSet(lru[v])
      BY <2>3, <2>4
    <3> QED
      BY <1>3, <3>1 DEF CacheInv, StoresInv, EntryInv, RowsLag
  <2>7. GetsInv' /\ QueryInv'
    BY <1>3, <2>1 DEF CacheInv, GetsInv, GetInv, QueryInv, PageSlot, RowsLag
  <2>8. ServedInv'
    <3>1. x.key[1] = g /\ x.key[2] = PageSlot /\ x.key[3] = k /\ x.key[4] = u
      BY <1>2, <2>2
    <3>2. AnsweredIsShown'
      BY <2>1, <2>2, <3>1 DEF AnsweredIsShown, EntryInv
    <3>3. OwnPage'
      BY <2>1, <2>2, <3>1 DEF OwnPage, EntryInv
    <3>4. StaleBounded'
      <4>1. PICK r \in Nat : /\ r <= ptick /\ r \div PageTtl = PageSlot
                             /\ r - x.body.at <= RowsLag(k)
        BY <2>2, <3>1 DEF EntryInv
      <4>2. ptick - r <= PageTtl - 1
        BY <1>1, <4>1, SlotShort, CacheNumbers DEF PageSlot
      <4>3. x.body.at \in Nat /\ RowsLag(k) \in Nat
        BY <2>2, CacheNumbers DEF PageEntries, PageBodies, RowsLag
      <4>4. ptick - x.body.at <= (PageTtl - 1) + RowsLag(k)
        <5>1. r \in Nat /\ r - x.body.at <= RowsLag(k) /\ PageTtl \in Nat
          BY <4>1, CacheNumbers
        <5> QED
          BY ONLY <5>1, <1>1, <4>2, <4>3, SMTT(40)
      <4>5. served'.now = ptick /\ served'.body.at = x.body.at /\ served'.kind = k
        BY <2>1
      <4> QED
        BY <4>4, <4>5 DEF StaleBounded, RowsLag
    <3> QED
      BY <3>2, <3>3, <3>4 DEF ServedInv
  <2> QED
    BY <2>5, <2>6, <2>7, <2>8 DEF CacheInv
<1>7. CASE /\ served' = Silence
           /\ gets' = [gets EXCEPT ![w] = [pc |-> "miss", key |-> key, kind |-> k, user |-> u,
                                           floor |-> told, blind |-> blind]]
           /\ UNCHANGED lru
  <2> DEFINE new == [pc |-> "miss", key |-> key, kind |-> k, user |-> u, floor |-> told, blind |-> blind]
  <2>1. new \in PageGets
    BY <1>1, <1>2 DEF PageGets
  <2>2. GetInv(new)
    BY <1>1, <1>2 DEF GetInv
  <2> HIDE DEF new
  <2>3. gets' = [gets EXCEPT ![w] = new]
    BY <1>7 DEF new
  <2>4. CacheShapes'
    BY <1>1, <1>3, <1>7, <2>1, <2>3 DEF CacheInv, CacheShapes
  <2>5. GetsInv'
    <3>1. \A v \in PWorkers : gets'[v] # NoGet => GetInv(gets'[v])
      BY <1>1, <2>2, <2>3 DEF CacheInv, GetsInv
    <3> QED
      BY <1>3, <3>1 DEF GetsInv, GetInv, PageSlot, RowsLag
  <2>6. StoresInv' /\ QueryInv'
    BY <1>3, <1>7 DEF CacheInv, StoresInv, EntryInv, QueryInv, RowsLag
  <2>7. ServedInv'
    BY <1>7, CacheNumbers DEF Silence, NoBody, ServedInv, AnsweredIsShown, StaleBounded, OwnPage
  <2> QED
    BY <2>4, <2>5, <2>6, <2>7 DEF CacheInv
<1> QED
  BY <1>4, <1>6, <1>7

LEMMA GetPageKeeps ==
    ASSUME CacheInv, NEW w \in PWorkers, NEW a \in PAsks, GetPage(w, a[1], a[2]) PROVE CacheInv'
<1>1. gen \in Nat /\ gen <= gen /\ outages' \in Nat
  BY DEF GetPage, CacheInv, CacheShapes
<1>2. Get(w, a[1], a[2], gen, FALSE)
  BY DEF GetPage
<1> QED
  BY <1>1, <1>2, GetKeeps

LEMMA GetBlindKeeps ==
    ASSUME CacheInv, NoneAhead, NEW w \in PWorkers, NEW a \in PAsks, GetBlind(w, a[1], a[2])
    PROVE  CacheInv'
<1>1. lgen[w] \in Nat /\ lgen[w] <= gen /\ outages' \in Nat
  BY DEF GetBlind, NoneAhead, CacheInv, CacheShapes
<1>2. Get(w, a[1], a[2], lgen[w], TRUE)
  BY DEF GetBlind
<1> QED
  BY <1>1, <1>2, GetKeeps

LEMMA QueryReadIs ==
    ASSUME CacheShapes, QueryInv, NEW w \in PWorkers
    PROVE  LET read == QueryRead(w) IN
           /\ read \in [slot : Int, expires : Nat, ver : Nat, at : Nat]
           /\ read.slot = -1 \/ (read.slot = read.at \div QueryTtl /\ read.at <= ptick)
           /\ ptick - read.at <= QueryTtl - 1
<1> DEFINE new == [slot |-> QuerySlot, expires |-> ptick + QueryTtl, ver |-> ver, at |-> ptick]
<1>1. ptick \in Nat /\ ver \in Nat /\ query[w] \in [slot : Int, expires : Nat, ver : Nat, at : Nat]
  BY CacheNumbers DEF CacheShapes
<1>2. QuerySlot \in Nat /\ QuerySlot = ptick \div QueryTtl
  BY <1>1, DivOf, CacheNumbers DEF QuerySlot
<1>3. CASE QueryHit(w)
  <2>1. QueryRead(w) = query[w] /\ query[w].slot = QuerySlot
    BY <1>3 DEF QueryRead, QueryHit
  <2>2. query[w].slot # -1
    BY <1>2, <2>1
  <2>3. query[w].slot = query[w].at \div QueryTtl /\ query[w].at <= ptick /\ query[w].at \in Nat
    BY <1>1, <2>2 DEF QueryInv
  <2>4. ptick - query[w].at <= QueryTtl - 1
    BY <1>1, <1>2, <2>1, <2>3, SlotShort, CacheNumbers
  <2> QED
    BY <1>1, <2>1, <2>3, <2>4
<1>4. CASE ~QueryHit(w)
  <2>1. QueryRead(w) = new
    BY <1>4 DEF QueryRead
  <2>2. new \in [slot : Int, expires : Nat, ver : Nat, at : Nat]
    BY <1>1, <1>2, CacheNumbers
  <2>3. new.slot = new.at \div QueryTtl /\ new.at <= ptick /\ ptick - new.at <= QueryTtl - 1
    BY <1>1, <1>2, CacheNumbers
  <2> QED
    BY <2>1, <2>2, <2>3
<1> QED
  BY <1>3, <1>4

LEMMA RenderKeeps == ASSUME CacheInv, NEW w \in PWorkers, Render(w) PROVE CacheInv'
<1> DEFINE g == gets[w]
           nodes == g.kind = "nodes"
           read == IF nodes THEN QueryRead(w)
                   ELSE [slot |-> 0, expires |-> 0, ver |-> ver, at |-> ptick]
           new == [pc |-> "rendered", key |-> g.key, kind |-> g.kind, floor |-> g.floor, blind |-> g.blind,
                   body |-> [ver |-> read.ver, user |-> g.user, at |-> read.at]]
<1>1. /\ ptick \in Nat /\ ver \in Nat /\ told \in Nat /\ told <= ver /\ gen \in Nat
      /\ gets \in [PWorkers -> PageGets]
      /\ query \in [PWorkers -> [slot : Int, expires : Nat, ver : Nat, at : Nat]]
  BY CacheNumbers DEF CacheInv, CacheShapes
<1>2. /\ g.pc = "miss" /\ g \in PageGets /\ GetInv(g)
  BY <1>1 DEF Render, CacheInv, GetsInv, NoGet
<1>3. /\ g.key \in PageKeys /\ g.kind \in PageKinds /\ g.user \in PageUsers /\ g.floor \in Nat
      /\ g.blind \in BOOLEAN
  BY <1>2 DEF PageGets, NoGet
<1>4. /\ query' = IF nodes THEN [query EXCEPT ![w] = read] ELSE query
      /\ gets' = [gets EXCEPT ![w] = new]
      /\ served' = Silence
      /\ UNCHANGED <<ptick, ver, told, gen, lgen, lru, redis, linked, change, purge, outages>>
  BY DEF Render
<1>5. /\ read.ver \in Nat /\ read.at \in Nat /\ ptick - read.at <= RowsLag(g.kind)
      /\ nodes => /\ read \in [slot : Int, expires : Nat, ver : Nat, at : Nat]
                  /\ read.slot = -1 \/ (read.slot = read.at \div QueryTtl /\ read.at <= ptick)
      /\ ~nodes => read.ver = ver
  <2>1. CASE nodes
    <3>1. read = QueryRead(w)
      BY <2>1
    <3> HIDE DEF read
    <3> QED
      BY <2>1, <3>1, QueryReadIs DEF CacheInv, RowsLag
  <2>2. CASE ~nodes
    BY <1>1, <2>2 DEF RowsLag
  <2> QED
    BY <2>1, <2>2
<1> HIDE DEF read
<1>6. new \in PageGets
  BY <1>3, <1>5 DEF PageGets, PageBodies
<1>7. GetInv(new)
  <2>1. g.kind = "list" => read.ver = ver
    BY <1>5
  <2>2. /\ new.key = g.key /\ new.kind = g.kind /\ new.floor = g.floor /\ new.pc = "rendered"
        /\ new.body.user = g.user /\ new.body.ver = read.ver /\ new.body.at = read.at
    OBVIOUS
  <2> HIDE DEF new
  <2> QED
    BY <1>1, <1>2, <1>3, <1>5, <2>1, <2>2 DEF GetInv
<1> HIDE DEF new
<1>8. CacheShapes'
  <2>1. query' \in [PWorkers -> [slot : Int, expires : Nat, ver : Nat, at : Nat]]
    BY <1>1, <1>4, <1>5
  <2> QED
    BY <1>1, <1>4, <1>6, <2>1 DEF CacheInv, CacheShapes
<1>9. GetsInv'
  <2>1. \A v \in PWorkers : gets'[v] # NoGet => GetInv(gets'[v])
    BY <1>1, <1>4, <1>7 DEF CacheInv, GetsInv
  <2> QED
    BY <1>4, <2>1 DEF GetsInv, GetInv, PageSlot, RowsLag
<1>10. QueryInv'
  BY <1>1, <1>4, <1>5 DEF CacheInv, QueryInv
<1>11. StoresInv'
  BY <1>4 DEF CacheInv, StoresInv, EntryInv, RowsLag
<1>12. ServedInv'
  BY <1>4, CacheNumbers DEF Silence, NoBody, ServedInv, AnsweredIsShown, StaleBounded, OwnPage
<1> QED
  BY <1>8, <1>9, <1>10, <1>11, <1>12 DEF CacheInv

LEMMA LocalSetIs ==
    ASSUME CacheShapes, NEW w \in PWorkers, NEW x \in PageEntries
    PROVE  /\ LocalSet(w, x) \in Seq(PageEntries) /\ Len(LocalSet(w, x)) <= LocalItems
           /\ ToSet(LocalSet(w, x)) \subseteq ToSet(lru[w]) \cup {x}
<1> DEFINE same == {i \in DOMAIN lru[w] : lru[w][i].key = x.key}
           one == CHOOSE i \in same : TRUE
           others == IF same = {} THEN lru[w] ELSE RemoveAt(lru[w], one)
           kept == IF Len(others) < LocalItems THEN others ELSE Tail(others)
<1>1. lru[w] \in Seq(PageEntries) /\ Len(lru[w]) <= LocalItems /\ Len(lru[w]) \in Nat
  BY DEF CacheShapes
<1>2. /\ others \in Seq(PageEntries) /\ Len(others) \in Nat /\ Len(others) <= LocalItems
      /\ ToSet(others) \subseteq ToSet(lru[w])
  <2>1. CASE same = {}
    BY <1>1, <2>1
  <2>2. CASE same # {}
    <3>1. one \in DOMAIN lru[w]
      BY <2>2
    <3> HIDE DEF one
    <3>2. /\ RemoveAt(lru[w], one) \in Seq(PageEntries)
          /\ Len(RemoveAt(lru[w], one)) = Len(lru[w]) - 1
          /\ ToSet(RemoveAt(lru[w], one)) \subseteq ToSet(lru[w])
      BY <1>1, <3>1, RemoveAtIs
    <3>3. others = RemoveAt(lru[w], one)
      BY <2>2
    <3> HIDE DEF others
    <3>4. Len(others) \in Nat
      BY <3>2, <3>3
    <3> QED
      BY <1>1, <3>2, <3>3, <3>4, CacheNumbers
  <2> QED
    BY <2>1, <2>2
<1> HIDE DEF others
<1>3. kept \in Seq(PageEntries) /\ Len(kept) + 1 <= LocalItems /\ ToSet(kept) \subseteq ToSet(others)
  <2>1. CASE Len(others) < LocalItems
    BY <1>2, <2>1, CacheNumbers
  <2>2. CASE ~(Len(others) < LocalItems)
    <3>1. others # <<>>
      BY <1>2, <2>2, CacheNumbers
    <3>2. Tail(others) \in Seq(PageEntries) /\ Len(Tail(others)) = Len(others) - 1
          /\ ToSet(Tail(others)) \subseteq ToSet(others)
      BY <1>2, <3>1, TailIs
    <3> QED
      BY <1>2, <2>2, <3>2, CacheNumbers
  <2> QED
    BY <2>1, <2>2
<1>4. LocalSet(w, x) = Append(kept, x)
  BY DEF LocalSet, others
<1> HIDE DEF kept
<1>5. Append(kept, x) \in Seq(PageEntries) /\ Len(Append(kept, x)) = Len(kept) + 1
      /\ ToSet(Append(kept, x)) = ToSet(kept) \cup {x}
  BY <1>3, AppendIs
<1> QED
  BY <1>2, <1>3, <1>4, <1>5

LEMMA StoreKeeps == ASSUME CacheInv, NEW w \in PWorkers, Store(w) PROVE CacheInv'
<1> DEFINE g == gets[w]
           new == [key |-> g.key, body |-> g.body, expires |-> ptick + PageTtl]
<1>1. /\ ptick \in Nat /\ gen \in Nat /\ told \in Nat
      /\ gets \in [PWorkers -> PageGets] /\ lru \in [PWorkers -> Seq(PageEntries)]
      /\ redis \subseteq PageEntries
  BY CacheNumbers DEF CacheInv, CacheShapes
<1>2. g.pc = "rendered" /\ g \in PageGets /\ GetInv(g)
  BY <1>1 DEF Store, CacheInv, GetsInv, NoGet
<1>3. g.key \in PageKeys /\ g.kind \in PageKinds /\ g.floor \in Nat /\ g.body \in PageBodies
  BY <1>2 DEF PageGets, NoGet
<1>4. /\ CacheSet(w, new)
      /\ served' = [body |-> g.body, user |-> g.body.user, floor |-> g.floor,
                    now |-> ptick, kind |-> g.kind, blind |-> g.blind]
      /\ gets' = [gets EXCEPT ![w] = NoGet]
      /\ UNCHANGED <<ptick, ver, told, gen, lgen, linked, query, change, purge, outages>>
  BY DEF Store
<1>5. new \in PageEntries /\ new.key = g.key /\ new.body = g.body
  BY <1>1, <1>3, CacheNumbers DEF PageEntries
<1> HIDE DEF new
<1>6. EntryInv(new)
  <2>1. ptick \div PageTtl = g.key[2] /\ ptick - g.body.at <= RowsLag(g.key[3])
    BY <1>2 DEF GetInv, PageSlot
  <2>2. \E r \in Nat : r <= ptick /\ r \div PageTtl = g.key[2] /\ r - g.body.at <= RowsLag(g.key[3])
    BY <1>1, <2>1
  <2> QED
    BY <1>2, <1>5, <2>2 DEF EntryInv, GetInv
<1>7. /\ redis' \subseteq redis \cup {new} /\ lru' \in [PWorkers -> Seq(PageEntries)]
      /\ \A v \in PWorkers : /\ ToSet(lru'[v]) \subseteq ToSet(lru[v]) \cup {new}
                             /\ Len(lru'[v]) <= LocalItems
  <2>1. CASE linked[w]
    <3>1. redis' \subseteq redis \cup {new} /\ lru' = lru
      BY <1>4, <2>1 DEF CacheSet, Unexpired
    <3> QED
      BY <1>1, <3>1 DEF CacheInv, CacheShapes
  <2>2. CASE ~linked[w]
    <3>1. redis' = redis /\ lru' = [lru EXCEPT ![w] = LocalSet(w, new)]
      BY <1>4, <2>2 DEF CacheSet
    <3>2. /\ LocalSet(w, new) \in Seq(PageEntries) /\ Len(LocalSet(w, new)) <= LocalItems
          /\ ToSet(LocalSet(w, new)) \subseteq ToSet(lru[w]) \cup {new}
      BY <1>5, LocalSetIs DEF CacheInv
    <3> QED
      BY <1>1, <3>1, <3>2 DEF CacheInv, CacheShapes
  <2> QED
    BY <2>1, <2>2
<1>8. CacheShapes'
  <2>1. redis' \subseteq PageEntries
    BY <1>1, <1>5, <1>7
  <2>2. gets' \in [PWorkers -> PageGets]
    BY <1>1, <1>4 DEF PageGets
  <2> QED
    BY <1>4, <1>7, <2>1, <2>2 DEF CacheInv, CacheShapes
<1>9. StoresInv'
  <2>1. \A x \in redis' : EntryInv(x)
    BY <1>6, <1>7 DEF CacheInv, StoresInv
  <2>2. \A v \in PWorkers : \A x \in ToSet(lru'[v]) : EntryInv(x)
    BY <1>6, <1>7 DEF CacheInv, StoresInv
  <2> QED
    BY <1>4, <2>1, <2>2 DEF StoresInv, EntryInv, RowsLag
<1>10. GetsInv' /\ QueryInv'
  BY <1>1, <1>4 DEF CacheInv, GetsInv, GetInv, QueryInv, PageSlot, RowsLag
<1>11. ServedInv'
  <2>1. AnsweredIsShown' /\ OwnPage'
    BY <1>2, <1>4 DEF AnsweredIsShown, OwnPage, GetInv
  <2>2. ptick - g.body.at <= RowsLag(g.kind)
    BY <1>2 DEF GetInv
  <2>3. RowsLag(g.kind) \in Nat /\ g.body.at \in Nat
    BY <1>3, CacheNumbers DEF RowsLag, PageBodies
  <2>4. ptick - g.body.at <= (PageTtl - 1) + RowsLag(g.kind)
    <3>1. PageTtl \in Nat \ {0} /\ ptick \in Nat
      BY <1>1, CacheNumbers
    <3> QED
      BY ONLY <2>2, <2>3, <3>1
  <2>5. StaleBounded'
    BY <1>4, <2>4 DEF StaleBounded, RowsLag
  <2> QED
    BY <2>1, <2>5 DEF ServedInv
<1> QED
  BY <1>8, <1>9, <1>10, <1>11 DEF CacheInv

LEMMA CacheStepKeeps == ASSUME CacheInv, NoneAhead, CacheNext PROVE CacheInv'
  BY CacheTickKeeps, PurgesKeep, GetPageKeeps, GetBlindKeeps, RenderKeeps, StoreKeeps, ChangesKeep,
     RedisKeeps
  DEF CacheNext

LEMMA CacheStutters == ASSUME CacheInv, UNCHANGED cacheVars PROVE CacheInv'
<1>1. CacheShapes'
  BY DEF CacheInv, CacheShapes, cacheVars
<1>2. StoresInv' /\ GetsInv' /\ QueryInv' /\ ServedInv'
  BY DEF CacheInv, StoresInv, EntryInv, GetsInv, GetInv, QueryInv, ServedInv, AnsweredIsShown,
         StaleBounded, OwnPage, cacheVars, PageSlot, RowsLag
<1> QED
  BY <1>1, <1>2 DEF CacheInv

LEMMA CacheImplies ==
    ASSUME CacheInv PROVE CacheTypeOK /\ AnsweredIsShown /\ StaleBounded /\ OwnPage
<1>1. ver \in 0..MaxChanges + 1
  BY CacheNumbers DEF CacheInv, CacheShapes
<1> QED
  BY <1>1 DEF CacheInv, CacheShapes, ServedInv, CacheTypeOK

\* A process raises its own generation with the one in the database, unless that fails.
LEMMA NobodyGetsAhead ==
    ASSUME CacheShapes, \A w \in PWorkers : lgen[w] <= gen,
           (CacheNext /\ \A w \in PWorkers : ~RaiseFails(w)) \/ UNCHANGED cacheVars
    PROVE  \A w \in PWorkers : lgen'[w] <= gen'
<1>1. gen \in Nat /\ lgen \in [PWorkers -> Nat \ {0}]
  BY DEF CacheShapes
<1>2. \/ lgen' = lgen /\ gen' \in {gen, gen + 1}
      \/ \E w \in PWorkers : lgen' = [lgen EXCEPT ![w] = lgen[w] + 1] /\ gen' = gen + 1
  BY ZenonT(40) DEF CacheNext, CacheTick, PurgeRaises, PurgeCommits, GetPage, GetBlind, Get, Render, Store,
         ChangeCommits, ChangeAnswered, Raise, RedisLost, RedisBack, cacheVars
<1> QED
  BY <1>1, <1>2

\* With one outage, the request that lost the database was before any failed raise.
LEMMA OneOutage ==
    ASSUME CacheShapes, MaxOutages <= 1, NoneAhead, CacheNext \/ UNCHANGED cacheVars
    PROVE  NoneAhead'
<1> SUFFICES ASSUME outages' < MaxOutages PROVE \A w \in PWorkers : lgen'[w] <= gen'
  BY DEF NoneAhead, cacheVars
<1>1. outages \in Nat /\ outages' \in {outages, outages + 1}
  BY ZenonT(40) DEF CacheShapes, CacheNext, CacheTick, PurgeRaises, PurgeCommits, GetPage, GetBlind, Get, Render, Store,
         ChangeCommits, ChangeAnswered, Raise, RaiseFails, RedisLost, RedisBack, cacheVars
<1>2. outages' = outages /\ outages < MaxOutages
  BY <1>1, CacheNumbers
<1>3. \A w \in PWorkers : ~RaiseFails(w)
  BY <1>1, <1>2 DEF RaiseFails
<1> QED
  BY <1>2, <1>3, NobodyGetsAhead DEF NoneAhead

(***************************************************************************)
(* The pool                                                                *)
(***************************************************************************)
DbRows == Threads \X (0..MaxUnits) \X (1..MaxRows)
Connections == [tx : {"idle", "open", "failed", "broken"}, pending : SUBSET DbRows]
Wrappers == [raw : Raws, closed : BOOLEAN]
Units == [number : 0..MaxUnits, rows : SUBSET DbRows, raised : BOOLEAN]

\* The rows a thread can write in its unit of a number.
RowsOf(t, n) == {<<t, n, k>> : k \in 1..MaxRows}

DbShapes ==
    /\ raws \in [Raws -> Connections]
    /\ free \subseteq Raws
    /\ wraps \in [Threads -> Seq(Wrappers)]
    /\ unit \in [Threads -> Units]
    /\ stored \subseteq DbRows
    /\ broken \in 0..MaxBroken

\* A connection in the pool is as new, every other one has one holder.
Opened(t, k) == k \in DOMAIN wraps[t] /\ ~wraps[t][k].closed
PoolInv ==
    /\ \A r \in free : raws[r] = Fresh
    /\ \A t \in Threads : \A k \in DOMAIN wraps[t] : Opened(t, k) => wraps[t][k].raw \notin free
    /\ \A s, t \in Threads : \A j \in DOMAIN wraps[s], k \in DOMAIN wraps[t] :
          Opened(s, j) /\ Opened(t, k) /\ wraps[s][j].raw = wraps[t][k].raw => s = t /\ j = k
    /\ \A r \in Raws \ free : \E t \in Threads : \E k \in DOMAIN wraps[t] :
          Opened(t, k) /\ wraps[t][k].raw = r

\* What the connection a thread works on knows of its unit.
Fits(con, one) ==
    /\ con.tx = "idle" => con.pending = {} /\ one.rows = {} /\ ~one.raised
    /\ con.tx = "open" => con.pending = one.rows /\ ~one.raised
    /\ con.tx = "failed" => one.raised
    /\ con.tx = "broken" => con.pending = {}

\* An outer wrapper is open, with a transaction that has read, and a thread without a
\* wrapper to work on has no unit.
WorkInv ==
    \A t \in Threads :
        /\ Len(wraps[t]) <= 2
        /\ Uses(t) => Fits(raws[RawOf(t)], unit[t])
        /\ ~Uses(t) => unit[t].rows = {} /\ ~unit[t].raised
        /\ Len(wraps[t]) = 2 =>
              /\ ~wraps[t][1].closed
              /\ raws[wraps[t][1].raw].tx \in {"open", "broken"}
              /\ raws[wraps[t][1].raw].pending = {}

\* Rows are of the unit that runs or of an earlier one, and what is stored or ended is
\* of an earlier one.
UnitInv ==
    /\ \A t \in Threads :
          /\ unit[t].rows \subseteq RowsOf(t, unit[t].number)
          /\ unit[t].rows # {} => unit[t].number < MaxUnits
    /\ \A row \in stored : row[2] < unit[row[1]].number
    /\ \A one \in ended :
          /\ one.rows # {}
          /\ \E t \in Threads : \E n \in 0..MaxUnits :
                n < unit[t].number /\ one.rows \subseteq RowsOf(t, n)

DbInv == DbShapes /\ PoolInv /\ WorkInv /\ UnitInv /\ UnitsAreAtomic

LEMMA DbNumbers == PoolMax \in Nat /\ MaxUnits \in Nat /\ MaxRows \in Nat /\ MaxBroken \in Nat
  BY DbConstants

\* The wrapper a thread works with.
LEMMA UsesIs ==
    ASSUME DbShapes, NEW t \in Threads, Uses(t)
    PROVE  /\ Len(wraps[t]) \in DOMAIN wraps[t] /\ RawOf(t) = wraps[t][Len(wraps[t])].raw
           /\ Opened(t, Len(wraps[t])) /\ RawOf(t) \in Raws
<1>1. wraps[t] \in Seq(Wrappers) /\ wraps[t] # <<>>
  BY DEF DbShapes, Uses
<1>2. Len(wraps[t]) \in Nat /\ Len(wraps[t]) # 0 /\ DOMAIN wraps[t] = 1..Len(wraps[t])
  BY <1>1, EmptySeq, LenProperties
<1>3. Len(wraps[t]) \in DOMAIN wraps[t]
  BY <1>2
<1>4. wraps[t][Len(wraps[t])] \in Wrappers
  BY <1>1, <1>3, ElementOfSeq, <1>2
<1> QED
  BY <1>3, <1>4 DEF Uses, RawOf, Last, Opened, Wrappers

\* The outer of two wrappers.
LEMMA OuterIs ==
    ASSUME DbShapes, NEW t \in Threads, Len(wraps[t]) = 2
    PROVE  /\ DOMAIN wraps[t] = {1, 2} /\ wraps[t][1] \in Wrappers /\ wraps[t][1].raw \in Raws
           /\ wraps[t] # <<>>
<1>1. wraps[t] \in Seq(Wrappers)
  BY DEF DbShapes
<1>2. DOMAIN wraps[t] = 1..2 /\ wraps[t] # <<>>
  BY <1>1
<1>3. wraps[t][1] \in Wrappers
  BY <1>1, <1>2, ElementOfSeq
<1> QED
  BY <1>2, <1>3 DEF Wrappers

LEMMA OneMore ==
    ASSUME NEW S, NEW seq \in Seq(S), NEW e \in S
    PROVE  /\ seq \o <<e>> \in Seq(S) /\ Len(seq \o <<e>>) = Len(seq) + 1
           /\ DOMAIN (seq \o <<e>>) = 1..(Len(seq) + 1)
           /\ (seq \o <<e>>)[Len(seq) + 1] = e
           /\ \A k \in 1..Len(seq) : (seq \o <<e>>)[k] = seq[k]
  OBVIOUS

LEMMA WrapperIs ==
    ASSUME DbShapes, NEW t \in Threads, NEW k \in DOMAIN wraps[t]
    PROVE  wraps[t][k] \in Wrappers /\ wraps[t][k].raw \in Raws
<1>1. wraps[t] \in Seq(Wrappers)
  BY DEF DbShapes
<1>2. k \in 1..Len(wraps[t])
  BY <1>1
<1>3. wraps[t][k] \in Wrappers
  BY <1>1, <1>2, ElementOfSeq
<1> QED
  BY <1>3 DEF Wrappers

LEMMA RowsOfFinite ==
    ASSUME NEW t, NEW n, NEW rows, rows \subseteq RowsOf(t, n)
    PROVE  IsFiniteSet(rows) /\ Cardinality(rows) \in Nat
<1> DEFINE tuple == [k \in 1..MaxRows |-> <<t, n, k>>]
<1>1. IsFiniteSet(1..MaxRows)
  BY FS_Interval, DbNumbers
<1>2. tuple \in Surjection(1..MaxRows, RowsOf(t, n))
  BY DEF Surjection, RowsOf
<1>3. IsFiniteSet(RowsOf(t, n))
  BY <1>1, <1>2, FS_Surjection
<1> QED
  BY <1>3, FS_Subset, FS_CardinalityType

LEMMA DbStutters == ASSUME DbInv, UNCHANGED dbVars PROVE DbInv'
<1>1. UNCHANGED <<raws, free, wraps, unit, stored, ended, broken>>
  BY DEF dbVars
<1>2. DbShapes' /\ UnitInv' /\ UnitsAreAtomic'
  BY <1>1 DEF DbInv, DbShapes, UnitInv, UnitsAreAtomic
<1>3. PoolInv'
  BY <1>1 DEF DbInv, PoolInv, Opened
<1>4. WorkInv'
  BY <1>1 DEF DbInv, WorkInv, Uses, RawOf
<1> QED
  BY <1>2, <1>3, <1>4 DEF DbInv

LEMMA DbInitially == ASSUME DbInit PROVE DbInv
<1>1. Fresh \in Connections
  BY DEF Fresh, Connections
<1>2. <<>> \in Seq(Wrappers)
  OBVIOUS
<1>3. [number |-> 0, rows |-> {}, raised |-> FALSE] \in Units
  BY DbNumbers DEF Units
<1>4. DbShapes
  BY <1>1, <1>2, <1>3, DbNumbers DEF DbInit, DbShapes
<1>5. PoolInv
  BY DEF DbInit, PoolInv, Opened
<1>6. WorkInv
  BY DEF DbInit, WorkInv, Uses
<1>7. UnitInv /\ UnitsAreAtomic
  BY DEF DbInit, UnitInv, UnitsAreAtomic
<1> QED
  BY <1>4, <1>5, <1>6, <1>7 DEF DbInv

\* A thread works on its connection: what this may do to the connection and the unit.
LEMMA WorkKeeps ==
    ASSUME DbInv, NEW t \in Threads, Uses(t), NEW con \in Connections, NEW one \in Units,
           raws' = [raws EXCEPT ![RawOf(t)] = con], unit' = [unit EXCEPT ![t] = one],
           UNCHANGED <<free, wraps>>, Fits(con, one)
    PROVE  PoolInv' /\ WorkInv' /\ raws' \in [Raws -> Connections] /\ unit' \in [Threads -> Units]
<1> DEFINE last == Len(wraps[t])
<1>1. DbShapes /\ PoolInv /\ WorkInv
  BY DEF DbInv
<1>2. last \in DOMAIN wraps[t] /\ RawOf(t) = wraps[t][last].raw /\ Opened(t, last)
      /\ RawOf(t) \in Raws
  BY <1>1, UsesIs
<1>3. raws' \in [Raws -> Connections] /\ unit' \in [Threads -> Units]
  BY <1>1, <1>2 DEF DbShapes
<1>4. RawOf(t) \notin free
  BY <1>1, <1>2 DEF PoolInv
<1>5. PoolInv'
  BY <1>1, <1>4 DEF PoolInv, Opened, DbShapes
<1>6. WorkInv'
  <2> SUFFICES ASSUME NEW s \in Threads
               PROVE  /\ Len(wraps[s]) <= 2
                      /\ Uses(s) => Fits(raws'[RawOf(s)], unit'[s])
                      /\ ~Uses(s) => unit'[s].rows = {} /\ ~unit'[s].raised
                      /\ Len(wraps[s]) = 2 =>
                            /\ ~wraps[s][1].closed
                            /\ raws'[wraps[s][1].raw].tx \in {"open", "broken"}
                            /\ raws'[wraps[s][1].raw].pending = {}
    BY DEF WorkInv, Uses, RawOf
  <2>1. Len(wraps[s]) <= 2
    BY <1>1 DEF WorkInv
  <2>2. Uses(s) => Fits(raws'[RawOf(s)], unit'[s])
    <3>1. CASE s = t
      BY <3>1, <1>1, <1>2 DEF DbShapes
    <3>2. CASE s # t
      <4> SUFFICES ASSUME Uses(s) PROVE Fits(raws'[RawOf(s)], unit'[s])
        OBVIOUS
      <4>1. RawOf(s) # RawOf(t) /\ RawOf(s) \in Raws
        BY <3>2, <1>1, <1>2, UsesIs DEF PoolInv
      <4>2. raws'[RawOf(s)] = raws[RawOf(s)] /\ unit'[s] = unit[s]
        BY <3>2, <4>1, <1>1 DEF DbShapes
      <4> QED
        BY <4>2, <1>1 DEF WorkInv
    <3> QED
      BY <3>1, <3>2
  <2>3. ~Uses(s) => unit'[s].rows = {} /\ ~unit'[s].raised
    <3>1. CASE s = t
      BY <3>1
    <3>2. CASE s # t
      BY <3>2, <1>1 DEF WorkInv, DbShapes
    <3> QED
      BY <3>1, <3>2
  <2>4. ASSUME Len(wraps[s]) = 2
        PROVE  /\ ~wraps[s][1].closed
               /\ raws'[wraps[s][1].raw].tx \in {"open", "broken"}
               /\ raws'[wraps[s][1].raw].pending = {}
    <3>1. ~wraps[s][1].closed /\ 1 \in DOMAIN wraps[s] /\ wraps[s] \in Seq(Wrappers)
      BY <2>4, <1>1 DEF WorkInv, DbShapes
    <3>2. wraps[s][1].raw # RawOf(t)
      BY <3>1, <2>4, <1>1, <1>2 DEF PoolInv, Opened
    <3>3. wraps[s][1].raw \in Raws
      <4>1. wraps[s][1] \in Wrappers
        BY <3>1, <2>4, ElementOfSeq
      <4> QED
        BY <4>1 DEF Wrappers
    <3>4. raws'[wraps[s][1].raw] = raws[wraps[s][1].raw]
      BY <3>2, <3>3, <1>1 DEF DbShapes
    <3> QED
      BY <3>1, <3>4, <2>4, <1>1 DEF WorkInv
  <2> QED
    BY <2>1, <2>2, <2>3, <2>4
<1> QED
  BY <1>3, <1>5, <1>6

LEMMA RowOfIs ==
    ASSUME NEW t, NEW n, NEW rows, rows \subseteq RowsOf(t, n), NEW row \in rows
    PROVE  row[1] = t /\ row[2] = n
  BY DEF RowsOf

LEMMA UnitIs ==
    ASSUME DbShapes, NEW t \in Threads
    PROVE  unit[t].number \in Nat /\ unit[t].number \in 0..MaxUnits
           /\ unit[t].rows \subseteq DbRows /\ unit[t].raised \in BOOLEAN
  BY DbNumbers DEF DbShapes, Units

LEMMA StoredIs ==
    ASSUME DbShapes, NEW row \in stored
    PROVE  row[1] \in Threads /\ row[2] \in Nat
  BY DbNumbers DEF DbShapes, DbRows

\* A unit ends: its rows are new to the database and to the units that ended before.
UnitEnds(t, how, one) ==
    /\ one \in Units /\ one.rows = {}
    /\ one.number = IF unit[t].rows = {} THEN unit[t].number ELSE unit[t].number + 1
    /\ unit' = [unit EXCEPT ![t] = one] /\ ended' = Ended(t, how)
    /\ stored' \in {stored, stored \cup unit[t].rows}
    /\ how = "committed" /\ unit[t].rows # {} =>
          stored' = IF unit[t].raised THEN stored ELSE stored \cup unit[t].rows
    /\ how \in {"rolled back", "closed"} => stored' = stored

LEMMA EndKeeps ==
    ASSUME DbInv, NEW t \in Threads, NEW how, NEW one, UnitEnds(t, how, one)
    PROVE  UnitInv' /\ UnitsAreAtomic' /\ stored' \subseteq DbRows
<1> DEFINE rows == unit[t].rows
           ending == [how |-> how, rows |-> rows, raised |-> unit[t].raised]
<1>1. DbShapes /\ UnitInv /\ UnitsAreAtomic
  BY DEF DbInv
<1>2. unit[t] \in Units /\ unit[t].number \in 0..MaxUnits /\ rows \subseteq RowsOf(t, unit[t].number)
  BY <1>1, UnitIs DEF DbShapes, UnitInv
<1>3. \A row \in rows : row[1] = t /\ row[2] = unit[t].number
  BY <1>2, RowOfIs
<1>4. rows \cap stored = {}
  <2> SUFFICES ASSUME NEW row \in rows, row \in stored PROVE FALSE
    OBVIOUS
  <2>1. row[2] < unit[row[1]].number
    BY <1>1 DEF UnitInv
  <2> QED
    BY <2>1, <1>3, <1>2
<1>5. \A two \in ended : two.rows \cap rows = {}
  <2> SUFFICES ASSUME NEW two \in ended, NEW row \in two.rows, row \in rows PROVE FALSE
    OBVIOUS
  <2>1. PICK s \in Threads, n \in 0..MaxUnits : n < unit[s].number /\ two.rows \subseteq RowsOf(s, n)
    BY <1>1 DEF UnitInv
  <2>2. row[1] = s /\ row[2] = n
    BY <2>1, RowOfIs
  <2>3. s = t /\ n = unit[t].number
    BY <2>2, <1>3
  <2> QED
    BY <2>1, <2>3, <1>2
<1>6. \A s \in Threads : /\ unit'[s] = IF s = t THEN one ELSE unit[s]
                         /\ unit[s].number \in Nat /\ unit'[s].number \in Nat
                         /\ unit[s].number <= unit'[s].number
                         /\ s = t /\ rows # {} => unit[s].number < unit'[s].number
  <2> SUFFICES ASSUME NEW s \in Threads
               PROVE  /\ unit'[s] = IF s = t THEN one ELSE unit[s]
                      /\ unit[s].number \in Nat /\ unit'[s].number \in Nat
                      /\ unit[s].number <= unit'[s].number
                      /\ s = t /\ rows # {} => unit[s].number < unit'[s].number
    OBVIOUS
  <2>1. unit'[s] = IF s = t THEN one ELSE unit[s]
    BY <1>1 DEF DbShapes, UnitEnds
  <2>2. unit[s].number \in Nat
    BY <1>1, UnitIs
  <2>3. s = t => one.number \in Nat /\ unit[s].number <= one.number
                 /\ (rows # {} => unit[s].number < one.number)
    <3>1. /\ rows = {} => one.number = unit[t].number
          /\ rows # {} => one.number = unit[t].number + 1
      BY DEF UnitEnds
    <3> QED
      BY <2>2, <3>1
  <2> QED
    BY <2>1, <2>2, <2>3
<1>7. stored' \subseteq DbRows
  BY <1>1, <1>2, UnitIs DEF DbShapes, UnitEnds
<1>8. UnitInv'
  <2>1. ASSUME NEW s \in Threads
        PROVE  /\ unit'[s].rows \subseteq RowsOf(s, unit'[s].number)
               /\ unit'[s].rows # {} => unit'[s].number < MaxUnits
    BY <1>1, <1>6 DEF UnitInv, UnitEnds
  <2>2. ASSUME NEW row \in stored' PROVE row[2] < unit'[row[1]].number
    <3>1. CASE row \in stored
      <4>1. row[1] \in Threads /\ row[2] \in Nat
        BY <3>1, <1>1, StoredIs
      <4>2. row[2] < unit[row[1]].number
        BY <3>1, <1>1 DEF UnitInv
      <4> QED
        BY <4>1, <4>2, <1>6
    <3>2. CASE row \in rows
      <4>1. row[1] = t /\ row[2] = unit[t].number
        BY <3>2, <1>3
      <4> QED
        BY <4>1, <3>2, <1>6
    <3> QED
      BY <2>2, <3>1, <3>2 DEF UnitEnds
  <2>3. ASSUME NEW two \in ended'
        PROVE  /\ two.rows # {}
               /\ \E s \in Threads : \E n \in 0..MaxUnits :
                     n < unit'[s].number /\ two.rows \subseteq RowsOf(s, n)
    <3>1. CASE two \in ended
      <4>1. PICK s \in Threads, n \in 0..MaxUnits :
               n < unit[s].number /\ two.rows \subseteq RowsOf(s, n)
        BY <3>1, <1>1 DEF UnitInv
      <4>2. n < unit'[s].number
        BY <4>1, <1>6
      <4> QED
        BY <4>1, <4>2, <3>1, <1>1 DEF UnitInv
    <3>2. CASE rows # {} /\ two = ending
      BY <3>2, <1>2, <1>6
    <3> QED
      BY <2>3, <3>1, <3>2 DEF Ended, UnitEnds
  <2> QED
    BY <2>1, <2>2, <2>3 DEF UnitInv, RowsOf
<1>9. UnitsAreAtomic'
  <2> SUFFICES ASSUME NEW two \in ended'
               PROVE  /\ two.rows \cap stored' \in {{}, two.rows}
                      /\ two.how = "committed" => (two.rows \subseteq stored' <=> ~two.raised)
                      /\ two.how \in {"rolled back", "closed"} => two.rows \cap stored' = {}
    BY DEF UnitsAreAtomic
  <2>1. CASE two \in ended
    <3>1. two.rows \cap stored' = two.rows \cap stored
      BY <2>1, <1>5 DEF UnitEnds
    <3>2. two.rows \subseteq stored' <=> two.rows \subseteq stored
      BY <3>1
    <3> QED
      BY <3>1, <3>2, <2>1, <1>1 DEF UnitsAreAtomic
  <2>2. CASE rows # {} /\ two = ending
    <3>1. two.rows = rows /\ two.how = how /\ two.raised = unit[t].raised
      BY <2>2
    <3>2. unit[t].raised \in BOOLEAN
      BY <1>1, UnitIs
    <3> QED
      BY <3>1, <3>2, <2>2, <1>4 DEF UnitEnds
  <2> QED
    BY <2>1, <2>2 DEF Ended, UnitEnds
<1> QED
  BY <1>7, <1>8, <1>9

\* What a thread's connection and unit are when it works.
LEMMA WorksOn ==
    ASSUME DbInv, NEW t \in Threads, Uses(t)
    PROVE  /\ RawOf(t) \in Raws /\ raws[RawOf(t)] \in Connections
           /\ unit[t] \in Units /\ Fits(raws[RawOf(t)], unit[t])
  BY UsesIs DEF DbInv, DbShapes, WorkInv

LEMMA SelectKeeps == ASSUME DbInv, NEW t \in Threads, Select(t) PROVE DbInv'
<1> DEFINE con == [raws[RawOf(t)] EXCEPT !.tx = "open"]
<1>1. /\ Uses(t) /\ raws[RawOf(t)].tx = "idle" /\ raws' = [raws EXCEPT ![RawOf(t)] = con]
      /\ UNCHANGED <<free, wraps, unit, stored, ended, broken>>
  BY DEF Select
<1>2. /\ RawOf(t) \in Raws /\ raws[RawOf(t)] \in Connections
      /\ unit[t] \in Units /\ Fits(raws[RawOf(t)], unit[t])
  BY <1>1, WorksOn
<1>3. con \in Connections /\ con.tx = "open" /\ con.pending = raws[RawOf(t)].pending
  BY <1>2 DEF Connections
<1>4. Fits(con, unit[t])
  BY <1>1, <1>2, <1>3 DEF Fits
<1>5. unit' = [unit EXCEPT ![t] = unit[t]]
  BY <1>1 DEF DbInv, DbShapes
<1>6. PoolInv' /\ WorkInv' /\ raws' \in [Raws -> Connections]
  BY <1>1, <1>2, <1>3, <1>4, <1>5, WorkKeeps
<1> QED
  BY <1>1, <1>6 DEF DbInv, DbShapes, UnitInv, UnitsAreAtomic

LEMMA StatementFailsKeeps == ASSUME DbInv, NEW t \in Threads, StatementFails(t) PROVE DbInv'
<1> DEFINE con == [raws[RawOf(t)] EXCEPT !.tx = IF @ = "broken" THEN @ ELSE "failed"]
           one == [unit[t] EXCEPT !.raised = TRUE]
<1>1. /\ Uses(t) /\ raws' = [raws EXCEPT ![RawOf(t)] = con] /\ unit' = [unit EXCEPT ![t] = one]
      /\ UNCHANGED <<free, wraps, stored, ended, broken>>
  BY DEF StatementFails
<1>2. /\ RawOf(t) \in Raws /\ raws[RawOf(t)] \in Connections
      /\ unit[t] \in Units /\ Fits(raws[RawOf(t)], unit[t])
  BY <1>1, WorksOn
<1>3. /\ con \in Connections /\ con.tx \in {"failed", "broken"}
      /\ con.tx = "broken" => raws[RawOf(t)].tx = "broken" /\ con.pending = raws[RawOf(t)].pending
  BY <1>2 DEF Connections
<1>4. one \in Units /\ one.raised /\ one.rows = unit[t].rows /\ one.number = unit[t].number
  BY <1>2 DEF Units
<1>5. Fits(con, one)
  BY <1>2, <1>3, <1>4 DEF Fits
<1>6. PoolInv' /\ WorkInv' /\ raws' \in [Raws -> Connections] /\ unit' \in [Threads -> Units]
  BY <1>1, <1>2, <1>3, <1>4, <1>5, WorkKeeps
<1>7. \A s \in Threads : unit'[s].rows = unit[s].rows /\ unit'[s].number = unit[s].number
  BY <1>1, <1>4 DEF DbInv, DbShapes
<1>8. DbShapes' /\ UnitsAreAtomic'
  BY <1>1, <1>6 DEF DbInv, DbShapes, UnitsAreAtomic
<1>9. UnitInv'
  <2>1. \A row \in stored : row[1] \in Threads
    BY DEF DbInv, DbShapes, DbRows
  <2> QED
    BY <1>1, <1>7, <2>1 DEF DbInv, UnitInv, RowsOf
<1> QED
  BY <1>6, <1>8, <1>9 DEF DbInv

LEMMA WriteKeeps == ASSUME DbInv, NEW t \in Threads, NEW n \in 1..MaxRows, Write(t, n) PROVE DbInv'
<1> DEFINE size == Cardinality(unit[t].rows)
           new == {<<t, unit[t].number, size + k>> : k \in 1..n}
           con == [raws[RawOf(t)] EXCEPT !.tx = "open", !.pending = @ \cup new]
           one == [unit[t] EXCEPT !.rows = @ \cup new]
<1>1. /\ Uses(t) /\ raws[RawOf(t)].tx \in {"idle", "open"} /\ unit[t].number < MaxUnits
      /\ size + n <= MaxRows /\ unit' = [unit EXCEPT ![t] = one]
      /\ UNCHANGED <<free, wraps, stored, ended, broken>>
  BY DEF Write
<1>2. /\ RawOf(t) \in Raws /\ raws[RawOf(t)] \in Connections
      /\ unit[t] \in Units /\ Fits(raws[RawOf(t)], unit[t])
  BY <1>1, WorksOn
<1>3. raws' = [raws EXCEPT ![RawOf(t)] = con]
  <2>1. raws' = [raws EXCEPT ![RawOf(t)].tx = "open", ![RawOf(t)].pending = @ \cup new]
    BY DEF Write
  <2> HIDE DEF new
  <2>2. raws \in [Raws -> Connections]
    BY DEF DbInv, DbShapes
  <2> QED
    BY <2>1, <2>2, <1>2
<1>4. /\ unit[t].number \in 0..MaxUnits /\ unit[t].rows \subseteq RowsOf(t, unit[t].number)
      /\ unit[t].rows \subseteq DbRows /\ size \in Nat
  BY UnitIs, RowsOfFinite DEF DbInv, UnitInv
<1>5. new \subseteq RowsOf(t, unit[t].number) /\ new \subseteq DbRows
  <2> SUFFICES ASSUME NEW k \in 1..n PROVE size + k \in 1..MaxRows
    BY <1>4 DEF RowsOf, DbRows
  <2> HIDE DEF size
  <2> QED
    BY <1>1, <1>4, DbNumbers
<1> HIDE DEF new
<1>6. /\ one \in Units /\ one.number = unit[t].number /\ one.raised = unit[t].raised
      /\ one.rows = unit[t].rows \cup new
  BY <1>2, <1>5 DEF Units
<1>7. con \in Connections /\ con.tx = "open" /\ con.pending = raws[RawOf(t)].pending \cup new
  BY <1>2, <1>5 DEF Connections
<1>8. Fits(con, one)
  <2>1. raws[RawOf(t)].pending = unit[t].rows /\ ~unit[t].raised
    BY <1>1, <1>2 DEF Fits
  <2> QED
    BY <2>1, <1>6, <1>7 DEF Fits
<1>9. PoolInv' /\ WorkInv' /\ raws' \in [Raws -> Connections] /\ unit' \in [Threads -> Units]
  BY <1>1, <1>3, <1>6, <1>7, <1>8, WorkKeeps
<1>10. DbShapes' /\ UnitsAreAtomic'
  BY <1>1, <1>9 DEF DbInv, DbShapes, UnitsAreAtomic
<1>11. \A s \in Threads : /\ unit'[s].number = unit[s].number
                          /\ unit'[s].rows = IF s = t THEN unit[t].rows \cup new ELSE unit[s].rows
  BY <1>1, <1>6 DEF DbInv, DbShapes
<1>12. UnitInv'
  <2>1. \A row \in stored : row[1] \in Threads
    BY StoredIs DEF DbInv
  <2>2. \A s \in Threads : unit'[s].rows \subseteq RowsOf(s, unit'[s].number)
    BY <1>11, <1>4, <1>5 DEF DbInv, UnitInv
  <2>3. \A s \in Threads : unit'[s].rows # {} => unit'[s].number < MaxUnits
    BY <1>11, <1>1 DEF DbInv, UnitInv
  <2> QED
    BY <1>1, <1>11, <2>1, <2>2, <2>3 DEF DbInv, UnitInv, RowsOf
<1> QED
  BY <1>9, <1>10, <1>12 DEF DbInv

\* The unit a thread starts when one has ended.
LEMMA NextUnitIs ==
    ASSUME DbInv, NEW t \in Threads
    PROVE  /\ NextUnit(t) = [unit EXCEPT ![t] = NextUnit(t)[t]]
           /\ NextUnit(t)[t] \in Units /\ NextUnit(t)[t].rows = {} /\ ~NextUnit(t)[t].raised
           /\ NextUnit(t)[t].number = IF unit[t].rows = {} THEN unit[t].number ELSE unit[t].number + 1
<1> DEFINE number == IF unit[t].rows = {} THEN unit[t].number ELSE unit[t].number + 1
           one == [number |-> number, rows |-> {}, raised |-> FALSE]
<1>1. number \in 0..MaxUnits
  <2>1. unit[t].number \in 0..MaxUnits /\ (unit[t].rows # {} => unit[t].number < MaxUnits)
    BY UnitIs DEF DbInv, UnitInv
  <2>2. CASE unit[t].rows = {}
    BY <2>1, <2>2
  <2>3. CASE unit[t].rows # {}
    BY <2>1, <2>3, DbNumbers
  <2> QED
    BY <2>2, <2>3
<1>2. NextUnit(t) = [unit EXCEPT ![t] = one]
  BY DEF NextUnit
<1>3. unit \in [Threads -> Units]
  BY DEF DbInv, DbShapes
<1> HIDE DEF number
<1>4. NextUnit(t)[t] = one /\ one \in Units
  BY <1>1, <1>2, <1>3 DEF Units
<1>5. NextUnit(t)[t].number = number
  BY <1>4
<1>6. NextUnit(t)[t].rows = {} /\ ~NextUnit(t)[t].raised
  BY <1>4
<1>7. NextUnit(t) = [unit EXCEPT ![t] = NextUnit(t)[t]]
  BY <1>2, <1>4
<1> HIDE DEF one
<1>8. NextUnit(t)[t] \in Units
  BY <1>4
<1> QED
  BY <1>5, <1>6, <1>7, <1>8 DEF number

LEMMA CommitDbKeeps == ASSUME DbInv, NEW t \in Threads, commit(t) PROVE DbInv'
<1> DEFINE con == raws[RawOf(t)]
           one == NextUnit(t)[t]
<1>1. /\ Uses(t) /\ con.tx # "broken" /\ raws' = [raws EXCEPT ![RawOf(t)] = Fresh]
      /\ stored' = IF con.tx = "open" THEN stored \cup con.pending ELSE stored
      /\ ended' = Ended(t, "committed") /\ unit' = NextUnit(t) /\ UNCHANGED <<free, wraps, broken>>
  BY DEF commit
<1>2. RawOf(t) \in Raws /\ con \in Connections /\ unit[t] \in Units /\ Fits(con, unit[t])
  BY <1>1, WorksOn
<1>3. /\ NextUnit(t) = [unit EXCEPT ![t] = one] /\ one \in Units /\ one.rows = {} /\ ~one.raised
      /\ one.number = IF unit[t].rows = {} THEN unit[t].number ELSE unit[t].number + 1
  BY NextUnitIs
<1>4. Fresh \in Connections /\ Fits(Fresh, one)
  BY <1>3 DEF Fresh, Connections, Fits
<1>5. PoolInv' /\ WorkInv' /\ raws' \in [Raws -> Connections] /\ unit' \in [Threads -> Units]
  BY <1>1, <1>3, <1>4, WorkKeeps
<1>6. unit[t].rows # {} => stored' = IF unit[t].raised THEN stored ELSE stored \cup unit[t].rows
  <2>1. CASE con.tx = "idle"
    BY <2>1, <1>2 DEF Fits
  <2>2. CASE con.tx = "open"
    BY <2>2, <1>1, <1>2 DEF Fits
  <2>3. CASE con.tx = "failed"
    BY <2>3, <1>1, <1>2 DEF Fits
  <2> QED
    BY <2>1, <2>2, <2>3, <1>1, <1>2 DEF Connections
<1>7. stored' \in {stored, stored \cup unit[t].rows}
  BY <1>1, <1>2 DEF Fits
<1>8. UnitEnds(t, "committed", one)
  BY <1>1, <1>3, <1>6, <1>7 DEF UnitEnds
<1>9. UnitInv' /\ UnitsAreAtomic' /\ stored' \subseteq DbRows
  BY <1>8, EndKeeps
<1> QED
  BY <1>1, <1>5, <1>9 DEF DbInv, DbShapes

LEMMA RollbackDbKeeps == ASSUME DbInv, NEW t \in Threads, rollback(t) PROVE DbInv'
<1> DEFINE con == IF raws[RawOf(t)].tx = "broken" THEN raws[RawOf(t)] ELSE Fresh
           one == NextUnit(t)[t]
<1>1. /\ Uses(t) /\ ended' = Ended(t, "rolled back") /\ unit' = NextUnit(t)
      /\ UNCHANGED <<free, wraps, stored, broken>>
  BY DEF rollback
<1>2. /\ RawOf(t) \in Raws /\ raws[RawOf(t)] \in Connections
      /\ unit[t] \in Units /\ Fits(raws[RawOf(t)], unit[t])
  BY <1>1, WorksOn
<1>3. raws' = [raws EXCEPT ![RawOf(t)] = con]
  BY <1>2 DEF rollback, DbInv, DbShapes
<1>4. /\ NextUnit(t) = [unit EXCEPT ![t] = one] /\ one \in Units /\ one.rows = {} /\ ~one.raised
      /\ one.number = IF unit[t].rows = {} THEN unit[t].number ELSE unit[t].number + 1
  BY NextUnitIs
<1>5. con \in Connections /\ Fits(con, one)
  BY <1>2, <1>4 DEF Fresh, Connections, Fits
<1>6. PoolInv' /\ WorkInv' /\ raws' \in [Raws -> Connections] /\ unit' \in [Threads -> Units]
  BY <1>1, <1>3, <1>4, <1>5, WorkKeeps
<1>7. UnitEnds(t, "rolled back", one)
  BY <1>1, <1>4 DEF UnitEnds
<1>8. UnitInv' /\ UnitsAreAtomic' /\ stored' \subseteq DbRows
  BY <1>7, EndKeeps
<1> QED
  BY <1>1, <1>6, <1>8 DEF DbInv, DbShapes

LEMMA CommitBreaksKeeps == ASSUME DbInv, NEW t \in Threads, CommitBreaks(t) PROVE DbInv'
<1> DEFINE con == [tx |-> "broken", pending |-> {}]
           one == [NextUnit(t)[t] EXCEPT !.raised = TRUE]
<1>1. /\ broken < MaxBroken /\ Uses(t) /\ raws[RawOf(t)].tx = "open"
      /\ stored' \in {stored, stored \cup raws[RawOf(t)].pending}
      /\ raws' = [raws EXCEPT ![RawOf(t)] = con] /\ ended' = Ended(t, "unknown")
      /\ unit' = [NextUnit(t) EXCEPT ![t].raised = TRUE] /\ broken' = broken + 1
      /\ UNCHANGED <<free, wraps>>
  BY DEF CommitBreaks
<1>2. /\ RawOf(t) \in Raws /\ raws[RawOf(t)] \in Connections
      /\ unit[t] \in Units /\ Fits(raws[RawOf(t)], unit[t])
  BY <1>1, WorksOn
<1>3. /\ NextUnit(t) = [unit EXCEPT ![t] = NextUnit(t)[t]] /\ NextUnit(t)[t] \in Units
      /\ NextUnit(t)[t].rows = {}
      /\ NextUnit(t)[t].number = IF unit[t].rows = {} THEN unit[t].number ELSE unit[t].number + 1
  BY NextUnitIs
<1>4. one \in Units /\ one.rows = {} /\ one.number = NextUnit(t)[t].number
  BY <1>3 DEF Units
<1>5. unit' = [unit EXCEPT ![t] = one]
  <2>1. unit \in [Threads -> Units]
    BY DEF DbInv, DbShapes
  <2> QED
    BY <2>1, <1>1, <1>3
<1>6. con \in Connections /\ Fits(con, one)
  BY DEF Connections, Fits
<1>7. PoolInv' /\ WorkInv' /\ raws' \in [Raws -> Connections] /\ unit' \in [Threads -> Units]
  BY <1>1, <1>4, <1>5, <1>6, WorkKeeps
<1>8. raws[RawOf(t)].pending = unit[t].rows
  BY <1>1, <1>2 DEF Fits
<1>9. UnitEnds(t, "unknown", one)
  BY <1>1, <1>3, <1>4, <1>5, <1>8 DEF UnitEnds
<1>10. UnitInv' /\ UnitsAreAtomic' /\ stored' \subseteq DbRows
  BY <1>9, EndKeeps
<1>11. broken' \in 0..MaxBroken
  BY <1>1, DbNumbers DEF DbInv, DbShapes
<1> QED
  BY <1>1, <1>7, <1>10, <1>11 DEF DbInv, DbShapes

LEMMA BreaksKeeps == ASSUME DbInv, NEW r \in Raws, Breaks(r) PROVE DbInv'
<1> DEFINE con == [tx |-> "broken", pending |-> {}]
<1>1. /\ broken < MaxBroken /\ r \notin free /\ raws' = [raws EXCEPT ![r] = con]
      /\ broken' = broken + 1 /\ UNCHANGED <<free, wraps, unit, stored, ended>>
  BY DEF Breaks
<1>2. DbShapes /\ PoolInv /\ WorkInv
  BY DEF DbInv
<1>3. con \in Connections /\ con.tx = "broken" /\ con.pending = {}
  BY DEF Connections
<1> HIDE DEF con
<1>4. \A q \in Raws : raws'[q] = IF q = r THEN con ELSE raws[q]
  BY <1>1, <1>2 DEF DbShapes
<1>5. DbShapes'
  BY <1>1, <1>2, <1>3, DbNumbers DEF DbShapes
<1>6. PoolInv'
  BY <1>1, <1>2, <1>4 DEF PoolInv, Opened, DbShapes
<1>7. WorkInv'
  <2> SUFFICES ASSUME NEW s \in Threads
               PROVE  /\ Len(wraps[s]) <= 2
                      /\ Uses(s) => Fits(raws'[RawOf(s)], unit[s])
                      /\ ~Uses(s) => unit[s].rows = {} /\ ~unit[s].raised
                      /\ Len(wraps[s]) = 2 =>
                            /\ ~wraps[s][1].closed
                            /\ raws'[wraps[s][1].raw].tx \in {"open", "broken"}
                            /\ raws'[wraps[s][1].raw].pending = {}
    BY <1>1 DEF WorkInv, Uses, RawOf
  <2>1. Uses(s) => Fits(raws'[RawOf(s)], unit[s])
    <3> SUFFICES ASSUME Uses(s) PROVE Fits(raws'[RawOf(s)], unit[s])
      OBVIOUS
    <3>1. RawOf(s) \in Raws /\ Fits(raws[RawOf(s)], unit[s])
      BY WorksOn
    <3>2. Fits(con, unit[s])
      BY <1>3 DEF Fits
    <3> QED
      BY <3>1, <3>2, <1>4
  <2>2. ASSUME Len(wraps[s]) = 2
        PROVE  /\ raws'[wraps[s][1].raw].tx \in {"open", "broken"}
               /\ raws'[wraps[s][1].raw].pending = {}
    <3>1. wraps[s][1].raw \in Raws
      BY <2>2, <1>2, OuterIs
    <3> QED
      BY <3>1, <2>2, <1>2, <1>3, <1>4 DEF WorkInv
  <2> QED
    BY <2>1, <2>2, <1>2 DEF WorkInv
<1> QED
  BY <1>1, <1>5, <1>6, <1>7 DEF DbInv, UnitInv, UnitsAreAtomic

LEMMA ConnectKeeps == ASSUME DbInv, NEW t \in Threads, connect(t) PROVE DbInv'
<1> DEFINE old == IF Uses(t) THEN wraps[t] ELSE <<>>
<1>1. PICK r \in free : /\ free' = free \ {r}
                        /\ wraps' = [wraps EXCEPT ![t] = old \o <<[raw |-> r, closed |-> FALSE]>>]
  BY DEF connect
<1>2. /\ \/ \A k \in DOMAIN wraps[t] : wraps[t][k].closed
         \/ Uses(t) /\ Len(wraps[t]) = 1 /\ unit[t].rows = {} /\ raws[RawOf(t)].tx = "open"
      /\ UNCHANGED <<raws, unit, stored, ended, broken>>
  BY DEF connect
<1> DEFINE wrapper == [raw |-> r, closed |-> FALSE]
           new == old \o <<wrapper>>
           size == Len(old)
<1>3. DbShapes /\ PoolInv /\ WorkInv
  BY DEF DbInv
<1>4. wrapper \in Wrappers /\ wrapper.raw = r /\ ~wrapper.closed /\ r \in Raws
  BY <1>3 DEF Wrappers, DbShapes
<1>5. old \in Seq(Wrappers) /\ size \in {0, 1}
  <2>1. CASE Uses(t)
    <3>1. ~\A k \in DOMAIN wraps[t] : wraps[t][k].closed
      BY <2>1, <1>3, UsesIs DEF Opened
    <3> QED
      BY <2>1, <3>1, <1>2, <1>3 DEF DbShapes
  <2>2. CASE ~Uses(t)
    BY <2>2, EmptySeq
  <2> QED
    BY <2>1, <2>2
<1> HIDE DEF wrapper
<1>6. /\ new \in Seq(Wrappers) /\ Len(new) = size + 1 /\ DOMAIN new = 1..(size + 1)
      /\ new[size + 1] = wrapper /\ \A k \in 1..size : new[k] = old[k]
  BY <1>4, <1>5, OneMore
<1>7. wraps' = [wraps EXCEPT ![t] = new] /\ wraps' \in [Threads -> Seq(Wrappers)]
  BY <1>1, <1>3, <1>6 DEF DbShapes, wrapper
<1>8. wraps'[t] = new /\ \A s \in Threads : s # t => wraps'[s] = wraps[s]
  BY <1>7, <1>3 DEF DbShapes
<1>9. size = 1 => Uses(t) /\ Len(wraps[t]) = 1 /\ unit[t].rows = {} /\ old = wraps[t]
                  /\ raws[RawOf(t)].tx = "open"
  <2> SUFFICES ASSUME size = 1 PROVE Uses(t)
    <3>1. Uses(t) => ~\A k \in DOMAIN wraps[t] : wraps[t][k].closed
      BY <1>3, UsesIs DEF Opened
    <3> QED
      BY <3>1, <1>2
  <2> QED
    BY EmptySeq
<1>10. size = 0 => ~Uses(t) /\ \A k \in DOMAIN wraps[t] : wraps[t][k].closed
  <2> SUFFICES ASSUME size = 0, Uses(t) PROVE FALSE
    BY <1>2
  <2> QED
    BY <1>3, UsesIs, EmptySeq DEF DbShapes, Uses
<1>11. ~unit[t].raised /\ unit[t].rows = {}
  <2>1. CASE size = 0
    BY <2>1, <1>10, <1>3 DEF WorkInv
  <2>2. CASE size = 1
    BY <2>2, <1>9, <1>3 DEF WorkInv, Fits
  <2> QED
    BY <2>1, <2>2, <1>5
<1> HIDE DEF old, new, size
\* The wrappers that are open now were open or are the new one.
<1>12. \A s \in Threads : \A k \in DOMAIN wraps'[s] :
          Opened(s, k)' => \/ s = t /\ k = size + 1 /\ wraps'[s][k] = wrapper
                           \/ k \in DOMAIN wraps[s] /\ Opened(s, k) /\ wraps'[s][k] = wraps[s][k]
                              /\ (s = t => k # size + 1)
  <2> SUFFICES ASSUME NEW s \in Threads, NEW k \in DOMAIN wraps'[s], Opened(s, k)'
               PROVE  \/ s = t /\ k = size + 1 /\ wraps'[s][k] = wrapper
                      \/ k \in DOMAIN wraps[s] /\ Opened(s, k) /\ wraps'[s][k] = wraps[s][k]
                         /\ (s = t => k # size + 1)
    OBVIOUS
  <2>1. CASE s # t
    BY <2>1, <1>8 DEF Opened
  <2>2. CASE s = t /\ k = size + 1
    BY <2>2, <1>6, <1>8
  <2>3. CASE s = t /\ k # size + 1
    <3>1. size = 1 /\ k = 1
      BY <2>3, <1>5, <1>6, <1>8
    <3>2. wraps'[s][k] = wraps[s][k] /\ 1 \in DOMAIN wraps[s]
      BY <3>1, <2>3, <1>3, <1>6, <1>8, <1>9 DEF DbShapes
    <3> QED
      BY <3>1, <3>2, <2>3 DEF Opened
  <2> QED
    BY <2>1, <2>2, <2>3
<1>13. size + 1 \in DOMAIN wraps'[t] /\ ~wraps'[t][size + 1].closed /\ wraps'[t][size + 1].raw = r
  <2>1. size + 1 \in DOMAIN wraps'[t] /\ wraps'[t][size + 1] = wrapper
    BY <1>5, <1>6, <1>8
  <2> QED
    BY <2>1, <1>4
<1>14. \A s \in Threads : \A k \in DOMAIN wraps[s] :
          Opened(s, k) => k \in DOMAIN wraps'[s] /\ Opened(s, k)' /\ wraps'[s][k] = wraps[s][k]
  <2> SUFFICES ASSUME NEW s \in Threads, NEW k \in DOMAIN wraps[s], Opened(s, k)
               PROVE  k \in DOMAIN wraps'[s] /\ Opened(s, k)' /\ wraps'[s][k] = wraps[s][k]
    OBVIOUS
  <2>1. CASE s # t
    BY <2>1, <1>8 DEF Opened
  <2>2. CASE s = t
    <3>1. size = 1
      BY <2>2, <1>5, <1>10 DEF Opened
    <3>2. k = 1
      BY <3>1, <2>2, <1>3, <1>9 DEF DbShapes
    <3>3. wraps'[s][k] = wraps[s][k] /\ k \in DOMAIN wraps'[s]
      BY <3>1, <3>2, <2>2, <1>6, <1>8, <1>9
    <3> QED
      BY <3>3 DEF Opened
  <2> QED
    BY <2>1, <2>2
<1>15. PoolInv'
  <2>1. \A q \in free' : raws'[q] = Fresh
    BY <1>1, <1>2, <1>3 DEF PoolInv
  <2>2. \A s \in Threads : \A k \in DOMAIN wraps'[s] : Opened(s, k)' => wraps'[s][k].raw \notin free'
    BY <1>1, <1>3, <1>4, <1>12 DEF PoolInv
  <2>3. \A s, u \in Threads : \A j \in DOMAIN wraps'[s], k \in DOMAIN wraps'[u] :
          Opened(s, j)' /\ Opened(u, k)' /\ wraps'[s][j].raw = wraps'[u][k].raw => s = u /\ j = k
    BY <1>3, <1>4, <1>12 DEF PoolInv
  <2>4. \A q \in Raws \ free' : \E s \in Threads : \E k \in DOMAIN wraps'[s] :
          Opened(s, k)' /\ wraps'[s][k].raw = q
    <3> SUFFICES ASSUME NEW q \in Raws \ free'
                 PROVE  \E s \in Threads : \E k \in DOMAIN wraps'[s] :
                           Opened(s, k)' /\ wraps'[s][k].raw = q
      OBVIOUS
    <3>1. CASE q = r
      BY <3>1, <1>13 DEF Opened
    <3>2. CASE q # r
      <4>1. PICK s \in Threads : \E k \in DOMAIN wraps[s] : Opened(s, k) /\ wraps[s][k].raw = q
        BY <3>2, <1>1, <1>3 DEF PoolInv
      <4> QED
        BY <4>1, <1>14
    <3> QED
      BY <3>1, <3>2
  <2> QED
    BY <2>1, <2>2, <2>3, <2>4 DEF PoolInv
<1>16. WorkInv'
  <2> SUFFICES ASSUME NEW s \in Threads
               PROVE  /\ Len(wraps'[s]) <= 2
                      /\ Uses(s)' => Fits(raws[RawOf(s)'], unit[s])
                      /\ ~Uses(s)' => unit[s].rows = {} /\ ~unit[s].raised
                      /\ Len(wraps'[s]) = 2 =>
                            /\ ~wraps'[s][1].closed
                            /\ raws[wraps'[s][1].raw].tx \in {"open", "broken"}
                            /\ raws[wraps'[s][1].raw].pending = {}
    BY <1>2 DEF WorkInv
  <2>1. CASE s # t
    BY <2>1, <1>3, <1>8 DEF WorkInv, Uses, RawOf
  <2>2. CASE s = t
    <3>1. Last(wraps'[t]) = wrapper
      BY <1>5, <1>6, <1>8 DEF Last
    <3>2. RawOf(t)' = r
      BY <3>1, <1>4 DEF RawOf
    <3>3. Fits(raws[r], unit[t])
      BY <1>3, <1>11 DEF PoolInv, Fresh, Fits
    <3>4. Len(wraps'[t]) = 2 => /\ ~wraps'[t][1].closed
                                /\ raws[wraps'[t][1].raw].tx \in {"open", "broken"}
                                /\ raws[wraps'[t][1].raw].pending = {}
      <4> SUFFICES ASSUME size = 1
                   PROVE  /\ ~wraps'[t][1].closed
                          /\ raws[wraps'[t][1].raw].tx \in {"open", "broken"}
                          /\ raws[wraps'[t][1].raw].pending = {}
        BY <1>5, <1>6, <1>8
      <4>1. wraps'[t][1] = wraps[t][1] /\ RawOf(t) = wraps[t][1].raw /\ ~wraps[t][1].closed
        BY <1>3, <1>6, <1>8, <1>9, UsesIs DEF Opened
      <4> QED
        BY <4>1, <1>3, <1>9 DEF WorkInv, Fits
    <3>5. Len(wraps'[t]) <= 2
      BY <1>5, <1>6, <1>8
    <3>6. Uses(t)'
      <4>1. wraps'[t] # <<>>
        BY <1>5, <1>6, <1>8
      <4> QED
        BY <4>1, <3>1, <1>4 DEF Uses
    <3> QED
      BY <2>2, <3>2, <3>3, <3>4, <3>5, <3>6
  <2> QED
    BY <2>1, <2>2
<1>17. DbShapes'
  BY <1>1, <1>2, <1>3, <1>7 DEF DbShapes
<1> QED
  BY <1>2, <1>15, <1>16, <1>17 DEF DbInv, UnitInv, UnitsAreAtomic

\* A thread's last wrapper closes: its connection is as new and the unit has ended.
LEMMA CloseKeeps == ASSUME DbInv, NEW t \in Threads, close(t, Len(wraps[t])) PROVE DbInv'
<1> DEFINE last == Len(wraps[t])
           one == NextUnit(t)[t]
<1>1. last \in DOMAIN wraps[t] /\ UNCHANGED <<stored, broken>>
  BY DEF close
<1>2. DbShapes /\ PoolInv /\ WorkInv
  BY DEF DbInv
<1>3. CASE wraps[t][last].closed
  <2>1. UNCHANGED dbVars
    BY <1>3 DEF close, dbVars
  <2> QED
    BY <2>1, DbStutters
<1>4. CASE ~wraps[t][last].closed
  <2> DEFINE r == wraps[t][last].raw
             wrapper == [wraps[t][last] EXCEPT !.closed = TRUE]
  <2>1. /\ raws' = [raws EXCEPT ![r] = Returned(r)] /\ free' = free \cup {r}
        /\ wraps' = [wraps EXCEPT ![t][last].closed = TRUE]
        /\ ended' = Ended(t, "closed") /\ unit' = NextUnit(t)
    BY <1>4 DEF close
  <2>2. wraps[t] \in Seq(Wrappers) /\ last \in Nat /\ DOMAIN wraps[t] = 1..last /\ wraps[t] # <<>>
    BY <1>1, <1>2 DEF DbShapes
  <2>3. Uses(t) /\ RawOf(t) = r
    BY <2>2, <1>4 DEF Uses, RawOf, Last
  <2>4. r \in Raws /\ raws[r] \in Connections /\ Fits(raws[r], unit[t])
    BY <2>3, WorksOn
  <2>5. Returned(r) = Fresh
    BY <2>4 DEF Returned, Fresh, Fits, Connections
  <2>6. Fresh \in Connections
    BY DEF Fresh, Connections
  <2>7. wrapper \in Wrappers /\ wrapper.closed
    <3>1. wraps[t][last] \in Wrappers
      BY <1>1, <1>2, WrapperIs
    <3> QED
      BY <3>1 DEF Wrappers
  <2>8. wraps' = [wraps EXCEPT ![t] = [wraps[t] EXCEPT ![last] = wrapper]]
    BY <2>1, <1>2, <2>2
  <2> DEFINE new == [wraps[t] EXCEPT ![last] = wrapper]
  <2> HIDE DEF wrapper
  <2>9. new \in Seq(Wrappers) /\ Len(new) = last /\ DOMAIN new = DOMAIN wraps[t]
    BY <2>2, <2>7, <1>1, ExceptSeq
  <2>9a. \A k \in DOMAIN wraps[t] : new[k] = IF k = last THEN wrapper ELSE wraps[t][k]
    BY <2>2
  <2> HIDE DEF new
  <2>10. /\ wraps' \in [Threads -> Seq(Wrappers)] /\ wraps'[t] = new
         /\ \A s \in Threads : s # t => wraps'[s] = wraps[s]
    BY <2>8, <2>9, <1>2 DEF DbShapes, new
  <2>11. \A s \in Threads : DOMAIN wraps'[s] = DOMAIN wraps[s]
    BY <2>9, <2>10
  <2>12. \A s \in Threads : \A k \in DOMAIN wraps[s] :
            Opened(s, k)' <=> Opened(s, k) /\ ~(s = t /\ k = last)
    BY <2>7, <2>9a, <2>10, <2>11 DEF Opened
  <2>13. \A s \in Threads : \A k \in DOMAIN wraps[s] :
            Opened(s, k)' => wraps'[s][k] = wraps[s][k] /\ wraps[s][k].raw # r
    <3>1. \A s \in Threads : \A k \in DOMAIN wraps[s] : Opened(s, k)' => wraps'[s][k] = wraps[s][k]
      BY <2>9a, <2>10, <2>12
    <3>2. Opened(t, last)
      BY <1>1, <1>4 DEF Opened
    <3>3. \A s \in Threads : \A k \in DOMAIN wraps[s] : Opened(s, k)' => wraps[s][k].raw # r
      BY <3>2, <1>1, <1>2, <2>12 DEF PoolInv
    <3> QED
      BY <3>1, <3>3
  <2>14. \A q \in Raws : raws'[q] = IF q = r THEN Fresh ELSE raws[q]
    BY <2>1, <2>5, <1>2 DEF DbShapes
  <2>15. PoolInv'
    <3>1. \A q \in free' : raws'[q] = Fresh
      BY <2>1, <2>4, <2>14, <1>2 DEF PoolInv, DbShapes
    <3>2. \A s \in Threads : \A k \in DOMAIN wraps'[s] : Opened(s, k)' => wraps'[s][k].raw \notin free'
      BY <2>1, <2>11, <2>12, <2>13, <1>2 DEF PoolInv
    <3>3. \A s, u \in Threads : \A j \in DOMAIN wraps'[s], k \in DOMAIN wraps'[u] :
            Opened(s, j)' /\ Opened(u, k)' /\ wraps'[s][j].raw = wraps'[u][k].raw => s = u /\ j = k
      BY <2>11, <2>12, <2>13, <1>2 DEF PoolInv
    <3>4. \A q \in Raws \ free' : \E s \in Threads : \E k \in DOMAIN wraps'[s] :
            Opened(s, k)' /\ wraps'[s][k].raw = q
      <4> SUFFICES ASSUME NEW q \in Raws \ free'
                   PROVE  \E s \in Threads : \E k \in DOMAIN wraps'[s] :
                             Opened(s, k)' /\ wraps'[s][k].raw = q
        OBVIOUS
      <4>1. q \in Raws \ free /\ q # r
        BY <2>1
      <4>2a. PICK s \in Threads : \E k \in DOMAIN wraps[s] : Opened(s, k) /\ wraps[s][k].raw = q
        BY <4>1, <1>2 DEF PoolInv
      <4>2. PICK k \in DOMAIN wraps[s] : Opened(s, k) /\ wraps[s][k].raw = q
        BY <4>2a
      <4>3. ~(s = t /\ k = last)
        BY <4>1, <4>2
      <4>4. Opened(s, k)'
        BY <4>2, <4>3, <2>12
      <4>5. wraps'[s][k] = wraps[s][k] /\ k \in DOMAIN wraps'[s]
        BY <4>4, <2>11, <2>13
      <4> QED
        BY <4>2, <4>4, <4>5 DEF Opened
    <3> QED
      BY <3>1, <3>2, <3>3, <3>4 DEF PoolInv
  <2>16. /\ NextUnit(t) = [unit EXCEPT ![t] = one] /\ one \in Units /\ one.rows = {} /\ ~one.raised
         /\ one.number = IF unit[t].rows = {} THEN unit[t].number ELSE unit[t].number + 1
    BY NextUnitIs
  <2> HIDE DEF one
  <2>17. unit' \in [Threads -> Units] /\ unit'[t] = one
         /\ \A s \in Threads : s # t => unit'[s] = unit[s]
    BY <2>1, <2>16, <1>2 DEF DbShapes
  <2>18. WorkInv'
    <3> SUFFICES ASSUME NEW s \in Threads
                 PROVE  /\ Len(wraps'[s]) <= 2
                        /\ Uses(s)' => Fits(raws'[RawOf(s)'], unit'[s])
                        /\ ~Uses(s)' => unit'[s].rows = {} /\ ~unit'[s].raised
                        /\ Len(wraps'[s]) = 2 =>
                              /\ ~wraps'[s][1].closed
                              /\ raws'[wraps'[s][1].raw].tx \in {"open", "broken"}
                              /\ raws'[wraps'[s][1].raw].pending = {}
      BY DEF WorkInv
    <3>1. CASE s = t
      <4>1. Len(wraps'[t]) = last /\ last <= 2
        BY <2>9, <2>10, <1>2 DEF WorkInv
      <4>2. ~Uses(t)'
        BY <2>7, <2>9, <2>9a, <2>10, <1>1 DEF Uses, Last
      <4>3. unit'[t].rows = {} /\ ~unit'[t].raised
        BY <2>16, <2>17
      <4>4. last = 2 => /\ ~wraps'[t][1].closed
                        /\ raws'[wraps'[t][1].raw].tx \in {"open", "broken"}
                        /\ raws'[wraps'[t][1].raw].pending = {}
        <5> SUFFICES ASSUME last = 2
                     PROVE  /\ ~wraps'[t][1].closed
                            /\ raws'[wraps'[t][1].raw].tx \in {"open", "broken"}
                            /\ raws'[wraps'[t][1].raw].pending = {}
          OBVIOUS
        <5>1. 1 \in DOMAIN wraps[t] /\ wraps[t][1].raw \in Raws /\ wraps'[t][1] = wraps[t][1]
          BY <2>9a, <2>10, <1>2, OuterIs
        <5>2. /\ ~wraps[t][1].closed /\ raws[wraps[t][1].raw].tx \in {"open", "broken"}
              /\ raws[wraps[t][1].raw].pending = {}
          BY <1>2 DEF WorkInv
        <5>3. Opened(t, 1)'
          BY <5>1, <5>2, <2>11 DEF Opened
        <5>4. wraps[t][1].raw # r
          BY <5>1, <5>3, <2>13
        <5> QED
          BY <5>1, <5>2, <5>4, <2>14
      <4> QED
        BY <3>1, <4>1, <4>2, <4>3, <4>4
    <3>2. CASE s # t
      <4>1. wraps'[s] = wraps[s] /\ unit'[s] = unit[s] /\ RawOf(s)' = RawOf(s) /\ (Uses(s)' <=> Uses(s))
        BY <3>2, <2>10, <2>17 DEF RawOf, Uses
      <4>2. Uses(s) => raws'[RawOf(s)] = raws[RawOf(s)]
        <5> SUFFICES ASSUME Uses(s) PROVE raws'[RawOf(s)] = raws[RawOf(s)]
          OBVIOUS
        <5>1. /\ Len(wraps[s]) \in DOMAIN wraps[s] /\ RawOf(s) = wraps[s][Len(wraps[s])].raw
              /\ Opened(s, Len(wraps[s])) /\ RawOf(s) \in Raws
          BY <1>2, UsesIs
        <5>2. RawOf(s) # r
          BY <5>1, <3>2, <2>12, <2>13
        <5> QED
          BY <5>1, <5>2, <2>14
      <4>3. Len(wraps[s]) = 2 => raws'[wraps[s][1].raw] = raws[wraps[s][1].raw]
        <5> SUFFICES ASSUME Len(wraps[s]) = 2 PROVE raws'[wraps[s][1].raw] = raws[wraps[s][1].raw]
          OBVIOUS
        <5>1. 1 \in DOMAIN wraps[s] /\ wraps[s][1].raw \in Raws /\ ~wraps[s][1].closed
          BY <1>2, OuterIs DEF WorkInv
        <5>2. Opened(s, 1)
          BY <5>1 DEF Opened
        <5>3. wraps[s][1].raw # r
          BY <5>1, <5>2, <3>2, <2>12, <2>13
        <5> QED
          BY <5>1, <5>3, <2>14
      <4> QED
        BY <4>1, <4>2, <4>3, <1>2 DEF WorkInv
    <3> QED
      BY <3>1, <3>2
  <2>19. UnitEnds(t, "closed", one)
    BY <1>1, <2>1, <2>16 DEF UnitEnds
  <2>20. UnitInv' /\ UnitsAreAtomic' /\ stored' \subseteq DbRows
    BY <2>19, EndKeeps
  <2>21. DbShapes'
    BY <1>1, <1>2, <2>1, <2>4, <2>5, <2>6, <2>10, <2>17 DEF DbShapes
  <2> QED
    BY <2>15, <2>18, <2>20, <2>21 DEF DbInv
<1> QED
  BY <1>3, <1>4

LEMMA ReturnsKeeps == ASSUME DbInv, NEW t \in Threads, Returns(t) PROVE DbInv'
<1>1. /\ Len(wraps[t]) = 2 /\ Last(wraps[t]).closed /\ wraps' = [wraps EXCEPT ![t] = Front(@)]
      /\ UNCHANGED <<raws, free, unit, stored, ended, broken>>
  BY DEF Returns
<1>2. DbShapes /\ PoolInv /\ WorkInv
  BY DEF DbInv
<1> DEFINE new == Front(wraps[t])
<1>3. wraps[t] \in Seq(Wrappers) /\ DOMAIN wraps[t] = {1, 2} /\ wraps[t] # <<>>
  BY <1>1, <1>2, OuterIs DEF DbShapes
<1>4. new \in Seq(Wrappers) /\ Len(new) = 1 /\ DOMAIN new = {1} /\ new[1] = wraps[t][1]
  BY <1>1, <1>3 DEF Front
<1> HIDE DEF new
<1>5. /\ wraps' \in [Threads -> Seq(Wrappers)] /\ wraps'[t] = new
      /\ \A s \in Threads : s # t => wraps'[s] = wraps[s]
  BY <1>1, <1>2, <1>4 DEF DbShapes, new
<1>6. wraps[t][2].closed /\ ~Uses(t)
  BY <1>1, <1>3 DEF Last, Uses
<1>7. \A s \in Threads : \A k : Opened(s, k)' <=> Opened(s, k)
  BY <1>3, <1>4, <1>5, <1>6 DEF Opened
<1>8. \A s \in Threads : \A k : Opened(s, k) =>
         k \in DOMAIN wraps[s] /\ k \in DOMAIN wraps'[s] /\ wraps'[s][k] = wraps[s][k]
  BY <1>3, <1>4, <1>5, <1>6 DEF Opened
<1>9. PoolInv'
  <2>1. \A q \in free' : raws'[q] = Fresh
    BY <1>1, <1>2 DEF PoolInv
  <2>2. \A s \in Threads : \A k \in DOMAIN wraps'[s] : Opened(s, k)' => wraps'[s][k].raw \notin free'
    BY <1>1, <1>2, <1>7, <1>8 DEF PoolInv
  <2>3. \A s, u \in Threads : \A j \in DOMAIN wraps'[s], k \in DOMAIN wraps'[u] :
          Opened(s, j)' /\ Opened(u, k)' /\ wraps'[s][j].raw = wraps'[u][k].raw => s = u /\ j = k
    BY <1>2, <1>7, <1>8 DEF PoolInv
  <2>4. \A q \in Raws \ free' : \E s \in Threads : \E k \in DOMAIN wraps'[s] :
          Opened(s, k)' /\ wraps'[s][k].raw = q
    <3> SUFFICES ASSUME NEW q \in Raws \ free'
                 PROVE  \E s \in Threads : \E k \in DOMAIN wraps'[s] :
                           Opened(s, k)' /\ wraps'[s][k].raw = q
      OBVIOUS
    <3>1a. PICK s \in Threads : \E k \in DOMAIN wraps[s] : Opened(s, k) /\ wraps[s][k].raw = q
      BY <1>1, <1>2 DEF PoolInv
    <3>1. PICK k \in DOMAIN wraps[s] : Opened(s, k) /\ wraps[s][k].raw = q
      BY <3>1a
    <3>2. Opened(s, k)' /\ k \in DOMAIN wraps'[s] /\ wraps'[s][k].raw = q
      BY <3>1, <1>7, <1>8
    <3> QED
      BY <3>2 DEF Opened
  <2> QED
    BY <2>1, <2>2, <2>3, <2>4 DEF PoolInv
<1>10. WorkInv'
  <2> SUFFICES ASSUME NEW s \in Threads
               PROVE  /\ Len(wraps'[s]) <= 2
                      /\ Uses(s)' => Fits(raws[RawOf(s)'], unit[s])
                      /\ ~Uses(s)' => unit[s].rows = {} /\ ~unit[s].raised
                      /\ Len(wraps'[s]) = 2 =>
                            /\ ~wraps'[s][1].closed
                            /\ raws[wraps'[s][1].raw].tx \in {"open", "broken"}
                            /\ raws[wraps'[s][1].raw].pending = {}
    BY <1>1 DEF WorkInv
  <2>1. CASE s # t
    BY <2>1, <1>2, <1>5 DEF WorkInv, Uses, RawOf
  <2>2. CASE s = t
    <3>1. RawOf(t)' = wraps[t][1].raw /\ Len(wraps'[t]) = 1
      BY <1>4, <1>5 DEF RawOf, Last
    <3>2. raws[wraps[t][1].raw].tx \in {"open", "broken"} /\ raws[wraps[t][1].raw].pending = {}
      BY <1>1, <1>2 DEF WorkInv
    <3>3. unit[t].rows = {} /\ ~unit[t].raised
      BY <1>2, <1>6 DEF WorkInv
    <3>4. Fits(raws[wraps[t][1].raw], unit[t])
      BY <3>2, <3>3 DEF Fits
    <3> QED
      BY <2>2, <3>1, <3>3, <3>4
  <2> QED
    BY <2>1, <2>2
<1>11. DbShapes'
  BY <1>1, <1>2, <1>5 DEF DbShapes
<1> QED
  BY <1>1, <1>9, <1>10, <1>11 DEF DbInv, UnitInv, UnitsAreAtomic

LEMMA DbStepKeeps == ASSUME DbInv, DbNext PROVE DbInv'
<1>1. ASSUME NEW t \in Threads, StatsTimesOut(t) PROVE DbInv'
  <2>1. close(t, Len(wraps[t]))
    BY <1>1 DEF StatsTimesOut
  <2> QED
    BY <2>1, CloseKeeps
<1> QED
  BY <1>1, ConnectKeeps, SelectKeeps, StatementFailsKeeps, WriteKeeps, CommitDbKeeps, RollbackDbKeeps,
     CommitBreaksKeeps, ReturnsKeeps, CloseKeeps, BreaksKeeps DEF DbNext

LEMMA DbImplies == ASSUME DbInv PROVE DbTypeOK /\ DbHolds
<1>1. DbShapes /\ PoolInv /\ WorkInv /\ UnitsAreAtomic
  BY DEF DbInv
<1>2. DbTypeOK
  <2>1. \A t \in Threads :
          /\ Len(wraps[t]) <= 2
          /\ \A k \in DOMAIN wraps[t] : wraps[t][k] \in [raw : Raws, closed : BOOLEAN]
    BY <1>1, WrapperIs DEF WorkInv, Wrappers
  <2>2. \A t \in Threads : unit[t].number \in 0..MaxUnits + 1 /\ unit[t].raised \in BOOLEAN
    BY <1>1, UnitIs, DbNumbers
  <2> QED
    BY <1>1, <2>1, <2>2 DEF DbTypeOK, DbShapes, Connections, DbRows
<1>3. OneHolder
  <2> DEFINE open == {w \in Threads \X {1, 2} :
                         w[2] \in DOMAIN wraps[w[1]] /\ ~wraps[w[1]][w[2]].closed}
             raw(w) == wraps[w[1]][w[2]].raw
  <2>1. \A w \in open : w[1] \in Threads /\ w[2] \in DOMAIN wraps[w[1]] /\ Opened(w[1], w[2])
                        /\ w = <<w[1], w[2]>>
    BY DEF Opened
  <2>2. \A t \in Threads : \A k \in DOMAIN wraps[t] : Opened(t, k) => <<t, k>> \in open
    <3>1. \A t \in Threads : DOMAIN wraps[t] \subseteq {1, 2}
      <4> SUFFICES ASSUME NEW t \in Threads PROVE DOMAIN wraps[t] \subseteq {1, 2}
        OBVIOUS
      <4>1. DOMAIN wraps[t] = 1..Len(wraps[t]) /\ Len(wraps[t]) \in Nat /\ Len(wraps[t]) <= 2
        BY <1>1 DEF DbShapes, WorkInv
      <4> QED
        BY <4>1
    <3> QED
      BY <3>1 DEF Opened
  <2>3. \A w \in open : raw(w) \in Raws \ free
    <3>1. \A t \in Threads : \A k \in DOMAIN wraps[t] : wraps[t][k].raw \in Raws
      BY <1>1, WrapperIs
    <3> QED
      BY <3>1, <2>1, <1>1 DEF PoolInv
  <2>4. \A v, w \in open : raw(v) = raw(w) => v = w
    BY <2>1, <1>1 DEF PoolInv
  <2>5. Raws \ free \subseteq {raw(w) : w \in open}
    <3> SUFFICES ASSUME NEW q \in Raws \ free PROVE \E w \in open : raw(w) = q
      OBVIOUS
    <3>1a. PICK t \in Threads : \E k \in DOMAIN wraps[t] : Opened(t, k) /\ wraps[t][k].raw = q
      BY <1>1 DEF PoolInv
    <3>1. PICK k \in DOMAIN wraps[t] : Opened(t, k) /\ wraps[t][k].raw = q
      BY <3>1a
    <3>2. <<t, k>> \in open /\ raw(<<t, k>>) = q
      BY <3>1, <2>2
    <3> QED
      BY <3>2
  <2> HIDE DEF open
  <2> QED
    BY <2>3, <2>4, <2>5 DEF OneHolder, open
<1> QED
  BY <1>1, <1>2, <1>3 DEF DbHolds, PooledIsClean, PoolInv

(***************************************************************************)
(* The scenes                                                              *)
(***************************************************************************)

LEMMA SceneSteps ==
    ASSUME [EndsNext]_endVars
    PROVE  /\ SnapNext \/ UNCHANGED snapVars
           /\ (CacheNext /\ scene = "cache") \/ UNCHANGED cacheVars
           /\ DbNext \/ UNCHANGED dbVars
  BY DEF EndsNext, endVars

\* _r2212_build_snapshot, its cleanup and the page of the VM consumption: a ready
\* generation is whole and settled, and a page in progress keeps the one it selected.
THEOREM SnapshotsStay == EndsSpec => []SnapshotsHold
<1>1. EndsInit => SnapInv
  BY SnapInitially DEF EndsInit
<1>2. SnapInv /\ [EndsNext]_endVars => SnapInv'
  BY SceneSteps, SnapStepKeeps, SnapStutters
<1>3. SnapInv => SnapshotsHold
  BY SnapImplies DEF SnapshotsHold
<1> QED
  BY <1>1, <1>2, <1>3, PTL DEF EndsSpec

\* _v48140_cached_endpoint: while no process is ahead of the database when a request
\* loses it, no page is older than an answered change or its lifetime, and none is
\* another user's, however many outages there are.
THEOREM CachedStaysFresh == EndsSpec /\ []NoneAhead => []CachedIsFresh
<1>1. EndsInit => CacheInv
  BY CacheInitially DEF EndsInit
<1>2. CacheInv /\ NoneAhead /\ [EndsNext]_endVars => CacheInv'
  BY SceneSteps, CacheStepKeeps, CacheStutters
<1>3. CacheInv => CachedIsFresh
  BY CacheImplies DEF CachedIsFresh
<1> QED
  BY <1>1, <1>2, <1>3, PTL DEF EndsSpec

\* _v48140_cache_generation and _v48140_bump_cache_generation, with one outage: a
\* request that takes the generation of its process was before any failed raise.
THEOREM FreshAfterOneOutage == MaxOutages <= 1 => (EndsSpec => []CachedIsFresh)
<1> SUFFICES ASSUME MaxOutages <= 1 PROVE EndsSpec => []CachedIsFresh
  OBVIOUS
<1>1. EndsInit => CacheInv /\ NoneAhead
  BY CacheInitially DEF EndsInit
<1>2. CacheInv /\ NoneAhead /\ [EndsNext]_endVars => CacheInv' /\ NoneAhead'
  BY SceneSteps, CacheStepKeeps, CacheStutters, OneOutage DEF CacheInv
<1>3. CacheInv => CachedIsFresh
  BY CacheImplies DEF CachedIsFresh
<1> QED
  BY <1>1, <1>2, <1>3, PTL DEF EndsSpec

\* With any number of outages, as long as every raise of the generation reaches the
\* database: requests may lose it, and processes may lose Redis.
THEOREM FreshIfRaised ==
    EndsSpec /\ [][\A w \in PWorkers : ~RaiseFails(w)]_cacheVars => []CachedIsFresh
<1> DEFINE Behind == \A w \in PWorkers : lgen[w] <= gen
           Raised == [\A w \in PWorkers : ~RaiseFails(w)]_cacheVars
<1>1. EndsInit => CacheInv /\ Behind
  BY CacheInitially DEF EndsInit, CacheInit
<1>2. CacheInv /\ Behind /\ [EndsNext]_endVars /\ Raised => CacheInv' /\ Behind'
  <2> SUFFICES ASSUME CacheInv, Behind, [EndsNext]_endVars, Raised PROVE CacheInv' /\ Behind'
    OBVIOUS
  <2>1. CacheInv'
    BY SceneSteps, CacheStepKeeps, CacheStutters DEF NoneAhead
  <2>2. Behind'
    BY SceneSteps, NobodyGetsAhead DEF CacheInv
  <2> QED
    BY <2>1, <2>2
<1>3. CacheInv => CachedIsFresh
  BY CacheImplies DEF CachedIsFresh
<1> QED
  BY <1>1, <1>2, <1>3, PTL DEF EndsSpec

\* bw_pg.connect, DbConnection and the pool: a connection has one holder or is in the
\* pool as new, and a unit of work is stored as a whole or not at all.
THEOREM DatabaseStays == EndsSpec => []DatabaseHolds
<1>1. EndsInit => DbInv
  BY DbInitially DEF EndsInit
<1>2. DbInv /\ [EndsNext]_endVars => DbInv'
  BY SceneSteps, DbStepKeeps, DbStutters
<1>3. DbInv => DatabaseHolds
  BY DbImplies DEF DatabaseHolds
<1> QED
  BY <1>1, <1>2, <1>3, PTL DEF EndsSpec

(***************************************************************************)
(* The delivery                                                            *)
(***************************************************************************)
USE MaxWireAssumption, MaxTimeAssumption, SkewAssumption, MaxFutureAssumption,
    DeliveryFaultsAssumption, DeliveryMaxFaultsAssumption

\* The disturbances the Agent and the receipts are built to survive.
Survivable == Faults \subseteq {"kill", "stop", "clear"} /\ Skew = 0

\* With those that may lose traffic: counters restart, and two pushes share a
\* second.
Lossy == Faults \subseteq {"kill", "stop", "clear", "reset", "clockstep"}
             /\ Skew = 0

Waiting == {"wait1", "wait2"}
Clearing == {"clear1", "clear2"}

\* Memory and files agree, but for state.json between its write and the end
\* of send_pending; an answer is only waited for and only for what is pending.
FileInv ==
    /\ apc # "dead" => mpend = dpend /\ mcarry = dcarry
    /\ apc \notin {"dead"} \cup Clearing => mstate = dstate
    /\ apc \in Clearing => dstate = mpend.cur /\ mpend.time \in handled
    /\ apc \in {"send1", "send2"} \cup Waiting \cup Clearing => Has(mpend)
    /\ apc = "collect" => ~Has(mpend)
    /\ ack => apc \in Waiting /\ mpend.time \in handled

\* A request that can still arrive is the durable payload or was handled, and
\* what was handled is remembered by a receipt or lies before the epoch.
NetInv ==
    /\ now >= 1 /\ lastTime <= now /\ epoch <= now
    /\ \A r \in req : Has(r) /\ (r = dpend \/ r.time \in handled)
    /\ Has(dpend) => dpend.time = lastTime
    /\ \A t \in handled : t <= lastTime /\ (t \in receipts \/ t < epoch)
    /\ receipts \subseteq handled

\* The account, what state.json may be while a payload is pending, and that
\* neither the files nor the host row are ahead of what they tell of.
LedgerInv ==
    /\ total + ignored + Credit(dpend) = Position
    /\ Has(dpend) => \/ dstate = dpend.cur /\ dpend.time \in handled
                     \/ dstate = dpend.cur - dpend.delta
    /\ Position <= ctr
    /\ hostVal <= total + ignored

\* WindowOnce, and a dead Agent has no sampler.
WindowInv == WindowOnce /\ (apc = "dead" => active = 0)

\* What CurrentNeverRewinds says of one step.
NoRewind == epoch' = epoch => hostVal' >= hostVal

\* A step of TrafficLedger, or one that leaves its variables unchanged.
LedgerNext == [Ledger!Next]_<<Position, Credit(dpend), total + ignored>>

-----------------------------------------------------------------------------
(* Types, under every fault.                                               *)

\* Every step keeps the types; delta_counter never yields a negative number.
LEMMA TypeStep == TypeOK /\ [Next]_vars => TypeOK'
<1> SUFFICES ASSUME TypeOK, [Next]_vars
             PROVE  TypeOK'
  OBVIOUS
<1> USE DEF TypeOK, Payload, clock, memory, disk, monitor, history
<1>1. CASE Tick
  BY <1>1 DEF Tick
<1>2. CASE sample
  BY <1>2 DEF sample
<1>3. CASE CounterReset
  BY <1>3 DEF CounterReset, Fault
<1>4. CASE run_push_cycle
  BY <1>4 DEF run_push_cycle
<1>5. CASE collect_cycle_payload
  BY <1>5 DEF collect_cycle_payload, CollectTime, delta_counter, Fault
<1>6. CASE post_payload
  BY <1>6 DEF post_payload
<1>7. CASE save_state
  <2>1. ack' \in BOOLEAN
    BY <1>7 DEF save_state, Fault
  <2>2. faults' \in 0..MaxFaults
    BY <1>7 DEF save_state, Fault
  <2>3. dstate' \in Nat
    BY <1>7 DEF save_state, Fault
  <2>4. apc' \in {"clear1", "clear2", "idle"}
    BY <1>7 DEF save_state, Fault
  <2> QED
    BY <1>7, <2>1, <2>2, <2>3, <2>4 DEF save_state
<1>8. CASE ClearPending
  <2>1. mpend' \in Payload /\ dpend' \in Payload
    BY <1>8 DEF ClearPending, Fault, NoPayload
  <2>2. faults' \in 0..MaxFaults
    BY <1>8 DEF ClearPending, Fault, NoPayload
  <2>3. dcarry' \in Nat /\ mstate' \in Nat
    BY <1>8 DEF ClearPending, Fault, NoPayload
  <2>4. apc' \in {"collect", "idle"}
    BY <1>8 DEF ClearPending, Fault, NoPayload
  <2> QED
    BY <1>8, <2>1, <2>2, <2>3, <2>4 DEF ClearPending
<1>9. CASE Restart
  BY <1>9 DEF Restart
<1>10. CASE PostFails
  BY <1>10 DEF PostFails
<1>11. CASE SaveRuntimeFails
  <2>1. ack' \in BOOLEAN
    BY <1>11 DEF SaveRuntimeFails, Dies, Fault
  <2>2. faults' \in 0..MaxFaults
    BY <1>11 DEF SaveRuntimeFails, Dies, Fault
  <2>3. apc' = "dead" /\ active' = 0
    BY <1>11 DEF SaveRuntimeFails, Dies, Fault
  <2> QED
    BY <1>11, <2>1, <2>2, <2>3 DEF SaveRuntimeFails
<1>12. CASE GracefulStop
  <2>1. ack' \in BOOLEAN
    BY <1>12 DEF GracefulStop, Dies, Fault
  <2>2. faults' \in 0..MaxFaults
    BY <1>12 DEF GracefulStop, Dies, Fault
  <2>3. apc' = "dead" /\ active' = 0
    BY <1>12 DEF GracefulStop, Dies, Fault
  <2> QED
    BY <1>12, <2>1, <2>2, <2>3 DEF GracefulStop
<1>13. CASE Kill
  <2>1. ack' \in BOOLEAN
    BY <1>13 DEF Kill, Dies, Fault
  <2>2. faults' \in 0..MaxFaults
    BY <1>13 DEF Kill, Dies, Fault
  <2>3. apc' = "dead" /\ active' = 0
    BY <1>13 DEF Kill, Dies, Fault
  <2> QED
    BY <1>13, <2>1, <2>2, <2>3 DEF Kill
<1>14. ASSUME NEW p \in req, push(p) PROVE TypeOK'
  <2>1. req' \in SUBSET Payload
    BY <1>14 DEF push, Consume, Answer, Accept, Ignore, monitor, history
  <2>2. ack' \in BOOLEAN
    BY <1>14 DEF push, Consume, Answer, Accept, Ignore, monitor, history
  <2>3. receipts' \in SUBSET Nat /\ epoch' \in Nat
    BY <1>14 DEF push, Consume, Answer, Accept, Ignore, monitor, history
  <2>4. hostSeen' \in Nat /\ hostVal' \in Nat
    BY <1>14 DEF push, Consume, Answer, Accept, Ignore, monitor, history
  <2>5. total' \in Nat /\ wtotal' \in Nat
    BY <1>14 DEF push, Consume, Answer, Accept, Ignore, monitor, history
  <2>6. ignored' \in Nat
    BY <1>14 DEF push, Consume, Answer, Accept, Ignore, monitor, history
  <2>7. lastTime' \in Nat
    BY <1>14 DEF push, Consume, Answer, Accept, Ignore, monitor, history
  <2>8. handled' \in SUBSET Nat
    <3>1. p.time \in Nat
      OBVIOUS
    <3>2. handled' = handled \/ handled' = handled \cup {p.time}
      BY <1>14 DEF push, Accept, Ignore
    <3> QED
      BY <3>1, <3>2
  <2> QED
    BY <1>14, <2>8, <2>1, <2>2, <2>3, <2>4, <2>5, <2>6, <2>7 DEF push
<1>15. ASSUME NEW p \in req, Lose(p) PROVE TypeOK'
  BY <1>15 DEF Lose
<1>16. CASE clear_monitoring_data
  BY <1>16 DEF clear_monitoring_data, Fault
<1>17. ASSUME NEW t \in receipts, PurgeReceipt(t) PROVE TypeOK'
  BY <1>17 DEF PurgeReceipt, Fault
<1>18. CASE UNCHANGED vars
  BY <1>18 DEF vars
<1> QED
  BY <1>1, <1>2, <1>3, <1>4, <1>5, <1>6, <1>7, <1>8, <1>9, <1>10, <1>11,
     <1>12, <1>13, <1>14, <1>15, <1>16, <1>17, <1>18 DEF Next, Agent

\* The initial states are well typed.
LEMMA TypeInit == Init => TypeOK
<1>1. Init => ack \in BOOLEAN
  BY DEF Init
<1>2. NoPayload \in Payload
  BY DEF NoPayload, Payload
<1>3. Init => /\ req \in SUBSET Payload /\ receipts \in SUBSET Nat
              /\ handled \in SUBSET Nat
  BY DEF Init
<1> QED
  BY <1>1, <1>2, <1>3 DEF Init, TypeOK

\* TypeOK: every payload, file, receipt and counter is of its type.
THEOREM TypeCorrect == Spec => []TypeOK
<1>1. TypeOK /\ [Next]_vars => TypeOK'
  BY TypeStep
<1> QED
  BY <1>1, TypeInit, PTL DEF Spec

-----------------------------------------------------------------------------
(* The files and the network.                                              *)

\* FileInv is inductive together with NetInv.
LEMMA FileStep == Lossy /\ TypeOK /\ FileInv /\ NetInv /\ [Next]_vars
    => FileInv'
<1> SUFFICES ASSUME Lossy, TypeOK, FileInv, NetInv, [Next]_vars
             PROVE  FileInv'
  OBVIOUS
<1> USE DEF TypeOK, Payload, FileInv, NetInv, Waiting, Clearing, Has,
            NoPayload, Lossy, clock, memory, disk, monitor, history
<1>1. CASE Tick
  BY <1>1 DEF Tick
<1>2. CASE sample
  BY <1>2 DEF sample
<1>3. CASE CounterReset
  BY <1>3 DEF CounterReset, Fault
<1>4. CASE run_push_cycle
  BY <1>4 DEF run_push_cycle
<1>5. CASE collect_cycle_payload
  BY <1>5 DEF collect_cycle_payload, CollectTime, delta_counter, Fault
<1>6. CASE post_payload
  BY <1>6 DEF post_payload
<1>7. CASE save_state
  BY <1>7 DEF save_state, Fault
<1>8. CASE ClearPending
  BY <1>8 DEF ClearPending, Fault
<1>9. CASE Restart
  BY <1>9 DEF Restart
<1>10. CASE PostFails
  BY <1>10 DEF PostFails
<1>11. CASE SaveRuntimeFails
  BY <1>11 DEF SaveRuntimeFails, Dies, Fault
<1>12. CASE GracefulStop
  BY <1>12 DEF GracefulStop, Dies, Fault
<1>13. CASE Kill
  BY <1>13 DEF Kill, Dies, Fault
<1>14. ASSUME NEW p \in req, push(p) PROVE FileInv'
  BY <1>14 DEF push, Consume, Answer, Accept, Ignore
<1>15. ASSUME NEW p \in req, Lose(p) PROVE FileInv'
  BY <1>15 DEF Lose
<1>16. CASE clear_monitoring_data
  BY <1>16 DEF clear_monitoring_data, Fault
<1>17. ASSUME NEW t \in receipts, PurgeReceipt(t) PROVE FileInv'
  BY <1>17 DEF PurgeReceipt, Fault
<1>18. CASE UNCHANGED vars
  BY <1>18 DEF vars
<1> QED
  BY <1>1, <1>2, <1>3, <1>4, <1>5, <1>6, <1>7, <1>8, <1>9, <1>10, <1>11,
     <1>12, <1>13, <1>14, <1>15, <1>16, <1>17, <1>18 DEF Next, Agent

\* NetInv is inductive together with FileInv: a new payload is newer than all
\* that was handled, and a clear moves the epoch past all of it.
LEMMA NetStep == Lossy /\ TypeOK /\ FileInv /\ NetInv /\ [Next]_vars =>
    NetInv'
<1> SUFFICES ASSUME Lossy, TypeOK, FileInv, NetInv, [Next]_vars
             PROVE  NetInv'
  OBVIOUS
<1> USE DEF TypeOK, Payload, FileInv, NetInv, Waiting, Clearing, Has,
            NoPayload, Lossy, clock, memory, disk, monitor, history
<1>1. CASE Tick
  BY <1>1 DEF Tick
<1>2. CASE sample
  BY <1>2 DEF sample
<1>3. CASE CounterReset
  BY <1>3 DEF CounterReset, Fault
<1>4. CASE run_push_cycle
  BY <1>4 DEF run_push_cycle
<1>5. CASE collect_cycle_payload
  BY <1>5 DEF collect_cycle_payload, CollectTime, delta_counter, Fault
<1>6. CASE post_payload
  BY <1>6 DEF post_payload
<1>7. CASE save_state
  BY <1>7 DEF save_state, Fault
<1>8. CASE ClearPending
  BY <1>8 DEF ClearPending, Fault
<1>9. CASE Restart
  BY <1>9 DEF Restart
<1>10. CASE PostFails
  BY <1>10 DEF PostFails
<1>11. CASE SaveRuntimeFails
  BY <1>11 DEF SaveRuntimeFails, Dies, Fault
<1>12. CASE GracefulStop
  BY <1>12 DEF GracefulStop, Dies, Fault
<1>13. CASE Kill
  BY <1>13 DEF Kill, Dies, Fault
<1>14. ASSUME NEW p \in req, push(p) PROVE NetInv'
  <2>1. handled \subseteq handled' /\ receipts' \subseteq handled'
    BY <1>14 DEF push, Accept, Ignore
  <2>2. \A t \in handled' : t <= lastTime /\ (t \in receipts' \/ t < epoch')
    <3>1. p.time <= lastTime
      OBVIOUS
    <3>2. \/ UNCHANGED <<handled, receipts, epoch>>
          \/ /\ handled' = handled \cup {p.time}
             /\ p.time < epoch /\ receipts' = receipts /\ epoch' = epoch
          \/ /\ handled' = handled \cup {p.time}
             /\ receipts' = receipts \cup {p.time} /\ epoch' = epoch
      BY <1>14 DEF push, Accept, Ignore
    <3> QED
      BY <3>1, <3>2
  <2>3. /\ req' \subseteq req
        /\ UNCHANGED <<now, lastTime, dpend, epoch>>
    BY <1>14 DEF push, Consume, Accept, Ignore
  <2> QED
    BY <2>1, <2>2, <2>3
<1>15. ASSUME NEW p \in req, Lose(p) PROVE NetInv'
  BY <1>15 DEF Lose
<1>16. CASE clear_monitoring_data
  BY <1>16 DEF clear_monitoring_data, Fault
<1>17. ASSUME NEW t \in receipts, PurgeReceipt(t) PROVE NetInv'
  BY <1>17 DEF PurgeReceipt, Fault
<1>18. CASE UNCHANGED vars
  BY <1>18 DEF vars
<1> QED
  BY <1>1, <1>2, <1>3, <1>4, <1>5, <1>6, <1>7, <1>8, <1>9, <1>10, <1>11,
     <1>12, <1>13, <1>14, <1>15, <1>16, <1>17, <1>18 DEF Next, Agent

\* Every reachable state satisfies both.
LEMMA FilesAndNet ==
    ASSUME Lossy
    PROVE  Spec => [](FileInv /\ NetInv)
<1>1. Init => FileInv /\ NetInv
  BY DEF Init, FileInv, NetInv, Has, Waiting, Clearing
<1>2. TypeOK /\ FileInv /\ NetInv /\ [Next]_vars => FileInv' /\ NetInv'
  BY FileStep, NetStep
<1> QED
  BY <1>1, <1>2, TypeCorrect, PTL DEF Spec

\* What is survived without a loss may also happen next to what is not.
LEMMA LossyToo == Survivable => Lossy
  BY DEF Survivable, Lossy

-----------------------------------------------------------------------------
(* The account.                                                            *)

\* LedgerInv is inductive.
LEMMA LedgerStep == Survivable /\ TypeOK /\ FileInv /\ NetInv /\ LedgerInv
    /\ [Next]_vars => LedgerInv'
<1> SUFFICES ASSUME Survivable, TypeOK, FileInv, NetInv, LedgerInv,
      [Next]_vars
             PROVE  LedgerInv'
  OBVIOUS
<1> USE DEF TypeOK, Payload, FileInv, NetInv, Waiting, Clearing, Has,
            NoPayload, Survivable, LedgerInv, Credit, Position, clock,
            memory, disk, monitor, history
<1>1. CASE Tick
  BY <1>1 DEF Tick
<1>2. CASE sample
  BY <1>2 DEF sample
<1>3. CASE CounterReset
  BY <1>3 DEF CounterReset, Fault
<1>4. CASE run_push_cycle
  BY <1>4 DEF run_push_cycle
<1>5. CASE collect_cycle_payload
  BY <1>5 DEF collect_cycle_payload, CollectTime, delta_counter, Fault
<1>6. CASE post_payload
  BY <1>6 DEF post_payload
<1>7. CASE save_state
  BY <1>7 DEF save_state, Fault
<1>8. CASE ClearPending
  BY <1>8 DEF ClearPending, Fault
<1>9. CASE Restart
  BY <1>9 DEF Restart
<1>10. CASE PostFails
  BY <1>10 DEF PostFails
<1>11. CASE SaveRuntimeFails
  BY <1>11 DEF SaveRuntimeFails, Dies, Fault
<1>12. CASE GracefulStop
  BY <1>12 DEF GracefulStop, Dies, Fault
<1>13. CASE Kill
  BY <1>13 DEF Kill, Dies, Fault
<1>14. ASSUME NEW p \in req, push(p) PROVE LedgerInv'
  BY <1>14 DEF push, Consume, Answer, Accept, Ignore
<1>15. ASSUME NEW p \in req, Lose(p) PROVE LedgerInv'
  BY <1>15 DEF Lose
<1>16. CASE clear_monitoring_data
  BY <1>16 DEF clear_monitoring_data, Fault
<1>17. ASSUME NEW t \in receipts, PurgeReceipt(t) PROVE LedgerInv'
  BY <1>17 DEF PurgeReceipt, Fault
<1>18. CASE UNCHANGED vars
  BY <1>18 DEF vars
<1> QED
  BY <1>1, <1>2, <1>3, <1>4, <1>5, <1>6, <1>7, <1>8, <1>9, <1>10, <1>11,
     <1>12, <1>13, <1>14, <1>15, <1>16, <1>17, <1>18 DEF Next, Agent

\* Every reachable state satisfies LedgerInv.
LEMMA Balanced ==
    ASSUME Survivable
    PROVE  Spec => []LedgerInv
<1>1. Init => LedgerInv
  BY DEF Init, LedgerInv, Credit, Position, Has, NoPayload
<1>2. /\ TypeOK /\ FileInv /\ NetInv /\ LedgerInv /\ [Next]_vars
      => LedgerInv'
  BY LedgerStep
<1> QED
  BY <1>1, <1>2, TypeCorrect, FilesAndNet, LossyToo, PTL DEF Spec

\* ExactlyOnce: through crashes, restarts, lost answers, late copies and
\* clears, what the Agent's files have moved past was added to the rollups
\* once, was fenced off by the epoch, or is pending.
THEOREM TrafficExactlyOnce ==
    ASSUME Survivable
    PROVE  Spec => []ExactlyOnce
<1>1. LedgerInv => ExactlyOnce
  BY DEF LedgerInv, ExactlyOnce
<1> QED
  BY <1>1, Balanced, PTL

\* The step lemma of WindowOnce: the carry moves, it is never copied.
LEMMA WindowStep == Survivable /\ TypeOK /\ FileInv /\ NetInv /\ WindowInv
    /\ [Next]_vars => WindowInv'
<1> SUFFICES ASSUME Survivable, TypeOK, FileInv, NetInv, WindowInv,
      [Next]_vars
             PROVE  WindowInv'
  OBVIOUS
<1> USE DEF TypeOK, Payload, FileInv, NetInv, Waiting, Clearing, Has,
            NoPayload, Survivable, WindowInv, WindowOnce, WinCredit, clock,
            memory, disk, monitor, history
<1>1. CASE Tick
  BY <1>1 DEF Tick
<1>2. CASE sample
  BY <1>2 DEF sample
<1>3. CASE CounterReset
  BY <1>3 DEF CounterReset, Fault
<1>4. CASE run_push_cycle
  BY <1>4 DEF run_push_cycle
<1>5. CASE collect_cycle_payload
  BY <1>5 DEF collect_cycle_payload, CollectTime, delta_counter, Fault
<1>6. CASE post_payload
  BY <1>6 DEF post_payload
<1>7. CASE save_state
  BY <1>7 DEF save_state, Fault
<1>8. CASE ClearPending
  BY <1>8 DEF ClearPending, Fault
<1>9. CASE Restart
  BY <1>9 DEF Restart
<1>10. CASE PostFails
  BY <1>10 DEF PostFails
<1>11. CASE SaveRuntimeFails
  BY <1>11 DEF SaveRuntimeFails, Dies, Fault
<1>12. CASE GracefulStop
  BY <1>12 DEF GracefulStop, Dies, Fault
<1>13. CASE Kill
  BY <1>13 DEF Kill, Dies, Fault
<1>14. ASSUME NEW p \in req, push(p) PROVE WindowInv'
  BY <1>14 DEF push, Consume, Answer, Accept, Ignore
<1>15. ASSUME NEW p \in req, Lose(p) PROVE WindowInv'
  BY <1>15 DEF Lose
<1>16. CASE clear_monitoring_data
  BY <1>16 DEF clear_monitoring_data, Fault
<1>17. ASSUME NEW t \in receipts, PurgeReceipt(t) PROVE WindowInv'
  BY <1>17 DEF PurgeReceipt, Fault
<1>18. CASE UNCHANGED vars
  BY <1>18 DEF vars
<1> QED
  BY <1>1, <1>2, <1>3, <1>4, <1>5, <1>6, <1>7, <1>8, <1>9, <1>10, <1>11,
     <1>12, <1>13, <1>14, <1>15, <1>16, <1>17, <1>18 DEF Next, Agent

\* WindowOnce: no sample of the network sampler is stored twice, or stored and
\* still held by the Agent.
THEOREM SamplesAtMostOnce ==
    ASSUME Survivable
    PROVE  Spec => []WindowOnce
<1>1. Init => WindowInv
  BY DEF Init, WindowInv, WindowOnce, WinCredit, NoPayload
<1>2. TypeOK /\ FileInv /\ NetInv /\ WindowInv /\ [Next]_vars => WindowInv'
  BY WindowStep
<1>3. WindowInv => WindowOnce
  BY DEF WindowInv
<1> QED
  BY <1>1, <1>2, <1>3, TypeCorrect, FilesAndNet, LossyToo, PTL DEF Spec

\* One step never takes the host row back.
LEMMA RewindStep == Survivable /\ TypeOK /\ FileInv /\ NetInv /\ LedgerInv
    /\ [Next]_vars => NoRewind
<1> SUFFICES ASSUME Survivable, TypeOK, FileInv, NetInv, LedgerInv,
      [Next]_vars
             PROVE  NoRewind
  OBVIOUS
<1> USE DEF TypeOK, Payload, FileInv, NetInv, Waiting, Clearing, Has,
            NoPayload, Survivable, LedgerInv, Credit, Position, NoRewind,
            clock, memory, disk, monitor, history
<1>1. CASE Tick
  BY <1>1 DEF Tick
<1>2. CASE sample
  BY <1>2 DEF sample
<1>3. CASE CounterReset
  BY <1>3 DEF CounterReset, Fault
<1>4. CASE run_push_cycle
  BY <1>4 DEF run_push_cycle
<1>5. CASE collect_cycle_payload
  BY <1>5 DEF collect_cycle_payload, CollectTime, delta_counter, Fault
<1>6. CASE post_payload
  BY <1>6 DEF post_payload
<1>7. CASE save_state
  BY <1>7 DEF save_state, Fault
<1>8. CASE ClearPending
  BY <1>8 DEF ClearPending, Fault
<1>9. CASE Restart
  BY <1>9 DEF Restart
<1>10. CASE PostFails
  BY <1>10 DEF PostFails
<1>11. CASE SaveRuntimeFails
  BY <1>11 DEF SaveRuntimeFails, Dies, Fault
<1>12. CASE GracefulStop
  BY <1>12 DEF GracefulStop, Dies, Fault
<1>13. CASE Kill
  BY <1>13 DEF Kill, Dies, Fault
<1>14. ASSUME NEW p \in req, push(p) PROVE NoRewind
  BY <1>14 DEF push, Consume, Answer, Accept, Ignore
<1>15. ASSUME NEW p \in req, Lose(p) PROVE NoRewind
  BY <1>15 DEF Lose
<1>16. CASE clear_monitoring_data
  BY <1>16 DEF clear_monitoring_data, Fault
<1>17. ASSUME NEW t \in receipts, PurgeReceipt(t) PROVE NoRewind
  BY <1>17 DEF PurgeReceipt, Fault
<1>18. CASE UNCHANGED vars
  BY <1>18 DEF vars
<1> QED
  BY <1>1, <1>2, <1>3, <1>4, <1>5, <1>6, <1>7, <1>8, <1>9, <1>10, <1>11,
     <1>12, <1>13, <1>14, <1>15, <1>16, <1>17, <1>18 DEF Next, Agent

\* CurrentNeverRewinds: between clears the values of the current host row only
\* move forward, although the upsert does not compare times.
THEOREM HostRowForward ==
    ASSUME Survivable
    PROVE  Spec => CurrentNeverRewinds
<1>1. /\ TypeOK /\ FileInv /\ NetInv /\ LedgerInv /\ [Next]_vars
      => [NoRewind]_vars
  BY RewindStep
<1> QED
  BY <1>1, TypeCorrect, FilesAndNet, LossyToo, Balanced, PTL
     DEF Spec, CurrentNeverRewinds, NoRewind

-----------------------------------------------------------------------------
(* The refinement.                                                         *)

\* A collection is a reading, the first handling of a payload settles it, and
\* everything else leaves the ledger alone.
LEMMA RefinementStep == Survivable /\ TypeOK /\ FileInv /\ NetInv /\
    LedgerInv /\ [Next]_vars => LedgerNext
<1> SUFFICES ASSUME Survivable, TypeOK, FileInv, NetInv, LedgerInv,
      [Next]_vars
             PROVE  LedgerNext
  OBVIOUS
<1> USE DEF TypeOK, Payload, FileInv, NetInv, Waiting, Clearing, Has,
            NoPayload, Survivable, LedgerInv, Credit, Position, LedgerNext,
            Ledger!Next, Ledger!Read, Ledger!Settle, clock, memory, disk,
            monitor, history
<1>1. CASE Tick
  BY <1>1 DEF Tick
<1>2. CASE sample
  BY <1>2 DEF sample
<1>3. CASE CounterReset
  BY <1>3 DEF CounterReset, Fault
<1>4. CASE run_push_cycle
  BY <1>4 DEF run_push_cycle
<1>5. CASE collect_cycle_payload
  BY <1>5 DEF collect_cycle_payload, CollectTime, delta_counter, Fault
<1>6. CASE post_payload
  BY <1>6 DEF post_payload
<1>7. CASE save_state
  BY <1>7 DEF save_state, Fault
<1>8. CASE ClearPending
  BY <1>8 DEF ClearPending, Fault
<1>9. CASE Restart
  BY <1>9 DEF Restart
<1>10. CASE PostFails
  BY <1>10 DEF PostFails
<1>11. CASE SaveRuntimeFails
  BY <1>11 DEF SaveRuntimeFails, Dies, Fault
<1>12. CASE GracefulStop
  BY <1>12 DEF GracefulStop, Dies, Fault
<1>13. CASE Kill
  BY <1>13 DEF Kill, Dies, Fault
<1>14. ASSUME NEW p \in req, push(p) PROVE LedgerNext
  BY <1>14 DEF push, Consume, Answer, Accept, Ignore
<1>15. ASSUME NEW p \in req, Lose(p) PROVE LedgerNext
  BY <1>15 DEF Lose
<1>16. CASE clear_monitoring_data
  BY <1>16 DEF clear_monitoring_data, Fault
<1>17. ASSUME NEW t \in receipts, PurgeReceipt(t) PROVE LedgerNext
  BY <1>17 DEF PurgeReceipt, Fault
<1>18. CASE UNCHANGED vars
  BY <1>18 DEF vars
<1> QED
  BY <1>1, <1>2, <1>3, <1>4, <1>5, <1>6, <1>7, <1>8, <1>9, <1>10, <1>11,
     <1>12, <1>13, <1>14, <1>15, <1>16, <1>17, <1>18 DEF Next, Agent

\* LedgerSpec: the Agent, the network and the monitor implement TrafficLedger.
THEOREM ImplementsLedger ==
    ASSUME Survivable
    PROVE  Spec => LedgerSpec
<1>1. Init => Ledger!Init
  BY DEF Init, Ledger!Init, Position, Credit, Has, NoPayload
<1>2. /\ TypeOK /\ FileInv /\ NetInv /\ LedgerInv /\ [Next]_vars
      => LedgerNext
  BY RefinementStep
<1> QED
  BY <1>1, <1>2, TypeCorrect, FilesAndNet, LossyToo, Balanced, PTL
     DEF Spec, LedgerSpec, Ledger!Spec, LedgerNext

-----------------------------------------------------------------------------
(* Faults that lose traffic.                                               *)

\* The traffic a collection would report now.
Uncollected == delta_counter(ctr, Position)

\* What was added, is owed or would be collected was on the wire: a counter
\* that restarts and a payload that shares its second with another one only
\* make less of it.
RoomInv == total + Credit(dpend) + Uncollected <= wire

\* RoomInv is inductive.
LEMMA RoomStep == Lossy /\ TypeOK /\ FileInv /\ NetInv /\ RoomInv
    /\ [Next]_vars => RoomInv'
<1> SUFFICES ASSUME Lossy, TypeOK, FileInv, NetInv, RoomInv, [Next]_vars
             PROVE  RoomInv'
  OBVIOUS
<1> USE DEF TypeOK, Payload, FileInv, NetInv, Waiting, Clearing, Has,
            NoPayload, Lossy, RoomInv, Uncollected, delta_counter, Credit,
            Position, clock, memory, disk, monitor, history
<1>1. CASE Tick
  BY <1>1 DEF Tick
<1>2. CASE sample
  BY <1>2 DEF sample
<1>3. CASE CounterReset
  BY <1>3 DEF CounterReset, Fault
<1>4. CASE run_push_cycle
  BY <1>4 DEF run_push_cycle
<1>5. CASE collect_cycle_payload
  BY <1>5 DEF collect_cycle_payload, CollectTime, Fault
<1>6. CASE post_payload
  BY <1>6 DEF post_payload
<1>7. CASE save_state
  BY <1>7 DEF save_state, Fault
<1>8. CASE ClearPending
  BY <1>8 DEF ClearPending, Fault
<1>9. CASE Restart
  BY <1>9 DEF Restart
<1>10. CASE PostFails
  BY <1>10 DEF PostFails
<1>11. CASE SaveRuntimeFails
  BY <1>11 DEF SaveRuntimeFails, Dies, Fault
<1>12. CASE GracefulStop
  BY <1>12 DEF GracefulStop, Dies, Fault
<1>13. CASE Kill
  BY <1>13 DEF Kill, Dies, Fault
<1>14. ASSUME NEW p \in req, push(p) PROVE RoomInv'
  BY <1>14 DEF push, Consume, Answer, Accept, Ignore
<1>15. ASSUME NEW p \in req, Lose(p) PROVE RoomInv'
  BY <1>15 DEF Lose
<1>16. CASE clear_monitoring_data
  BY <1>16 DEF clear_monitoring_data, Fault
<1>17. ASSUME NEW t \in receipts, PurgeReceipt(t) PROVE RoomInv'
  BY <1>17 DEF PurgeReceipt, Fault
<1>18. CASE UNCHANGED vars
  BY <1>18 DEF vars
<1> QED
  BY <1>1, <1>2, <1>3, <1>4, <1>5, <1>6, <1>7, <1>8, <1>9, <1>10, <1>11,
     <1>12, <1>13, <1>14, <1>15, <1>16, <1>17, <1>18 DEF Next, Agent

\* LossyNoDoubleCount: with an Agent whose clock is not ahead, no kill, stop,
\* clear, restarted counter or shared second makes the rollups of push() hold
\* more than the wire carried.
THEOREM NothingCountedTwice ==
    ASSUME Lossy
    PROVE  ScenesSpec => []LossyNoDoubleCount
<1> DEFINE Inv == scene = "base" => TypeOK /\ FileInv /\ NetInv /\ RoomInv
<1>1. ScenesInit => Inv
  <2> SUFFICES ASSUME Init PROVE TypeOK /\ FileInv /\ NetInv /\ RoomInv
    BY DEF ScenesInit
  <2>1. FileInv /\ NetInv
    BY DEF Init, FileInv, NetInv, Has, Waiting, Clearing
  <2>2. RoomInv
    BY DEF Init, RoomInv, Uncollected, delta_counter, Credit, Position, Has,
           NoPayload
  <2> QED
    BY <2>1, <2>2, TypeInit
<1>2. Inv /\ [ScenesNext]_sv => Inv'
  <2> SUFFICES ASSUME Inv, [ScenesNext]_sv, scene' = "base"
               PROVE  (TypeOK /\ FileInv /\ NetInv /\ RoomInv)'
    OBVIOUS
  <2>1. (scene = "base" /\ Next) \/ UNCHANGED vars
    BY DEF ScenesNext, sv
  <2>2. scene = "base"
    BY DEF ScenesNext, sv
  <2> QED
    BY <2>1, <2>2, TypeStep, FileStep, NetStep, RoomStep
<1>3. Inv => LossyNoDoubleCount
  BY DEF LossyNoDoubleCount, NoDoubleCount, RoomInv, Uncollected,
         delta_counter, Credit, Position, TypeOK, Payload, Has
<1> QED
  BY <1>1, <1>2, <1>3, PTL DEF ScenesSpec
=============================================================================
