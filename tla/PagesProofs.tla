---------------------------- MODULE PagesProofs ----------------------------
(***************************************************************************)
(* Proofs about what the pages show: HistoryTiers, for metric tables of    *)
(* any number, hours and periods of any length and charts of any size, and *)
(* Listings, for any VMs, nodes, groups and scopes.                        *)
(*                                                                         *)
(* That usage is billed once and the raw period is left alone follows from *)
(* a run's cutoff, which is never younger than the raw period or the age   *)
(* that was asked for, also while pushes go on.                            *)
(*                                                                         *)
(* That an hour is left with one real bucket is a matter of runs that may  *)
(* die anywhere and of what the next run makes of their remains.  An hour  *)
(* that lost a bucket has another one that is whole and at least as good,  *)
(* below the cutoff of the last retention run that began, and the next run *)
(* chooses that one again; what a run under way keeps is indexed and       *)
(* whole, and the tables it is through with have nothing else.             *)
(*                                                                         *)
(* The points of a chart are a matter of numbers: the i-th of n points is  *)
(* never further than half a bucket from i / (n - 1) of the way.           *)
(*                                                                         *)
(* The listings: a request knows, after each of its reads, that what it    *)
(* must show has been found, that it belongs to the group it was asked     *)
(* for unless that group was not active, and that what the gate has let    *)
(* pass was visible; a VM that is current is not deleted, as deleted VMs   *)
(* have not been seen for long.                                            *)
(***************************************************************************)
EXTENDS HistoryTiers, Listings, FiniteSetTheorems, WellFoundedInduction, TLAPS

-----------------------------------------------------------------------------
(* Usage and the raw period.                                               *)

\* A run's cutoff is of the raw period or of an age that an administrator may ask for.
CutoffOld(cutoff) ==
    cutoff \in Int /\ (cutoff <= newest - RawBuckets \/ \E age \in DeleteAges : cutoff <= newest - age)

HistoryInv ==
    /\ newest \in Nat /\ usage \subseteq FirstBuckets
    /\ job = [at |-> job.at, table |-> job.table, raw |-> job.raw,
              hourly |-> job.hourly, keep |-> job.keep]
    /\ billed \in [AllHours -> Nat]
    /\ metric \in [MetricTables -> SUBSET Int]
    /\ brought \in [AllBuckets -> [tables : SUBSET MetricTables, complete : BOOLEAN]]
    /\ job.at # "idle" => CutoffOld(job.raw)
    /\ BilledOnce /\ RawUntouched

LEMMA OlderThen ==
    ASSUME NEW c \in Int, NEW m \in Int, NEW n \in Int, NEW a \in Int, n >= m, c >= n - a
    PROVE  c >= m - a
  OBVIOUS

LEMMA FirstAreFinite == IsFiniteSet(FirstBuckets)
<1>1. FirstBuckets = {1} \cup {2}
  BY DEF FirstBuckets
<1> QED
  BY <1>1, FS_Singleton, FS_Union

LEMMA HistoryStart ==
    ASSUME HistoryInit
    PROVE  HistoryInv
<1>1. /\ newest \in Nat /\ usage \subseteq FirstBuckets /\ billed \in [AllHours -> Nat]
      /\ metric \in [MetricTables -> SUBSET Int] /\ job.at = "idle"
      /\ job = [at |-> job.at, table |-> job.table, raw |-> job.raw,
                hourly |-> job.hourly, keep |-> job.keep]
  BY DEF HistoryInit, FirstBuckets, Idle
<1>2. brought \in [AllBuckets -> [tables : SUBSET MetricTables, complete : BOOLEAN]]
  BY HistoryAssumption DEF HistoryInit
<1>3. BilledOnce
  <2> SUFFICES ASSUME NEW h \in AllHours
               PROVE  0 + Cardinality({b \in FirstBuckets : Hour(b) = h})
                      = Cardinality({b \in FirstBuckets : Hour(b) = h})
    BY DEF HistoryInit, BilledOnce
  <2>1. IsFiniteSet({b \in FirstBuckets : Hour(b) = h})
    BY FirstAreFinite, FS_Subset
  <2> QED
    BY <2>1, FS_CardinalityType
<1>4. RawUntouched
  BY HistoryAssumption DEF HistoryInit, RawUntouched
<1> QED
  BY <1>1, <1>2, <1>3, <1>4 DEF HistoryInv

\* The tables that a step of a run, or a wait, leaves as they are.
LEMMA HistoryStays ==
    ASSUME HistoryInv, newest' \in Nat, newest' >= newest,
           UNCHANGED <<metric, usage, billed, brought>>,
           job' = [at |-> job'.at, table |-> job'.table, raw |-> job'.raw,
                   hourly |-> job'.hourly, keep |-> job'.keep],
           job'.at # "idle" =>
               \/ job.at # "idle" /\ job'.raw = job.raw
               \/ CutoffOld(job'.raw) /\ newest' = newest
    PROVE  HistoryInv'
<1>1. newest \in Int /\ RawBuckets \in Int /\ \A age \in DeleteAges : age \in Int
  BY HistoryAssumption DEF HistoryInv
<1>2. BilledOnce'
  BY DEF HistoryInv, BilledOnce
<1>3. RawUntouched'
  <2> SUFFICES ASSUME NEW c \in AllBuckets, c >= newest' - RawBuckets,
                      \A age \in DeleteAges : c >= newest' - age,
                      NEW t \in brought[c].tables
               PROVE  c \in metric[t]
    BY DEF RawUntouched
  <2>1. c >= newest - RawBuckets
    BY <1>1 DEF AllBuckets
  <2>2. \A age \in DeleteAges : c >= newest - age
    BY <1>1 DEF AllBuckets
  <2> QED
    BY <2>1, <2>2 DEF HistoryInv, RawUntouched
<1>4. job'.at # "idle" => CutoffOld(job.raw)'
  BY <1>1 DEF HistoryInv, CutoffOld
<1> QED
  BY <1>2, <1>3, <1>4 DEF HistoryInv

\* push: a bucket gets the rows that it brings.
LEMMA HistoryStores ==
    ASSUME HistoryInv, NEW b \in AllBuckets, NEW k \in PushKinds, Store(b, k),
           newest' \in Nat, newest' >= newest
    PROVE  HistoryInv'
<1>1. /\ newest \in Int /\ RawBuckets \in Int /\ \A age \in DeleteAges : age \in Int
      /\ k \in [tables : SUBSET MetricTables, complete : BOOLEAN] /\ b \in Int
  BY HistoryAssumption DEF HistoryInv, AllBuckets
<1>2. /\ metric' = [t \in MetricTables |-> IF t \in k.tables THEN metric[t] \cup {b} ELSE metric[t]]
      /\ brought' = [brought EXCEPT ![b] = [tables |-> brought[b].tables \cup k.tables,
                                            complete |-> brought[b].complete \/ k.complete]]
      /\ usage' = usage /\ billed' = billed /\ job' = job
  BY DEF Store
<1>3. /\ metric \in [MetricTables -> SUBSET Int]
      /\ brought \in [AllBuckets -> [tables : SUBSET MetricTables, complete : BOOLEAN]]
  BY DEF HistoryInv
<1>4. metric' \in [MetricTables -> SUBSET Int]
  BY <1>1, <1>2, <1>3
<1>5. brought' \in [AllBuckets -> [tables : SUBSET MetricTables, complete : BOOLEAN]]
  <2>1. /\ brought[b].tables \cup k.tables \in SUBSET MetricTables
        /\ (brought[b].complete \/ k.complete) \in BOOLEAN
    BY <1>1, <1>3
  <2> QED
    BY <1>2, <1>3, <2>1
<1>6. RawUntouched'
  <2> SUFFICES ASSUME NEW c \in AllBuckets, c >= newest' - RawBuckets,
                      \A age \in DeleteAges : c >= newest' - age,
                      NEW t \in brought'[c].tables
               PROVE  c \in metric'[t]
    BY DEF RawUntouched
  <2>1. c >= newest - RawBuckets /\ \A age \in DeleteAges : c >= newest - age
    <3>1. c >= newest - RawBuckets
      <4>1. c \in Int /\ newest' \in Int
        BY DEF AllBuckets
      <4> QED
        BY <1>1, <4>1, OlderThen
    <3>2. ASSUME NEW age \in DeleteAges PROVE c >= newest - age
      <4>1. c >= newest' - age /\ age \in Int /\ newest \in Int /\ newest' \in Int /\ c \in Int
        BY <1>1 DEF AllBuckets
      <4> QED
        BY <4>1, OlderThen
    <3> QED
      BY <3>1, <3>2
  <2>2. t \in brought[c].tables \/ (c = b /\ t \in k.tables)
    BY <1>2, <1>3
  <2>3. t \in MetricTables
    BY <1>5
  <2>4. t \in brought[c].tables => c \in metric[t]
    BY <2>1 DEF HistoryInv, RawUntouched
  <2> QED
    BY <1>2, <2>2, <2>3, <2>4
<1>7. BilledOnce'
  BY <1>2 DEF HistoryInv, BilledOnce
<1>8. job'.at # "idle" => CutoffOld(job.raw)'
  BY <1>1, <1>2 DEF HistoryInv, CutoffOld
<1> QED
  BY <1>2, <1>4, <1>5, <1>6, <1>7, <1>8 DEF HistoryInv

LEMMA HistoryDeletes ==
    ASSUME HistoryInv, NEW S \in Batches(metric[TableOrder[job.table]]), DeleteMetrics(S)
    PROVE  HistoryInv'
<1>1. /\ newest \in Int /\ RawBuckets \in Int /\ \A age \in DeleteAges : age \in Int
      /\ metric \in [MetricTables -> SUBSET Int]
  BY HistoryAssumption DEF HistoryInv
<1>2. /\ metric' = [metric EXCEPT ![TableOrder[job.table]] = metric[TableOrder[job.table]] \ S]
      /\ newest' = newest /\ usage' = usage /\ billed' = billed /\ job' = job
      /\ brought' = brought /\ job.at # "idle"
  BY DEF DeleteMetrics
<1>3. \A b \in S : b < job.raw
  BY DEF Batches, Doomed
<1>4. metric' \in [MetricTables -> SUBSET Int]
  BY <1>1, <1>2
<1>5. RawUntouched'
  <2> SUFFICES ASSUME NEW c \in AllBuckets, c >= newest - RawBuckets,
                      \A age \in DeleteAges : c >= newest - age,
                      NEW t \in brought[c].tables
               PROVE  c \in metric'[t]
    BY <1>2 DEF RawUntouched
  <2>1. c \in metric[t] /\ t \in MetricTables
    BY DEF HistoryInv, RawUntouched
  <2>2. CutoffOld(job.raw)
    BY <1>2 DEF HistoryInv
  <2>3. c \notin S
    BY <1>1, <1>3, <2>2 DEF CutoffOld, AllBuckets
  <2> QED
    BY <1>1, <1>2, <2>1, <2>3
<1>6. BilledOnce' /\ CutoffOld(job.raw)'
  BY <1>2 DEF HistoryInv, BilledOnce, CutoffOld
<1> QED
  BY <1>2, <1>4, <1>5, <1>6 DEF HistoryInv

\* _rollup_and_delete_legacy_usage: what is billed is what is deleted.
LEMMA HistoryRolls ==
    ASSUME HistoryInv, RollupUsage
    PROVE  HistoryInv'
<1>1. PICK h, chunk :
        /\ chunk = {b \in {c \in usage : c < job.raw} : Hour(b) = h}
        /\ billed' = [billed EXCEPT ![h] = billed[h] + Cardinality(chunk)]
        /\ usage' = usage \ chunk
        /\ newest' = newest /\ metric' = metric /\ job' = job /\ brought' = brought
  BY DEF RollupUsage
<1>2. usage \subseteq FirstBuckets /\ billed \in [AllHours -> Nat]
  BY DEF HistoryInv
<1>3. IsFiniteSet(usage) /\ IsFiniteSet(chunk) /\ Cardinality(chunk) \in Nat
  <2>1. IsFiniteSet(FirstBuckets)
    BY FirstAreFinite
  <2>2. IsFiniteSet(usage)
    BY <1>2, <2>1, FS_Subset
  <2> QED
    BY <1>1, <2>2, FS_Subset, FS_CardinalityType
<1>4. ASSUME NEW g \in AllHours
      PROVE  billed'[g] + Cardinality({b \in usage' : Hour(b) = g})
             = billed[g] + Cardinality({b \in usage : Hour(b) = g})
  <2> DEFINE A == {b \in usage : Hour(b) = g}
             B == {b \in usage' : Hour(b) = g}
  <2>1. IsFiniteSet(A) /\ Cardinality(A) \in Nat
    BY <1>3, FS_Subset, FS_CardinalityType
  <2>2. CASE g = h
    <3>1. B = A \ chunk /\ A \cap chunk = chunk
      BY <1>1, <2>2
    <3>2. Cardinality(B) = Cardinality(A) - Cardinality(chunk)
      BY <2>1, <3>1, FS_Difference
    <3>3. billed'[g] = billed[g] + Cardinality(chunk) /\ billed[g] \in Nat
      BY <1>1, <1>2, <2>2
    <3> HIDE DEF A, B
    <3>4. billed'[g] + Cardinality(B) = billed[g] + Cardinality(A)
      BY <1>3, <2>1, <3>2, <3>3
    <3> QED
      BY <3>4 DEF A, B
  <2>3. CASE g # h
    <3>1. A = B
      BY <1>1, <2>3
    <3>2. billed'[g] = billed[g]
      BY <1>1, <1>2, <2>3
    <3> QED
      BY <3>1, <3>2
  <2> QED
    BY <2>2, <2>3
<1>5. BilledOnce'
  BY <1>4 DEF HistoryInv, BilledOnce
<1>6. billed' \in [AllHours -> Nat]
  <2>1. CASE h \in AllHours
    BY <1>1, <1>2, <1>3, <2>1
  <2>2. CASE h \notin AllHours
    BY <1>1, <1>2, <2>2
  <2> QED
    BY <2>1, <2>2
<1>7. RawUntouched' /\ (job'.at # "idle" => CutoffOld(job.raw)')
  BY <1>1 DEF HistoryInv, RawUntouched, CutoffOld
<1> QED
  BY <1>1, <1>2, <1>5, <1>6, <1>7 DEF HistoryInv

LEMMA HistoryStep ==
    ASSUME HistoryInv, [HistoryNext]_historyVars
    PROVE  HistoryInv'
<1>0. /\ newest \in Nat /\ RawBuckets \in Int /\ DeleteAges \subseteq Int
      /\ MaxBucket \in Int
      /\ job = [at |-> job.at, table |-> job.table, raw |-> job.raw,
                hourly |-> job.hourly, keep |-> job.keep]
  BY HistoryAssumption DEF HistoryInv
<1>1. CASE UNCHANGED historyVars
  BY <1>0, <1>1, HistoryStays DEF historyVars
<1>2. ASSUME NEW k \in PushKinds, HistoryPush(k) PROVE HistoryInv'
  <2>1. newest + 1 \in AllBuckets
    BY <1>0, <1>2 DEF HistoryPush, AllBuckets
  <2> QED
    BY <1>0, <1>2, <2>1, HistoryStores DEF HistoryPush
<1>3. CASE Quiet
  BY <1>0, <1>3, HistoryStays DEF Quiet
<1>4. ASSUME NEW b \in AllBuckets, NEW k \in PushKinds, LatePush(b, k) PROVE HistoryInv'
  BY <1>0, <1>4, HistoryStores DEF LatePush
<1>5. CASE BeginRetention(newest)
  <2>1. /\ newest' = newest /\ UNCHANGED <<metric, usage, billed, brought>>
        /\ job' = [at |-> "metrics", table |-> 1, raw |-> newest - RawBuckets,
                   hourly |-> newest - HourlyBuckets,
                   keep |-> Keep(newest - RawBuckets, newest - HourlyBuckets)]
    BY <1>5 DEF BeginRetention
  <2>2. CutoffOld(job'.raw)
    BY <1>0, <2>1 DEF CutoffOld
  <2> QED
    BY <1>0, <2>1, <2>2, HistoryStays
<1>6. ASSUME NEW age \in DeleteAges, BeginDelete(age) PROVE HistoryInv'
  <2>1. /\ newest' = newest /\ UNCHANGED <<metric, usage, billed, brought>>
        /\ job' = [at |-> "usage first", table |-> 1, raw |-> newest - age,
                   hourly |-> newest - age, keep |-> {}]
    BY <1>6 DEF BeginDelete
  <2>2. newest - age \in Int /\ newest - age <= newest - age
    BY <1>0
  <2>3. CutoffOld(job'.raw)
    BY <1>0, <2>1, <2>2 DEF CutoffOld
  <2>4. job' = [at |-> job'.at, table |-> job'.table, raw |-> job'.raw,
                hourly |-> job'.hourly, keep |-> job'.keep]
    BY <2>1
  <2>5. newest' \in Nat /\ newest' >= newest
    <3>1. newest' = newest
      BY <2>1
    <3>2. newest \in Nat
      BY <1>0
    <3> QED
      BY <3>1, <3>2
  <2> QED
    BY <2>1, <2>3, <2>4, <2>5, HistoryStays
<1>7. ASSUME NEW S \in Batches(metric[TableOrder[job.table]]), DeleteMetrics(S) PROVE HistoryInv'
  BY <1>7, HistoryDeletes
<1>8. CASE MetricsDeleted \/ UsageRolledUp
  <2>1. /\ job.at # "idle" /\ newest' = newest
        /\ UNCHANGED <<metric, usage, billed, brought>>
        /\ job' \in {[job EXCEPT !.table = job.table + 1], [job EXCEPT !.at = "index"],
                     [job EXCEPT !.at = "usage"], [job EXCEPT !.at = "metrics"]}
    BY <1>8 DEF MetricsDeleted, UsageRolledUp
  <2>2. /\ job'.raw = job.raw
        /\ job' = [at |-> job'.at, table |-> job'.table, raw |-> job'.raw,
                   hourly |-> job'.hourly, keep |-> job'.keep]
    BY <1>0, <2>1
  <2> QED
    BY <1>0, <2>1, <2>2, HistoryStays
<1>9. CASE RollupUsage
  BY <1>9, HistoryRolls
<1>10. ASSUME NEW S \in Batches(DOMAIN index), DeleteIndex(S) PROVE HistoryInv'
  BY <1>0, <1>10, HistoryStays DEF DeleteIndex
<1>11. CASE EndRun \/ RunDies
  <2>1. /\ job' = Idle /\ newest' = newest /\ UNCHANGED <<metric, usage, billed, brought>>
    BY <1>11 DEF EndRun, RunDies
  <2>2. /\ job'.at = "idle"
        /\ job' = [at |-> job'.at, table |-> job'.table, raw |-> job'.raw,
                   hourly |-> job'.hourly, keep |-> job'.keep]
    BY <2>1 DEF Idle
  <2> QED
    BY <1>0, <2>1, <2>2, HistoryStays
<1> QED
  BY <1>1, <1>2, <1>3, <1>4, <1>5, <1>6, <1>7, <1>8, <1>9, <1>10, <1>11 DEF HistoryNext

-----------------------------------------------------------------------------
(* The hours of the history.                                               *)

LEMMA DivSpans ==
    ASSUME NEW a \in Nat, NEW p \in Nat \ {0}
    PROVE  a \div p \in Nat /\ (a \div p) * p <= a /\ a + 1 <= (a \div p + 1) * p
<1>1. /\ a \div p \in Int /\ a % p \in 0..(p - 1) /\ a = p * (a \div p) + (a % p)
  OBVIOUS
<1> QED
  BY <1>1, Z3

\* Min of a set of natural numbers.
LEMMA LeastIs ==
    ASSUME NEW S \in SUBSET Nat, S # {}
    PROVE  Min(S) \in S /\ \A y \in S : Min(S) <= y
<1> DEFINE R == OpToRel(<, Nat)
<1>1. IsWellFoundedOn(R, Nat)
  BY NatLessThanWellFounded
<1>2. \A x, y \in Nat : x < y => <<x, y>> \in R
  BY DEF OpToRel
<1> HIDE DEF R
<1>3. PICK x \in S : \A y \in S : ~(<<y, x>> \in R)
  BY <1>1, WFMin
<1>4. ASSUME NEW y \in S PROVE x <= y
  <2>1. x \in Nat /\ y \in Nat
    OBVIOUS
  <2>2. ~(y < x)
    BY <1>2, <1>3, <2>1
  <2> QED
    BY <2>1, <2>2
<1> QED
  BY <1>4 DEF Min

\* The first bucket of an hour, and the last.
HourFirst(h) == h * PerHour + 1
HourLast(h) == (h + 1) * PerHour

LEMMA HourSpans ==
    ASSUME NEW b \in AllBuckets
    PROVE  /\ b \in Nat /\ b >= 1 /\ Hour(b) \in AllHours /\ Hour(b) \in Nat
           /\ HourFirst(Hour(b)) \in Nat /\ HourFirst(Hour(b)) <= b
           /\ HourLast(Hour(b)) \in Nat /\ b <= HourLast(Hour(b))
<1>1. b \in Nat /\ b >= 1 /\ b - 1 \in Nat /\ PerHour \in Nat \ {0}
  BY HistoryAssumption DEF AllBuckets
<1>2. /\ (b - 1) \div PerHour \in Nat /\ ((b - 1) \div PerHour) * PerHour <= b - 1
      /\ (b - 1) + 1 <= ((b - 1) \div PerHour + 1) * PerHour
  BY <1>1, DivSpans
<1>3. Hour(b) \in AllHours
  BY DEF AllHours
<1>4. Hour(b) = (b - 1) \div PerHour
  BY DEF Hour
<1> DEFINE q == (b - 1) \div PerHour
<1>5. q \in Nat /\ q * PerHour <= b - 1 /\ (b - 1) + 1 <= (q + 1) * PerHour
  BY <1>2
<1> HIDE DEF q
<1>6. q * PerHour \in Nat /\ (q + 1) * PerHour \in Nat
  BY <1>1, <1>5
<1>7. Hour(b) = q
  BY <1>4 DEF q
<1> QED
  BY <1>1, <1>3, <1>5, <1>6, <1>7 DEF HourFirst, HourLast

\* The run under way is one of run_retention: a delete run keeps nothing.
Thinning == job.at # "idle" /\ job.raw # job.hourly

\* Hours that no late push reached and no run's hourly cutoff.
LiveHour(h) ==
    /\ h \in AllHours \ disturbed /\ cutoffs.hourly <= HourFirst(h)
    /\ job.at # "idle" => job.hourly <= HourFirst(h)

\* What retention_keep_buckets chooses from, and by what; a bucket that is whole.
SourceOf(h) == {b \in Source : Hour(b) = h}
Prefers(b, c) == IF Complete(b) <=> Complete(c) THEN b <= c ELSE Complete(b)
WholeBucket(b) == \A t \in brought[b].tables : b \in metric[t]

\* What the hour h still has for its bucket b: everything, as long as no retention
\* run began with a cutoff above it; afterwards a bucket of its hour, one with a
\* complete inventory if b had one, and no half of b that the next run would keep.
BucketKept(h, b) ==
    /\ b >= cutoffs.thinned =>
        /\ WholeBucket(b) /\ (brought[b].tables # {} => b \in Source)
        /\ brought[b].complete => Complete(b)
    /\ brought[b].tables # {} => SourceOf(h) # {}
    /\ brought[b].complete => \E c \in SourceOf(h) : Complete(c)
    /\ b \in Source =>
        \/ WholeBucket(b)
        \/ \E c \in SourceOf(h) : WholeBucket(c) /\ c < cutoffs.thinned /\ Prefers(c, b)
HourKept(h) == \A b \in AllBuckets : Hour(b) = h => BucketKept(h, b)

\* The metric tables that the run under way is through with.
Swept(i) == job.at \in {"usage", "index"} \/ i < job.table

\* What a retention run under way has found and done in the hour h.
HourThinned(h) ==
    /\ \A k \in job.keep : Hour(k) = h => k \in DOMAIN index /\ k < job.raw /\ WholeBucket(k)
    /\ \A b \in SourceOf(h) :
        IF b < job.raw THEN \E k \in job.keep : Hour(k) = h /\ Prefers(k, b) ELSE b \in DOMAIN index
    /\ \A i \in DOMAIN TableOrder : Swept(i) =>
        \A b \in metric[TableOrder[i]] : Hour(b) = h /\ b < job.raw => b \in job.keep

\* HistoryTypeOK with the domains of all variables that the hours depend on.
HistoryShapes ==
    /\ newest \in AllBuckets
    /\ DOMAIN index \subseteq AllBuckets /\ \A b \in DOMAIN index : index[b] \in BOOLEAN
    /\ metric \in [MetricTables -> SUBSET AllBuckets]
    /\ brought \in [AllBuckets -> [tables : SUBSET MetricTables, complete : BOOLEAN]]
    /\ indexed \in BOOLEAN
    /\ job \in [at : {"idle", "metrics", "usage", "usage first", "index"}, table : DOMAIN TableOrder,
                raw : Int, hourly : Int, keep : SUBSET AllBuckets]
    /\ cutoffs \in [raw : Int, hourly : Int, thinned : Int]
    /\ disturbed \subseteq AllHours

\* The cutoffs never get ahead of time, and the last run's is that of a retention
\* run that began, or of a delete run.
CutoffsTell ==
    /\ cutoffs.thinned = 0 \/ cutoffs.thinned <= newest - RawBuckets
    /\ cutoffs.raw <= cutoffs.thinned \/ cutoffs.raw <= cutoffs.hourly
    /\ cutoffs.hourly >= 0
    /\ Thinning => job.raw = cutoffs.thinned /\ job.at # "usage first"
    /\ job.raw = job.hourly => job.at # "usage"

HoursInv ==
    /\ HistoryShapes /\ CutoffsTell
    /\ Thinning => \A b, c \in job.keep : Hour(b) = Hour(c) => b = c
    /\ \A h \in AllHours : LiveHour(h) => HourKept(h) /\ (Thinning => HourThinned(h))
    /\ HourlyOneReal

LEMMA HoursStart ==
    ASSUME HistoryInit
    PROVE  HoursInv
<1>1. 2 \in AllBuckets /\ FirstBuckets \subseteq AllBuckets
  BY HistoryAssumption DEF AllBuckets, FirstBuckets
<1>2. 1 \in DOMAIN TableOrder /\ FirstTables \subseteq MetricTables
  BY HistoryAssumption
<1>3. HistoryShapes
  <2>1. metric \in [MetricTables -> SUBSET AllBuckets]
    <3>1. FirstBuckets \in SUBSET AllBuckets /\ {} \in SUBSET AllBuckets
      BY <1>1
    <3>2. metric = [t \in MetricTables |-> IF t \in FirstTables THEN FirstBuckets ELSE {}]
      BY DEF HistoryInit
    <3> QED
      BY <3>1, <3>2
  <2>2. brought \in [AllBuckets -> [tables : SUBSET MetricTables, complete : BOOLEAN]]
    <3>1. \A b \in AllBuckets :
             [tables |-> IF b \in FirstBuckets THEN FirstTables ELSE {}, complete |-> FALSE]
                 \in [tables : SUBSET MetricTables, complete : BOOLEAN]
      BY <1>2
    <3> QED
      BY <3>1 DEF HistoryInit
  <2>3. job \in [at : {"idle", "metrics", "usage", "usage first", "index"}, table : DOMAIN TableOrder,
                 raw : Int, hourly : Int, keep : SUBSET AllBuckets]
    BY <1>2 DEF HistoryInit, Idle
  <2>4. newest \in AllBuckets /\ indexed \in BOOLEAN /\ disturbed = {}
    BY <1>1 DEF HistoryInit
  <2>5. DOMAIN index = {}
    BY DEF HistoryInit
  <2>6. cutoffs \in [raw : Int, hourly : Int, thinned : Int]
    BY DEF HistoryInit
  <2> QED
    BY <2>1, <2>2, <2>3, <2>4, <2>5, <2>6 DEF HistoryShapes
<1>4. CutoffsTell /\ ~Thinning /\ HourlyOneReal
  BY DEF HistoryInit, CutoffsTell, Thinning, Idle, HourlyOneReal
<1>5. ASSUME NEW h \in AllHours PROVE HourKept(h)
  <2> SUFFICES ASSUME NEW b \in AllBuckets, Hour(b) = h PROVE BucketKept(h, b)
    BY DEF HourKept
  <2>1. /\ brought[b] = [tables |-> IF b \in FirstBuckets THEN FirstTables ELSE {}, complete |-> FALSE]
        /\ \A t \in FirstTables : metric[t] = FirstBuckets
        /\ indexed = FALSE /\ metric \in [MetricTables -> SUBSET AllBuckets]
    BY <1>1, <1>2 DEF HistoryInit
  <2>2. WholeBucket(b)
    BY <2>1 DEF WholeBucket
  <2>3. brought[b].tables # {} => b \in Source
    BY <1>2, <2>1 DEF Source
  <2> QED
    BY <2>1, <2>2, <2>3 DEF BucketKept, SourceOf
<1> QED
  BY <1>3, <1>4, <1>5 DEF HoursInv

\* A step that leaves the tables and the hour alone.
LEMMA HourStays ==
    ASSUME NEW h, HourKept(h), UNCHANGED <<index, metric, indexed, brought>>,
           cutoffs'.thinned = cutoffs.thinned
    PROVE  HourKept(h)'
  BY DEF HourKept, BucketKept, WholeBucket, SourceOf, Source, Prefers, Complete

LEMMA HourRunStays ==
    ASSUME NEW h, HourThinned(h), UNCHANGED <<index, metric, indexed, brought>>,
           job'.raw = job.raw, job'.keep = job.keep,
           \A i \in DOMAIN TableOrder : Swept(i)' => Swept(i)
    PROVE  HourThinned(h)'
<1>1. /\ \A b : Complete(b)' <=> Complete(b)
      /\ \A b : WholeBucket(b)' <=> WholeBucket(b)
      /\ SourceOf(h)' = SourceOf(h) /\ index' = index /\ metric' = metric
  BY DEF WholeBucket, SourceOf, Source, Complete
<1>2. \A b, c : Prefers(b, c)' <=> Prefers(b, c)
  BY <1>1 DEF Prefers
<1> QED
  BY <1>1, <1>2 DEF HourThinned

LEMMA HistoryNumbers ==
    ASSUME HistoryShapes
    PROVE  /\ newest \in Nat /\ RawBuckets \in Nat /\ HourlyBuckets \in Nat /\ MaxBucket \in Nat
           /\ cutoffs.raw \in Int /\ cutoffs.hourly \in Int /\ cutoffs.thinned \in Int
           /\ job.raw \in Int /\ job.hourly \in Int /\ job.keep \subseteq AllBuckets
           /\ job.table \in DOMAIN TableOrder
           /\ \A b \in AllBuckets : b \in Nat /\ b >= 1
<1>1. RawBuckets \in Nat /\ HourlyBuckets \in Nat /\ MaxBucket \in Nat
  BY HistoryAssumption
<1>2. \A b \in AllBuckets : b \in Nat /\ b >= 1
  BY <1>1 DEF AllBuckets
<1>3. cutoffs \in [raw : Int, hourly : Int, thinned : Int] /\ newest \in AllBuckets
  BY DEF HistoryShapes
<1>4. job \in [at : {"idle", "metrics", "usage", "usage first", "index"}, table : DOMAIN TableOrder,
               raw : Int, hourly : Int, keep : SUBSET AllBuckets]
  BY DEF HistoryShapes
<1> QED
  BY <1>1, <1>2, <1>3, <1>4

LEMMA SourceIs ==
    ASSUME HistoryShapes
    PROVE  Source \subseteq AllBuckets
<1>1. DOMAIN index \subseteq AllBuckets /\ \A t \in MetricTables : metric[t] \subseteq AllBuckets
  BY DEF HistoryShapes
<1> QED
  BY <1>1 DEF Source

\* push, as far as it writes history.
LEMMA StoreAdds ==
    ASSUME HistoryShapes, NEW b \in AllBuckets, NEW k \in PushKinds, Store(b, k)
    PROVE  /\ k \in [tables : SUBSET MetricTables, complete : BOOLEAN]
           /\ DOMAIN index' = DOMAIN index \cup {b} /\ indexed' = indexed /\ job' = job /\ cutoffs' = cutoffs
           /\ \A t \in MetricTables : metric[t] \subseteq metric'[t] /\ metric'[t] \subseteq metric[t] \cup {b}
           /\ brought'[b].tables = brought[b].tables \cup k.tables
           /\ brought'[b].complete <=> brought[b].complete \/ k.complete
           /\ \A c \in AllBuckets : c # b => brought'[c] = brought[c]
           /\ Source \subseteq Source' /\ b \in Source' /\ Source' \subseteq Source \cup {b}
           /\ \A c : c # b => (Complete(c)' <=> Complete(c))
           /\ Complete(b)' <=> Complete(b) \/ k.complete
           /\ \A c \in AllBuckets : WholeBucket(c) => WholeBucket(c)'
           /\ metric' \in [MetricTables -> SUBSET AllBuckets]
           /\ brought' \in [AllBuckets -> [tables : SUBSET MetricTables, complete : BOOLEAN]]
           /\ \A c \in DOMAIN index' : index'[c] \in BOOLEAN
<1>1. /\ k \in [tables : SUBSET MetricTables, complete : BOOLEAN]
      /\ indexed' = indexed /\ job' = job /\ cutoffs' = cutoffs /\ DOMAIN index' = DOMAIN index \cup {b}
      /\ \A c \in DOMAIN index' : index'[c] =
            IF c # b THEN index[c] ELSE k.complete \/ (b \in DOMAIN index /\ index[b])
      /\ metric' = [t \in MetricTables |-> IF t \in k.tables THEN metric[t] \cup {b} ELSE metric[t]]
      /\ brought' = [brought EXCEPT ![b] = [tables |-> brought[b].tables \cup k.tables,
                                            complete |-> brought[b].complete \/ k.complete]]
  BY HistoryAssumption DEF Store
<1>2. /\ \A t \in MetricTables : metric[t] \subseteq metric'[t] /\ metric'[t] \subseteq metric[t] \cup {b}
      /\ \A t \in k.tables : b \in metric'[t]
  BY <1>1 DEF HistoryShapes
<1>3. /\ brought'[b].tables = brought[b].tables \cup k.tables
      /\ brought'[b].complete <=> brought[b].complete \/ k.complete
      /\ \A c \in AllBuckets : c # b => brought'[c] = brought[c]
      /\ \A c \in AllBuckets : brought[c].tables \subseteq MetricTables
  BY <1>1 DEF HistoryShapes
<1>4. /\ Source \subseteq Source' /\ b \in Source' /\ Source' \subseteq Source \cup {b}
  BY <1>1, <1>2 DEF Source
<1>5. /\ \A c : c # b => (Complete(c)' <=> Complete(c))
      /\ Complete(b)' <=> Complete(b) \/ k.complete
  BY <1>1 DEF Complete
<1>6. \A c \in AllBuckets : WholeBucket(c) => WholeBucket(c)'
  BY <1>2, <1>3 DEF WholeBucket
<1>7. metric' \in [MetricTables -> SUBSET AllBuckets]
  BY <1>1 DEF HistoryShapes
<1>8. brought' \in [AllBuckets -> [tables : SUBSET MetricTables, complete : BOOLEAN]]
  <2>1. brought \in [AllBuckets -> [tables : SUBSET MetricTables, complete : BOOLEAN]]
    BY DEF HistoryShapes
  <2>2. [tables |-> brought[b].tables \cup k.tables, complete |-> brought[b].complete \/ k.complete]
           \in [tables : SUBSET MetricTables, complete : BOOLEAN]
    BY <1>1, <2>1
  <2> QED
    BY <1>1, <2>1, <2>2
<1>9. \A c \in DOMAIN index' : index'[c] \in BOOLEAN
  BY <1>1 DEF HistoryShapes
<1> QED
  BY <1>1, <1>2, <1>3, <1>4, <1>5, <1>6, <1>7, <1>8, <1>9

\* A push above the cutoff of the last retention run, in the hour or not.
LEMMA StoreInHour ==
    ASSUME HistoryShapes, NEW b \in AllBuckets, NEW k \in PushKinds, Store(b, k),
           NEW h \in AllHours, HourKept(h),
           Hour(b) = h => b >= cutoffs.thinned
    PROVE  HourKept(h)'
<1>1. /\ brought'[b].tables = brought[b].tables \cup k.tables
      /\ brought'[b].complete <=> brought[b].complete \/ k.complete
      /\ \A c \in AllBuckets : c # b => brought'[c] = brought[c]
      /\ Source \subseteq Source' /\ b \in Source' /\ Source' \subseteq Source \cup {b}
      /\ \A c : c # b => (Complete(c)' <=> Complete(c))
      /\ Complete(b)' <=> Complete(b) \/ k.complete
      /\ \A c \in AllBuckets : WholeBucket(c) => WholeBucket(c)'
      /\ cutoffs' = cutoffs
  BY StoreAdds
<1>7. SUFFICES ASSUME NEW c \in AllBuckets, Hour(c) = h PROVE BucketKept(h, c)'
  BY DEF HourKept
<1>8. BucketKept(h, c) /\ (Hour(b) = h => BucketKept(h, b) /\ b >= cutoffs.thinned)
  BY <1>7 DEF HourKept
<1>9. SourceOf(h) \subseteq SourceOf(h)'
  BY <1>1 DEF SourceOf
<1>10. CASE c = b
  <2>1. /\ WholeBucket(b) /\ (brought[b].complete => Complete(b)) /\ b \in SourceOf(h)'
        /\ b >= cutoffs.thinned
    BY <1>1, <1>7, <1>8, <1>10 DEF BucketKept, SourceOf
  <2> QED
    BY <1>1, <1>10, <2>1 DEF BucketKept
<1>11. CASE c # b
  <2>1. brought'[c] = brought[c] /\ (WholeBucket(c) => WholeBucket(c)') /\ (Complete(c)' <=> Complete(c))
        /\ (c \in Source' <=> c \in Source)
    BY <1>1, <1>11
  <2>2. brought'[c].complete => \E d \in SourceOf(h)' : Complete(d)'
    <3>1. \A d : Complete(d) => Complete(d)'
      BY <1>1
    <3> QED
      BY <1>8, <1>9, <2>1, <3>1 DEF BucketKept
  <2>3. ASSUME c \in Source', ~WholeBucket(c)'
        PROVE  \E d \in SourceOf(h)' : WholeBucket(d)' /\ d < cutoffs'.thinned /\ Prefers(d, c)'
    <3>1. PICK d \in SourceOf(h) : WholeBucket(d) /\ d < cutoffs.thinned /\ Prefers(d, c)
      BY <1>8, <2>1, <2>3 DEF BucketKept
    <3>2. d # b /\ d \in AllBuckets
      <4>1. Hour(d) = h /\ d \in Source
        BY <3>1 DEF SourceOf
      <4>2. Source \subseteq AllBuckets
        BY SourceIs
      <4>3. cutoffs.thinned \in Int /\ b \in Int
        BY HistoryNumbers
      <4> QED
        BY <1>8, <3>1, <4>1, <4>2, <4>3
    <3>3. Prefers(d, c)'
      BY <1>1, <1>11, <3>1, <3>2 DEF Prefers
    <3> QED
      BY <1>1, <1>9, <3>1, <3>2, <3>3
  <2>4. c >= cutoffs'.thinned =>
          /\ WholeBucket(c)' /\ (brought'[c].tables # {} => c \in Source')
          /\ brought'[c].complete => Complete(c)'
    BY <1>1, <1>8, <2>1 DEF BucketKept
  <2>5. brought'[c].tables # {} => SourceOf(h)' # {}
    BY <1>8, <1>9, <2>1 DEF BucketKept
  <2> QED
    BY <2>2, <2>3, <2>4, <2>5 DEF BucketKept
<1> QED
  BY <1>10, <1>11

LEMMA StoreInRun ==
    ASSUME HistoryShapes, CutoffsTell, Thinning,
           NEW b \in AllBuckets, NEW k \in PushKinds, Store(b, k),
           NEW h \in AllHours, HourThinned(h), Hour(b) = h => b >= cutoffs.thinned
    PROVE  HourThinned(h)'
<1>1. /\ job' = job /\ DOMAIN index' = DOMAIN index \cup {b}
      /\ Source' \subseteq Source \cup {b}
      /\ \A t \in MetricTables : metric'[t] \subseteq metric[t] \cup {b}
      /\ \A c : c # b => (Complete(c)' <=> Complete(c))
      /\ \A c \in AllBuckets : WholeBucket(c) => WholeBucket(c)'
  BY StoreAdds
<1>2. job.raw \in Int /\ b \in Int /\ job.keep \subseteq AllBuckets /\ \A c \in AllBuckets : c \in Int
  BY HistoryNumbers
<1>3. Hour(b) = h => ~(b < job.raw)
  <2>1. job.raw = cutoffs.thinned
    BY DEF CutoffsTell
  <2> QED
    BY <1>2, <2>1
<1>4. ASSUME NEW j \in job.keep, Hour(j) = h
      PROVE  j \in DOMAIN index' /\ j < job.raw /\ WholeBucket(j)'
  BY <1>1, <1>2, <1>4 DEF HourThinned
<1>5. ASSUME NEW c \in SourceOf(h)'
      PROVE  IF c < job.raw THEN \E j \in job.keep : Hour(j) = h /\ Prefers(j, c)' ELSE c \in DOMAIN index'
  <2>1. c \in Source' /\ Hour(c) = h
    BY DEF SourceOf
  <2>2. CASE c = b
    BY <1>1, <1>3, <2>1, <2>2
  <2>3. CASE c # b
    <3>1. c \in SourceOf(h)
      BY <1>1, <2>1, <2>3 DEF SourceOf
    <3>2. IF c < job.raw THEN \E j \in job.keep : Hour(j) = h /\ Prefers(j, c) ELSE c \in DOMAIN index
      BY <3>1 DEF HourThinned
    <3>3. ASSUME NEW j \in job.keep, Hour(j) = h, Prefers(j, c) PROVE Prefers(j, c)'
      <4>1. j # b
        BY <1>3, <1>4, <3>3
      <4> QED
        BY <1>1, <2>3, <3>3, <4>1 DEF Prefers
    <3> QED
      BY <1>1, <3>2, <3>3
  <2> QED
    BY <2>2, <2>3
<1>6. ASSUME NEW i \in DOMAIN TableOrder, Swept(i), NEW c \in metric'[TableOrder[i]],
             Hour(c) = h, c < job.raw
      PROVE  c \in job.keep
  <2>1. TableOrder[i] \in MetricTables
    BY DEF MetricTables
  <2>2. c \in metric[TableOrder[i]]
    BY <1>1, <1>3, <1>6, <2>1
  <2> QED
    BY <1>6, <2>2 DEF HourThinned
<1>7. \A i : Swept(i)' <=> Swept(i)
  BY <1>1 DEF Swept
<1> QED
  BY <1>1, <1>4, <1>5, <1>6, <1>7 DEF HourThinned

\* A push on time, or late in an hour that is no longer judged.
LEMMA StoreKeepsHours ==
    ASSUME HoursInv, NEW b \in AllBuckets, NEW k \in PushKinds, Store(b, k),
           newest' \in AllBuckets, newest <= newest',
           disturbed \subseteq disturbed', disturbed' \subseteq AllHours,
           b >= cutoffs.thinned \/ Hour(b) \in disturbed'
    PROVE  HoursInv'
<1> USE DEF HoursInv
<1>1. /\ job' = job /\ cutoffs' = cutoffs /\ indexed' = indexed
      /\ DOMAIN index' = DOMAIN index \cup {b}
      /\ metric' \in [MetricTables -> SUBSET AllBuckets]
      /\ brought' \in [AllBuckets -> [tables : SUBSET MetricTables, complete : BOOLEAN]]
      /\ \A c \in DOMAIN index' : index'[c] \in BOOLEAN
  BY StoreAdds
<1>2. HistoryShapes'
  <2>1. DOMAIN index' \subseteq AllBuckets
    BY <1>1 DEF HistoryShapes
  <2>2. indexed' \in BOOLEAN
    BY <1>1 DEF HistoryShapes
  <2>3. job' \in [at : {"idle", "metrics", "usage", "usage first", "index"}, table : DOMAIN TableOrder,
                  raw : Int, hourly : Int, keep : SUBSET AllBuckets]
    BY <1>1 DEF HistoryShapes
  <2>4. cutoffs' \in [raw : Int, hourly : Int, thinned : Int]
    BY <1>1 DEF HistoryShapes
  <2> QED
    BY <1>1, <2>1, <2>2, <2>3, <2>4 DEF HistoryShapes
<1>3. newest \in Nat /\ newest' \in Nat /\ RawBuckets \in Nat /\ cutoffs.thinned \in Int
  BY <1>2, HistoryNumbers DEF AllBuckets
<1>4. CutoffsTell'
  <2>1. cutoffs.thinned = 0 \/ cutoffs.thinned <= newest - RawBuckets
    BY DEF CutoffsTell
  <2>2. cutoffs.thinned = 0 \/ cutoffs.thinned <= newest' - RawBuckets
    BY <1>3, <2>1
  <2> QED
    BY <1>1, <2>2 DEF CutoffsTell, Thinning
<1>5. Thinning' <=> Thinning
  BY <1>1 DEF Thinning
<1>6. Thinning' => \A c, d \in job'.keep : Hour(c) = Hour(d) => c = d
  BY <1>1, <1>5
<1>7. ASSUME NEW h \in AllHours, LiveHour(h)'
      PROVE  HourKept(h)' /\ (Thinning' => HourThinned(h)')
  <2>1. LiveHour(h) /\ h \notin disturbed'
    BY <1>1, <1>7 DEF LiveHour
  <2>2. Hour(b) = h => b >= cutoffs.thinned
    BY <2>1
  <2>3. HourKept(h) /\ (Thinning => HourThinned(h))
    BY <2>1
  <2>4. HourKept(h)'
    BY <2>2, <2>3, StoreInHour
  <2>5. Thinning => HourThinned(h)'
    BY <2>2, <2>3, StoreInRun
  <2> QED
    BY <1>5, <2>4, <2>5
<1>8. HourlyOneReal'
  <2> SUFFICES ASSUME job.at = "idle", cutoffs.raw > 0, NEW h \in Judged',
                      \E c \in AllBuckets : Hour(c) = h /\ brought'[c].tables # {}
               PROVE  LET pushed == {c \in AllBuckets : Hour(c) = h /\ brought'[c].tables # {}}
                          kept == {c \in DOMAIN index' : Hour(c) = h}
                      IN  /\ Cardinality(kept) = 1
                          /\ \A c \in kept :
                                /\ (\E d \in pushed : brought'[d].complete) => index'[c]
                                /\ \A t \in brought'[c].tables : c \in metric'[t]
                                /\ \A t \in MetricTables, d \in pushed : d \in metric'[t] => d = c
    BY <1>1 DEF HourlyOneReal
  <2>1. /\ h \in AllHours \ disturbed' /\ cutoffs.hourly <= HourFirst(h) /\ HourLast(h) < cutoffs.raw
    BY <1>1 DEF Judged, HourFirst, HourLast
  <2>2. h \in Judged
    BY <2>1 DEF Judged, HourFirst, HourLast
  <2>3. Hour(b) # h
    <3> SUFFICES ASSUME Hour(b) = h PROVE FALSE
      OBVIOUS
    <3>1. b >= cutoffs.thinned
      BY <2>1
    <3>2. /\ b \in Nat /\ HourFirst(h) \in Nat /\ HourFirst(h) <= b /\ HourLast(h) \in Nat
          /\ b <= HourLast(h)
      BY HourSpans
    <3>3. cutoffs.raw \in Int /\ cutoffs.hourly \in Int /\ cutoffs.thinned \in Int
      BY HistoryNumbers
    <3>4. cutoffs.raw <= cutoffs.thinned \/ cutoffs.raw <= cutoffs.hourly
      BY DEF CutoffsTell
    <3> QED
      BY <2>1, <3>1, <3>2, <3>3, <3>4
  <2>4. /\ \A c \in AllBuckets : Hour(c) = h => brought'[c] = brought[c]
        /\ \A c \in DOMAIN index : c \in DOMAIN index' /\ (Hour(c) = h => index'[c] = index[c])
        /\ \A c, t : Hour(c) = h /\ t \in MetricTables => (c \in metric'[t] <=> c \in metric[t])
    <3>1. \A c \in AllBuckets : c # b => brought'[c] = brought[c]
      BY StoreAdds
    <3>2. \A c \in DOMAIN index : c # b => index'[c] = index[c]
      BY DEF Store
    <3>3. \A t \in MetricTables : metric[t] \subseteq metric'[t] /\ metric'[t] \subseteq metric[t] \cup {b}
      BY StoreAdds
    <3> QED
      BY <1>1, <2>3, <3>1, <3>2, <3>3
  <2> DEFINE pushed == {c \in AllBuckets : Hour(c) = h /\ brought[c].tables # {}}
             kept == {c \in DOMAIN index : Hour(c) = h}
  <2>5. /\ pushed = {c \in AllBuckets : Hour(c) = h /\ brought'[c].tables # {}}
        /\ kept = {c \in DOMAIN index' : Hour(c) = h}
    BY <1>1, <2>3, <2>4
  <2>6. /\ Cardinality(kept) = 1
        /\ \A c \in kept :
              /\ (\E d \in pushed : brought[d].complete) => index[c]
              /\ \A t \in brought[c].tables : c \in metric[t]
              /\ \A t \in MetricTables, d \in pushed : d \in metric[t] => d = c
    <3>1. pushed # {}
      BY <2>4
    <3> QED
      BY <2>2, <3>1 DEF HourlyOneReal
  <2>7. \A c \in kept : c \in AllBuckets /\ Hour(c) = h /\ c \in DOMAIN index
    BY DEF HistoryShapes
  <2>8. \A c \in AllBuckets : Hour(c) = h => brought[c].tables \subseteq MetricTables
    BY DEF HistoryShapes
  <2>9. ASSUME NEW c \in kept
        PROVE  /\ (\E d \in pushed : brought'[d].complete) => index'[c]
               /\ \A t \in brought'[c].tables : c \in metric'[t]
               /\ \A t \in MetricTables, d \in pushed : d \in metric'[t] => d = c
    <3>1. \A d \in pushed : d \in AllBuckets /\ Hour(d) = h
      OBVIOUS
    <3>2. c \in AllBuckets /\ Hour(c) = h /\ c \in DOMAIN index
      BY <2>7
    <3> HIDE DEF pushed, kept
    <3>3. brought'[c] = brought[c] /\ index'[c] = index[c] /\ brought[c].tables \subseteq MetricTables
      BY <2>4, <2>8, <3>2
    <3>4. (\E d \in pushed : brought'[d].complete) => index'[c]
      BY <2>4, <2>6, <3>1, <3>3
    <3>5. \A t \in brought'[c].tables : c \in metric'[t]
      BY <2>4, <2>6, <3>2, <3>3
    <3>6. \A t \in MetricTables, d \in pushed : d \in metric'[t] => d = c
      BY <2>4, <2>6, <3>1
    <3> QED
      BY <3>4, <3>5, <3>6
  <2> QED
    BY <2>5, <2>6, <2>9
<1> QED
  BY <1>2, <1>4, <1>6, <1>7, <1>8

\* COALESCE(MIN(CASE WHEN inventory_complete=1 THEN bucket END), MIN(bucket))
LEMMA KeptOfIs ==
    ASSUME NEW S \in SUBSET AllBuckets, S # {}
    PROVE  KeptOf(S) \in S /\ \A c \in S : Prefers(KeptOf(S), c)
<1>1. S \subseteq Nat
  BY HistoryAssumption DEF AllBuckets
<1>2. CASE \E b \in S : Complete(b)
  <2> DEFINE C == {b \in S : Complete(b)}
  <2>1. C \in SUBSET Nat /\ C # {}
    BY <1>1, <1>2
  <2>2. KeptOf(S) = Min(C)
    BY <1>2 DEF KeptOf
  <2> HIDE DEF C
  <2>3. Min(C) \in C /\ \A y \in C : Min(C) <= y
    BY <2>1, LeastIs
  <2> QED
    BY <2>2, <2>3 DEF C, Prefers
<1>3. CASE ~\E b \in S : Complete(b)
  <2>1. KeptOf(S) = Min(S)
    BY <1>3 DEF KeptOf
  <2>2. Min(S) \in S /\ \A y \in S : Min(S) <= y
    BY <1>1, LeastIs
  <2> QED
    BY <1>3, <2>1, <2>2 DEF Prefers
<1> QED
  BY <1>2, <1>3

\* retention_keep_buckets: one bucket of every hour of the hourly period.
LEMMA KeepTells ==
    ASSUME HistoryShapes, NEW raw \in Int, NEW hourly \in Int
    PROVE  /\ Keep(raw, hourly) \subseteq Source
           /\ \A k \in Keep(raw, hourly) :
                /\ k >= hourly /\ k < raw
                /\ \A b \in Source : Hour(b) = Hour(k) /\ b >= hourly /\ b < raw => Prefers(k, b)
           /\ \A k, l \in Keep(raw, hourly) : Hour(k) = Hour(l) => k = l
           /\ \A b \in Source : b >= hourly /\ b < raw => \E k \in Keep(raw, hourly) : Hour(k) = Hour(b)
<1> DEFINE between == {b \in Source : b >= hourly /\ b < raw}
           Of(h) == {b \in between : Hour(b) = h}
           hours == {Hour(b) : b \in between}
<1>1. Keep(raw, hourly) = {KeptOf(Of(h)) : h \in hours}
  BY DEF Keep
<1>2. ASSUME NEW h \in hours
      PROVE  KeptOf(Of(h)) \in Of(h) /\ \A c \in Of(h) : Prefers(KeptOf(Of(h)), c)
  <2>1. Of(h) \in SUBSET AllBuckets /\ Of(h) # {}
    BY <1>2, SourceIs
  <2> HIDE DEF Of
  <2> QED
    BY <2>1, KeptOfIs
<1>3. \A h : Of(h) = {b \in between : Hour(b) = h}
  OBVIOUS
<1>4. \A b \in between : Hour(b) \in hours
  OBVIOUS
<1>5. \A b \in Source : b >= hourly /\ b < raw <=> b \in between
  OBVIOUS
<1>6. between \subseteq Source
  OBVIOUS
<1> HIDE DEF between, Of, hours
<1>7. ASSUME NEW k \in Keep(raw, hourly)
      PROVE  /\ k \in between /\ Hour(k) \in hours /\ k = KeptOf(Of(Hour(k)))
             /\ \A b \in between : Hour(b) = Hour(k) => Prefers(k, b)
  <2>1. PICK h \in hours : k = KeptOf(Of(h))
    BY <1>1, <1>7
  <2>2. k \in Of(h) /\ \A c \in Of(h) : Prefers(k, c)
    BY <1>2, <2>1
  <2>3. Hour(k) = h /\ k \in between
    BY <1>3, <2>2
  <2> QED
    BY <1>3, <2>1, <2>2, <2>3
<1>8. ASSUME NEW b \in between PROVE \E k \in Keep(raw, hourly) : Hour(k) = Hour(b)
  <2>1. KeptOf(Of(Hour(b))) \in Of(Hour(b))
    BY <1>2, <1>4
  <2>2. Hour(KeptOf(Of(Hour(b)))) = Hour(b)
    BY <1>3, <2>1
  <2>3. KeptOf(Of(Hour(b))) \in Keep(raw, hourly)
    BY <1>1, <1>4
  <2> QED
    BY <2>2, <2>3
<1>9. \A k, l \in Keep(raw, hourly) : Hour(k) = Hour(l) => k = l
  BY <1>7
<1> QED
  BY <1>5, <1>6, <1>7, <1>8, <1>9

\* run_retention up to the tiers of the kept buckets.
LEMMA BeginRetentionKeepsHours ==
    ASSUME HoursInv, BeginRetention(newest)
    PROVE  HoursInv'
<1> USE DEF HoursInv
<1> DEFINE raw == newest - RawBuckets
           hourly == newest - HourlyBuckets
<1>1. /\ job.at = "idle"
      /\ job' = [at |-> "metrics", table |-> 1, raw |-> raw, hourly |-> hourly, keep |-> Keep(raw, hourly)]
      /\ index' = [b \in Source |-> Complete(b)]
      /\ cutoffs' = [cutoffs EXCEPT !.thinned = raw]
      /\ UNCHANGED <<newest, metric, indexed, brought, disturbed>>
  BY DEF BeginRetention
<1>2. /\ newest \in Nat /\ raw \in Int /\ hourly \in Int /\ RawBuckets \in Nat /\ HourlyBuckets \in Nat
      /\ cutoffs.raw \in Int /\ cutoffs.hourly \in Int /\ cutoffs.thinned \in Int
      /\ \A b \in AllBuckets : b \in Nat /\ b >= 1
  BY HistoryNumbers
<1>3. raw # hourly
  BY <1>2, HistoryAssumption
<1>4. cutoffs'.thinned = raw /\ cutoffs'.raw = cutoffs.raw /\ cutoffs'.hourly = cutoffs.hourly
      /\ cutoffs' \in [raw : Int, hourly : Int, thinned : Int]
  <2>1. cutoffs \in [raw : Int, hourly : Int, thinned : Int]
    BY DEF HistoryShapes
  <2> HIDE DEF raw
  <2> QED
    BY <1>1, <1>2, <2>1
<1>5. /\ Keep(raw, hourly) \subseteq Source
      /\ \A k \in Keep(raw, hourly) :
           /\ k >= hourly /\ k < raw
           /\ \A b \in Source : Hour(b) = Hour(k) /\ b >= hourly /\ b < raw => Prefers(k, b)
      /\ \A k, l \in Keep(raw, hourly) : Hour(k) = Hour(l) => k = l
      /\ \A b \in Source : b >= hourly /\ b < raw => \E k \in Keep(raw, hourly) : Hour(k) = Hour(b)
  <2> HIDE DEF raw, hourly
  <2> QED
    BY <1>2, KeepTells
<1>6. job'.at = "metrics" /\ job'.table = 1 /\ job'.raw = raw /\ job'.hourly = hourly
      /\ job'.keep = Keep(raw, hourly)
  BY <1>1
<1>7. Source \subseteq AllBuckets /\ DOMAIN index \subseteq Source
  BY SourceIs DEF Source
<1> HIDE DEF raw, hourly
<1>8. DOMAIN index' = Source /\ Source' = Source /\ \A b : Complete(b)' <=> Complete(b)
  <2>1. DOMAIN index' = Source /\ \A b \in Source : index'[b] = Complete(b)
    BY <1>1
  <2>2. Source' = Source
    <3>1. UNION {metric'[t] : t \in MetricTables} = UNION {metric[t] : t \in MetricTables} /\ indexed' = indexed
      BY <1>1
    <3> QED
      BY <2>1, <3>1 DEF Source
  <2> QED
    BY <1>7, <2>1, <2>2 DEF Complete
<1>9. 1 \in DOMAIN TableOrder /\ DOMAIN TableOrder = 1..Len(TableOrder)
  BY HistoryAssumption
<1>10. HistoryShapes'
  <2>1. \A b \in DOMAIN index' : index'[b] \in BOOLEAN
    BY <1>1, <1>8 DEF Complete, HistoryShapes
  <2>2. job' \in [at : {"idle", "metrics", "usage", "usage first", "index"}, table : DOMAIN TableOrder,
                  raw : Int, hourly : Int, keep : SUBSET AllBuckets]
    BY <1>1, <1>2, <1>5, <1>7, <1>9
  <2> QED
    BY <1>1, <1>4, <1>7, <1>8, <2>1, <2>2 DEF HistoryShapes
<1>11. cutoffs.thinned = 0 \/ cutoffs.thinned <= raw
  BY DEF CutoffsTell, raw
<1>12. CutoffsTell'
  <2>2. /\ cutoffs.raw <= cutoffs.thinned \/ cutoffs.raw <= cutoffs.hourly
        /\ cutoffs.hourly >= 0
    BY DEF CutoffsTell
  <2>1. cutoffs.raw <= raw \/ cutoffs.raw <= cutoffs.hourly
    BY <1>2, <1>11, <2>2
  <2>3. raw = newest' - RawBuckets
    BY <1>1 DEF raw
  <2>4. raw <= raw
    BY <1>2
  <2> QED
    BY <1>3, <1>4, <1>6, <2>1, <2>2, <2>3, <2>4 DEF CutoffsTell, Thinning
<1>13. \A b \in AllBuckets : b < cutoffs.thinned => b < cutoffs'.thinned
  BY <1>2, <1>4, <1>11
<1>14. ASSUME NEW h \in AllHours, LiveHour(h)'
       PROVE  HourKept(h)' /\ HourThinned(h)'
  <2>1. LiveHour(h) /\ hourly <= HourFirst(h)
    BY <1>1, <1>4, <1>6, <1>14 DEF LiveHour
  <2>2. HourKept(h)
    BY <2>1
  <2>3. SourceOf(h)' = SourceOf(h) /\ SourceOf(h) \subseteq AllBuckets
    BY <1>7, <1>8 DEF SourceOf
  <2>4. /\ \A b : WholeBucket(b)' <=> WholeBucket(b)
        /\ \A b, c : Prefers(b, c)' <=> Prefers(b, c)
    BY <1>1, <1>8 DEF WholeBucket, Prefers
  <2>5. HourKept(h)'
    <3> SUFFICES ASSUME NEW b \in AllBuckets, Hour(b) = h PROVE BucketKept(h, b)'
      BY DEF HourKept
    <3>1. BucketKept(h, b)
      BY <2>2 DEF HourKept
    <3>2. b >= cutoffs'.thinned => b >= cutoffs.thinned
      BY <1>2, <1>4, <1>13
    <3> QED
      BY <1>1, <1>8, <1>13, <2>3, <2>4, <3>1, <3>2 DEF BucketKept
  <2>6. \A b \in AllBuckets : Hour(b) = h => b >= hourly
    <3> SUFFICES ASSUME NEW b \in AllBuckets, Hour(b) = h PROVE b >= hourly
      OBVIOUS
    <3>1. b \in Nat /\ HourFirst(h) \in Nat /\ HourFirst(h) <= b
      BY HourSpans
    <3> QED
      BY <1>2, <2>1, <3>1
  <2>7. ASSUME NEW k \in Keep(raw, hourly), Hour(k) = h PROVE WholeBucket(k)
    <3>1. k \in Source /\ k \in AllBuckets
      BY <1>5, <1>7
    <3>2. BucketKept(h, k)
      BY <2>2, <2>7, <3>1 DEF HourKept
    <3>3. SUFFICES ASSUME NEW c \in SourceOf(h), WholeBucket(c), c < cutoffs.thinned, Prefers(c, k)
                   PROVE  c = k
      BY <3>1, <3>2 DEF BucketKept
    <3>4. c \in AllBuckets /\ c \in Source /\ Hour(c) = h
      BY <1>7 DEF SourceOf
    <3>5. c < raw
      BY <1>4, <1>13, <3>3, <3>4
    <3>6. Prefers(k, c)
      BY <1>5, <2>6, <2>7, <3>4, <3>5
    <3>7. c \in Nat /\ k \in Nat
      BY <1>2, <3>1, <3>4
    <3> QED
      BY <3>3, <3>6, <3>7 DEF Prefers
  <2>8. ASSUME NEW b \in SourceOf(h), b < raw
        PROVE  \E k \in Keep(raw, hourly) : Hour(k) = h /\ Prefers(k, b)
    <3>1. b \in Source /\ Hour(b) = h /\ b >= hourly
      BY <2>3, <2>6 DEF SourceOf
    <3> QED
      BY <1>5, <2>8, <3>1
  <2>9. \A i \in DOMAIN TableOrder : ~Swept(i)'
    BY <1>6, <1>9 DEF Swept
  <2>10. \A k \in Keep(raw, hourly) : k \in DOMAIN index' /\ k < raw
    BY <1>5, <1>8
  <2>11. \A b \in SourceOf(h) : b \in DOMAIN index'
    BY <1>8 DEF SourceOf
  <2>12. HourThinned(h)'
    BY <1>6, <2>3, <2>4, <2>7, <2>8, <2>9, <2>10, <2>11 DEF HourThinned
  <2> QED
    BY <2>5, <2>12
<1>15. \A b, c \in job'.keep : Hour(b) = Hour(c) => b = c
  BY <1>5, <1>6
<1>16. HourlyOneReal'
  BY <1>6 DEF HourlyOneReal
<1> QED
  BY <1>10, <1>12, <1>14, <1>15, <1>16

\* delete_history_older_than keeps nothing, and starts with the usage rows.
LEMMA BeginDeleteKeepsHours ==
    ASSUME HoursInv, NEW age \in DeleteAges, BeginDelete(age)
    PROVE  HoursInv'
<1> USE DEF HoursInv
<1>1. /\ job.at = "idle" /\ UNCHANGED <<newest, index, metric, indexed, brought, cutoffs, disturbed>>
      /\ job' = [at |-> "usage first", table |-> 1, raw |-> newest - age, hourly |-> newest - age, keep |-> {}]
  BY DEF BeginDelete
<1>2. newest - age \in Int /\ 1 \in DOMAIN TableOrder
  <2>1. newest \in Nat
    BY HistoryNumbers
  <2> QED
    BY <2>1, HistoryAssumption
<1>3. HistoryShapes'
  <2>1. job' \in [at : {"idle", "metrics", "usage", "usage first", "index"}, table : DOMAIN TableOrder,
                  raw : Int, hourly : Int, keep : SUBSET AllBuckets]
    BY <1>1, <1>2
  <2> QED
    BY <1>1, <2>1 DEF HistoryShapes
<1>4. ~Thinning' /\ CutoffsTell' /\ HourlyOneReal'
  BY <1>1 DEF Thinning, CutoffsTell, HourlyOneReal
<1>5. ASSUME NEW h \in AllHours, LiveHour(h)' PROVE HourKept(h)'
  <2>1. LiveHour(h)
    BY <1>1, <1>5 DEF LiveHour
  <2> QED
    BY <1>1, <2>1, HourStays
<1> QED
  BY <1>3, <1>4, <1>5

\* A step in which the hour h may lose buckets below the cutoff of the retention
\* run that the run does not keep.
HourSwept(h) ==
    /\ Source' \subseteq Source /\ DOMAIN index' \subseteq Source'
    /\ \A b \in DOMAIN index \ DOMAIN index' : b < job.raw /\ b \notin job.keep
    /\ \A b \in DOMAIN index' : b \in DOMAIN index /\ index'[b] = index[b]
    /\ \A t \in MetricTables : metric'[t] \subseteq metric[t]
    /\ \A t \in MetricTables : \A b \in metric[t] \ metric'[t] : b < job.raw /\ b \notin job.keep
    /\ brought' = brought /\ cutoffs'.thinned = cutoffs.thinned

LEMMA SweptHour ==
    ASSUME HistoryShapes, CutoffsTell, Thinning, NEW h \in AllHours, HourKept(h), HourThinned(h), HourSwept(h)
    PROVE  /\ HourKept(h)'
           /\ SourceOf(h)' \subseteq SourceOf(h)
           /\ \A k \in job.keep : Hour(k) = h => k \in DOMAIN index' /\ k < job.raw /\ WholeBucket(k)'
           /\ \A b \in SourceOf(h)' :
                IF b < job.raw THEN \E k \in job.keep : Hour(k) = h /\ Prefers(k, b)' ELSE b \in DOMAIN index'
<1>1. /\ job.raw \in Int /\ job.keep \subseteq AllBuckets /\ \A b \in AllBuckets : b \in Nat
      /\ job.raw = cutoffs.thinned
  BY HistoryNumbers DEF CutoffsTell
<1>2. Source \subseteq AllBuckets /\ SourceOf(h)' \subseteq SourceOf(h) /\ SourceOf(h) \subseteq AllBuckets
      /\ \A b \in SourceOf(h) : Hour(b) = h
  BY SourceIs DEF HourSwept, SourceOf
<1>3. \A b \in DOMAIN index' : Hour(b) = h => b \in SourceOf(h)'
  BY DEF HourSwept, SourceOf
<1>4. /\ \A b : Complete(b)' => Complete(b)
      /\ \A b \in DOMAIN index : b \in job.keep \/ ~(b < job.raw) =>
            b \in DOMAIN index' /\ (Complete(b)' <=> Complete(b))
  BY DEF HourSwept, Complete
<1>5. ASSUME NEW b \in AllBuckets, WholeBucket(b), b \in job.keep \/ ~(b < job.raw) PROVE WholeBucket(b)'
  <2>1. brought[b].tables \subseteq MetricTables
    BY DEF HistoryShapes
  <2>2. \A t \in brought[b].tables : b \in metric[t]
    BY <1>5 DEF WholeBucket
  <2>3. \A t \in MetricTables : b \in metric[t] => b \in metric'[t]
    BY <1>5 DEF HourSwept
  <2>4. brought' = brought
    BY DEF HourSwept
  <2> QED
    BY <2>1, <2>2, <2>3, <2>4 DEF WholeBucket
<1>6. ASSUME NEW k \in job.keep, Hour(k) = h
      PROVE  /\ k \in DOMAIN index /\ k \in DOMAIN index' /\ k < job.raw /\ WholeBucket(k)'
             /\ k \in SourceOf(h)' /\ (Complete(k)' <=> Complete(k))
  <2>1. k \in DOMAIN index /\ k < job.raw /\ WholeBucket(k) /\ k \in AllBuckets
    BY <1>1, <1>6 DEF HourThinned
  <2> QED
    BY <1>3, <1>4, <1>5, <1>6, <2>1
<1>7. ASSUME NEW b \in SourceOf(h), b < job.raw
      PROVE  \E k \in job.keep : Hour(k) = h /\ Prefers(k, b) /\ Prefers(k, b)'
  <2>1. PICK k \in job.keep : Hour(k) = h /\ Prefers(k, b)
    BY <1>7 DEF HourThinned
  <2>2. Complete(k)' <=> Complete(k)
    BY <1>6, <2>1
  <2>3. Prefers(k, b)'
    BY <1>4, <2>1, <2>2 DEF Prefers
  <2> QED
    BY <2>1, <2>3
<1>8. \A b \in SourceOf(h) : ~(b < job.raw) => b \in DOMAIN index /\ b \in DOMAIN index' /\ b \in SourceOf(h)'
  <2>1. \A b \in SourceOf(h) : ~(b < job.raw) => b \in DOMAIN index
    BY DEF HourThinned
  <2> QED
    BY <1>2, <1>3, <1>4, <2>1
<1>9. HourKept(h)'
  <2> SUFFICES ASSUME NEW b \in AllBuckets, Hour(b) = h PROVE BucketKept(h, b)'
    BY DEF HourKept
  <2>1. BucketKept(h, b) /\ brought' = brought /\ cutoffs'.thinned = cutoffs.thinned
    BY DEF HourKept, HourSwept
  <2>2. ASSUME b >= cutoffs.thinned
        PROVE  /\ WholeBucket(b)' /\ (brought[b].tables # {} => b \in Source')
               /\ brought[b].complete => Complete(b)'
    <3>1. ~(b < job.raw)
      BY <1>1, <2>2
    <3>2. /\ WholeBucket(b) /\ (brought[b].tables # {} => b \in SourceOf(h))
          /\ brought[b].complete => Complete(b)
      BY <2>1, <2>2 DEF BucketKept, SourceOf
    <3>3. brought[b].tables # {} => b \in Source'
      BY <1>8, <3>1, <3>2 DEF SourceOf
    <3>4. Complete(b) => Complete(b)'
      BY <1>4, <3>1 DEF Complete
    <3> QED
      BY <1>5, <3>1, <3>2, <3>3, <3>4
  <2>3. SourceOf(h) # {} => SourceOf(h)' # {}
    BY <1>6, <1>7, <1>8
  <2>4. ASSUME NEW c \in SourceOf(h), Complete(c)
        PROVE  \E d \in SourceOf(h)' : Complete(d)'
    <3>1. CASE c < job.raw
      <4>1. PICK k \in job.keep : Hour(k) = h /\ Prefers(k, c)
        BY <1>7, <3>1
      <4>2. Complete(k)
        BY <2>4, <4>1 DEF Prefers
      <4> QED
        BY <1>6, <4>1, <4>2
    <3>2. CASE ~(c < job.raw)
      BY <1>4, <1>8, <2>4, <3>2
    <3> QED
      BY <3>1, <3>2
  <2>5. ASSUME b \in Source'
        PROVE  \/ WholeBucket(b)'
               \/ \E c \in SourceOf(h)' : WholeBucket(c)' /\ c < cutoffs.thinned /\ Prefers(c, b)'
    <3>1. b \in SourceOf(h)
      BY <2>5 DEF HourSwept, SourceOf
    <3>2. CASE b < job.raw
      BY <1>1, <1>6, <1>7, <3>1, <3>2
    <3>3. CASE ~(b < job.raw)
      <4>1. b >= cutoffs.thinned
        BY <1>1, <3>3
      <4> QED
        BY <2>2, <4>1
    <3> QED
      BY <3>2, <3>3
  <2>6. brought[b].tables # {} => SourceOf(h)' # {}
    BY <2>1, <2>3 DEF BucketKept
  <2>7. brought[b].complete => \E d \in SourceOf(h)' : Complete(d)'
    BY <2>1, <2>4 DEF BucketKept
  <2> QED
    BY <2>1, <2>2, <2>5, <2>6, <2>7 DEF BucketKept
<1>10. \A k \in job.keep : Hour(k) = h => k \in DOMAIN index' /\ k < job.raw /\ WholeBucket(k)'
  BY <1>6
<1>11. ASSUME NEW b \in SourceOf(h)'
       PROVE  IF b < job.raw THEN \E k \in job.keep : Hour(k) = h /\ Prefers(k, b)' ELSE b \in DOMAIN index'
  BY <1>2, <1>7, <1>8
<1> QED
  BY <1>2, <1>9, <1>10, <1>11

\* delete_history_older_than: an hour that its cutoff has not reached loses nothing.
LEMMA UnsweptHour ==
    ASSUME HistoryShapes, NEW h \in AllHours, HourKept(h), HourSwept(h), indexed' = indexed,
           job.raw <= HourFirst(h)
    PROVE  HourKept(h)'
<1>1. \A b \in AllBuckets : Hour(b) = h => ~(b < job.raw)
  <2> SUFFICES ASSUME NEW b \in AllBuckets, Hour(b) = h PROVE ~(b < job.raw)
    OBVIOUS
  <2>1. b \in Nat /\ HourFirst(h) \in Nat /\ HourFirst(h) <= b /\ job.raw \in Int
    BY HourSpans, HistoryNumbers
  <2> QED
    BY <2>1
<1>2. \A b \in AllBuckets : Hour(b) = h =>
         /\ b \in DOMAIN index' <=> b \in DOMAIN index
         /\ \A t \in MetricTables : b \in metric'[t] <=> b \in metric[t]
         /\ Complete(b)' <=> Complete(b)
  BY <1>1 DEF HourSwept, Complete
<1>3. \A b \in AllBuckets : Hour(b) = h => (WholeBucket(b) => WholeBucket(b)')
  <2> SUFFICES ASSUME NEW b \in AllBuckets, Hour(b) = h, WholeBucket(b) PROVE WholeBucket(b)'
    OBVIOUS
  <2>1. brought[b].tables \subseteq MetricTables /\ brought' = brought
    BY DEF HistoryShapes, HourSwept
  <2> QED
    BY <1>2, <2>1 DEF WholeBucket
<1>4. \A b \in AllBuckets : Hour(b) = h => (b \in Source' <=> b \in Source)
  BY <1>2 DEF Source
<1>5. SourceOf(h)' = SourceOf(h) /\ SourceOf(h) \subseteq AllBuckets /\ \A b \in SourceOf(h) : Hour(b) = h
  <2>1. Source \subseteq AllBuckets /\ Source' \subseteq Source
    BY SourceIs DEF HourSwept
  <2> QED
    BY <1>4, <2>1 DEF SourceOf
<1> SUFFICES ASSUME NEW b \in AllBuckets, Hour(b) = h PROVE BucketKept(h, b)'
  BY DEF HourKept
<1>6. BucketKept(h, b) /\ brought' = brought /\ cutoffs'.thinned = cutoffs.thinned
  BY DEF HourKept, HourSwept
<1>7. \A c \in SourceOf(h) : Prefers(c, b)' <=> Prefers(c, b)
  BY <1>2, <1>5 DEF Prefers
<1>8. b >= cutoffs.thinned =>
          /\ WholeBucket(b)' /\ (brought[b].tables # {} => b \in Source')
          /\ brought[b].complete => Complete(b)'
  BY <1>2, <1>3, <1>4, <1>6 DEF BucketKept
<1>9. brought[b].complete => \E c \in SourceOf(h)' : Complete(c)'
  BY <1>2, <1>5, <1>6 DEF BucketKept
<1>10. b \in Source' => \/ WholeBucket(b)'
                        \/ \E c \in SourceOf(h)' : WholeBucket(c)' /\ c < cutoffs.thinned /\ Prefers(c, b)'
  BY <1>3, <1>4, <1>5, <1>6, <1>7 DEF BucketKept
<1>11. brought[b].tables # {} => SourceOf(h)' # {}
  BY <1>5, <1>6 DEF BucketKept
<1> QED
  BY <1>6, <1>8, <1>9, <1>10, <1>11 DEF BucketKept

\* _delete_in_batches: a batch of a metric table, or of the index.
LEMMA BatchKeepsHours ==
    ASSUME HoursInv, job.at # "idle",
           UNCHANGED <<newest, indexed, job, brought, cutoffs, disturbed>>,
           metric' \in [MetricTables -> SUBSET AllBuckets],
           \A t \in MetricTables : metric'[t] \subseteq metric[t],
           \A t \in MetricTables : \A b \in metric[t] \ metric'[t] : b < job.raw /\ b \notin job.keep,
           \A b \in DOMAIN index' : b \in DOMAIN index /\ index'[b] = index[b],
           \A b \in DOMAIN index \ DOMAIN index' : b < job.raw /\ b \notin job.keep
    PROVE  HoursInv'
<1> USE DEF HoursInv
<1>1. HistoryShapes'
  <2>1. DOMAIN index' \subseteq AllBuckets /\ \A b \in DOMAIN index' : index'[b] \in BOOLEAN
    BY DEF HistoryShapes
  <2> QED
    BY <2>1 DEF HistoryShapes
<1>2. CutoffsTell' /\ (Thinning' <=> Thinning) /\ HourlyOneReal'
  BY DEF CutoffsTell, Thinning, HourlyOneReal
<1>3. Source' \subseteq Source /\ DOMAIN index' \subseteq Source'
  BY DEF Source
<1>4. ASSUME NEW h \in AllHours, LiveHour(h)'
      PROVE  HourKept(h)' /\ (Thinning => HourThinned(h)')
  <2>1. LiveHour(h) /\ job.hourly <= HourFirst(h)
    BY <1>4 DEF LiveHour
  <2>2. HourKept(h) /\ (Thinning => HourThinned(h)) /\ HourSwept(h)
    BY <1>3, <2>1 DEF HourSwept
  <2>3. CASE Thinning
    <3>1. /\ HourKept(h)'
          /\ \A k \in job.keep : Hour(k) = h => k \in DOMAIN index' /\ k < job.raw /\ WholeBucket(k)'
          /\ \A b \in SourceOf(h)' :
                IF b < job.raw THEN \E k \in job.keep : Hour(k) = h /\ Prefers(k, b)' ELSE b \in DOMAIN index'
      BY <2>2, <2>3, SweptHour
    <3>2. \A i \in DOMAIN TableOrder : Swept(i)' =>
            \A b \in metric'[TableOrder[i]] : Hour(b) = h /\ b < job.raw => b \in job.keep
      <4> SUFFICES ASSUME NEW i \in DOMAIN TableOrder, Swept(i)',
                          NEW b \in metric'[TableOrder[i]], Hour(b) = h, b < job.raw
                   PROVE  b \in job.keep
        OBVIOUS
      <4>1. Swept(i) /\ TableOrder[i] \in MetricTables
        BY DEF Swept, MetricTables
      <4>2. b \in metric[TableOrder[i]]
        BY <4>1
      <4> QED
        BY <2>2, <2>3, <4>1, <4>2 DEF HourThinned
    <3> QED
      BY <3>1, <3>2 DEF HourThinned
  <2>4. CASE ~Thinning
    <3>1. job.raw <= HourFirst(h)
      BY <2>1, <2>4 DEF Thinning
    <3> QED
      BY <2>2, <2>4, <3>1, UnsweptHour
  <2> QED
    BY <2>3, <2>4
<1>5. Thinning => \A b, c \in job'.keep : Hour(b) = Hour(c) => b = c
  OBVIOUS
<1> QED
  BY <1>1, <1>2, <1>4, <1>5

LEMMA DeleteMetricsKeepsHours ==
    ASSUME HoursInv, NEW S \in Batches(metric[TableOrder[job.table]]), DeleteMetrics(S)
    PROVE  HoursInv'
<1>1. job.table \in DOMAIN TableOrder /\ TableOrder[job.table] \in MetricTables
  BY HistoryNumbers DEF HoursInv, MetricTables
<1>2. \A b \in S : b < job.raw /\ b \notin job.keep
  BY DEF Batches, Doomed
<1>3. /\ job.at = "metrics" /\ UNCHANGED <<newest, index, indexed, job, brought, cutoffs, disturbed>>
      /\ metric' = [metric EXCEPT ![TableOrder[job.table]] = @ \ S]
      /\ metric \in [MetricTables -> SUBSET AllBuckets]
  BY DEF DeleteMetrics, HoursInv, HistoryShapes
<1>4. /\ metric' \in [MetricTables -> SUBSET AllBuckets]
      /\ \A t \in MetricTables : metric'[t] \subseteq metric[t] /\ metric[t] \ metric'[t] \subseteq S
  BY <1>1, <1>3
<1>5. /\ \A b \in DOMAIN index' : b \in DOMAIN index /\ index'[b] = index[b]
      /\ DOMAIN index \ DOMAIN index' = {}
  BY <1>3
<1>6. \A t \in MetricTables : \A b \in metric[t] \ metric'[t] : b < job.raw /\ b \notin job.keep
  BY <1>2, <1>4
<1> QED
  BY <1>3, <1>4, <1>5, <1>6, BatchKeepsHours

LEMMA DeleteIndexKeepsHours ==
    ASSUME HoursInv, NEW S \in Batches(DOMAIN index), DeleteIndex(S)
    PROVE  HoursInv'
<1>1. \A b \in S : b < job.raw /\ b \notin job.keep
  BY DEF Batches, Doomed
<1>2. /\ job.at = "index" /\ UNCHANGED <<newest, metric, indexed, job, brought, cutoffs, disturbed>>
      /\ index' = [b \in DOMAIN index \ S |-> index[b]]
      /\ metric \in [MetricTables -> SUBSET AllBuckets]
  BY DEF DeleteIndex, HoursInv, HistoryShapes
<1>3. /\ \A b \in DOMAIN index' : b \in DOMAIN index /\ index'[b] = index[b]
      /\ \A b \in DOMAIN index \ DOMAIN index' : b < job.raw /\ b \notin job.keep
  BY <1>1, <1>2
<1>4. /\ metric' \in [MetricTables -> SUBSET AllBuckets]
      /\ \A t \in MetricTables : metric'[t] \subseteq metric[t]
      /\ \A t \in MetricTables : metric[t] \ metric'[t] = {}
  BY <1>2
<1> QED
  BY <1>2, <1>3, <1>4, BatchKeepsHours

LEMMA SourceStays == ASSUME UNCHANGED <<index, metric, indexed>> PROVE Source' = Source
  BY DEF Source

\* A table is done, or the usage rows are: the run goes on with what comes next.
LEMMA NextStageKeepsHours ==
    ASSUME HoursInv, job.at # "idle",
           UNCHANGED <<newest, index, metric, indexed, brought, cutoffs, disturbed>>,
           job' \in [at : {"metrics", "usage", "usage first", "index"}, table : DOMAIN TableOrder,
                     raw : Int, hourly : Int, keep : SUBSET AllBuckets],
           job'.raw = job.raw, job'.hourly = job.hourly, job'.keep = job.keep,
           job.raw = job.hourly => job'.at # "usage",
           Thinning => job'.at # "usage first",
           \A i \in DOMAIN TableOrder : Thinning /\ Swept(i)' /\ ~Swept(i) => Doomed(metric[TableOrder[i]]) = {}
    PROVE  HoursInv'
<1> USE DEF HoursInv
<1>1. HistoryShapes'
  BY DEF HistoryShapes
<1>2. Thinning' <=> Thinning
  BY DEF Thinning
<1>3. CutoffsTell'
  BY <1>2 DEF CutoffsTell
<1>4. HourlyOneReal'
  BY DEF HourlyOneReal
<1>5. ASSUME NEW h \in AllHours, LiveHour(h)'
      PROVE  HourKept(h)' /\ (Thinning => HourThinned(h)')
  <2>1. LiveHour(h)
    BY <1>5 DEF LiveHour
  <2>2. HourKept(h)'
    BY <2>1, HourStays
  <2>3. ASSUME Thinning PROVE HourThinned(h)'
    <3>1. HourThinned(h)
      BY <2>1, <2>3
    <3>2. /\ \A b : Complete(b)' <=> Complete(b)
          /\ \A b : WholeBucket(b)' <=> WholeBucket(b)
          /\ SourceOf(h)' = SourceOf(h)
      <4>1. UNCHANGED <<index, metric, indexed, brought>>
        OBVIOUS
      <4>2. /\ \A b : Complete(b)' <=> Complete(b)
            /\ \A b : WholeBucket(b)' <=> WholeBucket(b)
        BY <4>1 DEF WholeBucket, Complete
      <4>3. Source' = Source
        BY <4>1, SourceStays
      <4>4. SourceOf(h)' = SourceOf(h)
        BY <4>3 DEF SourceOf
      <4> QED
        BY <4>2, <4>4
    <3>3. \A b, c : Prefers(b, c)' <=> Prefers(b, c)
      BY <3>2 DEF Prefers
    <3>4. ASSUME NEW i \in DOMAIN TableOrder, Swept(i)', NEW b \in metric[TableOrder[i]],
                 Hour(b) = h, b < job.raw
          PROVE  b \in job.keep
      <4>1. CASE Swept(i)
        BY <3>1, <3>4, <4>1 DEF HourThinned
      <4>2. CASE ~Swept(i)
        BY <2>3, <3>4, <4>2 DEF Doomed
      <4> QED
        BY <4>1, <4>2
    <3>5. \A k \in job'.keep : Hour(k) = h => k \in DOMAIN index' /\ k < job'.raw /\ WholeBucket(k)'
      BY <3>1, <3>2 DEF HourThinned
    <3>6. ASSUME NEW b \in SourceOf(h)'
          PROVE  IF b < job'.raw THEN \E k \in job'.keep : Hour(k) = h /\ Prefers(k, b)'
                 ELSE b \in DOMAIN index'
      <4>1. b \in SourceOf(h)
        BY <3>2
      <4>2. IF b < job.raw THEN \E k \in job.keep : Hour(k) = h /\ Prefers(k, b) ELSE b \in DOMAIN index
        BY <3>1, <4>1 DEF HourThinned
      <4> QED
        BY <3>3, <4>2
    <3>7. \A i \in DOMAIN TableOrder : Swept(i)' =>
            \A b \in metric'[TableOrder[i]] : Hour(b) = h /\ b < job'.raw => b \in job'.keep
      BY <3>4
    <3> QED
      BY <3>5, <3>6, <3>7 DEF HourThinned
  <2> QED
    BY <2>2, <2>3
<1> QED
  BY <1>1, <1>2, <1>3, <1>4, <1>5

LEMMA MetricsDeletedKeepsHours ==
    ASSUME HoursInv, MetricsDeleted
    PROVE  HoursInv'
<1>1. /\ job.at = "metrics" /\ Doomed(metric[TableOrder[job.table]]) = {}
      /\ job' = IF job.table < Len(TableOrder) THEN [job EXCEPT !.table = @ + 1]
                ELSE [job EXCEPT !.at = IF job.raw = job.hourly THEN "index" ELSE "usage"]
      /\ UNCHANGED <<newest, index, metric, indexed, brought, cutoffs, disturbed>>
  BY DEF MetricsDeleted
<1>2. job \in [at : {"idle", "metrics", "usage", "usage first", "index"}, table : DOMAIN TableOrder,
               raw : Int, hourly : Int, keep : SUBSET AllBuckets]
  BY DEF HoursInv, HistoryShapes
<1>3. DOMAIN TableOrder = 1..Len(TableOrder) /\ Len(TableOrder) \in Nat
  BY HistoryAssumption
<1>6. job.table \in 1..Len(TableOrder)
  BY <1>2, <1>3
<1>4. CASE job.table < Len(TableOrder)
  <2>1. job' = [job EXCEPT !.table = job.table + 1]
    BY <1>1, <1>4
  <2>2. job.table + 1 \in DOMAIN TableOrder /\ job.table \in Int
    BY <1>3, <1>4, <1>6
  <2>3. /\ job' \in [at : {"metrics", "usage", "usage first", "index"}, table : DOMAIN TableOrder,
                     raw : Int, hourly : Int, keep : SUBSET AllBuckets]
        /\ job'.raw = job.raw /\ job'.hourly = job.hourly /\ job'.keep = job.keep
        /\ job'.at = "metrics" /\ job'.table = job.table + 1
    BY <1>1, <1>2, <2>1, <2>2
  <2>4. ASSUME NEW i \in DOMAIN TableOrder, Swept(i)', ~Swept(i)
        PROVE  Doomed(metric[TableOrder[i]]) = {}
    <3>1. i < job.table + 1 /\ ~(i < job.table)
      BY <2>3, <2>4 DEF Swept
    <3>2. i = job.table
      BY <1>3, <2>2, <3>1
    <3> QED
      BY <1>1, <3>2
  <2> QED
    BY <1>1, <2>3, <2>4, NextStageKeepsHours
<1>5. CASE ~(job.table < Len(TableOrder))
  <2>1. job' = [job EXCEPT !.at = IF job.raw = job.hourly THEN "index" ELSE "usage"]
    BY <1>1, <1>5
  <2>2. /\ job' \in [at : {"metrics", "usage", "usage first", "index"}, table : DOMAIN TableOrder,
                     raw : Int, hourly : Int, keep : SUBSET AllBuckets]
        /\ job'.raw = job.raw /\ job'.hourly = job.hourly /\ job'.keep = job.keep
        /\ job'.at = IF job.raw = job.hourly THEN "index" ELSE "usage"
    BY <1>2, <2>1
  <2>3. ASSUME NEW i \in DOMAIN TableOrder, ~Swept(i)
        PROVE  Doomed(metric[TableOrder[i]]) = {}
    <3>1. ~(i < job.table)
      BY <2>3 DEF Swept
    <3>2. i = job.table
      BY <1>3, <1>5, <1>6, <3>1
    <3> QED
      BY <1>1, <3>2
  <2> QED
    BY <1>1, <2>2, <2>3, NextStageKeepsHours
<1> QED
  BY <1>4, <1>5

LEMMA UsageRolledUpKeepsHours ==
    ASSUME HoursInv, UsageRolledUp
    PROVE  HoursInv'
<1>1. /\ job.at \in {"usage", "usage first"}
      /\ job' = [job EXCEPT !.at = IF job.at = "usage" THEN "index" ELSE "metrics"]
      /\ UNCHANGED <<newest, index, metric, indexed, brought, cutoffs, disturbed>>
  BY DEF UsageRolledUp
<1>2. job \in [at : {"idle", "metrics", "usage", "usage first", "index"}, table : DOMAIN TableOrder,
               raw : Int, hourly : Int, keep : SUBSET AllBuckets]
  BY DEF HoursInv, HistoryShapes
<1>3. /\ job' \in [at : {"metrics", "usage", "usage first", "index"}, table : DOMAIN TableOrder,
                   raw : Int, hourly : Int, keep : SUBSET AllBuckets]
      /\ job'.raw = job.raw /\ job'.hourly = job.hourly /\ job'.keep = job.keep
      /\ job'.at = IF job.at = "usage" THEN "index" ELSE "metrics"
  BY <1>1, <1>2
<1>4. Thinning => job.at = "usage"
  BY <1>1 DEF HoursInv, CutoffsTell
<1>5. \A i : Thinning => Swept(i)
  BY <1>4 DEF Swept
<1> QED
  BY <1>1, <1>3, <1>5, NextStageKeepsHours

\* The run of EndRun or RunDies is gone, with its cutoffs noted.
LEMMA IdleKeepsHours ==
    ASSUME HoursInv, job.at # "idle", job' = Idle, UNCHANGED <<newest, index, metric, brought, disturbed>>,
           indexed' \in BOOLEAN, indexed => indexed', indexed' => indexed \/ Thinning,
           NEW raw \in Int,
           cutoffs' = [cutoffs EXCEPT !.raw = raw,
                                      !.hourly = IF job.hourly > @ THEN job.hourly ELSE @],
           raw = 0 \/ raw = job.raw
    PROVE  /\ HistoryShapes' /\ CutoffsTell' /\ ~Thinning'
           /\ \A h \in AllHours : LiveHour(h)' => LiveHour(h) /\ job.hourly <= HourFirst(h) /\ HourKept(h)'
<1> USE DEF HoursInv
<1>1. /\ cutoffs \in [raw : Int, hourly : Int, thinned : Int] /\ job.hourly \in Int /\ job.raw \in Int
      /\ \A h \in AllHours : HourFirst(h) \in Int
  <2>1. \A h \in AllHours : HourFirst(h) \in Int
    <3> SUFFICES ASSUME NEW b \in AllBuckets PROVE HourFirst(Hour(b)) \in Int
      BY DEF AllHours
    <3> QED
      BY HourSpans
  <2> QED
    BY <2>1, HistoryNumbers DEF HistoryShapes
<1>2. /\ cutoffs'.raw = raw /\ cutoffs'.thinned = cutoffs.thinned
      /\ cutoffs'.hourly = IF job.hourly > cutoffs.hourly THEN job.hourly ELSE cutoffs.hourly
      /\ cutoffs' \in [raw : Int, hourly : Int, thinned : Int]
  BY <1>1
<1>3. cutoffs.hourly <= cutoffs'.hourly /\ job.hourly <= cutoffs'.hourly
  <2>1. cutoffs.hourly \in Int /\ job.hourly \in Int
    BY <1>1
  <2>2. cutoffs'.hourly = IF job.hourly > cutoffs.hourly THEN job.hourly ELSE cutoffs.hourly
    BY <1>2
  <2> QED
    BY <2>1, <2>2
<1>4. job'.at = "idle" /\ job'.raw = 0 /\ job'.hourly = 0
  BY DEF Idle
<1>5. HistoryShapes'
  <2>1. 1 \in DOMAIN TableOrder
    BY HistoryAssumption
  <2>2. job' \in [at : {"idle", "metrics", "usage", "usage first", "index"}, table : DOMAIN TableOrder,
                  raw : Int, hourly : Int, keep : SUBSET AllBuckets]
    BY <2>1 DEF Idle
  <2> QED
    BY <1>2, <2>2 DEF HistoryShapes
<1>6. ~Thinning'
  BY <1>4 DEF Thinning
<1>7. CutoffsTell'
  <2>1. /\ cutoffs.hourly >= 0 /\ (Thinning => job.raw = cutoffs.thinned)
        /\ cutoffs.thinned = 0 \/ cutoffs.thinned <= newest - RawBuckets
    BY DEF CutoffsTell
  <2>2. ~Thinning => job.raw = job.hourly
    BY DEF Thinning
  <2>3. /\ cutoffs.hourly \in Int /\ cutoffs.thinned \in Int /\ cutoffs'.hourly \in Int
        /\ job.raw \in Int /\ job.hourly \in Int
    BY <1>1, <1>2
  <2>8. cutoffs.hourly <= cutoffs'.hourly /\ job.hourly <= cutoffs'.hourly
    BY <1>3
  <2>6. cutoffs'.raw = raw /\ cutoffs'.thinned = cutoffs.thinned
    BY <1>2
  <2>7. cutoffs'.hourly >= 0
    BY <2>1, <2>3, <2>8
  <2>4. cutoffs'.raw <= cutoffs'.thinned \/ cutoffs'.raw <= cutoffs'.hourly
    <3>1. CASE raw = 0
      BY <2>3, <2>6, <2>7, <3>1
    <3>2. CASE raw = job.raw /\ Thinning
      BY <2>1, <2>3, <2>6, <3>2
    <3>3. CASE raw = job.raw /\ ~Thinning
      BY <2>2, <2>3, <2>6, <2>8, <3>3
    <3> QED
      BY <3>1, <3>2, <3>3
  <2> QED
    BY <1>2, <1>4, <1>6, <2>1, <2>4, <2>7 DEF CutoffsTell
<1>8. ASSUME NEW h \in AllHours, LiveHour(h)'
      PROVE  LiveHour(h) /\ job.hourly <= HourFirst(h) /\ HourKept(h)'
  <2>1. h \in AllHours \ disturbed /\ cutoffs'.hourly <= HourFirst(h)
    BY <1>8 DEF LiveHour
  <2>2. HourFirst(h) \in Int /\ cutoffs.hourly \in Int /\ cutoffs'.hourly \in Int
    BY <1>1, <1>2
  <2>3. cutoffs.hourly <= HourFirst(h) /\ job.hourly <= HourFirst(h)
    BY <1>1, <1>3, <2>1, <2>2
  <2>4. LiveHour(h)
    BY <2>1, <2>3 DEF LiveHour
  <2>5. CASE Thinning
    <3>1. HourSwept(h)
      <4>1. DOMAIN index' \subseteq Source' /\ Source' \subseteq Source
        BY <2>5 DEF Source
      <4> QED
        BY <1>2, <4>1 DEF HourSwept
    <3>2. HourKept(h) /\ HourThinned(h)
      BY <2>4, <2>5
    <3> QED
      BY <2>3, <2>4, <2>5, <3>1, <3>2, SweptHour
  <2>6. CASE ~Thinning
    <3>1. indexed' = indexed
      BY <2>6 DEF HistoryShapes
    <3> QED
      BY <1>2, <2>3, <2>4, <3>1, HourStays
  <2> QED
    BY <2>5, <2>6
<1> QED
  BY <1>5, <1>6, <1>7, <1>8

\* The run ends: every hour that it judged has one real bucket.
LEMMA EndRunKeepsHours ==
    ASSUME HoursInv, EndRun
    PROVE  HoursInv'
<1>1. /\ job.at = "index" /\ Doomed(DOMAIN index) = {} /\ job' = Idle
      /\ indexed' = (indexed \/ job.raw # job.hourly)
      /\ cutoffs' = [cutoffs EXCEPT !.raw = job.raw, !.hourly = IF job.hourly > @ THEN job.hourly ELSE @]
      /\ UNCHANGED <<newest, index, metric, brought, disturbed>>
  BY DEF EndRun
<1>2. /\ indexed' \in BOOLEAN /\ (indexed => indexed')
      /\ indexed' => indexed \/ Thinning
  BY <1>1 DEF Thinning
<1>3. /\ job.raw \in Int /\ job.hourly \in Int /\ job.keep \subseteq AllBuckets
      /\ cutoffs \in [raw : Int, hourly : Int, thinned : Int]
  BY HistoryNumbers DEF HoursInv, HistoryShapes
<1>4. /\ HistoryShapes' /\ CutoffsTell' /\ ~Thinning'
      /\ \A h \in AllHours : LiveHour(h)' => LiveHour(h) /\ job.hourly <= HourFirst(h) /\ HourKept(h)'
  BY <1>1, <1>2, <1>3, IdleKeepsHours
<1>5. cutoffs'.raw = job.raw /\ cutoffs'.hourly \in Int
  BY <1>1, <1>3
<1>6. job'.at = "idle"
  BY <1>1 DEF Idle
<1>7. HourlyOneReal'
  <2> SUFFICES ASSUME NEW h \in Judged',
                      \E c \in AllBuckets : Hour(c) = h /\ brought[c].tables # {}
               PROVE  LET pushed == {c \in AllBuckets : Hour(c) = h /\ brought[c].tables # {}}
                          kept == {c \in DOMAIN index : Hour(c) = h}
                      IN  /\ Cardinality(kept) = 1
                          /\ \A c \in kept :
                                /\ (\E d \in pushed : brought[d].complete) => index[c]
                                /\ \A t \in brought[c].tables : c \in metric[t]
                                /\ \A t \in MetricTables, d \in pushed : d \in metric[t] => d = c
    BY <1>1 DEF HourlyOneReal
  <2>1. /\ h \in AllHours \ disturbed /\ cutoffs'.hourly <= HourFirst(h) /\ HourLast(h) < job.raw
    BY <1>1, <1>5 DEF Judged, HourFirst, HourLast
  <2>2. LiveHour(h)'
    BY <1>1, <1>6, <2>1 DEF LiveHour
  <2>3. LiveHour(h) /\ job.hourly <= HourFirst(h)
    BY <1>4, <2>1, <2>2
  <2>4. \A b \in AllBuckets : Hour(b) = h => b < job.raw /\ HourFirst(h) <= b
    <3> SUFFICES ASSUME NEW b \in AllBuckets, Hour(b) = h PROVE b < job.raw /\ HourFirst(h) <= b
      OBVIOUS
    <3>1. b \in Nat /\ HourFirst(h) \in Nat /\ HourFirst(h) <= b /\ HourLast(h) \in Nat /\ b <= HourLast(h)
      BY HourSpans
    <3> QED
      BY <1>3, <2>1, <3>1
  <2>5. PICK a \in AllBuckets : Hour(a) = h /\ brought[a].tables # {}
    OBVIOUS
  <2>6. Thinning
    <3>1. a < job.raw /\ HourFirst(h) <= a /\ a \in Nat /\ HourFirst(h) \in Nat
      BY <2>4, <2>5, HourSpans
    <3>2. job.raw # job.hourly
      BY <1>3, <2>3, <3>1
    <3> QED
      BY <1>1, <3>2 DEF Thinning
  <2>7. HourKept(h) /\ HourThinned(h) /\ \A b, c \in job.keep : Hour(b) = Hour(c) => b = c
    BY <2>1, <2>3, <2>6 DEF HoursInv
  <2>8. Source \subseteq AllBuckets /\ DOMAIN index \subseteq Source
    BY SourceIs DEF HoursInv, Source
  <2>9. \A b \in SourceOf(h) : \E k \in job.keep : Hour(k) = h /\ Prefers(k, b)
    <3>1. \A b \in SourceOf(h) : b < job.raw
      BY <2>4, <2>8 DEF SourceOf
    <3> QED
      BY <2>7, <3>1 DEF HourThinned
  <2>10. PICK k \in job.keep : Hour(k) = h
    <3>1. SourceOf(h) # {}
      BY <2>5, <2>7 DEF HourKept, BucketKept
    <3> QED
      BY <2>9, <3>1
  <2>11. \A j \in job.keep : Hour(j) = h => j = k
    BY <2>7, <2>10
  <2>12. k \in DOMAIN index /\ WholeBucket(k)
    BY <2>7, <2>10 DEF HourThinned
  <2> DEFINE pushed == {c \in AllBuckets : Hour(c) = h /\ brought[c].tables # {}}
             kept == {c \in DOMAIN index : Hour(c) = h}
  <2>13. kept = {k}
    <3>1. ASSUME NEW c \in kept PROVE c = k
      <4>1. c \in DOMAIN index /\ Hour(c) = h /\ c < job.raw
        BY <2>4, <2>8
      <4>2. c \in job.keep
        BY <1>1, <4>1 DEF Doomed
      <4> QED
        BY <2>11, <4>1, <4>2
    <3> QED
      BY <2>10, <2>12, <3>1
  <2>14. Cardinality(kept) = 1
    BY <2>13, FS_Singleton
  <2>15. ASSUME NEW d \in pushed, brought[d].complete PROVE index[k]
    <3>1. PICK c \in SourceOf(h) : Complete(c)
      BY <2>7, <2>15 DEF HourKept, BucketKept
    <3>2. PICK j \in job.keep : Hour(j) = h /\ Prefers(j, c)
      BY <2>9
    <3>3. Complete(k)
      BY <2>11, <3>1, <3>2 DEF Prefers
    <3> QED
      BY <3>3 DEF Complete
  <2>16. ASSUME NEW t \in MetricTables, NEW d \in pushed, d \in metric[t] PROVE d = k
    <3>1. PICK i \in DOMAIN TableOrder : t = TableOrder[i]
      BY DEF MetricTables
    <3>2. Hour(d) = h /\ d < job.raw
      BY <2>4
    <3>3. Swept(i)
      BY <1>1 DEF Swept
    <3>4. d \in job.keep
      BY <2>7, <2>16, <3>1, <3>2, <3>3 DEF HourThinned
    <3> QED
      BY <2>11, <3>2, <3>4
  <2>17. \A t \in brought[k].tables : k \in metric[t]
    BY <2>12 DEF WholeBucket
  <2> QED
    BY <2>13, <2>14, <2>15, <2>16, <2>17
<1> QED
  BY <1>4, <1>7 DEF HoursInv

LEMMA RunDiesKeepsHours ==
    ASSUME HoursInv, RunDies
    PROVE  HoursInv'
<1>1. /\ job.at # "idle" /\ job' = Idle
      /\ cutoffs' = [cutoffs EXCEPT !.raw = 0, !.hourly = IF job.hourly > @ THEN job.hourly ELSE @]
      /\ UNCHANGED <<newest, index, metric, brought, disturbed>> /\ indexed' = indexed
  BY DEF RunDies
<1>2. /\ indexed' \in BOOLEAN /\ (indexed => indexed') /\ (indexed' => indexed)
      /\ cutoffs \in [raw : Int, hourly : Int, thinned : Int]
  <2>1. indexed' = indexed
    BY <1>1
  <2>2. indexed \in BOOLEAN /\ cutoffs \in [raw : Int, hourly : Int, thinned : Int]
    BY DEF HoursInv, HistoryShapes
  <2> QED
    BY <2>1, <2>2
<1>3. cutoffs'.raw = 0
  BY <1>1, <1>2
<1>4. HourlyOneReal'
  BY <1>3 DEF HourlyOneReal
<1>5. /\ HistoryShapes' /\ CutoffsTell' /\ ~Thinning'
      /\ \A h \in AllHours : LiveHour(h)' => LiveHour(h) /\ job.hourly <= HourFirst(h) /\ HourKept(h)'
  <2>1. PICK raw \in Int : raw = 0
    OBVIOUS
  <2>2. cutoffs' = [cutoffs EXCEPT !.raw = raw, !.hourly = IF job.hourly > @ THEN job.hourly ELSE @]
    BY <1>1, <2>1
  <2> QED
    BY <1>1, <1>2, <2>1, <2>2, IdleKeepsHours
<1> QED
  BY <1>4, <1>5 DEF HoursInv

\* A step that leaves the run and the tables alone.
LEMMA TablesStay ==
    ASSUME HoursInv, UNCHANGED <<index, metric, indexed, brought, job, cutoffs, disturbed>>,
           newest' \in AllBuckets, newest <= newest'
    PROVE  HoursInv'
<1> USE DEF HoursInv
<1>1. HistoryShapes' /\ (Thinning' <=> Thinning)
  BY DEF HistoryShapes, Thinning
<1>2. CutoffsTell'
  <2>1. newest \in Nat /\ newest' \in Nat /\ RawBuckets \in Nat /\ cutoffs.thinned \in Int
    BY <1>1, HistoryNumbers DEF AllBuckets
  <2>2. cutoffs.thinned = 0 \/ cutoffs.thinned <= newest - RawBuckets
    BY DEF CutoffsTell
  <2>3. cutoffs.thinned = 0 \/ cutoffs.thinned <= newest' - RawBuckets
    BY <2>1, <2>2
  <2> QED
    BY <1>1, <2>3 DEF CutoffsTell
<1>3. HourlyOneReal'
  BY DEF HourlyOneReal, Judged
<1>4. ASSUME NEW h \in AllHours, LiveHour(h)'
      PROVE  HourKept(h)' /\ (Thinning => HourThinned(h)')
  <2>1. LiveHour(h)
    BY <1>4 DEF LiveHour
  <2>2. \A i \in DOMAIN TableOrder : Swept(i)' => Swept(i)
    BY DEF Swept
  <2>3. HourKept(h)'
    BY <2>1, HourStays
  <2>4. Thinning => HourThinned(h)'
    BY <2>1, <2>2, HourRunStays
  <2> QED
    BY <2>3, <2>4
<1> QED
  BY <1>1, <1>2, <1>3, <1>4

LEMMA HoursStep ==
    ASSUME HoursInv, [HistoryNext]_historyVars
    PROVE  HoursInv'
<1>1. newest \in AllBuckets /\ disturbed \subseteq AllHours /\ newest \in Nat /\ MaxBucket \in Nat
  BY HistoryNumbers DEF HoursInv, HistoryShapes
<1>2. newest < MaxBucket => newest + 1 \in AllBuckets /\ newest <= newest + 1
  BY <1>1 DEF AllBuckets
<1>3. ASSUME NEW k \in PushKinds, HistoryPush(k) PROVE HoursInv'
  <2>1. /\ Store(newest + 1, k) /\ newest + 1 \in AllBuckets /\ newest' = newest + 1
        /\ newest' \in AllBuckets /\ newest <= newest' /\ disturbed' = disturbed
    BY <1>2, <1>3 DEF HistoryPush
  <2>2. newest + 1 >= cutoffs.thinned
    <3>1. /\ cutoffs.thinned = 0 \/ cutoffs.thinned <= newest - RawBuckets
          /\ cutoffs.thinned \in Int /\ RawBuckets \in Nat
      BY HistoryNumbers DEF HoursInv, CutoffsTell
    <3> QED
      BY <1>1, <3>1
  <2> DEFINE b == newest + 1
  <2> HIDE DEF b
  <2>3. Store(b, k) /\ b \in AllBuckets /\ b >= cutoffs.thinned
    BY <2>1, <2>2 DEF b
  <2> QED
    BY <1>1, <2>1, <2>3, StoreKeepsHours
<1>4. CASE Quiet
  BY <1>2, <1>4, TablesStay DEF Quiet
<1>5. ASSUME NEW b \in AllBuckets, NEW k \in PushKinds, LatePush(b, k) PROVE HoursInv'
  <2>1. /\ Store(b, k) /\ newest' = newest
        /\ disturbed' = IF b < cutoffs.thinned THEN disturbed \cup {Hour(b)} ELSE disturbed
    BY <1>5 DEF LatePush
  <2>2. Hour(b) \in AllHours /\ b \in Nat /\ cutoffs.thinned \in Int
    BY HourSpans, HistoryNumbers DEF HoursInv
  <2>3. /\ disturbed \subseteq disturbed' /\ disturbed' \subseteq AllHours
        /\ b >= cutoffs.thinned \/ Hour(b) \in disturbed'
    BY <1>1, <2>1, <2>2
  <2>4. newest <= newest'
    BY <1>1, <2>1
  <2> QED
    BY <1>1, <2>1, <2>3, <2>4, StoreKeepsHours
<1>6. CASE BeginRetention(newest)
  BY <1>6, BeginRetentionKeepsHours
<1>7. ASSUME NEW age \in DeleteAges, BeginDelete(age) PROVE HoursInv'
  BY <1>7, BeginDeleteKeepsHours
<1>8. ASSUME NEW S \in Batches(metric[TableOrder[job.table]]), DeleteMetrics(S) PROVE HoursInv'
  BY <1>8, DeleteMetricsKeepsHours
<1>9. CASE MetricsDeleted
  BY <1>9, MetricsDeletedKeepsHours
<1>10. CASE RollupUsage
  <2>1. UNCHANGED <<newest, index, metric, indexed, brought, job, cutoffs, disturbed>>
    BY <1>10 DEF RollupUsage
  <2>2. newest' \in AllBuckets /\ newest <= newest'
    BY <1>1, <2>1
  <2> QED
    BY <2>1, <2>2, TablesStay
<1>11. CASE UsageRolledUp
  BY <1>11, UsageRolledUpKeepsHours
<1>12. ASSUME NEW S \in Batches(DOMAIN index), DeleteIndex(S) PROVE HoursInv'
  BY <1>12, DeleteIndexKeepsHours
<1>13. CASE EndRun
  BY <1>13, EndRunKeepsHours
<1>14. CASE RunDies
  BY <1>14, RunDiesKeepsHours
<1>15. CASE UNCHANGED historyVars
  <2>1. /\ UNCHANGED <<index, metric, indexed, brought, job, cutoffs, disturbed>>
        /\ newest' \in AllBuckets /\ newest <= newest'
    BY <1>1, <1>15 DEF historyVars
  <2> QED
    BY <2>1, TablesStay
<1> QED
  BY <1>3, <1>4, <1>5, <1>6, <1>7, <1>8, <1>9, <1>10, <1>11, <1>12, <1>13, <1>14, <1>15 DEF HistoryNext

-----------------------------------------------------------------------------
(* The points of a chart.                                                  *)

\* round: not more than half a step from the exact value.
LEMMA HalfEvenIs ==
    ASSUME NEW a \in Nat, NEW m \in Nat \ {0}
    PROVE  /\ HalfEven(a, m) \in Nat
           /\ 2 * (m * HalfEven(a, m)) <= 2 * a + m
           /\ 2 * a <= 2 * (m * HalfEven(a, m)) + m
<1> DEFINE q == a \div m
           r == a % m
<1>1. q \in Nat /\ r \in 0..(m - 1) /\ a = m * q + r
  <2>1. r \in 0..(m - 1) /\ a = m * q + r
    OBVIOUS
  <2>2. q \in Nat
    BY DivSpans
  <2> QED
    BY <2>1, <2>2
<1>2. HalfEven(a, m) = IF 2 * r < m \/ (2 * r = m /\ q % 2 = 0) THEN q ELSE q + 1
  BY DEF HalfEven
<1> HIDE DEF q, r
<1>3. m * (q + 1) = m * q + m /\ m * q \in Nat /\ r \in Nat
  BY <1>1
<1>4. CASE 2 * r < m \/ (2 * r = m /\ q % 2 = 0)
  <2>1. HalfEven(a, m) = q /\ 2 * r <= m
    BY <1>2, <1>3, <1>4
  <2> DEFINE p == m * q
  <2> HIDE DEF p
  <2>2. p \in Nat /\ a = p + r
    BY <1>1, <1>3 DEF p
  <2>3. 2 * p <= 2 * a + m /\ 2 * a <= 2 * p + m
    BY <1>3, <2>1, <2>2
  <2> QED
    BY <1>1, <2>1, <2>3 DEF p
<1>5. CASE ~(2 * r < m \/ (2 * r = m /\ q % 2 = 0))
  <2>1. HalfEven(a, m) = q + 1 /\ 2 * r >= m /\ r < m
    BY <1>1, <1>2, <1>3, <1>5
  <2> DEFINE p == m * q
  <2> HIDE DEF p
  <2>2. p \in Nat /\ a = p + r /\ m * (q + 1) = p + m
    BY <1>1, <1>3 DEF p
  <2>3. 2 * (p + m) <= 2 * a + m /\ 2 * a <= 2 * (p + m) + m
    BY <1>3, <2>1, <2>2
  <2> QED
    BY <1>1, <2>1, <2>2, <2>3
<1> QED
  BY <1>4, <1>5

\* The points of a chart: the first bucket, the last one, and never far apart.
LEMMA PointsSpread ==
    ASSUME NEW l \in Nat, NEW m \in Nat \ {0}
    PROVE  /\ \A i \in 0..m : HalfEven(i * l, m) \in 0..l
           /\ HalfEven(0 * l, m) = 0 /\ HalfEven(m * l, m) = l
           /\ \A i \in 0..(m - 1) :
                (HalfEven((i + 1) * l, m) - HalfEven(i * l, m)) * m <= l + m - 1
<1>1. ASSUME NEW i \in 0..m
      PROVE  HalfEven(i * l, m) \in 0..l
  <2> DEFINE q == HalfEven(i * l, m)
             a == i * l
  <2>1. a \in Nat /\ a <= m * l
    BY Z3
  <2>2. q \in Nat /\ 2 * (m * q) <= 2 * a + m
    BY <2>1, HalfEvenIs
  <2> HIDE DEF q, a
  <2>3. q <= l
    <3> SUFFICES ASSUME q >= l + 1 PROVE FALSE
      BY <2>2
    <3>1. m * q >= m * (l + 1) /\ m * (l + 1) = m * l + m /\ m * q \in Nat /\ m * l \in Nat
      BY <2>2, Z3
    <3> QED
      BY <2>1, <2>2, <3>1
  <2> QED
    BY <2>2, <2>3 DEF q
<1>2. HalfEven(0 * l, m) = 0
  <2>1. HalfEven(0, m) \in Nat /\ 2 * (m * HalfEven(0, m)) <= m
    BY HalfEvenIs
  <2> DEFINE q == HalfEven(0, m)
  <2>3. q \in Nat /\ 2 * (m * q) <= m
    BY <2>1
  <2> HIDE DEF q
  <2>4. q = 0
    <3> SUFFICES ASSUME q >= 1 PROVE FALSE
      BY <2>3
    <3>1. m * q >= m /\ m * q \in Nat
      BY <2>3, Z3
    <3> QED
      BY <2>3, <3>1
  <2> QED
    BY <2>4 DEF q
<1>3. HalfEven(m * l, m) = l
  <2> DEFINE q == HalfEven(m * l, m)
  <2>1. m * l \in Nat
    OBVIOUS
  <2>2. q \in Nat /\ 2 * (m * l) <= 2 * (m * q) + m
    BY <2>1, HalfEvenIs
  <2>3. q \in 0..l
    BY <1>1
  <2> HIDE DEF q
  <2>4. q >= l
    <3> SUFFICES ASSUME q <= l - 1 PROVE FALSE
      BY <2>2
    <3>1. m * q <= m * (l - 1) /\ m * (l - 1) = m * l - m /\ m * q \in Nat
      BY <2>2, Z3
    <3> QED
      BY <2>1, <2>2, <3>1
  <2> QED
    BY <2>3, <2>4 DEF q
<1>4. ASSUME NEW i \in 0..(m - 1)
      PROVE  (HalfEven((i + 1) * l, m) - HalfEven(i * l, m)) * m <= l + m - 1
  <2> DEFINE q == HalfEven(i * l, m)
             s == HalfEven((i + 1) * l, m)
             a == i * l
  <2>1. i \in Nat /\ a \in Nat /\ (i + 1) * l = a + l /\ (i + 1) * l \in Nat
    OBVIOUS
  <2>2. /\ q \in Nat /\ 2 * a <= 2 * (m * q) + m
        /\ s \in Nat /\ 2 * (m * s) <= 2 * (a + l) + m
    BY <2>1, HalfEvenIs
  <2>3. a = i * l
    OBVIOUS
  <2> HIDE DEF q, s, a
  <2> DEFINE mq == m * q
             ms == m * s
  <2>4. mq \in Nat /\ ms \in Nat /\ (s - q) * m = ms - mq
    BY <2>2, Z3
  <2> HIDE DEF mq, ms
  <2>5. 2 * a <= 2 * mq + m /\ 2 * ms <= 2 * (a + l) + m
    BY <2>2 DEF mq, ms
  <2>6. ms - mq <= l + m
    BY <2>1, <2>4, <2>5
  <2>7. ms - mq # l + m
    <3> SUFFICES ASSUME ms - mq = l + m PROVE FALSE
      OBVIOUS
    <3>1. 2 * a = 2 * mq + m
      BY <2>1, <2>4, <2>5
    <3> DEFINE t == s - q - 1
    <3>2. t \in Int /\ m * t = ms - mq - m
      BY <2>2, Z3 DEF mq, ms
    <3>3. l = m * t
      BY <2>4, <3>2
    <3> HIDE DEF t
    <3> DEFINE u == i * t
    <3>4. u \in Int /\ a = m * u
      BY <2>1, <2>3, <3>2, <3>3, Z3
    <3> HIDE DEF u
    <3>5. 2 * (m * u) = 2 * (m * q) + m
      BY <3>1, <3>4 DEF mq
    <3>6. m * (2 * u - 2 * q - 1) = 0
      BY <2>2, <3>4, <3>5, Z3
    <3>7. 2 * u - 2 * q - 1 = 0
      BY <2>2, <3>4, <3>6, Z3
    <3> QED
      BY <2>2, <3>4, <3>7
  <2> QED
    BY <2>4, <2>6, <2>7 DEF q, s
<1> QED
  BY <1>1, <1>2, <1>3, <1>4

\* Max of a set of buckets.
LEMMA MostIs ==
    ASSUME NEW S \in SUBSET AllBuckets, S # {}
    PROVE  Max(S) \in S /\ \A x \in S : x <= Max(S)
<1> DEFINE n == MaxBucket
           T == {n - x : x \in S}
<1>1. n \in Nat /\ \A x \in S : x \in 1..n
  BY HistoryAssumption DEF AllBuckets
<1> HIDE DEF n
<1>2. T \in SUBSET Nat /\ T # {}
  <2>1. \A x \in S : n - x \in Nat
    BY <1>1
  <2> QED
    BY <2>1
<1>3. Min(T) \in T /\ \A y \in T : Min(T) <= y
  <2> HIDE DEF T
  <2> QED
    BY <1>2, LeastIs
<1>4. PICK m \in S : Min(T) = n - m
  BY <1>3
<1>5. ASSUME NEW x \in S PROVE m >= x
  <2>1. n - x \in T
    BY Zenon
  <2> HIDE DEF T
  <2>2. n - m <= n - x
    BY <1>3, <1>4, <2>1
  <2> QED
    BY <1>1, <2>2
<1>6. \A x \in S : x \in Nat
  BY <1>1
<1> QED
  BY <1>5, <1>6 DEF Max

\* The place of a bucket among those of a set.
Upto(S, b) == {c \in S : c <= b}
PlaceOf(S, b) == Cardinality(Upto(S, b))

LEMMA Places ==
    ASSUME NEW S \in SUBSET AllBuckets
    PROVE  /\ IsFiniteSet(S) /\ Cardinality(S) \in Nat
           /\ \A b \in S : PlaceOf(S, b) \in 1..Cardinality(S) /\ IsFiniteSet(Upto(S, b))
           /\ \A b, c \in S : b < c => PlaceOf(S, b) < PlaceOf(S, c)
           /\ \A b, c \in S : PlaceOf(S, b) = PlaceOf(S, c) => b = c
           /\ \A i \in 1..Cardinality(S) : \E b \in S : PlaceOf(S, b) = i
<1>1. MaxBucket \in Nat /\ \A b \in S : b \in Nat
  BY HistoryAssumption DEF AllBuckets
<1>2. IsFiniteSet(S)
  <2>1. IsFiniteSet(1..MaxBucket)
    BY <1>1, FS_Interval
  <2> QED
    BY <2>1, FS_Subset DEF AllBuckets
<1> DEFINE n == Cardinality(S)
<1>3. n \in Nat
  BY <1>2, FS_CardinalityType
<1>4. ASSUME NEW b \in S
      PROVE  PlaceOf(S, b) \in 1..n /\ IsFiniteSet(Upto(S, b))
  <2>1. Upto(S, b) \in SUBSET S /\ b \in Upto(S, b)
    BY <1>1 DEF Upto
  <2>2. IsFiniteSet(Upto(S, b)) /\ Cardinality(Upto(S, b)) <= n
    BY <1>2, <2>1, FS_Subset
  <2>3. Cardinality(Upto(S, b)) \in Nat
    BY <2>2, FS_CardinalityType
  <2>4. Cardinality(Upto(S, b)) # 0
    BY <2>1, <2>2, FS_EmptySet
  <2> QED
    BY <1>3, <2>2, <2>3, <2>4 DEF PlaceOf
<1>5. ASSUME NEW b \in S, NEW c \in S, b < c PROVE PlaceOf(S, b) < PlaceOf(S, c)
  <2>1. Upto(S, b) \in SUBSET Upto(S, c) /\ Upto(S, b) # Upto(S, c)
    <3>1. b \in Nat /\ c \in Nat /\ ~(c <= b)
      BY <1>1, <1>5
    <3>2. c \in Upto(S, c) /\ c \notin Upto(S, b)
      BY <3>1 DEF Upto
    <3>3. \A x \in S : x <= b => x <= c
      BY <1>1, <1>5
    <3> QED
      BY <3>2, <3>3 DEF Upto
  <2>2. IsFiniteSet(Upto(S, c)) /\ PlaceOf(S, b) \in Nat /\ PlaceOf(S, c) \in Nat
    BY <1>3, <1>4
  <2>3. PlaceOf(S, b) <= PlaceOf(S, c) /\ PlaceOf(S, c) # PlaceOf(S, b)
    BY <2>1, <2>2, FS_Subset DEF PlaceOf
  <2> QED
    BY <2>2, <2>3
<1>6. ASSUME NEW b \in S, NEW c \in S, PlaceOf(S, b) = PlaceOf(S, c) PROVE b = c
  <2>1. b \in Nat /\ c \in Nat /\ PlaceOf(S, b) \in Nat /\ PlaceOf(S, c) \in Nat
    BY <1>1, <1>3, <1>4
  <2>2. ~(b < c) /\ ~(c < b)
    BY <1>5, <1>6, <2>1
  <2> QED
    BY <2>1, <2>2
<1>7. ASSUME NEW i \in 1..n PROVE \E b \in S : PlaceOf(S, b) = i
  <2> DEFINE f == [b \in S |-> PlaceOf(S, b)]
  <2>1. f \in [S -> 1..n]
    BY <1>4
  <2>2. \A b, c \in S : f[b] = f[c] => b = c
    BY <1>6
  <2>3. DOMAIN f = S
    OBVIOUS
  <2> HIDE DEF f
  <2>4. f \in Injection(S, 1..n)
    BY <2>1, <2>2, <2>3 DEF Injection, IsInjective
  <2>5. IsFiniteSet(1..n) /\ Cardinality(1..n) = n
    BY <1>3, FS_Interval
  <2>6. f \in Surjection(S, 1..n)
    BY <2>4, <2>5, FS_Injection
  <2>7. PICK b \in S : f[b] = i
    BY <2>6 DEF Surjection
  <2> QED
    BY <2>7 DEF f
<1> QED
  BY <1>2, <1>3, <1>4, <1>5, <1>6, <1>7

\* The buckets between two of a set.
LEMMA Between ==
    ASSUME NEW S \in SUBSET AllBuckets, NEW b \in S, NEW c \in S, b < c
    PROVE  PlaceOf(S, c) = PlaceOf(S, b) + Cardinality({d \in S : b < d /\ d < c}) + 1
           /\ Cardinality({d \in S : b < d /\ d < c}) \in Nat
<1> DEFINE M == {d \in S : b < d /\ d < c}
<1>1. \A x \in S : x \in Nat
  BY HistoryAssumption DEF AllBuckets
<1>2. IsFiniteSet(S) /\ IsFiniteSet(Upto(S, b))
  BY Places
<1>3. IsFiniteSet(M) /\ Cardinality(M) \in Nat /\ Cardinality(Upto(S, b)) \in Nat
  <2>1. M \in SUBSET S
    OBVIOUS
  <2> HIDE DEF M
  <2> QED
    BY <1>2, <2>1, FS_Subset, FS_CardinalityType
<1>4. /\ Upto(S, c) = (Upto(S, b) \cup M) \cup {c} /\ Upto(S, b) \cap M = {}
      /\ c \notin Upto(S, b) \cup M
  BY <1>1 DEF Upto
<1> HIDE DEF M
<1>5. /\ IsFiniteSet(Upto(S, b) \cup M)
      /\ Cardinality(Upto(S, b) \cup M) = Cardinality(Upto(S, b)) + Cardinality(M)
  <2>1. Cardinality({}) = 0
    BY FS_EmptySet
  <2>2. Cardinality(Upto(S, b) \cup M) = Cardinality(Upto(S, b)) + Cardinality(M) - Cardinality({})
    BY <1>2, <1>3, <1>4, FS_Union
  <2>3. IsFiniteSet(Upto(S, b) \cup M)
    BY <1>2, <1>3, FS_Union
  <2> QED
    BY <1>3, <2>1, <2>2, <2>3
<1>6. Cardinality(Upto(S, c)) = Cardinality(Upto(S, b) \cup M) + 1
  BY <1>4, <1>5, FS_AddElement
<1> QED
  BY <1>3, <1>5, <1>6 DEF PlaceOf, M

\* What a chart shows of the buckets S.
ShowsEnds(S, shown) ==
    /\ shown \subseteq S /\ Cardinality(shown) <= MaxPoints /\ Max(S) \in shown
    /\ MaxPoints > 1 =>
          /\ Min(S) \in shown
          /\ \A b, c \in shown : (b < c /\ \A d \in shown : d <= b \/ d >= c) =>
                (Cardinality({d \in S : b < d /\ d < c}) + 1) * (MaxPoints - 1)
                    <= Cardinality(S) - 1 + MaxPoints - 2

\* _sample_real_buckets
LEMMA SampledShowEnds ==
    ASSUME NEW S \in SUBSET AllBuckets, S # {}
    PROVE  ShowsEnds(S, SampledBuckets(S, MaxPoints))
<1> DEFINE n == Cardinality(S)
           ids == [i \in 1..n |-> CHOOSE b \in S : Cardinality({c \in S : c <= b}) = i]
           shown == SampledBuckets(S, MaxPoints)
           at(i) == HalfEven(i * (n - 1), MaxPoints - 1)
<1>1. /\ \A b \in S : PlaceOf(S, b) \in 1..n
      /\ \A b, c \in S : b < c => PlaceOf(S, b) < PlaceOf(S, c)
      /\ \A b, c \in S : PlaceOf(S, b) = PlaceOf(S, c) => b = c
      /\ \A i \in 1..n : \E b \in S : PlaceOf(S, b) = i
      /\ n \in Nat /\ IsFiniteSet(S)
  BY Places
<1>2. \A b \in S : b \in Nat
  BY HistoryAssumption DEF AllBuckets
<1>3. MaxPoints \in Nat \ {0}
  BY HistoryAssumption
<1>4. n >= 1
  BY <1>1, FS_EmptySet
<1>5. \A i \in 1..n : ids[i] = CHOOSE b \in S : PlaceOf(S, b) = i
  BY DEF PlaceOf, Upto
<1>6. DOMAIN ids = 1..n /\ Len(ids) = n
  <2>1. DOMAIN ids = 1..n /\ ids = [i \in 1..n |-> ids[i]]
    OBVIOUS
  <2> HIDE DEF ids
  <2>2. \A i \in 1..n : ids[i] \in S
    BY <1>1, <1>5
  <2>3. ids \in [1..n -> S]
    BY <2>1, <2>2
  <2>4. ids \in Seq(S)
    BY <1>1, <2>3
  <2> QED
    BY <1>1, <2>1, <2>4
<1>7. shown = IF Len(ids) <= MaxPoints THEN S
              ELSE IF MaxPoints <= 1 THEN {ids[Len(ids)]}
              ELSE {ids[HalfEven(i * (Len(ids) - 1), MaxPoints - 1) + 1] : i \in 0..(MaxPoints - 1)}
  BY DEF SampledBuckets
<1>8. shown = IF n <= MaxPoints THEN S
              ELSE IF MaxPoints <= 1 THEN {ids[n]}
              ELSE {ids[at(i) + 1] : i \in 0..(MaxPoints - 1)}
  BY <1>6, <1>7
<1> HIDE DEF ids, shown
<1>9. \A i \in 1..n : ids[i] \in S /\ PlaceOf(S, ids[i]) = i
  BY <1>1, <1>5
<1> HIDE DEF n
<1>10. ids[n] = Max(S) /\ ids[1] = Min(S)
  <2>1. n \in 1..n /\ 1 \in 1..n
    BY <1>1, <1>4
  <2>2. Max(S) \in S /\ \A x \in S : x <= Max(S)
    BY MostIs
  <2>3. Min(S) \in S /\ \A x \in S : Min(S) <= x
    <3>1. S \in SUBSET Nat
      BY <1>2
    <3> QED
      BY <3>1, LeastIs
  <2>4. ids[n] \in S /\ PlaceOf(S, ids[n]) = n /\ ids[1] \in S /\ PlaceOf(S, ids[1]) = 1
    BY <1>9, <2>1
  <2>5. /\ Max(S) \in Nat /\ Min(S) \in Nat /\ ids[n] \in Nat /\ ids[1] \in Nat
        /\ PlaceOf(S, Max(S)) \in 1..n /\ PlaceOf(S, Min(S)) \in 1..n
    BY <1>1, <1>2, <2>2, <2>3, <2>4
  <2>6. ~(ids[n] < Max(S)) /\ ids[n] <= Max(S)
    <3>1. ids[n] < Max(S) => n < PlaceOf(S, Max(S))
      BY <1>1, <2>2, <2>4
    <3> QED
      BY <1>1, <2>2, <2>4, <2>5, <3>1
  <2>7. ~(Min(S) < ids[1]) /\ Min(S) <= ids[1]
    <3>1. Min(S) < ids[1] => PlaceOf(S, Min(S)) < 1
      BY <1>1, <2>3, <2>4
    <3> QED
      BY <1>1, <2>3, <2>4, <2>5, <3>1
  <2> QED
    BY <2>5, <2>6, <2>7
<1>11. CASE n <= MaxPoints
  <2>1. shown = S
    BY <1>8, <1>11
  <2>2. Max(S) \in S /\ Min(S) \in S
    BY <1>1, <1>4, <1>9, <1>10
  <2>3. ASSUME NEW b \in S, NEW c \in S, b < c, \A d \in S : d <= b \/ d >= c
        PROVE  (Cardinality({d \in S : b < d /\ d < c}) + 1) * (MaxPoints - 1) <= n - 1 + MaxPoints - 2
    <3>1. {d \in S : b < d /\ d < c} = {}
      BY <1>2, <2>3
    <3>2. Cardinality({d \in S : b < d /\ d < c}) = 0
      BY <3>1, FS_EmptySet
    <3>3. /\ PlaceOf(S, b) \in 1..n /\ PlaceOf(S, c) \in 1..n /\ PlaceOf(S, b) < PlaceOf(S, c)
      BY <1>1, <2>3
    <3>4. n >= 2
      BY <1>1, <3>3
    <3> QED
      BY <1>1, <1>3, <3>2, <3>4
  <2> QED
    BY <1>11, <2>1, <2>2, <2>3 DEF ShowsEnds, n, shown
<1>12. CASE ~(n <= MaxPoints) /\ MaxPoints <= 1
  <2>1. shown = {Max(S)} /\ Max(S) \in S
    BY <1>1, <1>4, <1>8, <1>9, <1>10, <1>12
  <2>2. Cardinality(shown) = 1
    BY <2>1, FS_Singleton
  <2> QED
    BY <1>3, <1>12, <2>1, <2>2 DEF ShowsEnds, shown
<1>13. CASE ~(n <= MaxPoints) /\ ~(MaxPoints <= 1)
  <2> DEFINE m == MaxPoints - 1
             l == n - 1
  <2>1. m \in Nat \ {0} /\ l \in Nat /\ n = l + 1 /\ MaxPoints = m + 1
    BY <1>1, <1>3, <1>4, <1>13
  <2>2. shown = {ids[at(i) + 1] : i \in 0..m}
    BY <1>8, <1>13
  <2>3. \A i : at(i) = HalfEven(i * l, m)
    OBVIOUS
  <2> HIDE DEF at, l, m
  <2>4. /\ \A i \in 0..m : at(i) \in 0..l
        /\ at(0) = 0 /\ at(m) = l
        /\ \A i \in 0..(m - 1) : (at(i + 1) - at(i)) * m <= l + m - 1
    BY <2>1, <2>3, PointsSpread
  <2>5. \A i \in 0..m : at(i) + 1 \in 1..n /\ ids[at(i) + 1] \in S /\ PlaceOf(S, ids[at(i) + 1]) = at(i) + 1
    BY <1>9, <2>1, <2>4
  <2>6. shown \subseteq S
    BY <2>2, <2>5
  <2>7. Max(S) \in shown /\ Min(S) \in shown
    <3>1. 0 \in 0..m /\ m \in 0..m
      BY <2>1
    <3>2. ids[at(m) + 1] \in shown /\ ids[at(0) + 1] \in shown
      BY <2>2, <3>1
    <3> QED
      BY <1>10, <2>1, <2>4, <3>2
  <2>8. Cardinality(shown) <= MaxPoints
    <3> DEFINE f == [i \in 0..m |-> ids[at(i) + 1]]
    <3>1. f \in [0..m -> shown] /\ \A t \in shown : \E i \in 0..m : f[i] = t
      BY <2>2
    <3> HIDE DEF f
    <3>2. f \in Surjection(0..m, shown)
      BY <3>1 DEF Surjection
    <3>3. IsFiniteSet(0..m) /\ Cardinality(0..m) = m + 1
      BY <2>1, FS_Interval
    <3> QED
      BY <2>1, <3>2, <3>3, FS_Surjection
  <2>9. ASSUME NEW b \in shown, NEW c \in shown, b < c, \A d \in shown : d <= b \/ d >= c
        PROVE  (Cardinality({d \in S : b < d /\ d < c}) + 1) * m <= l + m - 1
    <3>1. b \in S /\ c \in S
      BY <2>6
    <3> DEFINE gap == Cardinality({d \in S : b < d /\ d < c})
               K == {k \in 0..m : at(k) + 1 > PlaceOf(S, b)}
    <3>2. PlaceOf(S, c) = PlaceOf(S, b) + gap + 1 /\ gap \in Nat
      BY <2>9, <3>1, Between
    <3>3. PICK i \in 0..m : b = ids[at(i) + 1]
      BY <2>2
    <3>4. PICK j \in 0..m : c = ids[at(j) + 1]
      BY <2>2
    <3>5. PlaceOf(S, b) = at(i) + 1 /\ PlaceOf(S, c) = at(j) + 1 /\ at(i) \in Nat /\ at(j) \in Nat
      BY <2>4, <2>5, <3>3, <3>4
    <3> HIDE DEF gap
    <3>6. j \in K
      BY <3>2, <3>5
    <3>7. K \in SUBSET Nat /\ K # {}
      BY <3>6
    <3>8. Min(K) \in K /\ \A y \in K : Min(K) <= y
      <4> HIDE DEF K
      <4> QED
        BY <3>7, LeastIs
    <3> DEFINE k == Min(K)
    <3>9. k \in 0..m /\ at(k) + 1 > PlaceOf(S, b) /\ \A y \in 0..m : at(y) + 1 > PlaceOf(S, b) => k <= y
      BY <3>8
    <3> HIDE DEF k, K
    <3>10. k # 0
      BY <2>4, <3>5, <3>9
    <3>11. k - 1 \in 0..(m - 1) /\ k - 1 \in 0..m /\ (k - 1) + 1 = k
      BY <2>1, <3>9, <3>10
    <3>12. ~(at(k - 1) + 1 > PlaceOf(S, b))
      BY <3>9, <3>11
    <3>13. at(k) >= at(j)
      <4>1. ids[at(k) + 1] \in shown /\ ids[at(k) + 1] \in S /\ PlaceOf(S, ids[at(k) + 1]) = at(k) + 1
        BY <2>2, <2>5, <3>9
      <4>2. ids[at(k) + 1] \in Nat /\ b \in Nat /\ c \in Nat /\ at(k) \in Nat
        BY <1>2, <2>4, <3>1, <3>9, <4>1
      <4>3. ~(ids[at(k) + 1] <= b)
        <5>1. ids[at(k) + 1] < b => at(k) + 1 < PlaceOf(S, b)
          BY <1>1, <3>1, <4>1
        <5>2. ids[at(k) + 1] # b
          BY <3>5, <3>9, <4>1, <4>2
        <5> QED
          BY <3>5, <3>9, <4>2, <5>1, <5>2
      <4>4. ids[at(k) + 1] >= c
        BY <2>9, <4>1, <4>3
      <4>5. c < ids[at(k) + 1] => PlaceOf(S, c) < at(k) + 1
        BY <1>1, <3>1, <4>1
      <4>6. c = ids[at(k) + 1] => at(j) = at(k)
        BY <3>5, <4>1, <4>2
      <4> QED
        BY <3>5, <4>2, <4>4, <4>5, <4>6
    <3>14. (at(k) - at(k - 1)) * m <= l + m - 1
      BY <2>4, <3>11
    <3>15. at(k) \in Nat /\ at(k - 1) \in Nat
      BY <2>4, <3>9, <3>11
    <3>16. gap + 1 <= at(k) - at(k - 1)
      BY <3>2, <3>5, <3>12, <3>13, <3>15
    <3>17. (gap + 1) * m <= (at(k) - at(k - 1)) * m
      <4> DEFINE u == gap + 1
                 v == at(k) - at(k - 1)
      <4>1. u \in Int /\ v \in Int /\ u <= v
        BY <3>2, <3>15, <3>16
      <4> HIDE DEF u, v
      <4>2. u * m <= v * m
        BY <2>1, <4>1, Z3
      <4> QED
        BY <4>2 DEF u, v
    <3>18. (gap + 1) * m \in Int /\ (at(k) - at(k - 1)) * m \in Int /\ l + m - 1 \in Int
      BY <2>1, <3>2, <3>15
    <3> QED
      BY <3>14, <3>17, <3>18 DEF gap
  <2>10. m = MaxPoints - 1 /\ l + m - 1 = n - 1 + MaxPoints - 2
    BY <2>1
  <2> QED
    BY <1>13, <2>6, <2>7, <2>8, <2>9, <2>10 DEF ShowsEnds, n, shown
<1> QED
  BY <1>11, <1>12, <1>13 DEF shown

LEMMA ChartsShowEnds ==
    ASSUME HistoryShapes
    PROVE  ChartShowsEnds
<1> SUFFICES ASSUME NEW start \in AllBuckets, Retained(start) # {}
             PROVE  ShowsEnds(Retained(start), SampledBuckets(Retained(start), MaxPoints))
  BY DEF ChartShowsEnds, ShowsEnds
<1>1. Retained(start) \in SUBSET AllBuckets
  <2>1. DOMAIN index \subseteq AllBuckets /\ \A t \in FirstTables : metric[t] \subseteq AllBuckets
    BY HistoryAssumption DEF HistoryShapes
  <2> QED
    BY <2>1 DEF Retained
<1> QED
  BY <1>1, SampledShowEnds

-----------------------------------------------------------------------------
\* run_retention, delete_history_older_than and _sample_real_buckets: whatever is
\* pushed, late or on time, and whatever dies half way, usage is billed once, each
\* hour of the hourly period has one real bucket, no bucket of the raw period is
\* thinned out, and charts show both ends of what is retained.
THEOREM HoursStayReal ==
    HistorySpec => [](BilledOnce /\ HourlyOneReal /\ RawUntouched /\ ChartShowsEnds)
<1>1. HistoryInit => HistoryInv /\ HoursInv
  BY HistoryStart, HoursStart
<1>2. HistoryInv /\ HoursInv /\ [HistoryNext]_historyVars => HistoryInv' /\ HoursInv'
  BY HistoryStep, HoursStep
<1>3. HistoryInv /\ HoursInv => BilledOnce /\ HourlyOneReal /\ RawUntouched /\ ChartShowsEnds
  BY ChartsShowEnds DEF HistoryInv, HoursInv
<1> QED
  BY <1>1, <1>2, <1>3, PTL DEF HistorySpec

-----------------------------------------------------------------------------
(* The listings.                                                           *)

NodeShapes == [inv : Inventory, grp : GroupIds \cup {"none"}, age : Ages]
VmShapes == [inv : Inventory, age : Ages, abuse : 0..2]

\* A VM that is deleted has not been seen for long: rows that are current are not.
ListShapes ==
    /\ lnode \in [LNodes -> NodeShapes]
    /\ lvm \in [LPairs -> VmShapes]
    /\ \A p \in LPairs : lvm[p].inv = "deleted" => lvm[p].age >= 5
    /\ lactive \in [LCustom -> BOOLEAN]

\* What is left to read of a page.
Rests(page) ==
    CASE page \in {"nodes", "topnodes", "health", "consume"} ->
            {<<"rows", "group", "allow">>, <<"group", "allow">>, <<"allow">>}
      [] page \in {"top", "topold"} -> {<<"group", "rows">>, <<"rows">>}
      [] page \in {"disks", "cards", "abuse"} -> {<<"rows">>}
      [] page \in {"detail", "node"} -> {<<"gate", "rows">>, <<"rows">>}
      [] page = "vm" -> {<<"gate", "locate", "moved">>, <<"locate", "moved">>, <<"moved">>}
      [] page = "search" -> {<<"rows", "gate">>, <<"gate">>}
      [] page \in {"apinode", "apivm"} -> {<<"rows", "allow">>, <<"allow">>}

PageNames == DOMAIN Reads
AskFields == {"page", "asked", "entry", "group", "todo", "rows", "may", "must", "scope"}
AskShape ==
    /\ lask = [f \in AskFields |-> lask[f]]
    /\ lask.page \in PageNames /\ lask.asked \in AskedGroups(lask.page)
    /\ lask.entry \in AskedEntries(lask.page) /\ lask.todo \in Rests(lask.page)

\* What was visible and had to be shown now is known to the request.
Watched ==
    /\ MayShow(lask.page, lask.entry) \subseteq lask.may
    /\ lask.must \subseteq MustShow(lask.page, lask.asked, lask.entry)
    /\ Scope(lask.page, lask.asked) \subseteq lask.scope

\* What the group of a request, once read, says of the nodes: it was asked for and
\* what must be shown has been in it since, or it was not active and any node will do.
GroupTold ==
    \/ lask.group = "all" /\ (lask.asked = "all" \/ LNodes \subseteq lask.scope)
    \/ /\ lask.group = lask.asked /\ lask.asked \in GroupIds
       /\ \A x \in lask.must : lnode[x[1]].grp = lask.asked

\* The rows of the Consumption page, each with the group it had when it was read.
Grouped ==
    /\ \A r \in lask.rows : /\ r[1] \in LNodes /\ <<r[1], "node">> \in lask.may
                            /\ r[2] = lask.asked => r[1] \in lask.scope
    /\ \A x \in lask.must : \E r \in lask.rows :
          /\ x = <<r[1], "node">>
          /\ \/ lask.asked \in {"all", r[2]} \/ lask.asked \notin active_groups
             \/ lask.todo = <<"allow">> /\ lask.group = "all"

\* What the reads so far have found.
Found ==
    /\ lask.page \in {"nodes", "topnodes", "health"} /\ lask.todo # <<"rows", "group", "allow">>
        => lask.must \subseteq lask.rows
    /\ lask.page = "consume" /\ lask.todo # <<"rows", "group", "allow">> => Grouped
    /\ lask.todo = <<"allow">> /\ lask.page \notin {"apinode", "apivm"} => GroupTold
    /\ lask.todo = <<"allow">> /\ lask.page = "consume" /\ lask.group # "all" =>
        \A x \in lask.must : \E r \in lask.rows : x = <<r[1], "node">> /\ r[2] = lask.group
    /\ lask.page \in {"top", "topold"} /\ lask.todo = <<"rows">> => GroupTold
    /\ lask.page \in {"disks", "cards", "abuse", "detail"} => lask.group = lask.asked
    /\ lask.page = "detail" /\ lask.todo = <<"rows">> => group_nodes(lask.asked) \subseteq lask.scope
    /\ lask.page = "node" /\ lask.todo = <<"rows">> => lask.entry \in lask.may
    /\ lask.page = "vm" /\ lask.todo # <<"gate", "locate", "moved">> => lask.entry \in lask.may
    /\ lask.page = "vm" /\ lask.todo = <<"moved">> =>
        \E place \in LPairs : lask.rows = {place} /\ (lask.must # {} => place = lask.entry)
    /\ lask.page = "search" /\ lask.todo = <<"gate">> => lask.rows \subseteq LPairs
    /\ lask.page \in {"apinode", "apivm"} /\ lask.todo = <<"allow">> =>
        lask.must \subseteq lask.rows /\ lask.rows \subseteq AllRows

ListInv ==
    /\ ListShapes
    /\ lask # NoAsk => lgot = NoAsk /\ AskShape /\ Watched /\ Found
    /\ PagesTell

-----------------------------------------------------------------------------

LEMMA NodeRowIs ==
    ASSUME NEW S, NEW x \in NodeRows(S)
    PROVE  x[1] \in S /\ x = <<x[1], "node">>
  BY DEF NodeRows

LEMMA InNodeRows ==
    ASSUME NEW S, NEW n \in S
    PROVE  <<n, "node">> \in NodeRows(S)
  BY DEF NodeRows

LEMMA RowIs ==
    ASSUME NEW x \in AllRows
    PROVE  x[1] \in LNodes /\ (x \notin LPairs => x = <<x[1], "node">>)
<1>1. CASE x \in LPairs
  BY <1>1, ListingsConstants
<1>2. CASE x \in NodeRows(LNodes)
  BY <1>2, NodeRowIs
<1> QED
  BY <1>1, <1>2 DEF AllRows

LEMMA NodeRowIn ==
    ASSUME NEW n \in LNodes
    PROVE  <<n, "node">> \in AllRows /\ <<n, "node">> \notin LPairs /\ <<n, "node">>[1] = n
<1>1. <<n, "node">>[2] = "node"
  OBVIOUS
<1>2. <<n, "node">> \notin LPairs
  BY <1>1, ListingsConstants
<1> QED
  BY <1>2, InNodeRows DEF AllRows

LEMMA PairIn ==
    ASSUME NEW p \in LPairs
    PROVE  p \in AllRows /\ p[1] \in LNodes
  BY ListingsConstants DEF AllRows

LEMMA GroupNames == /\ "all" \notin GroupIds /\ "unknown" \notin GroupIds /\ "none" \notin GroupIds
                    /\ Ungrouped \in GroupIds /\ ~ActiveGroup("none") /\ ActiveGroup(Ungrouped)
                    /\ active_groups \subseteq GroupIds
                    /\ \A g \in GroupIds : ActiveGroup(g) <=> g \in active_groups
                    /\ \A g : ActiveGroup(g) => g \in active_groups \/ g \notin GroupIds
  BY ListingsConstants DEF GroupIds, Ungrouped, ActiveGroup, active_groups

LEMMA AskedAre ==
    ASSUME NEW page \in PageNames, NEW g \in AskedGroups(page)
    PROVE  /\ g \in GroupIds \cup {"all", "unknown"}
           /\ page \in {"node", "vm", "search", "apinode", "apivm"} => g = "all"
           /\ page = "detail" => g \in GroupIds
  BY DEF AskedGroups, PageNames, Reads

\* What may be shown.
LEMMA NodeMay ==
    ASSUME NEW page \in PageNames, page \notin {"apinode", "apivm"}, NEW e, NEW n \in LNodes,
           Unconcealed(lnode[n]), page \notin {"cards", "detail"} => ActiveGroup(lnode[n].grp)
    PROVE  <<n, "node">> \in MayShow(page, e)
<1>1. <<n, "node">> \in AllRows /\ <<n, "node">> \notin LPairs /\ <<n, "node">>[1] = n
  BY NodeRowIn
<1>2. CASE page = "detail"
  <2>1. MayShow(page, e) = NodeRows({m \in LNodes : Unconcealed(lnode[m])})
    BY <1>2 DEF MayShow
  <2> QED
    BY <2>1, InNodeRows
<1>3. CASE page # "detail"
  <2>1. <<n, "node">> \in Shown(page)
    BY <1>1, <1>3 DEF Shown
  <2> QED
    BY <2>1, <1>3 DEF MayShow
<1> QED
  BY <1>2, <1>3

LEMMA PairMay ==
    ASSUME NEW page \in PageNames, page \notin {"apinode", "apivm", "detail"}, NEW e, NEW p \in LPairs,
           Unconcealed(lnode[p[1]]), Unconcealed(lvm[p]), ActiveGroup(lnode[p[1]].grp)
    PROVE  p \in MayShow(page, e)
<1>1. p \in Shown(page)
  BY PairIn DEF Shown
<1> QED
  BY <1>1 DEF MayShow

LEMMA ApiMay ==
    ASSUME NEW page \in {"apinode", "apivm"}, NEW e, NEW x \in AllRows, _v48126_is_visible(x)
    PROVE  x \in MayShow(page, e)
  BY DEF MayShow, Shown

\* What must be shown.
Falls(page, g) ==
    page \in {"nodes", "topnodes", "health", "top", "topold", "consume"} /\ g \notin active_groups

LEMMA MustVisible ==
    ASSUME NEW page \in PageNames, NEW g, NEW e, NEW x \in MustShow(page, g, e)
    PROVE  /\ x \in AllRows /\ x \in Shown(page) /\ x[1] \in LNodes
           /\ page \notin {"apinode", "apivm"} => lnode[x[1]].inv = "active"
           /\ page \notin {"apinode", "apivm", "cards"} => ActiveGroup(lnode[x[1]].grp)
           /\ page \notin {"apinode", "apivm"} /\ x \in LPairs => Unconcealed(lvm[x])
           /\ page \in {"apinode", "apivm"} => _v48126_is_visible(x)
           /\ g = "all" \/ Falls(page, g) \/ lnode[x[1]].grp = g
<1>1. /\ x \in Shown(page)
      /\ page \notin {"apinode", "apivm"} => lnode[x[1]].inv = "active"
      /\ g = "all" \/ Falls(page, g) \/ lnode[x[1]].grp = g
  BY DEF MustShow, Falls
<1>2. x \in AllRows
  BY <1>1 DEF Shown
<1> QED
  BY <1>1, <1>2, RowIs DEF Shown

LEMMA MustOf ==
    ASSUME NEW page \in PageNames, NEW g, NEW e, NEW x \in MustShow(page, g, e)
    PROVE  /\ page \in {"nodes", "topnodes", "cards"} => x \in NodeRows(CurrentNodes)
           /\ page = "health" => x \in NodeRows({n \in LNodes : lnode[n].age < 4})
           /\ page \in {"consume", "detail"} => x \in NodeRows(LNodes)
           /\ page = "node" => x = e \/ (x \in CurrentVms /\ x[1] = e[1])
           /\ page = "vm" => x = e /\ get_vm_current_location(e[2]) \subseteq {e}
           /\ page = "abuse" => x \in CurrentVms /\ lvm[x].abuse > 0
           /\ page \in {"top", "disks", "apivm"} => x \in CurrentVms
           /\ page = "apinode" => x \in NodeRows({n \in LNodes : lnode[n].age # Never})
           /\ page \notin {"topold", "search"}
  BY DEF MustShow, PageNames, Reads

LEMMA NodesMust ==
    ASSUME NEW page \in {"nodes", "topnodes", "health", "cards", "consume", "detail", "apinode"}, NEW g, NEW e,
           NEW x \in MustShow(page, g, e)
    PROVE  x = <<x[1], "node">>
<1>1. page \in PageNames
  BY DEF PageNames, Reads
<1>2. CASE page \in {"nodes", "topnodes", "cards"}
  BY <1>1, <1>2, MustOf, NodeRowIs
<1>3. CASE page = "health"
  <2>1. x \in NodeRows({n \in LNodes : lnode[n].age < 4})
    BY <1>1, <1>3, MustOf
  <2> QED
    BY <2>1, NodeRowIs
<1>4. CASE page \in {"consume", "detail"}
  BY <1>1, <1>4, MustOf, NodeRowIs
<1>5. CASE page = "apinode"
  <2>1. x \in NodeRows({n \in LNodes : lnode[n].age # Never})
    BY <1>1, <1>5, MustOf
  <2> QED
    BY <2>1, NodeRowIs
<1> QED
  BY <1>2, <1>3, <1>4, <1>5

\* What a change of the tables does to groups: the state of one or the places of nodes,
\* and a node only comes into a group that is active.
Regroups ==
    /\ lactive' = lactive \/ lnode' = lnode
    /\ \A n \in LNodes : \A g \in GroupIds :
          lnode'[n].grp = g => lnode[n].grp = g \/ ActiveGroup(g)'

LEMMA ObservedKeeps == ASSUME ListInv, Observed, ListShapes', Regroups PROVE ListInv'
<1>1. lgot = NoAsk /\ lgot' = NoAsk
  BY DEF Observed
<1>2. PagesTell'
  BY <1>1 DEF PagesTell
<1>3. CASE lask = NoAsk
  <2>1. lask' = NoAsk
    BY <1>3 DEF Observed
  <2> QED
    BY <1>2, <2>1 DEF ListInv
<1>4. CASE lask # NoAsk
  <2>1. AskShape /\ Watched /\ Found
    BY <1>4 DEF ListInv
  <2>2. PICK a : /\ a = lask
                 /\ lask' = [a EXCEPT !.may = @ \cup MayShow(a.page, a.entry)',
                                      !.must = @ \cap MustShow(a.page, a.asked, a.entry)',
                                      !.scope = @ \cup Scope(a.page, a.asked)']
    BY <1>4 DEF Observed
  <2> DEFINE page == a.page
             named == a.asked
             entry == a.entry
             mayNow == MayShow(page, entry)'
             mustNow == MustShow(page, named, entry)'
             scopeNow == Scope(page, named)'
  <2>3. /\ lask' = [f \in AskFields |-> lask'[f]]
        /\ lask'.page = page /\ lask'.asked = named /\ lask'.entry = entry
        /\ lask'.group = a.group /\ lask'.todo = a.todo /\ lask'.rows = a.rows
        /\ lask'.may = a.may \cup mayNow
        /\ lask'.must = a.must \cap mustNow
        /\ lask'.scope = a.scope \cup scopeNow
    <3> HIDE DEF mayNow, mustNow, scopeNow
    <3>1. lask' = [a EXCEPT !.may = a.may \cup mayNow, !.must = a.must \cap mustNow,
                            !.scope = a.scope \cup scopeNow]
      BY <2>2 DEF mayNow, mustNow, scopeNow
    <3>2. a = [f \in AskFields |-> a[f]]
      BY <2>1, <2>2 DEF AskShape
    <3> QED
      BY <3>1, <3>2 DEF AskFields
  <2>4. page \in PageNames /\ named \in AskedGroups(page)
    BY <2>1, <2>2 DEF AskShape
  <2>5. AskShape'
    BY <2>1, <2>2, <2>3, ZenonT(150) DEF AskShape, PageNames, Reads, AskedGroups, AskedEntries, Rests, GroupIds
  <2>6. Watched'
    BY <2>3 DEF Watched
  <2>7. a.must \subseteq MustShow(page, named, entry) /\ a.must \subseteq AllRows
    BY <2>1, <2>2, <2>4, MustVisible DEF Watched
  <2>8. \A x \in lask'.must :
           /\ x \in a.must /\ x[1] \in LNodes
           /\ page \notin {"apinode", "apivm", "cards"} => ActiveGroup(lnode[x[1]].grp)'
           /\ named = "all" \/ named \notin active_groups' \/ lnode'[x[1]].grp = named
              \/ page \notin {"nodes", "topnodes", "health", "top", "topold", "consume"}
    <3> SUFFICES ASSUME NEW x \in lask'.must
                 PROVE  /\ x \in a.must /\ x[1] \in LNodes
                        /\ page \notin {"apinode", "apivm", "cards"} => ActiveGroup(lnode[x[1]].grp)'
                        /\ named = "all" \/ named \notin active_groups' \/ lnode'[x[1]].grp = named
                           \/ page \notin {"nodes", "topnodes", "health", "top", "topold", "consume"}
      OBVIOUS
    <3>1. x \in a.must /\ x \in mustNow /\ x[1] \in LNodes
      BY <2>3, <2>7, RowIs
    <3>2. named = "all" \/ named \notin active_groups' \/ lnode'[x[1]].grp = named
              \/ page \notin {"nodes", "topnodes", "health", "top", "topold", "consume"}
      BY <3>1 DEF MustShow
    <3>3. page \notin {"apinode", "apivm", "cards"} => ActiveGroup(lnode[x[1]].grp)'
      BY <3>1 DEF MustShow, Shown
    <3> QED
      BY <3>1, <3>2, <3>3
  <2>9. page \notin {"apinode", "apivm", "cards"} =>
            \A x \in a.must : ActiveGroup(lnode[x[1]].grp)
    BY <2>4, <2>7, MustVisible
  <2>10. a.may \subseteq lask'.may /\ a.scope \subseteq lask'.scope /\ lask'.must \subseteq a.must
    BY <2>3
  <2>11. GroupTold /\ page \in {"nodes", "topnodes", "health", "top", "topold", "consume"} => GroupTold'
    <3> SUFFICES ASSUME a.group = named, named \in GroupIds, \A x \in a.must : lnode[x[1]].grp = named,
                        page \in {"nodes", "topnodes", "health", "top", "topold", "consume"},
                        NEW x \in lask'.must
                 PROVE  lnode'[x[1]].grp = named
      BY <2>2, <2>3, <2>10 DEF GroupTold, GroupIds
    <3>1. x \in a.must /\ ActiveGroup(named) /\ named # "all"
      BY <2>8, <2>9, GroupNames
    <3>2. CASE named \in active_groups'
      BY <3>1, <3>2, <2>8
    <3>3. CASE named \notin active_groups'
      <4>1. lactive' # lactive
        BY <3>1, <3>3 DEF active_groups, ActiveGroup, GroupIds
      <4> QED
        BY <4>1, <3>1 DEF Regroups
    <3> QED
      BY <3>2, <3>3
  <2>12. page = "consume" /\ Grouped => Grouped'
    <3> SUFFICES ASSUME page = "consume", Grouped PROVE Grouped'
      OBVIOUS
    <3>1. \A r \in a.rows : /\ r[1] \in LNodes /\ <<r[1], "node">> \in lask'.may
                            /\ r[2] = named => r[1] \in lask'.scope
      BY <2>2, <2>10 DEF Grouped
    <3>2. ASSUME NEW x \in lask'.must
          PROVE  \E r \in a.rows :
                    /\ x = <<r[1], "node">>
                    /\ \/ named \in {"all", r[2]} \/ named \notin active_groups'
                       \/ a.todo = <<"allow">> /\ a.group = "all"
      <4>1. PICK r \in a.rows :
                    /\ x = <<r[1], "node">>
                    /\ \/ named \in {"all", r[2]} \/ named \notin active_groups
                       \/ a.todo = <<"allow">> /\ a.group = "all"
        BY <2>2, <2>10 DEF Grouped
      <4>2. CASE named \in {"all", r[2]} \/ (a.todo = <<"allow">> /\ a.group = "all")
        BY <4>1, <4>2
      <4>3. CASE named \notin active_groups /\ named # "all"
        <5> SUFFICES ASSUME named \in active_groups' PROVE FALSE
          BY <4>1
        <5>1. lactive' # lactive
          BY <4>3 DEF active_groups, ActiveGroup, GroupIds
        <5>2. lnode[x[1]].grp = named
          BY <5>1, <4>3, <2>8 DEF Regroups
        <5>3. ActiveGroup(named)
          BY <5>2, <2>9, <2>10
        <5>4. named \in GroupIds
          BY <2>4, AskedAre, <4>3 DEF active_groups, GroupIds
        <5> QED
          BY <5>3, <5>4, <4>3, GroupNames
      <4> QED
        BY <4>1, <4>2, <4>3
    <3> QED
      BY <2>3, <3>1, <3>2 DEF Grouped
  <2>13. page = "detail" /\ group_nodes(named) \subseteq a.scope => group_nodes(named)' \subseteq lask'.scope
    <3> SUFFICES ASSUME page = "detail", group_nodes(named) \subseteq a.scope,
                        NEW n \in LNodes, lnode'[n].grp = named
                 PROVE  n \in lask'.scope
      BY DEF group_nodes
    <3>1. named \in GroupIds
      BY <2>4, AskedAre
    <3>2. CASE lnode[n].grp = named
      BY <3>2, <2>10 DEF group_nodes
    <3>3. CASE ActiveGroup(named)'
      <4>1. named \in active_groups'
        BY <3>1, <3>3 DEF active_groups, GroupIds
      <4>2. n \in scopeNow
        BY <4>1 DEF Scope
      <4> QED
        BY <4>2, <2>3
    <3> QED
      BY <3>1, <3>2, <3>3 DEF Regroups
  <2>14. Found'
    <3>1. /\ page \in {"nodes", "topnodes", "health"} /\ a.todo # <<"rows", "group", "allow">>
             => lask'.must \subseteq a.rows
          /\ page \in {"apinode", "apivm"} /\ a.todo = <<"allow">> =>
             lask'.must \subseteq a.rows /\ a.rows \subseteq AllRows
      BY <2>1, <2>2, <2>10 DEF Found
    <3>2. page = "consume" /\ a.todo # <<"rows", "group", "allow">> => Grouped'
      BY <2>1, <2>2, <2>12 DEF Found
    <3>3. a.todo = <<"allow">> /\ page \notin {"apinode", "apivm"} => GroupTold'
      <4> SUFFICES ASSUME a.todo = <<"allow">>, page \notin {"apinode", "apivm"} PROVE GroupTold'
        OBVIOUS
      <4>1. GroupTold
        BY <2>1, <2>2 DEF Found
      <4>2. page \in {"nodes", "topnodes", "health", "consume"}
        BY <2>1, <2>2, <2>4 DEF AskShape, Rests, PageNames, Reads
      <4> QED
        BY <4>1, <4>2, <2>11
    <3>4. a.todo = <<"allow">> /\ page = "consume" /\ a.group # "all" =>
            \A x \in lask'.must : \E r \in a.rows : x = <<r[1], "node">> /\ r[2] = a.group
      BY <2>1, <2>2, <2>10 DEF Found
    <3>5. page \in {"top", "topold"} /\ a.todo = <<"rows">> => GroupTold'
      BY <2>1, <2>2, <2>11 DEF Found
    <3>6. /\ page \in {"disks", "cards", "abuse", "detail"} => a.group = named
          /\ page = "detail" /\ a.todo = <<"rows">> => group_nodes(named)' \subseteq lask'.scope
      BY <2>1, <2>2, <2>13 DEF Found
    <3>7. /\ page = "node" /\ a.todo = <<"rows">> => entry \in lask'.may
          /\ page = "vm" /\ a.todo # <<"gate", "locate", "moved">> => entry \in lask'.may
          /\ page = "search" /\ a.todo = <<"gate">> => a.rows \subseteq LPairs
      BY <2>1, <2>2, <2>10 DEF Found
    <3>8. page = "vm" /\ a.todo = <<"moved">> =>
            \E place \in LPairs : a.rows = {place} /\ (lask'.must # {} => place = entry)
      BY <2>1, <2>2, <2>10 DEF Found
    <3>9. group_nodes(lask.asked)' = group_nodes(named)'
      BY <2>3 DEF group_nodes
    <3> QED
      BY <2>3, <3>1, <3>2, <3>3, <3>4, <3>5, <3>6, <3>7, <3>8, <3>9 DEF Found
  <2> QED
    BY <1>1, <1>2, <2>5, <2>6, <2>14 DEF ListInv
<1> QED
  BY <1>3, <1>4

\* Every change: what it writes has the shapes.
LEMMA EditsKeep ==
    ASSUME ListInv, Observed,
           lnode' \in [LNodes -> NodeShapes], lvm' \in [LPairs -> VmShapes],
           \A p \in LPairs : lvm'[p].inv = "deleted" => lvm'[p].age >= 5,
           lactive' \in [LCustom -> BOOLEAN], lactive' = lactive \/ lnode' = lnode,
           \A n \in LNodes : \/ lnode'[n].grp \in {lnode[n].grp, "none", Ungrouped}
                             \/ ActiveGroup(lnode'[n].grp) /\ lactive' = lactive
    PROVE  ListInv'
<1>1. ListShapes'
  BY DEF ListShapes, NodeShapes, VmShapes, Inventory, Ages, GroupIds
<1>2. Regroups
  <2> SUFFICES ASSUME NEW n \in LNodes, NEW g \in GroupIds, lnode'[n].grp = g, lnode[n].grp # g
               PROVE  ActiveGroup(g)'
    BY DEF Regroups
  <2>1. CASE lnode'[n].grp \in {"none", Ungrouped}
    BY <2>1, GroupNames DEF ActiveGroup, Ungrouped
  <2>2. CASE ActiveGroup(lnode'[n].grp) /\ lactive' = lactive
    BY <2>2 DEF ActiveGroup
  <2> QED
    BY <2>1, <2>2
<1> QED
  BY <1>1, <1>2, ObservedKeeps

LEMMA NodeShapeIs ==
    ASSUME ListShapes, NEW n \in LNodes
    PROVE  /\ lnode[n] \in NodeShapes /\ lnode[n].inv \in Inventory
           /\ lnode[n].grp \in GroupIds \cup {"none"} /\ lnode[n].age \in 0..6
  BY DEF ListShapes, NodeShapes, Ages

LEMMA VmShapeIs ==
    ASSUME ListShapes, NEW p \in LPairs
    PROVE  /\ lvm[p] \in VmShapes /\ lvm[p].inv \in Inventory /\ lvm[p].age \in 0..6
           /\ lvm[p].abuse \in 0..2 /\ (lvm[p].inv = "deleted" => lvm[p].age >= 5)
  BY DEF ListShapes, VmShapes, Ages

LEMMA ListPushKeeps ==
    ASSUME ListInv, NEW n \in LNodes, NEW ps \in SUBSET LPairs, NEW bad \in 0..2, ListPush(n, ps, bad)
    PROVE  ListInv'
<1> DEFINE row == [inv |-> Revived(lnode[n].inv),
                   grp |-> IF lnode[n].grp = "none" THEN Ungrouped ELSE lnode[n].grp, age |-> 0]
           seen(p) == [inv |-> Revived(lvm[p].inv), age |-> 0, abuse |-> bad]
<1>1. /\ lnode' = [lnode EXCEPT ![n] = row] /\ UNCHANGED lactive /\ Observed
      /\ lvm' = [p \in LPairs |-> IF p \in ps THEN seen(p) ELSE lvm[p]]
  BY DEF ListPush
<1>2. ListShapes
  BY DEF ListInv
<1>3. row \in NodeShapes /\ row.grp \in {lnode[n].grp, Ungrouped}
  BY <1>2, NodeShapeIs, GroupNames DEF NodeShapes, Revived, Inventory, Ages
<1>4. \A p \in LPairs : seen(p) \in VmShapes /\ seen(p).inv # "deleted"
  BY DEF VmShapes, Revived, Inventory, Ages
<1> HIDE DEF row, seen
<1>5. lnode' \in [LNodes -> NodeShapes] /\ \A m \in LNodes : lnode'[m].grp \in {lnode[m].grp, Ungrouped}
  BY <1>1, <1>2, <1>3 DEF ListShapes
<1>6. lvm' \in [LPairs -> VmShapes] /\ \A p \in LPairs : lvm'[p].inv = "deleted" => lvm'[p].age >= 5
  BY <1>1, <1>2, <1>4 DEF ListShapes
<1> QED
  BY <1>1, <1>2, <1>5, <1>6, EditsKeep DEF ListShapes

LEMMA NodesWrittenKeep ==
    ASSUME ListInv, NEW ns, NEW inv \in {"hidden", "active"}, NodesWritten(ns, inv)
    PROVE  ListInv'
<1>1. /\ lnode' = [n \in LNodes |-> IF n \in ns THEN Written(lnode[n], inv) ELSE lnode[n]]
      /\ UNCHANGED <<lvm, lactive>> /\ Observed
  BY DEF NodesWritten
<1>2. ListShapes
  BY DEF ListInv
<1>3. \A n \in LNodes : Written(lnode[n], inv) \in NodeShapes /\ Written(lnode[n], inv).grp = lnode[n].grp
  BY <1>2, NodeShapeIs DEF NodeShapes, Written, Inventory
<1>4. lnode' \in [LNodes -> NodeShapes] /\ \A m \in LNodes : lnode'[m].grp = lnode[m].grp
  BY <1>1, <1>2, <1>3 DEF ListShapes
<1> QED
  BY <1>1, <1>2, <1>4, EditsKeep DEF ListShapes

LEMMA VmsWrittenKeep ==
    ASSUME ListInv, NEW ps, NEW inv \in {"hidden", "active"}, VmsWritten(ps, inv)
    PROVE  ListInv'
<1>1. /\ lvm' = [p \in LPairs |-> IF p \in ps THEN Written(lvm[p], inv) ELSE lvm[p]]
      /\ UNCHANGED <<lnode, lactive>> /\ Observed
  BY DEF VmsWritten
<1>2. ListShapes
  BY DEF ListInv
<1>3. \A p \in LPairs : Written(lvm[p], inv) \in VmShapes /\ Written(lvm[p], inv).inv # "deleted"
  BY <1>2, VmShapeIs DEF VmShapes, Written, Inventory
<1>4. lvm' \in [LPairs -> VmShapes] /\ \A p \in LPairs : lvm'[p].inv = "deleted" => lvm'[p].age >= 5
  BY <1>1, <1>2, <1>3 DEF ListShapes
<1> QED
  BY <1>1, <1>2, <1>4, EditsKeep DEF ListShapes

LEMMA SwitchKeeps == ASSUME ListInv, NEW g \in LCustom, SwitchGroup(g) PROVE ListInv'
<1>1. lactive' = [lactive EXCEPT ![g] = ~@] /\ UNCHANGED <<lnode, lvm>> /\ Observed
  BY DEF SwitchGroup
<1>2. ListShapes
  BY DEF ListInv
<1> QED
  BY <1>1, <1>2, EditsKeep DEF ListShapes

LEMMA MoveKeeps == ASSUME ListInv, NEW n \in LNodes, NEW g \in GroupIds, MoveNode(n, g) PROVE ListInv'
<1> DEFINE row == [lnode[n] EXCEPT !.grp = g]
<1>1. /\ ActiveGroup(g) /\ lnode' = [lnode EXCEPT ![n] = row] /\ UNCHANGED <<lvm, lactive>> /\ Observed
  BY DEF MoveNode
<1>2. ListShapes
  BY DEF ListInv
<1>3. row \in NodeShapes /\ row.grp = g
  BY <1>2, NodeShapeIs DEF NodeShapes
<1> HIDE DEF row
<1>4. lnode' \in [LNodes -> NodeShapes] /\ \A m \in LNodes : lnode'[m].grp \in {lnode[m].grp, g}
  BY <1>1, <1>2, <1>3 DEF ListShapes
<1> QED
  BY <1>1, <1>2, <1>4, EditsKeep DEF ListShapes

LEMMA PurgedIs ==
    ASSUME ListShapes, NEW n
    PROVE  /\ PurgedVms(n) \in [LPairs -> VmShapes]
           /\ \A p \in LPairs : PurgedVms(n)[p].inv = "deleted" => PurgedVms(n)[p].age >= 5
<1>1. [inv |-> "none", age |-> Never, abuse |-> 0] \in VmShapes
  BY DEF VmShapes, Inventory, Ages, Never
<1> QED
  BY <1>1, VmShapeIs DEF PurgedVms

LEMMA PurgeVmsKeeps == ASSUME ListInv, NEW n \in LNodes, PurgeVms(n) PROVE ListInv'
  BY PurgedIs, EditsKeep DEF PurgeVms, ListInv, ListShapes

LEMMA PurgeNodeKeeps == ASSUME ListInv, NEW n \in LNodes, PurgeNode(n) PROVE ListInv'
<1> DEFINE row == [lnode[n] EXCEPT !.inv = "none", !.grp = "none"]
<1>1. lvm' = PurgedVms(n) /\ UNCHANGED lactive /\ Observed
  BY DEF PurgeNode
<1>2. ListShapes
  BY DEF ListInv
<1>3. lnode' = [lnode EXCEPT ![n] = row]
  BY <1>2 DEF PurgeNode, ListShapes
<1>4. row \in NodeShapes /\ row.grp = "none"
  BY <1>2, NodeShapeIs DEF NodeShapes, Inventory
<1> HIDE DEF row
<1>5. lnode' \in [LNodes -> NodeShapes] /\ \A m \in LNodes : lnode'[m].grp \in {lnode[m].grp, "none"}
  BY <1>2, <1>3, <1>4 DEF ListShapes
<1> QED
  BY <1>1, <1>2, <1>5, PurgedIs, EditsKeep DEF ListShapes

LEMMA CleanupKeeps == ASSUME ListInv, run_inventory_cleanup_batches PROVE ListInv'
<1>1. /\ lvm' = [p \in LPairs |-> Expired(lvm[p], 5)] /\ lnode' = [n \in LNodes |-> Expired(lnode[n], 4)]
      /\ UNCHANGED lactive /\ Observed
  BY DEF run_inventory_cleanup_batches
<1>2. ListShapes
  BY DEF ListInv
<1>3. \A n \in LNodes : Expired(lnode[n], 4) \in NodeShapes /\ Expired(lnode[n], 4).grp = lnode[n].grp
  BY <1>2, NodeShapeIs DEF NodeShapes, Expired, Inventory
<1>4. \A p \in LPairs : /\ Expired(lvm[p], 5) \in VmShapes
                        /\ Expired(lvm[p], 5).inv = "deleted" => Expired(lvm[p], 5).age >= 5
  BY <1>2, VmShapeIs DEF VmShapes, Expired, Inventory
<1>5. lnode' \in [LNodes -> NodeShapes] /\ \A m \in LNodes : lnode'[m].grp = lnode[m].grp
  BY <1>1, <1>3
<1>6. lvm' \in [LPairs -> VmShapes] /\ \A p \in LPairs : lvm'[p].inv = "deleted" => lvm'[p].age >= 5
  BY <1>1, <1>4
<1> QED
  BY <1>1, <1>2, <1>5, <1>6, EditsKeep DEF ListShapes

LEMMA ElapseKeeps == ASSUME ListInv, NEW k \in 1..5, Elapse(k) PROVE ListInv'
<1> DEFINE later(row) == [row EXCEPT !.age = IF @ < k THEN k ELSE @]
<1>1. /\ lvm' = [p \in LPairs |-> later(lvm[p])] /\ lnode' = [n \in LNodes |-> later(lnode[n])]
      /\ UNCHANGED lactive /\ Observed
  BY DEF Elapse
<1>2. ListShapes
  BY DEF ListInv
<1>3. \A n \in LNodes : later(lnode[n]) \in NodeShapes /\ later(lnode[n]).grp = lnode[n].grp
  BY <1>2, NodeShapeIs DEF NodeShapes, Ages
<1>4. \A p \in LPairs : /\ later(lvm[p]) \in VmShapes
                        /\ later(lvm[p]).inv = "deleted" => later(lvm[p]).age >= 5
  BY <1>2, VmShapeIs DEF VmShapes, Ages
<1> HIDE DEF later
<1>5. lnode' \in [LNodes -> NodeShapes] /\ \A m \in LNodes : lnode'[m].grp = lnode[m].grp
  BY <1>1, <1>3
<1>6. lvm' \in [LPairs -> VmShapes] /\ \A p \in LPairs : lvm'[p].inv = "deleted" => lvm'[p].age >= 5
  BY <1>1, <1>4
<1> QED
  BY <1>1, <1>2, <1>5, <1>6, EditsKeep DEF ListShapes

LEMMA AskFinds ==
    ASSUME NEW page \in PageNames
    PROVE  /\ Reads[page] \in Rests(page) /\ Reads[page] # <<>>
           /\ page \in {"nodes", "topnodes", "health", "consume"} => Reads[page] = <<"rows", "group", "allow">>
           /\ page \in {"top", "topold"} => Reads[page] = <<"group", "rows">>
           /\ page \in {"disks", "cards", "abuse"} => Reads[page] = <<"rows">>
           /\ page \in {"detail", "node"} => Reads[page] = <<"gate", "rows">>
           /\ page = "vm" => Reads[page] = <<"gate", "locate", "moved">>
           /\ page = "search" => Reads[page] = <<"rows", "gate">>
           /\ page \in {"apinode", "apivm"} => Reads[page] = <<"rows", "allow">>
  BY SMTT(40) DEF PageNames, Reads, Rests, index_page, top_node_page, node_health_page, top_page, storage_io_page,
         vm_abuse_page, bandwidth_consumption_page, node_group_nodes, node_page, vm_page, search,
         _v48126_wrap_api_visibility

\* The reads that are left tell each other apart.
LEMMA Tuples ==
    /\ <<"rows", "group", "allow">> \notin {<<"group", "allow">>, <<"allow">>}
    /\ <<"group", "allow">> # <<"allow">>
    /\ <<"group", "rows">> \notin {<<"rows">>, <<"allow">>}
    /\ <<"rows">> # <<"allow">>
    /\ <<"gate", "rows">> \notin {<<"rows">>, <<"allow">>}
    /\ <<"gate", "locate", "moved">> \notin {<<"locate", "moved">>, <<"moved">>, <<"gate">>, <<"allow">>}
    /\ <<"locate", "moved">> \notin {<<"moved">>, <<"allow">>}
    /\ <<"moved">> # <<"allow">> /\ <<"gate">> # <<"allow">>
    /\ <<"rows", "gate">> \notin {<<"gate">>, <<"allow">>, <<"moved">>}
    /\ <<"rows", "allow">> \notin {<<"allow">>, <<"moved">>, <<"gate">>}
<1>1. /\ <<"rows", "group", "allow">>[1] = "rows" /\ <<"group", "allow">>[1] = "group" /\ <<"allow">>[1] = "allow"
      /\ <<"group", "rows">>[1] = "group" /\ <<"rows">>[1] = "rows" /\ <<"gate", "rows">>[1] = "gate"
      /\ <<"gate", "locate", "moved">>[1] = "gate" /\ <<"locate", "moved">>[1] = "locate"
      /\ <<"moved">>[1] = "moved" /\ <<"gate">>[1] = "gate" /\ <<"rows", "gate">>[1] = "rows"
      /\ <<"rows", "allow">>[1] = "rows"
  OBVIOUS
<1>2. Len(<<"gate", "locate", "moved">>) = 3 /\ Len(<<"gate">>) = 1
  OBVIOUS
<1> QED
  BY <1>1, <1>2

LEMMA AskKeeps ==
    ASSUME ListInv, NEW page \in PageNames, NEW g \in AskedGroups(page), NEW e \in AskedEntries(page),
           Ask(page, g, e)
    PROVE  ListInv'
<1>1. /\ lask' = [page |-> page, asked |-> g, entry |-> e, group |-> g, todo |-> Reads[page], rows |-> {},
                  may |-> MayShow(page, e), must |-> MustShow(page, g, e), scope |-> Scope(page, g)]
      /\ lgot' = NoAsk /\ UNCHANGED <<lnode, lvm, lactive>>
  BY DEF Ask
<1>2. ListShapes' /\ PagesTell'
  BY <1>1 DEF ListInv, ListShapes, PagesTell, NodeShapes, VmShapes, Inventory, Ages, GroupIds
<1>3. /\ lask' = [f \in AskFields |-> lask'[f]]
      /\ lask'.page = page /\ lask'.asked = g /\ lask'.entry = e /\ lask'.group = g
      /\ lask'.todo = Reads[page] /\ lask'.rows = {} /\ lask'.may = MayShow(page, e)
      /\ lask'.must = MustShow(page, g, e) /\ lask'.scope = Scope(page, g)
  BY <1>1 DEF AskFields
<1>4. AskShape'
  BY <1>3, AskFinds DEF AskShape, PageNames, Reads, AskedGroups, AskedEntries, Rests, GroupIds
<1>5. Watched'
  <2>1. lnode' = lnode /\ lvm' = lvm /\ lactive' = lactive
    BY <1>1
  <2>2. MayShow(page, e)' = MayShow(page, e)
    BY <2>1 DEF MayShow, Shown, ActiveGroup, Unconcealed, _v48126_is_visible, Unhidden
  <2>3. MustShow(page, g, e)' = MustShow(page, g, e)
    BY <2>1 DEF MustShow, CurrentNodes, CurrentVms, Current, get_vm_current_location, Shown, ActiveGroup,
                Unconcealed, _v48126_is_visible, Unhidden, active_groups
  <2>4. Scope(page, g)' = Scope(page, g)
    BY <2>1 DEF Scope, active_groups, ActiveGroup
  <2> QED
    BY <1>3, <2>2, <2>3, <2>4 DEF Watched
<1>6. Found'
  <2>1. lask'.todo = Reads[page] /\ lask'.page = page /\ lask'.group = g /\ lask'.asked = g
    BY <1>3
  <2>2. CASE page \in {"nodes", "topnodes", "health", "consume"}
    <3>1. lask'.todo = <<"rows", "group", "allow">> /\ lask'.todo # <<"allow">>
      BY <2>1, <2>2, AskFinds, Tuples
    <3> QED
      BY <2>1, <2>2, <3>1 DEF Found
  <2>3. CASE page \in {"top", "topold"}
    <3>1. lask'.todo # <<"rows">> /\ lask'.todo # <<"allow">>
      BY <2>1, <2>3, AskFinds, Tuples
    <3> QED
      BY <2>1, <2>3, <3>1 DEF Found
  <2>4. CASE page \in {"disks", "cards", "abuse", "detail", "node"}
    <3>1. lask'.todo # <<"allow">> /\ (page \in {"detail", "node"} => lask'.todo # <<"rows">>)
      BY <2>1, <2>4, AskFinds, Tuples
    <3> QED
      BY <2>1, <2>4, <3>1 DEF Found
  <2>5. CASE page \in {"vm", "search", "apinode", "apivm"}
    <3>1. /\ lask'.todo # <<"allow">> /\ (page = "vm" => lask'.todo = <<"gate", "locate", "moved">>)
          /\ lask'.todo # <<"moved">> /\ lask'.todo # <<"gate">>
      BY <2>1, <2>5, AskFinds, Tuples
    <3> QED
      BY <2>1, <2>5, <3>1 DEF Found
  <2> QED
    BY <2>2, <2>3, <2>4, <2>5 DEF PageNames, Reads
<1> QED
  BY <1>1, <1>2, <1>4, <1>5, <1>6 DEF ListInv
-----------------------------------------------------------------------------
(* The reads of a request. *)

LEMMA Heads ==
    /\ Head(<<"rows", "group", "allow">>) = "rows" /\ Tail(<<"rows", "group", "allow">>) = <<"group", "allow">>
    /\ Head(<<"group", "allow">>) = "group" /\ Tail(<<"group", "allow">>) = <<"allow">>
    /\ Head(<<"group", "rows">>) = "group" /\ Tail(<<"group", "rows">>) = <<"rows">>
    /\ Head(<<"gate", "rows">>) = "gate" /\ Tail(<<"gate", "rows">>) = <<"rows">>
    /\ Head(<<"gate", "locate", "moved">>) = "gate" /\ Tail(<<"gate", "locate", "moved">>) = <<"locate", "moved">>
    /\ Head(<<"locate", "moved">>) = "locate" /\ Tail(<<"locate", "moved">>) = <<"moved">>
    /\ Head(<<"rows", "gate">>) = "rows" /\ Tail(<<"rows", "gate">>) = <<"gate">>
    /\ Head(<<"rows", "allow">>) = "rows" /\ Tail(<<"rows", "allow">>) = <<"allow">>
    /\ Head(<<"allow">>) = "allow" /\ Tail(<<"allow">>) = <<>>
    /\ Head(<<"rows">>) = "rows" /\ Tail(<<"rows">>) = <<>>
    /\ Head(<<"moved">>) = "moved" /\ Tail(<<"moved">>) = <<>>
    /\ Head(<<"gate">>) = "gate" /\ Tail(<<"gate">>) = <<>>
    /\ <<"group", "allow">> # <<>> /\ <<"allow">> # <<>> /\ <<"rows">> # <<>> /\ <<"locate", "moved">> # <<>>
    /\ <<"moved">> # <<>> /\ <<"gate">> # <<>>
  OBVIOUS

\* A read that is answered 404, and what the others leave in the request.
Refused == Head(lask.todo) = "gate" /\ ~Gate(lask.page, lask.asked, lask.entry, lask.rows)
RowsAfter(place) ==
    CASE Head(lask.todo) = "rows" -> PageRows(lask.page, lask.group, lask.entry)
      [] Head(lask.todo) = "allow" -> Allowed(lask.page, lask.group, lask.rows)
      [] Head(lask.todo) = "locate" -> {place}
      [] Head(lask.todo) = "moved" -> Moved(lask.entry, lask.rows)
      [] OTHER -> lask.rows
Reading(place, b) ==
    /\ LET now == get_vm_current_location(lask.entry[2]) IN
       place \in (IF Head(lask.todo) = "locate" /\ now # {} THEN now ELSE {lask.entry})
    /\ b = [f \in AskFields |-> b[f]]
    /\ b.page = lask.page /\ b.asked = lask.asked /\ b.entry = lask.entry
    /\ b.may = lask.may /\ b.must = lask.must /\ b.scope = lask.scope
    /\ b.todo = (IF Refused THEN <<>> ELSE Tail(lask.todo))
    /\ b.group = (IF Head(lask.todo) = "group" THEN selected_group_id(lask.asked) ELSE lask.group)
    /\ b.rows = (IF Refused THEN {} ELSE RowsAfter(place))
    /\ IF b.todo = <<>> THEN lask' = NoAsk /\ lgot' = b ELSE lask' = b /\ lgot' = NoAsk
    /\ lnode' = lnode /\ lvm' = lvm /\ lactive' = lactive

LEMMA ReadIs == ASSUME ListInv, ReadNext PROVE lask # NoAsk /\ \E place, b : Reading(place, b)
<1>1. lask # NoAsk /\ AskShape
  BY DEF ReadNext, ListInv
<1>2. PICK place \in LET now == get_vm_current_location(lask.entry[2]) IN
                      IF Head(lask.todo) = "locate" /\ now # {} THEN now ELSE {lask.entry} :
       LET step == Head(lask.todo)
           ok == step = "gate" => Gate(lask.page, lask.asked, lask.entry, lask.rows)
           next == [lask EXCEPT
                      !.todo = IF ok THEN Tail(@) ELSE <<>>,
                      !.group = IF step = "group" THEN selected_group_id(lask.asked) ELSE @,
                      !.rows = CASE ~ok -> {}
                                 [] step = "rows" -> PageRows(lask.page, lask.group, lask.entry)
                                 [] step = "allow" -> Allowed(lask.page, lask.group, @)
                                 [] step = "locate" -> {place}
                                 [] step = "moved" -> Moved(lask.entry, @)
                                 [] OTHER -> @]
       IN  IF next.todo = <<>> THEN lask' = NoAsk /\ lgot' = next
           ELSE lask' = next /\ lgot' = NoAsk
  BY DEF ReadNext
<1> DEFINE t == IF Refused THEN <<>> ELSE Tail(lask.todo)
           g == IF Head(lask.todo) = "group" THEN selected_group_id(lask.asked) ELSE lask.group
           r == IF Refused THEN {} ELSE RowsAfter(place)
           b == [lask EXCEPT !.todo = t, !.group = g, !.rows = r]
<1>3. IF b.todo = <<>> THEN lask' = NoAsk /\ lgot' = b ELSE lask' = b /\ lgot' = NoAsk
  BY <1>2, Zenon DEF Refused, RowsAfter
<1>4. lnode' = lnode /\ lvm' = lvm /\ lactive' = lactive
  BY DEF ReadNext
<1>5. /\ b = [f \in AskFields |-> b[f]]
      /\ b.page = lask.page /\ b.asked = lask.asked /\ b.entry = lask.entry
      /\ b.may = lask.may /\ b.must = lask.must /\ b.scope = lask.scope
      /\ b.todo = t /\ b.group = g /\ b.rows = r
  <2> HIDE DEF t, g, r
  <2> QED
    BY <1>1 DEF AskShape, AskFields
<1> HIDE DEF b
<1>6. Reading(place, b)
  BY <1>2, <1>3, <1>4, <1>5 DEF Reading
<1> QED
  BY <1>1, <1>6

\* The rows that may be sent.
Answers(rows) ==
    /\ rows \subseteq lask.may
    /\ lask.asked # "all" => {e[1] : e \in rows} \subseteq lask.scope
    /\ lask.must \subseteq rows

LEMMA SendKeeps ==
    ASSUME ListInv, lask # NoAsk, NEW place, NEW b, Reading(place, b), b.todo = <<>>, Answers(b.rows)
    PROVE  ListInv'
<1>1. lask' = NoAsk /\ lgot' = b /\ lnode' = lnode /\ lvm' = lvm /\ lactive' = lactive
  BY DEF Reading
<1>2. ListShapes'
  BY <1>1 DEF ListInv, ListShapes, NodeShapes, VmShapes, Inventory, Ages, GroupIds
<1>3. /\ b.rows \subseteq b.may /\ b.must \subseteq b.rows
      /\ b.asked # "all" => {e[1] : e \in b.rows} \subseteq b.scope
  BY DEF Reading, Answers
<1>4. PagesTell'
  BY <1>1, <1>3 DEF PagesTell
<1> QED
  BY <1>1, <1>2, <1>4 DEF ListInv

LEMMA GoOnKeeps ==
    ASSUME ListInv, lask # NoAsk, NEW place, NEW b, Reading(place, b), b.todo # <<>>,
           b.todo \in Rests(lask.page), Found'
    PROVE  ListInv'
<1>1. lask' = b /\ lgot' = NoAsk /\ lnode' = lnode /\ lvm' = lvm /\ lactive' = lactive
  BY DEF Reading
<1>2. ListShapes' /\ PagesTell'
  BY <1>1 DEF ListInv, ListShapes, PagesTell, NodeShapes, VmShapes, Inventory, Ages, GroupIds
<1>3. /\ AskShape /\ Watched
      /\ b = [f \in AskFields |-> b[f]]
      /\ b.page = lask.page /\ b.asked = lask.asked /\ b.entry = lask.entry
      /\ b.may = lask.may /\ b.must = lask.must /\ b.scope = lask.scope
  BY DEF ListInv, Reading
<1>4. AskShape'
  BY <1>1, <1>3 DEF AskShape, PageNames, Reads, AskedGroups, AskedEntries, Rests, GroupIds
<1>5. Watched'
  <2>1. lnode' = lnode /\ lvm' = lvm /\ lactive' = lactive
    BY <1>1
  <2>2. MayShow(b.page, b.entry)' = MayShow(b.page, b.entry)
    BY <2>1 DEF MayShow, Shown, ActiveGroup, Unconcealed, _v48126_is_visible, Unhidden
  <2>3. MustShow(b.page, b.asked, b.entry)' = MustShow(b.page, b.asked, b.entry)
    BY <2>1 DEF MustShow, CurrentNodes, CurrentVms, Current, get_vm_current_location, Shown, ActiveGroup,
                Unconcealed, _v48126_is_visible, Unhidden, active_groups
  <2>4. Scope(b.page, b.asked)' = Scope(b.page, b.asked)
    BY <2>1 DEF Scope, active_groups, ActiveGroup
  <2>5. /\ MayShow(b.page, b.entry) \subseteq b.may
        /\ b.must \subseteq MustShow(b.page, b.asked, b.entry)
        /\ Scope(b.page, b.asked) \subseteq b.scope
    BY <1>3 DEF Watched
  <2>6. /\ MayShow(lask.page, lask.entry)' = MayShow(b.page, b.entry)'
        /\ MustShow(lask.page, lask.asked, lask.entry)' = MustShow(b.page, b.asked, b.entry)'
        /\ Scope(lask.page, lask.asked)' = Scope(b.page, b.asked)'
    BY <1>1
  <2> QED
    BY <1>1, <2>2, <2>3, <2>4, <2>5, <2>6 DEF Watched
<1> QED
  BY <1>1, <1>2, <1>4, <1>5 DEF ListInv

\* What is known of a request.
LEMMA AskIs ==
    ASSUME ListInv, lask # NoAsk
    PROVE  /\ ListShapes /\ Found /\ AskShape
           /\ lask.page \in PageNames /\ lask.asked \in AskedGroups(lask.page)
           /\ lask.entry \in AskedEntries(lask.page) /\ lask.todo \in Rests(lask.page)
           /\ MayShow(lask.page, lask.entry) \subseteq lask.may
           /\ \A x \in lask.must : x \in MustShow(lask.page, lask.asked, lask.entry)
           /\ Scope(lask.page, lask.asked) \subseteq lask.scope
  BY DEF ListInv, AskShape, Watched

Grouping == {"nodes", "topnodes", "health", "consume", "top", "topold"}

\* The group of a request is read.
LEMMA GroupRead ==
    ASSUME ListInv, lask # NoAsk, lask.page \in Grouping
    PROVE  \/ /\ selected_group_id(lask.asked) = "all"
              /\ lask.asked = "all" \/ LNodes \subseteq lask.scope
              /\ lask.asked \notin active_groups
           \/ /\ selected_group_id(lask.asked) = lask.asked /\ lask.asked \in GroupIds
              /\ lask.asked \in active_groups /\ lask.asked # "all"
              /\ \A x \in lask.must : lnode[x[1]].grp = lask.asked
<1>1. CASE lask.asked \in GroupIds /\ ActiveGroup(lask.asked)
  <2>1. /\ selected_group_id(lask.asked) = lask.asked /\ lask.asked \in active_groups /\ lask.asked # "all"
    BY <1>1, GroupNames DEF selected_group_id
  <2>2. \A x \in lask.must : lnode[x[1]].grp = lask.asked
    BY <2>1, AskIs, MustVisible DEF Falls
  <2> QED
    BY <1>1, <2>1, <2>2
<1>2. CASE ~(lask.asked \in GroupIds /\ ActiveGroup(lask.asked))
  <2>1. selected_group_id(lask.asked) = "all" /\ lask.asked \notin active_groups
    BY <1>2 DEF selected_group_id, active_groups
  <2>2. Scope(lask.page, lask.asked) = LNodes
    BY <2>1 DEF Scope, Grouping
  <2> QED
    BY <2>1, <2>2, AskIs
<1> QED
  BY <1>1, <1>2

LEMMA GroupReadTold ==
    ASSUME ListInv, lask # NoAsk, lask.page \in Grouping, NEW place, NEW b, Reading(place, b),
           Head(lask.todo) = "group", lask' = b
    PROVE  GroupTold'
  BY GroupRead DEF GroupTold, Reading, GroupIds

\* A node that is in the group asked for is in the scope of the request.
LEMMA InScope ==
    ASSUME ListInv, lask # NoAsk, NEW n \in LNodes, lask.page # "detail",
           lask.asked \in active_groups => lnode[n].grp = lask.asked
    PROVE  n \in lask.scope
  BY AskIs DEF Scope

LEMMA OverviewRead ==
    ASSUME ListInv, lask # NoAsk, lask.page \in {"nodes", "topnodes", "health"},
           NEW place, NEW b, Reading(place, b)
    PROVE  ListInv'
<1>1. lask.page \in Grouping /\ lask.page \in PageNames
  BY DEF Grouping, PageNames, Reads
<1>2. /\ lask.todo \in {<<"rows", "group", "allow">>, <<"group", "allow">>, <<"allow">>}
      /\ Rests(lask.page) = {<<"rows", "group", "allow">>, <<"group", "allow">>, <<"allow">>}
  BY AskIs DEF Rests
<1>3. CASE lask.todo = <<"rows", "group", "allow">>
  <2>1. b.todo = <<"group", "allow">> /\ b.rows = PageRows(lask.page, lask.group, lask.entry)
    BY <1>3, Heads DEF Reading, Refused, RowsAfter
  <2>2. ASSUME NEW x \in lask.must PROVE x \in b.rows
    <3>1. x \in MustShow(lask.page, lask.asked, lask.entry)
      BY AskIs
    <3>2. x[1] \in LNodes /\ lnode[x[1]].inv = "active"
      BY <1>1, <3>1, MustVisible
    <3>3. CASE lask.page \in {"nodes", "topnodes"}
      <4>1. x \in NodeRows(CurrentNodes)
        BY <1>1, <3>1, <3>3, MustOf, ZenonT(60)
      <4>2. x = <<x[1], "node">> /\ x[1] \in CurrentNodes
        BY <4>1, NodeRowIs
      <4>3. x[1] \in BaseNodeRows
        BY <3>2, <4>2 DEF BaseNodeRows, CurrentNodes, Unhidden
      <4> QED
        BY <2>1, <3>3, <4>2, <4>3, InNodeRows DEF PageRows
    <3>4. CASE lask.page = "health"
      <4>1. x \in NodeRows({n \in LNodes : lnode[n].age < 4})
        BY <1>1, <3>1, <3>4, MustOf
      <4>2. x = <<x[1], "node">> /\ x[1] \in {n \in LNodes : lnode[n].age < 4}
        BY <4>1, NodeRowIs
      <4>3. x[1] \in BaseHealthRows
        BY <3>2, <4>2 DEF BaseHealthRows, Visible
      <4> QED
        BY <2>1, <3>4, <4>2, <4>3, InNodeRows DEF PageRows
    <3> QED
      BY <3>3, <3>4
  <2>3. lask' = b /\ b.page = lask.page /\ b.must = lask.must /\ b.todo # <<"allow">>
    BY <2>1, Heads, Tuples DEF Reading
  <2>4. Found'
    BY <2>2, <2>3 DEF Found
  <2> QED
    BY <1>2, <2>1, <2>4, Heads, GoOnKeeps
<1>4. CASE lask.todo = <<"group", "allow">>
  <2>1. b.todo = <<"allow">> /\ b.rows = lask.rows /\ Head(lask.todo) = "group"
    BY <1>4, Heads DEF Reading, Refused, RowsAfter
  <2>2. lask' = b /\ b.page = lask.page /\ b.must = lask.must
    BY <2>1, Heads DEF Reading
  <2>3. lask.must \subseteq lask.rows
    BY <1>4, AskIs, Tuples DEF Found
  <2>4. GroupTold'
    BY <1>1, <2>1, <2>2, GroupReadTold
  <2>5. Found'
    BY <2>1, <2>2, <2>3, <2>4, Tuples DEF Found
  <2> QED
    BY <1>2, <2>1, <2>5, Heads, GoOnKeeps
<1>5. CASE lask.todo = <<"allow">>
  <2>1. b.todo = <<>> /\ b.rows = lask.rows \cap NodeRows(effective_visible_nodes(lask.group))
    BY <1>5, Heads DEF Reading, Refused, RowsAfter, Allowed
  <2>2. GroupTold /\ lask.must \subseteq lask.rows
    BY <1>5, AskIs, Tuples DEF Found
  <2>3. ASSUME NEW x \in b.rows
        PROVE  x \in lask.may /\ (lask.asked # "all" => x[1] \in lask.scope)
    <3>1. x = <<x[1], "node">> /\ x[1] \in effective_visible_nodes(lask.group)
      BY <2>1, NodeRowIs
    <3>2. /\ x[1] \in LNodes /\ Unconcealed(lnode[x[1]]) /\ ActiveGroup(lnode[x[1]].grp)
          /\ lask.group # "all" => lnode[x[1]].grp = lask.group
      BY <3>1 DEF effective_visible_nodes, Visible, Unconcealed, _effective_group_sql
    <3>3. x \in MayShow(lask.page, lask.entry)
      BY <1>1, <3>1, <3>2, NodeMay
    <3>4. lask.asked # "all" => x[1] \in lask.scope
      BY <2>2, <3>2, InScope, GroupNames DEF GroupTold
    <3> QED
      BY <3>3, <3>4, AskIs
  <2>4. ASSUME NEW x \in lask.must PROVE x \in b.rows
    <3>1. x \in MustShow(lask.page, lask.asked, lask.entry)
      BY AskIs
    <3>2. x[1] \in LNodes /\ lnode[x[1]].inv = "active" /\ ActiveGroup(lnode[x[1]].grp)
      BY <1>1, <3>1, MustVisible
    <3>3. x = <<x[1], "node">>
      BY <3>1, NodesMust
    <3>4. lask.group # "all" => lnode[x[1]].grp = lask.group
      BY <2>2 DEF GroupTold
    <3>5. x[1] \in effective_visible_nodes(lask.group)
      BY <3>2, <3>4 DEF effective_visible_nodes, Visible, _effective_group_sql
    <3> QED
      BY <2>1, <2>2, <3>3, <3>5, InNodeRows
  <2>5. Answers(b.rows)
    BY <2>3, <2>4 DEF Answers
  <2> QED
    BY <2>1, <2>5, SendKeeps
<1> QED
  BY <1>2, <1>3, <1>4, <1>5

LEMMA ConsumptionRead ==
    ASSUME ListInv, lask # NoAsk, lask.page = "consume", NEW place, NEW b, Reading(place, b)
    PROVE  ListInv'
<1>1. lask.page \in Grouping /\ lask.page \in PageNames
  BY DEF Grouping, PageNames, Reads
<1>2. /\ lask.todo \in {<<"rows", "group", "allow">>, <<"group", "allow">>, <<"allow">>}
      /\ Rests(lask.page) = {<<"rows", "group", "allow">>, <<"group", "allow">>, <<"allow">>}
  BY AskIs DEF Rests
<1>3. CASE lask.todo = <<"rows", "group", "allow">>
  <2>1. b.todo = <<"group", "allow">> /\ b.rows = ConsumptionRows
    BY <1>3, Heads DEF Reading, Refused, RowsAfter, PageRows
  <2>2. ASSUME NEW r \in b.rows
        PROVE  /\ r[1] \in LNodes /\ <<r[1], "node">> \in lask.may
               /\ r[2] = lask.asked => r[1] \in lask.scope
    <3>1. PICK n \in effective_visible_nodes("all") : r = <<n, lnode[n].grp>>
      BY <2>1 DEF ConsumptionRows
    <3>2. n \in LNodes /\ Unconcealed(lnode[n]) /\ ActiveGroup(lnode[n].grp)
      BY DEF effective_visible_nodes, Visible, Unconcealed, _effective_group_sql
    <3>3. <<n, "node">> \in MayShow(lask.page, lask.entry)
      BY <1>1, <3>2, NodeMay
    <3>4. r[2] = lask.asked => n \in lask.scope
      BY <3>1, <3>2, InScope
    <3> QED
      BY <3>1, <3>2, <3>3, <3>4, AskIs
  <2>3. ASSUME NEW x \in lask.must
        PROVE  \E r \in b.rows :
                  x = <<r[1], "node">> /\ (lask.asked \in {"all", r[2]} \/ lask.asked \notin active_groups)
    <3>1. x \in MustShow(lask.page, lask.asked, lask.entry)
      BY AskIs
    <3>2. /\ x[1] \in LNodes /\ lnode[x[1]].inv = "active" /\ ActiveGroup(lnode[x[1]].grp)
          /\ lask.asked = "all" \/ lask.asked \notin active_groups \/ lnode[x[1]].grp = lask.asked
      BY <1>1, <3>1, MustVisible DEF Falls
    <3>3. x = <<x[1], "node">>
      BY <3>1, NodesMust
    <3>4. <<x[1], lnode[x[1]].grp>> \in b.rows
      BY <2>1, <3>2 DEF ConsumptionRows, effective_visible_nodes, Visible, _effective_group_sql
    <3> QED
      BY <3>2, <3>3, <3>4
  <2>4. /\ lask' = b /\ b.page = lask.page /\ b.must = lask.must /\ b.todo # <<"allow">>
        /\ b.may = lask.may /\ b.scope = lask.scope /\ b.asked = lask.asked /\ lactive' = lactive
    BY <2>1, Heads, Tuples DEF Reading
  <2>5. active_groups' = active_groups
    BY <2>4 DEF active_groups, ActiveGroup
  <2>6. Grouped'
    BY <2>2, <2>3, <2>4, <2>5 DEF Grouped
  <2>7. Found'
    BY <2>4, <2>6 DEF Found
  <2> QED
    BY <1>2, <2>1, <2>7, Heads, GoOnKeeps
<1>4. CASE lask.todo = <<"group", "allow">>
  <2>1. /\ b.todo = <<"allow">> /\ b.rows = lask.rows /\ Head(lask.todo) = "group"
        /\ b.group = selected_group_id(lask.asked)
    BY <1>4, Heads DEF Reading, Refused, RowsAfter
  <2>2. /\ lask' = b /\ b.page = lask.page /\ b.must = lask.must
        /\ b.may = lask.may /\ b.scope = lask.scope /\ b.asked = lask.asked /\ lactive' = lactive
    BY <2>1, Heads DEF Reading
  <2>3. Grouped
    BY <1>4, AskIs, Tuples DEF Found
  <2>4. \A x \in lask.must : \E r \in lask.rows :
            x = <<r[1], "node">> /\ (lask.asked \in {"all", r[2]} \/ lask.asked \notin active_groups)
    BY <1>4, <2>3, Tuples DEF Grouped
  <2>5. GroupTold'
    BY <1>1, <2>1, <2>2, GroupReadTold
  <2>6. active_groups' = active_groups
    BY <2>2 DEF active_groups, ActiveGroup
  <2>7. Grouped'
    BY <2>1, <2>2, <2>3, <2>4, <2>6 DEF Grouped
  <2>8. b.group # "all" => \A x \in lask.must : \E r \in lask.rows : x = <<r[1], "node">> /\ r[2] = b.group
    BY <1>1, <2>1, <2>4, GroupRead
  <2>9. Found'
    BY <2>1, <2>2, <2>5, <2>7, <2>8, Tuples DEF Found
  <2> QED
    BY <1>2, <2>1, <2>9, Heads, GoOnKeeps
<1>5. CASE lask.todo = <<"allow">>
  <2>1. b.todo = <<>> /\ b.rows = NodeRows({r[1] : r \in {x \in lask.rows : lask.group \in {"all", x[2]}}})
    BY <1>5, Heads DEF Reading, Refused, RowsAfter, Allowed
  <2>2. GroupTold /\ Grouped
    BY <1>5, AskIs, Tuples DEF Found
  <2>3. ASSUME NEW x \in b.rows
        PROVE  x \in lask.may /\ (lask.asked # "all" => x[1] \in lask.scope)
    <3>1. PICK r \in lask.rows : x = <<r[1], "node">> /\ lask.group \in {"all", r[2]}
      BY <2>1 DEF NodeRows
    <3>2. r[1] \in LNodes /\ <<r[1], "node">> \in lask.may /\ (r[2] = lask.asked => r[1] \in lask.scope)
      BY <2>2 DEF Grouped
    <3>3. lask.asked # "all" => r[1] \in lask.scope
      BY <2>2, <3>1, <3>2, GroupNames DEF GroupTold
    <3> QED
      BY <3>1, <3>2, <3>3
  <2>4. ASSUME NEW x \in lask.must PROVE x \in b.rows
    <3>1. \E r \in lask.rows : x = <<r[1], "node">> /\ lask.group \in {"all", r[2]}
      BY <1>5, <2>2, AskIs DEF Grouped, Found
    <3> QED
      BY <2>1, <3>1 DEF NodeRows
  <2>5. Answers(b.rows)
    BY <2>3, <2>4 DEF Answers
  <2> QED
    BY <2>1, <2>5, SendKeeps
<1> QED
  BY <1>2, <1>3, <1>4, <1>5

LEMMA TopRead ==
    ASSUME ListInv, lask # NoAsk, lask.page \in {"top", "topold"}, NEW place, NEW b, Reading(place, b)
    PROVE  ListInv'
<1>1. lask.page \in Grouping /\ lask.page \in PageNames
  BY DEF Grouping, PageNames, Reads
<1>2. /\ lask.todo \in {<<"group", "rows">>, <<"rows">>}
      /\ Rests(lask.page) = {<<"group", "rows">>, <<"rows">>}
  BY AskIs DEF Rests
<1>3. CASE lask.todo = <<"group", "rows">>
  <2>1. b.todo = <<"rows">> /\ Head(lask.todo) = "group"
    BY <1>3, Heads DEF Reading, Refused
  <2>2. lask' = b /\ b.page = lask.page
    BY <2>1, Heads DEF Reading
  <2>3. GroupTold'
    BY <1>1, <2>1, <2>2, GroupReadTold
  <2>4. Found'
    BY <2>1, <2>2, <2>3, Tuples DEF Found
  <2> QED
    BY <1>2, <2>1, <2>4, Heads, GoOnKeeps
<1>4. CASE lask.todo = <<"rows">>
  <2>1. /\ b.todo = <<>>
        /\ lask.page = "top" => b.rows = TopVmRows(lask.group)
        /\ lask.page = "topold" => b.rows = TopVmHistory(lask.group)
    <3>1. b.todo = <<>> /\ b.rows = PageRows(lask.page, lask.group, lask.entry)
      BY <1>4, Heads DEF Reading, Refused, RowsAfter
    <3> QED
      BY <3>1 DEF PageRows
  <2>2. GroupTold
    BY <1>4, AskIs DEF Found
  <2>3. ASSUME NEW x \in b.rows
        PROVE  x \in lask.may /\ (lask.asked # "all" => x[1] \in lask.scope)
    <3>1. /\ x \in LPairs /\ Unhidden(lnode[x[1]]) /\ Unhidden(lvm[x]) /\ ActiveGroup(lnode[x[1]].grp)
          /\ lask.group = "all" \/ lnode[x[1]].grp = lask.group
      BY <2>1 DEF TopVmRows, TopVmHistory, ShownVm, _r22_top_visibility_sql, _effective_group_sql, InGroup
    <3>2. x[1] \in LNodes
      BY <3>1, PairIn
    <3>3. x \in MayShow(lask.page, lask.entry)
      BY <1>1, <3>1, PairMay DEF Unhidden, Unconcealed
    <3>4. lask.asked # "all" => x[1] \in lask.scope
      BY <2>2, <3>1, <3>2, InScope, GroupNames DEF GroupTold
    <3> QED
      BY <3>3, <3>4, AskIs
  <2>4. ASSUME NEW x \in lask.must PROVE x \in b.rows
    <3>1. x \in MustShow(lask.page, lask.asked, lask.entry)
      BY AskIs
    <3>2. lask.page = "top" /\ x \in CurrentVms
      BY <1>1, <3>1, MustOf, ZenonT(60)
    <3>3. /\ lnode[x[1]].inv = "active" /\ ActiveGroup(lnode[x[1]].grp)
          /\ x \in LPairs => Unconcealed(lvm[x])
      BY <1>1, <3>1, <3>2, MustVisible
    <3>4. x \in LPairs /\ Current(lvm[x])
      BY <3>2 DEF CurrentVms
    <3>5. Unhidden(lvm[x]) /\ Unhidden(lnode[x[1]])
      BY <3>3, <3>4, AskIs, VmShapeIs DEF Unhidden, Unconcealed, Inventory
    <3>6. lask.group = "all" \/ lnode[x[1]].grp = lask.group
      BY <2>2 DEF GroupTold
    <3>7. x \in TopVmRows(lask.group)
      BY <3>3, <3>4, <3>5, <3>6 DEF TopVmRows, ShownVm, _r22_top_visibility_sql, _effective_group_sql, InGroup
    <3> QED
      BY <2>1, <3>2, <3>7
  <2>5. Answers(b.rows)
    BY <2>3, <2>4 DEF Answers
  <2> QED
    BY <2>1, <2>5, SendKeeps
<1> QED
  BY <1>2, <1>3, <1>4

LEMMA DisksRead ==
    ASSUME ListInv, lask # NoAsk, lask.page \in {"disks", "abuse"}, NEW place, NEW b, Reading(place, b)
    PROVE  ListInv'
<1>1. lask.page \in PageNames
  BY DEF PageNames, Reads
<1>2. lask.todo = <<"rows">> /\ lask.group = lask.asked
  BY AskIs DEF Rests, Found
<1>3. /\ b.todo = <<>>
      /\ lask.page = "disks" => b.rows = StorageDiskRows(lask.asked)
      /\ lask.page = "abuse" => b.rows = _v48139_current_rows(lask.asked)
  <2>1. b.todo = <<>> /\ b.rows = PageRows(lask.page, lask.group, lask.entry)
    BY <1>2, Heads DEF Reading, Refused, RowsAfter
  <2> QED
    BY <1>2, <2>1 DEF PageRows
<1>4. ASSUME NEW x \in b.rows
      PROVE  x \in lask.may /\ (lask.asked # "all" => x[1] \in lask.scope)
  <2>1. /\ x \in LPairs /\ Unhidden(lnode[x[1]]) /\ Unhidden(lvm[x]) /\ ActiveGroup(lnode[x[1]].grp)
        /\ lask.asked = "all" \/ lnode[x[1]].grp = lask.asked
    BY <1>3 DEF StorageDiskRows, _v48140_disk_search_clause, _v48139_current_rows, CurrentAbuseRows,
                ShownVm, _effective_group_sql, InGroup
  <2>2. x[1] \in LNodes
    BY <2>1, PairIn
  <2>3. x \in MayShow(lask.page, lask.entry)
    BY <1>1, <2>1, PairMay DEF Unhidden, Unconcealed
  <2>4. lask.asked # "all" => x[1] \in lask.scope
    BY <2>1, <2>2, InScope
  <2> QED
    BY <2>3, <2>4, AskIs
<1>5. ASSUME NEW x \in lask.must PROVE x \in b.rows
  <2>1. x \in MustShow(lask.page, lask.asked, lask.entry)
    BY AskIs
  <2>2. x \in CurrentVms /\ (lask.page = "abuse" => lvm[x].abuse > 0)
    BY <1>1, <2>1, MustOf
  <2>3. /\ lnode[x[1]].inv = "active" /\ ActiveGroup(lnode[x[1]].grp)
        /\ x \in LPairs => Unconcealed(lvm[x])
        /\ lask.asked = "all" \/ lnode[x[1]].grp = lask.asked
    BY <1>1, <2>1, MustVisible DEF Falls
  <2>4. x \in LPairs /\ Current(lvm[x])
    BY <2>2 DEF CurrentVms
  <2>5. Unhidden(lvm[x]) /\ Unhidden(lnode[x[1]])
    BY <2>3, <2>4, AskIs, VmShapeIs DEF Unhidden, Unconcealed, Inventory
  <2> QED
    BY <1>3, <2>2, <2>3, <2>4, <2>5
       DEF StorageDiskRows, _v48140_disk_search_clause, _v48139_current_rows, CurrentAbuseRows,
           ShownVm, _effective_group_sql, InGroup
<1>6. Answers(b.rows)
  BY <1>4, <1>5 DEF Answers
<1> QED
  BY <1>3, <1>6, SendKeeps

LEMMA CardsRead ==
    ASSUME ListInv, lask # NoAsk, lask.page = "cards", NEW place, NEW b, Reading(place, b)
    PROVE  ListInv'
<1>1. lask.page \in PageNames
  BY DEF PageNames, Reads
<1>2. lask.todo = <<"rows">> /\ lask.group = lask.asked
  BY AskIs DEF Rests, Found
<1>3. b.todo = <<>> /\ b.rows = NodeRows(_v48140_node_group_cards_fast(lask.asked))
  BY <1>2, Heads DEF Reading, Refused, RowsAfter, PageRows
<1>4. ASSUME NEW x \in b.rows
      PROVE  x \in lask.may /\ (lask.asked # "all" => x[1] \in lask.scope)
  <2>1. x = <<x[1], "node">> /\ x[1] \in _v48140_node_group_cards_fast(lask.asked)
    BY <1>3, NodeRowIs
  <2>2. /\ x[1] \in LNodes /\ Unconcealed(lnode[x[1]])
        /\ lask.asked = "all" \/ lnode[x[1]].grp = lask.asked
    BY <2>1 DEF _v48140_node_group_cards_fast, StorageNodeCards, InGroup, Visible, Unconcealed
  <2>3. x \in MayShow(lask.page, lask.entry)
    BY <1>1, <2>1, <2>2, NodeMay
  <2>4. lask.asked # "all" => x[1] \in lask.scope
    BY <2>2, InScope
  <2> QED
    BY <2>3, <2>4, AskIs
<1>5. ASSUME NEW x \in lask.must PROVE x \in b.rows
  <2>1. x \in MustShow(lask.page, lask.asked, lask.entry)
    BY AskIs
  <2>2. x \in NodeRows(CurrentNodes)
    BY <1>1, <2>1, MustOf
  <2>3. lnode[x[1]].inv = "active" /\ (lask.asked = "all" \/ lnode[x[1]].grp = lask.asked)
    BY <1>1, <2>1, MustVisible DEF Falls
  <2>4. x = <<x[1], "node">> /\ x[1] \in CurrentNodes
    BY <2>2, NodeRowIs
  <2>5. x[1] \in _v48140_node_group_cards_fast(lask.asked)
    BY <2>3, <2>4 DEF _v48140_node_group_cards_fast, StorageNodeCards, InGroup, Visible, CurrentNodes
  <2> QED
    BY <1>3, <2>4, <2>5, InNodeRows
<1>6. Answers(b.rows)
  BY <1>4, <1>5 DEF Answers
<1> QED
  BY <1>3, <1>6, SendKeeps

LEMMA DetailRead ==
    ASSUME ListInv, lask # NoAsk, lask.page = "detail", NEW place, NEW b, Reading(place, b)
    PROVE  ListInv'
<1>1. lask.page \in PageNames
  BY DEF PageNames, Reads
<1>2. /\ lask.todo \in {<<"gate", "rows">>, <<"rows">>} /\ Rests(lask.page) = {<<"gate", "rows">>, <<"rows">>}
      /\ lask.group = lask.asked /\ lask.asked \in GroupIds
  BY <1>1, AskIs, AskedAre DEF Rests, Found
<1>3. ASSUME NEW x \in lask.must
      PROVE  /\ x = <<x[1], "node">> /\ x[1] \in LNodes /\ lnode[x[1]].inv = "active"
             /\ lnode[x[1]].grp = lask.asked /\ ActiveGroup(lask.asked)
  <2>1. x \in MustShow(lask.page, lask.asked, lask.entry)
    BY AskIs
  <2>2. x = <<x[1], "node">>
    BY <2>1, NodesMust
  <2> QED
    BY <1>1, <1>2, <2>1, <2>2, MustVisible, GroupNames DEF Falls
<1>4. CASE lask.todo = <<"gate", "rows">> /\ ~ActiveGroup(lask.asked)
  <2>1. b.todo = <<>> /\ b.rows = {}
    BY <1>4, Heads DEF Reading, Refused, Gate
  <2>2. Answers(b.rows)
    BY <1>3, <1>4, <2>1 DEF Answers
  <2> QED
    BY <2>1, <2>2, SendKeeps
<1>5. CASE lask.todo = <<"gate", "rows">> /\ ActiveGroup(lask.asked)
  <2>1. b.todo = <<"rows">>
    BY <1>5, Heads DEF Reading, Refused, Gate
  <2>2. /\ lask' = b /\ b.page = lask.page /\ b.asked = lask.asked /\ b.group = lask.group
        /\ b.scope = lask.scope /\ lnode' = lnode
    BY <1>5, <2>1, Heads DEF Reading
  <2>3. group_nodes(lask.asked) \subseteq lask.scope
    BY <1>2, <1>5, AskIs, GroupNames DEF Scope, group_nodes
  <2>4. group_nodes(lask.asked)' \subseteq b.scope
    BY <2>2, <2>3 DEF group_nodes
  <2>5. Found'
    BY <1>2, <2>1, <2>2, <2>4, Tuples DEF Found
  <2> QED
    BY <1>2, <2>1, <2>5, Heads, GoOnKeeps
<1>6. CASE lask.todo = <<"rows">>
  <2>1. b.todo = <<>> /\ b.rows = NodeRows({r.node : r \in _node_group_detail_rows(lask.asked)})
    BY <1>2, <1>6, Heads DEF Reading, Refused, RowsAfter, PageRows
  <2>2. {r.node : r \in _node_group_detail_rows(lask.asked)} = SummaryNodes(lask.asked)
    <3> DEFINE line(n) == [node |-> n, vms |-> Cardinality(VmsOf(n)), abuse |-> Cardinality(AbuseOf(n))]
    <3>1. _node_group_detail_rows(lask.asked) = {line(n) : n \in SummaryNodes(lask.asked)}
      BY DEF _node_group_detail_rows
    <3>2. \A n \in SummaryNodes(lask.asked) : line(n).node = n
      OBVIOUS
    <3> HIDE DEF line
    <3> QED
      BY <3>1, <3>2
  <2>3. group_nodes(lask.asked) \subseteq lask.scope
    BY <1>6, AskIs DEF Found
  <2>4. ASSUME NEW x \in b.rows
        PROVE  x \in lask.may /\ x[1] \in lask.scope
    <3>1. x = <<x[1], "node">> /\ x[1] \in SummaryNodes(lask.asked)
      BY <2>1, <2>2, NodeRowIs
    <3>2. x[1] \in LNodes /\ Unconcealed(lnode[x[1]]) /\ x[1] \in lask.scope
      BY <2>3, <3>1 DEF SummaryNodes, group_nodes, Visible, Unconcealed
    <3>3. x \in MayShow(lask.page, lask.entry)
      BY <1>1, <3>1, <3>2, NodeMay
    <3> QED
      BY <3>2, <3>3, AskIs
  <2>5. ASSUME NEW x \in lask.must PROVE x \in b.rows
    <3>1. x[1] \in SummaryNodes(lask.asked)
      BY <1>3 DEF SummaryNodes, group_nodes, Visible
    <3> QED
      BY <1>3, <2>1, <2>2, <3>1, InNodeRows
  <2>6. Answers(b.rows)
    BY <2>4, <2>5 DEF Answers
  <2> QED
    BY <2>1, <2>6, SendKeeps
<1> QED
  BY <1>2, <1>4, <1>5, <1>6

LEMMA NodeRead ==
    ASSUME ListInv, lask # NoAsk, lask.page = "node", NEW place, NEW b, Reading(place, b)
    PROVE  ListInv'
<1>1. lask.page \in PageNames
  BY DEF PageNames, Reads
<1>2. /\ lask.todo \in {<<"gate", "rows">>, <<"rows">>} /\ Rests(lask.page) = {<<"gate", "rows">>, <<"rows">>}
      /\ lask.asked = "all"
  BY <1>1, AskIs, AskedAre DEF Rests
<1>3. lask.entry[1] \in LNodes /\ lask.entry = <<lask.entry[1], "node">>
  <2>1. lask.entry \in NodeRows(LNodes)
    BY AskIs DEF AskedEntries
  <2> QED
    BY <2>1, NodeRowIs
<1>4. ASSUME NEW x \in lask.must
      PROVE  /\ x[1] = lask.entry[1] /\ lnode[x[1]].inv = "active" /\ ActiveGroup(lnode[x[1]].grp)
             /\ x = lask.entry \/ (x \in LPairs /\ Current(lvm[x]) /\ Unconcealed(lvm[x]))
  <2>1. x \in MustShow(lask.page, lask.asked, lask.entry)
    BY AskIs
  <2>2. /\ lnode[x[1]].inv = "active" /\ ActiveGroup(lnode[x[1]].grp)
        /\ x \in LPairs => Unconcealed(lvm[x])
    BY <1>1, <2>1, MustVisible
  <2>3. x = lask.entry \/ (x \in CurrentVms /\ x[1] = lask.entry[1])
    BY <2>1 DEF MustShow
  <2> QED
    BY <2>2, <2>3 DEF CurrentVms
<1>5. CASE lask.todo = <<"gate", "rows">> /\ ~_monitoring_node_visible(lask.entry[1])
  <2>1. b.todo = <<>> /\ b.rows = {}
    BY <1>5, Heads DEF Reading, Refused, Gate
  <2>2. ASSUME NEW x \in lask.must PROVE FALSE
    BY <1>3, <1>4, <1>5 DEF _monitoring_node_visible, effective_visible_nodes, Visible, _effective_group_sql
  <2>3. Answers(b.rows)
    BY <2>1, <2>2 DEF Answers
  <2> QED
    BY <2>1, <2>3, SendKeeps
<1>6. CASE lask.todo = <<"gate", "rows">> /\ _monitoring_node_visible(lask.entry[1])
  <2>1. b.todo = <<"rows">>
    BY <1>6, Heads DEF Reading, Refused, Gate
  <2>2. lask' = b /\ b.page = lask.page /\ b.entry = lask.entry /\ b.may = lask.may
    BY <1>6, <2>1, Heads DEF Reading
  <2>3. Unconcealed(lnode[lask.entry[1]]) /\ ActiveGroup(lnode[lask.entry[1]].grp)
    BY <1>6 DEF _monitoring_node_visible, effective_visible_nodes, Visible, Unconcealed, _effective_group_sql
  <2>4. lask.entry \in MayShow(lask.page, lask.entry)
    BY <1>1, <1>3, <2>3, NodeMay
  <2>5. lask.entry \in lask.may
    BY <2>4, AskIs
  <2>6. Found'
    BY <2>1, <2>2, <2>5, Tuples DEF Found
  <2> QED
    BY <1>2, <2>1, <2>6, Heads, GoOnKeeps
<1>7. CASE lask.todo = <<"rows">>
  <2>1. b.todo = <<>> /\ b.rows = {lask.entry} \cup query_node_bridge(lask.entry[1])
    BY <1>7, Heads DEF Reading, Refused, RowsAfter, PageRows
  <2>2. ASSUME NEW x \in query_node_bridge(lask.entry[1])
        PROVE  x \in lask.may
    <3>1. x \in LPairs /\ x[1] = lask.entry[1] /\ lvm[x].age < 2 /\ lvm[x].inv # "hidden"
      BY DEF query_node_bridge, Current
    <3>2. Unconcealed(lvm[x])
      BY <3>1, AskIs, VmShapeIs DEF Unconcealed
    <3>3. x \in MayShow(lask.page, lask.entry)
      BY <3>1, <3>2 DEF MayShow
    <3> QED
      BY <3>3, AskIs
  <2>3. lask.entry \in lask.may
    BY <1>7, AskIs DEF Found
  <2>4. ASSUME NEW x \in lask.must PROVE x \in b.rows
    BY <1>4, <2>1 DEF query_node_bridge, Unconcealed
  <2>5. Answers(b.rows)
    BY <1>2, <2>1, <2>2, <2>3, <2>4 DEF Answers
  <2> QED
    BY <2>1, <2>5, SendKeeps
<1> QED
  BY <1>2, <1>5, <1>6, <1>7

LEMMA GatedMay ==
    ASSUME ListInv, lask # NoAsk, lask.page \in {"vm", "search"}, NEW p \in LPairs, _monitoring_vm_visible(p)
    PROVE  p \in lask.may
<1>1. Unconcealed(lnode[p[1]]) /\ Unconcealed(lvm[p]) /\ ActiveGroup(lnode[p[1]].grp)
  BY DEF _monitoring_vm_visible, _monitoring_node_visible, effective_visible_nodes, Visible, Unhidden,
         Unconcealed, _effective_group_sql
<1>2. p \in MayShow(lask.page, lask.entry)
  BY <1>1, AskIs, PairMay
<1> QED
  BY <1>2, AskIs

LEMMA VmRead ==
    ASSUME ListInv, lask # NoAsk, lask.page = "vm", NEW place, NEW b, Reading(place, b)
    PROVE  ListInv'
<1>1. lask.page \in PageNames
  BY DEF PageNames, Reads
<1>2. /\ lask.todo \in {<<"gate", "locate", "moved">>, <<"locate", "moved">>, <<"moved">>}
      /\ Rests(lask.page) = {<<"gate", "locate", "moved">>, <<"locate", "moved">>, <<"moved">>}
      /\ lask.asked = "all" /\ lask.entry \in LPairs
  BY <1>1, AskIs, AskedAre DEF Rests, AskedEntries
<1>3. ASSUME NEW x \in lask.must
      PROVE  /\ x = lask.entry /\ get_vm_current_location(lask.entry[2]) \subseteq {lask.entry}
             /\ _monitoring_vm_visible(lask.entry)
  <2>1. x \in MustShow(lask.page, lask.asked, lask.entry)
    BY AskIs
  <2>2. x = lask.entry /\ get_vm_current_location(lask.entry[2]) \subseteq {lask.entry}
    BY <1>1, <2>1, MustOf
  <2>3. lnode[x[1]].inv = "active" /\ ActiveGroup(lnode[x[1]].grp) /\ x[1] \in LNodes /\ Unconcealed(lvm[x])
    BY <1>1, <1>2, <2>1, <2>2, MustVisible
  <2>4. Unhidden(lvm[x])
    BY <1>2, <2>2, <2>3, AskIs, VmShapeIs DEF Unhidden, Unconcealed, Inventory
  <2> QED
    BY <2>2, <2>3, <2>4 DEF _monitoring_vm_visible, _monitoring_node_visible, effective_visible_nodes, Visible,
                            _effective_group_sql
<1>4. CASE lask.todo = <<"gate", "locate", "moved">> /\ ~_monitoring_vm_visible(lask.entry)
  <2>1. b.todo = <<>> /\ b.rows = {}
    BY <1>4, Heads DEF Reading, Refused, Gate
  <2>2. Answers(b.rows)
    BY <1>3, <1>4, <2>1 DEF Answers
  <2> QED
    BY <2>1, <2>2, SendKeeps
<1>5. CASE lask.todo = <<"gate", "locate", "moved">> /\ _monitoring_vm_visible(lask.entry)
  <2>1. b.todo = <<"locate", "moved">>
    BY <1>5, Heads DEF Reading, Refused, Gate
  <2>2. lask' = b /\ b.page = lask.page /\ b.entry = lask.entry /\ b.may = lask.may
    BY <1>5, <2>1, Heads DEF Reading
  <2>3. lask.entry \in lask.may
    BY <1>2, <1>5, GatedMay
  <2>4. Found'
    BY <2>1, <2>2, <2>3, Tuples DEF Found
  <2> QED
    BY <1>2, <2>1, <2>4, Heads, GoOnKeeps
<1>6. CASE lask.todo = <<"locate", "moved">>
  <2>1. b.todo = <<"moved">> /\ b.rows = {place}
    BY <1>6, Heads DEF Reading, Refused, RowsAfter
  <2>2. lask' = b /\ b.page = lask.page /\ b.entry = lask.entry /\ b.may = lask.may /\ b.must = lask.must
    BY <1>6, <2>1, Heads DEF Reading
  <2>3. \/ place \in get_vm_current_location(lask.entry[2]) /\ get_vm_current_location(lask.entry[2]) # {}
        \/ place = lask.entry
    BY <1>6, Heads DEF Reading
  <2>4. place \in LPairs
    BY <1>2, <2>3 DEF get_vm_current_location
  <2>5. lask.must # {} => place = lask.entry
    BY <1>3, <2>3
  <2>6. lask.entry \in lask.may
    BY <1>6, AskIs, Tuples DEF Found
  <2>7. Found'
    BY <2>1, <2>2, <2>4, <2>5, <2>6, Tuples DEF Found
  <2> QED
    BY <1>2, <2>1, <2>7, Heads, GoOnKeeps
<1>7. CASE lask.todo = <<"moved">>
  <2>1. b.todo = <<>> /\ b.rows = Moved(lask.entry, lask.rows)
    BY <1>7, Heads DEF Reading, Refused, RowsAfter
  <2>2. PICK p \in LPairs : lask.rows = {p} /\ (lask.must # {} => p = lask.entry)
    BY <1>7, AskIs DEF Found
  <2>3. lask.entry \in lask.may
    BY <1>7, AskIs, Tuples DEF Found
  <2>4. b.rows = (IF _monitoring_vm_visible(p) THEN {p} ELSE {lask.entry})
    BY <2>1, <2>2 DEF Moved
  <2>5. b.rows \subseteq lask.may
    BY <2>3, <2>4, GatedMay
  <2>6. lask.must \subseteq b.rows
    BY <1>3, <2>2, <2>4
  <2>7. Answers(b.rows)
    BY <1>2, <2>5, <2>6 DEF Answers
  <2> QED
    BY <2>1, <2>7, SendKeeps
<1> QED
  BY <1>2, <1>4, <1>5, <1>6, <1>7

LEMMA SearchRead ==
    ASSUME ListInv, lask # NoAsk, lask.page = "search", NEW place, NEW b, Reading(place, b)
    PROVE  ListInv'
<1>1. lask.page \in PageNames
  BY DEF PageNames, Reads
<1>2. /\ lask.todo \in {<<"rows", "gate">>, <<"gate">>} /\ Rests(lask.page) = {<<"rows", "gate">>, <<"gate">>}
      /\ lask.asked = "all"
  BY <1>1, AskIs, AskedAre DEF Rests
<1>3. lask.must = {}
  BY <1>1, AskIs, MustOf
<1>4. CASE lask.todo = <<"rows", "gate">>
  <2>1. b.todo = <<"gate">> /\ b.rows = resolve_direct_vm_search(lask.entry[2])
    BY <1>4, Heads DEF Reading, Refused, RowsAfter, PageRows
  <2>2. b.rows \subseteq LPairs
    BY <2>1 DEF resolve_direct_vm_search, get_vm_current_location
  <2>3. lask' = b /\ b.page = lask.page
    BY <1>4, <2>1, Heads DEF Reading
  <2>4. Found'
    BY <2>1, <2>2, <2>3, Tuples DEF Found
  <2> QED
    BY <1>2, <2>1, <2>4, Heads, GoOnKeeps
<1>5. CASE lask.todo = <<"gate">>
  <2>1. b.todo = <<>> /\ (b.rows = {} \/ (b.rows = lask.rows /\ \A p \in lask.rows : _monitoring_vm_visible(p)))
    BY <1>5, Heads DEF Reading, Refused, RowsAfter, Gate
  <2>2. lask.rows \subseteq LPairs
    BY <1>5, AskIs DEF Found
  <2>3. b.rows \subseteq lask.may
    BY <2>1, <2>2, GatedMay
  <2>4. Answers(b.rows)
    BY <1>2, <1>3, <2>3 DEF Answers
  <2> QED
    BY <2>1, <2>4, SendKeeps
<1> QED
  BY <1>2, <1>4, <1>5

LEMMA ApiRead ==
    ASSUME ListInv, lask # NoAsk, lask.page \in {"apinode", "apivm"}, NEW place, NEW b, Reading(place, b)
    PROVE  ListInv'
<1>1. lask.page \in PageNames
  BY DEF PageNames, Reads
<1>2. /\ lask.todo \in {<<"rows", "allow">>, <<"allow">>} /\ Rests(lask.page) = {<<"rows", "allow">>, <<"allow">>}
      /\ lask.asked = "all"
  BY <1>1, AskIs, AskedAre DEF Rests
<1>3. ASSUME NEW x \in lask.must
      PROVE  /\ x \in AllRows /\ _v48126_is_visible(x)
             /\ lask.page = "apivm" => x \in CurrentVms
             /\ lask.page = "apinode" => x \in NodeRows({n \in LNodes : lnode[n].age # Never})
  <2>1. x \in MustShow(lask.page, lask.asked, lask.entry)
    BY AskIs
  <2> QED
    BY <1>1, <2>1, MustVisible, MustOf, ZenonT(60)
<1>4. CASE lask.todo = <<"rows", "allow">>
  <2>1. /\ b.todo = <<"allow">> /\ (lask.page = "apinode" => b.rows = NodeRows(ApiNodeRows))
        /\ lask.page = "apivm" => b.rows = ApiVmRows
    <3>1. b.todo = <<"allow">> /\ b.rows = PageRows(lask.page, lask.group, lask.entry)
      BY <1>4, Heads DEF Reading, Refused, RowsAfter
    <3> QED
      BY <3>1 DEF PageRows
  <2>2. lask' = b /\ b.page = lask.page /\ b.must = lask.must
    BY <1>4, <2>1, Heads DEF Reading
  <2>3. b.must \subseteq b.rows
    BY <1>3, <2>1, <2>2 DEF ApiNodeRows, ApiVmRows, CurrentVms
  <2>4. b.rows \subseteq AllRows
    BY <2>1 DEF ApiNodeRows, ApiVmRows, AllRows, NodeRows
  <2>5. Found'
    BY <2>1, <2>2, <2>3, <2>4, Tuples DEF Found
  <2> QED
    BY <1>2, <2>1, <2>5, Heads, GoOnKeeps
<1>5. CASE lask.todo = <<"allow">>
  <2>1. b.todo = <<>> /\ b.rows = {e \in lask.rows : _v48126_is_visible(e)}
    BY <1>5, Heads DEF Reading, Refused, RowsAfter, Allowed
  <2>2. lask.must \subseteq lask.rows /\ lask.rows \subseteq AllRows
    BY <1>5, AskIs DEF Found
  <2>3. b.rows \subseteq lask.may
    BY <2>1, <2>2, AskIs, ApiMay
  <2>4. Answers(b.rows)
    BY <1>2, <1>3, <2>1, <2>2, <2>3 DEF Answers
  <2> QED
    BY <2>1, <2>4, SendKeeps
<1> QED
  BY <1>2, <1>4, <1>5

LEMMA ListReadKeeps == ASSUME ListInv, ReadNext PROVE ListInv'
<1>1. lask # NoAsk
  BY ReadIs
<1>2. PICK place, b : Reading(place, b)
  BY ReadIs
<1>3. lask.page \in PageNames
  BY <1>1, AskIs
<1> QED
  BY <1>1, <1>2, <1>3, OverviewRead, ConsumptionRead, TopRead, DisksRead, CardsRead, DetailRead, NodeRead, VmRead,
     SearchRead, ApiRead DEF PageNames, Reads

LEMMA ListInitially == ASSUME ListInit PROVE ListInv
<1>1. PICK g \in LCustom :
        lnode = [n \in LNodes |->
            [inv |-> "active", grp |-> IF \A m \in LNodes : n <= m THEN g ELSE Ungrouped, age |-> 0]]
  BY DEF ListInit
<1>2. lnode \in [LNodes -> NodeShapes]
  BY <1>1 DEF NodeShapes, Inventory, GroupIds, Ages
<1>3. lvm \in [LPairs -> VmShapes] /\ \A p \in LPairs : lvm[p].inv # "deleted"
  BY DEF ListInit, VmShapes, Inventory, Ages
<1>4. lactive \in [LCustom -> BOOLEAN] /\ lask = NoAsk /\ lgot = NoAsk
  BY DEF ListInit
<1> QED
  BY <1>2, <1>3, <1>4 DEF ListInv, ListShapes, PagesTell

LEMMA ListStutters == ASSUME ListInv, UNCHANGED listVars PROVE ListInv'
<1>1. /\ lnode' = lnode /\ lvm' = lvm /\ lactive' = lactive /\ lask' = lask /\ lgot' = lgot
  BY DEF listVars
<1>2. ListShapes' /\ PagesTell'
  BY <1>1 DEF ListInv, ListShapes, PagesTell, NodeShapes, VmShapes, Inventory, Ages, GroupIds
<1>3. CASE lask = NoAsk
  BY <1>1, <1>2, <1>3 DEF ListInv
<1>4. CASE lask # NoAsk
  <2>1. lgot = NoAsk /\ AskShape /\ Watched /\ Found
    BY <1>4 DEF ListInv
  <2>2. AskShape'
    BY <1>1, <2>1 DEF AskShape, PageNames, Reads, AskedGroups, AskedEntries, Rests, GroupIds
  <2>3. MayShow(lask.page, lask.entry)' = MayShow(lask.page, lask.entry)
    BY <1>1 DEF MayShow, Shown, ActiveGroup, Unconcealed, _v48126_is_visible, Unhidden
  <2>4. MustShow(lask.page, lask.asked, lask.entry)' = MustShow(lask.page, lask.asked, lask.entry)
    BY <1>1 DEF MustShow, CurrentNodes, CurrentVms, Current, get_vm_current_location, Shown, ActiveGroup,
                Unconcealed, _v48126_is_visible, Unhidden, active_groups
  <2>5. Scope(lask.page, lask.asked)' = Scope(lask.page, lask.asked)
    BY <1>1 DEF Scope, active_groups, ActiveGroup
  <2>6. Watched'
    BY <1>1, <2>1, <2>3, <2>4, <2>5 DEF Watched
  <2>7. GroupTold' = GroupTold /\ Grouped' = Grouped /\ group_nodes(lask.asked)' = group_nodes(lask.asked)
    BY <1>1 DEF GroupTold, Grouped, group_nodes, active_groups, ActiveGroup, GroupIds
  <2>8. Found'
    BY <1>1, <2>1, <2>7 DEF Found
  <2> QED
    BY <1>1, <1>2, <2>1, <2>2, <2>6, <2>8 DEF ListInv
<1> QED
  BY <1>3, <1>4

LEMMA ListStepKeeps == ASSUME ListInv, ListNext PROVE ListInv'
<1>1. CASE \E page \in PageNames : \E g \in AskedGroups(page), e \in AskedEntries(page) : Ask(page, g, e)
  BY <1>1, AskKeeps
<1>2. CASE ReadNext
  BY <1>2, ListReadKeeps
<1>3. ASSUME NEW n \in LNodes, NEW ps \in SUBSET {p \in LPairs : p[1] = n}, NEW bad \in 0..2, ListPush(n, ps, bad)
      PROVE  ListInv'
  <2>1. ps \in SUBSET LPairs
    OBVIOUS
  <2> QED
    BY <1>3, <2>1, ListPushKeeps
<1>4. ASSUME NEW n \in LNodes, admin_delete_node(n) \/ admin_restore_node(n) \/ PurgeVms(n) \/ PurgeNode(n)
      PROVE  ListInv'
  BY <1>4, NodesWrittenKeep, PurgeVmsKeeps, PurgeNodeKeeps DEF admin_delete_node, admin_restore_node
<1>5. ASSUME NEW n \in LNodes, NEW g \in GroupIds, MoveNode(n, g) PROVE ListInv'
  BY <1>5, MoveKeeps
<1>6. ASSUME NEW p \in LPairs, admin_delete_vm(p) \/ admin_restore_vm(p) PROVE ListInv'
  BY <1>6, VmsWrittenKeep DEF admin_delete_vm, admin_restore_vm
<1>7. CASE admin_bulk_nodes(LNodes) \/ admin_bulk_vms(LPairs)
  BY <1>7, NodesWrittenKeep, VmsWrittenKeep DEF admin_bulk_nodes, admin_bulk_vms
<1>8. CASE \E g \in LCustom : SwitchGroup(g)
  BY <1>8, SwitchKeeps
<1>9. CASE run_inventory_cleanup_batches
  BY <1>9, CleanupKeeps
<1>10. CASE \E k \in 1..5 : Elapse(k)
  BY <1>10, ElapseKeeps
<1> QED
  BY <1>1, <1>2, <1>3, <1>4, <1>5, <1>6, <1>7, <1>8, <1>9, <1>10 DEF ListNext, PageNames
=============================================================================
