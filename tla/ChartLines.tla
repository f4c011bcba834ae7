------------------------------ MODULE ChartLines ------------------------------
(***************************************************************************)
(* From the points of a chart to what is drawn (41_ui_layout_r2.py): the   *)
(* usual distance of two points is guessed from the points themselves, a   *)
(* longer distance or a point without a value ends a line, long charts are *)
(* thinned out, some points get a label and every point a zone that tells  *)
(* it.  The older node charts thin out their buckets before they query     *)
(* them (04_charts_vm.py).  Times are in minutes.                          *)
(***************************************************************************)
EXTENDS Integers, Sequences, FiniteSets, FiniteSetsExt, SequencesExt

CONSTANTS
    BucketMinutes,      \* CACHE_BUCKET_SECONDS
    MaxDrawn,           \* max_points, NODE_CHART_MAX_POINTS
    MaxSlots            \* bound: buckets of the period

ASSUME LineConstants == BucketMinutes \in Nat \ {0} /\ MaxDrawn \in Nat \ {0, 1} /\ MaxSlots \in Nat

VARIABLE slots      \* what each bucket of the period has: a value, a point without one, nothing

LinesInit == slots = <<>>

\* Time goes on: a bucket passes with a push, with one that lacks the value, or without.
Pass(kind) == Len(slots) < MaxSlots /\ slots' = Append(slots, kind)
LinesNext == \E kind \in {"value", "void", "nothing"} : Pass(kind)
-----------------------------------------------------------------------------
\* _v5058r5_sorted_chart_rows: the times of the points, in order.
Sorted(S) == [i \in 1 .. Cardinality(S) |-> CHOOSE x \in S : Cardinality({y \in S : y < x}) = i - 1]
_v5058r5_sorted_chart_rows ==
    Sorted({i * BucketMinutes : i \in {j \in DOMAIN slots : slots[j] \in {"value", "void"}}})
Valid(t) == slots[t \div BucketMinutes] = "value"

Gaps(rows) == [i \in 1 .. Len(rows) - 1 |-> rows[i + 1] - rows[i]]

\* _v5058r5_chart_cadence: the middle of the smaller half of the distances, of three at
\* least.
LowerHalf(n) == Max({1, Min({n, Max({3, n \div 2})})})
_v5058r5_chart_cadence(rows) ==
    LET gaps == Gaps(rows)
        upTo(g) == Cardinality({i \in DOMAIN gaps : gaps[i] <= g})
        middle == LowerHalf(Len(gaps)) \div 2
    IN  IF gaps = <<>> THEN BucketMinutes ELSE Min({g \in Range(gaps) : upTo(g) > middle})

\* The longest distance a line crosses.
GapLimit(rows) ==
    LET cadence == _v5058r5_chart_cadence(rows) IN Max({cadence + 1, (cadence * 18) \div 10})

\* _v5058r5_chart_segments, before the lines are thinned out.
LineEnded(s) == IF s.line = <<>> THEN s.lines ELSE Append(s.lines, s.line)
Draw(limit, s, t) ==
    CASE ~Valid(t) -> [lines |-> LineEnded(s), line |-> <<>>, previous |-> 0]
      [] s.previous # 0 /\ t - s.previous > limit ->
            [lines |-> LineEnded(s), line |-> <<t>>, previous |-> t]
      [] OTHER -> [s EXCEPT !.line = Append(@, t), !.previous = t]
Segments(rows) ==
    LineEnded(FoldLeft(LAMBDA s, t : Draw(GapLimit(rows), s, t),
                   [lines |-> <<>>, line |-> <<>>, previous |-> 0], rows))

\* Python's round of a / b: to the even one of two equally near.
Round(a, b) ==
    LET low == a \div b
        twice == 2 * (a % b)
    IN  IF twice < b \/ (twice = b /\ low % 2 = 0) THEN low ELSE low + 1
CeilDiv(a, b) == (a + b - 1) \div b

\* _v5058r5_sample_segments
Allowance(line, total) == Max({2, Round(MaxDrawn * Len(line), total)})
EveryNth(line, n) == [i \in 1 .. CeilDiv(Len(line), n) |-> line[(i - 1) * n + 1]]
Thinned(line, total) ==
    LET allowance == Allowance(line, total)
        stride == Max({1, CeilDiv(Len(line) - 1, Max({1, allowance - 1}))})
        kept == EveryNth(line, stride)
    IN  IF Len(line) <= allowance THEN line
        ELSE IF Last(kept) = Last(line) THEN kept ELSE Append(kept, Last(line))
Total(lines) == FoldLeft(LAMBDA s, line : s + Len(line), 0, lines)
_v5058r5_sample_segments(lines) ==
    IF Total(lines) <= MaxDrawn THEN lines
    ELSE [i \in DOMAIN lines |-> Thinned(lines[i], Total(lines))]
_v5058r5_chart_segments(rows) == _v5058r5_sample_segments(Segments(rows))

\* _sample_real_buckets
_sample_real_buckets(ids) ==
    LET picked == {Round(i * (Len(ids) - 1), MaxDrawn - 1) : i \in 0 .. MaxDrawn - 1}
    IN  IF Len(ids) <= MaxDrawn THEN ids ELSE Sorted({ids[i + 1] : i \in picked})

\* _v5040_chart_step
_v5040_chart_step(rows) == IF Len(rows) < 2 THEN BucketMinutes ELSE Min(Range(Gaps(rows)))

\* _v5058r5_x_labels: the points nearest to five times, or to as many as there are
\* points; the earlier of two, and none twice.
Nearest(rows, target, scale) ==
    LET distance(t) == IF t * scale < target THEN target - t * scale ELSE t * scale - target
        best == {t \in Range(rows) : \A u \in Range(rows) : distance(t) <= distance(u)}
    IN  Min(best)
_v5058r5_x_labels(rows) ==
    LET steps == IF Len(rows) > 5 THEN 4 ELSE Max({1, Len(rows) - 1})
        first == rows[1]
        span == Last(rows) - first
        label(i) == Nearest(rows, first * steps + i * span, steps)
        wanted == [i \in 1 .. IF Len(rows) = 1 THEN 1 ELSE steps + 1 |-> label(i - 1)]
    IN  FoldLeft(LAMBDA s, t : IF t \in Range(s) THEN s ELSE Append(s, t), <<>>, wanted)

\* _v5058r5_hover_zones: from one middle to the next, times doubled.
_v5058r5_hover_zones(rows) ==
    [i \in DOMAIN rows |->
        [left |-> IF i = 1 THEN 2 * rows[1] ELSE rows[i - 1] + rows[i],
         right |-> IF i = Len(rows) THEN 2 * rows[i] ELSE rows[i] + rows[i + 1],
         value |-> Valid(rows[i])]]
-----------------------------------------------------------------------------
Increasing(s) == \A i \in 1 .. Len(s) - 1 : s[i] < s[i + 1]

\* The distance of most pairs of points is that of two pushes.
MostlyNative(rows) ==
    2 * Cardinality({i \in DOMAIN Gaps(rows) : Gaps(rows)[i] = BucketMinutes}) > Len(rows) - 1

\* Every value is drawn once and in order; no line crosses a point without a value; two
\* values with nothing between them are joined; and where most pushes came, no line
\* crosses a bucket without one.
LinesBreakAtGaps ==
    LET rows == _v5058r5_sorted_chart_rows
        lines == Segments(rows)
    IN  /\ FlattenSeq(lines) = SelectSeq(rows, Valid)
        /\ \A i \in DOMAIN lines : lines[i] # <<>>
        /\ \A i \in DOMAIN lines : \A j \in 1 .. Len(lines[i]) - 1 :
              LET between == {k \in DOMAIN slots : /\ lines[i][j] < k * BucketMinutes
                                                   /\ k * BucketMinutes < lines[i][j + 1]}
              IN  /\ \A k \in between : slots[k] # "void"
                  /\ MostlyNative(rows) => between = {}
        /\ \A i \in 1 .. Len(lines) - 1 : lines[i + 1][1] - Last(lines[i]) > BucketMinutes

\* Thinning out keeps every line, its ends and its order, and what it allows; the whole
\* exceeds the maximum by no more than what the shortest lines need.
ThinnedKeepsLines ==
    LET lines == Segments(_v5058r5_sorted_chart_rows)
        drawn == _v5058r5_sample_segments(lines)
    IN  /\ Len(drawn) = Len(lines)
        /\ \A i \in DOMAIN lines :
              /\ Range(drawn[i]) \subseteq Range(lines[i]) /\ Increasing(drawn[i])
              /\ drawn[i][1] = lines[i][1] /\ Last(drawn[i]) = Last(lines[i])
        /\ Total(drawn) <= Total(lines)
        /\ Total(drawn) <= MaxDrawn + 2 * Len(lines)

\* The buckets a node's chart asks for are real ones, in order, from the first to the
\* last, no more than the maximum, and none twice.
SampledAreReal ==
    LET ids == _v5058r5_sorted_chart_rows
        sampled == _sample_real_buckets(ids)
    IN  /\ Range(sampled) \subseteq Range(ids) /\ Increasing(sampled)
        /\ Len(sampled) = Min({Len(ids), MaxDrawn})
        /\ ids # <<>> => sampled[1] = ids[1] /\ Last(sampled) = Last(ids)

\* The ends of a chart are labelled and labels are in order; every moment belongs to one
\* zone, which tells of a point within it and of no value where no line was drawn.
LabelsAndZones ==
    LET rows == _v5058r5_sorted_chart_rows
        labels == _v5058r5_x_labels(rows)
        zones == _v5058r5_hover_zones(rows)
        drawn == Range(FlattenSeq(_v5058r5_chart_segments(rows)))
    IN  rows # <<>> =>
        /\ labels[1] = rows[1] /\ Last(labels) = Last(rows)
        /\ \A i \in 1 .. Len(labels) - 1 : labels[i] < labels[i + 1]
        /\ \A i \in DOMAIN rows : /\ zones[i].left <= 2 * rows[i] /\ 2 * rows[i] <= zones[i].right
                                  /\ rows[i] \in drawn => zones[i].value
        /\ \A i \in 1 .. Len(rows) - 1 : zones[i].right = zones[i + 1].left
        /\ _v5040_chart_step(rows) <= _v5058r5_chart_cadence(rows)

LinesTold == LinesBreakAtGaps /\ ThinnedKeepsLines /\ SampledAreReal /\ LabelsAndZones
=============================================================================
