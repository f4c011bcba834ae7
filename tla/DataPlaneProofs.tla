---------------------------- MODULE DataPlaneProofs ----------------------------
(***************************************************************************)
(* What the scenes of MCDataPlane check on small sets, proved for every    *)
(* value of the constants for the components whose rows refer to one       *)
(* another.                                                                *)
(*                                                                         *)
(* The abuse engine: that a flag stands on a whole streak is not           *)
(* inductive, as the streak of a row is counted whether or not a flag      *)
(* stands on it.  What is missing is that each streak, of whatever length, *)
(* covers cycles in which the rule was hit, that it ends in the cycle of   *)
(* the row's last push and belongs to the row's policy, and that between   *)
(* its reads and its writes a push knows the present rows.                 *)
(*                                                                         *)
(* The current tables: their counts agree because every row has the time   *)
(* of an accepted payload, so that no row can seem to belong to a payload  *)
(* that has yet to come, and because no chart row of the node is newer     *)
(* than the node's row.                                                    *)
(*                                                                         *)
(* Readings: what a key is owed is the difference of its counter and the   *)
(* committed state only if a cycle under way has read it between the two,  *)
(* and, when its inventory is complete, has named and read every VM that   *)
(* is not excused; the samples of a tap reach to its last scan.            *)
(***************************************************************************)
EXTENDS MCDataPlane, PagesProofs, FiniteSetTheorems, TLAPS

-----------------------------------------------------------------------------
(* The abuse engine.                                                       *)

StateRow == [on : BOOLEAN, flags : SUBSET Rules, since : 0..MaxT,
             rev : 0..MaxRev, bucket : 0..Cycle(MaxT),
             cyc : [Sustained -> 0..Cycle(MaxT)], seen : 0..MaxT]
Policies == [rev : 1..MaxRev, need : Needs, warn : {1, 2}]
AbuseEvents == [type : EventTypes, t : 1..MaxT, flags : SUBSET Rules]

\* AbuseTypeOK with the domains of all variables; of events and incidents only as
\* long as nobody has selected among the events.
AbuseShapes ==
    /\ policy \in Policies
    /\ st \in [AVms -> StateRow]
    /\ seenAt \in [AVms -> 0..MaxT]
    /\ open = [v \in AVms |-> open[v]]
    /\ asked = 0 => events \in [AVms -> Seq(AbuseEvents)]
    /\ hit \in [AVms -> [Sustained -> SUBSET Int]]
    /\ whole \in [AVms -> BOOLEAN]
    /\ asked \in Nat
    /\ apush = NoPush
       \/ apush \in [t : 1..MaxT, rep : Reports, cfg : Policies, before : [AVms -> StateRow]]

\* A row is abusive only under the policy, and its streaks are the last cycles in
\* which their rules were hit.
RowHolds(s, v) ==
    /\ s.on <=> s.flags # {}
    /\ s.on <=> s.since # 0
    /\ s.seen \in {0, seenAt[v]}
    /\ s.on => s.rev = policy.rev
    /\ s.bucket \in {0, Cycle(s.seen)}
    /\ \A r \in Sustained :
        /\ s.cyc[r] <= s.bucket
        /\ s.cyc[r] # 0 => s.rev = policy.rev
        /\ (s.bucket - s.cyc[r] + 1)..s.bucket \subseteq hit[v][r]
        /\ r \in s.flags => s.cyc[r] >= policy.need

\* Between its reads and its writes a push knows the states and the policy.
ReadHolds == apush # NoPush => apush.before = st /\ apush.cfg = policy

AbuseInv ==
    /\ AbuseShapes /\ ReadHolds
    /\ \A v \in AVms : RowHolds(st[v], v)
    /\ WholeOpenIsActive /\ StateIsTold

LEMMA NoStateHolds ==
    ASSUME AbuseShapes
    PROVE  /\ NoState \in StateRow
           /\ \A v \in AVms : RowHolds(NoState, v)
<1>1. Cycle(MaxT) \in Nat /\ Cycle(0) = 0 /\ 0 \in 0..MaxT /\ 0 \in 0..MaxRev
  BY AbuseAssumption DEF Cycle
<1>2. NoState \in StateRow
  BY <1>1 DEF NoState, StateRow
<1>3. ASSUME NEW v \in AVms PROVE RowHolds(NoState, v)
  BY <1>1 DEF NoState, RowHolds
<1> QED
  BY <1>2, <1>3

LEMMA AbuseStart == AbuseInit => AbuseInv
<1> SUFFICES ASSUME AbuseInit PROVE AbuseInv
  OBVIOUS
<1>1. PICK k \in Needs : policy = [rev |-> 1, need |-> k, warn |-> 1]
  BY DEF AbuseInit
<1>2. Cycle(MaxT) \in Nat /\ 0 \in 0..MaxT /\ 0 \in 0..MaxRev /\ 0 \in 0..Cycle(MaxT)
  BY AbuseAssumption DEF Cycle
<1>3. policy \in Policies
  BY <1>1, AbuseAssumption DEF Policies
<1>4. NoState \in StateRow
  BY <1>2 DEF NoState, StateRow
<1>5. AbuseShapes
  BY <1>2, <1>3, <1>4 DEF AbuseInit, AbuseShapes
<1>6. \A v \in AVms : RowHolds(st[v], v)
  BY <1>5, NoStateHolds DEF AbuseInit
<1>7. ReadHolds /\ WholeOpenIsActive /\ StateIsTold
  BY DEF AbuseInit, ReadHolds, WholeOpenIsActive, StateIsTold, NoState
<1> QED
  BY <1>5, <1>6, <1>7 DEF AbuseInv

\* A state in which nothing about a VM has changed.
LEMMA RowStays ==
    ASSUME NEW v \in AVms, RowHolds(st[v], v), st'[v] = st[v], seenAt'[v] = seenAt[v],
           policy' = policy, hit'[v] = hit[v]
    PROVE  RowHolds(st[v], v)'
  BY DEF RowHolds

\* A VM without a state.
LEMMA RowReset ==
    ASSUME NEW v \in AVms, AbuseShapes', st'[v] = NoState
    PROVE  RowHolds(st[v], v)'
<1>1. Cycle(0) = 0
  BY DEF Cycle
<1>2. NoState.cyc = [r \in Sustained |-> 0] /\ NoState.bucket = 0 /\ NoState.seen = 0
      /\ NoState.on = FALSE /\ NoState.flags = {} /\ NoState.since = 0
  BY DEF NoState
<1> QED
  BY <1>1, <1>2 DEF RowHolds

LEMMA AbusePush ==
    ASSUME AbuseInv, PushWrite
    PROVE  AbuseInv'
<1> DEFINE t == apush.t
           hits == apush.rep.hits
<1>1. /\ apush \in [t : 1..MaxT, rep : Reports, cfg : Policies, before : [AVms -> StateRow]]
      /\ apush.before = st /\ apush.cfg = policy /\ policy' = policy /\ asked' = asked
      /\ whole' = whole /\ apush' = NoPush /\ policy \in Policies
  BY DEF AbuseInv, AbuseShapes, ReadHolds, PushWrite
<1>2. /\ t \in 1..MaxT /\ apush.rep.warn \in {1, 2} /\ apush.rep.complete \in BOOLEAN
      /\ \A v \in DOMAIN hits : hits[v] \in SUBSET Rules
  BY <1>1, AbuseAssumption
<1>3. Cycle(t) \in Nat \ {0} /\ Cycle(t) \in Int /\ t # 0 /\ t \in Nat /\ MaxT \in Nat
  BY <1>2, AbuseAssumption DEF Cycle
<1>4. ASSUME NEW v \in AVms
      PROVE  /\ st'[v] = IF Fresh(v) THEN Evaluated(st[v], hits[v], t, apush.rep.warn, policy)
                         ELSE IF Dropped(v, st) THEN NoState ELSE st[v]
             /\ seenAt'[v] = IF Fresh(v) THEN t
                             ELSE IF apush.rep.complete /\ seenAt[v] < t THEN 0 ELSE seenAt[v]
             /\ After[v] = st'[v]
             /\ \A r \in Sustained :
                  hit'[v][r] = IF ~Fresh(v) THEN hit[v][r]
                               ELSE IF r \in hits[v] THEN hit[v][r] \cup {Cycle(t)}
                               ELSE hit[v][r] \ {Cycle(t)}
             /\ open'[v] = Incident(open[v], EventOf(v), t, After[v].since)
             /\ events'[v] = IF EventOf(v) = "none" THEN events[v]
                   ELSE Append(events[v], [type |-> EventOf(v), t |-> t,
                          flags |-> IF EventOf(v) = "recovered" THEN st[v].flags
                                    ELSE After[v].flags])
  BY <1>1 DEF PushWrite, After
<1>5. ASSUME NEW v \in AVms
      PROVE  /\ st[v] \in StateRow /\ RowHolds(st[v], v) /\ seenAt[v] \in 0..MaxT
             /\ hit[v] \in [Sustained -> SUBSET Int]
             /\ NoState \in StateRow
             /\ Fresh(v) => hits[v] \in SUBSET Rules /\ seenAt[v] <= t
  BY <1>2, NoStateHolds DEF AbuseInv, AbuseShapes, Fresh
<1>6. ASSUME NEW v \in AVms
      PROVE  /\ st'[v] \in StateRow /\ seenAt'[v] \in 0..MaxT /\ RowHolds(st[v], v)'
             /\ Fresh(v) => st'[v].since = IF ~st'[v].on THEN 0
                             ELSE IF st[v].on /\ st[v].rev = policy.rev THEN st[v].since ELSE t
  <2>1. CASE Fresh(v)
    <3>1. /\ st'[v] \in StateRow
          /\ st'[v].on <=> st'[v].flags # {}
          /\ st'[v].on <=> st'[v].since # 0
          /\ st'[v].seen = t /\ st'[v].rev = policy.rev /\ st'[v].bucket = Cycle(t)
          /\ st'[v].since = IF ~st'[v].on THEN 0
                            ELSE IF st[v].on /\ st[v].rev = policy.rev THEN st[v].since ELSE t
          /\ \A r \in Sustained :
               /\ st'[v].cyc[r] \in 0..Cycle(t)
               /\ r \notin hits[v] => st'[v].cyc[r] = 0
               /\ r \in hits[v] => \/ st'[v].cyc[r] = 1
                                   \/ /\ Cycle(t) - st'[v].cyc[r] = st[v].bucket - st[v].cyc[r]
                                      /\ Cycle(t) \in {st[v].bucket, st[v].bucket + 1}
               /\ r \in st'[v].flags => st'[v].cyc[r] >= policy.need
      <4> PICK h, warn : h = hits[v] /\ warn = apush.rep.warn
        OBVIOUS
      <4> DEFINE e == Evaluated(st[v], h, t, warn, policy)
      <4>a. /\ RowHolds(st[v], v) /\ h \in SUBSET Rules /\ warn \in {1, 2}
            /\ seenAt[v] <= t /\ t \in 1..MaxT
        BY <1>2, <1>5, <2>1
      <4>b. st'[v] = e
        BY <1>4, <2>1
      <4> HIDE DEF t, hits
      <4>1. /\ st[v] \in StateRow /\ policy \in Policies /\ seenAt[v] \in 0..MaxT
            /\ "pps" \notin Sustained /\ MaxT \in Nat
        BY AbuseAssumption DEF AbuseShapes, AbuseInv
      <4>2. st[v].seen <= t
        BY <4>1, <4>a DEF RowHolds, StateRow
      <4>3. ASSUME NEW r \in Sustained
            PROVE  /\ e.cyc[r] \in 0..Cycle(t)
                   /\ r \notin h => e.cyc[r] = 0
                   /\ r \in h => \/ e.cyc[r] = 1
                                 \/ /\ Cycle(t) - e.cyc[r] = st[v].bucket - st[v].cyc[r]
                                    /\ Cycle(t) \in {st[v].bucket, st[v].bucket + 1}
        <5> DEFINE advance == st[v].bucket # Cycle(t)
                   same == st[v].rev = policy.rev
                   contiguous == st[v].bucket # 0 /\ Cycle(t) - st[v].bucket = 1
                   n == e.cyc[r]
        <5>1. n = NextStreak(st[v].cyc[r], r \in h, same, contiguous, advance)
          BY DEF Evaluated
        <5>2. /\ st[v].bucket \in {0, Cycle(st[v].seen)} /\ st[v].cyc[r] <= st[v].bucket
              /\ st[v].cyc[r] # 0 => st[v].rev = policy.rev
          BY <4>a DEF RowHolds
        <5>3. /\ st[v].cyc[r] \in Nat /\ st[v].bucket \in Nat /\ t \in Nat \ {0}
              /\ st[v].seen \in Nat
          BY <4>1, <4>a DEF StateRow, Cycle
        <5>4. Cycle(t) \in Nat \ {0} /\ st[v].bucket <= Cycle(t)
          BY <4>2, <5>2, <5>3 DEF Cycle
        <5>5. n = IF r \notin h THEN 0
                  ELSE IF ~advance THEN IF st[v].cyc[r] > 1 THEN st[v].cyc[r] ELSE 1
                  ELSE IF same /\ contiguous THEN st[v].cyc[r] + 1 ELSE 1
          <6>1. CASE r \notin h
            BY <5>1, <6>1 DEF NextStreak
          <6>2. CASE r \in h /\ ~advance
            BY <5>1, <6>2 DEF NextStreak
          <6>3. CASE r \in h /\ advance
            BY <5>1, <6>3 DEF NextStreak
          <6> QED
            BY <6>1, <6>2, <6>3
        <5> HIDE DEF n
        <5>6. /\ n \in 0..Cycle(t)
              /\ r \notin h => n = 0
              /\ r \in h => \/ n = 1
                            \/ /\ Cycle(t) - n = st[v].bucket - st[v].cyc[r]
                               /\ Cycle(t) \in {st[v].bucket, st[v].bucket + 1}
          BY <5>2, <5>3, <5>4, <5>5
        <5> QED
          BY <5>6 DEF n
      <4>4. e.seen = t /\ e.rev = policy.rev /\ e.bucket = Cycle(t)
        BY DEF Evaluated
      <4>5. /\ e.on \in BOOLEAN /\ (e.on <=> e.flags # {}) /\ e.flags \subseteq Rules
            /\ \A r \in Sustained : r \in e.flags => e.cyc[r] >= policy.need
        <5>1. e.flags = {r \in Sustained : r \in h /\ e.cyc[r] >= policy.need}
                        \cup {r \in {"pps"} : r \in h /\ PpsSynced(warn, policy)}
          BY DEF Evaluated
        <5>2. e.on = (e.flags # {})
          BY DEF Evaluated
        <5> QED
          BY <4>1, <4>a, <5>1, <5>2
      <4>6. e.since = IF ~e.on THEN 0
                      ELSE IF st[v].on /\ st[v].rev = policy.rev THEN st[v].since ELSE t
        BY DEF Evaluated
      <4>7. /\ e = [on |-> e.on, flags |-> e.flags, rev |-> e.rev, bucket |-> e.bucket,
                    cyc |-> e.cyc, seen |-> e.seen, since |-> e.since]
            /\ e.cyc = [r \in Sustained |-> e.cyc[r]]
        BY DEF Evaluated
      <4> HIDE DEF e
      <4>8. Cycle(t) \in 0..Cycle(MaxT) /\ Cycle(MaxT) \in Nat /\ t \in 0..MaxT /\ t # 0
        BY <4>1, <4>a DEF Cycle
      <4>9. e.cyc \in [Sustained -> 0..Cycle(MaxT)]
        BY <4>3, <4>7, <4>8
      <4>10. e.since \in 0..MaxT /\ (e.on <=> e.since # 0)
        BY <4>1, <4>6, <4>8, <4>a DEF RowHolds, StateRow
      <4>11. policy.rev \in 0..MaxRev
        BY <4>1, AbuseAssumption DEF Policies
      <4>12. e \in StateRow
        BY <4>4, <4>5, <4>7, <4>8, <4>9, <4>10, <4>11 DEF StateRow
      <4> QED
        BY <4>b, <4>3, <4>4, <4>5, <4>6, <4>10, <4>12
    <3>2. seenAt'[v] = t
      BY <1>4, <2>1
    <3>3. ASSUME NEW r \in Sustained
          PROVE  (st'[v].bucket - st'[v].cyc[r] + 1)..st'[v].bucket \subseteq hit'[v][r]
      <4>1. /\ (st[v].bucket - st[v].cyc[r] + 1)..st[v].bucket \subseteq hit[v][r]
            /\ st[v].bucket \in Nat /\ st[v].cyc[r] \in Nat
        BY <1>5 DEF RowHolds, StateRow
      <4>2. CASE r \in hits[v]
        <5>1. hit'[v][r] = hit[v][r] \cup {Cycle(t)}
          BY <1>4, <2>1, <4>2
        <5> QED
          BY <1>3, <3>1, <4>1, <4>2, <5>1
      <4>3. CASE r \notin hits[v]
        BY <1>3, <3>1, <4>3
      <4> QED
        BY <4>2, <4>3
    <3>4. RowHolds(st[v], v)'
      BY <1>1, <1>3, <3>1, <3>2, <3>3 DEF RowHolds
    <3> QED
      BY <1>2, <3>1, <3>2, <3>4
  <2>2. CASE ~Fresh(v) /\ Dropped(v, st)
    <3>1. st'[v] = NoState /\ seenAt'[v] \in 0..MaxT
      <4>1. st'[v] = NoState
        BY <1>4, <2>2, Zenon
      <4>2. seenAt'[v] \in {0, t, seenAt[v]}
        BY <1>4
      <4> QED
        BY <1>2, <1>3, <1>5, <4>1, <4>2
    <3>2. Cycle(0) = 0
      BY DEF Cycle
    <3>3. RowHolds(st[v], v)'
      BY <3>1, <3>2 DEF RowHolds, NoState
    <3> QED
      BY <1>5, <2>2, <3>1, <3>3
  <2>3. CASE ~Fresh(v) /\ ~Dropped(v, st)
    <3>1. st'[v] = st[v] /\ \A r \in Sustained : hit'[v][r] = hit[v][r]
      BY <1>4, <2>3
    <3>2. seenAt'[v] = IF apush.rep.complete /\ seenAt[v] < t THEN 0 ELSE seenAt[v]
      BY <1>4, <2>3
    <3>3. st'[v].seen \in {0, seenAt'[v]} /\ seenAt'[v] \in 0..MaxT
      BY <1>3, <1>5, <2>3, <3>1, <3>2 DEF RowHolds, Dropped
    <3>4. RowHolds(st[v], v)'
      BY <1>1, <1>5, <3>1, <3>3 DEF RowHolds
    <3> QED
      BY <1>5, <2>3, <3>1, <3>3, <3>4
  <2> QED
    BY <2>1, <2>2, <2>3
<1>7. ASSUME NEW v \in AVms
      PROVE  /\ open'[v] # 0 /\ whole[v] => st'[v].on /\ st'[v].rev = policy.rev
             /\ EventOf(v) \in EventTypes \cup {"none"}
             /\ asked = 0 /\ st'[v].on =>
                  /\ open'[v] = st'[v].since
                  /\ EventOf(v) = "none" => st[v].on /\ st'[v].flags = st[v].flags
                  /\ EventOf(v) # "recovered"
  <2> DEFINE was == st[v].on
             n == st'[v]
  <2>1. /\ st[v] \in StateRow /\ n \in StateRow
        /\ was => st[v].rev = policy.rev
        /\ n.on => n.rev = policy.rev
        /\ asked = 0 /\ was => open[v] = st[v].since
        /\ was <=> st[v].since # 0
        /\ was <=> st[v].flags # {}
        /\ n.on <=> n.flags # {}
        /\ whole[v] /\ open[v] # 0 => was
    BY <1>1, <1>5, <1>6 DEF RowHolds, AbuseInv, StateIsTold, WholeOpenIsActive
  <2>2. EventOf(v) = IF n.on /\ ~was THEN "started"
                     ELSE IF n.on /\ n.flags # st[v].flags THEN "updated"
                     ELSE IF was /\ ~n.on THEN "recovered" ELSE "none"
    BY <1>1, <1>4, <2>1 DEF EventOf
  <2>3. n.on => n.since = IF was THEN st[v].since ELSE t
    <3>1. CASE Fresh(v)
      BY <1>6, <2>1, <3>1
    <3>2. CASE ~Fresh(v)
      <4>1. st'[v] = NoState \/ st'[v] = st[v]
        BY <1>4, <3>2, Zenon
      <4>2. ~NoState.on
        BY DEF NoState
      <4> QED
        BY <2>1, <4>1, <4>2
    <3> QED
      BY <3>1, <3>2
  <2>4. open'[v] = Incident(open[v], EventOf(v), t, n.since)
    BY <1>4
  <2>5. CASE n.on /\ ~was
    <3>1. EventOf(v) = "started" /\ open'[v] = t
      BY <2>2, <2>4, <2>5 DEF Incident
    <3> QED
      BY <2>1, <2>3, <2>5, <3>1 DEF EventTypes
  <2>6. CASE n.on /\ was /\ n.flags # st[v].flags
    <3>1. EventOf(v) = "updated" /\ open'[v] = IF open[v] # 0 THEN open[v] ELSE n.since
      BY <2>2, <2>4, <2>6 DEF Incident
    <3> QED
      BY <2>1, <2>3, <2>6, <3>1 DEF EventTypes
  <2>7. CASE n.on /\ was /\ n.flags = st[v].flags
    <3>1. EventOf(v) = "none" /\ open'[v] = open[v]
      BY <2>2, <2>4, <2>7 DEF Incident
    <3> QED
      BY <2>1, <2>3, <2>7, <3>1
  <2>8. CASE ~n.on /\ was
    <3>1. EventOf(v) = "recovered" /\ open'[v] = 0
      BY <2>2, <2>4, <2>8 DEF Incident
    <3> QED
      BY <2>1, <2>8, <3>1 DEF EventTypes
  <2>9. CASE ~n.on /\ ~was
    <3>1. EventOf(v) = "none" /\ open'[v] = open[v]
      BY <2>2, <2>4, <2>9 DEF Incident
    <3> QED
      BY <2>1, <2>9, <3>1
  <2> QED
    BY <2>1, <2>5, <2>6, <2>7, <2>8, <2>9 DEF StateRow
<1>8. ASSUME asked = 0, NEW v \in AVms
      PROVE  /\ events'[v] \in Seq(AbuseEvents)
             /\ st'[v].on => /\ open'[v] = st'[v].since /\ events'[v] # <<>>
                             /\ LET e == events'[v][Len(events'[v])]
                                IN  e.type # "recovered" /\ e.flags = st'[v].flags
  <2>1. events[v] \in Seq(AbuseEvents)
    BY <1>8 DEF AbuseInv, AbuseShapes
  <2>2. CASE EventOf(v) = "none"
    BY <1>4, <1>7, <1>8, <2>1, <2>2 DEF AbuseInv, StateIsTold
  <2>3. CASE EventOf(v) # "none"
    <3> DEFINE e == [type |-> EventOf(v), t |-> t,
                     flags |-> IF EventOf(v) = "recovered" THEN st[v].flags
                               ELSE After[v].flags]
    <3>1. events'[v] = Append(events[v], e)
      BY <1>4, <2>3
    <3>2. e \in AbuseEvents
      BY <1>2, <1>4, <1>5, <1>6, <1>7, <2>3 DEF AbuseEvents, StateRow
    <3>3. e.type = EventOf(v) /\ (EventOf(v) # "recovered" => e.flags = st'[v].flags)
      BY <1>4
    <3> HIDE DEF e
    <3>4. /\ events'[v] \in Seq(AbuseEvents) /\ events'[v] # <<>>
          /\ events'[v][Len(events'[v])] = e
      BY <2>1, <3>1, <3>2
    <3> QED
      BY <1>7, <1>8, <3>3, <3>4
  <2> QED
    BY <2>2, <2>3
<1>9. st' \in [AVms -> StateRow] /\ seenAt' \in [AVms -> 0..MaxT]
  BY <1>6 DEF PushWrite, After
<1>10. hit' \in [AVms -> [Sustained -> SUBSET Int]]
  <2>1. ASSUME NEW v \in AVms, NEW r \in Sustained PROVE hit'[v][r] \in SUBSET Int
    <3>1. hit[v][r] \in SUBSET Int /\ Cycle(t) \in Int
      BY <1>3, <1>5
    <3>2. hit'[v][r] \in {hit[v][r], hit[v][r] \cup {Cycle(t)}, hit[v][r] \ {Cycle(t)}}
      BY <1>4
    <3> QED
      BY <3>1, <3>2
  <2>2. hit' = [v \in AVms |-> [r \in Sustained |-> hit'[v][r]]]
    BY DEF PushWrite
  <2> QED
    BY <2>1, <2>2
<1>11. /\ events' = [v \in AVms |-> events'[v]] /\ open' = [v \in AVms |-> open'[v]]
  BY DEF PushWrite
<1>12. AbuseShapes'
  BY <1>1, <1>8, <1>9, <1>10, <1>11 DEF AbuseShapes, AbuseInv
<1>13. ReadHolds'
  BY <1>1 DEF ReadHolds
<1>14. WholeOpenIsActive'
  BY <1>1, <1>7 DEF WholeOpenIsActive
<1>15. StateIsTold'
  BY <1>1, <1>8 DEF StateIsTold
<1> QED
  BY <1>6, <1>12, <1>13, <1>14, <1>15 DEF AbuseInv

\* A request of an administrator that leaves a row as it is, or resets it.
LEMMA AbuseRequest ==
    ASSUME AbuseInv, ~Overlap, AskAbuse, policy' = policy, apush' = apush,
           \A v \in AVms : \/ st'[v] = st[v] /\ seenAt'[v] = seenAt[v] /\ hit'[v] = hit[v]
                           \/ st'[v] = NoState,
           st' \in [AVms -> StateRow], seenAt' \in [AVms -> 0..MaxT],
           open' = [v \in AVms |-> open'[v]], whole' \in [AVms -> BOOLEAN],
           hit' \in [AVms -> [Sustained -> SUBSET Int]],
           \A v \in AVms : whole'[v] =>
               \/ open'[v] = 0
               \/ open'[v] = open[v] /\ st'[v] = st[v] /\ whole[v]
    PROVE  AbuseInv'
<1>1. apush = NoPush /\ asked' = asked + 1 /\ asked \in Nat /\ policy \in Policies
  BY DEF AskAbuse, MayCommit, AbuseInv, AbuseShapes
<1>2. AbuseShapes'
  BY <1>1 DEF AbuseShapes
<1>3. ReadHolds'
  BY <1>1 DEF ReadHolds
<1>4. ASSUME NEW v \in AVms PROVE RowHolds(st[v], v)'
  <2>1. CASE st'[v] = NoState
    BY <1>2, <2>1, RowReset
  <2>2. CASE st'[v] # NoState
    BY <2>2, RowStays DEF AbuseInv
  <2> QED
    BY <2>1, <2>2
<1>5. WholeOpenIsActive'
  BY DEF AbuseInv, WholeOpenIsActive
<1>6. StateIsTold'
  BY <1>1 DEF StateIsTold
<1> QED
  BY <1>2, <1>3, <1>4, <1>5, <1>6 DEF AbuseInv

LEMMA AbuseStep ==
    ASSUME ~Overlap, AbuseInv, [AbuseNext]_abuseVars
    PROVE  AbuseInv'
<1>0. /\ st \in [AVms -> StateRow] /\ seenAt \in [AVms -> 0..MaxT]
      /\ open = [v \in AVms |-> open[v]] /\ whole \in [AVms -> BOOLEAN]
      /\ hit \in [AVms -> [Sustained -> SUBSET Int]] /\ policy \in Policies
      /\ NoState \in StateRow /\ MaxT \in Nat /\ 0 \in 0..MaxT
  BY NoStateHolds, AbuseAssumption DEF AbuseInv, AbuseShapes
<1>1. CASE UNCHANGED abuseVars
  <2>1. /\ policy' = policy /\ st' = st /\ seenAt' = seenAt /\ open' = open
        /\ events' = events /\ apush' = apush /\ asked' = asked /\ hit' = hit
        /\ whole' = whole
    BY <1>1 DEF abuseVars
  <2>2. AbuseShapes' /\ ReadHolds' /\ WholeOpenIsActive' /\ StateIsTold'
    BY <2>1 DEF AbuseInv, AbuseShapes, ReadHolds, WholeOpenIsActive, StateIsTold
  <2>3. \A v \in AVms : RowHolds(st[v], v)'
    BY <2>1, RowStays DEF AbuseInv
  <2> QED
    BY <2>2, <2>3 DEF AbuseInv
<1>2. ASSUME NEW t \in 1..MaxT, NEW rep \in Reports, ReadState(t, rep) PROVE AbuseInv'
  <2>1. /\ policy' = policy /\ st' = st /\ seenAt' = seenAt /\ open' = open
        /\ events' = events /\ asked' = asked /\ hit' = hit /\ whole' = whole
        /\ apush' = [t |-> t, rep |-> rep, cfg |-> policy, before |-> st]
    BY <1>2 DEF ReadState
  <2>2. AbuseShapes' /\ ReadHolds' /\ WholeOpenIsActive' /\ StateIsTold'
    BY <1>0, <2>1 DEF AbuseInv, AbuseShapes, ReadHolds, WholeOpenIsActive, StateIsTold
  <2>3. \A v \in AVms : RowHolds(st[v], v)'
    BY <2>1, RowStays DEF AbuseInv
  <2> QED
    BY <2>2, <2>3 DEF AbuseInv
<1>3. CASE PushWrite
  BY <1>3, AbusePush
<1>4. ASSUME NEW k \in Needs, NEW w \in {1, 2}, save_policy(k, w) PROVE AbuseInv'
  <2>1. /\ apush = NoPush /\ apush' = NoPush /\ seenAt' = seenAt /\ events' = events
        /\ asked' = asked /\ whole' = whole /\ policy.rev < MaxRev
        /\ policy' = [rev |-> policy.rev + 1, need |-> k, warn |-> w]
        /\ open' = [v \in AVms |-> 0]
        /\ hit' = [v \in AVms |-> [r \in Sustained |-> {}]]
    BY <1>4 DEF save_policy, MayCommit
  <2>2. policy' \in Policies /\ policy.rev + 1 \in 0..MaxRev
    BY <1>0, <2>1, AbuseAssumption DEF Policies
  <2>3. ASSUME NEW v \in AVms
        PROVE  /\ st'[v] \in StateRow /\ ~st'[v].on /\ st'[v].flags = {}
               /\ st'[v].since = 0 /\ st'[v].seen \in {0, st[v].seen} /\ st'[v].bucket = 0
               /\ \A r \in Sustained : st'[v].cyc[r] = 0
    <3>1. st'[v] = NoState \/ st'[v] = [NoState EXCEPT !.rev = policy.rev + 1, !.seen = st[v].seen]
      BY <1>4 DEF save_policy, ResetForPolicy
    <3>2. st[v].seen \in 0..MaxT
      BY <1>0 DEF StateRow
    <3>3. CASE st'[v] = NoState
      BY <1>0, <3>3 DEF NoState
    <3>4. CASE st'[v] = [NoState EXCEPT !.rev = policy.rev + 1, !.seen = st[v].seen]
      <4>1. st'[v] = [on |-> FALSE, flags |-> {}, since |-> 0, rev |-> policy.rev + 1,
                      bucket |-> 0, cyc |-> [r \in Sustained |-> 0], seen |-> st[v].seen]
        BY <3>4 DEF NoState
      <4>2. 0 \in 0..Cycle(MaxT)
        BY <1>0 DEF Cycle
      <4> QED
        BY <1>0, <2>2, <3>2, <4>1, <4>2 DEF StateRow
    <3> QED
      BY <3>1, <3>3, <3>4
  <2>4. st' = [v \in AVms |-> st'[v]]
    BY <1>4 DEF save_policy, ResetForPolicy
  <2>5. AbuseShapes'
    BY <1>0, <2>1, <2>2, <2>3, <2>4 DEF AbuseShapes, AbuseInv
  <2>6. \A v \in AVms : RowHolds(st[v], v)'
    BY <2>1, <2>3 DEF RowHolds, AbuseInv
  <2>7. ReadHolds' /\ WholeOpenIsActive' /\ StateIsTold'
    BY <2>1, <2>3 DEF ReadHolds, WholeOpenIsActive, StateIsTold
  <2> QED
    BY <2>5, <2>6, <2>7 DEF AbuseInv
<1>5. ASSUME NEW types \in SUBSET EventTypes, ClearMatching(types) PROVE AbuseInv'
  <2>1. /\ AskAbuse /\ open' = [v \in AVms |-> open'[v]] /\ whole' = [v \in AVms |-> FALSE]
        /\ policy' = policy /\ st' = st /\ seenAt' = seenAt /\ apush' = apush /\ hit' = hit
    BY <1>5 DEF ClearMatching
  <2> QED
    BY <1>0, <2>1, AbuseRequest
<1>6. CASE ClearAll
  <2>1. /\ AskAbuse /\ open' = [v \in AVms |-> 0] /\ whole' = whole
        /\ policy' = policy /\ st' = st /\ seenAt' = seenAt /\ apush' = apush /\ hit' = hit
    BY <1>6 DEF ClearAll
  <2> QED
    BY <1>0, <2>1, AbuseRequest
<1>7. CASE ResetAll
  <2>1. /\ AskAbuse /\ open' = [v \in AVms |-> 0] /\ whole' = whole
        /\ policy' = policy /\ st' = [v \in AVms |-> NoState] /\ seenAt' = seenAt
        /\ apush' = apush /\ hit' = [v \in AVms |-> [r \in Sustained |-> {}]]
    BY <1>7 DEF ResetAll
  <2> QED
    BY <1>0, <2>1, AbuseRequest
<1>8. ASSUME NEW u \in AVms, PurgeVm(u) PROVE AbuseInv'
  <2>1. /\ AskAbuse /\ policy' = policy /\ whole' = whole /\ apush' = apush
        /\ st' = [st EXCEPT ![u] = NoState] /\ seenAt' = [seenAt EXCEPT ![u] = 0]
        /\ open' = [open EXCEPT ![u] = 0]
        /\ hit' = [hit EXCEPT ![u] = [r \in Sustained |-> {}]]
    BY <1>8 DEF PurgeVm
  <2>2. ASSUME NEW v \in AVms
        PROVE  /\ v # u => st'[v] = st[v] /\ seenAt'[v] = seenAt[v] /\ hit'[v] = hit[v]
                           /\ open'[v] = open[v]
               /\ v = u => st'[v] = NoState /\ open'[v] = 0
    BY <1>0, <2>1
  <2>3. /\ st' \in [AVms -> StateRow] /\ seenAt' \in [AVms -> 0..MaxT]
        /\ hit' \in [AVms -> [Sustained -> SUBSET Int]]
        /\ open' = [v \in AVms |-> open'[v]]
    BY <1>0, <2>1
  <2>4. \A v \in AVms : whole'[v] => \/ open'[v] = 0
                                     \/ open'[v] = open[v] /\ st'[v] = st[v] /\ whole[v]
    BY <2>1, <2>2
  <2>5. \A v \in AVms : \/ st'[v] = st[v] /\ seenAt'[v] = seenAt[v] /\ hit'[v] = hit[v]
                        \/ st'[v] = NoState
    BY <2>2
  <2> QED
    BY <1>0, <2>1, <2>3, <2>4, <2>5, AbuseRequest
<1>9. ASSUME NEW u \in AVms, NEW rows \in BOOLEAN, NEW incidents \in BOOLEAN,
             NEW current \in BOOLEAN, ManageVm(u, rows, incidents, current)
      PROVE  AbuseInv'
  <2>1. /\ AskAbuse /\ policy' = policy /\ apush' = apush /\ seenAt' = seenAt
        /\ st' = IF current THEN [st EXCEPT ![u] = NoState] ELSE st
        /\ open' = IF incidents THEN [open EXCEPT ![u] = 0] ELSE open
        /\ hit' = IF current THEN [hit EXCEPT ![u] = [r \in Sustained |-> {}]] ELSE hit
        /\ whole' = [whole EXCEPT ![u] = whole[u] /\ (current => incidents)]
    BY <1>9 DEF ManageVm
  <2>2. ASSUME NEW v \in AVms
        PROVE  /\ v # u => st'[v] = st[v] /\ hit'[v] = hit[v] /\ open'[v] = open[v]
                           /\ whole'[v] = whole[v]
               /\ v = u => whole'[v] = (whole[v] /\ (current => incidents))
               /\ v = u /\ incidents => open'[v] = 0
               /\ v = u /\ ~incidents => open'[v] = open[v]
               /\ v = u /\ current => st'[v] = NoState
               /\ ~current => st'[v] = st[v] /\ hit'[v] = hit[v]
    BY <1>0, <2>1
  <2>3. /\ st' \in [AVms -> StateRow] /\ hit' \in [AVms -> [Sustained -> SUBSET Int]]
        /\ open' = [v \in AVms |-> open'[v]] /\ whole' \in [AVms -> BOOLEAN]
    <3>1. (whole[u] /\ (current => incidents)) \in BOOLEAN
      OBVIOUS
    <3> QED
      BY <1>0, <2>1, <3>1
  <2>4. ASSUME NEW v \in AVms, whole'[v]
        PROVE  \/ open'[v] = 0
               \/ open'[v] = open[v] /\ st'[v] = st[v] /\ whole[v]
    <3>1. CASE v # u
      BY <2>2, <2>4, <3>1
    <3>2. CASE v = u
      <4>1. whole[v] /\ (current => incidents)
        BY <2>2, <2>4, <3>2
      <4> QED
        BY <2>2, <3>2, <4>1
    <3> QED
      BY <3>1, <3>2
  <2>5. \A v \in AVms : \/ st'[v] = st[v] /\ seenAt'[v] = seenAt[v] /\ hit'[v] = hit[v]
                        \/ st'[v] = NoState
    BY <2>1, <2>2
  <2> QED
    BY <1>0, <2>1, <2>3, <2>4, <2>5, AbuseRequest
<1>10. ASSUME NEW t \in 1..MaxT, AbuseRetention(t) PROVE AbuseInv'
  <2>1. /\ AskAbuse /\ open' = open /\ whole' = whole /\ policy' = policy /\ st' = st
        /\ seenAt' = seenAt /\ apush' = apush /\ hit' = hit
    BY <1>10 DEF AbuseRetention
  <2> QED
    BY <1>0, <2>1, AbuseRequest
<1> QED
  BY <1>1, <1>2, <1>3, <1>4, <1>5, <1>6, <1>7, <1>8, <1>9, <1>10 DEF AbuseNext

\* The streaks of a row cover the cycles that the policy requires.
LEMMA AbuseKnown == AbuseInv => SustainedOnly /\ WholeOpenIsActive /\ StateIsTold
<1> SUFFICES ASSUME AbuseInv PROVE SustainedOnly
  BY DEF AbuseInv
<1>1. ASSUME NEW v \in AVms, NEW r \in Sustained, r \in st[v].flags
      PROVE  (st[v].bucket - policy.need + 1)..st[v].bucket \subseteq hit[v][r]
  <2>1. /\ st[v] \in StateRow /\ policy.need \in Nat
    BY AbuseAssumption DEF AbuseInv, AbuseShapes, Policies
  <2>2. /\ st[v].bucket \in Nat /\ st[v].cyc[r] \in Nat
    BY <2>1, AbuseAssumption DEF StateRow, Cycle
  <2>3. /\ (st[v].bucket - st[v].cyc[r] + 1)..st[v].bucket \subseteq hit[v][r]
        /\ st[v].cyc[r] >= policy.need
    BY <1>1 DEF AbuseInv, RowHolds
  <2> QED
    BY <2>1, <2>2, <2>3
<1> QED
  BY <1>1 DEF SustainedOnly

-----------------------------------------------------------------------------
(* The current values of a node.                                           *)

CurrentRows == [seen : Stamps, net : Stamps, perf : Stamps]
DiskRows == [t : Stamps, cust : BOOLEAN]
NodeCharts == [t : Stamps, vms : Nat, host : Stamps]

CurrentShapes ==
    /\ got \subseteq 1..MaxStamp
    /\ latest \in [CVms -> CurrentRows] /\ cur \in [CVms -> CurrentRows]
    /\ \A v \in CVms : latest[v].net <= latest[v].seen /\ latest[v].perf <= latest[v].seen
    /\ ifc \in [CVms -> Stamps] /\ disk \in [CVms -> DiskRows]
    /\ nodeRow \in [seen : Stamps, vms : Nat]
    /\ chart \in [Buckets -> [CVms -> Stamps]]
    /\ nchart \in [Buckets -> NodeCharts]
    /\ purges \in Nat /\ thinned \in BOOLEAN /\ swept \in BOOLEAN

\* Times of current rows and chart rows are times of accepted payloads, and the
\* node's row is as new as each of its chart rows.
TimesAreOfPushes ==
    /\ \A v \in CVms : cur[v].seen # 0 => cur[v].seen \in got
    /\ \A b \in Buckets :
        /\ \A v \in CVms : chart[b][v] # 0 => chart[b][v] \in got
        /\ nchart[b].t # 0 => nchart[b].t \in got
        /\ nchart[b].t <= nodeRow.seen

CurrentInv ==
    /\ CurrentShapes /\ TimesAreOfPushes
    /\ SummariesAgree /\ UnsweptNodeRowAgrees /\ ChartsAgree

CurrentStepForward ==
    purges' = purges =>
        /\ \A v \in CVms : /\ latest'[v].net >= latest[v].net
                           /\ latest'[v].perf >= latest[v].perf
                           /\ ForwardOnly(cur[v].seen, cur'[v].seen)
                           /\ ForwardOnly(ifc[v], ifc'[v])
                           /\ ForwardOnly(disk[v].t, disk'[v].t)
        /\ nodeRow'.seen >= nodeRow.seen
        /\ \A b \in Buckets : nchart'[b].t >= nchart[b].t

LEMMA BucketsOfStamps ==
    /\ Stamps \subseteq Nat /\ 0 \in Stamps /\ 1..MaxStamp \subseteq Stamps
    /\ \A t \in 1..MaxStamp : BucketOf(t) \in Buckets /\ t # 0
    /\ \A t \in Stamps : BucketOf(t) \in Nat
  BY CurrentAssumption DEF BucketOf, Buckets, Stamps

\* VMs are finitely many, and so are those of any kind.
LEMMA CountsOfVms ==
    ASSUME IsFiniteSet(CVms)
    PROVE  /\ \A S \in SUBSET CVms : IsFiniteSet(S) /\ Cardinality(S) \in Nat
           /\ \A S, T \in SUBSET CVms : S \subseteq T => Cardinality(S) <= Cardinality(T)
           /\ Cardinality({}) = 0
<1>1. \A S \in SUBSET CVms : IsFiniteSet(S) /\ Cardinality(S) \in Nat
  BY FS_Subset, FS_CardinalityType
<1>2. ASSUME NEW S \in SUBSET CVms, NEW T \in SUBSET CVms, S \subseteq T
      PROVE  Cardinality(S) <= Cardinality(T)
  BY <1>1, <1>2, FS_Subset
<1> QED
  BY <1>1, <1>2, FS_EmptySet

LEMMA CurrentStart ==
    ASSUME IsFiniteSet(CVms), CMInit
    PROVE  CurrentInv
<1>1. CurrentShapes
  <2>1. Nothing \in CurrentRows /\ NoDisk \in DiskRows /\ NoChart \in NodeCharts
    BY BucketsOfStamps DEF CurrentRows, DiskRows, NodeCharts, Nothing, NoDisk, NoChart
  <2>2. Nothing.net = 0 /\ Nothing.perf = 0 /\ Nothing.seen = 0
    BY DEF Nothing
  <2>3. /\ got = {} /\ latest = [v \in CVms |-> Nothing] /\ cur = [v \in CVms |-> Nothing]
        /\ ifc = [v \in CVms |-> 0] /\ disk = [v \in CVms |-> NoDisk]
        /\ nodeRow = [seen |-> 0, vms |-> 0] /\ nchart = [b \in Buckets |-> NoChart]
        /\ chart = [b \in Buckets |-> [v \in CVms |-> 0]]
        /\ purges = 0 /\ swept = FALSE /\ thinned = FALSE
    BY DEF CMInit
  <2>4. 0 \in Stamps /\ 0 \in Nat
    BY BucketsOfStamps
  <2>5. /\ latest \in [CVms -> CurrentRows] /\ cur \in [CVms -> CurrentRows]
        /\ \A v \in CVms : latest[v].net <= latest[v].seen /\ latest[v].perf <= latest[v].seen
    BY <2>1, <2>2, <2>3
  <2>6. /\ ifc \in [CVms -> Stamps] /\ disk \in [CVms -> DiskRows]
        /\ nodeRow \in [seen : Stamps, vms : Nat] /\ nchart \in [Buckets -> NodeCharts]
    BY <2>1, <2>3, <2>4
  <2>7. chart \in [Buckets -> [CVms -> Stamps]]
    BY <2>3, <2>4
  <2> QED
    BY <2>3, <2>4, <2>5, <2>6, <2>7 DEF CurrentShapes
<1>2. TimesAreOfPushes
  BY BucketsOfStamps DEF CMInit, TimesAreOfPushes, Nothing, NoChart
<1>3. SummariesAgree /\ ChartsAgree
  BY DEF CMInit, SummariesAgree, ChartsAgree, NoDisk, NoChart
<1>4. {v \in CVms : cur[v].seen # 0 /\ cur[v].seen = nodeRow.seen} = {}
  BY DEF CMInit, Nothing
<1>5. UnsweptNodeRowAgrees
  BY <1>4, FS_EmptySet DEF CMInit, UnsweptNodeRowAgrees, NodeRowAgrees
<1> QED
  BY <1>1, <1>2, <1>3, <1>5 DEF CurrentInv

-----------------------------------------------------------------------------
\* push: the rows of one VM.
LEMMA RowsOfPush ==
    ASSUME CurrentShapes, NEW t \in 1..MaxStamp, NEW p \in Payloads, push(t, p),
           NEW v \in CVms
    PROVE  /\ latest'[v] \in CurrentRows /\ cur'[v] \in CurrentRows
           /\ ifc'[v] \in Stamps /\ disk'[v] \in DiskRows
           /\ latest'[v].net <= latest'[v].seen /\ latest'[v].perf <= latest'[v].seen
           /\ latest'[v].net >= latest[v].net /\ latest'[v].perf >= latest[v].perf
           /\ cur'[v].seen \in {0, t, cur[v].seen}
           /\ ForwardOnly(cur[v].seen, cur'[v].seen)
           /\ ForwardOnly(ifc[v], ifc'[v])
           /\ ForwardOnly(disk[v].t, disk'[v].t)
           /\ ~p.present => cur'[v] = cur[v]
           /\ p.present => /\ cur'[v].seen = t <=> v \in OfPayload(t, p)
                           /\ cur[v].seen > t => cur'[v] = cur[v]
<1>1. /\ latest[v] \in CurrentRows /\ cur[v] \in CurrentRows /\ ifc[v] \in Stamps
      /\ disk[v] \in DiskRows /\ latest[v].net <= latest[v].seen
      /\ latest[v].perf <= latest[v].seen
  BY DEF CurrentShapes
<1>2. t \in Stamps /\ t # 0 /\ 0 \in Stamps /\ Stamps \subseteq Nat
      /\ p.present \in BOOLEAN /\ p.cust \in BOOLEAN /\ p.complete \in BOOLEAN
  BY BucketsOfStamps, CurrentAssumption
<1>3. \A n, q \in Stamps :
        LET h == Halves(v, t, p, n, q)
        IN  h \in CurrentRows /\ h.seen = t /\ h.net \in {t, n} /\ h.perf \in {t, q}
  BY <1>2 DEF Halves, CurrentRows
<1>a. /\ latest[v].net \in Stamps /\ latest[v].perf \in Stamps /\ latest[v].seen \in Stamps
      /\ latest[v].net \in Nat /\ latest[v].perf \in Nat /\ latest[v].seen \in Nat
      /\ cur[v].seen \in Nat /\ ifc[v] \in Nat /\ disk[v].t \in Nat /\ t \in Nat
  BY <1>1, <1>2 DEF CurrentRows, DiskRows
<1>4. \/ latest'[v] = latest[v]
      \/ t >= latest[v].seen /\ latest'[v] = Halves(v, t, p, latest[v].net, latest[v].perf)
  <2>1. latest'[v] = MergeLatest(v, t, p)
    BY DEF push
  <2> QED
    BY <1>a, <2>1 DEF MergeLatest
<1>5. /\ latest'[v] \in CurrentRows
      /\ latest'[v].net <= latest'[v].seen /\ latest'[v].perf <= latest'[v].seen
      /\ latest'[v].net >= latest[v].net /\ latest'[v].perf >= latest[v].perf
  <2>2. CASE latest'[v] = latest[v]
    BY <1>1, <1>a, <2>2
  <2>3. CASE t >= latest[v].seen /\ latest'[v] = Halves(v, t, p, latest[v].net, latest[v].perf)
    <3> DEFINE h == Halves(v, t, p, latest[v].net, latest[v].perf)
    <3>1. h \in CurrentRows /\ h.seen = t /\ h.net \in {t, latest[v].net}
          /\ h.perf \in {t, latest[v].perf}
      BY <1>3, <1>a
    <3> QED
      BY <1>1, <1>a, <2>3, <3>1
  <2> QED
    BY <1>4, <2>2, <2>3
<1>6. CASE ~p.present
  <2>1. cur'[v] = cur[v] /\ ifc'[v] = ifc[v] /\ disk'[v] = disk[v]
    BY <1>6 DEF push
  <2> QED
    BY <1>1, <1>5, <1>6, <2>1, <1>a DEF ForwardOnly
<1>7. CASE p.present
  <2> DEFINE r == CurrentRow(v, t, p)
  <2>1. cur'[v] = CurrentKept(v, t, p) /\ ifc'[v] = IfaceKept(v, t, p)
        /\ disk'[v] = DiskRow(v, t, p)
    BY <1>7 DEF push
  <2>3. /\ r \in CurrentRows /\ (r = cur[v] \/ (t >= cur[v].seen /\ r.seen = t))
        /\ v \in OfPayload(t, p) <=> r.seen = t
    <3>1. Halves(v, t, p, 0, 0) \in CurrentRows /\ Halves(v, t, p, 0, 0).seen = t
      BY <1>2, <1>3
    <3>2. v \in OfPayload(t, p) <=> r.seen = t
      BY DEF OfPayload
    <3>3. r = cur[v] \/ (t >= cur[v].seen /\ r = Halves(v, t, p, 0, 0))
      BY DEF CurrentRow
    <3> HIDE DEF r
    <3> QED
      BY <1>1, <3>1, <3>2, <3>3
  <2> HIDE DEF r
  <2>4. /\ cur'[v] = IF p.complete /\ r.seen < t THEN Nothing ELSE r
        /\ Nothing \in CurrentRows /\ Nothing.seen = 0
    BY <1>2, <2>1 DEF CurrentKept, Nothing, CurrentRows, r
  <2>5. /\ cur'[v] \in CurrentRows /\ cur'[v].seen \in {0, t, cur[v].seen}
        /\ ForwardOnly(cur[v].seen, cur'[v].seen)
        /\ cur'[v].seen = t <=> v \in OfPayload(t, p)
        /\ cur[v].seen > t => cur'[v] = cur[v]
    BY <1>2, <1>a, <2>3, <2>4 DEF ForwardOnly
  <2>6. ifc'[v] \in Stamps /\ ForwardOnly(ifc[v], ifc'[v])
    BY <1>1, <1>2, <1>a, <2>1 DEF IfaceKept, Guarded, ForwardOnly
  <2>7. disk'[v] \in DiskRows /\ ForwardOnly(disk[v].t, disk'[v].t)
    <3>1. NoDisk \in DiskRows /\ NoDisk.t = 0 /\ [t |-> t, cust |-> p.cust] \in DiskRows
      BY <1>2 DEF NoDisk, DiskRows
    <3> QED
      BY <1>1, <1>2, <1>a, <2>1, <3>1 DEF DiskRow, ForwardOnly
  <2> QED
    BY <1>5, <1>7, <2>5, <2>6, <2>7
<1> QED
  BY <1>2, <1>6, <1>7

\* push: what it leaves of a payload that is newer, or older, than the node's row.
LEMMA NodeRowOfPush ==
    ASSUME IsFiniteSet(CVms), CurrentShapes, NEW t \in 1..MaxStamp, NEW p \in Payloads,
           push(t, p)
    PROVE  /\ nodeRow' \in [seen : Stamps, vms : Nat] /\ nodeRow'.seen >= nodeRow.seen
           /\ nodeRow'.seen \in {t, nodeRow.seen} /\ swept' \in BOOLEAN
           /\ \/ nodeRow' = nodeRow /\ swept' = swept /\ (nodeRow.seen > t \/ ~p.present)
              \/ nodeRow' = [seen |-> t, vms |-> Cardinality(OfPayload(t, p))] /\ p.present
           /\ OfPayload(t, p) \in SUBSET CVms /\ Cardinality(OfPayload(t, p)) \in Nat
<1>1. nodeRow \in [seen : Stamps, vms : Nat] /\ swept \in BOOLEAN
  BY DEF CurrentShapes
<1>2. /\ OfPayload(t, p) \in SUBSET CVms /\ Cardinality(OfPayload(t, p)) \in Nat
  BY CountsOfVms DEF OfPayload
<1>3. t \in Nat /\ t \in Stamps /\ nodeRow.seen \in Nat /\ p.present \in BOOLEAN
  BY <1>1, BucketsOfStamps, CurrentAssumption
<1>4. CASE ~p.present
  <2>1. nodeRow' = nodeRow /\ swept' = swept
    BY <1>4 DEF push
  <2> QED
    BY <1>1, <1>2, <1>3, <1>4, <2>1
<1>5. CASE p.present
  <2>1. nodeRow' = NodeUpsert(t, p) /\ swept' = (swept /\ nodeRow'.seen # t)
    BY <1>5 DEF push
  <2>2. CASE t >= nodeRow.seen
    <3>1. nodeRow' = [seen |-> t, vms |-> Cardinality(OfPayload(t, p))]
      BY <2>1, <2>2 DEF NodeUpsert
    <3>2. swept' \in BOOLEAN
      BY <2>1
    <3> QED
      BY <1>2, <1>3, <1>5, <2>2, <3>1, <3>2
  <2>3. CASE ~(t >= nodeRow.seen)
    <3>1. nodeRow' = nodeRow
      BY <2>1, <2>3 DEF NodeUpsert
    <3>2. swept' = swept
      BY <1>1, <1>3, <2>1, <2>3, <3>1
    <3> QED
      BY <1>1, <1>2, <1>3, <2>3, <3>1, <3>2
  <2> QED
    BY <2>2, <2>3
<1> QED
  BY <1>3, <1>4, <1>5

LEMMA CurrentPush ==
    ASSUME IsFiniteSet(CVms), CurrentInv, NEW t \in 1..MaxStamp, NEW p \in Payloads,
           push(t, p)
    PROVE  CurrentInv' /\ CurrentStepForward
<1> DEFINE b == BucketOf(t)
<1>1. /\ CurrentShapes /\ TimesAreOfPushes /\ SummariesAgree /\ UnsweptNodeRowAgrees
      /\ ChartsAgree
  BY DEF CurrentInv
<1>2. /\ t \in Nat \ {0} /\ t \in Stamps /\ b \in Buckets /\ Stamps \subseteq Nat
      /\ 0 \in Stamps
  BY BucketsOfStamps
<1>3. t \notin got /\ got' = got \cup {t} /\ purges' = purges /\ thinned' = thinned
  BY DEF push
<1>4. ASSUME NEW v \in CVms
      PROVE  /\ latest'[v] \in CurrentRows /\ cur'[v] \in CurrentRows
             /\ ifc'[v] \in Stamps /\ disk'[v] \in DiskRows
             /\ latest'[v].net <= latest'[v].seen /\ latest'[v].perf <= latest'[v].seen
             /\ latest'[v].net >= latest[v].net /\ latest'[v].perf >= latest[v].perf
             /\ cur'[v].seen \in {0, t, cur[v].seen}
             /\ ForwardOnly(cur[v].seen, cur'[v].seen)
             /\ ForwardOnly(ifc[v], ifc'[v])
             /\ ForwardOnly(disk[v].t, disk'[v].t)
             /\ ~p.present => cur'[v] = cur[v]
             /\ p.present => /\ cur'[v].seen = t <=> v \in OfPayload(t, p)
                             /\ cur[v].seen > t => cur'[v] = cur[v]
  BY <1>1, RowsOfPush
<1>5. /\ nodeRow' \in [seen : Stamps, vms : Nat] /\ nodeRow'.seen >= nodeRow.seen
      /\ nodeRow'.seen \in {t, nodeRow.seen} /\ swept' \in BOOLEAN
      /\ \/ nodeRow' = nodeRow /\ swept' = swept /\ (nodeRow.seen > t \/ ~p.present)
         \/ nodeRow' = [seen |-> t, vms |-> Cardinality(OfPayload(t, p))] /\ p.present
      /\ OfPayload(t, p) \in SUBSET CVms /\ Cardinality(OfPayload(t, p)) \in Nat
  BY <1>1, NodeRowOfPush
<1>6. ASSUME NEW c \in Buckets
      PROVE  /\ chart[c] \in [CVms -> Stamps] /\ nchart[c] \in NodeCharts
             /\ nodeRow.seen \in Nat /\ nchart[c].t \in Nat /\ nchart[c].vms \in Nat
             /\ \A v \in CVms : chart[c][v] \in Nat
  BY <1>1, <1>2, ZenonT(40) DEF CurrentShapes, NodeCharts
<1>7. ASSUME NEW c \in Buckets
      PROVE  /\ nchart'[c] = IF c = b THEN NodeChart(t) ELSE nchart[c]
             /\ chart'[c] = [v \in CVms |-> chart'[c][v]]
             /\ \A v \in CVms : chart'[c][v] = IF c = b /\ cur'[v].seen = t THEN t ELSE chart[c][v]
  <2>1. /\ chart' = [chart EXCEPT ![b] = [v \in CVms |-> ChartRow(v, t, p)]]
        /\ nchart' = [nchart EXCEPT ![b] = NodeChart(t)]
    BY DEF push
  <2>2. /\ chart \in [Buckets -> [CVms -> Stamps]] /\ nchart \in [Buckets -> NodeCharts]
    BY <1>1 DEF CurrentShapes
  <2>3. \A v \in CVms : ChartRow(v, t, p) = IF cur'[v].seen = t THEN t ELSE chart[b][v]
    BY DEF ChartRow
  <2> HIDE DEF b
  <2>4. CASE c = b
    BY <1>2, <2>1, <2>2, <2>3, <2>4
  <2>5. CASE c # b
    BY <1>6, <2>1, <2>2, <2>5
  <2> QED
    BY <2>4, <2>5
<1>8. hostRow'.host.val = t
  BY DEF push, HostUpsert
<1>9. NodeChart(t) = IF nodeRow'.seen = t THEN [t |-> t, vms |-> nodeRow'.vms, host |-> t]
                     ELSE nchart[b]
  BY <1>8 DEF NodeChart
<1> HIDE DEF b
<1>10. ASSUME NEW c \in Buckets
       PROVE  /\ nchart'[c] \in NodeCharts /\ chart'[c] \in [CVms -> Stamps]
              /\ nchart'[c].t >= nchart[c].t
              /\ nchart'[c].t # 0 => nchart'[c].t \in got'
              /\ nchart'[c].t <= nodeRow'.seen
              /\ \A v \in CVms : chart'[c][v] # 0 => chart'[c][v] \in got'
  <2>1. /\ nchart[c].t # 0 => nchart[c].t \in got
        /\ nchart[c].t <= nodeRow.seen /\ nodeRow.seen <= nodeRow'.seen
        /\ \A v \in CVms : chart[c][v] # 0 => chart[c][v] \in got
        /\ nodeRow'.seen \in Nat
    BY <1>1, <1>2, <1>5 DEF TimesAreOfPushes
  <2>2. nchart'[c] = nchart[c]
        \/ (nodeRow'.seen = t /\ nchart'[c] = [t |-> t, vms |-> nodeRow'.vms, host |-> t])
    BY <1>7, <1>9
  <2>3. /\ nchart'[c] \in NodeCharts /\ nchart'[c].t >= nchart[c].t
        /\ nchart'[c].t # 0 => nchart'[c].t \in got'
        /\ nchart'[c].t <= nodeRow'.seen
    <3>1. CASE nchart'[c] = nchart[c]
      BY <1>3, <1>6, <2>1, <3>1
    <3>2. CASE nodeRow'.seen = t /\ nchart'[c] = [t |-> t, vms |-> nodeRow'.vms, host |-> t]
      BY <1>2, <1>3, <1>5, <1>6, <2>1, <3>2 DEF NodeCharts
    <3> QED
      BY <2>2, <3>1, <3>2
  <2>4. chart'[c] \in [CVms -> Stamps]
    <3>1. \A v \in CVms : chart'[c][v] \in Stamps
      <4>1. \A v \in CVms : chart'[c][v] \in {t, chart[c][v]}
        BY <1>7
      <4> QED
        BY <1>2, <1>6, <4>1
    <3>2. chart'[c] = [v \in CVms |-> chart'[c][v]]
      BY <1>7
    <3> QED
      BY <3>1, <3>2
  <2>5. \A v \in CVms : chart'[c][v] # 0 => chart'[c][v] \in got'
    BY <1>3, <1>7, <2>1
  <2> QED
    BY <2>3, <2>4, <2>5
<1>11. CurrentShapes'
  <2>1. /\ latest' = [v \in CVms |-> latest'[v]] /\ cur' = [v \in CVms |-> cur'[v]]
        /\ ifc' = [v \in CVms |-> ifc'[v]] /\ disk' = [v \in CVms |-> disk'[v]]
    <3>1. CASE p.present
      BY <3>1 DEF push
    <3>2. CASE ~p.present
      BY <1>1, <3>2 DEF push, CurrentShapes
    <3> QED
      BY <3>1, <3>2
  <2>2. /\ chart' = [c \in Buckets |-> chart'[c]] /\ nchart' = [c \in Buckets |-> nchart'[c]]
    BY <1>1 DEF push, CurrentShapes
  <2>3. /\ latest' \in [CVms -> CurrentRows] /\ cur' \in [CVms -> CurrentRows]
        /\ ifc' \in [CVms -> Stamps] /\ disk' \in [CVms -> DiskRows]
    BY <1>4, <2>1
  <2>4. chart' \in [Buckets -> [CVms -> Stamps]] /\ nchart' \in [Buckets -> NodeCharts]
    BY <1>10, <2>2
  <2>5. got' \subseteq 1..MaxStamp /\ purges' \in Nat /\ thinned' \in BOOLEAN
    BY <1>1, <1>3 DEF CurrentShapes
  <2> QED
    BY <1>4, <1>5, <2>3, <2>4, <2>5 DEF CurrentShapes
<1>12. TimesAreOfPushes'
  <2>1. \A v \in CVms : cur'[v].seen # 0 => cur'[v].seen \in got'
    BY <1>1, <1>3, <1>4 DEF TimesAreOfPushes
  <2> QED
    BY <1>10, <2>1 DEF TimesAreOfPushes
<1>13. SummariesAgree'
  <2>1. CASE ~p.present
    BY <1>1, <2>1 DEF push, SummariesAgree
  <2>2. CASE p.present
    <3>1. /\ dsum' = [v \in CVms |-> DiskSummary(disk', v)]
          /\ msum' = MountSummary(disk', mount')
      BY <2>2 DEF push
    <3> QED
      BY <3>1 DEF DiskSummary, MountSummary, SummariesAgree
  <2> QED
    BY <2>1, <2>2
<1>14. UnsweptNodeRowAgrees'
  <2> DEFINE S == {v \in CVms : cur[v].seen # 0 /\ cur[v].seen = nodeRow.seen}
             T == {v \in CVms : cur'[v].seen # 0 /\ cur'[v].seen = nodeRow'.seen}
  <2>1. CASE nodeRow' = nodeRow /\ swept' = swept /\ (nodeRow.seen > t \/ ~p.present)
    <3>1. ASSUME NEW v \in CVms PROVE v \in S <=> v \in T
      <4>1. cur[v].seen \in Nat /\ nodeRow.seen \in Nat
        BY <1>1, <1>2 DEF CurrentShapes, CurrentRows
      <4> QED
        BY <1>2, <1>4, <2>1, <4>1
    <3>2. S = T
      BY <3>1
    <3> QED
      BY <1>1, <2>1, <3>2 DEF UnsweptNodeRowAgrees, NodeRowAgrees
  <2>2. CASE nodeRow' = [seen |-> t, vms |-> Cardinality(OfPayload(t, p))] /\ p.present
    <3>1. T = OfPayload(t, p)
      BY <1>2, <1>4, <1>5, <2>2
    <3> QED
      BY <2>2, <3>1 DEF UnsweptNodeRowAgrees, NodeRowAgrees
  <2> QED
    BY <1>5, <2>1, <2>2
<1>15. ChartsAgree'
  <2>1. ASSUME NEW c \in Buckets
        PROVE  /\ \A v \in CVms : chart'[c][v] # 0 => BucketOf(chart'[c][v]) = c
               /\ nchart'[c].t # 0 => BucketOf(nchart'[c].t) = c /\ nchart'[c].host = nchart'[c].t
    <3>1. /\ \A v \in CVms : chart[c][v] # 0 => BucketOf(chart[c][v]) = c
          /\ nchart[c].t # 0 => BucketOf(nchart[c].t) = c /\ nchart[c].host = nchart[c].t
      BY <1>1 DEF ChartsAgree
    <3>2. \A v \in CVms : chart'[c][v] = chart[c][v] \/ (c = b /\ chart'[c][v] = t)
      BY <1>7
    <3>3. \/ nchart'[c] = nchart[c]
          \/ c = b /\ nchart'[c] = [t |-> t, vms |-> nodeRow'.vms, host |-> t]
      BY <1>7, <1>9
    <3>4. b = BucketOf(t)
      BY DEF b
    <3> QED
      BY <3>1, <3>2, <3>3, <3>4
  <2>2. ASSUME NEW c \in Buckets, ~thinned', nchart'[c].t # 0
        PROVE  nchart'[c].vms >= Cardinality({v \in CVms : chart'[c][v] = nchart'[c].t})
    <3> DEFINE S == {v \in CVms : chart[c][v] = nchart[c].t}
               T == {v \in CVms : chart'[c][v] = nchart'[c].t}
    <3>1. S \in SUBSET CVms /\ T \in SUBSET CVms /\ Cardinality(S) \in Nat /\ Cardinality(T) \in Nat
      BY CountsOfVms
    <3>2. CASE nchart'[c] = nchart[c] /\ ~(c = b /\ nodeRow'.seen = t)
      <4>1. nchart[c].t # t /\ nchart[c].vms >= Cardinality(S)
        BY <1>1, <1>3, <2>2, <3>2 DEF ChartsAgree, TimesAreOfPushes
      <4>2. T \subseteq S
        BY <1>7, <3>2, <4>1
      <4>3. Cardinality(T) <= Cardinality(S)
        BY <3>1, <4>2, CountsOfVms
      <4> HIDE DEF S, T
      <4>4. nchart'[c].vms >= Cardinality(T)
        BY <1>6, <3>1, <3>2, <4>1, <4>3
      <4> QED
        BY <4>4 DEF T
    <3>3. CASE c = b /\ nodeRow'.seen = t
      <4>1. nchart'[c] = [t |-> t, vms |-> nodeRow'.vms, host |-> t]
        BY <1>7, <1>9, <3>3
      <4>2. T = {v \in CVms : cur'[v].seen = t}
        <5>1. \A v \in CVms : chart[c][v] # t
          BY <1>1, <1>2, <1>3 DEF TimesAreOfPushes
        <5>2. \A v \in CVms : chart'[c][v] = t <=> cur'[v].seen = t
          BY <1>7, <3>3, <5>1
        <5>3. nchart'[c].t = t
          BY <4>1
        <5> QED
          BY <5>2, <5>3
      <4>3. nodeRow'.vms >= Cardinality(T)
        <5>1. CASE nodeRow' = nodeRow /\ (nodeRow.seen > t \/ ~p.present)
          <6>1. ~p.present
            BY <1>2, <1>6, <3>3, <5>1
          <6>2. \A v \in CVms : cur'[v].seen # t
            BY <1>1, <1>2, <1>3, <1>4, <6>1 DEF TimesAreOfPushes
          <6>3. T = {}
            BY <4>2, <6>2
          <6>4. nodeRow'.vms \in Nat
            BY <1>5
          <6> QED
            BY <6>3, <6>4, CountsOfVms
        <5>2. CASE nodeRow' = [seen |-> t, vms |-> Cardinality(OfPayload(t, p))] /\ p.present
          <6>1. T = OfPayload(t, p)
            BY <1>4, <1>5, <4>2, <5>2
          <6> QED
            BY <1>5, <5>2, <6>1
        <5> QED
          BY <1>5, <5>1, <5>2
      <4> QED
        BY <4>1, <4>3
    <3> QED
      BY <1>7, <1>9, <3>2, <3>3
  <2> QED
    BY <2>1, <2>2 DEF ChartsAgree
<1>16. CurrentStepForward
  BY <1>4, <1>5, <1>10 DEF CurrentStepForward
<1> QED
  BY <1>11, <1>12, <1>13, <1>14, <1>15, <1>16 DEF CurrentInv

LEMMA CurrentPurgeVm ==
    ASSUME IsFiniteSet(CVms), CurrentInv, NEW u \in CVms, purge_vm_data(u)
    PROVE  CurrentInv' /\ CurrentStepForward
<1>1. /\ CurrentShapes /\ TimesAreOfPushes /\ SummariesAgree /\ UnsweptNodeRowAgrees
      /\ ChartsAgree
  BY DEF CurrentInv
<1>2. /\ got' = got /\ mount' = mount /\ nchart' = nchart /\ purges' = purges + 1
      /\ latest' = [latest EXCEPT ![u] = Nothing] /\ cur' = [cur EXCEPT ![u] = Nothing]
      /\ ifc' = [ifc EXCEPT ![u] = 0] /\ disk' = [disk EXCEPT ![u] = NoDisk]
      /\ dsum' = [w \in CVms |-> DiskSummary(disk', w)]
      /\ msum' = MountSummary(disk', mount)
      /\ chart' = Without(chart, u) /\ thinned' = TRUE
      /\ nodeRow' = IF nodeRow.seen = 0 THEN nodeRow
                    ELSE [nodeRow EXCEPT !.vms = Cardinality({w \in CVms : cur'[w].seen # 0})]
      /\ swept' = (swept \/ \E w \in CVms : cur'[w].seen \notin {0, nodeRow.seen})
  BY DEF purge_vm_data
<1>3. /\ got \subseteq 1..MaxStamp
      /\ latest \in [CVms -> CurrentRows] /\ cur \in [CVms -> CurrentRows]
      /\ \A v \in CVms : latest[v].net <= latest[v].seen /\ latest[v].perf <= latest[v].seen
      /\ ifc \in [CVms -> Stamps] /\ disk \in [CVms -> DiskRows]
      /\ nodeRow \in [seen : Stamps, vms : Nat]
      /\ chart \in [Buckets -> [CVms -> Stamps]]
      /\ nchart \in [Buckets -> NodeCharts]
      /\ purges \in Nat /\ swept \in BOOLEAN
  BY <1>1 DEF CurrentShapes
<1>4. /\ Nothing \in CurrentRows /\ NoDisk \in DiskRows /\ 0 \in Stamps /\ Stamps \subseteq Nat
      /\ Nothing.net = 0 /\ Nothing.perf = 0 /\ Nothing.seen = 0
  BY BucketsOfStamps DEF Nothing, NoDisk, CurrentRows, DiskRows
<1>5. ASSUME NEW v \in CVms
      PROVE  /\ latest'[v] = IF v = u THEN Nothing ELSE latest[v]
             /\ cur'[v] = IF v = u THEN Nothing ELSE cur[v]
  BY <1>2, <1>3
<1>6. ASSUME NEW c \in Buckets
      PROVE  /\ chart'[c] \in [CVms -> Stamps]
             /\ \A v \in CVms : chart'[c][v] = IF v = u THEN 0 ELSE chart[c][v]
  BY <1>2, <1>3, <1>4 DEF Without
<1>7. nodeRow' \in [seen : Stamps, vms : Nat] /\ nodeRow'.seen = nodeRow.seen
  <2>1. Cardinality({w \in CVms : cur'[w].seen # 0}) \in Nat
    BY CountsOfVms
  <2> QED
    BY <1>2, <1>3, <2>1
<1>8. CurrentShapes'
  <2>1. latest' \in [CVms -> CurrentRows] /\ cur' \in [CVms -> CurrentRows]
        /\ ifc' \in [CVms -> Stamps] /\ disk' \in [CVms -> DiskRows]
    BY <1>2, <1>3, <1>4
  <2>2. \A v \in CVms : latest'[v].net <= latest'[v].seen /\ latest'[v].perf <= latest'[v].seen
    BY <1>3, <1>4, <1>5
  <2>3. chart' \in [Buckets -> [CVms -> Stamps]]
    <3>1. chart' = [c \in Buckets |-> chart'[c]]
      BY <1>2 DEF Without
    <3> QED
      BY <1>6, <3>1
  <2>4. swept' \in BOOLEAN /\ thinned' \in BOOLEAN /\ purges' \in Nat
    BY <1>2, <1>3
  <2> QED
    BY <1>2, <1>3, <1>7, <2>1, <2>2, <2>3, <2>4 DEF CurrentShapes
<1>9. TimesAreOfPushes'
  BY <1>1, <1>2, <1>4, <1>5, <1>6, <1>7 DEF TimesAreOfPushes
<1>10. SummariesAgree'
  BY <1>2 DEF SummariesAgree, DiskSummary, MountSummary
<1>11. UnsweptNodeRowAgrees'
  <2> SUFFICES ASSUME ~swept' PROVE NodeRowAgrees'
    BY DEF UnsweptNodeRowAgrees
  <2>1. ~swept /\ \A w \in CVms : cur'[w].seen \in {0, nodeRow.seen}
    BY <1>2
  <2>2. CASE nodeRow.seen = 0
    <3>1. {v \in CVms : cur'[v].seen # 0 /\ cur'[v].seen = nodeRow'.seen}
          = {v \in CVms : cur[v].seen # 0 /\ cur[v].seen = nodeRow.seen}
      BY <1>7, <2>2
    <3>2. nodeRow' = nodeRow
      BY <1>2, <2>2
    <3> QED
      BY <1>1, <2>1, <3>1, <3>2 DEF UnsweptNodeRowAgrees, NodeRowAgrees
  <2>3. CASE nodeRow.seen # 0
    <3>1. {v \in CVms : cur'[v].seen # 0 /\ cur'[v].seen = nodeRow'.seen}
          = {w \in CVms : cur'[w].seen # 0}
      BY <1>7, <2>1
    <3>2. nodeRow'.vms = Cardinality({w \in CVms : cur'[w].seen # 0})
      BY <1>2, <1>3, <2>3
    <3> QED
      BY <3>1, <3>2 DEF NodeRowAgrees
  <2> QED
    BY <2>2, <2>3
<1>12. ChartsAgree'
  BY <1>1, <1>2, <1>6 DEF ChartsAgree
<1>13. CurrentStepForward
  BY <1>2, <1>3 DEF CurrentStepForward
<1> QED
  BY <1>8, <1>9, <1>10, <1>11, <1>12, <1>13 DEF CurrentInv

LEMMA CurrentPurgeNode ==
    ASSUME IsFiniteSet(CVms), CurrentInv, purge_all_vms_for_node \/ purge_node_data
    PROVE  CurrentInv' /\ CurrentStepForward
<1>1. /\ CurrentShapes /\ TimesAreOfPushes /\ SummariesAgree /\ ChartsAgree
  BY DEF CurrentInv
<1>2. /\ Nothing \in CurrentRows /\ NoDisk \in DiskRows /\ NoChart \in NodeCharts
      /\ 0 \in Stamps /\ 0 \in Nat
      /\ Nothing.net = 0 /\ Nothing.perf = 0 /\ Nothing.seen = 0
      /\ NoDisk.cust = FALSE /\ NoChart.t = 0
  BY BucketsOfStamps DEF Nothing, NoDisk, NoChart, CurrentRows, DiskRows, NodeCharts
<1>3. /\ latest' = [v \in CVms |-> Nothing] /\ cur' = [v \in CVms |-> Nothing]
      /\ ifc' = [v \in CVms |-> 0] /\ disk' = [v \in CVms |-> NoDisk]
      /\ dsum' = [v \in CVms |-> 0] /\ swept' = TRUE /\ nodeRow' = nodeRow
      /\ purges' = purges + 1 /\ thinned' = thinned
      /\ nodeRow \in [seen : Stamps, vms : Nat] /\ purges \in Nat /\ thinned \in BOOLEAN
      /\ nodeRow.seen \in Nat
  BY <1>1, BucketsOfStamps
  DEF CurrentShapes, purge_all_vms_for_node, purge_node_data, NoVms
<1>4. \/ /\ got' = got /\ chart' = chart /\ nchart' = nchart /\ mount' = mount
         /\ msum' = MountSummary(disk', mount)
      \/ /\ got' = {} /\ mount' = 0 /\ msum' = [t |-> 0, disks |-> 0]
         /\ chart' = [b \in Buckets |-> [v \in CVms |-> 0]]
         /\ nchart' = [b \in Buckets |-> NoChart]
  BY DEF purge_all_vms_for_node, purge_node_data
<1>5. /\ \A v \in CVms : latest'[v].net <= latest'[v].seen /\ latest'[v].perf <= latest'[v].seen
      /\ latest' \in [CVms -> CurrentRows] /\ cur' \in [CVms -> CurrentRows]
      /\ ifc' \in [CVms -> Stamps] /\ disk' \in [CVms -> DiskRows]
  BY <1>2, <1>3
<1>6. /\ got' \subseteq 1..MaxStamp /\ chart' \in [Buckets -> [CVms -> Stamps]]
      /\ nchart' \in [Buckets -> NodeCharts]
  <2>1. CASE got' = got /\ chart' = chart /\ nchart' = nchart
    BY <1>1, <2>1 DEF CurrentShapes
  <2>2. CASE /\ got' = {} /\ chart' = [b \in Buckets |-> [v \in CVms |-> 0]]
             /\ nchart' = [b \in Buckets |-> NoChart]
    BY <1>2, <2>2
  <2> QED
    BY <1>4, <2>1, <2>2
<1>7. CurrentShapes'
  BY <1>3, <1>5, <1>6 DEF CurrentShapes
<1>8. TimesAreOfPushes'
  BY <1>1, <1>2, <1>3, <1>4 DEF TimesAreOfPushes
<1>9. SummariesAgree'
  BY <1>2, <1>3, <1>4 DEF SummariesAgree, MountSummary
<1>10. ChartsAgree'
  BY <1>1, <1>2, <1>3, <1>4 DEF ChartsAgree
<1>11. UnsweptNodeRowAgrees' /\ CurrentStepForward
  BY <1>3 DEF UnsweptNodeRowAgrees, CurrentStepForward
<1> QED
  BY <1>7, <1>8, <1>9, <1>10, <1>11 DEF CurrentInv

LEMMA CurrentStep ==
    ASSUME IsFiniteSet(CVms), CurrentInv, [CMNext]_cmVars
    PROVE  CurrentInv' /\ (CurrentStepForward \/ UNCHANGED cmVars)
<1>1. CASE UNCHANGED cmVars
  <2>1. CurrentShapes' /\ TimesAreOfPushes' /\ SummariesAgree' /\ ChartsAgree'
    BY <1>1 DEF cmVars, CurrentInv, CurrentShapes, TimesAreOfPushes, SummariesAgree, ChartsAgree
  <2>2. UnsweptNodeRowAgrees'
    BY <1>1 DEF cmVars, CurrentInv, UnsweptNodeRowAgrees, NodeRowAgrees
  <2> QED
    BY <1>1, <2>1, <2>2 DEF CurrentInv
<1>2. CASE CMNext
  BY <1>2, CurrentPush, CurrentPurgeVm, CurrentPurgeNode DEF CMNext
<1> QED
  BY <1>1, <1>2

-----------------------------------------------------------------------------
(* What a node has counted.                                                *)

OverOf(w, i) == SummaryOf(w, i).over
WindowOf(w) == w = [i \in DOMAIN w |-> w[i]] /\ \A i \in DOMAIN w : w[i].over \in Nat
SpanOf(i) == spanned[i] + OverOf(carry, i) + OverOf(active, i)

\* AgentTypeOK with all domains; a tap has one VM, and the map names it.
CollectShapes ==
    /\ agtick \in Nat /\ up \subseteq AgVms
    /\ \A v, w \in up : TapOf[v] = TapOf[w] => v = w
    /\ counter \in [CounterKeys -> Nat] /\ owed \in [CounterKeys -> Int]
    /\ \A k \in DOMAIN kept : kept[k] \in Nat
    /\ \A i \in DOMAIN imap : imap[i] \in AgVms /\ TapOf[imap[i]] = i
    /\ cyc.pc \in {"rest", "net", "limited", "host"}
    /\ IF cyc.pc = "rest" THEN cyc = Resting
       ELSE /\ cyc.names \subseteq AgVms
            /\ cyc = [pc |-> cyc.pc, names |-> cyc.names, complete |-> cyc.complete, rows |-> cyc.rows]

\* The rows that a cycle has read and not committed.
RowRead(k) ==
    /\ cyc.complete => k \in DOMAIN cyc.rows
    /\ k \in DOMAIN cyc.rows =>
        cyc.rows[k] <= counter[k] /\ (owed[k] # -1 => kept[k] <= cyc.rows[k])

CycleKnows ==
    /\ cyc.pc \in {"net", "host"} /\ cyc.complete =>
        \A k \in (NetKeys \cup AgDisks) \ excused : k[2] \in up => k[2] \in cyc.names
    /\ cyc.pc = "host" =>
        /\ DOMAIN cyc.rows \subseteq NetKeys
        /\ \A k \in DOMAIN cyc.rows : cyc.rows[k] \in Nat
        /\ \A k \in NetKeys \ excused : k[2] \in up => RowRead(k)

\* A VM that does not run is owed nothing, as its counters start anew.
KeyOwed(k) ==
    /\ k \notin Links /\ k[2] \notin up => owed[k] = -1
    /\ \/ k \in excused \/ owed[k] = -1
       \/ k \in DOMAIN kept /\ owed[k] = counter[k] - kept[k] /\ kept[k] <= counter[k]

\* The sampler's windows reach to the last scan of a tap, if it is known.
TapSampled(i) ==
    /\ sowed[i] >= -1 /\ SpanOf(i) <= agtick
    /\ i \in DOMAIN last =>
        /\ last[i].c \in Nat /\ last[i].at \in Nat /\ last[i].at <= agtick
        /\ sowed[i] >= 0 /\ SpanOf(i) <= last[i].at
        /\ OwnerOf(i) # {} =>
            /\ sowed[i] >= delta_counter(CountOf(i), last[i].c)
            /\ i \notin sexcused => sowed[i] = CountOf(i) - last[i].c

SamplerShapes ==
    /\ DOMAIN last \subseteq Taps /\ sowed \in [Taps -> Int] /\ spanned \in [Taps -> Nat]
    /\ WindowOf(active) /\ WindowOf(carry)

SamplerInv == SamplerShapes /\ \A i \in Taps : TapSampled(i)
CollectInv == CycleKnows /\ \A k \in CounterKeys : KeyOwed(k)
ReadingsInv == CollectShapes /\ CollectInv /\ SamplerInv

\* NetKey and its like: keys tell what they are of.
LEMMA KeysTell ==
    /\ \A v \in AgVms : NetKey(v, TapOf[v]) \in NetKeys
    /\ \A k \in NetKeys : /\ k[2] \in AgVms /\ k[3] = TapOf[k[2]] /\ k = NetKey(k[2], k[3])
                          /\ k \notin AgDisks /\ k \notin Links
    /\ \A k \in AgDisks : k[2] \in AgVms /\ k \notin Links
    /\ CounterKeys = NetKeys \cup AgDisks \cup Links
<1>1. \A k \in NetKeys : k[1] = "net" /\ k[2] \in AgVms /\ k[3] = TapOf[k[2]] /\ k = NetKey(k[2], k[3])
  BY DEF NetKeys, NetKey
<1>2. \A k \in NetKeys : k \notin AgDisks /\ k \notin Links
  BY <1>1, AgentAssumption
<1> QED
  BY <1>1, <1>2, AgentAssumption DEF NetKeys, CounterKeys

\* collect_interface_counters: a tap has the counter of the one VM that has it.
LEMMA OwnerIs ==
    ASSUME CollectShapes
    PROVE  /\ \A v \in up : /\ OwnerOf(TapOf[v]) = {v}
                            /\ collect_interface_counters(TapOf[v]) = {counter[NetKey(v, TapOf[v])]}
                            /\ CountOf(TapOf[v]) = counter[NetKey(v, TapOf[v])]
           /\ \A i : OwnerOf(i) # {} => /\ CountOf(i) \in Nat /\ i \in Taps
                                        /\ \E v \in up : TapOf[v] = i
           /\ \A i : collect_interface_counters(i) # {} => OwnerOf(i) # {}
<1>1. ASSUME NEW v \in up
      PROVE  /\ OwnerOf(TapOf[v]) = {v}
             /\ collect_interface_counters(TapOf[v]) = {counter[NetKey(v, TapOf[v])]}
             /\ CountOf(TapOf[v]) = counter[NetKey(v, TapOf[v])]
  <2>1. OwnerOf(TapOf[v]) = {v}
    BY DEF OwnerOf, CollectShapes
  <2>2. collect_interface_counters(TapOf[v]) = {counter[NetKey(v, TapOf[v])]}
    BY <2>1 DEF collect_interface_counters
  <2> QED
    BY <2>1, <2>2 DEF CountOf
<1>2. ASSUME NEW i, OwnerOf(i) # {}
      PROVE  /\ CountOf(i) \in Nat /\ i \in Taps
             /\ \E v \in up : TapOf[v] = i
  <2>1. PICK v \in up : TapOf[v] = i
    BY <1>2 DEF OwnerOf
  <2>2. CountOf(i) = counter[NetKey(v, TapOf[v])] /\ NetKey(v, TapOf[v]) \in CounterKeys
    BY <1>1, <2>1, KeysTell DEF CollectShapes
  <2> QED
    BY <2>1, <2>2 DEF CollectShapes, Taps
<1> QED
  BY <1>1, <1>2 DEF collect_interface_counters

\* collect_network: what the rows of a reading are.
LEMMA InterfacesRead ==
    ASSUME CollectShapes, NEW names \in SUBSET AgVms, NEW unread,
           NEW rows, rows = collect_network(names, unread)
    PROVE  /\ DOMAIN rows \subseteq NetKeys
           /\ \A k \in DOMAIN rows : rows[k] \in Nat
           /\ \A k \in NetKeys : k[2] \in up =>
                /\ k[2] \in names \ unread => k \in DOMAIN rows
                /\ k \in DOMAIN rows => rows[k] = counter[k]
<1> DEFINE read == {v \in names \ unread : collect_interface_counters(TapOf[v]) # {}}
<1>1. rows = [k \in {NetKey(v, TapOf[v]) : v \in read} |->
                CHOOSE c \in collect_interface_counters(k[3]) : TRUE]
  BY DEF collect_network
<1>2. \A k \in DOMAIN rows : \E v \in read : k = NetKey(v, TapOf[v]) /\ k[3] = TapOf[v] /\ k[2] = v
  BY <1>1 DEF NetKey
<1>3. DOMAIN rows \subseteq NetKeys
  BY <1>2, KeysTell
<1>4. ASSUME NEW k \in DOMAIN rows
      PROVE  rows[k] = CountOf(k[3]) /\ rows[k] \in Nat
  <2>1. rows[k] = CountOf(k[3]) /\ collect_interface_counters(k[3]) # {}
    BY <1>1, <1>2 DEF CountOf
  <2> QED
    BY <2>1, OwnerIs
<1>5. ASSUME NEW k \in NetKeys, k[2] \in up
      PROVE  /\ k[2] \in names \ unread => k \in DOMAIN rows
             /\ k \in DOMAIN rows => rows[k] = counter[k]
  <2>1. k = NetKey(k[2], TapOf[k[2]]) /\ k[3] = TapOf[k[2]]
    BY KeysTell
  <2>2. collect_interface_counters(TapOf[k[2]]) # {} /\ CountOf(k[3]) = counter[k]
    BY <1>5, <2>1, OwnerIs
  <2>3. k[2] \in names \ unread => k[2] \in read
    BY <2>2
  <2>4. k[2] \in read => NetKey(k[2], TapOf[k[2]]) \in DOMAIN rows
    BY <1>1
  <2> QED
    BY <1>4, <2>1, <2>2, <2>3, <2>4
<1> QED
  BY <1>3, <1>4, <1>5

-----------------------------------------------------------------------------
(* The sampler. *)

\* merge_network_windows: the seconds over a threshold add up.
LEMMA WindowsMerge ==
    ASSUME NEW l, NEW r, WindowOf(l), WindowOf(r)
    PROVE  /\ WindowOf(merge_network_windows(l, r))
           /\ \A i : OverOf(merge_network_windows(l, r), i) = OverOf(l, i) + OverOf(r, i)
           /\ \A i : OverOf(l, i) \in Nat
           /\ WindowOf(NoMap) /\ \A i : OverOf(NoMap, i) = 0
<1>1. \A i : OverOf(l, i) \in Nat /\ OverOf(r, i) \in Nat
  BY DEF OverOf, SummaryOf, NoSummary, WindowOf
<1>2. \A i : merge_iface_summary(SummaryOf(l, i), SummaryOf(r, i)).over = OverOf(l, i) + OverOf(r, i)
  BY DEF merge_iface_summary, OverOf
<1>3. \A i \in DOMAIN l \cup DOMAIN r :
        merge_network_windows(l, r)[i].over = OverOf(l, i) + OverOf(r, i)
  BY <1>2 DEF merge_network_windows
<1>4. ASSUME NEW i, i \notin DOMAIN l \cup DOMAIN r
      PROVE  OverOf(merge_network_windows(l, r), i) = OverOf(l, i) + OverOf(r, i)
  BY <1>4 DEF OverOf, SummaryOf, NoSummary, merge_network_windows
<1>5. \A i \in DOMAIN l \cup DOMAIN r :
        OverOf(merge_network_windows(l, r), i) = OverOf(l, i) + OverOf(r, i)
  BY <1>3 DEF OverOf, SummaryOf, merge_network_windows
<1>6. WindowOf(merge_network_windows(l, r))
  <2>1. DOMAIN merge_network_windows(l, r) = DOMAIN l \cup DOMAIN r
    BY DEF merge_network_windows
  <2>2. \A i \in DOMAIN l \cup DOMAIN r : merge_network_windows(l, r)[i].over \in Nat
    BY <1>1, <1>3
  <2> QED
    BY <2>1, <2>2 DEF WindowOf, merge_network_windows
<1>7. WindowOf(NoMap) /\ \A i : OverOf(NoMap, i) = 0
  BY DEF WindowOf, NoMap, OverOf, SummaryOf, NoSummary
<1> QED
  BY <1>1, <1>4, <1>5, <1>6, <1>7


\* sample and the window after it: a tap grows by no more than its gap, and only when
\* it was scanned before.
LEMMA WindowGrows ==
    ASSUME CollectShapes, SamplerInv
    PROVE  /\ WindowOf(WindowAfter)
           /\ \A i \in Taps :
                /\ OverOf(WindowAfter, i) \in Nat
                /\ i \in Timed => Gap(i) \in Nat /\ OverOf(WindowAfter, i) <= OverOf(active, i) + Gap(i)
                /\ i \notin Timed => OverOf(WindowAfter, i) <= OverOf(active, i)
                /\ spanned[i] + OverOf(carry, i) + OverOf(WindowAfter, i) <= agtick
<1> DEFINE new == [j \in Timed |-> SampleOf(j)]
           w == merge_network_windows(active, new)
<1>1. ASSUME NEW j \in Timed
      PROVE  Gap(j) = agtick - last[j].at /\ Gap(j) \in Nat /\ SampleOf(j).over \in 0..Gap(j)
  <2>1. j \in Taps /\ j \in DOMAIN last /\ Gap(j) >= 1
    BY DEF Timed, SamplerInv, SamplerShapes
  <2>2. Gap(j) = agtick - last[j].at /\ Gap(j) \in Nat
    BY <2>1 DEF Gap, SamplerInv, TapSampled, CollectShapes
  <2> QED
    BY <2>1, <2>2 DEF SampleOf
<1>2. WindowOf(new)
  BY <1>1 DEF WindowOf
<1>3. WindowOf(w) /\ \A i : OverOf(w, i) = OverOf(active, i) + OverOf(new, i)
  BY <1>2, WindowsMerge DEF SamplerInv, SamplerShapes
<1>4. WindowOf(WindowAfter) /\ \A i : OverOf(WindowAfter, i) \in {0, OverOf(w, i)}
  <2>1. WindowAfter = [i \in DOMAIN w \ StaleTaps |-> w[i]]
    BY DEF WindowAfter, Restrict
  <2> QED
    BY <1>3, <2>1 DEF OverOf, SummaryOf, NoSummary, WindowOf
<1>5. ASSUME NEW i \in Taps
      PROVE  /\ OverOf(WindowAfter, i) \in Nat
             /\ i \in Timed => Gap(i) \in Nat /\ OverOf(WindowAfter, i) <= OverOf(active, i) + Gap(i)
             /\ i \notin Timed => OverOf(WindowAfter, i) <= OverOf(active, i)
             /\ spanned[i] + OverOf(carry, i) + OverOf(WindowAfter, i) <= agtick
  <2> DEFINE now == OverOf(WindowAfter, i)
             more == OverOf(new, i)
             before == OverOf(active, i)
             sent == OverOf(carry, i)
  <2>1. now \in {0, before + more} /\ before \in Nat /\ more \in Nat /\ sent \in Nat
    BY <1>2, <1>3, <1>4, WindowsMerge DEF SamplerInv, SamplerShapes
  <2>2. /\ i \in Timed => more = SampleOf(i).over
        /\ i \notin Timed => more = 0
    BY DEF OverOf, SummaryOf, NoSummary
  <2>3. /\ i \in Timed => Gap(i) = agtick - last[i].at /\ Gap(i) \in Nat /\ more <= Gap(i)
    BY <1>1, <2>2
  <2>4. /\ spanned[i] \in Nat /\ agtick \in Nat /\ spanned[i] + sent + before <= agtick
        /\ i \in Timed => last[i].at \in Nat /\ spanned[i] + sent + before <= last[i].at
    BY DEF Timed, TapSampled, SpanOf, SamplerInv, SamplerShapes, CollectShapes
  <2> HIDE DEF now, more, before, sent
  <2>5. /\ now \in Nat /\ spanned[i] + sent + now <= agtick
        /\ i \in Timed => now <= before + Gap(i)
        /\ i \notin Timed => now <= before
    BY <2>1, <2>2, <2>3, <2>4
  <2> QED
    BY <2>3, <2>5 DEF now, before, sent
<1> QED
  BY <1>4, <1>5

\* sample: the windows and the last counters of a tap after a scan.
LEMMA TapScanned ==
    ASSUME CollectShapes, SamplerInv, NEW i \in Taps, sample
    PROVE  LET span == spanned[i] + OverOf(carry, i) + OverOf(WindowAfter, i) IN
           /\ OverOf(WindowAfter, i) \in Nat
           /\ sowed'[i] \in Int /\ sowed'[i] >= -1 /\ span <= agtick
           /\ i \in DOMAIN last' =>
                /\ last'[i].c \in Nat /\ last'[i].at \in Nat /\ last'[i].at <= agtick
                /\ sowed'[i] >= 0 /\ span <= last'[i].at
                /\ OwnerOf(i) # {} =>
                    /\ sowed'[i] >= delta_counter(CountOf(i), last'[i].c)
                    /\ i \notin sexcused' => sowed'[i] = CountOf(i) - last'[i].c
<1> DEFINE now == OverOf(WindowAfter, i)
<1>1. /\ i \in Scanned => OwnerOf(i) # {}
      /\ OwnerOf(i) # {} => CountOf(i) \in Nat
      /\ i \in Timed => i \in Scanned /\ i \in DOMAIN last /\ Gap(i) >= 1
      /\ i \in Scanned \cap DOMAIN last /\ i \notin Timed => ~(Gap(i) >= 1)
      /\ agtick \in Nat /\ spanned[i] \in Nat /\ sowed[i] \in Int
      /\ OverOf(carry, i) \in Nat /\ OverOf(active, i) \in Nat
  BY OwnerIs, WindowsMerge DEF Scanned, Timed, CollectShapes, SamplerInv, SamplerShapes
<1>2. /\ i \in DOMAIN last' <=> i \in (DOMAIN last \cup Scanned) \ StaleTaps
      /\ i \in DOMAIN last' /\ i \in Scanned => last'[i] = [c |-> CountOf(i), at |-> agtick]
      /\ i \in DOMAIN last' /\ i \notin Scanned => last'[i] = last[i]
      /\ i \in StaleTaps => i \notin Scanned
  BY DEF sample, StaleTaps
<1>3. /\ i \in Timed => sowed'[i] = sowed[i] - SampleOf(i).bytes
      /\ i \in Scanned \ DOMAIN last => sowed'[i] = 0
      /\ i \notin Timed /\ i \notin Scanned \ DOMAIN last => sowed'[i] = sowed[i]
  BY <1>1 DEF sample
<1>4. /\ i \in sexcused /\ i \notin Scanned \ DOMAIN last => i \in sexcused'
      /\ i \in Scanned \cap DOMAIN last /\ i \notin Timed /\ CountOf(i) # last[i].c => i \in sexcused'
  BY DEF sample
<1>5. i \in Timed => SampleOf(i).bytes = delta_counter(CountOf(i), last[i].c)
  BY DEF SampleOf
<1>6. /\ now \in Nat /\ spanned[i] + OverOf(carry, i) + now <= agtick
      /\ i \notin Timed => now <= OverOf(active, i)
  BY WindowGrows
<1>7. /\ sowed[i] >= -1 /\ spanned[i] + OverOf(carry, i) + OverOf(active, i) <= agtick
      /\ i \in DOMAIN last =>
           /\ last[i].c \in Nat /\ last[i].at \in Nat /\ last[i].at <= agtick /\ sowed[i] >= 0
           /\ spanned[i] + OverOf(carry, i) + OverOf(active, i) <= last[i].at
           /\ OwnerOf(i) # {} =>
                /\ sowed[i] >= delta_counter(CountOf(i), last[i].c)
                /\ i \notin sexcused => sowed[i] = CountOf(i) - last[i].c
  BY DEF SamplerInv, TapSampled, SpanOf
<1> HIDE DEF now
<1> SUFFICES /\ now \in Nat
             /\ sowed'[i] \in Int /\ sowed'[i] >= -1
             /\ spanned[i] + OverOf(carry, i) + now <= agtick
             /\ i \in DOMAIN last' =>
                  /\ last'[i].c \in Nat /\ last'[i].at \in Nat /\ last'[i].at <= agtick
                  /\ sowed'[i] >= 0 /\ spanned[i] + OverOf(carry, i) + now <= last'[i].at
                  /\ OwnerOf(i) # {} =>
                       /\ sowed'[i] >= delta_counter(CountOf(i), last'[i].c)
                       /\ i \notin sexcused' => sowed'[i] = CountOf(i) - last'[i].c
  BY DEF now
<1>8. CASE i \in Timed
  <2>1. i \in DOMAIN last' => last'[i].c = CountOf(i) /\ last'[i].at = agtick
    BY <1>1, <1>2, <1>8
  <2>2. sowed'[i] = sowed[i] - delta_counter(CountOf(i), last[i].c)
    BY <1>3, <1>5, <1>8
  <2>3. i \notin sexcused' => i \notin sexcused
    BY <1>1, <1>4, <1>8
  <2>4. CountOf(i) \in Nat /\ sowed'[i] \in Nat /\ (i \notin sexcused' => sowed'[i] = 0)
    BY <1>1, <1>7, <1>8, <2>2, <2>3 DEF delta_counter
  <2>5. delta_counter(CountOf(i), CountOf(i)) = 0
    BY <2>4 DEF delta_counter
  <2> QED
    BY <1>1, <1>6, <2>1, <2>4, <2>5
<1>9. CASE i \notin Timed /\ i \in Scanned
  <2>1. /\ i \in DOMAIN last' => last'[i].c = CountOf(i) /\ last'[i].at = agtick
        /\ OwnerOf(i) # {} /\ CountOf(i) \in Nat
    BY <1>1, <1>2, <1>9
  <2>2. delta_counter(CountOf(i), CountOf(i)) = 0
    BY <2>1 DEF delta_counter
  <2>3. CASE i \notin DOMAIN last
    <3>1. sowed'[i] = 0
      BY <1>3, <1>9, <2>3
    <3> QED
      BY <1>1, <1>6, <2>1, <2>2, <3>1
  <2>4. CASE i \in DOMAIN last
    <3>1. sowed'[i] = sowed[i] /\ sowed[i] >= 0
      BY <1>3, <1>7, <1>9, <2>4
    <3>2. i \notin sexcused' => i \notin sexcused /\ CountOf(i) = last[i].c
      BY <1>4, <1>9, <2>4
    <3>3. i \notin sexcused' => sowed[i] = 0
      BY <1>7, <2>1, <2>4, <3>2
    <3> QED
      BY <1>1, <1>6, <2>1, <2>2, <3>1, <3>3
  <2> QED
    BY <2>3, <2>4
<1>10. CASE i \notin Scanned
  <2>1. /\ sowed'[i] = sowed[i] /\ i \notin Timed
        /\ i \in DOMAIN last' => i \in DOMAIN last /\ last'[i] = last[i]
        /\ i \in sexcused => i \in sexcused'
    BY <1>1, <1>2, <1>3, <1>4, <1>10
  <2> QED
    BY <1>1, <1>6, <1>7, <2>1
<1> QED
  BY <1>8, <1>9, <1>10

\* sampler_loop and rotate: a scan whose window stays, or moves to the carry.
LEMMA ScanKeeps ==
    ASSUME CollectShapes, SamplerInv, sample, UNCHANGED <<agtick, up, counter, spanned>>,
           \/ active' = WindowAfter /\ carry' = carry
           \/ active' = NoMap /\ carry' = merge_network_windows(carry, WindowAfter)
    PROVE  SamplerInv'
<1>1. WindowOf(WindowAfter) /\ WindowOf(carry) /\ agtick \in Nat
  BY WindowGrows DEF SamplerInv, SamplerShapes, CollectShapes
<1>2. WindowOf(active') /\ WindowOf(carry')
  BY <1>1, WindowsMerge
<1>3. DOMAIN last' \subseteq Taps /\ sowed' \in [Taps -> Int]
  <2>1. DOMAIN last' \subseteq Taps
    BY DEF sample, Scanned, SamplerInv, SamplerShapes
  <2>2. \A i \in Taps : sowed'[i] \in Int
    BY TapScanned
  <2> QED
    BY <2>1, <2>2 DEF sample
<1>4. ASSUME NEW i \in Taps PROVE TapSampled(i)'
  <2>1. OverOf(carry', i) + OverOf(active', i) = OverOf(carry, i) + OverOf(WindowAfter, i)
    <3>1. OverOf(carry, i) \in Nat /\ OverOf(WindowAfter, i) \in Nat /\ OverOf(NoMap, i) = 0
      BY <1>1, WindowsMerge
    <3>2. OverOf(merge_network_windows(carry, WindowAfter), i) = OverOf(carry, i) + OverOf(WindowAfter, i)
      BY <1>1, WindowsMerge
    <3> QED
      BY <3>1, <3>2
  <2>2. OverOf(carry', i) \in Nat /\ OverOf(active', i) \in Nat /\ spanned[i] \in Nat
        /\ OverOf(carry, i) \in Nat /\ OverOf(WindowAfter, i) \in Nat
    BY <1>1, <1>2, WindowsMerge DEF SamplerInv, SamplerShapes
  <2>3. SpanOf(i)' = spanned[i] + OverOf(carry, i) + OverOf(WindowAfter, i)
    <3>1. SpanOf(i)' = spanned[i] + OverOf(carry', i) + OverOf(active', i)
      BY DEF SpanOf, OverOf, SummaryOf
    <3> QED
      BY <2>1, <2>2, <3>1
  <2>4. OwnerOf(i)' = OwnerOf(i) /\ CountOf(i)' = CountOf(i)
    BY DEF OwnerOf, CountOf, collect_interface_counters
  <2> QED
    BY <2>3, <2>4, TapScanned DEF TapSampled, delta_counter
<1> QED
  BY <1>2, <1>3, <1>4 DEF SamplerInv, SamplerShapes, WindowOf

\* Steps that scan nothing and change no counter: what windows tell may move to the
\* payload.
LEMMA SamplerStays ==
    ASSUME CollectShapes, SamplerInv, UNCHANGED <<agtick, up, counter, last, sowed, sexcused, active>>,
           \/ UNCHANGED <<spanned, carry>>
           \/ /\ spanned' = [i \in Taps |-> spanned[i] + SummaryOf(carry, i).over]
              /\ carry' = empty_network_window
    PROVE  SamplerInv'
<1>1. WindowOf(active) /\ WindowOf(carry)
  BY DEF SamplerInv, SamplerShapes
<1>2. \A i \in Taps : /\ spanned[i] \in Nat /\ OverOf(carry, i) \in Nat /\ OverOf(active, i) \in Nat
                      /\ OverOf(NoMap, i) = 0
  BY <1>1, WindowsMerge DEF SamplerInv, SamplerShapes
<1>3. SamplerShapes'
  <2>1. WindowOf(NoMap)
    BY <1>1, WindowsMerge
  <2>2. spanned' \in [Taps -> Nat]
    BY <1>2 DEF SamplerInv, SamplerShapes, OverOf
  <2> QED
    BY <1>1, <2>1, <2>2 DEF SamplerInv, SamplerShapes, WindowOf, empty_network_window
<1>4. ASSUME NEW i \in Taps PROVE TapSampled(i)'
  <2>1. SpanOf(i)' = spanned'[i] + OverOf(carry', i) + OverOf(active, i)
    BY DEF SpanOf, OverOf, SummaryOf
  <2>2. \/ spanned'[i] = spanned[i] /\ carry' = carry
        \/ spanned'[i] = spanned[i] + OverOf(carry, i) /\ carry' = NoMap
    BY DEF OverOf, empty_network_window
  <2>3. SpanOf(i)' = SpanOf(i)
    BY <1>2, <2>1, <2>2 DEF SpanOf
  <2>4. OwnerOf(i)' = OwnerOf(i) /\ CountOf(i)' = CountOf(i)
    BY DEF OwnerOf, CountOf, collect_interface_counters
  <2> QED
    BY <2>3, <2>4 DEF SamplerInv, TapSampled, delta_counter
<1> QED
  BY <1>3, <1>4 DEF SamplerInv

\* Time passes.
LEMMA SamplerTicks ==
    ASSUME CollectShapes, SamplerInv, AgentTick
    PROVE  SamplerInv'
<1>1. SamplerShapes'
  BY DEF AgentTick, SamplerInv, SamplerShapes, WindowOf
<1>2. ASSUME NEW i \in Taps PROVE TapSampled(i)'
  <2>1. /\ SpanOf(i)' = SpanOf(i) /\ OwnerOf(i)' = OwnerOf(i) /\ CountOf(i)' = CountOf(i)
        /\ UNCHANGED <<last, sowed, sexcused>> /\ agtick' = agtick + 1
    BY DEF AgentTick, SpanOf, OverOf, SummaryOf, OwnerOf, CountOf, collect_interface_counters
  <2>2. SpanOf(i) \in Nat /\ agtick \in Nat /\ SpanOf(i) <= agtick
    <3>1. OverOf(carry, i) \in Nat /\ OverOf(active, i) \in Nat /\ spanned[i] \in Nat
      BY WindowsMerge DEF SamplerInv, SamplerShapes
    <3>2. agtick \in Nat /\ SpanOf(i) <= agtick
      BY DEF SamplerInv, TapSampled, CollectShapes
    <3> QED
      BY <3>1, <3>2 DEF SpanOf
  <2> QED
    BY <2>1, <2>2 DEF SamplerInv, TapSampled, delta_counter
<1> QED
  BY <1>1, <1>2 DEF SamplerInv

\* A restarted Agent: its sampler knows no tap, its window is in the carry or lost.
LEMMA SamplerRestarts ==
    ASSUME CollectShapes, SamplerInv, NEW g \in BOOLEAN, Restart(g)
    PROVE  SamplerInv'
<1>1. /\ carry' \in {carry, merge_network_windows(carry, WindowAfter)}
      /\ last' = NoMap /\ active' = NoMap /\ sowed' = [i \in Taps |-> -1]
      /\ agtick' = agtick /\ spanned' = spanned /\ agtick \in Nat
  BY DEF Restart, CollectShapes
<1>2. WindowOf(WindowAfter) /\ WindowOf(carry) /\ WindowOf(active)
  BY WindowGrows DEF SamplerInv, SamplerShapes
<1>3. SamplerShapes'
  <2>1. WindowOf(NoMap) /\ WindowOf(merge_network_windows(carry, WindowAfter))
    BY <1>2, WindowsMerge
  <2> QED
    BY <1>1, <1>2, <2>1 DEF SamplerInv, SamplerShapes, WindowOf, NoMap
<1>4. ASSUME NEW i \in Taps PROVE TapSampled(i)'
  <2>1. SpanOf(i)' = spanned[i] + OverOf(carry', i) + OverOf(NoMap, i)
    BY <1>1 DEF SpanOf, OverOf, SummaryOf
  <2>2. /\ OverOf(carry', i) \in {OverOf(carry, i), OverOf(carry, i) + OverOf(WindowAfter, i)}
        /\ OverOf(carry, i) \in Nat /\ OverOf(WindowAfter, i) \in Nat /\ OverOf(NoMap, i) = 0
    <3>1. OverOf(merge_network_windows(carry, WindowAfter), i) = OverOf(carry, i) + OverOf(WindowAfter, i)
      BY <1>2, WindowsMerge
    <3>2. OverOf(carry, i) \in Nat /\ OverOf(WindowAfter, i) \in Nat /\ OverOf(NoMap, i) = 0
      BY <1>2, WindowsMerge
    <3> QED
      BY <1>1, <3>1, <3>2
  <2>3. spanned[i] \in Nat /\ spanned[i] + OverOf(carry, i) + OverOf(WindowAfter, i) <= agtick
    BY WindowGrows DEF SamplerInv, SamplerShapes
  <2>4. SpanOf(i)' <= agtick
    BY <1>1, <2>1, <2>2, <2>3
  <2>5. i \notin DOMAIN last' /\ sowed'[i] = -1
    BY <1>1 DEF NoMap
  <2> QED
    BY <1>1, <2>4, <2>5 DEF TapSampled
<1> QED
  BY <1>3, <1>4 DEF SamplerInv

\* Traffic: what passes on a tap is seen by the next scan and owed by it.
LEMMA SamplerPasses ==
    ASSUME CollectShapes, SamplerInv, NEW k \in CounterKeys, Passes(k)
    PROVE  SamplerInv'
<1>1. /\ k \notin Links => k[2] \in up
      /\ counter' = [counter EXCEPT ![k] = @ + 1]
      /\ sowed' = [i \in Taps |-> IF k \in NetKeys /\ k[3] = i /\ sowed[i] # -1 THEN sowed[i] + 1 ELSE sowed[i]]
      /\ UNCHANGED <<agtick, up, last, active, carry, spanned, sexcused>>
  BY DEF Passes
<1>2. SamplerShapes'
  BY <1>1 DEF SamplerInv, SamplerShapes, WindowOf
<1>3. ASSUME NEW i \in Taps PROVE TapSampled(i)'
  <2>1. /\ SpanOf(i)' = SpanOf(i) /\ OwnerOf(i)' = OwnerOf(i)
        /\ UNCHANGED <<last, sexcused, agtick>>
        /\ sowed[i] \in Int /\ sowed[i] >= -1
    BY <1>1 DEF SpanOf, OverOf, SummaryOf, OwnerOf, SamplerInv, SamplerShapes, TapSampled
  <2>2. ASSUME OwnerOf(i) # {}
        PROVE  /\ CountOf(i)' = IF k \in NetKeys /\ k[3] = i THEN CountOf(i) + 1 ELSE CountOf(i)
               /\ CountOf(i) \in Nat
    <3>1. PICK v \in up : TapOf[v] = i
      BY <2>2, OwnerIs
    <3>2. OwnerOf(i) = {v} /\ CountOf(i) = counter[NetKey(v, i)] /\ CountOf(i) \in Nat
      BY <3>1, OwnerIs, <2>2
    <3>3. CountOf(i)' = counter'[NetKey(v, i)]
      BY <2>1, <3>2 DEF CountOf, collect_interface_counters
    <3>4. NetKey(v, i) \in NetKeys /\ NetKey(v, i) \in CounterKeys /\ NetKey(v, i)[3] = i
      BY <3>1, KeysTell DEF CollectShapes, NetKey
    <3>5. k \in NetKeys /\ k[3] = i => k = NetKey(v, i)
      <4>1. k \in NetKeys /\ k[3] = i => k[2] \in up /\ TapOf[k[2]] = i /\ k = NetKey(k[2], i)
        BY <1>1, KeysTell
      <4> QED
        BY <3>1, <4>1 DEF CollectShapes
    <3>6. counter'[NetKey(v, i)] = IF k = NetKey(v, i) THEN counter[NetKey(v, i)] + 1 ELSE counter[NetKey(v, i)]
      BY <1>1, <3>4 DEF CollectShapes
    <3> QED
      BY <3>2, <3>3, <3>4, <3>5, <3>6
  <2>3. sowed'[i] = IF k \in NetKeys /\ k[3] = i /\ sowed[i] # -1 THEN sowed[i] + 1 ELSE sowed[i]
    BY <1>1
  <2>4. sowed'[i] >= -1 /\ (sowed[i] >= 0 => sowed'[i] >= 0)
    BY <2>1, <2>3
  <2>5. ASSUME i \in DOMAIN last, OwnerOf(i) # {}
        PROVE  /\ sowed'[i] >= delta_counter(CountOf(i)', last[i].c)
               /\ i \notin sexcused => sowed'[i] = CountOf(i)' - last[i].c
    <3>1. /\ sowed[i] >= 0 /\ last[i].c \in Nat /\ sowed[i] >= delta_counter(CountOf(i), last[i].c)
          /\ i \notin sexcused => sowed[i] = CountOf(i) - last[i].c
      BY <2>5 DEF SamplerInv, TapSampled
    <3>2. \/ sowed'[i] = sowed[i] + 1 /\ CountOf(i)' = CountOf(i) + 1
          \/ sowed'[i] = sowed[i] /\ CountOf(i)' = CountOf(i)
      BY <2>1, <2>2, <2>3, <2>5, <3>1
    <3>3. CountOf(i) \in Nat
      BY <2>2, <2>5
    <3> QED
      BY <2>1, <3>1, <3>2, <3>3 DEF delta_counter
  <2>6. /\ SpanOf(i) <= agtick
        /\ i \in DOMAIN last => /\ last[i].c \in Nat /\ last[i].at \in Nat /\ last[i].at <= agtick
                                /\ sowed[i] >= 0 /\ SpanOf(i) <= last[i].at
    BY DEF SamplerInv, TapSampled
  <2> QED
    BY <2>1, <2>4, <2>5, <2>6 DEF TapSampled, delta_counter
<1> QED
  BY <1>2, <1>3 DEF SamplerInv

\* A VM stops: its tap is gone, the others keep theirs.
LEMMA SamplerStops ==
    ASSUME CollectShapes, SamplerInv, NEW v \in AgVms, Stop(v)
    PROVE  SamplerInv'
<1>1. up' = up \ {v} /\ UNCHANGED <<agtick, counter, last, active, carry, sowed, spanned, sexcused>>
  BY DEF Stop
<1>2. SamplerShapes'
  BY <1>1 DEF SamplerInv, SamplerShapes, WindowOf
<1>3. ASSUME NEW i \in Taps PROVE TapSampled(i)'
  <2>1. SpanOf(i)' = SpanOf(i)
    BY <1>1 DEF SpanOf, OverOf, SummaryOf
  <2>2. ASSUME OwnerOf(i)' # {}
        PROVE  OwnerOf(i) # {} /\ CountOf(i)' = CountOf(i)
    <3>1. OwnerOf(i)' = OwnerOf(i) \ {v}
      BY <1>1 DEF OwnerOf
    <3>2. PICK u \in OwnerOf(i)' : TRUE
      BY <2>2
    <3>3. OwnerOf(i) = {u}
      BY <3>1, <3>2, OwnerIs DEF OwnerOf
    <3>4. OwnerOf(i)' = OwnerOf(i)
      BY <3>1, <3>2, <3>3
    <3> QED
      BY <1>1, <3>3, <3>4 DEF CountOf, collect_interface_counters
  <2> QED
    BY <1>1, <2>1, <2>2 DEF SamplerInv, TapSampled, delta_counter
<1> QED
  BY <1>2, <1>3 DEF SamplerInv

\* A VM starts: its counter is new, whatever the sampler has of the tap.
LEMMA SamplerStarts ==
    ASSUME CollectShapes, SamplerInv, NEW v \in AgVms, Start(v)
    PROVE  SamplerInv'
<1> DEFINE tap == TapOf[v]
<1>1. /\ v \notin up /\ OwnerOf(tap) = {} /\ up' = up \cup {v}
      /\ counter' = [k \in CounterKeys |-> IF k \in KeysOf(v) THEN 0 ELSE counter[k]]
      /\ sowed' = [sowed EXCEPT ![tap] = IF tap \in DOMAIN last THEN 0 ELSE -1]
      /\ sexcused' = IF tap \in DOMAIN last THEN sexcused \cup {tap} ELSE sexcused
      /\ UNCHANGED <<agtick, last, active, carry, spanned>>
  BY DEF Start
<1>2. SamplerShapes'
  <2>1. PICK n \in {0, -1} : sowed' = [sowed EXCEPT ![tap] = n]
    BY <1>1
  <2>2. sowed' \in [Taps -> Int]
    <3>1. n \in Int /\ sowed \in [Taps -> Int]
      BY DEF SamplerInv, SamplerShapes
    <3> QED
      BY <2>1, <3>1
  <2> QED
    BY <1>1, <2>2 DEF SamplerInv, SamplerShapes, WindowOf
<1>3. ASSUME NEW i \in Taps PROVE TapSampled(i)'
  <2>1. SpanOf(i)' = SpanOf(i) /\ last' = last /\ agtick' = agtick
    BY <1>1 DEF SpanOf, OverOf, SummaryOf
  <2>2. /\ sowed[i] \in Int /\ sowed[i] >= -1 /\ SpanOf(i) <= agtick
        /\ i \in DOMAIN last => /\ last[i].c \in Nat /\ last[i].at \in Nat /\ last[i].at <= agtick
                                /\ sowed[i] >= 0 /\ SpanOf(i) <= last[i].at
    BY DEF SamplerInv, SamplerShapes, TapSampled
  <2>3. CASE i = tap
    <3>1. sowed'[i] = IF i \in DOMAIN last THEN 0 ELSE -1
      BY <1>1, <2>3 DEF SamplerInv, SamplerShapes
    <3>2. OwnerOf(i)' = {v}
      BY <1>1, <2>3 DEF OwnerOf
    <3>3. CountOf(i)' = counter'[NetKey(v, i)]
      BY <3>2 DEF CountOf, collect_interface_counters
    <3>4. counter'[NetKey(v, i)] = 0
      <4>1. NetKey(v, i) \in NetKeys /\ NetKey(v, i)[2] = v
        BY <2>3, KeysTell DEF NetKey
      <4> QED
        BY <1>1, <4>1, KeysTell DEF KeysOf
    <3>5. i \in DOMAIN last => i \in sexcused' /\ delta_counter(0, last[i].c) = 0
      BY <1>1, <2>2, <2>3 DEF delta_counter
    <3> QED
      BY <2>1, <2>2, <3>1, <3>3, <3>4, <3>5 DEF TapSampled, delta_counter
  <2>4. CASE i # tap
    <3>1. sowed'[i] = sowed[i] /\ (i \in sexcused' <=> i \in sexcused)
      BY <1>1, <2>4 DEF SamplerInv, SamplerShapes
    <3>2. OwnerOf(i)' = OwnerOf(i)
      BY <1>1, <2>4 DEF OwnerOf
    <3>3. ASSUME OwnerOf(i) # {} PROVE CountOf(i)' = CountOf(i)
      <4>1. PICK u \in up : TapOf[u] = i
        BY <3>3, OwnerIs
      <4>2. OwnerOf(i) = {u} /\ u # v /\ u \in AgVms
        BY <1>1, <4>1, OwnerIs DEF CollectShapes
      <4>3. NetKey(u, i) \in CounterKeys /\ NetKey(u, i) \notin KeysOf(v)
        BY <4>1, <4>2, KeysTell DEF KeysOf, NetKey
      <4>4. counter'[NetKey(u, i)] = counter[NetKey(u, i)]
        BY <1>1, <4>3
      <4> QED
        BY <3>2, <4>2, <4>4 DEF CountOf, collect_interface_counters
    <3>4. OwnerOf(i) # {} /\ i \in DOMAIN last =>
            /\ sowed[i] >= delta_counter(CountOf(i), last[i].c)
            /\ i \notin sexcused => sowed[i] = CountOf(i) - last[i].c
      BY DEF SamplerInv, TapSampled
    <3> QED
      BY <2>1, <2>2, <3>1, <3>2, <3>3, <3>4 DEF TapSampled, delta_counter
  <2> QED
    BY <2>3, <2>4
<1> QED
  BY <1>2, <1>3 DEF SamplerInv

-----------------------------------------------------------------------------
(* The cycle. *)

\* Steps that read, start and count nothing.
LEMMA CollectStays ==
    ASSUME CollectShapes, CollectInv, agtick' \in Nat,
           UNCHANGED <<up, counter, kept, imap, cyc, owed, excused>>
    PROVE  CollectShapes' /\ CollectInv'
<1>1. CollectShapes'
  BY DEF CollectShapes
<1>2. CycleKnows'
  BY DEF CollectInv, CycleKnows, RowRead
<1>3. ASSUME NEW k \in CounterKeys PROVE KeyOwed(k)'
  BY DEF CollectInv, KeyOwed
<1> QED
  BY <1>1, <1>2, <1>3 DEF CollectInv

\* BeginCycle and Restart: a cycle starts with the names of the VMs that run, or
\* none does.
LEMMA CycleBegins ==
    ASSUME CollectShapes, CollectInv, agtick' \in Nat,
           UNCHANGED <<up, counter, kept, imap, owed, excused>>,
           \/ cyc' = Resting
           \/ \E how \in {"fine", "nolist", "overload"} :
                cyc' = [pc |-> IF how = "overload" THEN "limited" ELSE "net",
                        names |-> get_vm_names(how = "fine"), complete |-> how = "fine", rows |-> NoMap]
    PROVE  CollectShapes' /\ CollectInv'
<1>1. cyc'.pc \in {"rest", "net", "limited"} /\ (cyc'.pc = "rest" => cyc' = Resting)
  BY DEF Resting
<1>2. cyc'.pc # "rest" =>
        /\ cyc' = [pc |-> cyc'.pc, names |-> cyc'.names, complete |-> cyc'.complete, rows |-> cyc'.rows]
        /\ cyc'.complete => cyc'.names = up
        /\ cyc'.names \subseteq AgVms
  <2>1. CASE cyc' = Resting
    BY <2>1 DEF Resting
  <2>2. ASSUME NEW how \in {"fine", "nolist", "overload"},
               cyc' = [pc |-> IF how = "overload" THEN "limited" ELSE "net",
                       names |-> get_vm_names(how = "fine"), complete |-> how = "fine", rows |-> NoMap]
        PROVE  /\ cyc' = [pc |-> cyc'.pc, names |-> cyc'.names, complete |-> cyc'.complete, rows |-> cyc'.rows]
               /\ cyc'.complete => cyc'.names = up
               /\ cyc'.names \subseteq AgVms
    BY <2>2 DEF get_vm_names, CollectShapes
  <2> QED
    BY <2>1, <2>2
<1>3. CollectShapes'
  BY <1>1, <1>2 DEF CollectShapes
<1>4. CycleKnows'
  BY <1>1, <1>2 DEF CycleKnows
<1>5. ASSUME NEW k \in CounterKeys PROVE KeyOwed(k)'
  BY DEF CollectInv, KeyOwed
<1> QED
  BY <1>3, <1>4, <1>5 DEF CollectInv

\* ReadInterfaces: what could not be read is excused.
LEMMA CycleReads ==
    ASSUME CollectShapes, CollectInv, NEW unread \in SUBSET AgVms, ReadInterfaces(unread)
    PROVE  CollectShapes' /\ CollectInv'
<1> DEFINE rows == collect_network(cyc.names, unread)
<1>1. /\ cyc.pc = "net" /\ cyc' = [cyc EXCEPT !.pc = "host", !.rows = rows]
      /\ excused' = excused \cup UNION {KeysOf(v) \cap NetKeys : v \in unread}
      /\ UNCHANGED <<agtick, up, counter, kept, imap, owed>>
  BY DEF ReadInterfaces
<1>2. /\ DOMAIN rows \subseteq NetKeys
      /\ \A k \in DOMAIN rows : rows[k] \in Nat
      /\ \A k \in NetKeys : k[2] \in up =>
           /\ k[2] \in cyc.names \ unread => k \in DOMAIN rows
           /\ k \in DOMAIN rows => rows[k] = counter[k]
  <2>1. cyc.names \in SUBSET AgVms
    BY <1>1 DEF CollectShapes
  <2> QED
    BY <2>1, InterfacesRead
<1> HIDE DEF rows
<1>3. cyc' = [pc |-> "host", names |-> cyc.names, complete |-> cyc.complete, rows |-> rows]
  BY <1>1 DEF CollectShapes
<1>4. CollectShapes'
  BY <1>1, <1>3 DEF CollectShapes
<1>5. ASSUME NEW k \in CounterKeys PROVE KeyOwed(k)'
  BY <1>1 DEF CollectInv, KeyOwed
<1>6. ASSUME NEW k \in NetKeys \ excused', k[2] \in up
      PROVE  RowRead(k)'
  <2>1. k \notin excused /\ k[2] \notin unread /\ k \in CounterKeys /\ k \notin Links
    BY <1>1, <1>6, KeysTell DEF KeysOf
  <2>2. cyc.complete => k[2] \in cyc.names
    BY <1>1, <1>6, <2>1 DEF CollectInv, CycleKnows
  <2>3. k \in DOMAIN rows => /\ rows[k] = counter[k] /\ counter[k] \in Nat
                             /\ owed[k] # -1 => kept[k] <= counter[k]
    BY <1>2, <1>6, <2>1 DEF CollectInv, KeyOwed, CollectShapes
  <2> QED
    BY <1>1, <1>2, <1>3, <1>6, <2>2, <2>1, <2>3 DEF RowRead
<1>7. CycleKnows'
  <2>1. cyc.complete => \A k \in (NetKeys \cup AgDisks) \ excused' : k[2] \in up => k[2] \in cyc.names
    BY <1>1 DEF CollectInv, CycleKnows
  <2> QED
    BY <1>1, <1>2, <1>3, <1>6, <2>1 DEF CycleKnows
<1> QED
  BY <1>4, <1>5, <1>7 DEF CollectInv

\* Committed: when the new state has what was reported, and what it had of the
\* rest, the next reading reports what is owed.
LEMMA CycleCommits ==
    ASSUME CollectShapes, CollectInv, NEW rows, NEW state, NEW map, Committed(rows, state, map),
           UNCHANGED <<agtick, up, counter>>, excused \subseteq excused',
           \A k \in DOMAIN rows : rows[k] \in Nat,
           \A k \in DOMAIN state : state[k] \in Nat,
           \A i \in DOMAIN map : map[i] \in AgVms /\ TapOf[map[i]] = i,
           \A k \in CounterKeys \ excused' : k \in Links \/ k[2] \in up =>
             IF k \in DOMAIN rows
             THEN /\ k \in DOMAIN state /\ state[k] = rows[k] /\ rows[k] <= counter[k]
                  /\ owed[k] # -1 => kept[k] <= rows[k]
             ELSE owed[k] # -1 => k \in DOMAIN state /\ state[k] = kept[k]
    PROVE  CollectShapes' /\ CollectInv'
<1>1. /\ kept' = state /\ imap' = map /\ cyc' = Resting
      /\ owed' = [k \in CounterKeys |->
                  IF k \notin DOMAIN rows \/ (k \notin Links /\ k[2] \notin up) THEN owed[k]
                  ELSE IF owed[k] = -1 THEN delta_counter(counter[k], rows[k])
                  ELSE owed[k] - Growth(kept, k, rows[k])]
  BY DEF Committed
<1>2. ASSUME NEW k \in CounterKeys
      PROVE  owed'[k] \in Int
  BY <1>1 DEF CollectShapes, delta_counter, Growth
<1>3. CollectShapes'
  BY <1>1, <1>2 DEF CollectShapes, Resting
<1>4. CycleKnows'
  BY <1>1 DEF CycleKnows, Resting
<1>5. ASSUME NEW k \in CounterKeys PROVE KeyOwed(k)'
  <2>1. counter[k] \in Nat /\ owed[k] \in Int /\ (k \in DOMAIN kept => kept[k] \in Nat)
    BY DEF CollectShapes
  <2>2. /\ k \notin Links /\ k[2] \notin up => owed[k] = -1
        /\ \/ k \in excused \/ owed[k] = -1
           \/ k \in DOMAIN kept /\ owed[k] = counter[k] - kept[k] /\ kept[k] <= counter[k]
    BY DEF CollectInv, KeyOwed
  <2>3. CASE k \notin Links /\ k[2] \notin up
    BY <1>1, <2>2, <2>3 DEF KeyOwed
  <2>4. CASE k \in excused'
    BY <1>1, <2>2, <2>4 DEF KeyOwed
  <2>5. CASE (k \in Links \/ k[2] \in up) /\ k \notin excused' /\ k \notin DOMAIN rows
    BY <1>1, <2>2, <2>5 DEF KeyOwed
  <2>6. CASE (k \in Links \/ k[2] \in up) /\ k \notin excused' /\ k \in DOMAIN rows
    <3>1. /\ k \in DOMAIN state /\ state[k] = rows[k] /\ rows[k] <= counter[k] /\ rows[k] \in Nat
          /\ owed[k] # -1 => kept[k] <= rows[k]
      BY <2>6
    <3>2. owed'[k] = IF owed[k] = -1 THEN delta_counter(counter[k], rows[k])
                     ELSE owed[k] - Growth(kept, k, rows[k])
      BY <1>1, <2>6
    <3>3. owed'[k] = counter[k] - rows[k]
      BY <2>1, <2>2, <2>6, <3>1, <3>2 DEF delta_counter, Growth
    <3> QED
      BY <1>1, <2>6, <3>1, <3>3 DEF KeyOwed
  <2> QED
    BY <2>3, <2>4, <2>5, <2>6
<1> QED
  BY <1>3, <1>4, <1>5 DEF CollectInv

\* collect_cycle_payload: rows that were read become the state, the others stay.
LEMMA PayloadCommits ==
    ASSUME CollectShapes, CollectInv, NEW ok \in BOOLEAN, NEW unread \in SUBSET Links,
           collect_cycle_payload(ok, unread)
    PROVE  CollectShapes' /\ CollectInv'
<1> DEFINE disks == split_domstats_blocks(ok)
           links == collect_physical_network(unread)
           perf == collect_vm_perf(Updated(cyc.rows, kept), disks)
           state == Updated(links, prune_metric_state(perf, cyc.rows, cyc.names, cyc.complete))
           rows == Updated(Updated(cyc.rows, disks), links)
           read == build_iface_map(cyc.rows)
           map == IF read # NoMap \/ cyc.complete THEN read ELSE imap
<1>1. /\ cyc.pc = "host" /\ Committed(rows, state, map)
      /\ UNCHANGED <<agtick, up, counter, excused>>
  BY DEF collect_cycle_payload
<1>2. /\ DOMAIN disks = (IF ok THEN {d \in AgDisks : d[2] \in up} ELSE {})
      /\ \A k \in DOMAIN disks : disks[k] = counter[k] /\ counter[k] \in Nat
      /\ DOMAIN links \subseteq Links
      /\ \A k \in DOMAIN links : links[k] = counter[k] /\ counter[k] \in Nat
  BY KeysTell DEF split_domstats_blocks, collect_physical_network, CollectShapes,
                  is_bridge_member_candidate_uplink
<1>3. /\ DOMAIN cyc.rows \subseteq NetKeys /\ \A k \in DOMAIN cyc.rows : cyc.rows[k] \in Nat
      /\ \A k \in NetKeys \ excused : k[2] \in up => RowRead(k)
      /\ cyc.complete => \A k \in (NetKeys \cup AgDisks) \ excused : k[2] \in up => k[2] \in cyc.names
  BY <1>1 DEF CollectInv, CycleKnows
<1> DEFINE seen == {k[2] : k \in DOMAIN disks}
           gone == {k \in AgDisks : k[2] \in seen} \ DOMAIN disks
           base == Updated(cyc.rows, kept)
<1>4. /\ DOMAIN perf = DOMAIN disks \cup (DOMAIN base \ gone)
      /\ \A k \in DOMAIN perf : perf[k] = IF k \in DOMAIN disks THEN disks[k] ELSE base[k]
      /\ DOMAIN base = DOMAIN cyc.rows \cup DOMAIN kept
      /\ \A k \in DOMAIN base : base[k] = IF k \in DOMAIN cyc.rows THEN cyc.rows[k] ELSE kept[k]
  BY DEF collect_vm_perf, Updated, Restrict
<1> DEFINE pruned == prune_metric_state(perf, cyc.rows, cyc.names, cyc.complete)
           Stays(k) == ~cyc.complete \/ /\ k \in NetKeys => k \in DOMAIN cyc.rows
                                        /\ k \in AgDisks => k[2] \in cyc.names
<1> HIDE DEF disks, links, perf, base
<1>5. /\ \A k : k \in DOMAIN pruned <=> k \in DOMAIN perf /\ Stays(k)
      /\ \A k \in DOMAIN pruned : pruned[k] = perf[k]
  BY DEF prune_metric_state, Restrict
<1> HIDE DEF pruned
<1>6. /\ DOMAIN state = DOMAIN links \cup DOMAIN pruned
      /\ \A k \in DOMAIN state : state[k] = IF k \in DOMAIN links THEN links[k] ELSE pruned[k]
  BY DEF Updated, pruned
<1>7. /\ DOMAIN rows = DOMAIN cyc.rows \cup DOMAIN disks \cup DOMAIN links
      /\ \A k \in DOMAIN rows : rows[k] = IF k \in DOMAIN cyc.rows THEN cyc.rows[k]
                                          ELSE IF k \in DOMAIN disks THEN disks[k] ELSE links[k]
  BY DEF Updated
<1> HIDE DEF state, rows
<1>8. \A k \in DOMAIN rows : rows[k] \in Nat
  BY <1>2, <1>3, <1>7
<1>9. \A k \in DOMAIN state : state[k] \in Nat
  <2>1. \A k \in DOMAIN kept : kept[k] \in Nat
    BY DEF CollectShapes
  <2> QED
    BY <1>2, <1>3, <1>4, <1>5, <1>6, <2>1
<1>10. \A i \in DOMAIN map : map[i] \in AgVms /\ TapOf[map[i]] = i
  <2>1. ASSUME NEW i \in DOMAIN read PROVE read[i] \in AgVms /\ TapOf[read[i]] = i
    <3>1. PICK k \in DOMAIN cyc.rows : k[3] = i
      BY DEF build_iface_map
    <3>2. k[2] \in AgVms /\ k = NetKey(k[2], i)
      BY <1>3, <3>1, KeysTell
    <3>3. read[i] = CHOOSE v \in AgVms : NetKey(v, i) \in DOMAIN cyc.rows
      BY DEF build_iface_map
    <3>4. read[i] \in AgVms /\ NetKey(read[i], i) \in NetKeys
      BY <1>3, <3>1, <3>2, <3>3
    <3>5. NetKey(read[i], i)[2] = read[i] /\ NetKey(read[i], i)[3] = i
      BY DEF NetKey
    <3> QED
      BY <3>4, <3>5, KeysTell
  <2> QED
    BY <2>1 DEF CollectShapes
<1> HIDE DEF map
<1>11. ASSUME NEW k \in CounterKeys \ excused', k \in Links \/ k[2] \in up
       PROVE  IF k \in DOMAIN rows
              THEN /\ k \in DOMAIN state /\ state[k] = rows[k] /\ rows[k] <= counter[k]
                   /\ owed[k] # -1 => kept[k] <= rows[k]
              ELSE owed[k] # -1 => k \in DOMAIN state /\ state[k] = kept[k]
  <2>1. /\ k \notin excused /\ counter[k] \in Nat
        /\ owed[k] = -1 \/ (k \in DOMAIN kept /\ kept[k] <= counter[k])
    BY <1>1 DEF CollectInv, KeyOwed, CollectShapes
  <2>2. CASE k \in NetKeys
    <3>1. k \notin DOMAIN disks /\ k \notin DOMAIN links /\ k \notin gone /\ k \notin AgDisks /\ k[2] \in up
      BY <1>2, <1>11, <2>2, KeysTell
    <3>2. RowRead(k)
      BY <1>3, <2>1, <2>2, <3>1
    <3>3. k \in DOMAIN cyc.rows => k \in DOMAIN state /\ state[k] = cyc.rows[k] /\ rows[k] = cyc.rows[k]
      BY <1>4, <1>5, <1>6, <1>7, <3>1
    <3>4. k \notin DOMAIN cyc.rows /\ owed[k] # -1 => k \in DOMAIN state /\ state[k] = kept[k]
      BY <1>4, <1>5, <1>6, <2>1, <3>1, <3>2 DEF RowRead
    <3> QED
      BY <1>7, <3>1, <3>2, <3>3, <3>4 DEF RowRead
  <2>3. CASE k \in AgDisks
    <3>1. k \notin DOMAIN cyc.rows /\ k \notin DOMAIN links /\ k \notin NetKeys /\ k[2] \in up
      BY <1>2, <1>3, <1>11, <2>3, KeysTell
    <3>2. k \notin gone
      BY <1>2, <3>1
    <3>3. Stays(k)
      BY <1>3, <2>1, <2>3, <3>1
    <3>4. k \in DOMAIN disks => k \in DOMAIN state /\ state[k] = counter[k] /\ rows[k] = counter[k]
      BY <1>2, <1>4, <1>5, <1>6, <1>7, <3>1, <3>3
    <3>5. k \notin DOMAIN disks /\ owed[k] # -1 => k \in DOMAIN state /\ state[k] = kept[k]
      BY <1>4, <1>5, <1>6, <2>1, <3>1, <3>2, <3>3
    <3> QED
      BY <1>7, <2>1, <3>1, <3>4, <3>5
  <2>4. CASE k \in Links
    <3>1. k \notin DOMAIN cyc.rows /\ k \notin NetKeys /\ k \notin AgDisks /\ k \notin DOMAIN disks
      BY <1>2, <1>3, <2>4, KeysTell
    <3>2. k \in DOMAIN links => k \in DOMAIN state /\ state[k] = counter[k] /\ rows[k] = counter[k]
      BY <1>2, <1>6, <1>7, <3>1
    <3>3. k \notin DOMAIN links /\ owed[k] # -1 => k \in DOMAIN state /\ state[k] = kept[k]
      BY <1>4, <1>5, <1>6, <2>1, <3>1
    <3> QED
      BY <1>7, <2>1, <3>1, <3>2, <3>3
  <2> QED
    BY <2>2, <2>3, <2>4, KeysTell
<1> QED
  BY <1>1, <1>8, <1>9, <1>10, <1>11, CycleCommits

\* The same on an overloaded node: the map tells whose tap is read, and what
\* belongs to a VM that has stopped is excused.
LEMMA LimitedCommits ==
    ASSUME CollectShapes, CollectInv, collect_cycle_limited
    PROVE  CollectShapes' /\ CollectInv'
<1> DEFINE taps == collect_network_from_mapping
           links == collect_physical_network({})
           rows == Updated(taps, links)
           state == Updated(rows, kept)
<1>1. /\ Committed(rows, state, imap)
      /\ excused' = excused \cup {k \in DOMAIN rows : k \notin Links /\ k[2] \notin up}
      /\ UNCHANGED <<agtick, up, counter>>
  BY DEF collect_cycle_limited
<1>2. /\ DOMAIN links \subseteq Links
      /\ \A k \in DOMAIN links : links[k] = counter[k] /\ counter[k] \in Nat
  BY KeysTell DEF collect_physical_network, CollectShapes, is_bridge_member_candidate_uplink
<1>3. ASSUME NEW k \in DOMAIN taps
      PROVE  /\ k \in NetKeys /\ taps[k] \in Nat
             /\ k[2] \in up => taps[k] = counter[k]
  <2>1. PICK i \in DOMAIN imap : k = NetKey(imap[i], i) /\ collect_interface_counters(i) # {}
    BY DEF collect_network_from_mapping
  <2>2. imap[i] \in AgVms /\ TapOf[imap[i]] = i /\ k[2] = imap[i] /\ k[3] = i
    BY <2>1 DEF CollectShapes, NetKey
  <2>3. taps[k] = CountOf(i)
    BY <2>2 DEF collect_network_from_mapping, CountOf
  <2> QED
    BY <2>1, <2>2, <2>3, OwnerIs, KeysTell
<1> HIDE DEF taps, links
<1>4. /\ DOMAIN rows = DOMAIN taps \cup DOMAIN links
      /\ \A k \in DOMAIN rows : rows[k] = IF k \in DOMAIN taps THEN taps[k] ELSE links[k]
  BY DEF Updated
<1> HIDE DEF rows
<1>5. /\ DOMAIN state = DOMAIN rows \cup DOMAIN kept
      /\ \A k \in DOMAIN state : state[k] = IF k \in DOMAIN rows THEN rows[k] ELSE kept[k]
  BY DEF Updated
<1> HIDE DEF state
<1>6. /\ \A k \in DOMAIN rows : rows[k] \in Nat
      /\ \A k \in DOMAIN state : state[k] \in Nat
  BY <1>2, <1>3, <1>4, <1>5 DEF CollectShapes
<1>7. ASSUME NEW k \in CounterKeys \ excused', k \in Links \/ k[2] \in up
      PROVE  IF k \in DOMAIN rows
             THEN /\ k \in DOMAIN state /\ state[k] = rows[k] /\ rows[k] <= counter[k]
                  /\ owed[k] # -1 => kept[k] <= rows[k]
             ELSE owed[k] # -1 => k \in DOMAIN state /\ state[k] = kept[k]
  <2>1. /\ k \notin excused /\ counter[k] \in Nat
        /\ owed[k] = -1 \/ (k \in DOMAIN kept /\ kept[k] <= counter[k])
    BY <1>1 DEF CollectInv, KeyOwed, CollectShapes
  <2>2. k \in DOMAIN rows => rows[k] = counter[k]
    BY <1>2, <1>3, <1>4, <1>7, KeysTell
  <2> QED
    BY <1>5, <2>1, <2>2
<1>8. \A i \in DOMAIN imap : imap[i] \in AgVms /\ TapOf[imap[i]] = i
  BY DEF CollectShapes
<1>9. excused \subseteq excused'
  BY <1>1
<1> QED
  BY <1>1, <1>6, <1>7, <1>8, <1>9, CycleCommits

\* Traffic is owed until it is reported.
LEMMA CollectPasses ==
    ASSUME CollectShapes, CollectInv, NEW k \in CounterKeys, Passes(k)
    PROVE  CollectShapes' /\ CollectInv'
<1>1. /\ k \notin Links => k[2] \in up
      /\ counter' = [counter EXCEPT ![k] = @ + 1]
      /\ owed' = [owed EXCEPT ![k] = IF @ = -1 THEN -1 ELSE @ + 1]
      /\ UNCHANGED <<agtick, up, kept, imap, cyc, excused>>
  BY DEF Passes
<1>2. ASSUME NEW j \in CounterKeys
      PROVE  /\ counter[j] \in Nat /\ owed[j] \in Int
             /\ counter'[j] = IF j = k THEN counter[j] + 1 ELSE counter[j]
             /\ owed'[j] = IF j = k /\ owed[j] # -1 THEN owed[j] + 1 ELSE owed[j]
  BY <1>1 DEF CollectShapes
<1>3. counter' \in [CounterKeys -> Nat] /\ owed' \in [CounterKeys -> Int]
  <2>1. \A j \in CounterKeys : counter'[j] \in Nat /\ owed'[j] \in Int
    BY <1>2
  <2> QED
    BY <1>1, <2>1 DEF CollectShapes
<1>4. CollectShapes'
  BY <1>1, <1>3 DEF CollectShapes
<1>5. ASSUME NEW j \in CounterKeys PROVE KeyOwed(j)'
  <2>1. j \notin Links /\ j[2] \notin up => owed'[j] = -1
    BY <1>1, <1>2 DEF CollectInv, KeyOwed
  <2>2. ASSUME j \notin excused, owed[j] # -1
        PROVE  j \in DOMAIN kept /\ owed'[j] = counter'[j] - kept[j] /\ kept[j] <= counter'[j]
    <3>1. j \in DOMAIN kept /\ owed[j] = counter[j] - kept[j] /\ kept[j] <= counter[j] /\ kept[j] \in Nat
      BY <2>2 DEF CollectInv, KeyOwed, CollectShapes
    <3> QED
      BY <1>2, <2>2, <3>1
  <2> QED
    BY <1>1, <1>2, <2>1, <2>2 DEF KeyOwed
<1>6. ASSUME NEW j \in NetKeys, RowRead(j), cyc.pc = "host",
             \A i \in DOMAIN cyc.rows : cyc.rows[i] \in Nat
      PROVE  RowRead(j)'
  <2>1. j \in CounterKeys
    BY KeysTell
  <2>2. j \in DOMAIN cyc.rows =>
          cyc.rows[j] <= counter'[j] /\ (owed'[j] # -1 => kept[j] <= cyc.rows[j])
    BY <1>2, <1>6, <2>1 DEF RowRead
  <2> QED
    BY <1>1, <1>6, <2>2 DEF RowRead
<1>7. CycleKnows'
  BY <1>1, <1>6 DEF CollectInv, CycleKnows
<1> QED
  BY <1>4, <1>5, <1>7 DEF CollectInv

\* A VM stops: what it did since the last reading is lost, and no one is owed it.
LEMMA CollectStops ==
    ASSUME CollectShapes, CollectInv, NEW v \in AgVms, Stop(v)
    PROVE  CollectShapes' /\ CollectInv'
<1>1. /\ up' = up \ {v}
      /\ owed' = [k \in CounterKeys |-> IF k \in KeysOf(v) THEN -1 ELSE owed[k]]
      /\ UNCHANGED <<agtick, counter, kept, imap, cyc, excused>>
  BY DEF Stop
<1>2. CollectShapes'
  BY <1>1 DEF CollectShapes
<1>3. ASSUME NEW k \in CounterKeys PROVE KeyOwed(k)'
  <2>1. k \notin Links /\ k[2] = v => k \in KeysOf(v)
    BY KeysTell DEF KeysOf
  <2> QED
    BY <1>1, <2>1 DEF CollectInv, KeyOwed
<1>4. ASSUME NEW k \in NetKeys, k[2] \in up', RowRead(k)
      PROVE  RowRead(k)'
  BY <1>1, <1>4, KeysTell DEF RowRead, KeysOf
<1>5. CycleKnows'
  BY <1>1, <1>4 DEF CollectInv, CycleKnows
<1> QED
  BY <1>2, <1>3, <1>5 DEF CollectInv

\* A VM starts: its keys are excused if a cycle, or the state, knows its older self.
LEMMA CollectStarts ==
    ASSUME CollectShapes, CollectInv, NEW v \in AgVms, Start(v)
    PROVE  CollectShapes' /\ CollectInv'
<1>1. /\ v \notin up /\ OwnerOf(TapOf[v]) = {} /\ up' = up \cup {v}
      /\ counter' = [k \in CounterKeys |-> IF k \in KeysOf(v) THEN 0 ELSE counter[k]]
      /\ excused' = (excused \ KeysOf(v))
                    \cup (IF cyc = Resting THEN KeysOf(v) \cap DOMAIN kept ELSE KeysOf(v))
      /\ UNCHANGED <<agtick, kept, imap, cyc, owed>>
  BY DEF Start
<1>2. CollectShapes'
  <2>1. \A u, w \in up' : TapOf[u] = TapOf[w] => u = w
    BY <1>1 DEF CollectShapes, OwnerOf
  <2>2. counter' \in [CounterKeys -> Nat]
    BY <1>1 DEF CollectShapes
  <2> QED
    BY <1>1, <2>1, <2>2 DEF CollectShapes
<1>3. ASSUME NEW k \in CounterKeys PROVE KeyOwed(k)'
  <2>1. CASE k \in KeysOf(v)
    <3>1. k \notin Links /\ k[2] = v
      BY <2>1, KeysTell DEF KeysOf
    <3>2. owed'[k] = -1
      BY <1>1, <3>1 DEF CollectInv, KeyOwed
    <3> QED
      BY <1>1, <3>1, <3>2 DEF KeyOwed
  <2>2. CASE k \notin KeysOf(v)
    <3>1. counter'[k] = counter[k] /\ (k \in excused' <=> k \in excused) /\ owed'[k] = owed[k]
      BY <1>1, <2>2
    <3> QED
      BY <1>1, <3>1 DEF CollectInv, KeyOwed
  <2> QED
    BY <2>1, <2>2
<1>4. ASSUME NEW k \in (NetKeys \cup AgDisks) \ excused', k[2] \in up', cyc # Resting
      PROVE  /\ k \notin excused /\ k[2] \in up
             /\ k \in CounterKeys /\ counter'[k] = counter[k]
  BY <1>1, <1>4, KeysTell DEF KeysOf
<1>5. cyc.pc \in {"net", "host"} => cyc # Resting
  BY DEF Resting
<1>6. CycleKnows'
  <2>1. ASSUME cyc.pc = "host", NEW k \in NetKeys \ excused', k[2] \in up'
        PROVE  RowRead(k)'
    <3>1. k \notin excused /\ k[2] \in up /\ counter'[k] = counter[k]
      BY <1>4, <1>5, <2>1
    <3>2. RowRead(k)
      BY <2>1, <3>1 DEF CollectInv, CycleKnows
    <3> QED
      BY <1>1, <3>1, <3>2 DEF RowRead
  <2>2. ASSUME cyc.pc \in {"net", "host"}, cyc.complete,
               NEW k \in (NetKeys \cup AgDisks) \ excused', k[2] \in up'
        PROVE  k[2] \in cyc.names
    <3>1. k \notin excused /\ k[2] \in up
      BY <1>4, <1>5, <2>2
    <3> QED
      BY <2>2, <3>1 DEF CollectInv, CycleKnows
  <2> QED
    BY <1>1, <2>1, <2>2 DEF CollectInv, CycleKnows
<1> QED
  BY <1>2, <1>3, <1>6 DEF CollectInv

\* A node before the first push of its Agent.
LEMMA ReadingsStart == AgentInit => ReadingsInv
<1> SUFFICES ASSUME AgentInit PROVE ReadingsInv
  OBVIOUS
<1>1. CollectShapes
  BY AgentAssumption DEF AgentInit, CollectShapes, Resting, NoMap
<1>2. CycleKnows
  BY DEF AgentInit, CycleKnows, Resting
<1>3. \A k \in CounterKeys : KeyOwed(k)
  BY DEF AgentInit, KeyOwed
<1>4. WindowOf(NoMap) /\ \A i : OverOf(NoMap, i) = 0
  BY DEF WindowOf, OverOf, SummaryOf, NoSummary, NoMap
<1>5. SamplerShapes
  BY <1>4 DEF AgentInit, SamplerShapes, NoMap
<1>6. ASSUME NEW i \in Taps PROVE TapSampled(i)
  <2>1. SpanOf(i) = 0
    BY <1>4 DEF AgentInit, SpanOf
  <2> QED
    BY <2>1 DEF AgentInit, TapSampled, NoMap
<1> QED
  BY <1>1, <1>2, <1>3, <1>5, <1>6 DEF ReadingsInv, CollectInv, SamplerInv

\* Each step of the Agent and of its node.
LEMMA ReadingsStep ==
    ReadingsInv /\ [AgentNext]_agentVars => ReadingsInv'
<1> SUFFICES ASSUME ReadingsInv, [AgentNext]_agentVars PROVE ReadingsInv'
  OBVIOUS
<1>0. CollectShapes /\ CollectInv /\ SamplerInv /\ agtick \in Nat
  BY DEF ReadingsInv, CollectShapes
<1>1. CASE UNCHANGED agentVars
  <2>1. SamplerInv'
    BY <1>0, <1>1, SamplerStays DEF agentVars
  <2> QED
    BY <1>0, <1>1, <2>1, CollectStays DEF agentVars, ReadingsInv
<1>2. CASE AgentTick
  <2>1. agtick' \in Nat /\ UNCHANGED <<up, counter, kept, imap, cyc, owed, excused>>
    BY <1>0, <1>2 DEF AgentTick
  <2> QED
    BY <1>0, <1>2, <2>1, SamplerTicks, CollectStays DEF ReadingsInv
<1>3. CASE sampler_loop \/ RetryFails
  <2>1. /\ sample /\ UNCHANGED <<agtick, up, counter, spanned, kept, imap, cyc, owed, excused>>
        /\ \/ active' = WindowAfter /\ carry' = carry
           \/ active' = NoMap /\ carry' = merge_network_windows(carry, WindowAfter)
    BY <1>3 DEF sampler_loop, RetryFails, rotate, empty_network_window
  <2> QED
    BY <1>0, <2>1, ScanKeeps, CollectStays DEF ReadingsInv
<1>4. CASE collect_cycle_limited
  <2>1. /\ UNCHANGED <<agtick, up, counter, last, sowed, sexcused, active>>
        /\ spanned' = [i \in Taps |-> spanned[i] + SummaryOf(carry, i).over]
        /\ carry' = empty_network_window
    BY <1>4 DEF collect_cycle_limited, Committed
  <2> QED
    BY <1>0, <1>4, <2>1, SamplerStays, LimitedCommits DEF ReadingsInv
<1>5. ASSUME NEW how \in {"fine", "nolist", "overload"}, BeginCycle(how) PROVE ReadingsInv'
  <2>1. /\ sample /\ UNCHANGED <<agtick, up, counter, spanned, kept, imap, owed, excused>>
        /\ active' = NoMap /\ carry' = merge_network_windows(carry, WindowAfter)
        /\ cyc' = [pc |-> IF how = "overload" THEN "limited" ELSE "net",
                   names |-> get_vm_names(how = "fine"), complete |-> how = "fine", rows |-> NoMap]
    BY <1>5 DEF BeginCycle, rotate, empty_network_window
  <2> QED
    BY <1>0, <2>1, ScanKeeps, CycleBegins DEF ReadingsInv
<1>6. ASSUME NEW unread \in SUBSET AgVms, ReadInterfaces(unread) PROVE ReadingsInv'
  <2>1. UNCHANGED <<agtick, up, counter, last, sowed, sexcused, active, spanned, carry>>
    BY <1>6 DEF ReadInterfaces
  <2> QED
    BY <1>0, <1>6, <2>1, SamplerStays, CycleReads DEF ReadingsInv
<1>7. ASSUME NEW ok \in BOOLEAN, NEW unread \in SUBSET Links, collect_cycle_payload(ok, unread)
      PROVE  ReadingsInv'
  <2>1. /\ UNCHANGED <<agtick, up, counter, last, sowed, sexcused, active>>
        /\ spanned' = [i \in Taps |-> spanned[i] + SummaryOf(carry, i).over]
        /\ carry' = empty_network_window
    BY <1>7 DEF collect_cycle_payload, Committed
  <2> QED
    BY <1>0, <1>7, <2>1, SamplerStays, PayloadCommits DEF ReadingsInv
<1>8. ASSUME NEW g \in BOOLEAN, Restart(g) PROVE ReadingsInv'
  <2>1. UNCHANGED <<agtick, up, counter, kept, imap, owed, excused>> /\ cyc' = Resting
    BY <1>8 DEF Restart
  <2> QED
    BY <1>0, <1>8, <2>1, SamplerRestarts, CycleBegins DEF ReadingsInv
<1>9. ASSUME NEW k \in CounterKeys, Passes(k) PROVE ReadingsInv'
  BY <1>0, <1>9, SamplerPasses, CollectPasses DEF ReadingsInv
<1>10. ASSUME NEW v \in AgVms, Start(v) \/ Stop(v) PROVE ReadingsInv'
  BY <1>0, <1>10, SamplerStarts, SamplerStops, CollectStarts, CollectStops DEF ReadingsInv
<1>11. ASSUME NEW l \in Links, Replug(l) PROVE ReadingsInv'
  <2>1. UNCHANGED <<agtick, up, counter, last, sowed, sexcused, active, spanned, carry,
                    kept, imap, cyc, owed, excused>>
    BY <1>11 DEF Replug
  <2> QED
    BY <1>0, <2>1, SamplerStays, CollectStays DEF ReadingsInv
<1> QED
  BY <1>1, <1>2, <1>3, <1>4, <1>5, <1>6, <1>7, <1>8, <1>9, <1>10, <1>11 DEF AgentNext

\* delta_counter and NetworkSampler.sample: what is known of each key and tap gives
\* what the payloads add up to.
LEMMA ReadingsKnown == ReadingsInv => NothingLost /\ SampledOnce
<1> SUFFICES ASSUME ReadingsInv PROVE NothingLost /\ SampledOnce
  OBVIOUS
<1>1. NothingLost
  <2>1. ASSUME NEW k \in CounterKeys \ excused, owed[k] >= 0
        PROVE  k \in DOMAIN kept /\ owed[k] = counter[k] - kept[k]
    BY <2>1 DEF ReadingsInv, CollectInv, KeyOwed
  <2> QED
    BY <2>1 DEF NothingLost
<1>2. SampledOnce
  BY DEF ReadingsInv, SamplerInv, TapSampled, SpanOf, OverOf, SampledOnce
<1> QED
  BY <1>1, <1>2

-----------------------------------------------------------------------------
(* The scenes.                                                             *)

\* A behaviour of the scenes is one of each component: push, the administrators'
\* handlers and the retention run change the tables of their own component only.
LEMMA ScenesMove ==
    /\ ScenesInit => AbuseInit /\ CMInit /\ HistoryInit /\ ListInit /\ AgentInit
    /\ [ScenesNext]_dpVars =>
        /\ [AbuseNext]_abuseVars /\ [CMNext]_cmVars /\ [HistoryNext]_historyVars
        /\ [ListNext]_listVars /\ [AgentNext]_agentVars
<1>1. ScenesInit => AbuseInit /\ CMInit /\ HistoryInit /\ ListInit /\ AgentInit
  BY DEF ScenesInit
<1>2. CASE UNCHANGED dpVars
  <2>1. /\ UNCHANGED abuseVars /\ UNCHANGED cmVars /\ UNCHANGED historyVars
      /\ UNCHANGED listVars /\ UNCHANGED agentVars
    BY <1>2 DEF dpVars
  <2> QED
    BY <1>1, <2>1
<1>3. ASSUME ScenesNext
      PROVE  /\ [AbuseNext]_abuseVars /\ [CMNext]_cmVars /\ [HistoryNext]_historyVars
             /\ [ListNext]_listVars /\ [AgentNext]_agentVars
  BY <1>3 DEF ScenesNext
<1> QED
  BY <1>1, <1>2, <1>3

\* write_storage_v2, run_retention, the abuse engine and the Agents of nodes: the
\* scenes implement the specification of each of these components.
THEOREM ScenesImplement == ScenesSpec => AbuseSpec /\ CMSpec /\ HistorySpec /\ ListSpec /\ AgentSpec
<1>1. ScenesInit => AbuseInit /\ CMInit /\ HistoryInit /\ ListInit /\ AgentInit
  BY ScenesMove
<1>2. [ScenesNext]_dpVars =>
        /\ [AbuseNext]_abuseVars /\ [CMNext]_cmVars /\ [HistoryNext]_historyVars
        /\ [ListNext]_listVars /\ [AgentNext]_agentVars
  BY ScenesMove
<1> QED
  BY <1>1, <1>2, PTL DEF ScenesSpec, AbuseSpec, CMSpec, HistorySpec, ListSpec, AgentSpec

\* _v5050_refresh_fast_current_state: for any VMs, rules and policies, and payloads
\* in any order, a flag of a sustained rule stands on hits in all the cycles that
\* the policy requires, an incident is open only for a VM that is abusive now, and
\* incidents and events tell the present flags.
THEOREM AbuseIsTold ==
    ASSUME ~Overlap
    PROVE  ScenesSpec => []AbuseTold
<1>1. AbuseInit => AbuseInv
  BY AbuseStart
<1>2. AbuseInv /\ [AbuseNext]_abuseVars => AbuseInv'
  BY AbuseStep
<1>3. AbuseInv => AbuseTold
  BY AbuseKnown DEF AbuseTold
<1> QED
  BY <1>1, <1>2, <1>3, ScenesImplement, PTL DEF AbuseSpec

\* _v48140_refresh_node_summaries, node_current_fast and write_storage_v2: for any
\* VMs and payloads, the summaries, the node's count of VMs and its chart rows
\* agree with the rows they are made from.
THEOREM CurrentHolds == ScenesSpec => []CurrentAgrees
<1>0. IsFiniteSet(CVms)
  BY CurrentAssumption
<1>1. CMInit => CurrentInv
  BY <1>0, CurrentStart
<1>2. CurrentInv /\ [CMNext]_cmVars => CurrentInv'
  BY <1>0, CurrentStep
<1>3. CurrentInv => CurrentAgrees
  BY DEF CurrentInv, CurrentAgrees
<1> QED
  BY <1>1, <1>2, <1>3, ScenesImplement, PTL DEF CMSpec

\* ON CONFLICT ... WHERE excluded.last_seen >= last_seen and its like: for any VMs
\* and payloads, and whatever their order, no row goes back to an older payload
\* without a purge.
THEOREM CurrentMovesForward == ScenesSpec => CurrentForward
<1>0. IsFiniteSet(CVms)
  BY CurrentAssumption
<1>1. CMInit => CurrentInv
  BY <1>0, CurrentStart
<1>2. CurrentInv /\ [CMNext]_cmVars => CurrentInv' /\ [CurrentStepForward]_cmVars
  BY <1>0, CurrentStep
<1>3. CurrentStepForward => (purges' = purges =>
        /\ \A v \in CVms : /\ latest'[v].net >= latest[v].net
                           /\ latest'[v].perf >= latest[v].perf
                           /\ ForwardOnly(cur[v].seen, cur'[v].seen)
                           /\ ForwardOnly(ifc[v], ifc'[v])
                           /\ ForwardOnly(disk[v].t, disk'[v].t)
        /\ nodeRow'.seen >= nodeRow.seen
        /\ \A b \in Buckets : nchart'[b].t >= nchart[b].t)
  BY DEF CurrentStepForward
<1> QED
  BY <1>1, <1>2, <1>3, ScenesImplement, PTL DEF CMSpec, CurrentForward

\* run_retention, delete_history_older_than and _sample_real_buckets: in the scenes
\* too, and for metric tables, hours, periods and charts of any size, usage is
\* billed once, each hour of the hourly period has one real bucket, no bucket of the
\* raw period is thinned out, and charts show both ends of what is retained.
THEOREM HistoryAlwaysKept == ScenesSpec => []HistoryKept
<1>1. BilledOnce /\ HourlyOneReal /\ RawUntouched /\ ChartShowsEnds => HistoryKept
  BY DEF HistoryKept
<1> QED
  BY <1>1, HoursStayReal, ScenesImplement, PTL

\* collect_cycle_payload and NetworkSampler: for any VMs, disks and uplinks, whatever
\* cannot be read, starts, stops or is restarted, what a counter grows by is
\* reported once, and sampled once.
THEOREM ReadingsAlwaysTell == ScenesSpec => []ReadingsTell
<1>1. AgentInit => ReadingsInv
  BY ReadingsStart
<1>2. ReadingsInv /\ [AgentNext]_agentVars => ReadingsInv'
  BY ReadingsStep
<1>3. ReadingsInv => ReadingsTell
  BY ReadingsKnown DEF ReadingsTell
<1> QED
  BY <1>1, <1>2, <1>3, ScenesImplement, PTL DEF AgentSpec

\* The views of the pages and the APIs: for any nodes, VMs and groups, whatever is
\* pushed, hidden, moved, deleted or purged between the reads of a request, its page
\* shows what was visible at a moment of it and all that was visible during it.
THEOREM ListsAlwaysTell == ScenesSpec => []ListsTell
<1>1. ListInit => ListInv
  BY ListInitially
<1>2. ListInv /\ [ListNext]_listVars => ListInv'
  BY ListStepKeeps, ListStutters
<1>3. ListInv => ListsTell
  BY DEF ListInv, ListsTell
<1> QED
  BY <1>1, <1>2, <1>3, ScenesImplement, PTL DEF ListSpec
=============================================================================
