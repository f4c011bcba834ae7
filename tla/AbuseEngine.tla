----------------------------- MODULE AbuseEngine -----------------------------
(***************************************************************************)
(* The abuse engine of one node: every push evaluates the VMs it reports   *)
(* against the policy, keeps streaks of five-minute cycles in              *)
(* vm_abuse_state, writes events when a VM starts, changes or recovers,    *)
(* and derives incidents from them.  Administrators save policies, clear   *)
(* history and reset state.  Sustained rules (CPU, RAM, disk, Mbps) count  *)
(* cycles; the PPS rule needs one window that the Agent measured with the  *)
(* policy's threshold.  Two units of time are one cycle.                   *)
(***************************************************************************)
EXTENDS Integers, Sequences, FiniteSets

CONSTANTS
    AVms,       \* VMs of the node
    Sustained,  \* rules that count cycles
    Needs,      \* required cycles a policy may ask for
    Reports,    \* what payloads may say
    Overlap,    \* may an administrator commit while a push is under way?
    MaxT,       \* bound: time
    MaxTold,    \* bound: pushes
    MaxRev,     \* bound: policy revisions
    MaxAdmin    \* bound: requests of administrators about stored data

\* A report: the VMs with the rules whose thresholds they exceed, the threshold
\* the Agent's sampler used, and whether the inventory is complete.
Rules == Sustained \cup {"pps"}

ASSUME AbuseAssumption ==
    /\ "pps" \notin Sustained /\ Needs \subseteq Nat \ {0} /\ Overlap \in BOOLEAN
    /\ Reports \subseteq [hits : UNION {[S -> SUBSET Rules] : S \in SUBSET AVms},
                          warn : {1, 2}, complete : BOOLEAN]
    /\ MaxT \in Nat /\ MaxTold \in Nat /\ MaxRev \in Nat \ {0} /\ MaxAdmin \in Nat

VARIABLES
    policy,     \* admin_settings: revision, required cycles, PPS threshold
    st,         \* st[v]: row of vm_abuse_state, or NoState
    seenAt,     \* seenAt[v]: last_seen of vm_current_fast, 0 without a row
    open,       \* open[v]: start of the open row of vm_abuse_incidents, or 0
    events,     \* events[v]: rows of vm_abuse_events in the order of their id
    apush,      \* the push that has read settings and state, or NoPush
    done,       \* times of the pushes that were accepted
    asked,      \* requests of administrators so far
    hit,        \* history: hit[v][r], cycles in which r was hit, this policy
    whole       \* history: whole[v], no row of v's history was ever deleted

abuseVars == <<policy, st, seenAt, open, events, apush, done, asked, hit, whole>>

NoState == [on |-> FALSE, flags |-> {}, since |-> 0, rev |-> 0, bucket |-> 0,
            cyc |-> [r \in Sustained |-> 0], seen |-> 0]
NoPush == [t |-> 0]
Cycle(t) == (t + 1) \div 2      \* bucket_for, 0 is no bucket
EventTypes == {"started", "updated", "recovered"}

AbuseTypeOK ==
    /\ policy \in [rev : 1..MaxRev, need : Needs, warn : {1, 2}]
    /\ st \in [AVms -> [on : BOOLEAN, flags : SUBSET Rules, since : 0..MaxT,
                        rev : 0..MaxRev, bucket : 0..Cycle(MaxT),
                        cyc : [Sustained -> 0..Cycle(MaxT)], seen : 0..MaxT]]
    /\ \A v \in AVms : /\ st[v].on <=> st[v].flags # {}
                       /\ st[v].on <=> st[v].since # 0
    /\ seenAt \in [AVms -> 0..MaxT] /\ open \in [AVms -> 0..MaxT]
    /\ \A v \in AVms : \A i \in DOMAIN events[v] :
          events[v][i] \in [type : EventTypes, t : 1..MaxT, flags : SUBSET Rules]

AbuseInit ==
    /\ \E k \in Needs : policy = [rev |-> 1, need |-> k, warn |-> 1]
    /\ st = [v \in AVms |-> NoState]
    /\ seenAt = [v \in AVms |-> 0] /\ open = [v \in AVms |-> 0]
    /\ events = [v \in AVms |-> <<>>]
    /\ apush = NoPush /\ done = {} /\ asked = 0
    /\ hit = [v \in AVms |-> [r \in Sustained |-> {}]]
    /\ whole = [v \in AVms |-> TRUE]

(***************************************************************************)
(* A push                                                                  *)
(***************************************************************************)
\* push: settings and states are read.  A payload may arrive late, once.
ReadState(t, rep) ==
    /\ apush = NoPush /\ t \notin done /\ Cardinality(done) < MaxTold
    /\ apush' = [t |-> t, rep |-> rep, cfg |-> policy, before |-> st]
    /\ done' = done \cup {t}
    /\ UNCHANGED <<policy, st, seenAt, open, events, asked, hit, whole>>

\* _v4810_next_streak
NextStreak(old, now, same, contiguous, advance) ==
    CASE ~now -> 0
      [] now /\ ~advance -> IF old > 1 THEN old ELSE 1
      [] now /\ advance -> IF same /\ contiguous THEN old + 1 ELSE 1

\* _v4810_pps_sync_map: the window counts only if the Agent's sampler used the
\* policy's threshold.
PpsSynced(warn, cfg) == warn = cfg.warn

\* _v5050_refresh_fast_current_state for one VM: o is its row as read, h the
\* rules it hits, cfg the policy as read.
Evaluated(o, h, t, warn, cfg) ==
    LET same == o.rev = cfg.rev
        advance == o.bucket # Cycle(t)
        contiguous == o.bucket # 0 /\ Cycle(t) - o.bucket = 1
        cyc == [r \in Sustained |->
                   NextStreak(o.cyc[r], r \in h, same, contiguous, advance)]
        flags == {r \in Sustained : r \in h /\ cyc[r] >= cfg.need}
                 \cup {r \in {"pps"} : r \in h /\ PpsSynced(warn, cfg)}
        on == flags # {}
    IN  [on |-> on, flags |-> flags, rev |-> cfg.rev, bucket |-> Cycle(t),
         cyc |-> cyc, seen |-> t,
         since |-> IF ~on THEN 0 ELSE IF o.on /\ same THEN o.since ELSE t]

\* The current writer takes only what is newer than the row, and a complete
\* inventory deletes the rows of VMs it does not name.
Fresh(v) == v \in DOMAIN apush.rep.hits /\ seenAt[v] <= apush.t
Dropped(v, s) == apush.rep.complete /\ s[v].seen # 0 /\ s[v].seen < apush.t

\* The states after this push.
After == [v \in AVms |->
    IF Fresh(v) THEN Evaluated(apush.before[v], apush.rep.hits[v], apush.t,
                               apush.rep.warn, apush.cfg)
    ELSE IF Dropped(v, st) THEN NoState ELSE st[v]]

\* Mutant: a VM that vanished from a complete inventory has no event.
EventOfGone(v) ==
    LET o == apush.before[v]
        n == After[v]
        was == o.on /\ o.rev = apush.cfg.rev
    IN  IF n.on /\ ~was THEN "started"
        ELSE IF n.on /\ n.flags # o.flags THEN "updated"
        ELSE IF was /\ ~n.on /\ n # NoState THEN "recovered" ELSE "none"

\* Old activity only counts under the policy of this push.
EventOf(v) ==
    LET o == apush.before[v]
        n == After[v]
        was == o.on /\ o.rev = apush.cfg.rev
    IN  IF n.on /\ ~was THEN "started"
        ELSE IF n.on /\ n.flags # o.flags THEN "updated"
        ELSE IF was /\ ~n.on THEN "recovered" ELSE "none"

\* _v48126_apply_incident_event: the start of the open incident after an event
\* of this type at time t of a VM that is abusive since s.
Incident(o, type, t, s) ==
    CASE type = "started" -> t
      [] type = "recovered" -> 0
      [] type = "updated" -> IF o # 0 THEN o ELSE s
      [] OTHER -> o

\* States, events and incidents are written and committed.
PushWrite ==
    /\ apush # NoPush
    /\ st' = After
    /\ seenAt' = [v \in AVms |->
          IF Fresh(v) THEN apush.t
          ELSE IF apush.rep.complete /\ seenAt[v] < apush.t THEN 0 ELSE seenAt[v]]
    /\ events' = [v \in AVms |->
          IF EventOf(v) = "none" THEN events[v]
          ELSE Append(events[v], [type |-> EventOf(v), t |-> apush.t,
                  flags |-> IF EventOf(v) = "recovered"
                            THEN apush.before[v].flags ELSE After[v].flags])]
    /\ open' = [v \in AVms |-> Incident(open[v], EventOf(v), apush.t, After[v].since)]
    /\ hit' = [v \in AVms |-> [r \in Sustained |->
          IF ~Fresh(v) THEN hit[v][r]
          ELSE IF r \in apush.rep.hits[v] /\ apush.cfg.rev = policy.rev
               THEN hit[v][r] \cup {Cycle(apush.t)}
               ELSE hit[v][r] \ {Cycle(apush.t)}]]
    /\ apush' = NoPush
    /\ UNCHANGED <<policy, done, asked, whole>>

(***************************************************************************)
(* Administrators                                                          *)
(***************************************************************************)
MayCommit == Overlap \/ apush = NoPush

\* _v4810_reset_current_state_for_policy
ResetForPolicy(rev) ==
    [v \in AVms |-> IF st[v] = NoState THEN NoState
                    ELSE [NoState EXCEPT !.rev = rev, !.seen = st[v].seen]]

\* _v4810_save_policy: open incidents are closed, without an event, and every
\* state starts again under the new revision.
save_policy(k, w) ==
    /\ MayCommit /\ policy.rev < MaxRev
    /\ policy' = [rev |-> policy.rev + 1, need |-> k, warn |-> w]
    /\ st' = ResetForPolicy(policy.rev + 1)
    /\ open' = [v \in AVms |-> 0]
    /\ hit' = [v \in AVms |-> [r \in Sustained |-> {}]]
    /\ UNCHANGED <<seenAt, events, apush, done, asked, whole>>

AskAbuse == MayCommit /\ asked < MaxAdmin /\ asked' = asked + 1

\* _v48126_rebuild_incidents: every event is applied again, in the order of
\* time, as if the VM was abusive since then.
Rebuilt(es) ==
    LET f[i \in 0..Len(es)] ==
          IF i = 0 THEN 0 ELSE Incident(f[i - 1], es[i].type, es[i].t, es[i].t)
    IN  f[Len(es)]

\* clear_abuse_events: the events an administrator selects, or those that match
\* a filter, here by type, and the incidents are rebuilt.
ClearMatching(types) ==
    /\ AskAbuse
    /\ events' = [v \in AVms |-> SelectSeq(events[v], LAMBDA e : e.type \notin types)]
    /\ open' = [v \in AVms |-> Rebuilt(events'[v])]
    /\ whole' = [v \in AVms |-> FALSE]
    /\ UNCHANGED <<policy, st, seenAt, apush, done, hit>>

\* clear_abuse_events with mode "all"
ClearAll ==
    /\ AskAbuse
    /\ events' = [v \in AVms |-> <<>>] /\ open' = [v \in AVms |-> 0]
    /\ UNCHANGED <<policy, st, seenAt, apush, done, hit, whole>>

\* manage_vm_abuse_data: any choice of events, incidents and current state.
\* clear_vm_abuse_data is the choice of the first two, or of all.
ManageVm(v, raw, incidents, current) ==
    /\ AskAbuse /\ (raw \/ incidents \/ current)
    /\ events' = IF raw THEN [events EXCEPT ![v] = <<>>] ELSE events
    /\ open' = IF incidents THEN [open EXCEPT ![v] = 0] ELSE open
    /\ st' = IF current THEN [st EXCEPT ![v] = NoState] ELSE st
    /\ hit' = IF current THEN [hit EXCEPT ![v] = [r \in Sustained |-> {}]] ELSE hit
    /\ whole' = [whole EXCEPT ![v] = @ /\ (current => incidents)]
    /\ UNCHANGED <<policy, seenAt, apush, done>>

\* reset_all_abuse_data
ResetAll ==
    /\ AskAbuse
    /\ events' = [v \in AVms |-> <<>>] /\ open' = [v \in AVms |-> 0]
    /\ st' = [v \in AVms |-> NoState]
    /\ hit' = [v \in AVms |-> [r \in Sustained |-> {}]]
    /\ UNCHANGED <<policy, seenAt, apush, done, whole>>

\* run_retention: old events go, closed incidents too, an open one stays.
AbuseRetention(t) ==
    /\ AskAbuse
    /\ events' = [v \in AVms |-> SelectSeq(events[v], LAMBDA e : e.t >= t)]
    /\ UNCHANGED <<policy, st, seenAt, open, apush, done, hit, whole>>

\* purge_vm_data
PurgeVm(v) ==
    /\ AskAbuse
    /\ st' = [st EXCEPT ![v] = NoState] /\ seenAt' = [seenAt EXCEPT ![v] = 0]
    /\ open' = [open EXCEPT ![v] = 0] /\ events' = [events EXCEPT ![v] = <<>>]
    /\ hit' = [hit EXCEPT ![v] = [r \in Sustained |-> {}]]
    /\ UNCHANGED <<policy, apush, done, whole>>

AbuseNext ==
    \/ \E t \in 1..MaxT, rep \in Reports : ReadState(t, rep)
    \/ PushWrite
    \/ \E k \in Needs, w \in {1, 2} : save_policy(k, w)
    \/ \E types \in SUBSET EventTypes : ClearMatching(types)
    \/ ClearAll \/ ResetAll
    \/ \E v \in AVms :
        \/ PurgeVm(v)
        \/ \E raw, incidents, current \in BOOLEAN : ManageVm(v, raw, incidents, current)
    \/ \E t \in 1..MaxT : AbuseRetention(t)

AbuseSpec == AbuseInit /\ [][AbuseNext]_abuseVars

(***************************************************************************)
(* Properties                                                              *)
(***************************************************************************)
\* _v4810_next_streak: a VM carries the flag of a sustained rule only if the
\* rule was hit in the cycle of its last push and in all of the cycles before
\* that the policy requires, one after the other and all under this policy,
\* although payloads come late, twice in a cycle, or not at all.
SustainedOnly ==
    \A v \in AVms, r \in Sustained :
        st[v].on /\ r \in st[v].flags /\ st[v].rev = policy.rev =>
            (st[v].bucket - policy.need + 1)..st[v].bucket \subseteq hit[v][r]

\* _v48126_apply_incident_event: an incident is open only while its VM is in the
\* abuse state of the current policy.
OpenIsActive == \A v \in AVms : open[v] # 0 => st[v].on /\ st[v].rev = policy.rev

\* The same as long as nobody has cleared a part of the history.
WholeOpenIsActive ==
    \A v \in AVms : whole[v] /\ open[v] # 0 => st[v].on /\ st[v].rev = policy.rev

\* vm_abuse_events: an abusive VM whose history was not cleared has an open
\* incident from the time it became abusive, and its last event names its
\* present flags.
StateIsTold ==
    asked = 0 => \A v \in AVms : st[v].on =>
        /\ open[v] = st[v].since
        /\ events[v] # <<>>
        /\ LET e == events[v][Len(events[v])]
           IN  e.type # "recovered" /\ e.flags = st[v].flags
=============================================================================
