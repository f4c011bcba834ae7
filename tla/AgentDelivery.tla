---------------------------- MODULE AgentDelivery ----------------------------
(***************************************************************************)
(* One node's Agent (deploy/agent/agent.py) and the /push handler of the   *)
(* monitor (app/runtime_layers/10_ingest_push.py), joined by a network     *)
(* that loses answers and delays requests.                                 *)
(*                                                                         *)
(* A payload stands for one five-minute push: its time, the traffic since  *)
(* the state it was computed from (delta), the counter it leaves behind    *)
(* (cur) and the sampled window it carries (win).  All interfaces of a     *)
(* node move together, so one counter stands for them.                     *)
(***************************************************************************)
EXTENDS Integers

CONSTANTS
    MaxWire,    \* bound: units of traffic on the wire
    MaxTime,    \* bound: seconds on both clocks
    Skew,       \* how far the Agent's clock is ahead of the monitor's
    MaxFuture,  \* V50_MAX_FUTURE_PUSH_SECONDS
    Faults,     \* what may go wrong: a subset of FaultNames
    MaxFaults   \* how many one-time faults a behaviour may contain

\* kill       the Agent gets SIGKILL or the host loses power
\* stop       the Agent gets SIGTERM between two cycles
\* diskfull   a write of state.json or runtime.json raises
\* reset      the interface counters restart from zero
\* clockstep  two pushes are collected in the same second
\* purge      a receipt reaches the raw retention age while a retry is due
\* clear      an operator clears the monitoring data
FaultNames == {"kill", "stop", "diskfull", "reset", "clockstep", "purge",
               "clear"}

ASSUME MaxWireAssumption == MaxWire \in Nat
ASSUME MaxTimeAssumption == MaxTime \in Nat \ {0}
ASSUME SkewAssumption == Skew \in Nat
ASSUME MaxFutureAssumption == MaxFuture \in Nat
ASSUME DeliveryFaultsAssumption == Faults \subseteq FaultNames
ASSUME DeliveryMaxFaultsAssumption == MaxFaults \in Nat

VARIABLES
    now,        \* the monitor's clock
    ctr,        \* the interface counter
    wire,       \* history: traffic since the beginning
    apc,        \* the Agent's next step
    active,     \* the window the sampler is filling
    mstate,     \* committed_state: the counter of the last confirmed payload
    mcarry,     \* runtime["carry"]
    mpend,      \* runtime["pending"]
    dstate,     \* state.json
    dcarry,     \* runtime.json
    dpend,
    lastTime,   \* history: the time of the newest payload
    req,        \* requests on their way to the monitor
    ack,        \* the answer to the request the Agent waits for has arrived
    receipts,   \* push_receipts: the times of this node
    epoch,      \* operational_push_accept_after
    hostSeen,   \* node_host_latest.last_seen
    hostVal,    \* the values of that row
    total,      \* history: the traffic ever added to the rollups
    wtotal,     \* history: the sampled windows ever stored
    ignored,    \* history: traffic of payloads acknowledged as before the epoch
    handled,    \* history: the times accepted or ignored
    faults      \* one-time faults so far

clock    == <<now, ctr, wire>>
memory   == <<mstate, mcarry, mpend>>
disk     == <<dstate, dcarry, dpend>>
monitor  == <<receipts, epoch, hostSeen, hostVal, total, wtotal>>
history  == <<lastTime, ignored, handled>>
vars == <<now, ctr, wire, apc, active, mstate, mcarry, mpend, dstate, dcarry,
          dpend, lastTime, req, ack, receipts, epoch, hostSeen, hostVal, total,
          wtotal, ignored, handled, faults>>

Payload == [time : Nat, delta : Nat, cur : Nat, win : Nat]
NoPayload == [time |-> 0, delta |-> 0, cur |-> 0, win |-> 0]
Has(p) == p # NoPayload

TypeOK ==
    /\ now \in Nat /\ ctr \in Nat /\ wire \in Nat
    /\ apc \in {"dead", "idle", "collect", "send1", "wait1", "clear1",
                "send2", "wait2", "clear2"}
    /\ active \in Nat
    /\ mstate \in Nat /\ mcarry \in Nat /\ mpend \in Payload
    /\ dstate \in Nat /\ dcarry \in Nat /\ dpend \in Payload
    /\ lastTime \in Nat
    /\ req \in SUBSET Payload
    /\ ack \in BOOLEAN
    /\ receipts \in SUBSET Nat
    /\ epoch \in Nat
    /\ hostSeen \in Nat /\ hostVal \in Nat
    /\ total \in Nat /\ wtotal \in Nat
    /\ ignored \in Nat /\ handled \in SUBSET Nat
    /\ faults \in 0..MaxFaults

\* An Agent that has just taken its first baseline.
Init ==
    /\ now = 1 /\ ctr = 0 /\ wire = 0
    /\ apc = "idle" /\ active = 0
    /\ mstate = 0 /\ mcarry = 0 /\ mpend = NoPayload
    /\ dstate = 0 /\ dcarry = 0 /\ dpend = NoPayload
    /\ lastTime = 0
    /\ req = {} /\ ack = FALSE
    /\ receipts = {} /\ epoch = 0
    /\ hostSeen = 0 /\ hostVal = 0
    /\ total = 0 /\ wtotal = 0
    /\ ignored = 0 /\ handled = {}
    /\ faults = 0

Fault(f) == f \in Faults /\ faults < MaxFaults /\ faults' = faults + 1

-----------------------------------------------------------------------------
(* The node.                                                               *)

Tick ==
    /\ now < MaxTime
    /\ now' = now + 1
    /\ UNCHANGED <<ctr, wire, apc, active, memory, disk, req, ack, monitor,
                   history, faults>>

\* Traffic moves the counter; a running sampler adds it to its window.
sample ==
    /\ wire < MaxWire
    /\ wire' = wire + 1 /\ ctr' = ctr + 1
    /\ active' = IF apc = "dead" THEN active ELSE active + 1
    /\ UNCHANGED <<now, apc, memory, disk, req, ack, monitor, history, faults>>

CounterReset ==
    /\ Fault("reset")
    /\ ctr' = 0
    /\ UNCHANGED <<now, wire, apc, active, memory, disk, req, ack, monitor,
                   history>>

\* Mutant: a counter that went backwards is not noticed.
delta_counterSigned(new, old) == new - old

\* Mutant: a counter that went backwards counts its old value again.
delta_counterWraps(new, old) == IF new < old THEN old ELSE new - old

\* delta_counter: a counter that went backwards counts for nothing.
delta_counter(new, old) == IF new < old THEN 0 ELSE new - old

-----------------------------------------------------------------------------
(* The Agent: main, run_push_cycle and send_pending.                       *)

\* The process dies: memory and the sampler's window are lost.
Dies == apc' = "dead" /\ active' = 0 /\ ack' = FALSE

\* Mutant: an old payload is not sent before a new one is collected.
run_push_cycleNoRetry ==
    /\ apc = "idle"
    /\ mcarry' = mcarry + active /\ active' = 0
    /\ dcarry' = mcarry' /\ dpend' = mpend
    /\ apc' = "collect"
    /\ UNCHANGED <<clock, mstate, mpend, dstate, req, ack, monitor, history,
                   faults>>

\* run_push_cycle begins: the sampled window is merged into the carry and
\* saved, then an old payload is sent first.
run_push_cycle ==
    /\ apc = "idle"
    /\ mcarry' = mcarry + active /\ active' = 0
    /\ dcarry' = mcarry' /\ dpend' = mpend
    /\ apc' = IF Has(mpend) THEN "send1" ELSE "collect"
    /\ UNCHANGED <<clock, mstate, mpend, dstate, req, ack, monitor, history,
                   faults>>

\* A full disk at either save_runtime outside send_pending ends the process.
SaveRuntimeFails ==
    /\ apc \in {"idle", "collect"}
    /\ Fault("diskfull")
    /\ Dies
    /\ UNCHANGED <<clock, memory, disk, req, monitor, history>>

\* The clock has moved since the last payload (it is collected at five-minute
\* boundaries, or five seconds after a restart), or it has not.
CollectTime ==
    /\ now + Skew <= MaxTime
    /\ IF now + Skew > lastTime THEN faults' = faults ELSE Fault("clockstep")

\* Mutant: the carry is not emptied when it moves into the payload.
collect_cycle_payloadKeepsCarry ==
    /\ apc = "collect"
    /\ CollectTime
    /\ mpend' = [time |-> now + Skew, delta |-> delta_counter(ctr, mstate),
                 cur |-> ctr, win |-> mcarry]
    /\ dpend' = mpend'
    /\ lastTime' = now + Skew
    /\ apc' = "send2"
    /\ UNCHANGED <<clock, active, mstate, mcarry, dstate, dcarry, req, ack,
                   monitor, ignored, handled>>

\* collect_cycle_payload, then one write that turns the carry into a durable
\* pending payload.
collect_cycle_payload ==
    /\ apc = "collect"
    /\ CollectTime
    /\ mpend' = [time |-> now + Skew, delta |-> delta_counter(ctr, mstate),
                 cur |-> ctr, win |-> mcarry]
    /\ mcarry' = 0
    /\ dpend' = mpend' /\ dcarry' = mcarry'
    /\ lastTime' = now + Skew
    /\ apc' = "send2"
    /\ UNCHANGED <<clock, active, mstate, dstate, req, ack, monitor, ignored,
                   handled>>

post_payload ==
    /\ apc \in {"send1", "send2"}
    /\ req' = req \cup {mpend}
    /\ ack' = FALSE
    /\ apc' = IF apc = "send1" THEN "wait1" ELSE "wait2"
    /\ UNCHANGED <<clock, active, memory, disk, monitor, history, faults>>

\* The request fails or times out: the exception ends the cycle and the
\* payload stays pending.
PostFails ==
    /\ apc \in {"wait1", "wait2"} /\ ~ack
    /\ apc' = "idle"
    /\ UNCHANGED <<clock, active, memory, disk, req, ack, monitor, history,
                   faults>>

\* Mutant: the payload is forgotten on disk before the state is saved.
save_stateLate ==
    /\ apc \in {"wait1", "wait2"} /\ ack
    /\ ack' = FALSE
    /\ dpend' = NoPayload
    /\ apc' = IF apc = "wait1" THEN "clear1" ELSE "clear2"
    /\ UNCHANGED <<clock, active, memory, dstate, dcarry, req, monitor,
                   history, faults>>

\* The answer is in: save_state, or its failure, which keeps the payload.
save_state ==
    /\ apc \in {"wait1", "wait2"} /\ ack
    /\ ack' = FALSE
    /\ \/ /\ dstate' = mpend.cur
          /\ apc' = IF apc = "wait1" THEN "clear1" ELSE "clear2"
          /\ faults' = faults
       \/ Fault("diskfull") /\ apc' = "idle" /\ dstate' = dstate
    /\ UNCHANGED <<clock, active, memory, dcarry, dpend, req, monitor, history>>

\* The pending payload is dropped and runtime.json saved.  If that write
\* raises, pending is already None in memory and the new state is not
\* returned to the caller.
ClearPending ==
    /\ apc \in {"clear1", "clear2"}
    /\ mpend' = NoPayload
    /\ \/ /\ dpend' = NoPayload /\ dcarry' = mcarry
          /\ mstate' = mpend.cur
          /\ apc' = IF apc = "clear1" THEN "collect" ELSE "idle"
          /\ faults' = faults
       \/ /\ Fault("diskfull")
          /\ apc' = "idle"
          /\ UNCHANGED <<mstate, dpend, dcarry>>
    /\ UNCHANGED <<clock, active, mcarry, dstate, req, ack, monitor, history>>

\* SIGTERM between two cycles: the partial window is kept.
GracefulStop ==
    /\ apc = "idle"
    /\ Fault("stop")
    /\ dcarry' = mcarry + active /\ dpend' = mpend
    /\ mcarry' = mcarry + active
    /\ Dies
    /\ UNCHANGED <<clock, mstate, mpend, dstate, req, monitor, history>>

Kill ==
    /\ apc # "dead"
    /\ Fault("kill")
    /\ Dies
    /\ UNCHANGED <<clock, memory, disk, req, monitor, history>>

\* systemd restarts the Agent: main loads both files.
Restart ==
    /\ apc = "dead"
    /\ mstate' = dstate /\ mcarry' = dcarry /\ mpend' = dpend
    /\ apc' = "idle"
    /\ UNCHANGED <<clock, active, disk, req, ack, monitor, history, faults>>

-----------------------------------------------------------------------------
(* The monitor: the whole transaction of push(), under the node's lock.    *)

\* The answer reaches the Agent if it still waits for it.
Answer(p) ==
    \/ ack' = ack
    \/ apc \in {"wait1", "wait2"} /\ mpend = p /\ ack' = TRUE

\* The network may hold further copies of a request that was sent again.
Consume(p) == req' = req \ {p} \/ req' = req

\* An accepted payload: the rollups add its traffic, the current row of the
\* host takes its values and the newest of the two times.
Accept(p) ==
    /\ receipts' = receipts \cup {p.time}
    /\ total' = total + p.delta /\ wtotal' = wtotal + p.win
    /\ hostVal' = p.cur
    /\ hostSeen' = IF p.time > hostSeen THEN p.time ELSE hostSeen
    /\ handled' = handled \cup {p.time}
    /\ UNCHANGED <<epoch, ignored, lastTime>>

Ignore(p) ==
    /\ handled' = handled \cup {p.time}
    /\ ignored' = IF p.time \in handled THEN ignored ELSE ignored + p.delta
    /\ UNCHANGED <<monitor, lastTime>>

\* Mutant: the row of push_receipts is written but not looked at.
pushAlways(p) ==
    /\ p \in req
    /\ Consume(p)
    /\ Answer(p) /\ Accept(p)
    /\ UNCHANGED <<clock, apc, active, memory, disk, faults>>

\* Mutant: a duplicate is answered with an error.
pushRejects(p) ==
    /\ p \in req
    /\ Consume(p)
    /\ \/ /\ \/ p.time > now + MaxFuture
             \/ p.time >= epoch /\ p.time \in receipts
          /\ ack' = ack
          /\ UNCHANGED <<monitor, history>>
       \/ p.time <= now + MaxFuture /\ p.time < epoch /\ Answer(p) /\ Ignore(p)
       \/ /\ p.time <= now + MaxFuture /\ p.time >= epoch
          /\ p.time \notin receipts
          /\ Answer(p) /\ Accept(p)
    /\ UNCHANGED <<clock, apc, active, memory, disk, faults>>

\* push: too far in the future is an error, before the epoch is acknowledged
\* and ignored, a known receipt is acknowledged as a duplicate.
push(p) ==
    /\ p \in req
    /\ Consume(p)
    /\ \/ /\ p.time > now + MaxFuture
          /\ ack' = ack
          /\ UNCHANGED <<monitor, history>>
       \/ /\ p.time <= now + MaxFuture /\ p.time < epoch
          /\ Answer(p) /\ Ignore(p)
       \/ /\ p.time <= now + MaxFuture /\ p.time >= epoch
          /\ p.time \in receipts
          /\ Answer(p)
          /\ UNCHANGED <<monitor, history>>
       \/ /\ p.time <= now + MaxFuture /\ p.time >= epoch
          /\ p.time \notin receipts
          /\ Answer(p) /\ Accept(p)
    /\ UNCHANGED <<clock, apc, active, memory, disk, faults>>

\* A request that never arrives, or whose transaction is rolled back.
Lose(p) ==
    /\ p \in req
    /\ req' = req \ {p}
    /\ UNCHANGED <<clock, apc, active, memory, disk, ack, monitor, history,
                   faults>>

\* clear_monitoring_data: the web service has been down for at least a second;
\* the receipts go with the rest and the epoch moves to the present.
clear_monitoring_data ==
    /\ Fault("clear")
    /\ now < MaxTime
    /\ now' = now + 1
    /\ receipts' = {} /\ epoch' = now + 1
    /\ hostSeen' = 0 /\ hostVal' = 0
    /\ UNCHANGED <<ctr, wire, apc, active, memory, disk, req, ack, total,
                   wtotal, history>>

\* Retention deletes receipts by the age of received_at alone: nothing asks
\* whether an Agent that was off for as long still holds the payload.
PurgeReceipt(t) ==
    /\ t \in receipts
    /\ Fault("purge")
    /\ receipts' = receipts \ {t}
    /\ UNCHANGED <<clock, apc, active, memory, disk, req, ack, epoch, hostSeen,
                   hostVal, total, wtotal, history>>

-----------------------------------------------------------------------------
Agent == \/ run_push_cycle \/ collect_cycle_payload \/ post_payload
         \/ save_state \/ ClearPending \/ Restart

Next ==
    \/ Tick \/ sample \/ CounterReset
    \/ Agent \/ PostFails \/ SaveRuntimeFails \/ GracefulStop \/ Kill
    \/ \E p \in req : push(p) \/ Lose(p)
    \/ clear_monitoring_data
    \/ \E t \in receipts : PurgeReceipt(t)

Spec == Init /\ [][Next]_vars

\* The push loop runs, a request times out, the Agent is restarted, and the
\* connection is not down for ever: an answer to the pending payload gets
\* through if asked for again and again.
AnswerPending ==
    \E p \in req : p = mpend /\ apc \in {"wait1", "wait2"} /\ push(p) /\ ack'

FairSpec ==
    /\ Spec
    /\ WF_vars(Agent) /\ WF_vars(PostFails) /\ WF_vars(Tick)
    /\ SF_vars(AnswerPending)

-----------------------------------------------------------------------------
(* Properties.                                                             *)

\* What the durable payload still owes: nothing once the monitor handled it.
Credit(p) == IF p.time \in handled THEN 0 ELSE p.delta
WinCredit(p) == IF p.time \in handled THEN 0 ELSE p.win

\* How far the Agent's files have accounted for the counter.
Position == IF Has(dpend) THEN dpend.cur ELSE dstate

\* push_receipts, send_pending and the two files: through crashes, lost
\* answers, late copies and a clear, every unit of traffic the Agent has
\* moved past was added to the rollups exactly once, was fenced off by the
\* epoch, or is in the pending payload.
ExactlyOnce == total + ignored + Credit(dpend) = Position

\* The sampled windows: no sample is stored twice, or stored and still held.
WindowOnce ==
    wtotal + WinCredit(dpend)
        + (IF apc = "dead" THEN dcarry ELSE mcarry + active) <= wire

\* The rollups never hold more than the wire carried, even when counters
\* restart or two pushes share a second.
NoDoubleCount == total <= wire

\* README: older retries cannot rewind current tables.  The upsert of
\* node_host_latest takes the payload's values unconditionally; it is the
\* order of the Agent's retries and the receipts that keep it moving forward.
CurrentNeverRewinds == [][epoch' = epoch => hostVal' >= hostVal]_vars

\* An ERROR of delivery=unavailable says payload_retained=1: a cycle that
\* ends with an exception in send_pending leaves its payload pending.
CycleFails == /\ apc \in {"wait1", "wait2", "clear1", "clear2"}
              /\ apc' = "idle"
              /\ mstate' = mstate /\ Has(mpend)
ErrorMeansRetained == [][CycleFails /\ mstate # mpend.cur => Has(mpend')]_vars

\* Every payload is confirmed in the end: a retry is never refused for good.
PendingConfirmed == Has(dpend) ~> ~Has(dpend)

\* The abstract ledger this implements.
Ledger == INSTANCE TrafficLedger WITH
    position <- Position, due <- Credit(dpend), settled <- total + ignored
LedgerSpec == Ledger!Spec
=============================================================================
