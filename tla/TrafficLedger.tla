---------------------------- MODULE TrafficLedger ----------------------------
(***************************************************************************)
(* What the delivery of traffic promises, without Agents, files, requests  *)
(* or receipts: the counter is read up to some position, what lies between *)
(* two readings is due, and what is due is settled in one step, once,      *)
(* before the next reading.                                                *)
(***************************************************************************)
EXTENDS Integers

VARIABLES position, due, settled

Init == position = 0 /\ due = 0 /\ settled = 0

\* A reading: possible only when nothing is due.
Read ==
    /\ due = 0
    /\ position' \in Nat /\ position' >= position
    /\ due' = position' - position
    /\ settled' = settled

Settle ==
    /\ settled' = settled + due
    /\ due' = 0
    /\ position' = position

Next == Read \/ Settle

Spec == Init /\ [][Next]_<<position, due, settled>>
=============================================================================
