------------------------------ MODULE ShardLog ------------------------------
(***************************************************************************)
(* What a shard promises its clients while pods are replaced: the writes   *)
(* it has acknowledged are never taken back, and the shard is served by a  *)
(* running primary, unless something unplanned has happened (a crash, or a *)
(* hook that ran out of time).                                             *)
(***************************************************************************)
EXTENDS Naturals

CONSTANT Shards

VARIABLES
    log,        \* acknowledged writes of each shard
    served,     \* the shards whose primary runs
    disturbed   \* 1: something unplanned has happened

vars == <<log, served, disturbed>>

Init == log \in [Shards -> Nat] /\ served = Shards /\ disturbed = 0

Acknowledge(s) ==
    /\ s \in served
    /\ log' = [log EXCEPT ![s] = log[s] + 1]
    /\ UNCHANGED <<served, disturbed>>

\* from then on shards may stop being served, come back, and lose writes
Disturb ==
    /\ disturbed' = 1
    /\ log' \in [Shards -> Nat] /\ served' \in SUBSET Shards

Next == (\E s \in Shards : Acknowledge(s)) \/ Disturb

Spec == Init /\ [][Next]_vars
=============================================================================
