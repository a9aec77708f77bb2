---------------------------- MODULE ShardBalance ----------------------------
(***************************************************************************)
(* Detection of memory skew between the shards (reconcileShardStats,       *)
(* slotstats.go) and the rebalance Job (reconcileRebalance, rebalance.go). *)
(* The pass works on a copy of the resource; a merge patch writes what     *)
(* differs between that copy and its base.                                 *)
(***************************************************************************)
EXTENDS Integers, FiniteSets, FiniteSetsExt

CONSTANTS
    Primaries,
    MaxMem,       \* bound on the memory of a shard
    Threshold,    \* spec.rebalance.threshold, in percent
    GracePeriod   \* shardImbalancedGracePeriod, in ticks

None == -1

VARIABLES
    mem,     \* memory of each shard
    op,      \* the pass: "query" or "rebalance"
    asked,   \* primaries asked for SLOT.STATS
    stats,   \* <<primary, memory>> of those that answered
    ann,     \* age of shard-imbalanced-since as stored, None without it
    cond,    \* 1: ShardImbalanced is True
    job      \* the rebalance Job

vars == <<mem, op, asked, stats, ann, cond, job>>

Init ==
    /\ mem \in [Primaries -> 0 .. MaxMem]
    /\ op = "query" /\ asked = {} /\ stats = {}
    /\ ann = None /\ cond = 0 /\ job = "none"

SkewPct(values) ==
    IF Max(values) > 0 THEN ((Max(values) - Min(values)) * 100) \div Max(values) ELSE 0

\* what is stored after a merge patch of obj against base
Merged(old, base, obj) == IF base = obj THEN old ELSE obj

Query(p) ==
    /\ op = "query" /\ p \in Primaries \ asked
    /\ asked' = asked \cup {p}
    /\ stats' \in {stats, stats \cup {<<p, mem[p]>>}}
    /\ UNCHANGED <<mem, op, ann, cond, job>>

Skewed(values) == SkewPct(values) > Threshold

Evaluated ==
    /\ op = "query" /\ asked = Primaries /\ op' = "rebalance"
    /\ UNCHANGED <<mem, asked, stats, job>>

Values == {e[2] : e \in stats}

TooFew ==
    /\ Evaluated /\ Cardinality(stats) < 2
    /\ cond' = 0 /\ UNCHANGED ann

\* the annotation is set first, and the base of the patch is copied after
FirstSeen ==
    /\ Evaluated /\ Cardinality(stats) >= 2 /\ Skewed(Values) /\ ann = None
    /\ LET obj == 0 IN LET base == obj IN ann' = Merged(ann, base, obj)
    /\ UNCHANGED cond

StillSkewed ==
    /\ Evaluated /\ Cardinality(stats) >= 2 /\ Skewed(Values) /\ ann # None
    /\ cond' = IF ann >= GracePeriod THEN 1 ELSE cond
    /\ UNCHANGED ann

Balanced ==
    /\ Evaluated /\ Cardinality(stats) >= 2 /\ ~Skewed(Values)
    /\ cond' = 0 /\ ann' = Merged(ann, ann, None)

Rebalance ==
    /\ op = "rebalance" /\ op' = "query" /\ asked' = {} /\ stats' = {}
    /\ job' = IF cond = 0 \/ job = "running" THEN job
              ELSE IF job = "none" THEN "running" ELSE "none"
    /\ UNCHANGED <<mem, ann, cond>>

\* the Job moves slots until the shards are level, or fails
JobEnds ==
    /\ job = "running"
    /\ \/ job' = "done" /\ mem' = [p \in Primaries |-> Min({mem[q] : q \in Primaries})]
       \/ job' = "failed" /\ UNCHANGED mem
    /\ UNCHANGED <<op, asked, stats, ann, cond>>

Fill(p) ==
    /\ mem[p] < MaxMem /\ mem' = [mem EXCEPT ![p] = @ + 1]
    /\ UNCHANGED <<op, asked, stats, ann, cond, job>>

Tick ==
    /\ ann # None /\ ann < GracePeriod /\ ann' = ann + 1
    /\ UNCHANGED <<mem, op, asked, stats, cond, job>>

Pass == (\E p \in Primaries : Query(p)) \/ TooFew \/ FirstSeen \/ StillSkewed \/ Balanced \/ Rebalance

Next == Pass \/ JobEnds \/ (\E p \in Primaries : Fill(p)) \/ Tick

Spec == Init /\ [][Next]_vars

\* the operator is called again and again, time passes, the Job ends
FairSpec == Spec /\ WF_vars(Pass) /\ WF_vars(Tick) /\ WF_vars(JobEnds)

\* When the shards stay skewed and every primary answers, a rebalance Job is
\* started in the end (docs: 60 s grace period, then a one-shot Job).
SkewIsRebalanced ==
    [](/\ []Skewed({mem[p] : p \in Primaries})
       /\ [](op = "rebalance" => Cardinality(stats) = Cardinality(Primaries))
       => <>(job = "running"))
=============================================================================
