----------------------------- MODULE ValkeyNode -----------------------------
(***************************************************************************)
(* One Valkey server with the operator's module: loading the module step   *)
(* by step (module.c), the redirection gate and its timer (gate.c), and    *)
(* the commands of NodeCommands answering while the server's replication,  *)
(* slots and users change under them. OPERATOR.SLOT.STATS is taken token   *)
(* by token: its loop writes into a buffer of fixed size from a line cut   *)
(* to a fixed size.                                                        *)
(***************************************************************************)
EXTENDS NodeCommands

CONSTANTS
    SLOTS_BUF_SIZE,  \* bytes of the reply buffer of SLOT.STATS
    LINE_ROOM,       \* bytes of the 1023 of linecopy left after the eight fields
    Tokens,          \* slot ranges and migration markers, each with its length
    Replies,         \* what INFO, CLUSTER INFO and CLUSTER NODES can say together
    AclLists,        \* what ACL LIST can say
    FailingCalls     \* calls that may fail

ASSUME SizesAssumption ==
    /\ SLOTS_BUF_SIZE \in Nat \ {0}
    /\ LINE_ROOM \in Nat \ {0}
    /\ \A t \in Tokens : t.len \in Nat \ {0}
    /\ \A r \in Replies : \A i \in DOMAIN r.nodes : r.nodes[i].slots \in Seq(Tokens)

\* What Valkey's answers have in common (external): these fields are numbers,
\* master_host and master_port come together, a cluster that is ok has a master
\* that serves slots, a node with slots of its own knows that slots are assigned,
\* and a line names its slot ranges before its migration markers.
Plausible(n) ==
    /\ \A f \in {"connected_slaves", "master_repl_offset", "slave_repl_offset"} :
          FieldLL(n.info, f) \in Int
    /\ \A f \in {"cluster_slots_assigned", "cluster_slots_ok", "cluster_size"} :
          FieldLL(n.cluster, f) \in Int
    /\ "master_host" \in DOMAIN n.info => "master_port" \in DOMAIN n.info
    /\ ClusterState(n, "") = "ok" => FieldLL(n.cluster, "cluster_size") > 0
    /\ \A i \in DOMAIN n.nodes :
          LET slots == n.nodes[i].slots IN
          /\ "myself" \in n.nodes[i].flags /\ (\E k \in DOMAIN slots : ~slots[k].marker)
               => FieldLL(n.cluster, "cluster_slots_assigned") > 0
          /\ \A k \in DOMAIN slots : \A j \in 1 .. k : slots[j].marker => slots[k].marker

ASSUME RepliesAssumption == \A r \in Replies : Plausible(r)

VARIABLES
    server,   \* "down", "loading", "up", "bare" (running, the module was refused)
    boot,     \* 1: loading at server start, 0: MODULE LOAD on a running server
    pos,      \* calls of OnLoad done
    node,     \* what the server's own commands say
    flag,     \* 1: CLUSTER_FLAG_NO_REDIRECTION is set
    timer,    \* 1: acl_poll_timer_id is set
    seen,     \* history: 1 once an application user was on since the load began
    busy,     \* 1: the loop of extract_myself_slots is running
    rest, col, written, out   \* its tokens to come, p, written, and buf

scanVars == <<busy, rest, col, written, out>>
vars == <<server, boot, pos, node, flag, timer, seen, scanVars>>

COMMANDS == <<"operator.health", "operator.bootstrap.ready", "operator.failover.prepare",
              "operator.topology.set", "operator.cluster.safe", "operator.node.ready",
              "operator.slot.stats", "operator.node.state">>

\* ValkeyModule_Init, Gate_Init, Failover_Init, then the commands in order
LastPos == 3 + Len(COMMANDS)
Registered == {COMMANDS[i] : i \in {j \in DOMAIN COMMANDS : j <= pos - 3}}

Init ==
    /\ server = "down" /\ boot = 1 /\ pos = 0
    /\ flag = 0 /\ timer = 0 /\ seen = 0
    /\ \E r \in Replies, a \in AclLists :
          node = [info |-> r.info, cluster |-> r.cluster, nodes |-> r.nodes,
                  acl |-> a, failed |-> {}]
    /\ busy = 0 /\ rest = << >> /\ col = 0 /\ written = 0 /\ out = << >>

Saw(n) == IF AppUserActive(n) THEN 1 ELSE 0

-----------------------------------------------------------------------------
\* Loading (module.c: ValkeyModule_OnLoad)

\* at server start modules are loaded before the ACL file: no user is there
\* but default
Start ==
    /\ server = "down"
    /\ server' = "loading" /\ boot' = 1 /\ pos' = 0
    /\ node' = [info |-> node.info, cluster |-> node.cluster, nodes |-> node.nodes,
                acl |-> {<<"default", "on">>}, failed |-> {}]
    /\ flag' = 0 /\ timer' = 0 /\ seen' = 0
    /\ UNCHANGED scanVars

\* MODULE LOAD on a running server
HotReload ==
    /\ server \in {"up", "bare"} /\ busy = 0
    /\ server' = "loading" /\ boot' = 0 /\ pos' = 0
    /\ timer' = 0 /\ seen' = Saw(node)
    /\ UNCHANGED <<node, flag, scanVars>>

Advance == pos' = pos + 1 /\ UNCHANGED <<server, boot, node, seen, scanVars>>

ModuleInit ==
    /\ server = "loading" /\ pos = 0
    /\ Advance /\ UNCHANGED <<flag, timer>>

\* mutant: the users are not looked at before redirection is allowed
GateInitOpen ==
    /\ server = "loading" /\ pos = 1
    /\ flag' = 0 /\ timer' = 1
    /\ Advance

\* Gate_Init
GateInit ==
    /\ server = "loading" /\ pos = 1
    /\ flag' = 1 - Saw(node) /\ timer' = 1 - Saw(node)
    /\ Advance

FailoverInit ==
    /\ server = "loading" /\ pos = 2
    /\ Advance /\ UNCHANGED <<flag, timer>>

CreateCommand ==
    /\ server = "loading" /\ pos \in 3 .. LastPos - 1
    /\ Advance /\ UNCHANGED <<flag, timer>>

\* VALKEYMODULE_ERR from ValkeyModule_Init or CreateCommand: a starting server
\* exits, a running one goes on without the module
LoadFails ==
    /\ server = "loading" /\ pos \in ({0} \cup (3 .. LastPos - 1))
    /\ server' = IF boot = 1 THEN "down" ELSE "bare"
    /\ timer' = 0 /\ pos' = 0
    /\ UNCHANGED <<boot, node, flag, seen, scanVars>>

\* OnLoad returns VALKEYMODULE_OK; a starting server now loads its ACL file
Loaded ==
    /\ server = "loading" /\ pos = LastPos
    /\ server' = "up"
    /\ \E a \in AclLists :
          /\ boot = 0 => a = node.acl
          /\ node' = [info |-> node.info, cluster |-> node.cluster, nodes |-> node.nodes,
                      acl |-> a, failed |-> node.failed]
    /\ seen' = IF Saw(node') = 1 THEN 1 ELSE seen
    /\ UNCHANGED <<boot, pos, flag, timer, scanVars>>

-----------------------------------------------------------------------------
\* The gate's timer (gate.c)

\* mutant: the timer is armed only once
AclPollTimerOnce ==
    /\ server = "up" /\ busy = 0 /\ timer = 1
    /\ timer' = 0
    /\ flag' = IF AppUserActive(node) THEN 0 ELSE flag
    /\ UNCHANGED <<server, boot, pos, node, seen, scanVars>>

\* acl_poll_timer_cb
AclPollTimer ==
    /\ server = "up" /\ busy = 0 /\ timer = 1
    /\ timer' = 1 - Saw(node)
    /\ flag' = IF AppUserActive(node) THEN 0 ELSE flag
    /\ UNCHANGED <<server, boot, pos, node, seen, scanVars>>

-----------------------------------------------------------------------------
\* The loop of extract_myself_slots (slot_stats.c)

\* OPERATOR.SLOT.STATS is called
ScanSlots ==
    /\ server = "up" /\ busy = 0
    /\ "operator.slot.stats" \in Registered
    /\ SlotStatsWorks(node) /\ MyLines(node) # {}
    /\ busy' = 1 /\ rest' = MyLine(node).slots
    /\ col' = 0 /\ written' = 0 /\ out' = << >>
    /\ UNCHANGED <<server, boot, pos, node, flag, timer, seen>>

\* the bytes of the token that linecopy still holds
Visible(t) == IF col + t.len <= LINE_ROOM THEN t.len ELSE AtLeastZero(LINE_ROOM - col)

Separator == IF written > 0 /\ written < SLOTS_BUF_SIZE - 1 THEN 1 ELSE 0

\* mutant: the separator is not counted against the buffer
CopiedNoSep(len) ==
    IF written + len >= SLOTS_BUF_SIZE THEN SLOTS_BUF_SIZE - written - 1 ELSE len

\* mutant: the terminating zero is counted twice
CopiedShort(len) ==
    IF written + Separator + len >= SLOTS_BUF_SIZE - 1
    THEN AtLeastZero(SLOTS_BUF_SIZE - (written + Separator) - 2) ELSE len

Copied(len) ==
    IF written + Separator + len >= SLOTS_BUF_SIZE
    THEN SLOTS_BUF_SIZE - (written + Separator) - 1 ELSE len

CopyToken ==
    /\ busy = 1 /\ rest # << >>
    /\ LET t == Head(rest) IN
       /\ IF t.marker \/ Visible(t) = 0
          THEN UNCHANGED <<written, out>>
          ELSE /\ written' = written + Separator + Copied(Visible(t))
               /\ out' = Append(out, [range |-> t.range, len |-> Copied(Visible(t))])
       /\ col' = col + t.len + 1
    /\ rest' = Tail(rest)
    /\ UNCHANGED <<server, boot, pos, node, flag, timer, seen, busy>>

\* the answer is SlotStats(node, out)
EndScan ==
    /\ busy = 1 /\ rest = << >>
    /\ busy' = 0 /\ col' = 0 /\ written' = 0 /\ out' = << >>
    /\ UNCHANGED <<server, boot, pos, node, flag, timer, seen, rest>>

-----------------------------------------------------------------------------
\* What the commands read changes between commands (Valkey)

Says(r, a, f) ==
    /\ server \in {"up", "bare"} /\ busy = 0
    /\ node' = [info |-> r.info, cluster |-> r.cluster, nodes |-> r.nodes,
                acl |-> a, failed |-> f]
    /\ seen' = IF Saw(node') = 1 THEN 1 ELSE seen
    /\ UNCHANGED <<server, boot, pos, flag, timer, scanVars>>

ClusterChanges == \E r \in Replies : Says(r, node.acl, node.failed)
UsersChange == \E a \in AclLists : Says(node, a, node.failed)
CallsFail == \E f \in {{}} \cup {{x} : x \in FailingCalls} : Says(node, node.acl, f)

Stop ==
    /\ server = "up" /\ busy = 0
    /\ server' = "down" /\ timer' = 0
    /\ UNCHANGED <<boot, pos, node, flag, seen, scanVars>>

Next ==
    \/ Start \/ HotReload \/ ModuleInit \/ GateInit \/ FailoverInit \/ CreateCommand
    \/ LoadFails \/ Loaded \/ AclPollTimer \/ ScanSlots \/ CopyToken \/ EndScan
    \/ ClusterChanges \/ UsersChange \/ CallsFail \/ Stop

Spec == Init /\ [][Next]_vars

\* a command that has started ends, and a timer that is due fires even if
\* commands keep coming: the event loop runs timers between them
FairSpec == Spec /\ SF_vars(AclPollTimer) /\ WF_vars(CopyToken) /\ WF_vars(EndScan)

-----------------------------------------------------------------------------
\* Every variable has its type, and the SLOT.STATS loop stays inside its
\* buffer: buf[written] = 0 at the end is always a byte of buf.
TypeOK ==
    /\ server \in {"down", "loading", "up", "bare"}
    /\ boot \in 0 .. 1 /\ flag \in 0 .. 1 /\ timer \in 0 .. 1
    /\ seen \in 0 .. 1 /\ busy \in 0 .. 1
    /\ pos \in 0 .. LastPos
    /\ col \in Nat
    /\ written \in 0 .. SLOTS_BUF_SIZE - 1

\* A loaded node sends redirections (the flag is clear) only if an application
\* user has been active since the load began; a boot never starts with an open
\* gate, whatever the order of loading, polling, user changes and failed calls
\* (gate.c, Gate_Init before any command in module.c).
GateGuards == (server = "up" \/ (server = "loading" /\ Registered # {})) /\ flag = 0 => seen = 1

\* SLOT.STATS reports every slot range of the node, whole and in order, when
\* the line and the buffer have room for them; when they have not, only the
\* last range it reports anything of is cut (slot_stats.c, extract_myself_slots).
\* The comment at slot_stats.c:59 promises all of them; nothing in the reply
\* tells a reader that some are missing.
\* Nth[k] is the number of ranges among the first k tokens of the line, so a
\* range at token k is to be entry Nth[k] of out.
Totals(w) == LET sum[i \in 0 .. Len(w)] == IF i = 0 THEN 0 ELSE sum[i - 1] + w[i] IN sum
Slots == MyLine(node).slots
Own == {k \in DOMAIN Slots : ~Slots[k].marker}
Nth == Totals([k \in DOMAIN Slots |-> IF k \in Own THEN 1 ELSE 0])
LineBytes == Totals([k \in DOMAIN Slots |-> Slots[k].len + 1])
OwnBytes == Totals([k \in DOMAIN Slots |-> IF k \in Own THEN Slots[k].len + 1 ELSE 0])
Whole(k) == out[Nth[k]] = [range |-> Slots[k].range, len |-> Slots[k].len]
SlotsReported ==
    busy = 1 /\ rest = << >> =>
      /\ LineBytes[Len(Slots)] - 1 <= LINE_ROOM /\ OwnBytes[Len(Slots)] - 1 < SLOTS_BUF_SIZE
           => Len(out) = Nth[Len(Slots)] /\ \A k \in Own : Whole(k)
      /\ \A k \in Own, j \in DOMAIN out : Nth[k] < j /\ out[j].len > 0 => Whole(k)

OneNodePerIP(n) ==
    LET addrs == {n.nodes[i].addr : i \in DOMAIN n.nodes} \cup {NodeState(n).master_addr}
    IN  \A a, b \in addrs : a.ip = b.ip => a = b

\* The commands of one node agree: a primary that NODE.READY accepts outside
\* bootstrap has an ok cluster and no lost slots in HEALTH, a linked replica
\* has at most 1024 bytes of lag there; NODE.STATE and BOOTSTRAP.READY never
\* claim slots and none, NODE.STATE and SLOT.STATS agree on having any; a node
\* that TOPOLOGY.SET leaves as it is replicates, in NODE.STATE, a primary at the
\* IP that was asked for, and the very address if no two nodes share an IP
\* (topology.c:308 compares the IP alone; pods have one each); a node that
\* CLUSTER.SAFE and FAILOVER.PREPARE let go has, in HEALTH, a converged cluster
\* and, as a primary, a replica. The lag of NODE.READY and of HEALTH is computed
\* in two places, from the same fields.
ReportsAgree ==
    server = "up" =>
      LET n == node  h == Health(node)  s == NodeState(node) IN
      /\ NodeReady(n) /\ ~Bootstrapping(n) /\ s.role = "primary"
           => h.cluster_state = "ok" /\ h.slots_ok = h.slots_assigned /\ h.slots_ok > 0
      /\ NodeReady(n) /\ ~Bootstrapping(n) /\ s.role = "replica" /\ h.master_link_status = "up"
           => h.repl_lag_bytes <= 1024
      /\ ~(BootstrapReady(n) /\ NodeStateWorks(n) /\ s.has_slots)
      /\ \A i \in DOMAIN n.nodes :
            LET req == [role |-> "replica", primary |-> n.nodes[i].addr, peers |-> << >>] IN
            TopologySetOK(n, req)
              => /\ s.role = "replica" /\ ~Replicates(n, req)
                 /\ s.master_addr.ip = req.primary.ip
                 /\ OneNodePerIP(n) => s.master_addr = req.primary
      /\ busy = 1 /\ rest = << >>
           => ((SlotStats(n, out).slots # << >>) <=> s.has_slots)
      /\ ClusterSafe(n) /\ FailoverPrepare(n).ok /\ HealthWorks(n)
           => h.gossip_converged /\ (s.role = "replica" \/ h.connected_replicas > 0)

\* Once application users stay active and the calls work, a node with the
\* module loaded opens its gate: a timer is always armed while the flag is set.
GateOpens == <>[](server = "up" /\ AppUserActive(node)) => <>[](flag = 0)
=============================================================================
