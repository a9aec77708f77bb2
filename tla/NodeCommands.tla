---------------------------- MODULE NodeCommands ----------------------------
(***************************************************************************)
(* What the OPERATOR.* commands of the Valkey module answer (server/ *.c). *)
(* A command runs in the server's only thread and calls INFO, CLUSTER INFO, *)
(* CLUSTER NODES and ACL LIST, so its answer is a function of what they    *)
(* say at that moment. A node n is a record of                             *)
(*   failed   the calls that fail or answer with another type              *)
(*   info     the fields of INFO (a function on the fields present)        *)
(*   cluster  the fields of CLUSTER INFO, likewise                         *)
(*   nodes    the lines of CLUSTER NODES, in order, each a record of id,   *)
(*            addr, flags (a set), master and slots (a sequence of tokens) *)
(*   acl      the lines of ACL LIST, pairs <<user, "on" or "off">>         *)
(* An address is a record of ip and port; an empty ip is what a node that   *)
(* does not know its own prints, an empty port is an address without colon. *)
(* A slot token is a record of range (an identity), marker (it is a "[..]" *)
(* migration marker) and len (its length in bytes).                        *)
(***************************************************************************)
EXTENDS Integers, Sequences, FiniteSets

Works(n, call) == call \notin n.failed

\* parse_field_ll, parse_field_str: a missing field is -1, or the default
FieldLL(fields, f) == IF f \in DOMAIN fields THEN fields[f] ELSE -1
FieldStr(fields, f, default) == IF f \in DOMAIN fields THEN fields[f] ELSE default

AtLeastZero(x) == IF x < 0 THEN 0 ELSE x

Role(n) == FieldStr(n.info, "role", "")
ClusterState(n, default) == FieldStr(n.cluster, "cluster_state", default)

NoAddr == [ip |-> "", port |-> ""]

\* strstr(flags, "fail") also finds "fail?" and "nofailover"
Failing(l) == {"fail", "fail?", "nofailover", "noaddr"} \cap l.flags # {}

-----------------------------------------------------------------------------
\* OPERATOR.CLUSTER.SAFE

\* the loop over CLUSTER NODES; a master without slots counts as well
HealthyOtherPrimaries(n) ==
    {i \in DOMAIN n.nodes :
        /\ "myself" \notin n.nodes[i].flags
        /\ "master" \in n.nodes[i].flags
        /\ ~Failing(n.nodes[i])}

\* mutant: one other primary is thought to be a majority
ClusterSafeOne(n) ==
    /\ Works(n, "CLUSTER INFO") /\ ClusterState(n, "") = "ok"
    /\ Works(n, "INFO")
    /\ \/ Role(n) = "slave"
       \/ /\ FieldLL(n.info, "connected_slaves") > 0
          /\ Works(n, "CLUSTER NODES")
          /\ Cardinality(HealthyOtherPrimaries(n)) >= 1

ClusterSafe(n) ==
    /\ Works(n, "CLUSTER INFO") /\ ClusterState(n, "") = "ok"
    /\ Works(n, "INFO")
    /\ \/ Role(n) = "slave"
       \/ /\ FieldLL(n.info, "connected_slaves") > 0
          /\ Works(n, "CLUSTER NODES")
          /\ Cardinality(HealthyOtherPrimaries(n)) >= 2

-----------------------------------------------------------------------------
\* OPERATOR.FAILOVER.PREPARE

\* whether CLIENT PAUSE WRITE, WAIT and CLIENT UNPAUSE are run, and the answer;
\* the three run in one go, so clients see no pause
FailoverPrepare(n) ==
    LET pauses == /\ Works(n, "INFO") /\ Role(n) = "master"
                  /\ FieldLL(n.info, "connected_slaves") > 0
    IN  [pauses |-> pauses,
         ok     |-> pauses \/ (Works(n, "INFO") /\ Role(n) = "slave")]

-----------------------------------------------------------------------------
\* OPERATOR.NODE.READY

\* ACL LIST has a user other than default and operator that is on
AppUserActive(n) ==
    /\ Works(n, "ACL LIST")
    /\ \E e \in n.acl : e[1] \notin {"default", "operator"} /\ e[2] = "on"

Bootstrapping(n) == AtLeastZero(FieldLL(n.cluster, "cluster_slots_assigned")) = 0

\* looked at only when both offsets are known
TooFarBehind(n) ==
    LET master == FieldLL(n.info, "master_repl_offset")
        slave  == FieldLL(n.info, "slave_repl_offset")
    IN  master > 0 /\ slave >= 0 /\ master - slave > 1024

LinkUp(n) == FieldStr(n.info, "master_link_status", "") = "up"

\* connected_slaves is not looked at
PrimaryReady(n) ==
    \/ Bootstrapping(n)
    \/ /\ ClusterState(n, "") = "ok"
       /\ AtLeastZero(FieldLL(n.cluster, "cluster_slots_assigned"))
            = AtLeastZero(FieldLL(n.cluster, "cluster_slots_ok"))

\* with the link down, data from before is enough
ReplicaReady(n) ==
    \/ Bootstrapping(n)
    \/ /\ FieldLL(n.info, "master_sync_in_progress") # 1
       /\ FieldLL(n.info, "slave_repl_offset") # 0 \/ LinkUp(n)
       /\ ~(LinkUp(n) /\ TooFarBehind(n))

NodeReady(n) ==
    /\ Works(n, "INFO") /\ Role(n) # ""
    /\ AppUserActive(n)
    /\ Works(n, "CLUSTER INFO") /\ FieldLL(n.cluster, "cluster_slots_fail") <= 0
    /\ Role(n) = "master" => PrimaryReady(n)
    /\ Role(n) = "slave"  => ReplicaReady(n)

-----------------------------------------------------------------------------
\* OPERATOR.BOOTSTRAP.READY

BootstrapReady(n) ==
    /\ Works(n, "INFO") /\ Works(n, "CLUSTER INFO")
    /\ FieldStr(n.info, "server_mode", "") = "cluster"
    /\ FieldLL(n.cluster, "cluster_slots_assigned") <= 0
    /\ FieldLL(n.cluster, "cluster_known_nodes") <= 1

-----------------------------------------------------------------------------
\* OPERATOR.HEALTH

HealthWorks(n) == Works(n, "CLUSTER INFO") /\ Works(n, "INFO")

\* 0 for a primary and while an offset is not known
ReplLag(n) ==
    LET master == FieldLL(n.info, "master_repl_offset")
        slave  == FieldLL(n.info, "slave_repl_offset")
    IN  IF FieldStr(n.info, "role", "unknown") = "slave" /\ master > 0 /\ slave >= 0
        THEN AtLeastZero(master - slave) ELSE 0

Health(n) ==
    LET role == FieldStr(n.info, "role", "unknown") IN
    [cluster_state       |-> ClusterState(n, "unknown"),
     slots_assigned      |-> AtLeastZero(FieldLL(n.cluster, "cluster_slots_assigned")),
     slots_ok            |-> AtLeastZero(FieldLL(n.cluster, "cluster_slots_ok")),
     gossip_converged    |-> /\ ClusterState(n, "unknown") = "ok"
                             /\ FieldLL(n.cluster, "cluster_size") > 0,
     repl_lag_bytes      |-> ReplLag(n),
     connected_replicas  |-> AtLeastZero(FieldLL(n.info, "connected_slaves")),
     role                |-> CASE role = "master" -> "primary"
                               [] role = "slave"  -> "replica"
                               [] OTHER           -> role,
     master_link_status  |-> IF role = "slave"
                             THEN FieldStr(n.info, "master_link_status", "") ELSE "",
     cluster_known_nodes |-> AtLeastZero(FieldLL(n.cluster, "cluster_known_nodes")),
     cluster_size        |-> AtLeastZero(FieldLL(n.cluster, "cluster_size"))]

-----------------------------------------------------------------------------
\* OPERATOR.NODE.STATE

\* the node's own line, if CLUSTER NODES works; there is at most one
MyLines(n) ==
    IF Works(n, "CLUSTER NODES")
    THEN {i \in DOMAIN n.nodes : "myself" \in n.nodes[i].flags} ELSE {}
MyLine(n) == n.nodes[CHOOSE i \in MyLines(n) : TRUE]

\* mutant: migration markers count as slots
OwnSlotsMarked(n) == MyLines(n) # {} /\ MyLine(n).slots # << >>

\* parse_myself_line: some token after the link state is no migration marker
OwnSlots(n) ==
    /\ MyLines(n) # {}
    /\ \E i \in DOMAIN MyLine(n).slots : ~MyLine(n).slots[i].marker

MasterId(n) == IF MyLines(n) = {} \/ MyLine(n).master = "-" THEN "" ELSE MyLine(n).master

NodeStateWorks(n) == Works(n, "INFO")

NodeState(n) ==
    [role        |-> CASE Role(n) = "master" -> "primary"
                       [] Role(n) = "slave"  -> "replica"
                       [] OTHER              -> "unknown",
     master_id   |-> MasterId(n),
     master_addr |-> IF {"master_host", "master_port"} \subseteq DOMAIN n.info
                     THEN [ip |-> n.info.master_host, port |-> n.info.master_port]
                     ELSE NoAddr,
     has_slots   |-> OwnSlots(n)]
-----------------------------------------------------------------------------
\* OPERATOR.SLOT.STATS (the slots themselves are collected by ValkeyNode)

SlotStatsWorks(n) == Works(n, "INFO") /\ Works(n, "CLUSTER NODES")

\* extract_keyspace_keys: none without db0
Keys(n) == AtLeastZero(FieldLL(n.info, "db0:keys"))

SlotStats(n, slots) ==
    LET slave == FieldLL(n.info, "slave_repl_offset") IN
    [keys         |-> Keys(n),
     memory_bytes |-> AtLeastZero(FieldLL(n.info, "used_memory")),
     role         |-> IF Role(n) = "master" THEN "primary" ELSE "replica",
     slots        |-> slots,
     repl_offset  |-> AtLeastZero(IF Role(n) = "slave" /\ slave >= 0 THEN slave
                                  ELSE FieldLL(n.info, "master_repl_offset"))]

-----------------------------------------------------------------------------
\* OPERATOR.TOPOLOGY.SET: req is a record of role, primary (an address) and
\* peers (a sequence of addresses); "" and NoAddr are fields that are not there

MAX_PEERS == 64

\* json_extract_array_strings, and the scan of CLUSTER NODES: the first 64
Peers(req) == {req.peers[i] : i \in {j \in DOMAIN req.peers : j <= MAX_PEERS}}
KnownAddrs(n) ==
    IF Works(n, "CLUSTER NODES")
    THEN {n.nodes[i].addr : i \in {j \in DOMAIN n.nodes : j <= MAX_PEERS}} ELSE {}

\* split_addr: the address has a colon
Splits(addr) == addr.port # ""

\* the port of the primary is not looked at
IsAlreadyReplicaOf(n, addr) ==
    /\ Splits(addr) /\ addr.ip # ""
    /\ Works(n, "INFO") /\ Role(n) = "slave"
    /\ FieldStr(n.info, "master_host", "") = addr.ip

\* get_node_id_for_addr: the id to replicate is that of the node with
\* the address, port included
LinesOf(n, addr) ==
    IF Works(n, "CLUSTER NODES") THEN {i \in DOMAIN n.nodes : n.nodes[i].addr = addr} ELSE {}

Complete(req) == req.role # "" /\ (req.role = "replica" => req.primary # NoAddr)

\* the addresses it sends CLUSTER MEET for
Meets(n, req) == IF Complete(req) THEN {a \in Peers(req) \ KnownAddrs(n) : Splits(a)} ELSE {}

\* whether it goes on to CLUSTER REPLICATE; the answer is then that call's
Replicates(n, req) ==
    /\ Complete(req) /\ req.role = "replica"
    /\ ~IsAlreadyReplicaOf(n, req.primary)
    /\ LinesOf(n, req.primary) # {}

\* the answer when it does not
TopologySetOK(n, req) ==
    Complete(req) /\ (req.role = "replica" => IsAlreadyReplicaOf(n, req.primary))
=============================================================================
