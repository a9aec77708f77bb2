------------------------------- MODULE MCNode -------------------------------
EXTENDS ValkeyNode

Primary(slaves) ==
    [server_mode |-> "cluster", role |-> "master", connected_slaves |-> slaves,
     master_repl_offset |-> 2000, used_memory |-> 1]
Replica(host, link, sync, offset) ==
    [server_mode |-> "cluster", role |-> "slave", connected_slaves |-> 0,
     master_host |-> host, master_port |-> "6379", master_link_status |-> link,
     master_sync_in_progress |-> sync, slave_repl_offset |-> offset,
     master_repl_offset |-> 2000, used_memory |-> 1]

\* state, slots assigned and ok, slots in fail, nodes known, masters with slots
Cluster(state, assigned, ok, fail, known, size) ==
    [cluster_state |-> state, cluster_slots_assigned |-> assigned,
     cluster_slots_ok |-> ok, cluster_slots_fail |-> fail,
     cluster_known_nodes |-> known, cluster_size |-> size]

Token(r, l) == [range |-> r, len |-> l, marker |-> FALSE]
Marker(l) == [range |-> "migration", len |-> l, marker |-> TRUE]

Line(id, flags, master, slots) ==
    [id |-> id, addr |-> [ip |-> "a" \o id, port |-> "6379"], flags |-> flags,
     master |-> master, slots |-> slots]

SlotLists ==
    {<< >>, <<Marker(4)>>, <<Token("r1", 4)>>, <<Token("r1", 4), Token("r2", 5)>>,
     <<Token("r1", 4), Token("r2", 4), Token("r3", 1)>>,
     <<Token("r1", 3), Token("r2", 4), Token("r3", 2)>>,
     <<Token("r1", 3), Token("r2", 5), Marker(4)>>,
     <<Token("r1", 9), Token("r2", 3)>>, <<Token("r1", 10), Token("r2", 3)>>,
     <<Token("r1", 2), Token("r2", 2), Token("r3", 2), Token("r4", 5)>>,
     <<Token("r1", 13)>>}

MCTokens == UNION {{l[i] : i \in DOMAIN l} : l \in SlotLists}

\* a node that has met no other does not know its own IP
Alone == <<[Line("1", {"myself", "master"}, "-", << >>) EXCEPT !.addr.ip = ""]>>
With(mine) == <<Line("2", {"master"}, "-", << >>), mine, Line("3", {"master"}, "-", << >>)>>
NoFailover(mine) == [With(mine) EXCEPT ![3].flags = {"master", "nofailover"}]
\* two servers on one host, as the operator's pods never are
SharedIP(mine) == [With(mine) EXCEPT ![3].addr = [ip |-> "a2", port |-> "6380"]]

MCReplies ==
    {[info |-> Primary(0), cluster |-> c,
      nodes |-> IF c.cluster_known_nodes = 1
                THEN Alone ELSE With(Line("1", {"myself", "master"}, "-", << >>))] :
        c \in {Cluster("fail", 0, 0, 0, 1, 0), Cluster("fail", 0, 0, 0, 3, 0)}}
    \cup
    {[info |-> Primary(s), cluster |-> c, nodes |-> With(Line("1", {"myself", "master"}, "-", l))] :
        s \in 0 .. 1, l \in SlotLists,
        c \in {Cluster("ok", 9, 9, 0, 3, 3), Cluster("ok", 9, 9, 0, 3, 2),
               Cluster("fail", 9, 6, 3, 3, 3), Cluster("fail", 9, 6, 0, 3, 3)}}
    \cup
    {[info |-> Primary(1), cluster |-> Cluster("ok", 9, 9, 0, 3, 3),
      nodes |-> NoFailover(Line("1", {"myself", "master"}, "-", <<Token("r1", 4)>>))]}
    \cup
    {[info |-> Replica("a2", k, y, o), cluster |-> c,
      nodes |-> With(Line("1", {"myself", "slave"}, "2", << >>))] :
        k \in {"up", "down"}, y \in 0 .. 1, o \in {0, 975, 976, 2000, 2001},
        c \in {Cluster("ok", 9, 9, 0, 3, 3), Cluster("fail", 9, 6, 3, 3, 3),
               Cluster("fail", 0, 0, 0, 3, 0)}}
    \cup
    {[info |-> Replica(host, "up", 0, 2000), cluster |-> Cluster("ok", 9, 9, 0, 3, 3),
      nodes |-> SharedIP(Line("1", {"myself", "slave"}, "2", << >>))] : host \in {"a2", "a9"}}

MCAclLists ==
    {{<<"default", "on">>}, {<<"default", "on">>, <<"operator", "on">>},
     {<<"default", "off">>, <<"operator", "on">>, <<"app", "off">>},
     {<<"default", "off">>, <<"operator", "on">>, <<"app", "on">>}}
=============================================================================
