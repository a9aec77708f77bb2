------------------------------ MODULE MCRolling ------------------------------
EXTENDS RollingUpdate, TLC

MCPodSeq == <<"a1", "b1", "c1", "a2", "b2", "c2">>
MCShards == {"a", "b", "c"}
MCShardOf ==
    "a1" :> "a" @@ "a2" :> "a" @@ "b1" :> "b" @@ "b2" :> "b" @@ "c1" :> "c" @@ "c2" :> "c"
MCFirst == "a" :> "a1" @@ "b" :> "b1" @@ "c" :> "c1"
=============================================================================
