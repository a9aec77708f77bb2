------------------------------ MODULE MCRepair ------------------------------
EXTENDS ReplicaRepair, TLC

MCPodSeq == <<"a1", "b1", "a2", "b2">>
MCHome == "a2" :> "a1" @@ "b2" :> "b1"
\* one replica stops; the shards are alike, so it does not matter which
MCMayStop == {"a2"} \X {"crash", "evict", "lose"}
=============================================================================
