SPECIFICATION FairSpec
CONSTANTS
    PodSeq <- MCPodSeq
    Shards <- MCShards
    ShardOf <- MCShardOf
    First <- MCFirst
    Updates = 1
    Rolled = {"a1", "a2"}
    Probed = {"a1", "a2"}
    Drained = {"a1"}
    OneAtATime = TRUE
    Written = {"a"}
    MaxWrites = 1
    Crashing = {"a2"}
    MaxFaults = 1
    NoPod = "none"
CHECK_DEADLOCK FALSE
INVARIANTS TypeOK SafeKeepsMajority
PROPERTIES PromiseKept ReplacementCompletes
