SPECIFICATION FairSpec
CONSTANTS
    PodSeq <- MCPodSeq
    Primaries = {"a1", "b1"}
    Home <- MCHome
    ReplicasPerShard = 1
    MayStop <- MCMayStop
    MaxStops = 1
    MaxFaults = 1
INVARIANTS TypeOK
PROPERTIES PlacedWhenAgreed Repaired
