SPECIFICATION FairSpec
CONSTANTS
    Primaries = {"a1", "b1"}
    MaxMem = 2
    Threshold = 20
    GracePeriod = 2
PROPERTY SkewIsRebalanced
