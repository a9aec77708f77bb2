SPECIFICATION FairSpec
CONSTANTS
    p1 = p1
    p2 = p2
    p3 = p3
    s1 = s1
    s2 = s2
    Slots <- TwoSlots
    Pods <- TwoPods
    Home <- OneHome
    ConvergenceTimeout = 2
    ResetCooldown = 3
    StartKinds <- AnyStart
    FaultKinds = {"deaf", "api", "lag"}
    MaxFaults = 1
PROPERTY ClusterForms
