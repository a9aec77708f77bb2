SPECIFICATION FairSpec
CONSTANTS
    p1 = p1
    p2 = p2
    p3 = p3
    s1 = s1
    s2 = s2
    Slots <- TwoSlots
    Pods <- ThreePods
    Home <- TwoHomes
    ConvergenceTimeout = 1
    ResetCooldown = 2
    StartKinds <- AnyStart
    FaultKinds = {"lag"}
    MaxFaults = 1
PROPERTY BootstrapUndisturbed
PROPERTY AllNodesJoin
