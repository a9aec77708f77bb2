SPECIFICATION FairSpec
CONSTANTS
    p1 = p1
    p2 = p2
    p3 = p3
    s1 = s1
    s2 = s2
    Slots <- TwoSlots
    Pods <- TwoPods
    Home <- TwoHomes
    ConvergenceTimeout = 2
    ResetCooldown = 3
    StartKinds = {"fresh"}
    FaultKinds = {"crash"}
    MaxFaults = 2
PROPERTY BrutalRestartRecovers
