SPECIFICATION FairSpec
CONSTANTS
    p1 = p1
    p2 = p2
    Pods <- TwoPods
    Last = 2
    Names <- TwoNames
    Users <- SameUsers
    Op <- TwoOperators
    FaultKinds = {}
    MaxFaults = 0
PROPERTY RotationReachesPods
