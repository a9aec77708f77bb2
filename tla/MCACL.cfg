SPECIFICATION FairSpec
CONSTANTS
    p1 = p1
    p2 = p2
    Pods <- TwoPods
    Last = 3
    Names <- TwoNames
    Users <- ThreeVersions
    Op <- SameOperator
    FaultKinds = {"restart", "recreate", "deaf", "api"}
    MaxFaults = 1
INVARIANT TypeOK
INVARIANT CompleteUser
PROPERTY UsersConverge
