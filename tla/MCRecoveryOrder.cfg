SPECIFICATION Spec
CONSTANTS
    Threshold = 3
    MaxBackoff = 5
    HardSpread = TRUE
    JobTTL = 5
    FaultKinds = {"corrupt"}
    MaxFaults = 1
PROPERTY MountedFirst
