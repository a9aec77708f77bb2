SPECIFICATION FairSpec
CONSTANTS
    Threshold = 3
    MaxBackoff = 5
    HardSpread = TRUE
    JobTTL = 5
    FaultKinds = {"corrupt", "env", "jobfail", "api"}
    MaxFaults = 3
INVARIANT TypeOK
PROPERTY PatientRecovery
PROPERTY Recovers
