CONSTANTS
    Lanes = {"canary", "probe"}
    Ids = {i1, i2}
    ApprovalsOf <- FiledApprovals
    None = None
    MaxFiled = 3
    MaxFaults = 1
    Runs = {v, w}
    MaxServers = 2
    Nothing = Nothing
    MaxLiveFaults = 3
    Installers = {"canary", "pilot"}
    MaxRuns = 1
    MaxTampers = 1
SPECIFICATION PartsSpec
SYMMETRY IdsAreSymmetric
INVARIANTS
    ApprovedOnce
    LiveRunIsContained
PROPERTIES
    EvidenceIsTrue
    OwnServersOnly
    InstallersAreHonest
CHECK_DEADLOCK FALSE
