SPECIFICATION ChainSpec
CONSTANTS
    None = None
    Panes = {p1}
    IncidentIds = {i1, i2}
    ExecutionIds = {x1}
    Actions = {respawn, wipe}
    AllowedActions = {respawn}
    Standing = p1
    Overlap = FALSE
    MaxRequests = 1
    MaxCrashes = 1
SYMMETRY IdsAreSymmetric
INVARIANTS
    ChainOK
    RecoveredIsVerified
PROPERTIES
    ReportsNeverRegress
