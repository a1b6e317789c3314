SPECIFICATION Spec
CONSTANTS
    pane = pane
    i1 = i1
    i2 = i2
    Components <- MCComponents
    Component <- MCComponent
    None = None
    Incidents = {i1}
    MaxActions = 2
    MaxRepeated = 2
    MaxRisk = 3
    MinimumEvidence = 2
    CatalogSize = 2
    MaxEvidence = 2
    MaxFaults = 0
INVARIANTS
    ReservationIsDurable
