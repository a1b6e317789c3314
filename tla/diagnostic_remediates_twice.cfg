SPECIFICATION Spec
CONSTANTS
    pane = pane
    i1 = i1
    i2 = i2
    Components <- MCComponents
    Component <- MCComponent
    None = None
    Incidents = {i1}
    MaxActions = 1
    MaxRepeated = 1
    MaxRisk = 1
    MinimumEvidence = 1
    CatalogSize = 1
    MaxEvidence = 2
    MaxFaults = 0
INVARIANTS
    RemediatedOnce
