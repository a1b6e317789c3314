SPECIFICATION FairSpec
CONSTANTS
    pane = pane
    i1 = i1
    i2 = i2
    Components <- MCComponents
    Component <- MCComponent
    None = None
    Incidents = {i1}
    MaxActions = 2
    MaxRepeated = 2
    MaxRisk = 3
    MinimumEvidence = 1
    CatalogSize = 2
    MaxEvidence = 1
    MaxFaults = 1
PROPERTIES
    InvestigationEnds
