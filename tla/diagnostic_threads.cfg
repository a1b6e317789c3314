SPECIFICATION MCSpec
CONSTANTS
    pane = pane
    i1 = i1
    i2 = i2
    Components <- MCComponents
    Component <- MCComponent
    None = None
    Incidents = {i1, i2}
    MaxActions = 2
    MaxRepeated = 1
    MaxRisk = 2
    MinimumEvidence = 2
    CatalogSize = 1
    MaxEvidence = 2
    MaxFaults = 1
INVARIANTS
    DiagnosticsOK
    ReservationIsAccounted
    RemediatedOncePerEnd
    DiagnosisIsSupported
PROPERTIES
    ActsOnOwnIncident
    EndsOrIsDiagnosed
