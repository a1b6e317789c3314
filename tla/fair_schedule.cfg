SPECIFICATION PartsSpec
CONSTANTS
    CycleThreads = {c1, c2}
    DiagnosticThreads = {d1, d2}
    None = None
    MaxRetries = 1
    MaxRuns = 3
    MaxDeaths = 1
    Callers = {p, q}
    i1 = i1
    r1 = r1
    b1 = b1
    Ids = {i1}
    Runs = {r1}
    Bodies = {b1}
CHECK_DEADLOCK FALSE
INVARIANTS
    TypeOK
    OneThreadEach
    CleanStopIsQuiescent
PROPERTIES
    NoTeardownInCycle
    RetriesAreForLife
    StopReturns
    FailureIsAnswered
    CallReturns
