CONSTANTS
    x1 = x1
    x2 = x2
    None = None
    Partial = Partial
    Writers = {w1, w2}
    Events <- Reports
    Executions <- Runs
    MaxHistory = 7
    MaxUnsaved = 2
    MaxFaults = 1
    Callers = {p, q, r}
    Agents = {"agent"}
    Deliveries = {"delivery"}
    Contents = {"a", "b"}
    MaxAborts = 1
SPECIFICATION BothSpec
SYMMETRY ActorsAreSymmetric
INVARIANTS
    StoresOK
    RecoveredIsEarned
    AnswersAgree
PROPERTIES
    TerminalIsFinal
    ImplementsAppendOnly
    ImplementsOnce
CHECK_DEADLOCK FALSE
