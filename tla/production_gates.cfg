CONSTANTS
  Processes = {p1, p2}
  Requests = {r1, r2}
  Cycles = {c1}
  Approval = approval
  None = None
  AutonomousEnabled = TRUE
  Lifetime = 1
  Cooldown = 1
  Window = 1
  MaxAttempts = 1
  MaxTime = 2
  MaxInvocation = 2
  MaxFaults = 1
SPECIFICATION Spec
SYMMETRY InterchangeableNames
INVARIANTS
    TypeOK
    RequestRunsOnce
    BudgetIsKept
PROPERTIES
    FailsClosed
    ImplementsSingleUse
CHECK_DEADLOCK FALSE
