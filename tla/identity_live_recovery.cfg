CONSTANTS
  Callers = {c1, c2}
  i1 = i1
  i2 = i2
  r1 = r1
  b1 = b1
  b2 = b2
  None = None
  Ids = {i1, i2}
  Runs = {r1}
  Bodies = {b1, b2}
  Requests <- ClashingRequests
  RecoveryAtStartupOnly = FALSE
SPECIFICATION Spec
PROPERTY TerminalIsFinal
