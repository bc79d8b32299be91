SPECIFICATION Spec
CONSTANTS
  App = {a, b}
  Nobody = Nobody
  Sections = 1
  MaxFaults = 0
INVARIANT CrashLeavesReport
CHECK_DEADLOCK FALSE
