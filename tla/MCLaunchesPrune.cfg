SPECIFICATION Spec
CONSTANTS
  Launches = 3
  Wrap = 3
  MaxStep = 2
  MaxReportCount = 1
PROPERTY PruneKeepsNewest
CHECK_DEADLOCK FALSE
