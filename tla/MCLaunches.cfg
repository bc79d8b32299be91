SPECIFICATION Spec
CONSTANTS
  Launches = 3
  Wrap = 4
  MaxStep = 1
  MaxReportCount = 1
INVARIANTS LaunchesTypeOK CrashHistoryTrue StartupCrashFirst SentOncePerLaunch ReportsBounded
PROPERTY DeletedWasSent
CHECK_DEADLOCK FALSE
