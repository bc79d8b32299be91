SPECIFICATION FairSpec
CONSTANTS
  App = {a, b}
  Nobody = Nobody
  Sections = 2
  MaxFaults = 2
INVARIANTS CrashTypeOK LoneCrashReported SecondaryForTheOthers
PROPERTIES EvidenceKept EndsOrWaitsForHeap
CHECK_DEADLOCK FALSE
