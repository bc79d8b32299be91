SPECIFICATION FairBuilderSpec
CONSTANTS
  b1 = b1
  Builds = {b1}
  Commands = 2
  OutputSizes = {0, 1, 2}
  PipeCapacity = 1
  Faults = {"mkdir", "write", "launch", "downloads", "zip", "remove"}
  MaxTime = 1
  SetBack = TRUE
  Nobody = Nobody
  MaxEntries = 4
  TrimCount = 2
  Window = 1
CHECK_DEADLOCK FALSE
INVARIANTS CompletedOnce
PROPERTIES AnsweredOrStuck
