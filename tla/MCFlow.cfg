SPECIFICATION FairFlowSpec
CONSTANTS
  b1 = b1
  b2 = b2
  Builds = {b1, b2}
  Nobody = Nobody
  Commands = 1
  OutputSizes = {0, 1}
  Faults = {"mkdir", "zip"}
  PipeCapacity = 1
  MaxTime = 1
  SetBack = FALSE
  Window = 1
  MaxEntries = 4
  TrimCount = 2
  MaxJournal = 5
CHECK_DEADLOCK FALSE
INVARIANTS FlowTypeOK OneAtATime ControlsReflect BundleLogComplete 
PROPERTIES ControlsReturn FairOneRequestFlow
