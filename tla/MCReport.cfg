SPECIFICATION Spec
CONSTANTS
  Processes <- MCProcesses
  Depth <- MCDepth
  Garbage <- MCGarbage
  MaxIvars <- MCMaxIvars
  MaxSupers <- MCMaxSupers
  MaxFrames <- MCMaxFrames
  MaxMessage <- MCMaxMessage
  TestBuffer <- MCTestBuffer
  Window <- MCWindow
  MaxDepth <- MCMaxDepth
  MaxRead <- MCMaxRead
INVARIANTS ReportAlwaysCloses SectionsInPlace MemoryBounded IntrospectionGuarded
PROPERTY OnlyWholeReportsPass
CHECK_DEADLOCK FALSE
