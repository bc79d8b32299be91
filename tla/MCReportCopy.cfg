SPECIFICATION Spec
CONSTANTS
  Processes <- MCOneProcess
  Depth <- MCDepth
  Garbage <- MCGarbage
  MaxIvars <- MCMaxIvars
  MaxSupers <- MCMaxSupers
  MaxFrames <- MCMaxFrames
  MaxMessage <- MCMaxMessage
  TestBuffer <- MCTestBuffer
  Window <- MCWindow
  MaxDepth <- MCMaxDepth
  MaxRead <- MCMaxRead
PROPERTY CopyIsOfTheFile
CHECK_DEADLOCK FALSE
