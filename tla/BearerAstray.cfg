SPECIFICATION Spec
CHECK_DEADLOCK FALSE
CONSTANTS
  Lines = {"delta", "[DONE]", "failed", "invalid", "comment"}
  MaxBytes = 1
  MaxChunk = 1
  MaxRuns = 2
  Bearers = {"old", "new"}
  Callers = {c1}
  TTL = 2
  ProbeTime = 1
  MaxTime = 4
  Timeouts = {0, 1, 3, 5}
  MaxTimeout = 4
  Margin = 3
  MaxWait = 8
  ChunkSize = 2
  TagLen = 2
  Contents <- MCContents
  LenCells = 2
  BodyCells = 2
  MaxRecords = 1
PROPERTY OnlyHoldersAreSent
