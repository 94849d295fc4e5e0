SPECIFICATION FairSpec
CONSTANTS
  MaxChunks = 4
  MaxUploads = 2
  Faults = {"refuse", "network", "timeout", "upload"}
INVARIANTS
  InOrder
  NothingMissing
  AbortStops
PROPERTIES
  CancelEnds
  AnswerSettles
  ReadsEnd
CHECK_DEADLOCK FALSE
