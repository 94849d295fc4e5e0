SPECIFICATION FairSpec
CONSTANTS
  MaxChunks = 1
  MaxUploads = 1
  Faults = {"timeout"}
PROPERTIES TimeoutAnswers
CHECK_DEADLOCK FALSE
