SPECIFICATION FairSpec
CONSTANTS
  JS = JS
  worker = worker
  Thread = {JS, worker}
  None = None
  MaxBlocks = 3
INVARIANTS
  OneDrain
  EachOnce
PROPERTIES
  SyncSeesAll
  KeepsPromise
CHECK_DEADLOCK FALSE
