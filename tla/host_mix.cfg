SPECIFICATION FairSpec
CONSTANTS
  n1 = n1
  n2 = n2
  Node = {n1, n2}
  Root = Root
  None = None
  ExitNode = {n1}
  Liberties = {"mix"}
  MaxOps = 2
  MaxDepth = 2
  MaxFrames = 2
INVARIANTS
  TrackedAlive
  DropsSpareAttached
  AttachedPlaced
  NoGhosts
  FlushArmed
PROPERTIES
  NativeQuiet
  EditsShown
  ExitsEnd
