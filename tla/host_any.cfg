SPECIFICATION Spec
CONSTANTS
  n1 = n1
  n2 = n2
  Node = {n1, n2}
  Root = Root
  None = None
  ExitNode = {n1}
  Liberties = {"mix", "move", "reuse", "revive", "uncommitted"}
  MaxOps = 1
  MaxDepth = 0
  MaxFrames = 1
SYMMETRY NodeSymmetry
INVARIANTS
  TypeOK
  DoomedDetached
  NoLeak
