SPECIFICATION Spec
CONSTANTS
  n1 = n1
  n2 = n2
  n3 = n3
  Node = {n1, n2, n3}
  Root = Root
  None = None
  ExitNode = {}
  Liberties = {}
  MaxOps = 3
  MaxDepth = 1
  MaxFrames = 1
SYMMETRY NodeSymmetry
INVARIANTS
  OrderAgrees
