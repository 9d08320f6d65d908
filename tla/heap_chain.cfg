CONSTANTS
  n1 = n1
  Nodes = {n1}
  Opaque = {n1}
  MaxSlots = 2
  MaxRefs = 1
SPECIFICATION Spec
INVARIANT EveryLiveCellHasAChain
