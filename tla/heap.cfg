CONSTANTS
  n1 = n1
  Nodes = {n1}
  Opaque = {}
  MaxSlots = 3
  MaxRefs = 1
SPECIFICATION FairSpec
INVARIANTS TypeOK NoDangling FreeListExact
PROPERTIES CollectionIsPrecise GraphSpec CollectionEnds
