SPECIFICATION FairSpec
CONSTANTS
  n1 = n1  n2 = n2  n3 = n3  n4 = n4
  Node <- Nodes
  Anchor = Anchor
  Null = Null
INVARIANTS RingMatches NoWildAccess WalkInOrder
PROPERTIES LoopEnds
