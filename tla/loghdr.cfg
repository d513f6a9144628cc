SPECIFICATION FairSpec
CONSTANTS
  r1 = r1  r2 = r2
  Reader = {r1, r2}
  Inode = {1, 2, 3}
  None = None
  Hole = Hole
  HeaderLen <- Lens
INVARIANTS OwnHeader PiecesInPlace NoFileLeft
PROPERTIES OpenReturns
