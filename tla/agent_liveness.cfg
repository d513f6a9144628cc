SPECIFICATION FairSpec
CONSTANTS
  c1 = c1  c2 = c2  c3 = c3
  b1 = b1  b2 = b2  b3 = b3  b4 = b4
  Cid <- Two
  Plain = {"header"}
  Specs <- V4Specs
  NoSpec = NoSpec
  NoCid = NoCid
  Null = Null
  Block <- ThreeBlocks
  Fam <- Fam4
  FdMax = 2
  AddrLen = 3  V4Len = 1  V6Len = 2
  Byte = {0, 1}
  Port = {1, 2}

PROPERTIES CallReturns
