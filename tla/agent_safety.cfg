SPECIFICATION Spec
CONSTANTS
  c1 = c1  c2 = c2  c3 = c3
  b1 = b1  b2 = b2  b3 = b3  b4 = b4
  Cid <- Two
  Plain = {"header"}
  Specs <- OddSpecs
  NoSpec = NoSpec
  NoCid = NoCid
  Null = Null
  Block <- ThreeBlocks
  Fam <- Fam6
  FdMax = 2
  AddrLen = 3  V4Len = 1  V6Len = 2
  Byte = {0, 1}
  Port = {1, 2}
SYMMETRY BlockSymmetry
INVARIANTS HeapMatchesList ScanComplete ConnUsable SpecFindsOwn
PROPERTIES LeakOnlyOnError ImplementsLookup
CHECK_DEADLOCK TRUE
