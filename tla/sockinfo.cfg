SPECIFICATION Spec
CONSTANTS
  c1 = c1  f1 = f1  f2 = f2  f3 = f3  a = a  b = b  d = d
  NoConn = NoConn  NoPid = NoPid
  Cid = {c1}
  Conn = {a, b, d}
  Tuple <- TuplesBoth
  Fam <- FamBoth
  Pid = {"p", "q"}
  Fd = {f1, f2, f3}
  Slot <- Slots
  CallMax = 1
  IdleMax = 3
  ChangeMax = 2
  FailMax = 1
  AddrLen = 3  V4Len = 1  V6Len = 2
  Byte = {0, 1}
  Port = {1, 2}
SYMMETRY Symmetry
INVARIANTS TypeOK ItemsTrue ConnsListed OwnersListed
PROPERTIES LeakOnlyOnError
CHECK_DEADLOCK FALSE
