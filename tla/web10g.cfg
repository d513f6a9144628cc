SPECIFICATION WebSpec
CONSTANTS
  a = a  b = b  d = d
  c1 = c1  c2 = c2
  Cid = {c1, c2}
  Conn = {a, b, d}
  NoConn = NoConn
  Vars = 1
  Modulus = 2
  o1 = o1  o2 = o2  o3 = o3
  Snap = {o1, o2}
  NoSnap = NoSnap
  CountMax <- NoCounts
  ClockMax = 0
  b1 = b1  b2 = b2
  Block = {b1, b2}
  Free = Free
  NoPtr = NoPtr
  Attrs = 2
  Is <- IsWhat
  Asked <- AskedBoth
SYMMETRY Symmetry
INVARIANTS ReadOwn MatchExact OwnWhileAlive
CHECK_DEADLOCK FALSE
