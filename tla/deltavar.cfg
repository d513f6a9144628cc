SPECIFICATION DeltaSpec
CONSTANTS
  s1 = s1  s2 = s2
  Cid = {1, 2}
  a = a  b = b
  Conn <- TwoConns
  NoConn = NoConn
  Vars = 2
  Modulus = 3
  Snap <- Both
  NoSnap = NoSnap
  CountMax <- Counts
  ClockMax = 1
  MyCid = 1
  MyVar = 1
  First = s1
  Second = s2
SYMMETRY ConnSymmetry
INVARIANTS OwnWhileAlive Chronology DifferencesAddUp
CHECK_DEADLOCK FALSE
