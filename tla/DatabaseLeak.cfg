CONSTANTS
  Threads = {t1}
  MaxId = 2
  Contents = {x}
  MaxConnections = 2
  NoRow = NoRow
  Garbage = Garbage
  NoCall = NoCall
  NoResult = NoResult
SYMMETRY Symmetry
SPECIFICATION Spec
INVARIANTS
  ClosedAfterUse
