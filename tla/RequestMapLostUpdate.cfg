\* Two threads of the pool: a counter falls behind.
CONSTANTS
  Threads = {t1, t2}
  Keys = {k1, k2}
  MaxCount = 2
SPECIFICATION Spec
INVARIANTS
  ExactCounts
