\* Three threads: two that insert at once and one that is between its load and
\* its store.  Two keys, each recorded until it has been served twice.
CONSTANTS
  Threads = {t1, t2, t3}
  Keys = {k1, k2}
  MaxCount = 2
SYMMETRY Symmetry
SPECIFICATION Spec
INVARIANTS
  TypeOK
  NoOvercount
  ReportNotAhead
