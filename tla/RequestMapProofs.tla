-------------------------- MODULE RequestMapProofs --------------------------
(***************************************************************************)
(* The counters of the server, for every set of threads and keys: updates  *)
(* may be lost, none is invented; and with a single thread every counter   *)
(* and every status page is exact.                                         *)
(***************************************************************************)
EXTENDS RequestMap, TLAPS

\* The counters stay natural numbers, also when insertions overlap
\* (session.cc 98-108).
THEOREM RequestMapTypeCorrect == Spec => []TypeOK
<1>1. Init => TypeOK
  BY DEF Init, TypeOK, Steps, NoCounts
<1>2. TypeOK /\ [Next]_vars => TypeOK'
  <2> SUFFICES ASSUME TypeOK, [Next]_vars PROVE TypeOK'
    OBVIOUS
  <2>1. ASSUME NEW t \in Threads, BeginStatus(t) PROVE TypeOK'
    BY <2>1 DEF BeginStatus, TypeOK, Steps, NoCounts
  <2>2. ASSUME NEW t \in Threads, NEW k \in Keys, ReadEntry(t, k) PROVE TypeOK'
    <3>1. PICK seen \in Nat : report' = [report EXCEPT ![t][k] = seen]
      BY <2>2 DEF ReadEntry, TypeOK
    <3>2. report' \in [Threads -> [Keys -> Nat]]
      BY <3>1 DEF TypeOK
    <3> QED
      BY <2>2, <3>2 DEF ReadEntry, TypeOK
  <2>3. ASSUME NEW t \in Threads, NEW k \in Keys, BeginRecord(t, k) PROVE TypeOK'
    BY <2>3 DEF BeginRecord, TypeOK, Steps, NoCounts
  <2>4. ASSUME NEW t \in Threads, Find(t) PROVE TypeOK'
    BY <2>4 DEF Find, TypeOK, Steps
  <2>5. ASSUME NEW t \in Threads, Load(t) PROVE TypeOK'
    BY <2>5 DEF Load, TypeOK, Steps
  <2>6. ASSUME NEW t \in Threads, Store(t) PROVE TypeOK'
    BY <2>6 DEF Store, Recorded, TypeOK, Steps
  <2>7. ASSUME NEW t \in Threads, Insert(t) PROVE TypeOK'
    <3>1. request_map' \in [Keys -> Nat]
      BY <2>7 DEF Insert, TypeOK
    <3> QED
      BY <2>7, <3>1 DEF Insert, Recorded, TypeOK, Steps
  <2>8. CASE UNCHANGED vars
    BY <2>8 DEF vars, TypeOK
  <2> QED
    BY <2>1, <2>2, <2>3, <2>4, <2>5, <2>6, <2>7, <2>8
    DEF Next, ThreadStep, Finished
<1> QED
  BY <1>1, <1>2, PTL DEF Spec

\* No counter, and no count a thread holds, is ever ahead of the requests
\* served, whatever the threads overwrite (session.cc 98-108).
THEOREM CountersNeverAhead == Spec => []NoOvercount
<1>1. Init => NoOvercount
  BY DEF Init, NoOvercount, NoCounts
<1>2. TypeOK /\ TypeOK' /\ NoOvercount /\ [Next]_vars => NoOvercount'
  <2> SUFFICES ASSUME TypeOK, TypeOK', NoOvercount, [Next]_vars
               PROVE  NoOvercount'
    OBVIOUS
  <2>1. ASSUME NEW t \in Threads, BeginStatus(t) PROVE NoOvercount'
    BY <2>1 DEF BeginStatus, TypeOK, NoOvercount
  <2>2. ASSUME NEW t \in Threads, NEW k \in Keys, ReadEntry(t, k)
        PROVE  NoOvercount'
    BY <2>2 DEF ReadEntry, TypeOK, NoOvercount
  <2>3. ASSUME NEW t \in Threads, NEW k \in Keys, BeginRecord(t, k)
        PROVE  NoOvercount'
    BY <2>3 DEF BeginRecord, TypeOK, NoOvercount
  <2>4. ASSUME NEW t \in Threads, Find(t) PROVE NoOvercount'
    BY <2>4 DEF Find, TypeOK, NoOvercount
  <2>5. ASSUME NEW t \in Threads, Load(t) PROVE NoOvercount'
    BY <2>5 DEF Load, TypeOK, NoOvercount
  <2>6. ASSUME NEW t \in Threads, Store(t) PROVE NoOvercount'
    <3>1. \A k \in Keys : served[k] <= served'[k]
      BY <2>6 DEF Store, Recorded, TypeOK
    <3>2. \A k \in Keys : request_map'[k] <= served'[k]
      BY <2>6, <3>1 DEF Store, Recorded, TypeOK, NoOvercount
    <3> QED
      BY <2>6, <3>1, <3>2 DEF Store, Recorded, TypeOK, NoOvercount
  <2>7. ASSUME NEW t \in Threads, Insert(t) PROVE NoOvercount'
    <3>1. \A k \in Keys : served[k] <= served'[k]
      BY <2>7 DEF Insert, Recorded, TypeOK
    <3>2. \A k \in Keys : request_map'[k] <= served'[k]
      BY <2>7, <3>1 DEF Insert, Recorded, TypeOK, NoOvercount
    <3> QED
      BY <2>7, <3>1, <3>2 DEF Insert, Recorded, TypeOK, NoOvercount
  <2>8. CASE UNCHANGED vars
    BY <2>8 DEF vars, NoOvercount
  <2> QED
    BY <2>1, <2>2, <2>3, <2>4, <2>5, <2>6, <2>7, <2>8
    DEF Next, ThreadStep, Finished
<1> QED
  BY <1>1, <1>2, RequestMapTypeCorrect, PTL DEF Spec

\* No status page shows more than was served (status_handler.cc 46-53).
THEOREM PagesNeverAhead == Spec => []ReportNotAhead
<1>1. Init => ReportNotAhead
  BY DEF Init, ReportNotAhead, NoCounts
<1>2. TypeOK /\ TypeOK' /\ NoOvercount /\ ReportNotAhead /\ [Next]_vars
      => ReportNotAhead'
  <2> SUFFICES ASSUME TypeOK, TypeOK', NoOvercount, ReportNotAhead, [Next]_vars
               PROVE  ReportNotAhead'
    OBVIOUS
  <2>1. ASSUME NEW t \in Threads, BeginStatus(t) PROVE ReportNotAhead'
    BY <2>1 DEF BeginStatus, TypeOK, ReportNotAhead, NoCounts
  <2>2. ASSUME NEW t \in Threads, NEW k \in Keys, ReadEntry(t, k)
        PROVE  ReportNotAhead'
    <3>1. PICK seen \in {0, request_map[k]} :
            report' = [report EXCEPT ![t][k] = seen]
      BY <2>2 DEF ReadEntry
    <3>2. seen <= served[k] /\ served' = served
      BY <2>2, <3>1 DEF ReadEntry, NoOvercount, TypeOK
    <3> QED
      BY <3>1, <3>2 DEF TypeOK, ReportNotAhead
  <2>3. ASSUME NEW t \in Threads, NEW k \in Keys, BeginRecord(t, k)
        PROVE  ReportNotAhead'
    BY <2>3 DEF BeginRecord, TypeOK, ReportNotAhead, NoCounts
  <2>4. ASSUME NEW t \in Threads, Store(t) \/ Insert(t) PROVE ReportNotAhead'
    <3>0. Recorded(t)
      BY <2>4 DEF Store, Insert
    <3>1. \A k \in Keys : served[k] <= served'[k]
      BY <3>0 DEF Recorded, TypeOK
    <3>2. report' = report
      BY <3>0 DEF Recorded
    <3> QED
      BY <3>1, <3>2 DEF TypeOK, ReportNotAhead
  <2>5. ASSUME NEW t \in Threads, Find(t) \/ Load(t) PROVE ReportNotAhead'
    BY <2>5 DEF Find, Load, ReportNotAhead
  <2>6. CASE UNCHANGED vars
    BY <2>6 DEF vars, ReportNotAhead
  <2> QED
    BY <2>1, <2>2, <2>3, <2>4, <2>5, <2>6 DEF Next, ThreadStep, Finished
<1> QED
  BY <1>1, <1>2, RequestMapTypeCorrect, CountersNeverAhead, PTL DEF Spec

-----------------------------------------------------------------------------
\* The single thread of "./server <config> 1", and of the pool of size 0.
OneThread == \E t \in Threads : Threads = {t}

\* With one thread its lookup, its load and its page are not disturbed.
LEMMA OneThreadInvariantHolds ==
  ASSUME OneThread PROVE Spec => []OneThreadInvariant
<1> USE DEF OneThreadInvariant, ExactCounts, ExactReport
<1>1. Init => OneThreadInvariant
  BY DEF Init, NoCounts
<1>2. TypeOK /\ OneThreadInvariant /\ [Next]_vars => OneThreadInvariant'
  <2> SUFFICES ASSUME TypeOK, OneThreadInvariant, [Next]_vars
               PROVE  OneThreadInvariant'
    OBVIOUS
  <2>0. \A t \in Threads : ~OthersInsert(t) /\ Threads = {t}
    BY OneThread DEF OneThread, OthersInsert
  <2>1. ASSUME NEW t \in Threads, BeginStatus(t) PROVE OneThreadInvariant'
    BY <2>0, <2>1 DEF BeginStatus, TypeOK
  <2>2. ASSUME NEW t \in Threads, NEW k \in Keys, ReadEntry(t, k)
        PROVE  OneThreadInvariant'
    <3>1. report' = [report EXCEPT ![t][k] = request_map[k]]
      BY <2>0, <2>2 DEF ReadEntry
    <3> QED
      BY <2>0, <2>2, <3>1 DEF ReadEntry, TypeOK
  <2>3. ASSUME NEW t \in Threads, NEW k \in Keys, BeginRecord(t, k)
        PROVE  OneThreadInvariant'
    BY <2>0, <2>3 DEF BeginRecord, TypeOK
  <2>4. ASSUME NEW t \in Threads, Find(t) PROVE OneThreadInvariant'
    BY <2>0, <2>4 DEF Find, TypeOK
  <2>5. ASSUME NEW t \in Threads, Load(t) PROVE OneThreadInvariant'
    BY <2>0, <2>5 DEF Load, TypeOK
  <2>6. ASSUME NEW t \in Threads, Store(t) PROVE OneThreadInvariant'
    <3>1. /\ request_map' = [request_map EXCEPT ![key[t]] = loaded[t] + 1]
          /\ loaded[t] = request_map[key[t]]
      BY <2>6 DEF Store, TypeOK
    <3> QED
      BY <2>0, <2>6, <3>1 DEF Store, Recorded, TypeOK
  <2>7. ASSUME NEW t \in Threads, Insert(t) PROVE OneThreadInvariant'
    <3>1. /\ request_map' = [k \in Keys |-> IF k = key[t] THEN 1 ELSE request_map[k]]
          /\ request_map[key[t]] = 0
      BY <2>0, <2>7 DEF Insert, TypeOK
    <3> QED
      BY <2>0, <2>7, <3>1 DEF Insert, Recorded, TypeOK
  <2>8. CASE UNCHANGED vars
    BY <2>8 DEF vars
  <2> QED
    BY <2>1, <2>2, <2>3, <2>4, <2>5, <2>6, <2>7, <2>8
    DEF Next, ThreadStep, Finished
<1> QED
  BY <1>1, <1>2, RequestMapTypeCorrect, PTL DEF Spec

\* With one thread each counter is the number of requests served, at every
\* moment (session.cc 98-108).
THEOREM OneThreadCountsExactly ==
  ASSUME OneThread PROVE Spec => []ExactCounts
<1>1. OneThreadInvariant => ExactCounts
  BY DEF OneThreadInvariant
<1> QED
  BY <1>1, OneThread, OneThreadInvariantHolds, PTL

\* With one thread the status page is a snapshot (status_handler.cc 46-53).
THEOREM OneThreadReportsExactly ==
  ASSUME OneThread PROVE Spec => []ExactReport
<1>1. OneThreadInvariant => ExactReport
  BY DEF OneThreadInvariant
<1> QED
  BY <1>1, OneThread, OneThreadInvariantHolds, PTL
=============================================================================
