----------------------------- MODULE MemeProofs -----------------------------
(***************************************************************************)
(* Theorems about the database, for every number of threads, rows and      *)
(* connections: its types, its connections, its locks, and that its calls  *)
(* are atomic.  And about the handlers on top of it: they use the database *)
(* as it is meant to be used, and what a client is told of its write is    *)
(* what was committed.                                                     *)
(***************************************************************************)
EXTENDS MemeHandler, FiniteSetTheorems, TLAPS

\* The rows are among finitely many ids, so one has the largest: the row with
\* the fewest above it.
LEMMA MaxOfRows ==
  ASSUME Rows # {}
  PROVE  Max(Rows) \in Rows /\ \A i \in Rows : Max(Rows) >= i
<1> DEFINE Above(i) == {j \in Rows : j > i}
           Aboves == {Above(i) : i \in Rows}
<1>1. Rows \subseteq Ids /\ Ids \subseteq Int
  BY DatabaseAssumption DEF Rows, Ids
<1>2. IsFiniteSet(Ids)
  BY DatabaseAssumption, FS_Interval DEF Ids
<1>3. IsWellFoundedOn(StrictSubsetOrdering(Ids), SUBSET Ids)
  BY <1>2, FS_StrictSubsetOrderingWellFounded, FS_FiniteSubsetsOfFinite
<1>4. Aboves \subseteq SUBSET Ids /\ Aboves # {}
  BY <1>1
<1>5. PICK A \in Aboves : \A B \in Aboves : ~(<<B, A>> \in StrictSubsetOrdering(Ids))
  <2> HIDE DEF Aboves
  <2> QED BY <1>3, <1>4, WFMin
<1>6. PICK m \in Rows : A = Above(m)
  BY <1>5
<1>7. \A i \in Rows : m >= i
  <2> SUFFICES ASSUME NEW i \in Rows, i > m PROVE FALSE
    BY <1>1
  <2> \A j \in Rows : j \in Int
    BY <1>1
  <2>1. Above(i) \subseteq Above(m) /\ i \in Above(m) /\ i \notin Above(i)
    <3>1. \A j \in Rows : j > i => j > m
      OBVIOUS
    <3>2. ~(i > i)
      OBVIOUS
    <3> QED BY <3>1, <3>2
  <2>2. <<Above(i), Above(m)>> \in StrictSubsetOrdering(Ids)
    BY <1>1, <2>1 DEF StrictSubsetOrdering
  <2> QED BY <1>5, <1>6, <2>2
<1> QED
  BY <1>7 DEF Max

\* AddMeme's id is never taken for its -1, and no row has it.
LEMMA NewRowidIsNew == NewRowid \in Nat \ {0} /\ NewRowid \notin Rows
<1>1. CASE Rows = {}
  BY <1>1 DEF NewRowid
<1>2. CASE Rows # {}
  <2>1. Max(Rows) \in Ids /\ \A i \in Rows : Max(Rows) >= i
    BY <1>2, MaxOfRows DEF Rows
  <2>2. Max(Rows) \in Nat /\ \A i \in Rows : i \in Int
    BY <2>1, DatabaseAssumption DEF Ids, Rows
  <2>3. Max(Rows) + 1 \notin Rows
    BY <2>1, <2>2
  <2> QED BY <1>2, <2>2, <2>3 DEF NewRowid
<1> QED BY <1>1, <1>2

-----------------------------------------------------------------------------
Typed ==
  /\ table \in [Ids -> Contents \cup {NoRow}]
  /\ at \in [Threads -> Phases]
  /\ call \in [Threads -> Calls \cup {NoCall}]
  /\ result \in [Threads -> Results \cup {NoResult}]
  /\ \A t \in Threads :
       /\ call[t] = NoCall <=> at[t] = "idle"
       /\ result[t] = NoResult <=> at[t] # "done"
       /\ at[t] = "reading" => call[t].op \in Reads
       /\ at[t] \in {"reserved", "exclusive"} => call[t].op \in Writes

\* One writer at a time, and no reader during a commit.
Locks ==
  \A t, u \in Threads :
    /\ at[t] = "exclusive" => at[u] # "reading"
    /\ at[t] \in {"reserved", "exclusive"} /\ at[u] \in {"reserved", "exclusive"} => t = u

\* A writer has room for its row.
HasRoom == \A t \in Threads : at[t] \in {"reserved", "exclusive"} => ~IsFull(call[t])

Covered == connections \in 0..MaxConnections /\ ConnectionsCoverCalls

DbInv == Typed /\ Locks /\ HasRoom /\ Covered

-----------------------------------------------------------------------------
\* A call is a read or a write.
LEMMA OpOfCall == \A c \in Calls : c.op \in Reads \cup Writes
BY DEF Calls, Reads, Writes

\* What a call does but for table and connections: it moves its thread on, and
\* at the end has a result.
Moves(t) ==
  /\ at[t] \notin {"idle", "done"} /\ call' = call
  /\ \/ \E p \in Phases \ {"idle", "done"} : Goes(t, p) /\ result' = result
     \/ \E v \in Results : Goes(t, "done") /\ result' = [result EXCEPT ![t] = v]

\* The results of the error paths are results.
LEMMA FailsMoves ==
  ASSUME Typed, NEW t \in Threads, at[t] \notin {"idle", "done"}, Fails(t)
  PROVE  Moves(t) /\ Goes(t, "done") /\ table' = table
<1>1. call[t] \in Calls
  BY DEF Typed
<1>2. call[t].op \in Reads \cup Writes
  BY <1>1, OpOfCall
<1>3. Failure \in Results /\ Found({}) \in Results
  BY DatabaseAssumption DEF Failure, Number, Found, Results
<1>4. \A meme \in Unfilled : Found({meme}) \in Results
  BY DatabaseAssumption DEF Found, Results, Memes
<1>5. CASE call[t].op \in Writes
  BY <1>3, <1>5 DEF Fails, Yields, Moves, Reads, Writes
<1>6. CASE call[t].op \in {"all", "find"}
  BY <1>3, <1>6 DEF Fails, Yields, Moves, Reads, Writes
<1>7. CASE call[t].op = "get"
  BY <1>4, <1>7 DEF Fails, Yields, Moves, Reads, Writes
<1> QED
  BY <1>2, <1>5, <1>6, <1>7 DEF Reads, Writes

\* What a read finds is a result.
LEMMA EndReadMoves ==
  ASSUME Typed, NEW t \in Threads, EndRead(t)
  PROVE  Moves(t) /\ Goes(t, "done") /\ table' = table
<1>1. at[t] = "reading" /\ table' = table
  BY DEF EndRead
<1>2. \A i \in Rows : [id |-> i, content |-> table[i]] \in Memes
  BY DEF Typed, Rows, Memes
<1>3. CASE call[t].op = "get"
  <2>1. PICK meme \in IF call[t].id \in Rows
                      THEN {[id |-> call[t].id, content |-> table[call[t].id]]}
                      ELSE Unfilled : Yields(t, Found({meme}))
    BY <1>3 DEF EndRead
  <2>2. meme \in Memes
    BY <1>2, <2>1 DEF Memes
  <2>3. Found({meme}) \in Results
    BY <2>2, DatabaseAssumption DEF Found, Results
  <2> QED BY <1>1, <2>1, <2>3 DEF Yields, Moves
<1>4. CASE call[t].op # "get"
  <2>1. Yields(t, Found(Matching(call[t])))
    BY <1>4 DEF EndRead
  <2>2. Matching(call[t]) \subseteq Memes
    BY <1>2 DEF Matching
  <2>3. Found(Matching(call[t])) \in Results
    BY <2>2, DatabaseAssumption DEF Found, Results
  <2> QED BY <1>1, <2>1, <2>3 DEF Yields, Moves
<1> QED BY <1>3, <1>4

\* A commit leaves a table, and its result is one.
LEMMA CommitMoves ==
  ASSUME Typed, HasRoom, NEW t \in Threads, Commit(t)
  PROVE  /\ Moves(t) /\ Goes(t, "done")
         /\ table' \in [Ids -> Contents \cup {NoRow}]
<1>1. /\ at[t] = "exclusive" /\ table' = Effect(call[t]).table
      /\ Yields(t, Effect(call[t]).result)
  BY DEF Commit
<1>2. call[t] \in Calls /\ call[t].op \in Writes
  BY <1>1 DEF Typed
<1>3. CASE call[t].op = "add"
  <2>1. NewRowid \in Ids
    <3>1. ~(NewRowid > MaxId)
      BY <1>1, <1>3 DEF HasRoom, IsFull
    <3> QED BY <3>1, NewRowidIsNew, DatabaseAssumption DEF Ids
  <2>2. call[t].content \in Contents
    BY <1>2, <1>3 DEF Calls
  <2>3. Effect(call[t]).table = [table EXCEPT ![NewRowid] = call[t].content]
    BY <1>3 DEF Effect
  <2>4. Effect(call[t]).result = Number(NewRowid)
    BY <1>3 DEF Effect
  <2>5. Number(NewRowid) \in Results
    BY <2>1, DatabaseAssumption DEF Number, Results, Ids
  <2> QED BY <1>1, <2>1, <2>2, <2>3, <2>4, <2>5 DEF Typed, Yields, Moves
<1>4. CASE call[t].op = "delete"
  <2>1. Effect(call[t]).table = [i \in Ids |-> IF i = call[t].id THEN NoRow ELSE table[i]]
    BY <1>4 DEF Effect
  <2>2. Effect(call[t]).result = Number(0)
    BY <1>4 DEF Effect
  <2>3. Number(0) \in Results
    BY DatabaseAssumption DEF Number, Results
  <2> QED BY <1>1, <2>1, <2>2, <2>3 DEF Typed, Yields, Moves
<1>5. CASE call[t].op = "update"
  <2>1. Effect(call[t]).table =
          [i \in Ids |-> IF i = call[t].id /\ i \in Rows THEN call[t].content ELSE table[i]]
    BY <1>5 DEF Effect
  <2>2. Effect(call[t]).result = Number(call[t].id)
    BY <1>5 DEF Effect
  <2>3. call[t].content \in Contents /\ call[t].id \in ParamIds
    BY <1>2, <1>5 DEF Calls
  <2>4. Number(call[t].id) \in Results
    BY <2>3, DatabaseAssumption DEF Number, Results, ParamIds
  <2> QED BY <1>1, <2>1, <2>2, <2>3, <2>4 DEF Typed, Yields, Moves
<1> QED BY <1>2, <1>3, <1>4, <1>5 DEF Writes

\* The steps of a call, by what they do to the locks.
LEMMA QueryMoves ==
  ASSUME Typed, HasRoom, NEW t \in Threads, DbStep(t)
  PROVE  Moves(t) /\ table' \in [Ids -> Contents \cup {NoRow}]
<1>1. CASE Open(t) \/ Prepare(t)
  BY <1>1 DEF Typed, Open, Prepare, Moves, Phases
<1>2. CASE BeginRead(t) \/ BeginWrite(t) \/ BeginCommit(t)
  BY <1>2 DEF Typed, BeginRead, BeginWrite, BeginCommit, Moves, Phases
<1>3. CASE OpenFails(t) \/ PrepareBusy(t) \/ ReadBusy(t) \/ WriteBusy(t) \/ CommitBusy(t)
  <2>1. at[t] \notin {"idle", "done"} /\ Fails(t)
    BY <1>3 DEF OpenFails, PrepareBusy, ReadBusy, WriteBusy, CommitBusy
  <2> QED BY <2>1, FailsMoves DEF Typed
<1>4. CASE EndRead(t)
  BY <1>4, EndReadMoves DEF Typed
<1>5. CASE Commit(t)
  BY <1>5, CommitMoves
<1> QED
  BY <1>1, <1>2, <1>3, <1>4, <1>5 DEF DbStep

\* How far a thread goes in a step, and under which locks.
Reaches(t, p) ==
  /\ Goes(t, p)
  /\ p \in Phases
  /\ p = "reading" => Committing = {} /\ call'[t].op \in Reads /\ table' = table
  /\ p = "reserved" => Reserved = {} /\ call'[t].op \in Writes /\ ~IsFull(call'[t]) /\ table' = table
  /\ p = "exclusive" => at[t] = "reserved" /\ Reading = {} /\ call' = call /\ table' = table
  /\ at[t] = "exclusive" \/ table' = table

\* A step of a call reaches a phase under its locks.
LEMMA QueryReaches ==
  ASSUME Typed, HasRoom, NEW t \in Threads, DbStep(t)
  PROVE  \E p \in Phases \ {"idle"} : Reaches(t, p)
<1>1. CASE Open(t)
  BY <1>1 DEF Open, Reaches, Phases
<1>2. CASE Prepare(t)
  BY <1>2 DEF Prepare, Reaches, Phases
<1>3. CASE BeginRead(t)
  BY <1>3 DEF BeginRead, Reaches, Phases
<1>4. CASE BeginWrite(t)
  BY <1>4 DEF BeginWrite, Reaches, Phases, IsFull
<1>5. CASE BeginCommit(t)
  BY <1>5 DEF BeginCommit, Reaches, Phases
<1>6. CASE OpenFails(t) \/ PrepareBusy(t) \/ ReadBusy(t) \/ WriteBusy(t) \/ CommitBusy(t)
  <2>1. at[t] \notin {"idle", "done"} /\ Fails(t)
    BY <1>6 DEF OpenFails, PrepareBusy, ReadBusy, WriteBusy, CommitBusy
  <2>2. Goes(t, "done") /\ table' = table
    BY <2>1, FailsMoves
  <2> QED BY <2>2 DEF Reaches, Phases
<1>7. CASE EndRead(t)
  <2>1. Goes(t, "done") /\ table' = table
    BY <1>7, EndReadMoves
  <2> QED BY <2>1 DEF Reaches, Phases
<1>8. CASE Commit(t)
  BY <1>8 DEF Commit, Yields, Reaches, Phases
<1> QED
  BY <1>1, <1>2, <1>3, <1>4, <1>5, <1>6, <1>7, <1>8 DEF DbStep

-----------------------------------------------------------------------------
\* The locks through a step of a thread.
LEMMA LocksKept ==
  ASSUME Typed, Locks, HasRoom, NEW t \in Threads, NEW p, Reaches(t, p),
         \A u \in Threads \ {t} : call'[u] = call[u]
  PROVE  Locks' /\ HasRoom'
<1>1. at'[t] = p /\ \A u \in Threads \ {t} : at'[u] = at[u]
  BY DEF Typed, Goes, Reaches
<1>2. Locks'
  <2>1. CASE p \notin {"reading", "reserved", "exclusive"}
    BY <1>1, <2>1 DEF Locks
  <2>2. CASE p = "reading"
    BY <1>1, <2>2 DEF Locks, Reaches, Committing
  <2>3. CASE p = "reserved"
    BY <1>1, <2>3 DEF Locks, Reaches, Reserved
  <2>4. CASE p = "exclusive"
    BY <1>1, <2>4 DEF Locks, Reaches, Reading
  <2> QED BY <2>1, <2>2, <2>3, <2>4
<1>3. HasRoom'
  <2>1. CASE table' = table
    <3>1. \A c : IsFull(c)' = IsFull(c)
      BY <2>1 DEF IsFull, NewRowid, Rows
    <3>2. \A u \in Threads \ {t} : at'[u] \in {"reserved", "exclusive"} => ~IsFull(call'[u])
      BY <1>1 DEF HasRoom
    <3>3. p \in {"reserved", "exclusive"} => ~IsFull(call'[t])
      BY DEF HasRoom, Reaches
    <3>4. \A u \in Threads : at'[u] \in {"reserved", "exclusive"} => ~IsFull(call'[u])
      BY <1>1, <3>2, <3>3
    <3>5. NewRowid' = NewRowid
      BY <2>1 DEF NewRowid, Rows
    <3> QED BY <3>4, <3>5 DEF HasRoom, IsFull
  <2>2. CASE table' # table
    <3>1. at[t] = "exclusive" /\ p \notin {"reserved", "exclusive"}
      BY <2>2 DEF Reaches
    <3>2. \A u \in Threads : at'[u] \notin {"reserved", "exclusive"}
      BY <1>1, <3>1 DEF Locks
    <3> QED BY <3>2 DEF HasRoom
  <2> QED BY <2>1, <2>2
<1> QED BY <1>2, <1>3

\* The types through a step of a call.
LEMMA QueryTyped ==
  ASSUME Typed, HasRoom, NEW t \in Threads, DbStep(t)
  PROVE  Typed'
<1>1. Moves(t) /\ table' \in [Ids -> Contents \cup {NoRow}]
  BY QueryMoves
<1>2. PICK q \in Phases \ {"idle"} : Reaches(t, q)
  BY QueryReaches
<1>3. at' = [at EXCEPT ![t] = q] /\ call' = call /\ at[t] # "idle"
  BY <1>1, <1>2 DEF Reaches, Goes, Moves
<1>4. at'[t] = q /\ \A u \in Threads \ {t} : at'[u] = at[u]
  BY <1>3 DEF Typed
<1>5. q # "done" => result' = result /\ result[t] = NoResult
  BY <1>1, <1>4 DEF Moves, Goes, Typed
<1>6. q = "done" => \E v \in Results : result' = [result EXCEPT ![t] = v]
  BY <1>1, <1>4 DEF Moves, Goes, Typed
<1>7. at' \in [Threads -> Phases]
  BY <1>3 DEF Typed
<1>8. result' \in [Threads -> Results \cup {NoResult}]
  BY <1>5, <1>6 DEF Typed
<1>9. result'[t] = NoResult <=> at'[t] # "done"
  BY <1>4, <1>5, <1>6, DatabaseAssumption DEF Typed
<1>10. \A u \in Threads \ {t} : result'[u] = result[u]
  BY <1>5, <1>6 DEF Typed
<1>11. q = "exclusive" => call[t].op \in Writes
  BY <1>2 DEF Reaches, Typed
<1> QED
  BY <1>1, <1>2, <1>3, <1>4, <1>7, <1>8, <1>9, <1>10, <1>11 DEF Typed, Reaches

\* A call takes a thread out of its last result.
LEMMA CallTyped ==
  ASSUME Typed, NEW t \in Threads, NEW c \in Calls, Call(t, c)
  PROVE  Typed' /\ Reaches(t, "called") /\ \A u \in Threads \ {t} : call'[u] = call[u]
<1>1. at' = [at EXCEPT ![t] = "called"] /\ table' = table
  BY DEF Call, Goes
<1>2. call' = [call EXCEPT ![t] = c] /\ result' = [result EXCEPT ![t] = NoResult]
  BY DEF Call
<1>3. c # NoCall
  BY DatabaseAssumption
<1>4. Typed'
  BY <1>1, <1>2, <1>3 DEF Typed, Phases
<1>5. Reaches(t, "called")
  BY <1>1 DEF Reaches, Goes, Phases
<1> QED BY <1>2, <1>4, <1>5 DEF Typed

\* A return takes a thread out of its call.
LEMMA ReturnTyped ==
  ASSUME Typed, NEW t \in Threads, Return(t)
  PROVE  Typed' /\ Reaches(t, "idle") /\ \A u \in Threads \ {t} : call'[u] = call[u]
<1>1. at' = [at EXCEPT ![t] = "idle"] /\ table' = table
  BY DEF Return, Goes
<1>2. call' = [call EXCEPT ![t] = NoCall] /\ result' = [result EXCEPT ![t] = NoResult]
  BY DEF Return
<1>3. Typed'
  BY <1>1, <1>2 DEF Typed, Phases
<1>4. Reaches(t, "idle")
  BY <1>1 DEF Reaches, Goes, Phases
<1> QED BY <1>2, <1>3, <1>4 DEF Typed

-----------------------------------------------------------------------------
\* A thread that is past sqlite3_open, and one that is not.
LEMMA InCallMoves ==
  ASSUME Typed, NEW t \in Threads, NEW p \in Phases, Goes(t, p)
  PROVE  InCall' = IF p \in {"idle", "called", "done"} THEN InCall \ {t} ELSE InCall \cup {t}
<1>1. at'[t] = p /\ \A u \in Threads \ {t} : at'[u] = at[u]
  BY DEF Typed, Goes
<1> QED BY <1>1 DEF InCall

\* The connections cover the calls that remain when one of them ends, whether
\* its connection is closed or leaks.
LEMMA CoveredAtEnd ==
  ASSUME Typed, Covered, NEW t \in Threads, NEW p \in {"idle", "called", "done"}, Goes(t, p),
         \/ Leak
         \/ Close /\ t \in InCall
  PROVE  Covered'
<1>1. InCall' = InCall \ {t}
  BY InCallMoves DEF Phases
<1>2. IsFiniteSet(InCall)
  BY DatabaseAssumption, FS_Subset DEF InCall
<1>3. Cardinality(InCall) \in Nat /\ Cardinality(InCall') \in Nat
  BY <1>1, <1>2, FS_CardinalityType, FS_RemoveElement
<1>4. Cardinality(InCall') = IF t \in InCall THEN Cardinality(InCall) - 1 ELSE Cardinality(InCall)
  BY <1>1, <1>2, FS_RemoveElement
<1>5. Cardinality(InCall) <= connections /\ connections \in 0..MaxConnections
  BY DEF Covered, ConnectionsCoverCalls
<1>6. CASE connections' = connections
  <2>1. Cardinality(InCall') <= connections'
    BY <1>3, <1>4, <1>5, <1>6, DatabaseAssumption
  <2> QED BY <1>5, <1>6, <2>1 DEF Covered, ConnectionsCoverCalls
<1>7. CASE connections' = connections - 1 /\ t \in InCall
  <2>1. Cardinality(InCall') <= connections' /\ connections' \in 0..MaxConnections
    BY <1>3, <1>4, <1>5, <1>7, DatabaseAssumption
  <2> QED BY <2>1 DEF Covered, ConnectionsCoverCalls
<1> QED
  BY <1>6, <1>7 DEF Leak, Close

\* The connections cover the calls through a step of one of them.
LEMMA QueryCovered ==
  ASSUME Typed, HasRoom, Covered, NEW t \in Threads, DbStep(t)
  PROVE  Covered'
<1>1. CASE Open(t)
  <2>1. InCall' = InCall \cup {t} /\ connections' = connections + 1 /\ connections < MaxConnections
    BY <1>1, InCallMoves DEF Open, Phases
  <2>2. IsFiniteSet(InCall)
    BY DatabaseAssumption, FS_Subset DEF InCall
  <2>3. Cardinality(InCall) \in Nat /\ Cardinality(InCall') \in Nat
    BY <2>1, <2>2, FS_CardinalityType, FS_AddElement
  <2>4. Cardinality(InCall') \in {Cardinality(InCall), Cardinality(InCall) + 1}
    BY <2>1, <2>2, FS_AddElement
  <2>5. Cardinality(InCall) <= connections /\ connections \in 0..MaxConnections
    BY DEF Covered, ConnectionsCoverCalls
  <2>6. Cardinality(InCall') <= connections' /\ connections' \in 0..MaxConnections
    BY <2>1, <2>3, <2>4, <2>5, DatabaseAssumption
  <2> QED BY <2>6 DEF Covered, ConnectionsCoverCalls
<1>2. CASE Prepare(t) \/ BeginRead(t) \/ BeginWrite(t) \/ BeginCommit(t)
  <2>1. t \in InCall
    BY <1>2 DEF Prepare, BeginRead, BeginWrite, BeginCommit, InCall, Phases
  <2>2. \E p \in Phases \ {"idle", "called", "done"} : Goes(t, p)
    BY <1>2 DEF Prepare, BeginRead, BeginWrite, BeginCommit, Phases
  <2>3. InCall' = InCall
    BY <2>1, <2>2, InCallMoves
  <2>4. connections' = connections
    BY <1>2 DEF Prepare, BeginRead, BeginWrite, BeginCommit
  <2> QED BY <2>3, <2>4 DEF Covered, ConnectionsCoverCalls
<1>3. CASE OpenFails(t)
  <2>1. Goes(t, "done") /\ Leak
    BY <1>3, FailsMoves DEF OpenFails, Leak
  <2> QED BY <2>1, CoveredAtEnd
<1>4. CASE PrepareBusy(t) \/ ReadBusy(t) \/ WriteBusy(t) \/ CommitBusy(t)
  <2>1. t \in InCall /\ (Leak \/ Close)
    BY <1>4 DEF PrepareBusy, ReadBusy, WriteBusy, CommitBusy, InCall, Phases
  <2>2. at[t] \notin {"idle", "done"} /\ Fails(t)
    BY <1>4 DEF PrepareBusy, ReadBusy, WriteBusy, CommitBusy
  <2>3. Goes(t, "done")
    BY <2>2, FailsMoves
  <2> QED BY <2>1, <2>3, CoveredAtEnd
<1>5. CASE EndRead(t)
  <2>1. t \in InCall /\ Close
    BY <1>5 DEF EndRead, InCall, Phases
  <2>2. Goes(t, "done")
    BY <1>5, EndReadMoves
  <2> QED BY <2>1, <2>2, CoveredAtEnd
<1>6. CASE Commit(t)
  <2>1. t \in InCall /\ (Leak \/ Close) /\ Goes(t, "done")
    BY <1>6 DEF Commit, Yields, InCall, Phases
  <2> QED BY <2>1, CoveredAtEnd
<1> QED
  BY <1>1, <1>2, <1>3, <1>4, <1>5, <1>6 DEF DbStep

-----------------------------------------------------------------------------
\* The invariant at the start.
LEMMA InitInv == Init => DbInv
<1> SUFFICES ASSUME Init PROVE DbInv
  OBVIOUS
<1>1. Typed
  BY DEF Init, Typed, Phases
<1>2. Locks /\ HasRoom
  BY DEF Init, Locks, HasRoom
<1>3. InCall = {}
  BY DEF Init, InCall
<1>4. Covered
  BY <1>3, FS_EmptySet, DatabaseAssumption DEF Init, Covered, ConnectionsCoverCalls
<1> QED BY <1>1, <1>2, <1>4 DEF DbInv

\* Every step keeps the invariant.
LEMMA NextKeepsInv == DbInv /\ [Next]_dbVars => DbInv'
<1> SUFFICES ASSUME DbInv, [Next]_dbVars PROVE DbInv'
  OBVIOUS
<1>1. Typed /\ Locks /\ HasRoom /\ Covered
  BY DEF DbInv
<1>2. ASSUME NEW t \in Threads, NEW c \in Calls, Call(t, c) PROVE DbInv'
  <2>1. Typed' /\ Locks' /\ HasRoom'
    BY <1>1, <1>2, CallTyped, LocksKept
  <2>2. Goes(t, "called") /\ Leak
    BY <1>2 DEF Call, Leak
  <2> QED BY <1>1, <2>1, <2>2, CoveredAtEnd DEF DbInv
<1>3. ASSUME NEW t \in Threads, DbStep(t) PROVE DbInv'
  <2>1. PICK p : Reaches(t, p)
    BY <1>1, <1>3, QueryReaches
  <2>2. call' = call
    BY <1>1, <1>3, QueryMoves DEF Moves
  <2>3. Locks' /\ HasRoom'
    BY <1>1, <2>1, <2>2, LocksKept
  <2> QED BY <1>1, <1>3, <2>3, QueryTyped, QueryCovered DEF DbInv
<1>4. ASSUME NEW t \in Threads, Return(t) PROVE DbInv'
  <2>1. Typed' /\ Locks' /\ HasRoom'
    BY <1>1, <1>4, ReturnTyped, LocksKept
  <2>2. Goes(t, "idle") /\ Leak
    BY <1>4 DEF Return, Leak
  <2> QED BY <1>1, <2>1, <2>2, CoveredAtEnd DEF DbInv
<1>5. CASE Restart
  <2>1. Typed'
    BY <1>1, <1>5 DEF Restart, Typed, Phases
  <2>2. Locks' /\ HasRoom'
    BY <1>5 DEF Restart, Locks, HasRoom
  <2>3. InCall' = {}
    BY <1>5 DEF Restart, InCall
  <2>4. Covered'
    BY <1>5, <2>3, FS_EmptySet, DatabaseAssumption DEF Restart, Covered, ConnectionsCoverCalls
  <2> QED BY <2>1, <2>2, <2>4 DEF DbInv
<1>6. CASE UNCHANGED dbVars
  BY <1>1, <1>6 DEF dbVars, DbInv, Typed, Locks, HasRoom, IsFull, NewRowid, Rows,
                    Covered, ConnectionsCoverCalls, InCall
<1> QED
  BY <1>2, <1>3, <1>4, <1>5, <1>6 DEF Next

\* The database's invariant.
THEOREM DatabaseInvariant == Spec => []DbInv
BY InitInv, NextKeepsInv, PTL DEF Spec

\* The calls, their results and the table have the types they should.
THEOREM DatabaseTypeCorrect == Spec => []TypeOK
<1>1. DbInv => TypeOK
  BY DEF DbInv, Typed, Covered, TypeOK
<1> QED BY <1>1, DatabaseInvariant, PTL

\* Whatever way the calls end, none closes a connection that another one uses
\* (database.cc 127-395).
THEOREM ConnectionsSuffice == Spec => []ConnectionsCoverCalls
<1>1. DbInv => ConnectionsCoverCalls
  BY DEF DbInv, Covered
<1> QED BY <1>1, DatabaseInvariant, PTL

\* No commit, of any thread, changes the table under a reader's rows or under
\* the writer that has computed its rowid (database.cc 127-152, 163-232).
THEOREM TableStableUnderLock == Spec => StableUnderLock
<1> DEFINE A == \A t \in Threads :
                  at[t] \in {"reading", "reserved"} /\ at'[t] = at[t] => table' = table
<1>1. DbInv /\ [Next]_dbVars => [A]_dbVars
  <2> SUFFICES ASSUME DbInv, [Next]_dbVars PROVE A \/ UNCHANGED dbVars
    OBVIOUS
  <2>1. \A t \in Threads : DbStep(t) => A
    <3> SUFFICES ASSUME NEW t \in Threads, DbStep(t), NEW u \in Threads,
                        at[u] \in {"reading", "reserved"}, at'[u] = at[u], table' # table
                 PROVE  FALSE
      OBVIOUS
    <3>1. PICK p \in Phases \ {"idle"} : Reaches(t, p)
      BY QueryReaches DEF DbInv
    <3>2. at[t] = "exclusive"
      BY <3>1 DEF Reaches
    <3>3. t # u
      BY <3>2
    <3> QED BY <3>2, <3>3 DEF DbInv, Locks
  <2>2. \A t \in Threads : Return(t) => table' = table
    BY DEF Return
  <2>3. \A t \in Threads, c \in Calls : Call(t, c) => table' = table
    BY DEF Call
  <2>4. Restart => table' = table
    BY DEF Restart
  <2> QED BY <2>1, <2>2, <2>3, <2>4 DEF Next
<1> QED BY <1>1, DatabaseInvariant, PTL DEF Spec, StableUnderLock

-----------------------------------------------------------------------------
\* A call that is not over is pending in MemeTable.
LEMMA IsPending ==
  ASSUME Typed, NEW t \in Threads, at[t] \notin {"idle", "done"}
  PROVE  Atomic!Pending(t, call[t].op)
BY DEF Typed, Atomic!Pending

\* An error path has no effect on the atomic table.
LEMMA FailsIsFail ==
  ASSUME Typed, NEW t \in Threads, at[t] \notin {"idle", "done"}, Fails(t)
  PROVE  Atomic!Fail(t)
<1>1. Atomic!Pending(t, call[t].op)
  BY IsPending
<1>2. call[t].op \in Reads \cup Writes /\ table' = table
  BY OpOfCall DEF Typed, Fails
<1>3. CASE call[t].op \in Writes
  <2>1. Atomic!Yields(t, Atomic!Failure)
    BY <1>3 DEF Fails, Yields, Failure, Number, Reads, Writes,
                Atomic!Yields, Atomic!Failure, Atomic!Number
  <2> QED BY <1>1, <1>2, <1>3, <2>1 DEF Atomic!Fail, Writes
<1>4. CASE call[t].op \in {"all", "find"}
  <2>1. Atomic!Yields(t, Atomic!Found({}))
    BY <1>4 DEF Fails, Yields, Found, Reads, Writes, Atomic!Yields, Atomic!Found
  <2> QED BY <1>1, <1>2, <1>4, <2>1 DEF Atomic!Fail
<1>5. CASE call[t].op = "get"
  <2>1. \E meme \in Unfilled : Yields(t, Found({meme}))
    BY <1>5 DEF Fails, Writes
  <2>2. \E meme \in Atomic!Unfilled : Atomic!Yields(t, Atomic!Found({meme}))
    BY <2>1 DEF Unfilled, ParamIds, Yields, Found,
                Atomic!Unfilled, Atomic!ParamIds, Atomic!Yields, Atomic!Found
  <2> QED BY <1>1, <1>2, <1>5, <2>2 DEF Atomic!Fail
<1> QED
  BY <1>2, <1>3, <1>4, <1>5 DEF Reads, Writes

\* A read takes effect where its rows end.
LEMMA EndReadIsRead ==
  ASSUME Typed, NEW t \in Threads, EndRead(t)
  PROVE  Atomic!Get(t) \/ Atomic!All(t) \/ Atomic!Search(t)
<1>1. Atomic!Pending(t, call[t].op) /\ table' = table
  BY IsPending DEF EndRead
<1>2. call[t].op \in Reads
  BY DEF EndRead, Typed
<1>3. Rows = Atomic!Rows(table)
  BY DEF Rows, Ids, Atomic!Rows, Atomic!Ids
<1>4. CASE call[t].op = "get"
  <2>1. PICK meme \in IF call[t].id \in Rows
                      THEN {[id |-> call[t].id, content |-> table[call[t].id]]}
                      ELSE Unfilled : Yields(t, Found({meme}))
    BY <1>4 DEF EndRead
  <2>2. Atomic!Yields(t, Atomic!Found({meme}))
    BY <2>1 DEF Yields, Found, Atomic!Yields, Atomic!Found
  <2>3. Unfilled = Atomic!Unfilled
    BY DEF Unfilled, ParamIds, Atomic!Unfilled, Atomic!ParamIds
  <2> QED BY <1>1, <1>3, <1>4, <2>1, <2>2, <2>3 DEF Atomic!Get
<1>5. CASE call[t].op = "all"
  <2>1. Yields(t, Found(Matching(call[t])))
    BY <1>5 DEF EndRead
  <2>2. Matching(call[t]) = {[id |-> i, content |-> table[i]] : i \in Atomic!Rows(table)}
    BY <1>3, <1>5 DEF Matching
  <2>3. Atomic!Yields(t, Atomic!Found({[id |-> i, content |-> table[i]] : i \in Atomic!Rows(table)}))
    BY <2>1, <2>2 DEF Yields, Found, Atomic!Yields, Atomic!Found
  <2> QED BY <1>1, <1>5, <2>3 DEF Atomic!All
<1>6. CASE call[t].op = "find"
  <2> DEFINE found == {i \in Atomic!Rows(table) : table[i] \in call[t].matching}
  <2>1. Yields(t, Found(Matching(call[t])))
    BY <1>6 DEF EndRead
  <2>2. Matching(call[t]) = {[id |-> i, content |-> table[i]] : i \in found}
    BY <1>3, <1>6 DEF Matching
  <2>3. Atomic!Yields(t, Atomic!Found({[id |-> i, content |-> table[i]] : i \in found}))
    BY <2>1, <2>2 DEF Yields, Found, Atomic!Yields, Atomic!Found
  <2> QED BY <1>1, <1>6, <2>3 DEF Atomic!Search
<1> QED BY <1>2, <1>4, <1>5, <1>6 DEF Reads

\* A write takes effect where it commits.
LEMMA CommitIsWrite ==
  ASSUME Typed, HasRoom, NEW t \in Threads, Commit(t)
  PROVE  Atomic!Add(t) \/ Atomic!Delete(t) \/ Atomic!Update(t)
<1>1. Atomic!Pending(t, call[t].op)
  BY IsPending DEF Commit
<1>2. /\ at[t] = "exclusive" /\ table' = Effect(call[t]).table
      /\ Yields(t, Effect(call[t]).result)
  BY DEF Commit
<1>3. call[t].op \in Writes
  BY <1>2 DEF Typed
<1>4. Rows = Atomic!Rows(table) /\ Ids = Atomic!Ids
  BY DEF Rows, Ids, Atomic!Rows, Atomic!Ids
<1>5. CASE call[t].op = "add"
  <2>1. NewRowid \in Ids \ Rows
    <3>1. ~(NewRowid > MaxId)
      BY <1>2, <1>5 DEF HasRoom, IsFull
    <3> QED BY <3>1, NewRowidIsNew, DatabaseAssumption DEF Ids
  <2>2. table' = [table EXCEPT ![NewRowid] = call[t].content]
    BY <1>2, <1>5 DEF Effect
  <2>3. Effect(call[t]).result = Number(NewRowid)
    BY <1>5 DEF Effect
  <2>4. Atomic!Yields(t, Atomic!Number(NewRowid))
    BY <1>2, <2>3 DEF Yields, Number, Atomic!Yields, Atomic!Number
  <2> QED BY <1>1, <1>4, <1>5, <2>1, <2>2, <2>4 DEF Atomic!Add
<1>6. CASE call[t].op = "delete"
  <2>1. table' = [i \in Ids |-> IF i = call[t].id THEN NoRow ELSE table[i]]
    BY <1>2, <1>6 DEF Effect
  <2>2. Effect(call[t]).result = Number(0)
    BY <1>6 DEF Effect
  <2>3. Atomic!Yields(t, Atomic!Number(0))
    BY <1>2, <2>2 DEF Yields, Number, Atomic!Yields, Atomic!Number
  <2> QED BY <1>1, <1>4, <1>6, <2>1, <2>3 DEF Atomic!Delete
<1>7. CASE call[t].op = "update"
  <2>1. table' = [i \in Ids |-> IF i = call[t].id /\ i \in Rows THEN call[t].content ELSE table[i]]
    BY <1>2, <1>7 DEF Effect
  <2>2. Effect(call[t]).result = Number(call[t].id)
    BY <1>7 DEF Effect
  <2>3. Atomic!Yields(t, Atomic!Number(call[t].id))
    BY <1>2, <2>2 DEF Yields, Number, Atomic!Yields, Atomic!Number
  <2>4. \A i \in Ids : i \in Rows <=> table[i] # NoRow
    BY DEF Rows
  <2>5. table' = [i \in Ids |-> IF i = call[t].id /\ table[i] # NoRow THEN call[t].content ELSE table[i]]
    BY <2>1, <2>4
  <2> QED BY <1>1, <1>4, <1>7, <2>3, <2>5 DEF Atomic!Update
<1> QED BY <1>3, <1>5, <1>6, <1>7 DEF Writes

\* The calls of the database are atomic: each takes effect at one instant
\* between its beginning and its end, or fails and has none (database.cc
\* 127-395).
THEOREM DatabaseIsAtomic == Spec => ImplementsMemeTable
<1>1. Init => Atomic!Init
  BY DEF Init, Ids, Atomic!Init, Atomic!Ids
<1>2. DbInv /\ [Next]_dbVars => [Atomic!Next]_(Atomic!vars)
  <2> SUFFICES ASSUME DbInv, [Next]_dbVars PROVE Atomic!Next \/ UNCHANGED Atomic!vars
    OBVIOUS
  <2>1. Typed /\ HasRoom
    BY DEF DbInv
  <2>2. ASSUME NEW t \in Threads, DbStep(t) PROVE Atomic!Next \/ UNCHANGED Atomic!vars
    <3>1. CASE Open(t) \/ Prepare(t) \/ BeginRead(t) \/ BeginWrite(t) \/ BeginCommit(t)
      BY <3>1 DEF Open, Prepare, BeginRead, BeginWrite, BeginCommit, Atomic!vars
    <3>2. CASE OpenFails(t) \/ PrepareBusy(t) \/ ReadBusy(t) \/ WriteBusy(t) \/ CommitBusy(t)
      <4>1. at[t] \notin {"idle", "done"} /\ Fails(t)
        BY <3>2 DEF OpenFails, PrepareBusy, ReadBusy, WriteBusy, CommitBusy
      <4> QED BY <2>1, <4>1, FailsIsFail DEF Atomic!Next
    <3>3. CASE EndRead(t)
      BY <2>1, <3>3, EndReadIsRead DEF Atomic!Next
    <3>4. CASE Commit(t)
      BY <2>1, <3>4, CommitIsWrite DEF Atomic!Next
    <3> QED BY <2>2, <3>1, <3>2, <3>3, <3>4 DEF DbStep
  <2>3. ASSUME NEW t \in Threads, NEW c \in Calls, Call(t, c) PROVE Atomic!Next
    <3>1. Atomic!Invoke(t, c)
      BY <2>1, <2>3 DEF Typed, Call, Atomic!Invoke
    <3>2. Calls = Atomic!Calls
      BY DEF Calls, ParamIds, Atomic!Calls, Atomic!ParamIds
    <3> QED BY <3>1, <3>2 DEF Atomic!Next
  <2>4. ASSUME NEW t \in Threads, Return(t) PROVE Atomic!Next
    <3>1. Atomic!Return(t)
      BY <2>1, <2>4 DEF Typed, Return, Atomic!Return
    <3> QED BY <3>1 DEF Atomic!Next
  <2>5. CASE Restart
    BY <2>5 DEF Restart, Atomic!Restart, Atomic!Next
  <2>6. CASE UNCHANGED dbVars
    BY <2>6 DEF dbVars, Atomic!vars
  <2> QED BY <2>2, <2>3, <2>4, <2>5, <2>6 DEF Next
<1> QED BY <1>1, <1>2, DatabaseInvariant, PTL DEF Spec, ImplementsMemeTable, Atomic!Spec

(***************************************************************************)
(* The handlers.                                                           *)
(***************************************************************************)
\* What GetMeme returns: the row, or a Meme with any id.
OneMeme(value) == \E meme : meme.id \in ParamIds /\ value = Found({meme})

Shape ==
  /\ at \in [Threads -> Phases]
  /\ DOMAIN call = Threads /\ DOMAIN result = Threads /\ DOMAIN reply = Threads
  /\ request \in [Threads -> Requests \cup {NoRequest}]
  /\ reading \in [Threads -> BOOLEAN] /\ wrote \in [Threads -> BOOLEAN]
  /\ \A t \in Threads :
       /\ at[t] # "idle" => call[t].op \in Reads \cup Writes
       /\ at[t] \in {"reserved", "exclusive"} => call[t].op \in Writes

\* Between requests a thread is in no call, and a reply ends the calls.
Between ==
  \A t \in Threads :
    /\ reply[t] # NoReply => at[t] = "idle" /\ request[t] # NoRequest
    /\ request[t] = NoRequest => at[t] = "idle" /\ ~reading[t] /\ ~wrote[t]

Creating(t) == request[t] # NoRequest /\ request[t].action = "create"
Editing(t) == request[t] # NoRequest /\ request[t].action = "edit"

\* What may be said of a write.
Truth(t, answer) ==
  /\ Creating(t) => (answer = NotFound <=> ~wrote[t])
  /\ Editing(t) /\ answer # Redirect(NoId) => wrote[t]

\* What is known of a write in each stage of its request: before its call has
\* returned, when it has, while the meme is read back, and in the reply.
ToldOf(t) ==
  /\ (Creating(t) \/ Editing(t)) /\ ~reading[t] /\ at[t] \notin {"idle", "done"} =>
       /\ ~wrote[t] /\ at[t] # "reading"
       /\ call[t].op \in Writes /\ (Creating(t) => call[t].op = "add")
  /\ (Creating(t) \/ Editing(t)) /\ ~reading[t] /\ at[t] = "done" =>
       /\ result[t] # Failure => wrote[t]
       /\ Creating(t) /\ wrote[t] => result[t] # Failure
  /\ (Creating(t) \/ Editing(t)) /\ reading[t] /\ at[t] # "idle" =>
       /\ wrote[t] /\ call[t].op = "get"
       /\ at[t] = "done" => OneMeme(result[t])
  /\ reply[t] # NoReply => Truth(t, reply[t])

Told == \A t \in Threads : ToldOf(t)

IInv == Shape /\ Between /\ Told

-----------------------------------------------------------------------------
\* An error path of a write returns -1, and one of GetMeme a Meme.
LEMMA FailsResult ==
  ASSUME Shape, NEW t \in Threads, at[t] # "idle", Fails(t)
  PROVE  /\ Goes(t, "done") /\ UNCHANGED <<table, call>>
         /\ \E value : /\ result' = [result EXCEPT ![t] = value]
                       /\ call[t].op \in Writes => value = Failure
                       /\ call[t].op = "get" => OneMeme(value)
<1>1. CASE call[t].op \in Writes
  BY <1>1 DEF Fails, Yields, Reads, Writes
<1>2. CASE call[t].op \in {"all", "find"}
  BY <1>2 DEF Fails, Yields, Reads, Writes
<1>3. CASE call[t].op = "get"
  BY <1>3 DEF Fails, Yields, Reads, Writes, Unfilled, OneMeme
<1> QED
  BY <1>1, <1>2, <1>3 DEF Shape, Reads, Writes

\* The steps of a call, by what they do to the locks and to the result.
Waits(t) ==
  /\ at[t] \notin {"reading", "reserved", "exclusive"}
  /\ \E p \in {"opened", "prepared"} : Goes(t, p)
  /\ UNCHANGED <<table, call, result>>

Locked(t) ==
  /\ UNCHANGED <<table, call, result>>
  /\ \/ Goes(t, "reading") /\ at[t] = "prepared" /\ call[t].op \in Reads /\ Committing = {}
     \/ Goes(t, "reserved") /\ at[t] = "prepared" /\ call[t].op \in Writes /\ Reserved = {}
     \/ Goes(t, "exclusive") /\ at[t] = "reserved" /\ Reading = {}

Failed(t) ==
  /\ at[t] \notin {"reading", "exclusive"}
  /\ Goes(t, "done") /\ UNCHANGED <<table, call>>
  /\ \E value : /\ result' = [result EXCEPT ![t] = value]
                /\ call[t].op \in Writes => value = Failure
                /\ call[t].op = "get" => OneMeme(value)

WasRead(t) ==
  /\ at[t] = "reading"
  /\ Goes(t, "done") /\ UNCHANGED <<table, call>>
  /\ \E value : /\ result' = [result EXCEPT ![t] = value]
                /\ call[t].op = "get" => OneMeme(value)

Committed(t) ==
  /\ at[t] = "exclusive"
  /\ Goes(t, "done") /\ UNCHANGED call
  /\ \E value : /\ result' = [result EXCEPT ![t] = value]
                /\ call[t].op = "add" => value # Failure

\* Each step of a call is one of the five.
LEMMA QueryStep ==
  ASSUME Shape, NEW t \in Threads, DbStep(t)
  PROVE  /\ at[t] \notin {"idle", "done"}
         /\ Waits(t) \/ Locked(t) \/ Failed(t) \/ WasRead(t) \/ Committed(t)
<1>1. CASE Open(t) \/ Prepare(t)
  BY <1>1 DEF Open, Prepare, Waits
<1>2. CASE BeginRead(t) \/ BeginWrite(t) \/ BeginCommit(t)
  BY <1>2 DEF BeginRead, BeginWrite, BeginCommit, Locked
<1>3. CASE OpenFails(t) \/ PrepareBusy(t) \/ ReadBusy(t) \/ WriteBusy(t) \/ CommitBusy(t)
  <2>1. at[t] \notin {"idle", "done", "reading", "exclusive"} /\ Fails(t)
    BY <1>3 DEF OpenFails, PrepareBusy, ReadBusy, WriteBusy, CommitBusy
  <2> QED BY <2>1, FailsResult DEF Failed
<1>4. CASE EndRead(t)
  <2>1. CASE call[t].op = "get"
    <3>1. PICK meme \in IF call[t].id \in Rows
                        THEN {[id |-> call[t].id, content |-> table[call[t].id]]}
                        ELSE Unfilled : Yields(t, Found({meme}))
      BY <1>4, <2>1 DEF EndRead
    <3>2. meme.id \in ParamIds
      BY <3>1, DatabaseAssumption DEF Unfilled, Rows, Ids, ParamIds
    <3> QED BY <1>4, <3>1, <3>2 DEF EndRead, Yields, WasRead, OneMeme
  <2>2. CASE call[t].op # "get"
    BY <1>4, <2>2 DEF EndRead, Yields, WasRead
  <2> QED BY <2>1, <2>2
<1>5. CASE Commit(t)
  <2>1. call[t].op = "add" => Effect(call[t]).result = Number(NewRowid)
    BY DEF Effect
  <2>2. Number(NewRowid) # Failure
    BY NewRowidIsNew DEF Number, Failure
  <2> QED BY <1>5, <2>1, <2>2 DEF Commit, Yields, Committed
<1> QED
  BY <1>1, <1>2, <1>3, <1>4, <1>5 DEF DbStep

-----------------------------------------------------------------------------
\* A step of one thread leaves the state of the others alone.
LEMMA OthersKept ==
  ASSUME Shape, NEW t \in Threads, NEW u \in Threads, u # t,
         \E p : Goes(t, p),
         call' = call \/ \E c : call' = [call EXCEPT ![t] = c],
         result' = result \/ \E value : result' = [result EXCEPT ![t] = value],
         reading' = reading \/ \E b : reading' = [reading EXCEPT ![t] = b],
         wrote' = wrote \/ \E b : wrote' = [wrote EXCEPT ![t] = b],
         reply' = reply \/ \E answer : reply' = [reply EXCEPT ![t] = answer],
         request' = request \/ \E r : request' = [request EXCEPT ![t] = r],
         ToldOf(u)
  PROVE  ToldOf(u)'
<1>1. at'[u] = at[u] /\ call'[u] = call[u] /\ result'[u] = result[u]
  BY DEF Shape, Goes
<1>2. reading'[u] = reading[u] /\ wrote'[u] = wrote[u]
  BY DEF Shape
<1>3. reply'[u] = reply[u] /\ request'[u] = request[u]
  BY DEF Shape
<1> QED
  BY <1>1, <1>2, <1>3 DEF ToldOf, Truth, Creating, Editing, OneMeme, Failure, Number

\* The invariant through a step of a call.
LEMMA QueryKeepsIInv ==
  ASSUME IInv, NEW t \in Threads, Query(t)
  PROVE  IInv'
<1>1. Shape /\ Between /\ Told /\ DbStep(t)
  BY DEF IInv, Query
<1>2. at[t] \notin {"idle", "done"}
  BY <1>1, QueryStep
<1>3. Waits(t) \/ Locked(t) \/ Failed(t) \/ WasRead(t) \/ Committed(t)
  BY <1>1, QueryStep
<1>4. wrote' = [wrote EXCEPT ![t] = @ \/ at[t] = "exclusive"]
  BY DEF Query
<1>5. UNCHANGED <<request, reading, new_id, reply>>
  BY DEF Query
<1>6. call' = call /\ \E p \in Phases \ {"idle"} : Goes(t, p)
  BY <1>3 DEF Waits, Locked, Failed, WasRead, Committed, Phases
<1>7. result' = result \/ \E value : result' = [result EXCEPT ![t] = value]
  BY <1>3 DEF Waits, Locked, Failed, WasRead, Committed
<1>8. Shape'
  <2>1. at' \in [Threads -> Phases]
    BY <1>1, <1>6 DEF Shape, Goes
  <2>2. wrote' \in [Threads -> BOOLEAN]
    <3>1. (wrote[t] \/ at[t] = "exclusive") \in BOOLEAN
      OBVIOUS
    <3> QED BY <1>1, <1>4, <3>1 DEF Shape
  <2>3. \A u \in Threads : at'[u] # "idle" => at[u] # "idle"
    BY <1>1, <1>2, <1>6 DEF Shape, Goes
  <2>4. \A u \in Threads : at'[u] \in {"reserved", "exclusive"} => call[u].op \in Writes
    <3>1. CASE Locked(t)
      BY <1>1, <3>1 DEF Shape, Goes, Locked
    <3>2. CASE Waits(t) \/ Failed(t) \/ WasRead(t) \/ Committed(t)
      BY <1>1, <3>2 DEF Shape, Goes, Waits, Failed, WasRead, Committed
    <3> QED BY <1>3, <3>1, <3>2
  <2> QED BY <1>1, <1>5, <1>6, <1>7, <2>1, <2>2, <2>3, <2>4 DEF Shape
<1>9. Between'
  <2>1. request[t] # NoRequest /\ reply[t] = NoReply
    BY <1>1, <1>2 DEF Between
  <2>2. \A u \in Threads \ {t} : at'[u] = at[u] /\ wrote'[u] = wrote[u]
    BY <1>1, <1>4, <1>6 DEF Shape, Goes
  <2> QED BY <1>1, <1>5, <2>1, <2>2 DEF Between
<1>10. ToldOf(t)'
  <2>1. reply'[t] = NoReply /\ request'[t] = request[t] /\ reading'[t] = reading[t]
    BY <1>1, <1>2, <1>5 DEF Between
  <2>2. wrote'[t] = (wrote[t] \/ at[t] = "exclusive") /\ call'[t] = call[t]
    BY <1>1, <1>4, <1>6 DEF Shape
  <2>3. SUFFICES ASSUME Creating(t) \/ Editing(t) PROVE ToldOf(t)'
    BY <2>1 DEF ToldOf, Creating, Editing
  <2>4. CASE reading[t]
    <3>1. wrote[t] /\ call[t].op = "get" /\ call[t].op \notin Writes
      BY <1>1, <1>2, <2>3, <2>4 DEF Told, ToldOf, Writes
    <3>2. at'[t] = "done" => OneMeme(result'[t])
      <4>1. CASE Waits(t) \/ Locked(t)
        BY <1>1, <4>1 DEF Shape, Goes, Waits, Locked
      <4>2. CASE Failed(t) \/ WasRead(t)
        <5>1. PICK value : result' = [result EXCEPT ![t] = value] /\ OneMeme(value)
          BY <3>1, <4>2 DEF Failed, WasRead
        <5> QED BY <1>1, <5>1 DEF Shape
      <4>3. ~Committed(t)
        BY <1>1, <3>1 DEF Shape, Committed
      <4> QED BY <1>3, <4>1, <4>2, <4>3
    <3> QED BY <2>1, <2>2, <2>4, <3>1, <3>2 DEF ToldOf, OneMeme
  <2>5. CASE ~reading[t]
    <3>1. /\ ~wrote[t] /\ at[t] # "reading" /\ call[t].op \in Writes
          /\ Creating(t) => call[t].op = "add"
      BY <1>1, <1>2, <2>3, <2>5 DEF Told, ToldOf
    <3>2. call[t].op \notin Reads /\ Creating(t)' = Creating(t)
      BY <2>1, <3>1 DEF Reads, Writes, Creating
    <3>3. CASE Waits(t) \/ Locked(t)
      <4>1. at'[t] \notin {"idle", "done", "reading"} /\ ~wrote'[t]
        BY <1>1, <2>2, <3>1, <3>2, <3>3 DEF Shape, Goes, Waits, Locked
      <4> QED BY <2>1, <2>2, <2>5, <3>1, <3>2, <4>1 DEF ToldOf
    <3>4. CASE Failed(t)
      <4>1. at'[t] = "done" /\ ~wrote'[t] /\ result'[t] = Failure
        BY <1>1, <2>2, <3>1, <3>4 DEF Shape, Goes, Failed
      <4> QED BY <2>1, <2>2, <2>5, <3>1, <3>2, <4>1 DEF ToldOf, Failure, Number
    <3>5. CASE Committed(t)
      <4>1. at'[t] = "done" /\ wrote'[t] /\ (call[t].op = "add" => result'[t] # Failure)
        BY <1>1, <2>2, <3>5 DEF Shape, Goes, Committed
      <4> QED BY <2>1, <2>2, <2>5, <3>1, <3>2, <4>1 DEF ToldOf, Failure, Number
    <3> QED BY <1>3, <3>1, <3>3, <3>4, <3>5 DEF WasRead
  <2> QED BY <2>4, <2>5
<1>11. \A u \in Threads \ {t} : ToldOf(u)'
  <2> SUFFICES ASSUME NEW u \in Threads, u # t PROVE ToldOf(u)'
    OBVIOUS
  <2> QED BY <1>1, <1>4, <1>5, <1>6, <1>7, OthersKept DEF Told
<1> QED
  BY <1>8, <1>9, <1>10, <1>11 DEF IInv, Told

\* The invariant through the end of a request that is told the truth.
LEMMA FinishKeepsIInv ==
  ASSUME IInv, NEW t \in Threads, NEW answer, Finish(t, answer), Truth(t, answer)
  PROVE  IInv'
<1>1. Shape /\ Between /\ Told
  BY DEF IInv
<1>2. /\ at[t] = "done" /\ Goes(t, "idle")
      /\ call' = [call EXCEPT ![t] = NoCall] /\ result' = [result EXCEPT ![t] = NoResult]
      /\ reply' = [reply EXCEPT ![t] = answer]
      /\ UNCHANGED <<request, reading, new_id, wrote>>
  BY DEF Finish, Return
<1>3. at'[t] = "idle" /\ reply'[t] = answer
  BY <1>1, <1>2 DEF Shape, Goes
<1>4. \A u \in Threads \ {t} : at'[u] = at[u] /\ call'[u] = call[u] /\ reply'[u] = reply[u]
  BY <1>1, <1>2 DEF Shape, Goes
<1>5. Shape'
  BY <1>1, <1>2, <1>3, <1>4 DEF Shape, Goes, Phases
<1>6. Between'
  <2>1. request[t] # NoRequest
    BY <1>1, <1>2 DEF Between
  <2> QED BY <1>1, <1>2, <1>3, <1>4, <2>1 DEF Between
<1>7. ToldOf(t)'
  BY <1>2, <1>3 DEF ToldOf, Truth, Creating, Editing
<1>8. \A u \in Threads \ {t} : ToldOf(u)'
  <2> SUFFICES ASSUME NEW u \in Threads, u # t PROVE ToldOf(u)'
    OBVIOUS
  <2> QED BY <1>1, <1>2, OthersKept DEF Told
<1> QED
  BY <1>5, <1>6, <1>7, <1>8 DEF IInv, Told

\* The invariant through the actions of the handlers.
LEMMA HandleKeepsIInv ==
  ASSUME IInv, NEW t \in Threads, Handle(t)
  PROVE  IInv'
<1>1. Shape /\ Between /\ Told
  BY DEF IInv
<1>2. \A actions, answer :
        /\ Returned(t, actions) /\ actions \cap {"create", "edit"} = {}
        => Truth(t, answer)
  BY DEF Returned, Truth, Creating, Editing
<1>3. CASE View(t)
  BY <1>2, <1>3, FinishKeepsIInv DEF View
<1>4. CASE Update(t)
  BY <1>2, <1>4, FinishKeepsIInv DEF Update
<1>5. CASE List(t)
  BY <1>2, <1>5, FinishKeepsIInv DEF List
<1>6. CASE Delete(t)
  BY <1>2, <1>6, FinishKeepsIInv DEF Delete
<1>7. CASE WriteFailed(t)
  <2> DEFINE answer == IF request[t].action = "create" THEN NotFound ELSE Redirect(NoId)
  <2>1. Finish(t, answer) /\ result[t] = Failure /\ at[t] = "done" /\ ~reading[t]
    BY <1>7 DEF WriteFailed, Returned
  <2>2. Creating(t) => ~wrote[t] /\ answer = NotFound
    BY <1>1, <2>1 DEF Told, ToldOf, Creating
  <2>3. Editing(t) => answer = Redirect(NoId)
    BY DEF Editing
  <2>4. Truth(t, answer)
    BY <2>2, <2>3 DEF Truth
  <2> QED BY <2>1, <2>4, FinishKeepsIInv
<1>8. CASE RedirectToMeme(t)
  <2>1. PICK id : /\ id \in {TheMeme(t).id, NoId}
                  /\ Creating(t) => id = TheMeme(t).id
                  /\ Finish(t, Redirect(id))
    BY <1>8 DEF RedirectToMeme, Creating
  <2>2. at[t] = "done" /\ reading[t]
    BY <1>8 DEF RedirectToMeme
  <2>3. SUFFICES ASSUME Creating(t) \/ Editing(t) PROVE Truth(t, Redirect(id))
    BY <2>1, FinishKeepsIInv DEF Truth
  <2>4. wrote[t] /\ OneMeme(result[t])
    BY <1>1, <2>2, <2>3 DEF Told, ToldOf
  <2>5. TheMeme(t).id \in ParamIds
    BY <2>4 DEF OneMeme, Found, TheMeme
  <2>6. Redirect(id) # NotFound
    BY <2>1, <2>5, HandlerAssumption
  <2> QED BY <2>4, <2>6 DEF Truth
<1>9. CASE ReadBack(t)
  <2> DEFINE get == [op |-> "get", id |-> result[t].number]
  <2>1. /\ at[t] = "done" /\ ~reading[t] /\ result[t] # Failure
        /\ Goes(t, "called") /\ call' = [call EXCEPT ![t] = get]
        /\ result' = [result EXCEPT ![t] = NoResult]
        /\ reading' = [reading EXCEPT ![t] = TRUE]
        /\ UNCHANGED <<request, reply, wrote>>
    BY <1>9 DEF ReadBack, Returned, Call
  <2>2. at'[t] = "called" /\ reading'[t] = TRUE /\ call'[t].op = "get"
    <3>1. call'[t] = get
      BY <1>1, <2>1 DEF Shape
    <3>2. get.op = "get"
      OBVIOUS
    <3>3. at'[t] = "called" /\ reading'[t] = TRUE
      BY <1>1, <2>1 DEF Shape, Goes
    <3> QED BY <3>1, <3>2, <3>3
  <2>3. \A u \in Threads \ {t} :
          at'[u] = at[u] /\ call'[u] = call[u] /\ reading'[u] = reading[u]
    BY <1>1, <2>1 DEF Shape, Goes
  <2>4. Shape'
    <3>1. at' \in [Threads -> Phases]
      BY <1>1, <2>1 DEF Shape, Goes, Phases
    <3>2. reading' \in [Threads -> BOOLEAN]
      BY <1>1, <2>1 DEF Shape
    <3> QED BY <1>1, <2>1, <2>2, <2>3, <3>1, <3>2 DEF Shape, Reads
  <2>5. request[t] # NoRequest /\ reply[t] = NoReply
    BY <1>1, <2>1 DEF Between
  <2>6. Between'
    BY <1>1, <2>1, <2>3, <2>5 DEF Between
  <2>7. ToldOf(t)'
    <3>1. Creating(t) \/ Editing(t) => wrote[t]
      BY <1>1, <2>1 DEF Told, ToldOf
    <3>2. wrote'[t] = wrote[t] /\ reply'[t] = NoReply /\ request'[t] = request[t]
      BY <2>1, <2>5
    <3> QED BY <2>2, <3>1, <3>2 DEF ToldOf, Creating, Editing
  <2>8. \A u \in Threads \ {t} : ToldOf(u)'
    <3> SUFFICES ASSUME NEW u \in Threads, u # t PROVE ToldOf(u)'
      OBVIOUS
    <3> HIDE DEF get
    <3> QED BY <1>1, <2>1, OthersKept DEF Told
  <2> QED BY <2>4, <2>6, <2>7, <2>8 DEF IInv, Told
<1> QED
  BY <1>3, <1>4, <1>5, <1>6, <1>7, <1>8, <1>9 DEF Handle

\* The invariant when a request arrives.
LEMMA ReceiveKeepsIInv ==
  ASSUME IInv, NEW t \in Threads, NEW r \in Requests, Receive(t, r)
  PROVE  IInv'
<1>1. Shape /\ Between /\ Told
  BY DEF IInv
<1>2. /\ request[t] = NoRequest /\ request' = [request EXCEPT ![t] = r]
      /\ UNCHANGED <<reading, new_id, wrote>>
  BY DEF Receive
<1>3. request'[t] = r /\ r # NoRequest
  BY <1>1, <1>2, HandlerAssumption DEF Shape
<1>4. at[t] = "idle" /\ ~reading[t] /\ ~wrote[t] /\ reply[t] = NoReply
  BY <1>1, <1>2 DEF Between
<1>5. request' \in [Threads -> Requests \cup {NoRequest}]
  BY <1>1, <1>2 DEF Shape
<1>6. \A u \in Threads \ {t} : request'[u] = request[u]
  BY <1>1, <1>2 DEF Shape
<1>7. CASE NeedsDatabase(r)
  <2> DEFINE c == FirstCall(r)
  <2>1. /\ Goes(t, "called") /\ call' = [call EXCEPT ![t] = c]
        /\ result' = [result EXCEPT ![t] = NoResult] /\ reply' = reply
    BY <1>7 DEF Receive, Call
  <2>2. /\ c.op \in Reads \cup Writes
        /\ r.action = "create" => c.op = "add"
        /\ r.action = "edit" => c.op = "update"
    <3>1. CASE r.action \in {"new update", "view"}
      BY <3>1 DEF FirstCall, Reads
    <3>2. CASE r.action = "create"
      BY <3>2 DEF FirstCall, Writes
    <3>3. CASE r.action = "edit"
      BY <3>3 DEF FirstCall, Writes
    <3>4. CASE r.action = "delete"
      BY <3>4 DEF FirstCall, Writes
    <3>5. CASE r.action = "list"
      BY <3>5 DEF FirstCall, Reads
    <3>6. CASE r.action = "search"
      BY <3>6 DEF FirstCall, Reads
    <3> QED BY <1>7, <3>1, <3>2, <3>3, <3>4, <3>5, <3>6 DEF Requests, NeedsDatabase
  <2> HIDE DEF c
  <2>3. at'[t] = "called" /\ call'[t] = c
    BY <1>1, <2>1 DEF Shape, Goes
  <2>4. \A u \in Threads \ {t} : at'[u] = at[u] /\ call'[u] = call[u]
    BY <1>1, <2>1 DEF Shape, Goes
  <2>5. Shape'
    <3>1. at' \in [Threads -> Phases]
      BY <1>1, <2>1 DEF Shape, Goes, Phases
    <3> QED BY <1>1, <1>2, <1>5, <2>1, <2>2, <2>3, <2>4, <3>1 DEF Shape
  <2>6. Between'
    BY <1>1, <1>2, <1>3, <1>4, <1>6, <2>1, <2>4 DEF Between
  <2>7. ToldOf(t)'
    <3>1. reading'[t] = reading[t] /\ wrote'[t] = wrote[t] /\ reply'[t] = NoReply
      BY <1>2, <1>4, <2>1
    <3>2. Creating(t)' => c.op = "add"
      BY <1>3, <2>2 DEF Creating
    <3>3. Creating(t)' \/ Editing(t)' => c.op \in Writes
      BY <1>3, <2>2 DEF Creating, Editing, Writes
    <3> QED BY <1>4, <2>3, <3>1, <3>2, <3>3 DEF ToldOf
  <2>8. \A u \in Threads \ {t} : ToldOf(u)'
    <3> SUFFICES ASSUME NEW u \in Threads, u # t PROVE ToldOf(u)'
      OBVIOUS
    <3> QED BY <1>1, <1>2, <2>1, OthersKept DEF Told
  <2> QED BY <2>5, <2>6, <2>7, <2>8 DEF IInv, Told
<1>8. CASE ~NeedsDatabase(r)
  <2>1. reply' = [reply EXCEPT ![t] = Immediate(r)] /\ UNCHANGED dbVars
    BY <1>8 DEF Receive
  <2>2. at' = at /\ call' = call /\ result' = result
    BY <2>1 DEF dbVars
  <2>3. r.action # "create" /\ r.action # "edit"
    BY <1>8 DEF NeedsDatabase
  <2>4. Shape'
    BY <1>1, <1>2, <1>5, <2>1, <2>2 DEF Shape
  <2>5. Between'
    BY <1>1, <1>2, <1>3, <1>4, <1>6, <2>1, <2>2 DEF Shape, Between
  <2>6. ToldOf(t)'
    BY <1>3, <2>3 DEF ToldOf, Truth, Creating, Editing
  <2>7. \A u \in Threads \ {t} : ToldOf(u)'
    <3> SUFFICES ASSUME NEW u \in Threads, u # t PROVE ToldOf(u)'
      OBVIOUS
    <3>1. at'[u] = at[u] /\ call'[u] = call[u] /\ result'[u] = result[u]
      BY <2>2
    <3>2. reading'[u] = reading[u] /\ wrote'[u] = wrote[u]
      BY <1>2
    <3>3. reply'[u] = reply[u] /\ request'[u] = request[u]
      BY <1>1, <1>6, <2>1 DEF Shape
    <3> QED BY <1>1, <3>1, <3>2, <3>3 DEF Told, ToldOf, Truth, Creating, Editing, OneMeme, Failure, Number
  <2> QED BY <2>4, <2>5, <2>6, <2>7 DEF IInv, Told
<1> QED
  BY <1>7, <1>8

\* The invariant when a reply is sent.
LEMMA SentKeepsIInv ==
  ASSUME IInv, NEW t \in Threads, Sent(t)
  PROVE  IInv'
<1>1. Shape /\ Between /\ Told
  BY DEF IInv
<1>2. at' = at /\ call' = call /\ result' = result
  BY DEF Sent, dbVars
<1>3. /\ request' = [request EXCEPT ![t] = NoRequest]
      /\ reply' = [reply EXCEPT ![t] = NoReply]
      /\ reading' = [reading EXCEPT ![t] = FALSE]
      /\ wrote' = [wrote EXCEPT ![t] = FALSE]
  BY DEF Sent
<1>4. at[t] = "idle"
  BY <1>1 DEF Sent, Between
<1>5. request'[t] = NoRequest /\ reply'[t] = NoReply /\ reading'[t] = FALSE /\ wrote'[t] = FALSE
  BY <1>1, <1>3 DEF Shape
<1>6. \A u \in Threads \ {t} : /\ request'[u] = request[u] /\ reply'[u] = reply[u]
                             /\ reading'[u] = reading[u] /\ wrote'[u] = wrote[u]
  BY <1>1, <1>3 DEF Shape
<1>7. Shape'
  <2>1. request' \in [Threads -> Requests \cup {NoRequest}]
    BY <1>1, <1>3 DEF Shape
  <2>2. reading' \in [Threads -> BOOLEAN] /\ wrote' \in [Threads -> BOOLEAN]
    BY <1>1, <1>3 DEF Shape
  <2> QED BY <1>1, <1>2, <1>3, <2>1, <2>2 DEF Shape
<1>8. Between'
  BY <1>1, <1>2, <1>4, <1>5, <1>6 DEF Between
<1>9. ToldOf(t)'
  BY <1>5 DEF ToldOf, Creating, Editing
<1>10. \A u \in Threads \ {t} : ToldOf(u)'
  BY <1>1, <1>2, <1>6 DEF Told, ToldOf, Truth, Creating, Editing, OneMeme, Failure, Number
<1> QED
  BY <1>7, <1>8, <1>9, <1>10 DEF IInv, Told

-----------------------------------------------------------------------------
\* The invariant, of the handlers on any number of threads with any table.
THEOREM HandlerInvariant == HandlerSpec => []IInv
<1>1. HandlerInit => IInv
  BY DEF HandlerInit, Init, IInv, Shape, Between, Told, ToldOf, Creating, Editing, Phases
<1>2. IInv /\ [HandlerNext]_vars => IInv'
  <2> SUFFICES ASSUME IInv, [HandlerNext]_vars PROVE IInv'
    OBVIOUS
  <2>1. CASE \E t \in Threads : Serve(t)
    BY <2>1, QueryKeepsIInv, HandleKeepsIInv, SentKeepsIInv DEF Serve
  <2>2. CASE \E t \in Threads : \E r \in Requests : Receive(t, r)
    BY <2>2, ReceiveKeepsIInv
  <2>3. CASE RestartServer
    BY <2>3 DEF RestartServer, Restart, IInv, Shape, Between, Told, ToldOf, Creating, Editing, Phases
  <2>4. CASE UNCHANGED vars
    BY <2>4 DEF vars, dbVars, handlerVars, IInv, Shape, Between, Told, ToldOf, Truth,
                Creating, Editing, OneMeme, Failure, Number
  <2> QED BY <2>1, <2>2, <2>3, <2>4 DEF HandlerNext
<1> QED BY <1>1, <1>2, PTL DEF HandlerSpec

\* A client is told 404 for its create exactly if no row was committed for it,
\* whatever the other threads do and whichever call of the database fails
\* (meme_handler.cc 129-133).
THEOREM CreateTold == HandlerSpec => []CreateTellsTheTruth
<1>1. IInv => CreateTellsTheTruth
  <2> SUFFICES ASSUME IInv, NEW t \in Threads, Replied(t, "create")
               PROVE  reply[t] = NotFound <=> ~wrote[t]
    BY DEF CreateTellsTheTruth
  <2>1. request[t] # NoRequest /\ Truth(t, reply[t])
    BY DEF IInv, Between, Told, ToldOf, Replied
  <2> QED BY <2>1 DEF Truth, Creating, Replied
<1> QED BY <1>1, HandlerInvariant, PTL

\* A redirect to the edited meme is sent only after its UPDATE was committed
\* (meme_handler.cc 125-127 and 292-294).
THEOREM EditTold == HandlerSpec => []EditRedirectMeansEdited
<1>1. IInv => EditRedirectMeansEdited
  <2> SUFFICES ASSUME IInv, NEW t \in Threads, Replied(t, "edit"), reply[t] # Redirect(NoId)
               PROVE  wrote[t]
    BY DEF EditRedirectMeansEdited
  <2>1. request[t] # NoRequest /\ Truth(t, reply[t])
    BY DEF IInv, Between, Told, ToldOf, Replied
  <2> QED BY <2>1 DEF Truth, Editing, Replied
<1> QED BY <1>1, HandlerInvariant, PTL

-----------------------------------------------------------------------------
NewIdOK == new_id \in [Threads -> ParamIds]

\* A request's first call is a call.
LEMMA FirstCallIsCall == \A r \in Requests : NeedsDatabase(r) => FirstCall(r) \in Calls
<1> SUFFICES ASSUME NEW r \in Requests, NeedsDatabase(r) PROVE FirstCall(r) \in Calls
  OBVIOUS
<1>1. CASE r.action \in {"new update", "view"}
  <2>1. r.id \in ParamIds
    BY <1>1 DEF Requests
  <2> QED BY <1>1, <2>1 DEF FirstCall, Calls
<1>2. CASE r.action = "create"
  <2>1. r.content \in Contents
    BY <1>2, HandlerAssumption DEF Requests
  <2> QED BY <1>2, <2>1 DEF FirstCall, Calls
<1>3. CASE r.action = "edit"
  <2>1. r.content \in Contents /\ r.id \in ParamIds
    BY <1>3, HandlerAssumption DEF Requests
  <2> QED BY <1>3, <2>1 DEF FirstCall, Calls
<1>4. CASE r.action = "delete"
  <2>1. r.id \in ParamIds
    BY <1>4 DEF Requests
  <2> QED BY <1>4, <2>1 DEF FirstCall, Calls
<1>5. CASE r.action = "list"
  BY <1>5 DEF FirstCall, Calls
<1>6. CASE r.action = "search"
  <2>1. r.matching \in SUBSET Contents
    BY <1>6, HandlerAssumption DEF Requests
  <2> QED BY <1>6, <2>1 DEF FirstCall, Calls
<1> QED
  BY <1>1, <1>2, <1>3, <1>4, <1>5, <1>6 DEF Requests, NeedsDatabase

\* The meme that is read back has the id of a write that did not fail.
LEMMA ReadBackCalls ==
  ASSUME DbInv, NEW t \in Threads, ReadBack(t)
  PROVE  result[t].number \in ParamIds /\ \E c \in Calls : Call(t, c)
<1>1. at[t] = "done" /\ result[t] # Failure
  BY DEF ReadBack, Returned
<1>2. result[t] \in Results
  BY <1>1, DatabaseAssumption DEF DbInv, Typed
<1>3. result[t].number \in -1..MaxId
  BY <1>2, DatabaseAssumption DEF Results
<1>4. result[t].number # -1
  BY <1>1, <1>2, DatabaseAssumption DEF Results, Failure, Number
<1>5. result[t].number \in ParamIds
  BY <1>3, <1>4, DatabaseAssumption DEF ParamIds
<1>6. [op |-> "get", id |-> result[t].number] \in Calls
  BY <1>5 DEF Calls
<1> QED
  BY <1>5, <1>6 DEF ReadBack

\* A step of the handlers is one of the database, or leaves it alone.
LEMMA HandlerStepIsCall ==
  DbInv /\ NewIdOK /\ [HandlerNext]_vars => [Next]_dbVars /\ NewIdOK'
<1> SUFFICES ASSUME DbInv, NewIdOK, [HandlerNext]_vars PROVE [Next]_dbVars /\ NewIdOK'
  OBVIOUS
<1>1. ASSUME NEW t \in Threads, Query(t) PROVE Next /\ NewIdOK'
  BY <1>1 DEF Query, Next, NewIdOK
<1>2. ASSUME NEW t \in Threads, NEW answer, Finish(t, answer) PROVE Next /\ NewIdOK'
  BY <1>2 DEF Finish, Next, NewIdOK
<1>3. ASSUME NEW t \in Threads, ReadBack(t) PROVE Next /\ NewIdOK'
  <2>1. new_id' = [new_id EXCEPT ![t] = result[t].number]
    BY <1>3 DEF ReadBack
  <2>2. NewIdOK'
    BY <1>3, <2>1, ReadBackCalls DEF NewIdOK
  <2> QED BY <1>3, <2>2, ReadBackCalls DEF Next
<1>4. ASSUME NEW t \in Threads, Handle(t) PROVE Next /\ NewIdOK'
  <2>1. ReadBack(t) \/ \E answer : Finish(t, answer)
    BY <1>4 DEF Handle, View, Update, List, Delete, WriteFailed, RedirectToMeme
  <2> QED BY <1>2, <1>3, <2>1
<1>5. ASSUME NEW t \in Threads, Sent(t) PROVE UNCHANGED dbVars /\ NewIdOK'
  <2>1. 0 \in ParamIds
    BY DatabaseAssumption DEF ParamIds
  <2> QED BY <1>5, <2>1 DEF Sent, NewIdOK
<1>6. ASSUME NEW t \in Threads, NEW r \in Requests, Receive(t, r) PROVE [Next]_dbVars /\ NewIdOK'
  <2>1. NewIdOK'
    BY <1>6 DEF Receive, NewIdOK
  <2>2. UNCHANGED dbVars \/ \E c \in Calls : Call(t, c)
    BY <1>6, FirstCallIsCall DEF Receive
  <2> QED BY <2>1, <2>2 DEF Next
<1>7. CASE RestartServer
  <2>1. 0 \in ParamIds
    BY DatabaseAssumption DEF ParamIds
  <2> QED BY <1>7, <2>1 DEF RestartServer, Next, NewIdOK
<1>8. CASE UNCHANGED vars
  BY <1>8 DEF vars, handlerVars, NewIdOK
<1> QED
  BY <1>1, <1>4, <1>5, <1>6, <1>7, <1>8 DEF HandlerNext, Serve

\* What the handlers do to the database are calls of it, one at a time in each
\* thread.
THEOREM HandlersUseDatabase == HandlerSpec => Spec /\ [](DbInv /\ NewIdOK)
<1>1. HandlerInit => Init /\ DbInv /\ NewIdOK
  <2>1. 0 \in ParamIds
    BY DatabaseAssumption DEF ParamIds
  <2> QED BY <2>1, InitInv DEF HandlerInit, NewIdOK
<1> QED BY <1>1, HandlerStepIsCall, NextKeepsInv, PTL DEF HandlerSpec, Spec

\* The handlers' variables have the types they should.
THEOREM HandlerTypeCorrect == HandlerSpec => []HandlerTypeOK
<1>1. IInv /\ DbInv /\ NewIdOK => HandlerTypeOK
  BY DEF IInv, Shape, Between, DbInv, Typed, Covered, TypeOK, NewIdOK, HandlerTypeOK
<1> QED BY <1>1, HandlerInvariant, HandlersUseDatabase, PTL

\* With the handlers on top of it, the database is an atomic table, whatever
\* requests arrive (meme_handler.cc 66-316).
THEOREM HandlersSeeAtomicTable == HandlerSpec => ImplementsMemeTable
BY HandlersUseDatabase, DatabaseIsAtomic, PTL
=============================================================================
