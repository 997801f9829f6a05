------------------------------ MODULE Database ------------------------------
(***************************************************************************)
(* The class Database: every member function opens a connection of its own *)
(* to amazon.db, prepares one statement, steps it and closes.  No busy     *)
(* timeout is set, so a lock that is taken makes the call fail at once.    *)
(*                                                                         *)
(* SQLite's locks (rollback journal) are read off the phases of the calls: *)
(* "reading" holds SHARED, "reserved" holds RESERVED, "exclusive" is a     *)
(* commit in progress.  A connection reads the schema while it prepares,   *)
(* which takes SHARED for a moment.                                        *)
(***************************************************************************)
EXTENDS Integers, FiniteSets, FiniteSetsExt

CONSTANTS
  Threads, MaxId, Contents, NoRow, Garbage, NoCall, NoResult,
  MaxConnections  \* bound: connections the descriptors of the process allow

VARIABLES
  table,        \* the committed rows of MEMES, by rowid
  connections,  \* connections of the process that are open
  at,           \* how far the call of each thread is
  call,         \* the call, as in MemeTable
  result

dbVars == <<table, connections, at, call, result>>

Ids == 1..MaxId
ParamIds == 0..MaxId

Reads == {"get", "all", "find"}
Writes == {"add", "delete", "update"}

\* GetMeme and GetAllMemes use sqlite3_exec, which finalizes its statement.
UsesExec(c) == c.op \in {"get", "all"}

Calls ==
  [op : {"get", "delete"}, id : ParamIds] \cup
  [op : {"all"}] \cup
  [op : {"find"}, matching : SUBSET Contents] \cup
  [op : {"add"}, content : Contents] \cup
  [op : {"update"}, id : ParamIds, content : Contents]

\* What a call returns: a number, or the memes it found.
Number(n) == [number |-> n, memes |-> {}]
Found(memes) == [number |-> 0, memes |-> memes]

Failure == Number(-1)
Unfilled == [id : ParamIds, content : {Garbage}]
Memes == [id : Ids, content : Contents] \cup Unfilled
Results == [number : -1..MaxId, memes : {{}}] \cup [number : {0}, memes : SUBSET Memes]

ASSUME DatabaseAssumption ==
  /\ Threads # {} /\ IsFiniteSet(Threads)
  /\ MaxId \in Nat \ {0}
  /\ MaxConnections \in Nat
  /\ NoRow \notin Contents /\ NoCall \notin Calls /\ NoResult \notin Results

Phases == {"idle", "called", "opened", "prepared", "reading", "reserved",
           "exclusive", "done"}

TypeOK ==
  /\ table \in [Ids -> Contents \cup {NoRow}]
  /\ connections \in 0..MaxConnections
  /\ at \in [Threads -> Phases]
  /\ \A t \in Threads :
       /\ call[t] \in Calls \cup {NoCall}
       /\ call[t] = NoCall <=> at[t] = "idle"
       /\ result[t] = NoResult <=> at[t] # "done"
       /\ result[t] \in Results \cup {NoResult}

Init ==
  /\ table = [i \in Ids |-> NoRow]
  /\ connections = 0
  /\ at = [t \in Threads |-> "idle"]
  /\ call = [t \in Threads |-> NoCall]
  /\ result = [t \in Threads |-> NoResult]

-----------------------------------------------------------------------------
Rows == {i \in Ids : table[i] # NoRow}

\* Mutant of NewRowid: the number of rows, plus one.
NextByCount == Cardinality(Rows) + 1

\* MEMES has no AUTOINCREMENT: the largest rowid in use, plus one.
NewRowid == IF Rows = {} THEN 1 ELSE Max(Rows) + 1

Reading == {t \in Threads : at[t] = "reading"}
Reserved == {t \in Threads : at[t] \in {"reserved", "exclusive"}}
Committing == {t \in Threads : at[t] = "exclusive"}

Goes(t, phase) == at' = [at EXCEPT ![t] = phase]

Call(t, c) ==
  /\ at[t] \in {"idle", "done"}
  /\ Goes(t, "called")
  /\ call' = [call EXCEPT ![t] = c]
  /\ result' = [result EXCEPT ![t] = NoResult]
  /\ UNCHANGED <<table, connections>>

\* The caller is done with the result.
Return(t) ==
  /\ at[t] = "done"
  /\ Goes(t, "idle")
  /\ call' = [call EXCEPT ![t] = NoCall]
  /\ result' = [result EXCEPT ![t] = NoResult]
  /\ UNCHANGED <<table, connections>>

Yields(t, value) ==
  /\ Goes(t, "done")
  /\ result' = [result EXCEPT ![t] = value]
  /\ UNCHANGED call

\* An error path: -1, an empty vector, or a Meme whose fields were never set.
Fails(t) ==
  /\ CASE call[t].op \in Writes         -> Yields(t, Failure)
       [] call[t].op \in {"all", "find"} -> Yields(t, Found({}))
       [] call[t].op = "get"            -> \E meme \in Unfilled : Yields(t, Found({meme}))
  /\ UNCHANGED table

Close == connections' = connections - 1

\* The error paths of the statements return without finalize and close.
Leak == UNCHANGED connections

-----------------------------------------------------------------------------
Open(t) ==
  /\ at[t] = "called"
  /\ connections < MaxConnections
  /\ connections' = connections + 1
  /\ Goes(t, "opened")
  /\ UNCHANGED <<table, call, result>>

OpenFails(t) ==
  /\ at[t] = "called"
  /\ connections = MaxConnections
  /\ Fails(t)
  /\ UNCHANGED connections

Prepare(t) ==
  /\ at[t] = "opened"
  /\ Committing = {}
  /\ Goes(t, "prepared")
  /\ UNCHANGED <<table, connections, call, result>>

\* The schema cannot be read during a commit.
PrepareBusy(t) ==
  /\ at[t] = "opened"
  /\ Committing # {}
  /\ Fails(t)
  /\ IF UsesExec(call[t]) THEN Close ELSE Leak

\* Mutant of BeginRead: the connection is closed before the rows are read.
BeginReadClosed(t) ==
  /\ at[t] = "prepared" /\ call[t].op \in Reads
  /\ Committing = {}
  /\ Goes(t, "reading")
  /\ connections' = connections - 1
  /\ UNCHANGED <<table, call, result>>

BeginRead(t) ==
  /\ at[t] = "prepared" /\ call[t].op \in Reads
  /\ Committing = {}
  /\ Goes(t, "reading")
  /\ UNCHANGED <<table, connections, call, result>>

\* FindMemes takes the error of its first step for the end of the rows, and
\* closes like the other two.
ReadBusy(t) ==
  /\ at[t] = "prepared" /\ call[t].op \in Reads
  /\ Committing # {}
  /\ Fails(t)
  /\ Close

Matching(c) ==
  {[id |-> i, content |-> table[i]] :
     i \in {j \in Rows : c.op = "all" \/ table[j] \in c.matching}}

\* The rows that match, or for GetMeme the one row.  When there is none its
\* callback is never called, and the Meme comes back as it was declared.
EndRead(t) ==
  /\ at[t] = "reading"
  /\ IF call[t].op = "get"
     THEN \E meme \in IF call[t].id \in Rows
                      THEN {[id |-> call[t].id, content |-> table[call[t].id]]}
                      ELSE Unfilled : Yields(t, Found({meme}))
     ELSE Yields(t, Found(Matching(call[t])))
  /\ Close
  /\ UNCHANGED table

\* No room for another row.
IsFull(c) == c.op = "add" /\ NewRowid > MaxId

BeginWrite(t) ==
  /\ at[t] = "prepared" /\ call[t].op \in Writes
  /\ Reserved = {} /\ ~IsFull(call[t])
  /\ Goes(t, "reserved")
  /\ UNCHANGED <<table, connections, call, result>>

WriteBusy(t) ==
  /\ at[t] = "prepared" /\ call[t].op \in Writes
  /\ Reserved # {} \/ IsFull(call[t])
  /\ Fails(t)
  /\ Leak

\* Mutant of BeginCommit: readers are not waited for.
BeginCommitAnyway(t) ==
  /\ at[t] = "reserved"
  /\ Goes(t, "exclusive")
  /\ UNCHANGED <<table, connections, call, result>>

BeginCommit(t) ==
  /\ at[t] = "reserved"
  /\ Reading = {}
  /\ Goes(t, "exclusive")
  /\ UNCHANGED <<table, connections, call, result>>

\* Somebody reads: the step rolls back and fails.
CommitBusy(t) ==
  /\ at[t] = "reserved"
  /\ Reading # {} \/ \E u \in Threads : at[u] = "opened"
  /\ Fails(t)
  /\ Leak

\* What the statement does to the rows, and what its function returns.
Effect(c) ==
  CASE c.op = "add" ->
         [table |-> [table EXCEPT ![NewRowid] = c.content], result |-> Number(NewRowid)]
    [] c.op = "delete" ->
         [table |-> [i \in Ids |-> IF i = c.id THEN NoRow ELSE table[i]],
          result |-> Number(0)]
    [] c.op = "update" ->
         [table |-> [i \in Ids |-> IF i = c.id /\ i \in Rows THEN c.content ELSE table[i]],
          result |-> Number(c.id)]

\* The statement is done.  DeleteMeme closes before it finalizes, which leaves
\* the connection open; the others finalize first.
Commit(t) ==
  /\ at[t] = "exclusive"
  /\ table' = Effect(call[t]).table
  /\ Yields(t, Effect(call[t]).result)
  /\ IF call[t].op = "delete" THEN Leak ELSE Close

\* The process ends, at any point, and is started again: what was not
\* committed is rolled back, and Init finds the table.
Restart ==
  /\ at' = [t \in Threads |-> "idle"]
  /\ call' = [t \in Threads |-> NoCall]
  /\ result' = [t \in Threads |-> NoResult]
  /\ connections' = 0
  /\ UNCHANGED table

-----------------------------------------------------------------------------
DbStep(t) ==
  \/ Open(t) \/ OpenFails(t)
  \/ Prepare(t) \/ PrepareBusy(t)
  \/ BeginRead(t) \/ ReadBusy(t) \/ EndRead(t)
  \/ BeginWrite(t) \/ WriteBusy(t)
  \/ BeginCommit(t) \/ CommitBusy(t) \/ Commit(t)

Next ==
  \/ \E t \in Threads :
       \/ \E c \in Calls : Call(t, c)
       \/ DbStep(t)
       \/ Return(t)
  \/ Restart

Spec == Init /\ [][Next]_dbVars

-----------------------------------------------------------------------------
InCall == {t \in Threads : at[t] \in Phases \ {"idle", "called", "done"}}

\* No connection is closed twice, by any of the ways out of a call: each call
\* that is past sqlite3_open has one of the connections that are open.
ConnectionsCoverCalls == Cardinality(InCall) <= connections

\* A call gives its connection back: with nobody in a call none is open.  The
\* code does this for reads, for an AddMeme or an UpdateMeme that succeeds,
\* and not for DeleteMeme (database.cc 321-322).
ClosedAfterUse == InCall = {} => connections = 0

\* A reader sees one version of the table from its first row to its last, and
\* a writer computes rowids from the rows its commit will change.
StableUnderLock ==
  [][\A t \in Threads :
       at[t] \in {"reading", "reserved"} /\ at'[t] = at[t] => table' = table]_dbVars

\* Every call takes effect at once, between its beginning and its end, or fails
\* and has none, whatever the locks, the errors and the restarts.
Atomic == INSTANCE MemeTable

ImplementsMemeTable == Atomic!Spec
=============================================================================
