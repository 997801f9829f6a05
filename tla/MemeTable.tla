----------------------------- MODULE MemeTable ------------------------------
(***************************************************************************)
(* What the class Database promises: the table of memes as one atomic      *)
(* object.  Each call takes effect at one instant between the call and its *)
(* return, or fails and leaves the table as it was.  What the handlers get *)
(* for a meme that is not there is whatever the struct Meme held.          *)
(***************************************************************************)
EXTENDS Integers

CONSTANTS
  Threads,
  MaxId,       \* bound: the largest rowid
  Contents,    \* template and texts of a meme
  NoRow,       \* no meme with that id
  Garbage,     \* content of a struct Meme that was never filled
  NoCall, NoResult

Ids == 1..MaxId

\* What atoi makes of an id in a URI: 0 when it is missing or no number.
ParamIds == 0..MaxId

\* A search is the set of contents that match it.
Calls ==
  [op : {"get", "delete"}, id : ParamIds] \cup
  [op : {"all"}] \cup
  [op : {"find"}, matching : SUBSET Contents] \cup
  [op : {"add"}, content : Contents] \cup
  [op : {"update"}, id : ParamIds, content : Contents]

\* What a call returns: a number, or the memes it found.
Number(n) == [number |-> n, memes |-> {}]
Found(memes) == [number |-> 0, memes |-> memes]

Failure == Number(-1)

\* A Meme nobody filled: its integers are uninitialised, its strings empty.
Unfilled == [id : ParamIds, content : {Garbage}]

VARIABLES table, call, result

vars == <<table, call, result>>

Rows(tbl) == {i \in Ids : tbl[i] # NoRow}

Init ==
  /\ table = [i \in Ids |-> NoRow]
  /\ call = [t \in Threads |-> NoCall]
  /\ result = [t \in Threads |-> NoResult]

Invoke(t, c) ==
  /\ call[t] = NoCall \/ result[t] # NoResult
  /\ call' = [call EXCEPT ![t] = c]
  /\ result' = [result EXCEPT ![t] = NoResult]
  /\ UNCHANGED table

Pending(t, op) == call[t] # NoCall /\ call[t].op = op /\ result[t] = NoResult

Yields(t, value) == result' = [result EXCEPT ![t] = value] /\ UNCHANGED call

Get(t) ==
  /\ Pending(t, "get")
  /\ LET id == call[t].id IN
       IF id \in Rows(table)
       THEN Yields(t, Found({[id |-> id, content |-> table[id]]}))
       ELSE \E meme \in Unfilled : Yields(t, Found({meme}))
  /\ UNCHANGED table

All(t) ==
  /\ Pending(t, "all")
  /\ Yields(t, Found({[id |-> i, content |-> table[i]] : i \in Rows(table)}))
  /\ UNCHANGED table

Search(t) ==
  /\ Pending(t, "find")
  /\ LET found == {i \in Rows(table) : table[i] \in call[t].matching} IN
       Yields(t, Found({[id |-> i, content |-> table[i]] : i \in found}))
  /\ UNCHANGED table

\* The new meme takes an id no meme has; it may be one that a deleted meme had.
Add(t) ==
  /\ Pending(t, "add")
  /\ \E id \in Ids \ Rows(table) :
       /\ table' = [table EXCEPT ![id] = call[t].content]
       /\ Yields(t, Number(id))

Delete(t) ==
  /\ Pending(t, "delete")
  /\ table' = [i \in Ids |-> IF i = call[t].id THEN NoRow ELSE table[i]]
  /\ Yields(t, Number(0))

\* Updating a meme that is not there changes nothing and is a success.
Update(t) ==
  /\ Pending(t, "update")
  /\ table' = [i \in Ids |-> IF i = call[t].id /\ table[i] # NoRow
                             THEN call[t].content
                             ELSE table[i]]
  /\ Yields(t, Number(call[t].id))

\* An error of any kind.
Fail(t) ==
  /\ \/ /\ \E op \in {"add", "delete", "update"} : Pending(t, op)
        /\ Yields(t, Failure)
     \/ /\ \E op \in {"all", "find"} : Pending(t, op)
        /\ Yields(t, Found({}))
     \/ /\ Pending(t, "get")
        /\ \E meme \in Unfilled : Yields(t, Found({meme}))
  /\ UNCHANGED table

Return(t) ==
  /\ result[t] # NoResult
  /\ call' = [call EXCEPT ![t] = NoCall]
  /\ result' = [result EXCEPT ![t] = NoResult]
  /\ UNCHANGED table

\* The process ends and is started again.
Restart ==
  /\ call' = [t \in Threads |-> NoCall]
  /\ result' = [t \in Threads |-> NoResult]
  /\ UNCHANGED table

Next ==
  \/ \E t \in Threads :
       \/ \E c \in Calls : Invoke(t, c)
       \/ Get(t) \/ All(t) \/ Search(t) \/ Add(t) \/ Delete(t) \/ Update(t)
       \/ Fail(t) \/ Return(t)
  \/ Restart

Spec == Init /\ [][Next]_vars
=============================================================================
