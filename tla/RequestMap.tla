----------------------------- MODULE RequestMap -----------------------------
(***************************************************************************)
(* The request counters of the server: one std::map<uri, map<code, int>>   *)
(* owned by Server (include/server.h), written by every Session at the end *)
(* of handle_request and iterated by StatusHandler.  No lock protects it.  *)
(*                                                                         *)
(* The nested map is flattened: a key is a pair <<uri, status code>>, and  *)
(* request_map[k] = 0 says that the map has no entry for k (the code never *)
(* stores a 0).  A thread that records a request looks the key up, then    *)
(* either increments the entry, a load and a store, or inserts it with 1.  *)
(*                                                                         *)
(* Two threads in the tree at once is a data race when one of them inserts:*)
(* a traversal may then miss an entry, and two insertions that overlap may *)
(* leave any set of entries unreachable.  (That the process may also crash *)
(* is Server's business, see RaceCrash there.)                             *)
(***************************************************************************)
EXTENDS Naturals, FiniteSets

CONSTANTS
  Threads,   \* threads running io_service::run
  Keys,      \* pairs <<uri, status code>>
  MaxCount   \* bound: a key is recorded again only below this many times

ASSUME ThreadsAssumption == Threads # {} /\ IsFiniteSet(Threads)
ASSUME KeysAssumption == Keys # {} /\ IsFiniteSet(Keys)
ASSUME MaxCountAssumption == MaxCount \in Nat \ {0}

VARIABLES
  request_map,  \* the shared counters, 0 when there is no entry
  step,         \* what each thread is doing with the map
  key,          \* the key the thread is recording
  loaded,       \* the count the thread has loaded and not stored yet
  unread,       \* the entries a status report has not reached yet
  report,       \* the counts a status report has read
  served        \* history: requests whose recording has completed

vars == <<request_map, step, key, loaded, unread, report, served>>

Steps == {"out", "status", "find", "load", "store", "insert"}

NoCounts == [k \in Keys |-> 0]

TypeOK ==
  /\ request_map \in [Keys -> Nat]
  /\ step \in [Threads -> Steps]
  /\ key \in [Threads -> Keys]
  /\ loaded \in [Threads -> Nat]
  /\ unread \in [Threads -> SUBSET Keys]
  /\ report \in [Threads -> [Keys -> Nat]]
  /\ served \in [Keys -> Nat]

Init ==
  /\ request_map = NoCounts
  /\ step = [t \in Threads |-> "out"]
  /\ \E k \in Keys : key = [t \in Threads |-> k]
  /\ loaded = [t \in Threads |-> 0]
  /\ unread = [t \in Threads |-> {}]
  /\ report = [t \in Threads |-> NoCounts]
  /\ served = NoCounts

-----------------------------------------------------------------------------
\* Another thread is about to change the structure of the tree, so this
\* thread's walk through it may go wrong.
OthersInsert(t) == \E u \in Threads \ {t} : step[u] = "insert"

\* StatusHandler::requestInfoToString starts iterating.
BeginStatus(t) ==
  /\ step[t] = "out"
  /\ step' = [step EXCEPT ![t] = "status"]
  /\ unread' = [unread EXCEPT ![t] = Keys]
  /\ report' = [report EXCEPT ![t] = NoCounts]
  /\ UNCHANGED <<request_map, key, loaded, served>>

\* Mutant of ReadEntry: the page counts the request that asks for it.
ReadEntryCountsItself(t, k) ==
  /\ step[t] = "status"
  /\ k \in unread[t]
  /\ report' = [report EXCEPT ![t][k] = request_map[k] + 1]
  /\ unread' = [unread EXCEPT ![t] = @ \ {k}]
  /\ UNCHANGED <<request_map, step, key, loaded, served>>

\* One turn of the loop.  The entries are reached in the order of their
\* strings, which is not modelled: any order of the keys is allowed.
ReadEntry(t, k) ==
  /\ step[t] = "status"
  /\ k \in unread[t]
  /\ \E seen \in IF OthersInsert(t) THEN {0, request_map[k]} ELSE {request_map[k]} :
       report' = [report EXCEPT ![t][k] = seen]
  /\ unread' = [unread EXCEPT ![t] = @ \ {k}]
  /\ UNCHANGED <<request_map, step, key, loaded, served>>

\* The reply is ready: Session::handle_request comes to the counters.  The
\* request whose reply is the report records itself after having read.
BeginRecord(t, k) ==
  /\ \/ step[t] = "out"
     \/ step[t] = "status" /\ unread[t] = {}
  /\ served[k] < MaxCount
  /\ step' = [step EXCEPT ![t] = "find"]
  /\ key' = [key EXCEPT ![t] = k]
  /\ report' = [report EXCEPT ![t] = NoCounts]
  /\ UNCHANGED <<request_map, loaded, unread, served>>

\* The two finds.  They hit when the entry is there, unless the tree is being
\* rebalanced under them.
Find(t) ==
  /\ step[t] = "find"
  /\ \/ /\ request_map[key[t]] > 0
        /\ step' = [step EXCEPT ![t] = "load"]
     \/ /\ request_map[key[t]] = 0 \/ OthersInsert(t)
        /\ step' = [step EXCEPT ![t] = "insert"]
  /\ UNCHANGED <<request_map, key, loaded, unread, report, served>>

\* Mutant of Load: "++" before "+= 1".
LoadIncremented(t) ==
  /\ step[t] = "load"
  /\ loaded' = [loaded EXCEPT ![t] = request_map[key[t]] + 1]
  /\ step' = [step EXCEPT ![t] = "store"]
  /\ UNCHANGED <<request_map, key, unread, report, served>>

\* First half of "+= 1".
Load(t) ==
  /\ step[t] = "load"
  /\ loaded' = [loaded EXCEPT ![t] = request_map[key[t]]]
  /\ step' = [step EXCEPT ![t] = "store"]
  /\ UNCHANGED <<request_map, key, unread, report, served>>

\* The request of thread t is counted, as far as the thread knows.
Recorded(t) ==
  /\ served' = [served EXCEPT ![key[t]] = @ + 1]
  /\ step' = [step EXCEPT ![t] = "out"]
  /\ loaded' = [loaded EXCEPT ![t] = 0]
  /\ UNCHANGED <<key, unread, report>>

\* Mutant of Store: the count goes down.
StoreDecrements(t) ==
  /\ step[t] = "store"
  /\ request_map' = [request_map EXCEPT ![key[t]] = loaded[t] - 1]
  /\ Recorded(t)

\* Second half of "+= 1".  An entry that has become unreachable may take the
\* value without anyone seeing it.
Store(t) ==
  /\ step[t] = "store"
  /\ \/ request_map' = [request_map EXCEPT ![key[t]] = loaded[t] + 1]
     \/ request_map[key[t]] = 0 /\ UNCHANGED request_map
  /\ Recorded(t)

\* Mutant of Insert: the entry is created and the 1 is forgotten.
InsertZero(t) ==
  /\ step[t] = "insert"
  /\ UNCHANGED request_map
  /\ Recorded(t)

\* "(*request_map)[uri][code] = 1", whatever another thread stored meanwhile.
\* Insertions that overlap may lose entries.
Insert(t) ==
  /\ step[t] = "insert"
  /\ \E lost \in IF OthersInsert(t) THEN SUBSET Keys ELSE {{}} :
       request_map' = [k \in Keys |-> IF k \in lost THEN 0
                                      ELSE IF k = key[t] THEN 1
                                      ELSE request_map[k]]
  /\ Recorded(t)

\* Every key has reached the bound and nobody is in the map.
Finished ==
  /\ \A k \in Keys : served[k] >= MaxCount
  /\ \A t \in Threads : step[t] \in {"out", "status"} /\ unread[t] = {}
  /\ UNCHANGED vars

ThreadStep(t) ==
  \/ BeginStatus(t)
  \/ \E k \in Keys : ReadEntry(t, k)
  \/ \E k \in Keys : BeginRecord(t, k)
  \/ Find(t)
  \/ Load(t)
  \/ Store(t)
  \/ Insert(t)

Next == (\E t \in Threads : ThreadStep(t)) \/ Finished

Spec == Init /\ [][Next]_vars

-----------------------------------------------------------------------------
\* However the threads race, no counter is ahead of the requests of its key
\* that were served, not even for a thread that has loaded it and not stored
\* it back: updates can be lost, never invented (session.cc 99-108).
NoOvercount ==
  \A k \in Keys :
    /\ request_map[k] <= served[k]
    /\ \A t \in Threads : step[t] = "store" /\ key[t] = k => loaded[t] <= served[k]

\* A status page never shows more requests than were served, also when it is
\* read while other threads record theirs (status_handler.cc 46-53).
ReportNotAhead ==
  \A t \in Threads, k \in Keys : report[t][k] <= served[k]

\* The page shows "<URL, <STATUS_CODE, #_OF_REQUESTS_RECEIVED>>": each counter
\* is the number of requests of its key.  True of a server with one thread
\* only; with two, a store or an insertion overwrites another's.
ExactCounts == \A k \in Keys : request_map[k] = served[k]

\* With one thread the page is a consistent snapshot: no request is recorded
\* between the first and the last entry it shows.
ExactReport ==
  \A t \in Threads : step[t] = "status" =>
    \A k \in Keys \ unread[t] : report[t][k] = served[k]

\* Where the one thread stands between its lookup and its store, which is why
\* the two properties above are preserved.
OneThreadInvariant ==
  /\ ExactCounts
  /\ ExactReport
  /\ \A t \in Threads :
       /\ step[t] \in {"load", "store"} => request_map[key[t]] > 0
       /\ step[t] = "store" => loaded[t] = request_map[key[t]]
       /\ step[t] = "insert" => request_map[key[t]] = 0
=============================================================================
