------------------------------- MODULE Server -------------------------------
(***************************************************************************)
(* The running server: a pool of threads that all call io_service::run, the*)
(* acceptor, the sessions and the request counters.                        *)
(*                                                                         *)
(* Every completion handler runs on some thread of the pool that has       *)
(* nothing else to do.  A handler that serves a request keeps its thread   *)
(* until the reply is written, so a thread is "idle" or is in one of the   *)
(* stages of Session::handle_request.  Accepting and the signal handler are*)
(* short and are one step each.                                            *)
(*                                                                         *)
(* A request is what handle_request makes of the bytes that were read:     *)
(* whether Request::ParseRequest found it valid, and its URI.  The bytes   *)
(* are incomplete when the peer half-closed early: the handler is called   *)
(* all the same, start() binds it without the error code.                  *)
(***************************************************************************)
EXTENDS Naturals, FiniteSets, Routing

CONSTANTS
  ThreadPoolSize,  \* second argument of the program, 4 when absent
  Conn,            \* connections, each carries one request
  Resettable,      \* the connections whose peer may reset them
  MaxFds,          \* bound: descriptors left for connections
  Handlers,        \* the handler blocks of the configuration file
  Requests,        \* records [valid, uri]
  UpstreamCodes,   \* statuses a backend may send to the reverse proxy
  PromisedCodes,   \* the statuses each request may expect, whatever the code does
  NoConn, NoRequest

\* With an empty pool Server::run returns at once and main calls
\* io_service::run itself (server_main.cc 65-67).
Main == 0
Threads == IF ThreadPoolSize = 0 THEN {Main} ELSE 1..ThreadPoolSize

ASSUME PoolAssumption == ThreadPoolSize \in Nat
ASSUME ConnAssumption == Conn # {} /\ IsFiniteSet(Conn) /\ NoConn \notin Conn
ASSUME ResettableAssumption == Resettable \subseteq Conn
ASSUME MaxFdsAssumption == MaxFds \in Nat
ASSUME RequestsAssumption ==
  Requests # {} /\ IsFiniteSet(Requests) /\ NoRequest \notin Requests
ASSUME UpstreamAssumption ==
  UpstreamCodes \subseteq Nat \ {0} /\ IsFiniteSet(UpstreamCodes)

-----------------------------------------------------------------------------
\* A handler that returns a null reply.
Null == 0
NoCode == 0

\* The replies of each handler createByName knows, by their status.
Replies(name) ==
  CASE name \in {"echo", "sleep", "status", "health_check"} -> {200}
    [] name = "static"        -> {200, Null}
    [] name = "meme"          -> {200, 301, Null}
    [] name = "not_found"     -> {404}
    [] name = "bad_request"   -> {400}
    [] name = "reverse_proxy" -> {400, 500} \cup UpstreamCodes
    [] OTHER                  -> {}

\* For any other name createByName returns a null pointer.
IsKnown(name) == Replies(name) # {}

NameFor(r) == HandlerName(Handlers, r.uri)

\* "If failure, use NotFound Handler"
StatusOf(reply) == IF reply = Null THEN 404 ELSE reply

\* ParseRequest returns before it sets m_uri when the request is invalid, so
\* such requests are all counted under the empty URI.
KeyOf(r, code) == IF r.valid THEN <<r.uri, code>> ELSE <<<<>>, code>>

StatusCodesOf(r) ==
  IF r.valid THEN {StatusOf(reply) : reply \in Replies(NameFor(r))} ELSE {400}

Keys == UNION {{KeyOf(r, code) : code \in StatusCodesOf(r)} : r \in Requests}

Codes == {k[2] : k \in Keys}

\* Some request is answered: one that is invalid always is, with a 400.
ASSUME KeysAssumption == Keys # {}

-----------------------------------------------------------------------------
VARIABLES
  process,      \* "running", "exited" by exit(1), or "aborted" by a signal
  interrupted,  \* SIGINT was raised
  accepts,      \* asynchronous accepts in progress, a new Session for each
  conn,         \* state of each connection
  request,      \* what the peer sent on it
  reset,        \* the peer has reset it
  stage,        \* what each thread is doing
  session,      \* the connection whose request the thread is handling
  sent          \* the status that was written to the connection

VARIABLES request_map, step, key, loaded, unread, report, served

Stats == INSTANCE RequestMap WITH MaxCount <- Cardinality(Conn)

network == <<conn, request, reset, sent>>
pool == <<stage, session>>
counters == <<request_map, step, key, loaded, unread, report, served>>

vars == <<process, interrupted, accepts, network, pool, counters>>

ConnStates == {"none", "backlog", "open", "handled", "closed"}
Stages == {"idle", "handling", "counting", "writing"}

TypeOK ==
  /\ process \in {"running", "exited", "aborted"}
  /\ interrupted \in BOOLEAN
  /\ accepts \in Nat
  /\ conn \in [Conn -> ConnStates]
  /\ request \in [Conn -> Requests \cup {NoRequest}]
  /\ reset \in [Conn -> BOOLEAN]
  /\ stage \in [Threads -> Stages]
  /\ session \in [Threads -> Conn \cup {NoConn}]
  /\ sent \in [Conn -> Codes \cup {NoCode}]
  /\ Stats!TypeOK

Init ==
  /\ process = "running"
  /\ interrupted = FALSE
  /\ accepts = 1
  /\ conn = [c \in Conn |-> "none"]
  /\ request = [c \in Conn |-> NoRequest]
  /\ reset = [c \in Conn |-> FALSE]
  /\ stage = [t \in Threads |-> "idle"]
  /\ session = [t \in Threads |-> NoConn]
  /\ sent = [c \in Conn |-> NoCode]
  /\ Stats!Init

-----------------------------------------------------------------------------
(* The clients and the operator of the server. *)

Connect(c) ==
  /\ process = "running"
  /\ conn[c] = "none"
  /\ conn' = [conn EXCEPT ![c] = "backlog"]
  /\ UNCHANGED <<process, interrupted, accepts, request, reset, sent, pool, counters>>

SendRequest(c, r) ==
  /\ process = "running"
  /\ conn[c] \in {"backlog", "open"} /\ ~reset[c]
  /\ request[c] = NoRequest
  /\ request' = [request EXCEPT ![c] = r]
  /\ UNCHANGED <<process, interrupted, accepts, conn, reset, sent, pool, counters>>

Reset(c) ==
  /\ process = "running"
  /\ c \in Resettable
  /\ conn[c] \in {"backlog", "open", "handled"} /\ ~reset[c]
  /\ reset' = [reset EXCEPT ![c] = TRUE]
  /\ UNCHANGED <<process, interrupted, accepts, conn, request, sent, pool, counters>>

Interrupt ==
  /\ process = "running"
  /\ ~interrupted
  /\ interrupted' = TRUE
  /\ UNCHANGED <<process, accepts, network, pool, counters>>

-----------------------------------------------------------------------------
(* Server::handle_accept and the signal handler. *)

Idle(t) == process = "running" /\ stage[t] = "idle"

OpenFds == {c \in Conn : conn[c] \in {"open", "handled"}}

\* Mutant of HandleAccept: one accept is begun for the one completed.
HandleAcceptOnce(t, c) ==
  /\ Idle(t)
  /\ accepts > 0
  /\ conn[c] = "backlog"
  /\ Cardinality(OpenFds) < MaxFds
  /\ conn' = [conn EXCEPT ![c] = "open"]
  /\ accepts' = (accepts - 1) + 1
  /\ UNCHANGED <<process, interrupted, request, reset, sent, pool, counters>>

\* Mutant of HandleAccept: no accept is begun.
HandleAcceptLast(t, c) ==
  /\ Idle(t)
  /\ accepts > 0
  /\ conn[c] = "backlog"
  /\ Cardinality(OpenFds) < MaxFds
  /\ conn' = [conn EXCEPT ![c] = "open"]
  /\ accepts' = accepts - 1
  /\ UNCHANGED <<process, interrupted, request, reset, sent, pool, counters>>

\* An accept succeeds: the session starts to read, and both handle_accept and
\* the start_accept it ends with begin another accept.
HandleAccept(t, c) ==
  /\ Idle(t)
  /\ accepts > 0
  /\ conn[c] = "backlog"
  /\ Cardinality(OpenFds) < MaxFds
  /\ conn' = [conn EXCEPT ![c] = "open"]
  /\ accepts' = (accepts - 1) + 2
  /\ UNCHANGED <<process, interrupted, request, reset, sent, pool, counters>>

\* No descriptor is left for the connection: the session of this accept is
\* deleted and start_accept makes another one.
HandleAcceptError(t, c) ==
  /\ Idle(t)
  /\ accepts > 0
  /\ conn[c] = "backlog"
  /\ Cardinality(OpenFds) >= MaxFds
  /\ accepts' = (accepts - 1) + 1
  /\ UNCHANGED <<process, interrupted, network, pool, counters>>

\* Mutant of HandleSignal: the server stops when no connection is left.
HandleSignalWhenQuiet(t) ==
  /\ Idle(t)
  /\ interrupted
  /\ OpenFds = {}
  /\ process' = "exited"
  /\ UNCHANGED <<interrupted, accepts, network, pool, counters>>

\* The handler of SIGINT waits for a thread like any other.
HandleSignal(t) ==
  /\ Idle(t)
  /\ interrupted
  /\ process' = "exited"
  /\ UNCHANGED <<interrupted, accepts, network, pool, counters>>

-----------------------------------------------------------------------------
(* Session::handle_request. *)

\* An exception nobody catches ends a thread of the pool and the process with
\* it; on the main thread main catches it and calls exit(1).
Uncaught(t) == IF t = Main THEN "exited" ELSE "aborted"

CanRead(t, c) ==
  /\ Idle(t)
  /\ conn[c] = "open"

\* The peer is gone: remote_endpoint throws, whatever was read.
LosePeer(t, c) ==
  /\ CanRead(t, c)
  /\ reset[c]
  /\ process' = Uncaught(t)
  /\ UNCHANGED <<interrupted, accepts, network, pool, counters>>

HasRequest(t, c) ==
  /\ CanRead(t, c)
  /\ ~reset[c] /\ request[c] # NoRequest

\* No location matches, or the name is not one of a handler: the handler
\* pointer is null and is dereferenced.
Misroute(t, c) ==
  /\ HasRequest(t, c)
  /\ request[c].valid /\ ~IsKnown(NameFor(request[c]))
  /\ process' = "aborted"
  /\ UNCHANGED <<interrupted, accepts, network, pool, counters>>

StartSession(t, c, s) ==
  /\ conn' = [conn EXCEPT ![c] = "handled"]
  /\ session' = [session EXCEPT ![t] = c]
  /\ stage' = [stage EXCEPT ![t] = s]
  /\ UNCHANGED <<process, interrupted, accepts, request, reset, sent>>

\* An invalid request goes to the bad_request handler.
Reject(t, c) ==
  /\ HasRequest(t, c)
  /\ ~request[c].valid
  /\ StartSession(t, c, "counting")
  /\ Stats!BeginRecord(t, KeyOf(request[c], 400))

\* A valid one to the handler with the longest location.
Dispatch(t, c) ==
  /\ HasRequest(t, c)
  /\ request[c].valid /\ IsKnown(NameFor(request[c]))
  /\ StartSession(t, c, "handling")
  /\ IF NameFor(request[c]) = "status"
     THEN Stats!BeginStatus(t)
     ELSE UNCHANGED counters

In(t, s) == process = "running" /\ stage[t] = s

\* StatusHandler reads the counters while others write them.
ReadCounter(t) ==
  /\ In(t, "handling")
  /\ \E k \in Keys : Stats!ReadEntry(t, k)
  /\ UNCHANGED <<process, interrupted, accepts, network, pool>>

\* The handler returns, after any time for those that sleep, read files, open
\* the database or call a backend.
HandlerReturns(t) ==
  /\ In(t, "handling")
  /\ LET r == request[session[t]] IN
       \E reply \in Replies(NameFor(r)) :
         Stats!BeginRecord(t, KeyOf(r, StatusOf(reply)))
  /\ stage' = [stage EXCEPT ![t] = "counting"]
  /\ UNCHANGED <<process, interrupted, accepts, network, session>>

\* The reverse proxy takes a backend's response apart with stoi and substr,
\* which throw when it is not what they expect.
HandlerThrows(t) ==
  /\ In(t, "handling")
  /\ NameFor(request[session[t]]) = "reverse_proxy"
  /\ process' = Uncaught(t)
  /\ UNCHANGED <<interrupted, accepts, network, pool, counters>>

LookUp(t) ==
  /\ In(t, "counting")
  /\ Stats!Find(t) \/ Stats!Load(t)
  /\ UNCHANGED <<process, interrupted, accepts, network, pool>>

\* Mutant of Count: the thread is freed without writing.
CountWithoutReply(t) ==
  /\ In(t, "counting")
  /\ Stats!Store(t) \/ Stats!Insert(t)
  /\ stage' = [stage EXCEPT ![t] = "idle"]
  /\ session' = [session EXCEPT ![t] = NoConn]
  /\ UNCHANGED <<process, interrupted, accepts, network>>

Count(t) ==
  /\ In(t, "counting")
  /\ Stats!Store(t) \/ Stats!Insert(t)
  /\ stage' = [stage EXCEPT ![t] = "writing"]
  /\ UNCHANGED <<process, interrupted, accepts, network, session>>

\* Mutant of WriteReply: the status line is that of the empty Reply.
WriteReplyOk(t) ==
  /\ In(t, "writing")
  /\ ~reset[session[t]]
  /\ sent' = [sent EXCEPT ![session[t]] = 200]
  /\ conn' = [conn EXCEPT ![session[t]] = "closed"]
  /\ stage' = [stage EXCEPT ![t] = "idle"]
  /\ session' = [session EXCEPT ![t] = NoConn]
  /\ UNCHANGED <<process, interrupted, accepts, request, reset, counters>>

\* Mutant of WriteReply: every reply is taken for a failure.
WriteReplyNotFound(t) ==
  /\ In(t, "writing")
  /\ ~reset[session[t]]
  /\ sent' = [sent EXCEPT ![session[t]] = StatusOf(Null)]
  /\ conn' = [conn EXCEPT ![session[t]] = "closed"]
  /\ stage' = [stage EXCEPT ![t] = "idle"]
  /\ session' = [session EXCEPT ![t] = NoConn]
  /\ UNCHANGED <<process, interrupted, accepts, request, reset, counters>>

\* Mutant of WriteReply: the thread keeps the session it has closed.
WriteReplyKeepsSession(t) ==
  /\ In(t, "writing")
  /\ ~reset[session[t]]
  /\ sent' = [sent EXCEPT ![session[t]] = key[t][2]]
  /\ conn' = [conn EXCEPT ![session[t]] = "closed"]
  /\ stage' = [stage EXCEPT ![t] = "idle"]
  /\ UNCHANGED <<process, interrupted, accepts, session, request, reset, counters>>

\* write_string: the reply is written and the socket closed.
WriteReply(t) ==
  /\ In(t, "writing")
  /\ ~reset[session[t]]
  /\ sent' = [sent EXCEPT ![session[t]] = key[t][2]]
  /\ conn' = [conn EXCEPT ![session[t]] = "closed"]
  /\ stage' = [stage EXCEPT ![t] = "idle"]
  /\ session' = [session EXCEPT ![t] = NoConn]
  /\ UNCHANGED <<process, interrupted, accepts, request, reset, counters>>

\* The peer is gone: asio::write throws.
WriteFails(t) ==
  /\ In(t, "writing")
  /\ reset[session[t]]
  /\ process' = Uncaught(t)
  /\ UNCHANGED <<interrupted, accepts, network, pool, counters>>

\* A thread inserts into the tree while another is in it: besides losing
\* entries (RequestMap), the process may die.
RaceCrash(t) ==
  /\ process = "running"
  /\ step[t] # "out"
  /\ \E u \in Threads \ {t} : step[u] = "insert"
  /\ process' = "aborted"
  /\ UNCHANGED <<interrupted, accepts, network, pool, counters>>

\* Nothing happens in a process that has ended, and nothing more in one that
\* has served every connection there is.
Quiet ==
  /\ process # "running" \/ \A c \in Conn : conn[c] = "closed"
  /\ UNCHANGED vars

-----------------------------------------------------------------------------
Client ==
  \/ \E c \in Conn : Connect(c) \/ Reset(c) \/ \E r \in Requests : SendRequest(c, r)
  \/ Interrupt

Accepting(t) ==
  \E c \in Conn : HandleAccept(t, c) \/ HandleAcceptError(t, c)

Handling(t, c) ==
  LosePeer(t, c) \/ Misroute(t, c) \/ Reject(t, c) \/ Dispatch(t, c)

InSession(t) ==
  \/ ReadCounter(t) \/ HandlerReturns(t) \/ HandlerThrows(t)
  \/ LookUp(t) \/ Count(t) \/ WriteReply(t) \/ WriteFails(t)

Next ==
  \/ Client
  \/ \E t \in Threads :
       \/ Accepting(t)
       \/ HandleSignal(t)
       \/ \E c \in Conn : Handling(t, c)
       \/ InSession(t)
       \/ RaceCrash(t)
  \/ Quiet

Spec == Init /\ [][Next]_vars

\* A thread in a session goes on, handlers return, and io_service runs its
\* completion handlers in the order they became ready, so that none waits for
\* ever while threads become idle.  Clients and the operator owe nothing.
Fairness ==
  /\ \A t \in Threads : WF_vars(InSession(t))
  /\ \A c \in Conn : WF_vars(\E t \in Threads : HandleAccept(t, c))
  /\ \A c \in Conn : WF_vars(\E t \in Threads : Handling(t, c))
  /\ WF_vars(\E t \in Threads : HandleSignal(t))

FairSpec == Spec /\ Fairness

-----------------------------------------------------------------------------
Accepted == {c \in Conn : conn[c] \in {"open", "handled", "closed"}}

\* Every connection ever accepted has left one more accept in progress, with
\* its Session, behind: handle_accept begins two accepts for the one it
\* completes (server.cc 44-48 and 54).  So the server never stops listening,
\* and what it holds grows with the connections it has ever had.
AcceptLedger == accepts = 1 + Cardinality(Accepted)

\* A session is run by one thread, from the moment its request is taken until
\* its socket is closed; no reply can go to another session's client.
SessionCustody ==
  /\ \A t \in Threads : session[t] = NoConn <=> stage[t] = "idle"
  /\ \A t, u \in Threads : session[t] = session[u] => t = u \/ stage[t] = "idle"
  /\ \A c \in Conn : conn[c] = "handled" <=> \E t \in Threads : session[t] = c

\* The replies with this URI and status: sent, or counted and about to be.
RepliedAs(k) ==
  {c \in Conn : conn[c] = "closed" /\ KeyOf(request[c], sent[c]) = k}
    \cup {session[t] : t \in {u \in Threads : stage[u] = "writing" /\ key[u] = k}}

\* A counter of the status page is never ahead of the replies with its URI and
\* status, across all sessions and threads (session.cc 98-110).
CountersNotAhead == \A k \in Keys : request_map[k] <= Cardinality(RepliedAs(k))

\* With one thread it is the number of those replies.
CountersMatchReplies == \A k \in Keys : request_map[k] = Cardinality(RepliedAs(k))

\* Why: each request recorded by RequestMap belongs to one reply.
ServedMatchesReplies == \A k \in Keys : served[k] = Cardinality(RepliedAs(k))

\* With one thread the status page is a consistent snapshot, and the thread
\* finds the counters as it left them between its lookup and its store
\* (session.cc 98-108, status_handler.cc 41-60).
ExactReport == Stats!ExactReport
OneThreadInvariant == Stats!OneThreadInvariant

\* One thread, a known handler for every URI: the process does not die of a
\* signal (session.cc 80-83, server_main.cc 73-77).
NeverAborts == process # "aborted"

\* With descriptors for every connection, a request is answered unless the
\* process ends.
Answered ==
  \A c \in Conn : request[c] # NoRequest ~> (sent[c] # NoCode \/ process # "running")

\* SIGINT ends the process, however busy the threads are when it comes
\* (server_main.cc 19-25 and 55-58).
InterruptStops == interrupted ~> process # "running"

\* What the clients see of all this is WebService: each request is answered at
\* most once, with a status promised for that very request, and not after the
\* process has ended (session.cc 43-136).
Service == INSTANCE WebService
  WITH up <- process = "running", asked <- request, answer <- sent

ImplementsService == Service!Spec
=============================================================================
