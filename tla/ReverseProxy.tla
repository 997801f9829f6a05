---------------------------- MODULE ReverseProxy ----------------------------
(***************************************************************************)
(* ReverseProxyHandler::HandleRequest on the threads of a pool, when the   *)
(* server it forwards to may be the one it runs in: dev_backend_config     *)
(* listens on port 8081 and forwards to localhost, port 8081, and a        *)
(* redirect can name any server.                                           *)
(*                                                                         *)
(* A request is a number of location prefixes: each pass through the proxy *)
(* removes one, and a request with none left is for another handler.  The  *)
(* calls are synchronous, so a thread that forwards to its own server waits*)
(* for another thread of its own pool.  A redirect is followed by a call of*)
(* HandleRequest inside the first, whose socket stays open meanwhile.      *)
(***************************************************************************)
EXTENDS Naturals, FiniteSets

CONSTANTS
  Threads,       \* the pool
  Clients,       \* each sends one request
  Prefixes,      \* how many location prefixes the request of each client has
  Servers,       \* what the block of the handler may name, records [host, port]
  Self,          \* the records [host, port] that lead to this server
  Reachable,     \* the hosts the resolver finds
  Responses,     \* what another server may answer
  OwnResponses,  \* what the other handlers of this server answer
  MaxFds,        \* bound: descriptors for connections, accepted or made
  Nobody, NoResponse

ASSUME ProxyAssumption ==
  /\ Threads # {} /\ IsFiniteSet(Threads) /\ IsFiniteSet(Clients)
  /\ Threads \cap Clients = {} /\ Nobody \notin Threads \cup Clients
  /\ Prefixes \in [Clients -> Nat]
  /\ MaxFds \in Nat

VARIABLES
  config,    \* the server named in the handler's block
  up,        \* the process runs
  backlog,   \* requests no thread has taken: of clients, and of waiting threads
  source,    \* whose request each thread serves
  prefixes,  \* prefixes in the URI of its innermost call of HandleRequest
  stage,     \* how far that call is
  server,    \* host_name and port_name
  calls,     \* sockets of its nested calls that are open
  response,  \* what was read, or the reply that is about to be written
  answer     \* the status each client was sent

vars == <<config, up, backlog, source, prefixes, stage, server, calls, response, answer>>

Stages == {"idle", "other", "connect", "exchange", "parse", "reply"}

NoAnswer == 0

\* A response is a status and the Location header: [scheme, host, prefixes],
\* where a relative one has no scheme and the host "".  A port in it counts as
\* a part of the host.
NoLocation == [scheme |-> "absent", host |-> "", prefixes |-> 0]
WithStatus(code) == [status |-> code, location |-> NoLocation]

\* No number where the status should be, or a header cut short.
Garbled == WithStatus(0)

ASSUME ResponsesAssumption ==
  /\ \A r \in Responses \cup OwnResponses :
       /\ r = [status |-> r.status, location |-> r.location]
       /\ r.status \in Nat /\ r.location.prefixes \in Nat
  /\ \A r \in OwnResponses : r.status # NoAnswer
  /\ NoResponse \notin Responses \cup OwnResponses
  /\ NoResponse \notin [status : Nat, location : {NoLocation}]

\* The connection a thread has accepted, and those its nested calls have made.
Sockets ==
  {<<t, 0>> : t \in {u \in Threads : source[u] # Nobody}}
    \cup UNION {{t} \X (1..calls[t]) : t \in Threads}

OpenFds == Cardinality(Sockets)

TypeOK ==
  /\ config \in Servers /\ up \in BOOLEAN
  /\ backlog \subseteq Clients \cup Threads
  /\ source \in [Threads -> Clients \cup Threads \cup {Nobody}]
  /\ prefixes \in [Threads -> Nat]
  /\ stage \in [Threads -> Stages]
  /\ calls \in [Threads -> Nat] /\ OpenFds <= MaxFds
  /\ \A t \in Threads :
       response[t] = NoResponse <=> stage[t] \notin {"parse", "reply"}
  /\ answer \in [Clients -> Nat]

Init ==
  /\ config \in Servers
  /\ up = TRUE
  /\ backlog = Clients
  /\ source = [t \in Threads |-> Nobody]
  /\ prefixes = [t \in Threads |-> 0]
  /\ stage = [t \in Threads |-> "idle"]
  /\ server = [t \in Threads |-> config]
  /\ calls = [t \in Threads |-> 0]
  /\ response = [t \in Threads |-> NoResponse]
  /\ answer = [c \in Clients |-> NoAnswer]

-----------------------------------------------------------------------------
In(t, s) == up /\ stage[t] = s

\* Mutant of Forwarded: the prefix is left in the path.
ForwardedWhole(n) == n

\* GetPath: the request that is sent on has one prefix less.
Forwarded(n) == n - 1

PrefixesOf(j) == IF j \in Clients THEN Prefixes[j] ELSE Forwarded(prefixes[j])

\* Mutant of Take: the handler of an earlier request is used again.
TakeWithOldHandler(t, j) ==
  /\ In(t, "idle") /\ j \in backlog /\ OpenFds < MaxFds
  /\ backlog' = backlog \ {j}
  /\ source' = [source EXCEPT ![t] = j]
  /\ prefixes' = [prefixes EXCEPT ![t] = PrefixesOf(j)]
  /\ stage' = [stage EXCEPT ![t] = IF PrefixesOf(j) = 0 THEN "other" ELSE "connect"]
  /\ UNCHANGED <<config, up, server, calls, response, answer>>

\* A thread takes up a request, routes it and creates its handler, which
\* reads host and port from the configuration.
Take(t, j) ==
  /\ In(t, "idle") /\ j \in backlog /\ OpenFds < MaxFds
  /\ backlog' = backlog \ {j}
  /\ source' = [source EXCEPT ![t] = j]
  /\ prefixes' = [prefixes EXCEPT ![t] = PrefixesOf(j)]
  /\ stage' = [stage EXCEPT ![t] = IF PrefixesOf(j) = 0 THEN "other" ELSE "connect"]
  /\ server' = [server EXCEPT ![t] = config]
  /\ UNCHANGED <<config, up, calls, response, answer>>

\* The redirects of the other handlers, to a page of memes, lead to no other.
OtherHandler(t, r) ==
  /\ In(t, "other")
  /\ (source[t] \in Threads /\ calls[source[t]] > 1) => r.location = NoLocation
  /\ response' = [response EXCEPT ![t] = r]
  /\ stage' = [stage EXCEPT ![t] = "reply"]
  /\ UNCHANGED <<config, up, backlog, source, prefixes, server, calls, answer>>

\* Mutant of Connect: a nested call reuses the socket of the one around it.
ConnectInPlace(t) ==
  /\ In(t, "connect")
  /\ server[t].host \in Reachable /\ OpenFds < MaxFds
  /\ calls' = [calls EXCEPT ![t] = 1]
  /\ stage' = [stage EXCEPT ![t] = "exchange"]
  /\ backlog' = IF server[t] \in Self THEN backlog \cup {t} ELSE backlog
  /\ UNCHANGED <<config, up, source, prefixes, server, response, answer>>

\* The call connects and sends its request.  Connecting to this very server
\* needs no thread: the connection waits in the backlog.
Connect(t) ==
  /\ In(t, "connect")
  /\ server[t].host \in Reachable /\ OpenFds < MaxFds
  /\ calls' = [calls EXCEPT ![t] = @ + 1]
  /\ stage' = [stage EXCEPT ![t] = "exchange"]
  /\ backlog' = IF server[t] \in Self THEN backlog \cup {t} ELSE backlog
  /\ UNCHANGED <<config, up, source, prefixes, server, response, answer>>

\* Mutant of Return: the reply was moved into an inner call.
ReturnMoved(t, code) ==
  /\ calls' = [calls EXCEPT ![t] = 0]
  /\ stage' = [stage EXCEPT ![t] = "reply"]
  /\ UNCHANGED <<config, up, backlog, source, prefixes, server, response, answer>>

\* HandleRequest returns through all the calls around it, and every socket is
\* closed.  Of the headers only Content-Type is passed on.
Return(t, code) ==
  /\ calls' = [calls EXCEPT ![t] = 0]
  /\ response' = [response EXCEPT ![t] = WithStatus(code)]
  /\ stage' = [stage EXCEPT ![t] = "reply"]
  /\ UNCHANGED <<config, up, backlog, source, prefixes, server, answer>>

\* The host is not found, there is no descriptor, or another server refuses.
ConnectFails(t) ==
  /\ In(t, "connect")
  /\ \/ server[t].host \notin Reachable
     \/ OpenFds >= MaxFds
     \/ server[t] \notin Self
  /\ Return(t, 500)

\* Another server answers and closes the connection, which ends the read.
Respond(t, r) ==
  /\ In(t, "exchange") /\ server[t] \notin Self
  /\ response' = [response EXCEPT ![t] = r]
  /\ stage' = [stage EXCEPT ![t] = "parse"]
  /\ UNCHANGED <<config, up, backlog, source, prefixes, server, calls, answer>>

\* Another server resets the connection: the write or the read fails.
ExchangeFails(t) ==
  /\ In(t, "exchange") /\ server[t] \notin Self
  /\ Return(t, 500)

\* Nobody catches what stoi and substr throw.
ParseThrows(t) ==
  /\ In(t, "parse") /\ response[t] = Garbled
  /\ up' = FALSE
  /\ UNCHANGED <<config, backlog, source, prefixes, stage, server, calls, response, answer>>

Relay(t) ==
  /\ In(t, "parse") /\ response[t] # Garbled
  /\ response[t].location = NoLocation
  /\ Return(t, response[t].status)

\* GetNewHostAndPath: a port 443 set by one redirect stays for the next ones.
\* The empty host of a relative Location is the loopback address.
NewServer(old, location) ==
  [host |-> location.host,
   port |-> IF location.scheme = "https" THEN "443" ELSE old.port]

\* Whatever the status, a Location is followed, by HandleRequest calling
\* itself on uri_prefix and the new path.
Follow(t) ==
  /\ In(t, "parse") /\ response[t] # Garbled
  /\ response[t].location # NoLocation
  /\ server' = [server EXCEPT ![t] = NewServer(@, response[t].location)]
  /\ prefixes' = [prefixes EXCEPT ![t] = 1 + response[t].location.prefixes]
  /\ response' = [response EXCEPT ![t] = NoResponse]
  /\ stage' = [stage EXCEPT ![t] = "connect"]
  /\ UNCHANGED <<config, up, backlog, source, calls, answer>>

Release(t) ==
  /\ source' = [source EXCEPT ![t] = Nobody]
  /\ UNCHANGED <<config, up, backlog, prefixes, server, calls>>

ReplyToClient(t) ==
  /\ In(t, "reply") /\ source[t] \in Clients
  /\ answer' = [answer EXCEPT ![source[t]] = response[t].status]
  /\ stage' = [stage EXCEPT ![t] = "idle"]
  /\ response' = [response EXCEPT ![t] = NoResponse]
  /\ Release(t)

\* Mutant of ReplyToThread: the thread that waits is not told.
ReplyToNobody(t) ==
  /\ In(t, "reply") /\ source[t] \in Threads
  /\ stage' = [stage EXCEPT ![t] = "idle"]
  /\ response' = [response EXCEPT ![t] = NoResponse]
  /\ Release(t)
  /\ UNCHANGED answer

\* The reply goes to a thread of this pool, which can go on.
ReplyToThread(t) ==
  /\ In(t, "reply") /\ source[t] \in Threads
  /\ stage' = [stage EXCEPT ![t] = "idle", ![source[t]] = "parse"]
  /\ response' = [response EXCEPT ![t] = NoResponse, ![source[t]] = response[t]]
  /\ Release(t)
  /\ UNCHANGED answer

Quiet ==
  /\ ~up \/ \A c \in Clients : answer[c] # NoAnswer
  /\ UNCHANGED vars

-----------------------------------------------------------------------------
Backend(t) == ExchangeFails(t) \/ \E r \in Responses : Respond(t, r)

Work(t) ==
  \/ \E r \in OwnResponses : OtherHandler(t, r)
  \/ Connect(t) \/ ConnectFails(t)
  \/ ParseThrows(t) \/ Relay(t) \/ Follow(t)
  \/ ReplyToClient(t) \/ ReplyToThread(t)

Next ==
  \/ \E t \in Threads : Work(t) \/ Backend(t)
  \/ \E t \in Threads, j \in Clients \cup Threads : Take(t, j)
  \/ Quiet

Spec == Init /\ [][Next]_vars

\* A thread that need not wait goes on, a request in the backlog is taken when
\* threads become idle, and other servers answer or close in the end.  That
\* the redirects end is not assumed.
Fairness ==
  /\ \A t \in Threads : WF_vars(Work(t)) /\ WF_vars(Backend(t))
  /\ \A j \in Clients \cup Threads : WF_vars(\E t \in Threads : Take(t, j))

FairSpec == Spec /\ Fairness

-----------------------------------------------------------------------------
\* The thread waits for another thread of its own pool.
WaitsForPool(t) == stage[t] = "exchange" /\ server[t] \in Self

Holders(j) == {t \in Threads : source[t] = j}

\* A request is in the backlog, with one thread, or answered, and never two of
\* these; that goes for the requests threads send to their own pool too, and
\* no thread waits for a reply nobody will write
\* (reverse_proxy_handler.cc 66-75 on both ends of the same connection).
OneServerPerRequest ==
  /\ \A c \in Clients :
       Cardinality(Holders(c)) = IF c \in backlog \/ answer[c] # NoAnswer THEN 0 ELSE 1
  /\ \A t \in Threads :
       Cardinality(Holders(t)) = IF WaitsForPool(t) /\ t \notin backlog THEN 1 ELSE 0
  /\ \A t \in Threads : t \in backlog => WaitsForPool(t)
  /\ \A c \in Clients : c \in backlog => answer[c] = NoAnswer

\* With more threads than there can be requests inside the proxy at a time,
\* some thread of the pool is always free to serve what the others wait for
\* (reverse_proxy_handler.cc 66, dev_backend_config).
PoolNeverExhausted == \E t \in Threads : ~WaitsForPool(t)

\* Every request is first sent to the configured backend, whatever redirects
\* the thread has followed for the requests before it: host_name and
\* port_name, which GetNewHostAndPath overwrites, belong to one request
\* (reverse_proxy_handler.cc 15-16, 193-205; session.cc 80).
FirstCallGoesToBackend ==
  \A t \in Threads :
    \/ stage[t] = "connect" /\ calls[t] = 0
    \/ stage[t] = "exchange" /\ calls[t] = 1
    => server[t] = config

\* Every request is answered although HandleRequest follows redirects without
\* a limit: each call keeps its socket, so a chain that does not end runs out
\* of descriptors and becomes a 500 (reverse_proxy_handler.cc 62-69, 179).
ProxiedRequestsEnd ==
  \A c \in Clients : <>(answer[c] # NoAnswer \/ ~up)
=============================================================================
