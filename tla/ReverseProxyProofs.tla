-------------------------- MODULE ReverseProxyProofs ------------------------
(***************************************************************************)
(* For every pool, every set of clients and whatever other servers answer: *)
(* the first call of every request goes to the configured backend, and one *)
(* thread serves each request, also those the threads send to themselves.  *)
(* And a pool that is large enough never waits for itself.                 *)
(***************************************************************************)
EXTENDS ReverseProxy, FiniteSetTheorems, TLAPS

Sources == Clients \cup Threads

\* The stages in which no socket of the proxy is open.
Quiescent == {"idle", "other", "reply"}

Shape ==
  /\ backlog \subseteq Sources
  /\ source \in [Threads -> Sources \cup {Nobody}]
  /\ stage \in [Threads -> Stages]
  /\ calls \in [Threads -> Nat]
  /\ DOMAIN server = Threads

\* A thread whose request is in the backlog, or with another thread, waits for
\* the answer; nobody else has the same request.
Waits ==
  /\ \A t \in Threads : t \in backlog => WaitsForPool(t)
  /\ \A t \in Threads : source[t] \in Threads => WaitsForPool(source[t])
  /\ \A t, u \in Threads : source[t] = source[u] /\ source[t] # Nobody => t = u
  /\ \A t \in Threads : source[t] \notin backlog

\* The sockets that are open tell how many calls deep a thread is.
Depth ==
  \A t \in Threads :
    /\ stage[t] \in Quiescent => calls[t] = 0
    /\ stage[t] \in {"exchange", "parse"} => calls[t] > 0

IInv == Shape /\ Waits /\ Depth /\ FirstCallGoesToBackend

\* The invariant of the waiting threads and of the calls they are in.
THEOREM ProxyInvariant == Spec => []IInv
<1>1. Init => IInv
  BY ProxyAssumption DEF Init, IInv, Shape, Waits, Depth, FirstCallGoesToBackend,
     WaitsForPool, Quiescent, Stages, Sources
<1>2. IInv /\ [Next]_vars => IInv'
  <2> SUFFICES ASSUME IInv, [Next]_vars PROVE IInv'
    OBVIOUS
  <2> USE ProxyAssumption DEF IInv, Shape, Sources, Stages, Quiescent, In
  <2>1. ASSUME NEW t \in Threads, NEW j \in Sources, Take(t, j) PROVE IInv'
    <3> USE <2>1 DEF Take
    <3>1. Shape'
      OBVIOUS
    <3>2. Waits'
      BY DEF Waits, WaitsForPool
    <3>3. Depth'
      BY DEF Depth
    <3>4. FirstCallGoesToBackend'
      BY DEF Depth, FirstCallGoesToBackend
    <3> QED BY <3>1, <3>2, <3>3, <3>4
  <2>2. ASSUME NEW t \in Threads, NEW r \in OwnResponses, OtherHandler(t, r) PROVE IInv'
    <3> USE <2>2 DEF OtherHandler
    <3>1. Shape' /\ Depth'
      BY DEF Depth
    <3>2. Waits'
      BY DEF Waits, WaitsForPool
    <3>3. FirstCallGoesToBackend'
      BY DEF FirstCallGoesToBackend
    <3> QED BY <3>1, <3>2, <3>3
  <2>3. ASSUME NEW t \in Threads, Connect(t) PROVE IInv'
    <3>1. /\ stage[t] = "connect"
          /\ calls' = [calls EXCEPT ![t] = @ + 1]
          /\ stage' = [stage EXCEPT ![t] = "exchange"]
          /\ \A j : j \in backlog' <=> j \in backlog \/ (j = t /\ server[t] \in Self)
          /\ UNCHANGED <<config, source, server>>
      BY <2>3 DEF Connect
    <3>2. Shape' /\ Depth'
      BY <3>1 DEF Depth
    <3>3. Waits'
      BY <3>1 DEF Waits, WaitsForPool
    <3>4. FirstCallGoesToBackend'
      BY <3>1 DEF FirstCallGoesToBackend
    <3> QED BY <3>2, <3>3, <3>4
  <2>4. ASSUME NEW t \in Threads, NEW code, Return(t, code), ~WaitsForPool(t)
        PROVE  IInv'
    <3> USE <2>4 DEF Return
    <3>1. Shape' /\ Depth'
      BY DEF Depth
    <3>2. Waits'
      BY DEF Waits, WaitsForPool
    <3>3. FirstCallGoesToBackend'
      BY DEF FirstCallGoesToBackend
    <3> QED BY <3>1, <3>2, <3>3
  <2>5. ASSUME NEW t \in Threads, NEW r \in Responses, Respond(t, r) PROVE IInv'
    <3> USE <2>5 DEF Respond
    <3>1. Shape' /\ Depth'
      BY DEF Depth
    <3>2. Waits'
      BY DEF Waits, WaitsForPool
    <3>3. FirstCallGoesToBackend'
      BY DEF FirstCallGoesToBackend
    <3> QED BY <3>1, <3>2, <3>3
  <2>6. ASSUME NEW t \in Threads, Follow(t) PROVE IInv'
    <3>1. /\ stage[t] = "parse"
          /\ DOMAIN server' = Threads
          /\ \A u \in Threads : u # t => server'[u] = server[u]
          /\ stage' = [stage EXCEPT ![t] = "connect"]
          /\ UNCHANGED <<config, backlog, source, calls>>
      BY <2>6 DEF Follow
    <3>2. Shape' /\ Depth'
      BY <3>1 DEF Depth
    <3>3. Waits'
      BY <3>1 DEF Waits, WaitsForPool
    <3>4. FirstCallGoesToBackend'
      <4> SUFFICES ASSUME NEW u \in Threads,
                          \/ stage'[u] = "connect" /\ calls'[u] = 0
                          \/ stage'[u] = "exchange" /\ calls'[u] = 1
                   PROVE  server'[u] = config'
        BY DEF FirstCallGoesToBackend
      <4>1. u # t
        BY <3>1 DEF Depth
      <4>2. server'[u] = server[u] /\ stage'[u] = stage[u]
        BY <3>1, <4>1
      <4> QED BY <3>1, <4>2 DEF FirstCallGoesToBackend
    <3> QED BY <3>2, <3>3, <3>4
  <2>7. ASSUME NEW t \in Threads, ReplyToClient(t) PROVE IInv'
    <3> USE <2>7 DEF ReplyToClient, Release
    <3>1. Shape' /\ Depth'
      BY DEF Depth
    <3>2. Waits'
      BY DEF Waits, WaitsForPool
    <3>3. FirstCallGoesToBackend'
      BY DEF FirstCallGoesToBackend
    <3> QED BY <3>1, <3>2, <3>3
  <2>8. ASSUME NEW t \in Threads, ReplyToThread(t) PROVE IInv'
    <3> USE <2>8 DEF ReplyToThread, Release
    <3> DEFINE w == source[t]
    <3>1. w \in Threads /\ w # t /\ stage[w] = "exchange" /\ w \notin backlog
      BY DEF Waits, WaitsForPool
    <3>2. Shape' /\ Depth'
      BY <3>1 DEF Depth
    <3>3. Waits'
      BY <3>1 DEF Waits, WaitsForPool
    <3>4. FirstCallGoesToBackend'
      BY <3>1 DEF FirstCallGoesToBackend
    <3> QED BY <3>2, <3>3, <3>4
  <2>9. CASE UNCHANGED <<config, backlog, source, stage, server, calls>>
    <3>1. Shape' /\ Depth'
      BY <2>9 DEF Depth
    <3>2. Waits'
      BY <2>9 DEF Waits, WaitsForPool
    <3>3. FirstCallGoesToBackend'
      BY <2>9 DEF FirstCallGoesToBackend
    <3> QED BY <3>1, <3>2, <3>3
  <2>10. ASSUME NEW t \in Threads, Work(t) PROVE IInv'
    <3>1. CASE \E r \in OwnResponses : OtherHandler(t, r)
      BY <3>1, <2>2
    <3>2. CASE Connect(t)
      BY <3>2, <2>3
    <3>3. CASE ConnectFails(t)
      <4>1. ~WaitsForPool(t) /\ Return(t, 500)
        BY <3>3 DEF ConnectFails, WaitsForPool
      <4> QED BY <4>1, <2>4
    <3>4. CASE ParseThrows(t)
      BY <3>4, <2>9 DEF ParseThrows
    <3>5. CASE Relay(t)
      <4>1. ~WaitsForPool(t) /\ Return(t, response[t].status)
        BY <3>5 DEF Relay, WaitsForPool
      <4> QED BY <4>1, <2>4
    <3>6. CASE Follow(t)
      BY <3>6, <2>6
    <3>7. CASE ReplyToClient(t)
      BY <3>7, <2>7
    <3>8. CASE ReplyToThread(t)
      BY <3>8, <2>8
    <3> QED
      BY <2>10, <3>1, <3>2, <3>3, <3>4, <3>5, <3>6, <3>7, <3>8 DEF Work
  <2>11. ASSUME NEW t \in Threads, Backend(t) PROVE IInv'
    <3>1. CASE \E r \in Responses : Respond(t, r)
      BY <3>1, <2>5
    <3>2. CASE ExchangeFails(t)
      <4>1. ~WaitsForPool(t) /\ Return(t, 500)
        BY <3>2 DEF ExchangeFails, WaitsForPool
      <4> QED BY <4>1, <2>4
    <3> QED BY <2>11, <3>1, <3>2 DEF Backend
  <2>12. CASE Quiet \/ UNCHANGED vars
    BY <2>12, <2>9 DEF Quiet, vars
  <2>13. CASE \E t \in Threads, j \in Clients \cup Threads : Take(t, j)
    BY <2>13, <2>1
  <2> QED
    BY <2>10, <2>11, <2>12, <2>13 DEF Next
<1> QED
  BY <1>1, <1>2, PTL DEF Spec

\* For every pool, every number of redirects and whatever other servers
\* answer: the first call of a request goes to the server that is configured
\* (reverse_proxy_handler.cc 10-22 and 185-198).
THEOREM FirstCallConfigured == Spec => []FirstCallGoesToBackend
<1>1. IInv => FirstCallGoesToBackend
  BY DEF IInv
<1> QED BY <1>1, ProxyInvariant, PTL

-----------------------------------------------------------------------------
\* A request that was taken and not answered is with a thread; what will be
\* written as a reply has a status.
Answers ==
  /\ answer \in [Clients -> Nat]
  /\ \A t \in Threads : stage[t] = "idle" => source[t] = Nobody
  /\ \A c \in Clients : c \in backlog => answer[c] = NoAnswer
  /\ \A c \in Clients :
       (\E t \in Threads : source[t] = c) <=> c \notin backlog /\ answer[c] = NoAnswer
  /\ \A w \in Threads :
       WaitsForPool(w) /\ w \notin backlog => \E t \in Threads : source[t] = w

IsResponse(r) == r = [status |-> r.status, location |-> r.location] /\ r.status \in Nat

HasStatus ==
  /\ DOMAIN response = Threads
  /\ \A t \in Threads : stage[t] \in {"parse", "reply"} => IsResponse(response[t])
  /\ \A t \in Threads : stage[t] = "reply" => response[t].status # NoAnswer

\* What Return keeps, given a status.
LEMMA ReturnAnswers ==
  ASSUME IInv, Answers, HasStatus, NEW t \in Threads, NEW code \in Nat \ {NoAnswer},
         stage[t] # "idle", Return(t, code)
  PROVE  Answers' /\ HasStatus'
<1>1. /\ stage' = [stage EXCEPT ![t] = "reply"]
      /\ response' = [response EXCEPT ![t] = WithStatus(code)]
      /\ UNCHANGED <<backlog, source, server, answer>>
  BY DEF Return
<1>2. Answers'
  BY <1>1 DEF Answers, IInv, Shape, WaitsForPool
<1>3. IsResponse(WithStatus(code)) /\ WithStatus(code).status = code
  BY DEF IsResponse, WithStatus
<1>4. HasStatus'
  BY <1>1, <1>3 DEF HasStatus, IInv, Shape
<1> QED BY <1>2, <1>4

\* What the steps of a thread in a request keep.
LEMMA WorkAnswers ==
  ASSUME IInv, Answers, HasStatus, NEW t \in Threads, Work(t) \/ Backend(t)
  PROVE  Answers' /\ HasStatus'
<1>1. ASSUME NEW r \in OwnResponses, OtherHandler(t, r) PROVE Answers' /\ HasStatus'
  <2>1. /\ stage[t] = "other"
        /\ stage' = [stage EXCEPT ![t] = "reply"]
        /\ response' = [response EXCEPT ![t] = r]
        /\ UNCHANGED <<backlog, source, server, answer>>
    BY <1>1 DEF OtherHandler, In
  <2>2. IsResponse(r) /\ r.status # NoAnswer
    BY ResponsesAssumption DEF IsResponse
  <2>3. Answers'
    BY <2>1 DEF Answers, IInv, Shape, WaitsForPool
  <2>4. HasStatus'
    BY <2>1, <2>2 DEF HasStatus, IInv, Shape
  <2> QED BY <2>3, <2>4
<1>2. CASE Connect(t)
  <2>1. /\ stage[t] = "connect"
        /\ stage' = [stage EXCEPT ![t] = "exchange"]
        /\ \A j : j \in backlog' <=> j \in backlog \/ (j = t /\ server[t] \in Self)
        /\ UNCHANGED <<source, server, response, answer>>
    BY <1>2 DEF Connect, In
  <2>2. t \notin Clients
    BY ProxyAssumption
  <2>3. Answers'
    BY <2>1, <2>2 DEF Answers, IInv, Shape, WaitsForPool
  <2>4. HasStatus'
    BY <2>1 DEF HasStatus, IInv, Shape
  <2> QED BY <2>3, <2>4
<1>3. CASE ConnectFails(t) \/ ExchangeFails(t)
  <2>1. stage[t] # "idle" /\ Return(t, 500)
    BY <1>3 DEF ConnectFails, ExchangeFails, In
  <2> QED BY <2>1, ReturnAnswers DEF NoAnswer
<1>4. CASE ParseThrows(t)
  <2>1. UNCHANGED <<stage, backlog, source, server, response, answer>>
    BY <1>4 DEF ParseThrows
  <2> QED BY <2>1 DEF Answers, HasStatus, WaitsForPool, IsResponse
<1>5. CASE Relay(t)
  <2>1. /\ stage[t] = "parse" /\ Return(t, response[t].status)
        /\ response[t] # WithStatus(0) /\ response[t].location = NoLocation
    BY <1>5 DEF Relay, In, Garbled
  <2>2. IsResponse(response[t])
    BY <2>1 DEF HasStatus
  <2>3. response[t].status \in Nat \ {NoAnswer}
    BY <2>1, <2>2 DEF IsResponse, WithStatus, NoAnswer
  <2> QED BY <2>1, <2>3, ReturnAnswers
<1>6. CASE Follow(t)
  <2>1. /\ stage[t] = "parse"
        /\ stage' = [stage EXCEPT ![t] = "connect"]
        /\ response' = [response EXCEPT ![t] = NoResponse]
        /\ \A u \in Threads : u # t => server'[u] = server[u]
        /\ UNCHANGED <<backlog, source, answer>>
    BY <1>6 DEF Follow, In, IInv, Shape
  <2>2. Answers'
    BY <2>1 DEF Answers, IInv, Shape, WaitsForPool
  <2>3. HasStatus'
    BY <2>1 DEF HasStatus, IInv, Shape
  <2> QED BY <2>2, <2>3
<1>7. CASE ReplyToClient(t)
  <2>1. /\ stage[t] = "reply" /\ source[t] \in Clients
        /\ answer' = [answer EXCEPT ![source[t]] = response[t].status]
        /\ stage' = [stage EXCEPT ![t] = "idle"]
        /\ response' = [response EXCEPT ![t] = NoResponse]
        /\ source' = [source EXCEPT ![t] = Nobody]
        /\ UNCHANGED <<backlog, server>>
    BY <1>7 DEF ReplyToClient, Release, In
  <2>2. response[t].status \in Nat \ {NoAnswer}
    BY <2>1 DEF HasStatus, IsResponse
  <2>3. \A u \in Threads : u # t => source[u] # source[t]
    BY <2>1, ProxyAssumption DEF IInv, Waits
  <2>4. source[t] \notin Threads /\ Nobody \notin Clients \cup Threads
    BY <2>1, ProxyAssumption
  <2>5. source'[t] = Nobody /\ \A u \in Threads : u # t => source'[u] = source[u]
    BY <2>1 DEF IInv, Shape
  <2>6. \A w \in Threads : WaitsForPool(w)' => WaitsForPool(w)
    BY <2>1 DEF IInv, Shape, WaitsForPool
  <2>7. \A c \in Clients : answer'[c] = IF c = source[t] THEN response[t].status ELSE answer[c]
    BY <2>1 DEF Answers
  <2>8. answer' \in [Clients -> Nat]
    BY <2>1, <2>2 DEF Answers
  <2>9. source[t] \notin backlog
    BY DEF IInv, Waits
  <2>10. \A c \in Clients :
           (\E u \in Threads : source'[u] = c) <=> c \notin backlog /\ answer'[c] = NoAnswer
    BY <2>1, <2>2, <2>3, <2>4, <2>5, <2>7 DEF Answers
  <2>11. \A u \in Threads : stage'[u] = "idle" => source'[u] = Nobody
    BY <2>1, <2>5 DEF Answers, IInv, Shape
  <2>12. \A w \in Threads :
           WaitsForPool(w)' /\ w \notin backlog => \E u \in Threads : source'[u] = w
    BY <2>4, <2>5, <2>6 DEF Answers
  <2>13. Answers'
    BY <2>1, <2>7, <2>8, <2>9, <2>10, <2>11, <2>12 DEF Answers
  <2>14. HasStatus'
    BY <2>1 DEF HasStatus, IInv, Shape
  <2> QED BY <2>13, <2>14
<1>8. CASE ReplyToThread(t)
  <2> DEFINE w == source[t]
  <2>1. /\ stage[t] = "reply" /\ w \in Threads
        /\ stage' = [stage EXCEPT ![t] = "idle", ![w] = "parse"]
        /\ response' = [response EXCEPT ![t] = NoResponse, ![w] = response[t]]
        /\ source' = [source EXCEPT ![t] = Nobody]
        /\ UNCHANGED <<backlog, server, answer>>
    BY <1>8 DEF ReplyToThread, Release, In
  <2>2. w # t /\ stage[w] = "exchange"
    BY <2>1 DEF IInv, Waits, WaitsForPool
  <2>3. w \notin Clients /\ Nobody \notin Clients \cup Threads
    BY <2>1, ProxyAssumption
  <2> HIDE DEF w
  <2>4. /\ stage'[t] = "idle" /\ stage'[w] = "parse"
        /\ \A u \in Threads : u # t /\ u # w => stage'[u] = stage[u]
    BY <2>1, <2>2 DEF IInv, Shape
  <2>5. source'[t] = Nobody /\ \A u \in Threads : u # t => source'[u] = source[u]
    BY <2>1 DEF IInv, Shape
  <2>6. source[t] = w
    BY DEF w
  <2>7. Answers'
    <3>1. \A c \in Clients :
            (\E u \in Threads : source'[u] = c) <=> (\E u \in Threads : source[u] = c)
      BY <2>3, <2>5, <2>6
    <3>2. \A u \in Threads : stage'[u] = "idle" => source'[u] = Nobody
      BY <2>2, <2>4, <2>5 DEF Answers
    <3>3. \A v \in Threads : WaitsForPool(v)' => WaitsForPool(v) /\ v # w
      BY <2>1, <2>4 DEF WaitsForPool
    <3>4. \A v \in Threads :
            WaitsForPool(v)' /\ v \notin backlog => \E u \in Threads : source'[u] = v
      BY <3>3, <2>5, <2>6 DEF Answers
    <3> QED BY <2>1, <3>1, <3>2, <3>4 DEF Answers
  <2>8. HasStatus'
    <3>1. IsResponse(response[t])
      BY <2>1 DEF HasStatus
    <3>2. response'[w] = response[t] /\ \A u \in Threads : u # t /\ u # w => response'[u] = response[u]
      BY <2>1, <2>2 DEF HasStatus
    <3>3. DOMAIN response' = Threads
      BY <2>1 DEF HasStatus
    <3> QED BY <2>4, <3>1, <3>2, <3>3 DEF HasStatus
  <2> QED BY <2>7, <2>8
<1>9. ASSUME NEW r \in Responses, Respond(t, r) PROVE Answers' /\ HasStatus'
  <2>1. /\ stage[t] = "exchange"
        /\ stage' = [stage EXCEPT ![t] = "parse"]
        /\ response' = [response EXCEPT ![t] = r]
        /\ UNCHANGED <<backlog, source, server, answer>>
    BY <1>9 DEF Respond, In
  <2>2. IsResponse(r)
    BY ResponsesAssumption DEF IsResponse
  <2>3. Answers'
    BY <2>1 DEF Answers, IInv, Shape, WaitsForPool
  <2>4. HasStatus'
    BY <2>1, <2>2 DEF HasStatus, IInv, Shape
  <2> QED BY <2>3, <2>4
<1> QED
  BY <1>1, <1>2, <1>3, <1>4, <1>5, <1>6, <1>7, <1>8, <1>9 DEF Work, Backend

\* A request that is taken is with the thread that takes it.
LEMMA TakeAnswers ==
  ASSUME IInv, Answers, HasStatus, NEW t \in Threads, NEW j \in Sources, Take(t, j)
  PROVE  Answers' /\ HasStatus'
<1>1. /\ stage[t] = "idle" /\ j \in backlog
      /\ backlog' = backlog \ {j}
      /\ source' = [source EXCEPT ![t] = j]
      /\ \E s \in {"other", "connect"} : stage' = [stage EXCEPT ![t] = s]
      /\ \A u \in Threads : u # t => server'[u] = server[u]
      /\ UNCHANGED <<response, answer>>
  BY DEF Take, In, IInv, Shape
<1>2. source[t] = Nobody /\ Nobody \notin Clients \cup Threads
  BY <1>1, ProxyAssumption DEF Answers
<1>3. j # t
  BY <1>1 DEF IInv, Waits, WaitsForPool
<1>4. source'[t] = j /\ \A u \in Threads : u # t => source'[u] = source[u]
  BY <1>1 DEF IInv, Shape
<1>5. stage'[t] \in {"other", "connect"} /\ \A u \in Threads : u # t => stage'[u] = stage[u]
  BY <1>1 DEF IInv, Shape
<1>6. \A c \in Clients :
        (\E u \in Threads : source'[u] = c) <=> c \notin backlog' /\ answer[c] = NoAnswer
  BY <1>1, <1>2, <1>4 DEF Answers
<1>7. \A w \in Threads : WaitsForPool(w)' => WaitsForPool(w) /\ w # t
  BY <1>1, <1>5 DEF WaitsForPool
<1>8. \A w \in Threads :
        WaitsForPool(w)' /\ w \notin backlog' => \E u \in Threads : source'[u] = w
  BY <1>1, <1>2, <1>4, <1>7 DEF Answers
<1>9. \A u \in Threads : stage'[u] = "idle" => source'[u] = Nobody
  BY <1>4, <1>5 DEF Answers
<1>10. Answers'
  BY <1>1, <1>6, <1>8, <1>9 DEF Answers
<1>11. HasStatus'
  BY <1>1, <1>5 DEF HasStatus
<1> QED BY <1>10, <1>11

\* Who holds a request, and what will be said of it, at every moment.
LEMMA AnswersInvariant == Spec => [](Answers /\ HasStatus)
<1>1. Init => Answers /\ HasStatus
  <2>1. ASSUME Init PROVE Answers
    BY <2>1, ProxyAssumption DEF Init, Answers, WaitsForPool, NoAnswer
  <2>2. ASSUME Init PROVE HasStatus
    BY <2>2 DEF Init, HasStatus
  <2> QED BY <2>1, <2>2
<1>2. IInv /\ Answers /\ HasStatus /\ [Next]_vars => Answers' /\ HasStatus'
  <2> SUFFICES ASSUME IInv, Answers, HasStatus, [Next]_vars PROVE Answers' /\ HasStatus'
    OBVIOUS
  <2>1. CASE \E t \in Threads : Work(t) \/ Backend(t)
    BY <2>1, WorkAnswers
  <2>2. CASE \E t \in Threads, j \in Clients \cup Threads : Take(t, j)
    BY <2>2, TakeAnswers DEF Sources
  <2>3. CASE Quiet \/ UNCHANGED vars
    BY <2>3 DEF Quiet, vars, Answers, HasStatus, WaitsForPool, IsResponse
  <2> QED BY <2>1, <2>2, <2>3 DEF Next
<1> QED BY <1>1, <1>2, ProxyInvariant, PTL DEF Spec

\* For every pool and every set of clients: a request is in the backlog, with
\* one thread, or answered, and a thread that waits for its own pool has its
\* request in the backlog or with one other thread
\* (reverse_proxy_handler.cc 66-75).
THEOREM OneServerForEach == Spec => []OneServerPerRequest
<1>1. IInv /\ Answers => OneServerPerRequest
  <2> SUFFICES ASSUME IInv, Answers PROVE OneServerPerRequest
    OBVIOUS
  <2>1. \A j \in Sources, t \in Threads : source[t] = j => Holders(j) = {t}
    BY ProxyAssumption DEF IInv, Waits, Holders, Sources
  <2>2. \A j \in Sources : (\A t \in Threads : source[t] # j) => Holders(j) = {}
    BY DEF Holders
  <2>3. \A t : Cardinality({t}) = 1
    BY FS_Singleton
  <2>4. Cardinality({}) = 0
    BY FS_EmptySet
  <2>5. \A c \in Clients :
          Cardinality(Holders(c)) = IF c \in backlog \/ answer[c] # NoAnswer THEN 0 ELSE 1
    BY <2>1, <2>2, <2>3, <2>4 DEF Answers, Sources
  <2>6. \A t \in Threads :
          Cardinality(Holders(t)) = IF WaitsForPool(t) /\ t \notin backlog THEN 1 ELSE 0
    <3> SUFFICES ASSUME NEW t \in Threads
                 PROVE  Cardinality(Holders(t)) =
                          IF WaitsForPool(t) /\ t \notin backlog THEN 1 ELSE 0
      OBVIOUS
    <3>1. CASE WaitsForPool(t) /\ t \notin backlog
      BY <2>1, <2>3, <3>1 DEF Answers, Sources
    <3>2. CASE ~(WaitsForPool(t) /\ t \notin backlog)
      <4>1. \A u \in Threads : source[u] # t
        BY <3>2 DEF IInv, Waits
      <4> QED BY <2>2, <2>4, <3>2, <4>1 DEF Sources
    <3> QED BY <3>1, <3>2
  <2> QED BY <2>5, <2>6 DEF OneServerPerRequest, IInv, Waits, Answers
<1> QED BY <1>1, ProxyInvariant, AnswersInvariant, PTL
-----------------------------------------------------------------------------
\* The prefixes a redirect may add to the one it is sent on with.
Detours == {0} \cup {r.location.prefixes : r \in Responses \cup OwnResponses}

\* Only a thread that has read something, or has a reply, has a response; its
\* Location is one that some server sends.
HasResponse ==
  \A t \in Threads :
    /\ response[t] = NoResponse <=> stage[t] \notin {"parse", "reply"}
    /\ stage[t] \in {"parse", "reply"} => response[t].location.prefixes \in Detours

\* A thread inside the proxy has a prefix to remove.
HasPrefix ==
  /\ prefixes \in [Threads -> Nat]
  /\ \A t \in Threads : stage[t] \in {"connect", "exchange", "parse"} => prefixes[t] > 0

\* The descriptors are finitely many, within the bound.
Budget == IsFiniteSet(Sockets) /\ OpenFds <= MaxFds

Typing == config \in Servers /\ up \in BOOLEAN /\ HasResponse /\ HasPrefix

\* What Return keeps.
LEMMA ReturnTyping ==
  ASSUME Shape, HasStatus, Typing, NEW t \in Threads, NEW code \in Nat, Return(t, code),
         stage[t] # "idle"
  PROVE  Typing'
<1>1. /\ stage' = [stage EXCEPT ![t] = "reply"]
      /\ response' = [response EXCEPT ![t] = WithStatus(code)]
      /\ UNCHANGED <<config, up, prefixes>>
  BY DEF Return
<1>2. WithStatus(code) # NoResponse
  BY ResponsesAssumption DEF WithStatus
<1>3. WithStatus(code).location.prefixes = 0
  BY DEF WithStatus, NoLocation
<1>4. HasResponse'
  BY <1>1, <1>2, <1>3 DEF Typing, HasResponse, HasStatus, Shape, Detours
<1>5. HasPrefix'
  BY <1>1 DEF Typing, HasPrefix, Shape
<1> QED BY <1>1, <1>4, <1>5 DEF Typing

\* What the steps of a thread keep.
LEMMA NextTyping ==
  ASSUME IInv, HasStatus, Typing, [Next]_vars
  PROVE  Typing'
<1>1. ASSUME NEW t \in Threads, NEW j \in Sources, Take(t, j) PROVE Typing'
  <2>1. /\ stage[t] = "idle" /\ j \in backlog
        /\ prefixes' = [prefixes EXCEPT ![t] = PrefixesOf(j)]
        /\ stage' = [stage EXCEPT ![t] = IF PrefixesOf(j) = 0 THEN "other" ELSE "connect"]
        /\ UNCHANGED <<config, up, response>>
    BY <1>1 DEF Take, In
  <2>2. PrefixesOf(j) \in Nat
    <3>1. CASE j \in Clients
      BY <3>1, ProxyAssumption DEF PrefixesOf
    <3>2. CASE j \notin Clients
      <4>1. j \in Threads /\ stage[j] = "exchange"
        BY <2>1, <3>2 DEF IInv, Waits, WaitsForPool, Sources
      <4>2. prefixes[j] \in Nat /\ prefixes[j] > 0
        BY <4>1 DEF Typing, HasPrefix
      <4> QED BY <3>2, <4>2 DEF PrefixesOf, Forwarded
    <3> QED BY <3>1, <3>2
  <2>3. HasResponse'
    BY <2>1 DEF Typing, HasResponse, HasStatus, IInv, Shape
  <2>4. HasPrefix'
    BY <2>1, <2>2 DEF Typing, HasPrefix, IInv, Shape
  <2> QED BY <2>1, <2>3, <2>4 DEF Typing
<1>2. ASSUME NEW t \in Threads, NEW r \in OwnResponses, OtherHandler(t, r) PROVE Typing'
  <2>1. /\ stage' = [stage EXCEPT ![t] = "reply"]
        /\ response' = [response EXCEPT ![t] = r]
        /\ UNCHANGED <<config, up, prefixes>>
    BY <1>2 DEF OtherHandler
  <2>2. r # NoResponse /\ r.location.prefixes \in Detours
    BY ResponsesAssumption DEF Detours
  <2> QED BY <2>1, <2>2 DEF Typing, HasResponse, HasPrefix, HasStatus, IInv, Shape
<1>3. ASSUME NEW t \in Threads, NEW r \in Responses, Respond(t, r) PROVE Typing'
  <2>1. /\ stage[t] = "exchange" /\ stage' = [stage EXCEPT ![t] = "parse"]
        /\ response' = [response EXCEPT ![t] = r]
        /\ UNCHANGED <<config, up, prefixes>>
    BY <1>3 DEF Respond, In
  <2>2. r # NoResponse /\ r.location.prefixes \in Detours
    BY ResponsesAssumption DEF Detours
  <2> QED BY <2>1, <2>2 DEF Typing, HasResponse, HasPrefix, HasStatus, IInv, Shape
<1>4. ASSUME NEW t \in Threads, Connect(t) PROVE Typing'
  <2>1. /\ stage[t] = "connect" /\ stage' = [stage EXCEPT ![t] = "exchange"]
        /\ UNCHANGED <<config, up, prefixes, response>>
    BY <1>4 DEF Connect, In
  <2> QED BY <2>1 DEF Typing, HasResponse, HasPrefix, IInv, Shape
<1>5. ASSUME NEW t \in Threads, ConnectFails(t) \/ ExchangeFails(t) \/ Relay(t)
      PROVE  Typing'
  <2>1. PICK code \in Nat : stage[t] # "idle" /\ Return(t, code)
    BY <1>5 DEF ConnectFails, ExchangeFails, Relay, In, HasStatus, IsResponse
  <2> QED BY <2>1, ReturnTyping DEF IInv
<1>6. ASSUME NEW t \in Threads, ParseThrows(t) PROVE Typing'
  BY <1>6 DEF ParseThrows, Typing, HasResponse, HasPrefix
<1>7. ASSUME NEW t \in Threads, Follow(t) PROVE Typing'
  <2>1. /\ stage[t] = "parse" /\ stage' = [stage EXCEPT ![t] = "connect"]
        /\ response' = [response EXCEPT ![t] = NoResponse]
        /\ prefixes' = [prefixes EXCEPT ![t] = 1 + response[t].location.prefixes]
        /\ UNCHANGED <<config, up>>
    BY <1>7 DEF Follow, In
  <2>2. response[t].location.prefixes \in Nat
    BY <2>1, ResponsesAssumption DEF Typing, HasResponse, Detours
  <2>3. HasResponse'
    BY <2>1 DEF Typing, HasResponse, HasStatus, IInv, Shape
  <2>4. HasPrefix'
    BY <2>1, <2>2 DEF Typing, HasPrefix, IInv, Shape
  <2> QED BY <2>1, <2>3, <2>4 DEF Typing
<1>8. ASSUME NEW t \in Threads, ReplyToClient(t) PROVE Typing'
  <2>1. /\ stage' = [stage EXCEPT ![t] = "idle"]
        /\ response' = [response EXCEPT ![t] = NoResponse]
        /\ UNCHANGED <<config, up, prefixes>>
    BY <1>8 DEF ReplyToClient, Release
  <2> QED BY <2>1 DEF Typing, HasResponse, HasPrefix, HasStatus, IInv, Shape
<1>9. ASSUME NEW t \in Threads, ReplyToThread(t) PROVE Typing'
  <2>1. PICK w \in Threads :
          /\ stage[t] = "reply" /\ w = source[t]
          /\ stage' = [stage EXCEPT ![t] = "idle", ![w] = "parse"]
          /\ response' = [response EXCEPT ![t] = NoResponse, ![w] = response[t]]
          /\ UNCHANGED <<config, up, prefixes>>
    BY <1>9 DEF ReplyToThread, Release, In
  <2>2. w # t /\ stage[w] = "exchange"
    BY <2>1 DEF IInv, Waits, WaitsForPool
  <2>3. HasResponse'
    BY <2>1, <2>2 DEF Typing, HasResponse, HasStatus, IInv, Shape
  <2>4. HasPrefix'
    BY <2>1, <2>2 DEF Typing, HasPrefix, IInv, Shape
  <2> QED BY <2>1, <2>3, <2>4 DEF Typing
<1>10. CASE Quiet \/ UNCHANGED vars
  BY <1>10 DEF Quiet, vars, Typing, HasResponse, HasPrefix
<1> QED
  BY <1>1, <1>2, <1>3, <1>4, <1>5, <1>6, <1>7, <1>8, <1>9, <1>10
  DEF Next, Work, Backend, Sources

\* A socket is one that was accepted, numbered 0, or that of a call.
LEMMA SocketMember ==
  ASSUME NEW from, NEW depth, \A t \in Threads : depth[t] \in Nat, NEW s
  PROVE  s \in {<<t, 0>> : t \in {u \in Threads : from[u] # Nobody}}
                 \cup UNION {{t} \X (1..depth[t]) : t \in Threads} <=>
           \E t \in Threads : \E n \in Nat :
             s = <<t, n>> /\ IF n = 0 THEN from[t] # Nobody ELSE n <= depth[t]
<1>1. s \in {<<t, 0>> : t \in {u \in Threads : from[u] # Nobody}} <=>
        \E t \in Threads : s = <<t, 0>> /\ from[t] # Nobody
  OBVIOUS
<1>2. s \in UNION {{t} \X (1..depth[t]) : t \in Threads} <=>
        \E t \in Threads : \E n \in 1..depth[t] : s = <<t, n>>
  OBVIOUS
<1> QED BY <1>1, <1>2

\* The sockets of a state are those of its threads.
LEMMA SocketOf ==
  ASSUME Shape
  PROVE  \A s : s \in Sockets <=>
           \E t \in Threads : \E n \in Nat :
             s = <<t, n>> /\ IF n = 0 THEN source[t] # Nobody ELSE n <= calls[t]
<1>1. \A t \in Threads : calls[t] \in Nat
  BY DEF Shape
<1> QED BY <1>1, SocketMember, Zenon DEF Sockets

\* The same of the next state.
LEMMA SocketOfNext ==
  ASSUME Shape'
  PROVE  \A s : s \in Sockets' <=>
           \E t \in Threads : \E n \in Nat :
             s = <<t, n>> /\ IF n = 0 THEN source'[t] # Nobody ELSE n <= calls'[t]
<1>1. \A t \in Threads : calls'[t] \in Nat
  BY DEF Shape
<1> QED BY <1>1, SocketMember, Zenon DEF Sockets

\* One socket more is within the bound while there was room.
LEMMA OneSocketMore ==
  ASSUME Budget, OpenFds < MaxFds, NEW s, Sockets' \subseteq Sockets \cup {s}
  PROVE  Budget'
<1>0. IsFiniteSet(Sockets)
  BY DEF Budget
<1>1. /\ Cardinality(Sockets) \in Nat /\ IsFiniteSet(Sockets \cup {s})
      /\ Cardinality(Sockets \cup {s}) =
           IF s \in Sockets THEN Cardinality(Sockets) ELSE Cardinality(Sockets) + 1
  BY <1>0, FS_AddElement, FS_CardinalityType, Zenon
<1>2. IsFiniteSet(Sockets') /\ Cardinality(Sockets') <= Cardinality(Sockets \cup {s})
  BY <1>1, FS_Subset
<1>3. Cardinality(Sockets') \in Nat /\ Cardinality(Sockets \cup {s}) \in Nat
  BY <1>1, <1>2, FS_CardinalityType
<1>4. Cardinality(Sockets') <= MaxFds
  BY <1>1, <1>2, <1>3, ProxyAssumption DEF OpenFds
<1> QED BY <1>2, <1>4 DEF Budget, OpenFds

\* No socket more is within the bound.
LEMMA NoSocketMore ==
  ASSUME Budget, Sockets' \subseteq Sockets
  PROVE  Budget'
<1>1. IsFiniteSet(Sockets') /\ Cardinality(Sockets') <= Cardinality(Sockets)
  BY FS_Subset DEF Budget
<1>2. Cardinality(Sockets') \in Nat /\ Cardinality(Sockets) \in Nat
  BY <1>1, FS_CardinalityType DEF Budget
<1>3. Cardinality(Sockets') <= MaxFds
  BY <1>1, <1>2, ProxyAssumption DEF Budget, OpenFds
<1> QED BY <1>1, <1>3 DEF Budget, OpenFds

\* A socket is made by taking up a request and by connecting, both of which
\* need a descriptor.
LEMMA NextBudget ==
  ASSUME IInv, IInv', Budget, [Next]_vars
  PROVE  Budget'
<1>0. Shape /\ Shape'
  BY DEF IInv
<1>1. ASSUME NEW t \in Threads, NEW j \in Sources, Take(t, j) PROVE Budget'
  <2>1. OpenFds < MaxFds /\ source' = [source EXCEPT ![t] = j] /\ UNCHANGED calls
    BY <1>1 DEF Take
  <2>2. Sockets' \subseteq Sockets \cup {<<t, 0>>}
    <3> SUFFICES ASSUME NEW s \in Sockets', s # <<t, 0>> PROVE s \in Sockets
      OBVIOUS
    <3>1. PICK u \in Threads, n \in Nat :
            s = <<u, n>> /\ IF n = 0 THEN source'[u] # Nobody ELSE n <= calls'[u]
      BY <1>0, SocketOfNext
    <3>2. n = 0 => source[u] # Nobody
      BY <2>1, <3>1 DEF IInv, Shape
    <3> QED BY <1>0, <2>1, <3>1, <3>2, SocketOf
  <2> QED BY <2>1, <2>2, OneSocketMore
<1>2. ASSUME NEW t \in Threads, Connect(t) PROVE Budget'
  <2>1. OpenFds < MaxFds /\ calls' = [calls EXCEPT ![t] = @ + 1] /\ UNCHANGED source
    BY <1>2 DEF Connect
  <2>2. Sockets' \subseteq Sockets \cup {<<t, calls[t] + 1>>}
    <3> SUFFICES ASSUME NEW s \in Sockets', s # <<t, calls[t] + 1>> PROVE s \in Sockets
      OBVIOUS
    <3>1. PICK u \in Threads, n \in Nat :
            s = <<u, n>> /\ IF n = 0 THEN source'[u] # Nobody ELSE n <= calls'[u]
      BY <1>0, SocketOfNext
    <3>2. n # 0 => n <= calls[u]
      BY <2>1, <3>1 DEF IInv, Shape
    <3> QED BY <1>0, <2>1, <3>1, <3>2, SocketOf
  <2> QED BY <2>1, <2>2, OneSocketMore
<1>3. ASSUME \A t \in Threads : source'[t] # Nobody => source[t] # Nobody,
             \A t \in Threads : calls'[t] <= calls[t]
      PROVE  Budget'
  <2>1. Sockets' \subseteq Sockets
    <3> SUFFICES ASSUME NEW s \in Sockets' PROVE s \in Sockets
      OBVIOUS
    <3>1. PICK u \in Threads, n \in Nat :
            s = <<u, n>> /\ IF n = 0 THEN source'[u] # Nobody ELSE n <= calls'[u]
      BY <1>0, SocketOfNext
    <3>2. IF n = 0 THEN source[u] # Nobody ELSE n <= calls[u]
      BY <1>0, <1>3, <3>1 DEF Shape
    <3> QED BY <1>0, <3>1, <3>2, SocketOf
  <2> QED BY <2>1, NoSocketMore
<1>4. ASSUME UNCHANGED <<source, calls>> PROVE Budget'
  BY <1>0, <1>3, <1>4 DEF Shape
<1>5. ASSUME NEW t \in Threads, ReplyToClient(t) \/ ReplyToThread(t) PROVE Budget'
  <2>1. source' = [source EXCEPT ![t] = Nobody] /\ UNCHANGED calls
    BY <1>5 DEF ReplyToClient, ReplyToThread, Release
  <2> QED BY <1>0, <1>3, <2>1 DEF Shape
<1>6. ASSUME NEW t \in Threads, ConnectFails(t) \/ ExchangeFails(t) \/ Relay(t)
      PROVE  Budget'
  <2>1. calls' = [calls EXCEPT ![t] = 0] /\ UNCHANGED source
    BY <1>6 DEF ConnectFails, ExchangeFails, Relay, Return
  <2> QED BY <1>0, <1>3, <2>1 DEF Shape
<1>7. ASSUME NEW t \in Threads,
             \/ ParseThrows(t) \/ Follow(t)
             \/ \E r \in OwnResponses : OtherHandler(t, r)
             \/ \E r \in Responses : Respond(t, r)
      PROVE  Budget'
  <2>1. UNCHANGED <<source, calls>>
    BY <1>7 DEF ParseThrows, Follow, OtherHandler, Respond
  <2> QED BY <1>4, <2>1
<1>8. CASE Quiet \/ UNCHANGED vars
  BY <1>4, <1>8 DEF Quiet, vars
<1> QED
  BY <1>1, <1>2, <1>5, <1>6, <1>7, <1>8 DEF Next, Work, Backend, Sources

\* Init opens nothing.
LEMMA InitBudget ==
  ASSUME Init PROVE Typing /\ Budget
<1>1. Typing
  BY DEF Init, Typing, HasResponse, HasPrefix
<1>2. Shape
  BY ProxyAssumption DEF Init, Shape, Sources, Stages
<1>3. \A s : s \notin Sockets
  BY <1>2, SocketOf DEF Init
<1>4. Sockets = {}
  BY <1>3
<1>5. Budget
  BY <1>4, FS_EmptySet, ProxyAssumption DEF Budget, OpenFds
<1> QED BY <1>1, <1>5
\* What a thread has read or will reply, and its prefixes, at every moment.
LEMMA TypingInvariant == Spec => []Typing
<1>1. Init => Typing
  BY InitBudget
<1>2. IInv /\ HasStatus /\ Typing /\ [Next]_vars => Typing'
  BY NextTyping
<1> QED BY <1>1, <1>2, ProxyInvariant, AnswersInvariant, PTL DEF Spec

\* The state of the proxy keeps its types, the descriptors stay within the
\* bound, and a thread has a response exactly when it has read one or is about
\* to reply (reverse_proxy_handler.cc 31-93).
THEOREM ProxyTypeCorrect == Spec => []TypeOK
<1>1. Init => Budget
  BY InitBudget
<1>2. IInv /\ IInv' /\ Budget /\ [Next]_vars => Budget'
  BY NextBudget
<1>3. IInv /\ Answers /\ Typing /\ Budget => TypeOK
  BY DEF IInv, Shape, Sources, Answers, Typing, HasResponse, HasPrefix, Budget, TypeOK
<1> QED
  BY <1>1, <1>2, <1>3, ProxyInvariant, AnswersInvariant, TypingInvariant, PTL DEF Spec
-----------------------------------------------------------------------------
(* The threads that serve one request of a client, and the requests they    *)
(* send to their own pool for it, are a chain: each holds the request of    *)
(* the one before it, with fewer prefixes left.                             *)

\* No redirect leads back into the proxy.
NoDetour == \A r \in Responses \cup OwnResponses : r.location.prefixes = 0

\* The passes through the proxy all the clients' requests can be in together.
Passes == UNION {{c} \X (1..Prefixes[c]) : c \in Clients}

EnoughThreads == Cardinality(Passes) < Cardinality(Threads)

Busy(t) == source[t] # Nobody

\* Two threads of a chain have different numbers of prefixes.  Between the two
\* comes the one that holds the request of the first, and none is before the
\* thread that holds the client's.
InOrder(t, u) ==
  /\ prefixes[t] # prefixes[u]
  /\ prefixes[t] < prefixes[u] =>
       \E v \in Threads : source[v] = u /\ prefixes[t] <= prefixes[v]
  /\ source[u] \in Clients => prefixes[t] < prefixes[u]

\* root[t] is the client whose request is behind the one of t.
Chain(root) ==
  /\ \A t \in Threads : stage[t] # "idle" => Busy(t)
  /\ \A t \in Threads : Busy(t) =>
       root[t] \in Clients /\ prefixes[t] <= Prefixes[root[t]]
  /\ \A t \in Threads : Busy(t) => \E u \in Threads : source[u] = root[t]
  /\ \A t \in Threads : source[t] \in Clients => root[t] = source[t]
  /\ \A t \in Threads : source[t] \in Threads =>
       root[t] = root[source[t]] /\ prefixes[t] < prefixes[source[t]]
  /\ \A t, u \in Threads :
       Busy(t) /\ Busy(u) /\ root[t] = root[u] /\ t # u => InOrder(t, u)

Chained == \E root \in [Threads -> Clients \cup {Nobody}] : Chain(root)

\* Who has sent no request to the pool is the last of its chain.
LEMMA LastOfChain ==
  ASSUME NEW root, Chain(root), Typing,
         NEW t \in Threads, Busy(t), \A v \in Threads : source[v] # t,
         NEW u \in Threads, Busy(u), root[u] = root[t], u # t
  PROVE  prefixes[t] < prefixes[u] /\ source[t] \notin Clients
<1>1. prefixes[t] \in Nat /\ prefixes[u] \in Nat
  BY DEF Typing, HasPrefix
<1>2. prefixes[u] # prefixes[t] /\ ~(prefixes[u] < prefixes[t])
  BY DEF Chain, InOrder
<1>3. prefixes[t] < prefixes[u]
  BY <1>1, <1>2
<1>4. source[t] \in Clients => prefixes[u] < prefixes[t]
  BY DEF Chain, InOrder
<1> QED BY <1>1, <1>3, <1>4

\* A request that is taken goes to the end of its chain.
LEMMA TakeChained ==
  ASSUME IInv, Answers, Typing, Chained, NEW t \in Threads, NEW j \in Sources, Take(t, j)
  PROVE  Chained'
<1>1. /\ stage[t] = "idle" /\ j \in backlog
      /\ source' = [source EXCEPT ![t] = j]
      /\ prefixes' = [prefixes EXCEPT ![t] = PrefixesOf(j)]
      /\ \E s : stage' = [stage EXCEPT ![t] = s]
  BY DEF Take, In
<1>2. PICK root \in [Threads -> Clients \cup {Nobody}] : Chain(root)
  BY DEF Chained
<1>3. source[t] = Nobody /\ j # Nobody /\ Nobody \notin Sources
  BY <1>1, ProxyAssumption DEF Answers, Sources
<1>4. \A u \in Threads : source[u] # t /\ source[u] # j
  BY <1>1 DEF IInv, Waits, WaitsForPool
<1>5. /\ source'[t] = j /\ prefixes'[t] = PrefixesOf(j)
      /\ \A u \in Threads : u # t =>
           source'[u] = source[u] /\ prefixes'[u] = prefixes[u] /\ stage'[u] = stage[u]
  BY <1>1 DEF IInv, Shape, Typing, HasPrefix
<1>6. \A u \in Threads : prefixes[u] \in Nat
  BY DEF Typing, HasPrefix
<1>7. CASE j \in Clients
  <2> DEFINE new == [root EXCEPT ![t] = j]
  <2>1. new[t] = j /\ \A u \in Threads : u # t => new[u] = root[u]
    BY <1>2
  <2>2. \A u \in Threads : Busy(u) => root[u] # j
    BY <1>2, <1>4 DEF Chain
  <2>3. prefixes'[t] = Prefixes[j] /\ Prefixes[j] \in Nat
    BY <1>5, <1>7, ProxyAssumption DEF PrefixesOf
  <2>4. j \notin Threads
    BY <1>7, ProxyAssumption
  <2>5. new \in [Threads -> Clients \cup {Nobody}]
    BY <1>2, <1>7
  <2> HIDE DEF new
  <2>6. Chain(new)'
    <3>1. \A u \in Threads : u # t => Busy(u)' = Busy(u)
      BY <1>5 DEF Busy
    <3>2. \A u \in Threads : Busy(u)' /\ new[u] = new[t] => u = t
      BY <2>1, <2>2, <3>1
    <3>3. \A u \in Threads : stage'[u] # "idle" => Busy(u)'
      BY <1>2, <1>3, <1>5, <3>1 DEF Chain, Busy
    <3>4. \A u \in Threads : Busy(u)' =>
            new[u] \in Clients /\ prefixes'[u] <= Prefixes[new[u]]
      BY <1>2, <1>5, <1>7, <2>1, <2>3, <3>1 DEF Chain
    <3>5. \A u \in Threads : Busy(u)' => \E v \in Threads : source'[v] = new[u]
      <4> SUFFICES ASSUME NEW u \in Threads, Busy(u)'
                   PROVE  \E v \in Threads : source'[v] = new[u]
        OBVIOUS
      <4>1. CASE u = t
        BY <1>5, <2>1, <4>1
      <4>2. CASE u # t
        <5>1. PICK v \in Threads : source[v] = root[u] /\ root[u] \in Clients
          BY <1>2, <3>1, <4>2 DEF Chain
        <5>2. v # t
          BY <1>3, <5>1 DEF Sources
        <5> QED BY <1>5, <2>1, <4>2, <5>1, <5>2
      <4> QED BY <4>1, <4>2
    <3>6. \A u \in Threads : source'[u] \in Clients => new[u] = source'[u]
      BY <1>2, <1>5, <2>1 DEF Chain
    <3>7. \A u \in Threads : source'[u] \in Threads =>
            new[u] = new[source'[u]] /\ prefixes'[u] < prefixes'[source'[u]]
      BY <1>2, <1>4, <1>5, <2>1, <2>4 DEF Chain
    <3>8. \A u, v \in Threads : Busy(u)' /\ Busy(v)' /\ new[u] = new[v] /\ u # v =>
            /\ Busy(u) /\ Busy(v) /\ root[u] = root[v] /\ u # t /\ v # t
      BY <2>1, <3>1, <3>2
    <3>9. \A v \in Threads : source[v] # Nobody => source'[v] = source[v] /\ prefixes'[v] = prefixes[v]
      BY <1>3, <1>5
    <3>10. \A u, v \in Threads :
             Busy(u)' /\ Busy(v)' /\ new[u] = new[v] /\ u # v => InOrder(u, v)'
      <4> SUFFICES ASSUME NEW u \in Threads, NEW v \in Threads, Busy(u)', Busy(v)',
                          new[u] = new[v], u # v
                   PROVE  InOrder(u, v)'
        OBVIOUS
      <4>1. /\ Busy(u) /\ Busy(v) /\ root[u] = root[v]
            /\ source'[v] = source[v] /\ prefixes'[u] = prefixes[u] /\ prefixes'[v] = prefixes[v]
        BY <1>5, <3>8
      <4>2. \A w \in Threads : source[w] = v => source'[w] = v /\ prefixes'[w] = prefixes[w]
        BY <1>3, <3>9, <3>8 DEF Sources
      <4> QED BY <1>2, <4>1, <4>2 DEF Chain, InOrder
    <3> QED BY <3>3, <3>4, <3>5, <3>6, <3>7, <3>10 DEF Chain
  <2> QED BY <2>5, <2>6 DEF Chained
<1>8. CASE j \in Threads
  <2> DEFINE new == [root EXCEPT ![t] = root[j]]
  <2>1. new[t] = root[j] /\ \A u \in Threads : u # t => new[u] = root[u]
    BY <1>2
  <2>2. j # t /\ stage[j] = "exchange" /\ Busy(j)
    BY <1>1, <1>2, <1>8 DEF IInv, Waits, WaitsForPool, Chain
  <2>3. prefixes'[t] = prefixes[j] - 1 /\ prefixes[j] \in Nat /\ prefixes[j] > 0
    BY <1>5, <1>8, <2>2, ProxyAssumption DEF PrefixesOf, Forwarded, Typing, HasPrefix
  <2>4. j \notin Clients
    BY <1>8, ProxyAssumption
  <2>5. new \in [Threads -> Clients \cup {Nobody}]
    BY <1>2, <1>8
  <2>6. \A u \in Threads : Busy(u) /\ root[u] = root[j] /\ u # j => prefixes[j] < prefixes[u]
    BY <1>2, <1>4, <1>8, <2>2, LastOfChain
  <2> HIDE DEF new
  <2>7. Chain(new)'
    <3>1. Busy(t)' /\ ~Busy(t) /\ \A u \in Threads : u # t => Busy(u)' = Busy(u)
      BY <1>3, <1>5 DEF Busy
    <3>3. \A u \in Threads : stage'[u] # "idle" => Busy(u)'
      BY <1>2, <1>5, <3>1 DEF Chain
    <3>4. \A u \in Threads : Busy(u)' =>
            new[u] \in Clients /\ prefixes'[u] <= Prefixes[new[u]]
      <4> SUFFICES ASSUME NEW u \in Threads, Busy(u)'
                   PROVE  new[u] \in Clients /\ prefixes'[u] <= Prefixes[new[u]]
        OBVIOUS
      <4>1. CASE u = t
        <5>1. root[j] \in Clients /\ prefixes[j] <= Prefixes[root[j]] /\ Prefixes[root[j]] \in Nat
          BY <1>2, <1>8, <2>2, ProxyAssumption DEF Chain
        <5> QED BY <2>1, <2>3, <4>1, <5>1
      <4>2. CASE u # t
        BY <1>2, <1>5, <2>1, <3>1, <4>2 DEF Chain
      <4> QED BY <4>1, <4>2
    <3>5. \A u \in Threads : Busy(u)' => \E v \in Threads : source'[v] = new[u]
      <4> SUFFICES ASSUME NEW u \in Threads, Busy(u)'
                   PROVE  \E v \in Threads : source'[v] = new[u]
        OBVIOUS
      <4>1. PICK x \in Threads : Busy(x) /\ new[u] = root[x]
        BY <1>8, <2>1, <2>2, <3>1
      <4>2. PICK v \in Threads : source[v] = root[x] /\ root[x] \in Clients
        BY <1>2, <4>1 DEF Chain
      <4>3. v # t
        BY <1>3, <4>2 DEF Sources
      <4> QED BY <1>5, <4>1, <4>2, <4>3
    <3>6. \A u \in Threads : source'[u] \in Clients => new[u] = source'[u]
      BY <1>2, <1>5, <2>1, <2>4 DEF Chain
    <3>7. \A u \in Threads : source'[u] \in Threads =>
            new[u] = new[source'[u]] /\ prefixes'[u] < prefixes'[source'[u]]
      <4> SUFFICES ASSUME NEW u \in Threads, source'[u] \in Threads
                   PROVE  new[u] = new[source'[u]] /\ prefixes'[u] < prefixes'[source'[u]]
        OBVIOUS
      <4>1. CASE u = t
        BY <1>5, <2>1, <2>2, <2>3, <4>1
      <4>2. CASE u # t
        <5>1. source'[u] = source[u] /\ source[u] # t
          BY <1>4, <1>5, <4>2
        <5> QED BY <1>2, <1>5, <2>1, <4>2, <5>1 DEF Chain
      <4> QED BY <4>1, <4>2
    <3>8. \A u, v \in Threads :
            Busy(u)' /\ Busy(v)' /\ new[u] = new[v] /\ u # v => InOrder(u, v)'
      <4> SUFFICES ASSUME NEW u \in Threads, NEW v \in Threads, Busy(u)', Busy(v)',
                          new[u] = new[v], u # v
                   PROVE  InOrder(u, v)'
        OBVIOUS
      <4>1. \A x \in Threads : x # t /\ Busy(x)' /\ new[x] = new[t] =>
              Busy(x) /\ root[x] = root[j] /\ prefixes'[x] = prefixes[x] /\ prefixes[j] <= prefixes[x]
        BY <1>5, <1>6, <1>8, <2>1, <2>6, <3>1
      <4>2. CASE v = t
        <5>1. prefixes'[v] < prefixes'[u] /\ prefixes'[u] \in Nat /\ prefixes'[v] \in Nat
          BY <1>6, <2>3, <4>1, <4>2
        <5>2. source'[v] \notin Clients
          BY <1>5, <2>4, <4>2
        <5> QED BY <5>1, <5>2 DEF InOrder
      <4>3. CASE u = t
        <5>0. v # t
          BY <4>3
        <5>1. /\ Busy(v) /\ root[v] = root[j]
              /\ prefixes'[v] = prefixes[v] /\ prefixes[v] \in Nat /\ prefixes[j] <= prefixes[v]
          BY <1>6, <4>1, <4>3, <5>0
        <5>2. prefixes'[u] < prefixes'[v]
          BY <2>3, <4>3, <5>1
        <5>3. \E w \in Threads : source'[w] = v /\ prefixes'[u] <= prefixes'[w]
          <6>1. CASE v = j
            BY <1>5, <2>3, <4>3, <6>1
          <6>2. CASE v # j
            <7>1. prefixes[j] < prefixes[v]
              BY <2>6, <5>1, <6>2
            <7>2. PICK w \in Threads : source[w] = v /\ prefixes[j] <= prefixes[w]
              BY <1>2, <1>8, <2>2, <5>1, <6>2, <7>1 DEF Chain, InOrder
            <7>3. w # t
              BY <1>3, <7>2 DEF Sources
            <7>4. source'[w] = v /\ prefixes'[w] = prefixes[w] /\ prefixes[w] \in Nat
              BY <1>5, <1>6, <7>2, <7>3
            <7> QED BY <2>3, <4>3, <7>2, <7>4
          <6> QED BY <6>1, <6>2
        <5> QED BY <2>3, <4>3, <5>1, <5>2, <5>3 DEF InOrder
      <4>4. CASE u # t /\ v # t
        <5>1. /\ Busy(u) /\ Busy(v) /\ root[u] = root[v] /\ source'[v] = source[v]
              /\ prefixes'[u] = prefixes[u] /\ prefixes'[v] = prefixes[v]
          BY <1>5, <2>1, <3>1, <4>4
        <5>2. \A w \in Threads : source[w] = v => source'[w] = v /\ prefixes'[w] = prefixes[w]
          BY <1>3, <1>5 DEF Sources
        <5> QED BY <1>2, <5>1, <5>2 DEF Chain, InOrder
      <4> QED BY <4>2, <4>3, <4>4
    <3> QED BY <3>3, <3>4, <3>5, <3>6, <3>7, <3>8 DEF Chain
  <2> QED BY <2>5, <2>7 DEF Chained
<1> QED BY <1>7, <1>8 DEF Sources
\* A thread that follows a redirect out of the proxy is the last of its chain,
\* and stays it.
LEMMA FollowChained ==
  ASSUME NoDetour, IInv, Typing, Chained, NEW t \in Threads, Follow(t)
  PROVE  Chained'
<1>1. /\ stage[t] = "parse" /\ stage' = [stage EXCEPT ![t] = "connect"]
      /\ prefixes' = [prefixes EXCEPT ![t] = 1 + response[t].location.prefixes]
      /\ UNCHANGED source
  BY DEF Follow, In
<1>2. PICK root \in [Threads -> Clients \cup {Nobody}] : Chain(root)
  BY DEF Chained
<1>3. response[t].location.prefixes = 0
  BY <1>1, NoDetour DEF NoDetour, Typing, HasResponse, Detours
<1>4. prefixes'[t] = 1 /\ prefixes[t] > 0
  BY <1>1, <1>3 DEF Typing, HasPrefix
<1>5. \A u \in Threads : u # t => prefixes'[u] = prefixes[u] /\ stage'[u] = stage[u]
  BY <1>1 DEF IInv, Shape, Typing, HasPrefix
<1>6. \A u \in Threads : prefixes[u] \in Nat
  BY DEF Typing, HasPrefix
<1>7. Busy(t) /\ \A u \in Threads : source[u] # t
  BY <1>1, <1>2 DEF IInv, Waits, WaitsForPool, Chain
<1>8. \A u \in Threads : Busy(u)' = Busy(u)
  BY <1>1 DEF Busy
<1>9. \A u \in Threads : Busy(u) /\ root[u] = root[t] /\ u # t =>
        prefixes[t] < prefixes[u] /\ source[t] \notin Clients
  BY <1>2, <1>7, LastOfChain
<1>10. \A u \in Threads : stage'[u] # "idle" => Busy(u)'
  BY <1>2, <1>5, <1>7, <1>8 DEF Chain
<1>11. \A u \in Threads : prefixes'[u] <= prefixes[u]
  BY <1>4, <1>5, <1>6
<1>12. \A u \in Threads : Busy(u)' => root[u] \in Clients /\ prefixes'[u] <= Prefixes[root[u]]
  <2> SUFFICES ASSUME NEW u \in Threads, Busy(u)
               PROVE  root[u] \in Clients /\ prefixes'[u] <= Prefixes[root[u]]
    BY <1>8
  <2>1. root[u] \in Clients /\ prefixes[u] <= Prefixes[root[u]]
    BY <1>2 DEF Chain
  <2>2. Prefixes[root[u]] \in Nat /\ prefixes'[u] \in Nat
    BY <1>4, <1>5, <1>6, <2>1, ProxyAssumption
  <2> QED BY <1>6, <1>11, <2>1, <2>2
<1>13. \A u \in Threads : source[u] \in Threads =>
         root[u] = root[source[u]] /\ prefixes'[u] < prefixes'[source[u]]
  <2> SUFFICES ASSUME NEW u \in Threads, source[u] \in Threads
               PROVE  root[u] = root[source[u]] /\ prefixes'[u] < prefixes'[source[u]]
    OBVIOUS
  <2>1. root[u] = root[source[u]] /\ prefixes[u] < prefixes[source[u]] /\ source[u] # t
    BY <1>2, <1>7 DEF Chain
  <2>2. prefixes'[source[u]] = prefixes[source[u]] /\ prefixes'[u] \in Nat
    BY <1>4, <1>5, <1>6, <2>1
  <2> QED BY <1>6, <1>11, <2>1, <2>2
<1>14. \A u, v \in Threads : Busy(u) /\ Busy(v) /\ root[u] = root[v] /\ u # v => InOrder(u, v)'
  <2> SUFFICES ASSUME NEW u \in Threads, NEW v \in Threads, Busy(u), Busy(v),
                      root[u] = root[v], u # v
               PROVE  InOrder(u, v)'
    OBVIOUS
  <2>0. InOrder(u, v)
    BY <1>2 DEF Chain
  <2>1. CASE v = t
    <3>1. prefixes'[v] < prefixes'[u] /\ source[v] \notin Clients
      BY <1>4, <1>5, <1>6, <1>9, <2>1
    <3>2. prefixes'[u] \in Nat /\ prefixes'[v] \in Nat
      BY <1>4, <1>5, <1>6, <2>1
    <3> QED BY <1>1, <3>1, <3>2 DEF InOrder
  <2>2. CASE u = t
    <3>1. prefixes'[v] = prefixes[v] /\ prefixes[u] < prefixes[v] /\ prefixes'[u] <= prefixes[u]
      BY <1>5, <1>9, <1>11, <2>2
    <3>2. prefixes'[u] < prefixes'[v]
      BY <1>4, <1>6, <2>2, <3>1
    <3>3. PICK w \in Threads : source[w] = v /\ prefixes[u] <= prefixes[w]
      BY <2>0, <3>1 DEF InOrder
    <3>4. prefixes'[u] <= prefixes'[w]
      BY <1>4, <1>5, <1>6, <2>2, <3>3
    <3> QED BY <1>1, <1>4, <1>6, <2>2, <3>1, <3>2, <3>3, <3>4 DEF InOrder
  <2>3. CASE u # t /\ v # t
    <3>1. prefixes'[u] = prefixes[u] /\ prefixes'[v] = prefixes[v]
      BY <1>5, <2>3
    <3>2. ASSUME NEW w \in Threads, source[w] = v, prefixes[u] <= prefixes[w]
          PROVE  prefixes'[u] <= prefixes'[w]
      <4>1. CASE w # t
        BY <1>5, <3>1, <3>2, <4>1
      <4>2. CASE w = t
        <5>1. v \in Threads /\ root[t] = root[v]
          BY <1>2, <3>2, <4>2 DEF Chain
        <5>2. prefixes[t] < prefixes[u]
          BY <1>9, <2>3, <5>1
        <5> QED BY <1>6, <3>2, <4>2, <5>2
      <4> QED BY <4>1, <4>2
    <3> QED BY <1>1, <2>0, <3>1, <3>2 DEF InOrder
  <2> QED BY <2>1, <2>2, <2>3
<1>15. Chain(root)'
  BY <1>1, <1>2, <1>8, <1>10, <1>12, <1>13, <1>14 DEF Chain
<1> QED BY <1>2, <1>15 DEF Chained

\* A thread that replies is the last of its chain and leaves it.
LEMMA ReplyChained ==
  ASSUME IInv, Typing, Chained, NEW t \in Threads, ReplyToClient(t) \/ ReplyToThread(t)
  PROVE  Chained'
<1>1. /\ stage[t] = "reply" /\ source[t] \in Sources
      /\ source' = [source EXCEPT ![t] = Nobody]
      /\ UNCHANGED prefixes
  BY DEF ReplyToClient, ReplyToThread, Release, In, Sources
<1>2. PICK root \in [Threads -> Clients \cup {Nobody}] : Chain(root)
  BY DEF Chained
<1>3. source'[t] = Nobody /\ Nobody \notin Sources
      /\ \A u \in Threads : u # t => source'[u] = source[u]
  BY <1>1, ProxyAssumption DEF IInv, Shape, Sources
<1>4. Busy(t) /\ \A u \in Threads : source[u] # t
  BY <1>1, <1>2 DEF IInv, Waits, WaitsForPool, Chain
<1>5. ~Busy(t)' /\ \A u \in Threads : u # t => Busy(u)' = Busy(u)
  BY <1>3 DEF Busy
<1>6. \A u \in Threads : Busy(u) /\ root[u] = root[t] /\ u # t =>
        prefixes[t] < prefixes[u] /\ source[t] \notin Clients
  BY <1>2, <1>4, LastOfChain
<1>7. \A u \in Threads : stage'[u] # "idle" => u # t /\ stage[u] # "idle"
  <2>1. CASE ReplyToClient(t)
    <3>1. stage' = [stage EXCEPT ![t] = "idle"]
      BY <2>1 DEF ReplyToClient
    <3> QED BY <3>1 DEF IInv, Shape
  <2>2. CASE ReplyToThread(t)
    <3>1. PICK w \in Threads :
            w = source[t] /\ stage' = [stage EXCEPT ![t] = "idle", ![w] = "parse"]
      BY <2>2 DEF ReplyToThread
    <3>2. w # t /\ stage[w] = "exchange"
      BY <3>1, <1>4 DEF IInv, Waits, WaitsForPool
    <3> QED BY <3>1, <3>2 DEF IInv, Shape
  <2> QED BY <2>1, <2>2
<1>8. \A u \in Threads : stage'[u] # "idle" => Busy(u)'
  BY <1>2, <1>5, <1>7 DEF Chain
<1>9. \A u \in Threads : Busy(u)' => \E v \in Threads : source'[v] = root[u]
  <2> SUFFICES ASSUME NEW u \in Threads, Busy(u)' PROVE \E v \in Threads : source'[v] = root[u]
    OBVIOUS
  <2>1. u # t /\ Busy(u)
    BY <1>5
  <2>2. PICK v \in Threads : source[v] = root[u] /\ root[u] \in Clients
    BY <1>2, <2>1 DEF Chain
  <2>3. v # t
    BY <1>2, <1>6, <2>1, <2>2 DEF Chain
  <2> QED BY <1>3, <2>2, <2>3
<1>10. \A u, v \in Threads : Busy(u)' /\ Busy(v)' /\ root[u] = root[v] /\ u # v => InOrder(u, v)'
  <2> SUFFICES ASSUME NEW u \in Threads, NEW v \in Threads, Busy(u)', Busy(v)',
                      root[u] = root[v], u # v
               PROVE  InOrder(u, v)'
    OBVIOUS
  <2>1. u # t /\ v # t /\ Busy(u) /\ Busy(v) /\ InOrder(u, v)
    BY <1>2, <1>5 DEF Chain
  <2>2. ASSUME NEW w \in Threads, source[w] = v, prefixes[u] <= prefixes[w] PROVE w # t
    <3> SUFFICES ASSUME w = t PROVE FALSE
      OBVIOUS
    <3>1. root[t] = root[v]
      BY <1>2, <2>2 DEF Chain
    <3>2. prefixes[t] < prefixes[u]
      BY <1>6, <2>1, <3>1
    <3> QED BY <2>2, <3>2 DEF Typing, HasPrefix
  <2> QED BY <1>1, <1>3, <2>1, <2>2 DEF InOrder
<1>11. \A u \in Threads : source'[u] \in Sources => source'[u] = source[u]
  BY <1>3
<1>12. Chain(root)'
  <2>1. \A u \in Threads : Busy(u)' => root[u] \in Clients /\ prefixes'[u] <= Prefixes[root[u]]
    BY <1>1, <1>2, <1>5 DEF Chain
  <2>2. \A u \in Threads : source'[u] \in Clients => root[u] = source'[u]
    BY <1>2, <1>11 DEF Chain, Sources
  <2>3. \A u \in Threads : source'[u] \in Threads =>
          root[u] = root[source'[u]] /\ prefixes'[u] < prefixes'[source'[u]]
    BY <1>1, <1>2, <1>11 DEF Chain, Sources
  <2> QED BY <1>8, <1>9, <1>10, <2>1, <2>2, <2>3 DEF Chain
<1> QED BY <1>2, <1>12 DEF Chained

\* Every step keeps the chains.
LEMMA NextChained ==
  ASSUME NoDetour, IInv, Answers, Typing, Chained, [Next]_vars
  PROVE  Chained'
<1>1. ASSUME UNCHANGED <<source, prefixes>>,
             \A u \in Threads : stage'[u] # "idle" => stage[u] # "idle"
      PROVE  Chained'
  <2>1. PICK root \in [Threads -> Clients \cup {Nobody}] : Chain(root)
    BY DEF Chained
  <2>2. Chain(root)'
    BY <1>1, <2>1 DEF Chain, Busy, InOrder
  <2> QED BY <2>1, <2>2 DEF Chained
<1>2. ASSUME NEW t \in Threads, stage[t] # "idle", UNCHANGED <<source, prefixes>>,
             \E s : stage' = [stage EXCEPT ![t] = s]
      PROVE  Chained'
  BY <1>1, <1>2 DEF IInv, Shape
<1>3. ASSUME NEW t \in Threads,
             \/ \E r \in OwnResponses : OtherHandler(t, r)
             \/ \E r \in Responses : Respond(t, r)
             \/ Connect(t) \/ ConnectFails(t) \/ ExchangeFails(t) \/ Relay(t)
      PROVE  Chained'
  <2>1. stage[t] # "idle" /\ UNCHANGED <<source, prefixes>> /\ \E s : stage' = [stage EXCEPT ![t] = s]
    BY <1>3 DEF OtherHandler, Respond, Connect, ConnectFails, ExchangeFails, Relay, Return, In
  <2> QED BY <1>2, <2>1
<1>4. ASSUME NEW t \in Threads, ParseThrows(t) PROVE Chained'
  BY <1>1, <1>4 DEF ParseThrows
<1>5. CASE Quiet \/ UNCHANGED vars
  BY <1>1, <1>5 DEF Quiet, vars
<1>6. ASSUME NEW t \in Threads, Follow(t) PROVE Chained'
  BY <1>6, NoDetour, FollowChained
<1> QED
  BY <1>3, <1>4, <1>5, <1>6, TakeChained, ReplyChained DEF Next, Work, Backend, Sources

\* There are finitely many passes.
LEMMA PassesFinite == IsFiniteSet(Passes)
<1> DEFINE pass == [c \in Clients |-> {c} \X (1..Prefixes[c])]
           all == {pass[c] : c \in Clients}
<1>1. \A c \in Clients : IsFiniteSet(pass[c])
  <2> SUFFICES ASSUME NEW c \in Clients PROVE IsFiniteSet({c} \X (1..Prefixes[c]))
    OBVIOUS
  <2>1. Prefixes[c] \in Int /\ 1 \in Int
    BY ProxyAssumption
  <2>2. IsFiniteSet(1..Prefixes[c])
    BY <2>1, FS_Interval
  <2> QED BY <2>2, FS_Singleton, FS_Product
<1>2. Passes = UNION all
  BY DEF Passes
<1> HIDE DEF pass
<1>3. pass \in Surjection(Clients, all)
  BY DEF Surjection, pass
<1>4. \A T \in all : IsFiniteSet(T)
  BY <1>1
<1> HIDE DEF all
<1>5. IsFiniteSet(all)
  BY <1>3, ProxyAssumption, FS_Surjection
<1> QED BY <1>2, <1>4, <1>5, FS_UNION

\* With more threads than there can be requests inside the proxy at a time, and
\* no redirect back into it, some thread of the pool is always free to serve
\* what the others wait for: the server that forwards to itself does not come
\* to a standstill (reverse_proxy_handler.cc 66, dev_backend_config).
THEOREM PoolOutlastsProxy ==
  ASSUME NoDetour, EnoughThreads PROVE Spec => []PoolNeverExhausted
<1>1. Init => Chained
  <2> SUFFICES ASSUME Init PROVE Chained
    OBVIOUS
  <2> DEFINE root == [t \in Threads |-> Nobody]
  <2>1. \A t \in Threads : ~Busy(t) /\ source[t] \notin Sources /\ stage[t] = "idle"
    BY ProxyAssumption DEF Init, Busy, Sources
  <2>2. root \in [Threads -> Clients \cup {Nobody}]
    OBVIOUS
  <2> HIDE DEF root
  <2>3. Chain(root)
    BY <2>1 DEF Chain, Sources
  <2> QED BY <2>2, <2>3 DEF Chained
<1>2. Chained /\ Typing => PoolNeverExhausted
  <2> SUFFICES ASSUME Chained, Typing, \A t \in Threads : WaitsForPool(t) PROVE FALSE
    BY DEF PoolNeverExhausted
  <2>1. PICK root \in [Threads -> Clients \cup {Nobody}] : Chain(root)
    BY DEF Chained
  <2> DEFINE pass == [t \in Threads |-> <<root[t], prefixes[t]>>]
  <2>2. \A t \in Threads : Busy(t)
    BY <2>1 DEF Chain, WaitsForPool
  <2>3. \A t \in Threads : root[t] \in Clients /\ prefixes[t] \in 1..Prefixes[root[t]]
    BY <2>1, <2>2, ProxyAssumption DEF Chain, Typing, HasPrefix, WaitsForPool
  <2>4. pass \in [Threads -> Passes]
    BY <2>3 DEF Passes
  <2>5. PICK t, u \in Threads : t # u /\ pass[t] = pass[u]
    <3> HIDE DEF pass
    <3> QED BY <2>4, PassesFinite, EnoughThreads, ProxyAssumption, FS_PigeonHole DEF EnoughThreads
  <2>6. root[t] = root[u] /\ prefixes[t] = prefixes[u]
    BY <2>5
  <2> QED BY <2>1, <2>2, <2>5, <2>6 DEF Chain, InOrder
<1>3. IInv /\ Answers /\ Typing /\ Chained /\ [Next]_vars => Chained'
  BY NoDetour, NextChained
<1> QED
  BY <1>1, <1>2, <1>3, ProxyInvariant, AnswersInvariant, TypingInvariant, PTL DEF Spec
=============================================================================
