---------------------------- MODULE ServerProofs ----------------------------
(***************************************************************************)
(* Theorems about the server, for every pool size, every set of connections*)
(* and every configuration: the ledger of pending accepts, and the custody *)
(* of a session by one thread.  On these rests that the server implements  *)
(* two abstract specifications: RequestMap, so that the theorems of the    *)
(* counters hold in it (none is ahead of the replies, and with one thread  *)
(* they are the replies), and WebService, when its routing keeps the       *)
(* promises.                                                               *)
(***************************************************************************)
EXTENDS Server, FiniteSetTheorems, TLAPS

\* The part of the state the two theorems are about.
ShapeOK ==
  /\ accepts \in Nat
  /\ conn \in [Conn -> ConnStates]
  /\ stage \in [Threads -> Stages]
  /\ session \in [Threads -> Conn \cup {NoConn}]

\* A step of Next, one action at a time, as seen by the variables of ShapeOK.
LEMMA StepCases ==
  ASSUME [Next]_vars
  PROVE  \/ \E c \in Conn : Connect(c)
         \/ \E t \in Threads, c \in Conn : HandleAccept(t, c)
         \/ \E t \in Threads, c \in Conn : HandleAcceptError(t, c)
         \/ \E t \in Threads, c \in Conn : Reject(t, c) \/ Dispatch(t, c)
         \/ \E t \in Threads : HandlerReturns(t) \/ Count(t)
         \/ \E t \in Threads : WriteReply(t)
         \/ UNCHANGED <<accepts, conn, stage, session>>
<1>1. CASE Client
  BY <1>1 DEF Client, Reset, SendRequest, Interrupt, pool, network
<1>2. ASSUME NEW t \in Threads, Accepting(t) PROVE
        \/ \E c \in Conn : HandleAccept(t, c)
        \/ \E c \in Conn : HandleAcceptError(t, c)
  BY <1>2 DEF Accepting
<1>3. ASSUME NEW t \in Threads, HandleSignal(t) \/ RaceCrash(t)
      PROVE  UNCHANGED <<accepts, conn, stage, session>>
  BY <1>3 DEF HandleSignal, RaceCrash, pool, network
<1>4. ASSUME NEW t \in Threads, NEW c \in Conn, Handling(t, c)
      PROVE  \/ Reject(t, c) \/ Dispatch(t, c)
             \/ UNCHANGED <<accepts, conn, stage, session>>
  BY <1>4 DEF Handling, LosePeer, Misroute, pool, network
<1>5. ASSUME NEW t \in Threads, InSession(t)
      PROVE  \/ HandlerReturns(t) \/ Count(t) \/ WriteReply(t)
             \/ UNCHANGED <<accepts, conn, stage, session>>
  BY <1>5 DEF InSession, ReadCounter, HandlerThrows, LookUp, WriteFails, pool, network
<1>6. CASE Quiet \/ UNCHANGED vars
  BY <1>6 DEF Quiet, vars, pool, network
<1> QED
  BY <1>1, <1>2, <1>3, <1>4, <1>5, <1>6 DEF Next

\* The variables that custody depends on keep their types.
LEMMA ShapeCorrect == Spec => []ShapeOK
<1>1. Init => ShapeOK
  BY DEF Init, ShapeOK, ConnStates, Stages
<1>2. ShapeOK /\ [Next]_vars => ShapeOK'
  <2> SUFFICES ASSUME ShapeOK, [Next]_vars PROVE ShapeOK'
    OBVIOUS
  <2> USE DEF ShapeOK, ConnStates, Stages
  <2>1. ASSUME NEW c \in Conn, Connect(c) PROVE ShapeOK'
    BY <2>1 DEF Connect, pool
  <2>2. ASSUME NEW t \in Threads, NEW c \in Conn, HandleAccept(t, c)
        PROVE  ShapeOK'
    BY <2>2 DEF HandleAccept, pool
  <2>3. ASSUME NEW t \in Threads, NEW c \in Conn, HandleAcceptError(t, c)
        PROVE  ShapeOK'
    BY <2>3 DEF HandleAcceptError, pool, network
  <2>4. ASSUME NEW t \in Threads, NEW c \in Conn, Reject(t, c) \/ Dispatch(t, c)
        PROVE  ShapeOK'
    BY <2>4 DEF Reject, Dispatch, StartSession
  <2>5. ASSUME NEW t \in Threads, HandlerReturns(t) \/ Count(t) PROVE ShapeOK'
    BY <2>5 DEF HandlerReturns, Count, network
  <2>6. ASSUME NEW t \in Threads, WriteReply(t) PROVE ShapeOK'
    BY <2>6 DEF WriteReply
  <2>7. CASE UNCHANGED <<accepts, conn, stage, session>>
    BY <2>7
  <2> QED
    BY <2>1, <2>2, <2>3, <2>4, <2>5, <2>6, <2>7, StepCases
<1> QED
  BY <1>1, <1>2, PTL DEF Spec

-----------------------------------------------------------------------------
\* For every pool: a session is run by one thread, from the moment its request
\* is taken until its socket is closed (session.cc 48-136).
THEOREM OneThreadPerSession == Spec => []SessionCustody
<1>1. Init => SessionCustody
  BY ConnAssumption DEF Init, SessionCustody
<1>2. ShapeOK /\ SessionCustody /\ [Next]_vars => SessionCustody'
  <2> SUFFICES ASSUME ShapeOK, SessionCustody, [Next]_vars
               PROVE  SessionCustody'
    OBVIOUS
  <2> USE ConnAssumption DEF ShapeOK, SessionCustody, ConnStates, Stages
  <2>1. ASSUME NEW c \in Conn, Connect(c) PROVE SessionCustody'
    BY <2>1 DEF Connect, pool
  <2>2. ASSUME NEW t \in Threads, NEW c \in Conn, HandleAccept(t, c)
        PROVE  SessionCustody'
    BY <2>2 DEF HandleAccept, pool
  <2>3. ASSUME NEW t \in Threads, NEW c \in Conn, HandleAcceptError(t, c)
        PROVE  SessionCustody'
    BY <2>3 DEF HandleAcceptError, pool, network
  <2>4. ASSUME NEW t \in Threads, NEW c \in Conn, Reject(t, c) \/ Dispatch(t, c)
        PROVE  SessionCustody'
    <3>1. /\ stage[t] = "idle" /\ conn[c] = "open"
          /\ \E s \in Stages \ {"idle"} : StartSession(t, c, s)
      BY <2>4 DEF Reject, Dispatch, HasRequest, CanRead, Idle
    <3>2. session[t] = NoConn /\ \A u \in Threads : session[u] # c
      BY <3>1
    <3>3. PICK s \in Stages \ {"idle"} :
            /\ conn' = [conn EXCEPT ![c] = "handled"]
            /\ session' = [session EXCEPT ![t] = c]
            /\ stage' = [stage EXCEPT ![t] = s]
      BY <3>1 DEF StartSession
    <3>4. \A u \in Threads : (session'[u] = NoConn) <=> (stage'[u] = "idle")
      BY <3>1, <3>2, <3>3
    <3>5. \A u, v \in Threads :
            session'[u] = session'[v] => u = v \/ stage'[u] = "idle"
      BY <3>1, <3>2, <3>3
    <3>6. \A d \in Conn : (conn'[d] = "handled") <=> \E u \in Threads : session'[u] = d
      BY <3>1, <3>2, <3>3
    <3> QED
      BY <3>4, <3>5, <3>6
  <2>5. ASSUME NEW t \in Threads, HandlerReturns(t) \/ Count(t)
        PROVE  SessionCustody'
    BY <2>5 DEF HandlerReturns, Count, In, network
  <2>6. ASSUME NEW t \in Threads, WriteReply(t) PROVE SessionCustody'
    <3>1. /\ stage[t] = "writing" /\ session[t] \in Conn
          /\ conn' = [conn EXCEPT ![session[t]] = "closed"]
          /\ stage' = [stage EXCEPT ![t] = "idle"]
          /\ session' = [session EXCEPT ![t] = NoConn]
      BY <2>6 DEF WriteReply, In
    <3>2. \A u \in Threads \ {t} : session[u] # session[t]
      BY <3>1
    <3>3. \A d \in Conn : (conn'[d] = "handled") <=> \E u \in Threads : session'[u] = d
      BY <3>1, <3>2
    <3> QED
      BY <3>1, <3>3
  <2>7. CASE UNCHANGED <<accepts, conn, stage, session>>
    BY <2>7
  <2> QED
    BY <2>1, <2>2, <2>3, <2>4, <2>5, <2>6, <2>7, StepCases
<1> QED
  BY <1>1, <1>2, ShapeCorrect, PTL DEF Spec

-----------------------------------------------------------------------------
\* For every set of connections: one accept is pending more than connections
\* were ever accepted (server.cc 40-55).
THEOREM AcceptsGrow == Spec => []AcceptLedger
<1> USE DEF AcceptLedger
<1>1. Init => AcceptLedger
  <2> SUFFICES ASSUME Init PROVE AcceptLedger
    OBVIOUS
  <2>1. Accepted = {}
    BY DEF Init, Accepted
  <2> QED
    BY <2>1, FS_EmptySet DEF Init
<1>2. ShapeOK /\ SessionCustody /\ AcceptLedger /\ [Next]_vars => AcceptLedger'
  <2> SUFFICES ASSUME ShapeOK, SessionCustody, AcceptLedger, [Next]_vars
               PROVE  AcceptLedger'
    OBVIOUS
  <2> USE DEF ShapeOK
  <2>0. IsFiniteSet(Accepted) /\ Cardinality(Accepted) \in Nat
    <3>1. Accepted \subseteq Conn
      BY DEF Accepted
    <3> QED
      BY <3>1, ConnAssumption, FS_Subset, FS_CardinalityType
  <2>1. ASSUME NEW c \in Conn, Connect(c) PROVE AcceptLedger'
    <3>1. Accepted' = Accepted /\ accepts' = accepts
      BY <2>1 DEF Connect, Accepted
    <3> QED
      BY <3>1
  <2>2. ASSUME NEW t \in Threads, NEW c \in Conn, HandleAccept(t, c)
        PROVE  AcceptLedger'
    <3>1. c \notin Accepted /\ Accepted' = Accepted \cup {c}
      BY <2>2 DEF HandleAccept, Accepted
    <3>2. Cardinality(Accepted') = Cardinality(Accepted) + 1
      BY <2>0, <3>1, FS_AddElement
    <3>3. accepts' = accepts + 1
      BY <2>2 DEF HandleAccept
    <3> QED
      BY <2>0, <3>2, <3>3
  <2>3. ASSUME NEW t \in Threads, NEW c \in Conn, HandleAcceptError(t, c)
        PROVE  AcceptLedger'
    <3>1. Accepted' = Accepted /\ accepts' = accepts
      BY <2>3 DEF HandleAcceptError, Accepted, network
    <3> QED
      BY <3>1
  <2>4. ASSUME NEW t \in Threads, NEW c \in Conn, Reject(t, c) \/ Dispatch(t, c)
        PROVE  AcceptLedger'
    <3>1. Accepted' = Accepted /\ accepts' = accepts
      BY <2>4 DEF Reject, Dispatch, StartSession, HasRequest, CanRead, Accepted
    <3> QED
      BY <3>1
  <2>5. ASSUME NEW t \in Threads, HandlerReturns(t) \/ Count(t)
        PROVE  AcceptLedger'
    <3>1. Accepted' = Accepted /\ accepts' = accepts
      BY <2>5 DEF HandlerReturns, Count, Accepted, network
    <3> QED
      BY <3>1
  <2>6. ASSUME NEW t \in Threads, WriteReply(t) PROVE AcceptLedger'
    <3>1. conn[session[t]] = "handled" /\ accepts' = accepts
      BY <2>6, ConnAssumption DEF WriteReply, In, SessionCustody
    <3>2. Accepted' = Accepted
      BY <2>6, <3>1 DEF WriteReply, Accepted
    <3> QED
      BY <3>1, <3>2
  <2>7. CASE UNCHANGED <<accepts, conn, stage, session>>
    BY <2>7 DEF Accepted
  <2> QED
    BY <2>1, <2>2, <2>3, <2>4, <2>5, <2>6, <2>7, StepCases
<1> QED
  BY <1>1, <1>2, ShapeCorrect, OneThreadPerSession, PTL DEF Spec

(***************************************************************************)
(* The counters.  Under both abstract specifications: the requests that    *)
(* are recorded are the replies that are written or about to be.           *)
(***************************************************************************)
\* The theorems about the counters by themselves.
Proved == INSTANCE RequestMapProofs WITH MaxCount <- Cardinality(Conn)

Domains ==
  /\ DOMAIN request = Conn /\ DOMAIN sent = Conn
  /\ DOMAIN step = Threads /\ DOMAIN key = Threads /\ DOMAIN loaded = Threads
  /\ DOMAIN served = Keys /\ DOMAIN request_map = Keys

\* A thread that counts or writes has the key of its session's request.
KeyOfSession ==
  \A t \in Threads :
    stage[t] \in {"counting", "writing"} => key[t] = KeyOf(request[session[t]], key[t][2])

CInv == Domains /\ KeyOfSession /\ ServedMatchesReplies

\* What the invariant is about.
counted == <<conn, request, sent, stage, session, key, served>>

-----------------------------------------------------------------------------
\* The key keeps the status.
LEMMA KeyHasCode == \A r, code : KeyOf(r, code) = KeyOf(r, KeyOf(r, code)[2])
<1> SUFFICES ASSUME NEW r, NEW code PROVE KeyOf(r, code)[2] = code
  OBVIOUS
<1>1. CASE r.valid
  BY <1>1 DEF KeyOf
<1>2. CASE ~r.valid
  BY <1>2 DEF KeyOf
<1> QED BY <1>1, <1>2

\* A reply belongs to the connection it was written to, or is about to be.
LEMMA RepliedMember ==
  ASSUME ShapeOK, SessionCustody
  PROVE  /\ \A k : RepliedAs(k) \subseteq Conn /\ IsFiniteSet(RepliedAs(k))
         /\ \A k : Cardinality(RepliedAs(k)) \in Nat
         /\ \A k, c : c \in RepliedAs(k) <=>
              \/ c \in Conn /\ conn[c] = "closed" /\ KeyOf(request[c], sent[c]) = k
              \/ \E t \in Threads : stage[t] = "writing" /\ key[t] = k /\ session[t] = c
<1>1. \A t \in Threads : stage[t] = "writing" => session[t] \in Conn
  BY DEF ShapeOK, SessionCustody
<1>2. \A k : RepliedAs(k) \subseteq Conn
  BY <1>1 DEF RepliedAs
<1>3. \A k : IsFiniteSet(RepliedAs(k))
  BY <1>2, ConnAssumption, FS_Subset
<1>4. \A k : Cardinality(RepliedAs(k)) \in Nat
  BY <1>3, FS_CardinalityType
<1> QED
  BY <1>2, <1>3, <1>4 DEF RepliedAs

\* A step that moves no reply and records nothing.
LEMMA NothingReplied ==
  ASSUME ShapeOK, SessionCustody, ShapeOK', SessionCustody', ServedMatchesReplies,
         served' = served,
         \A c \in Conn : conn'[c] = "closed" <=> conn[c] = "closed",
         \A c \in Conn : conn[c] = "closed" => request'[c] = request[c] /\ sent'[c] = sent[c],
         \A t \in Threads : stage'[t] = "writing" <=> stage[t] = "writing",
         \A t \in Threads : stage[t] = "writing" => key'[t] = key[t] /\ session'[t] = session[t]
  PROVE  ServedMatchesReplies'
<1>1. ASSUME NEW k PROVE RepliedAs(k)' = RepliedAs(k)
  BY RepliedMember DEF RepliedAs
<1> QED
  BY <1>1 DEF ServedMatchesReplies, Keys

\* A thread records its request when its reply is ready to be written.
LEMMA RecordedReply ==
  ASSUME ShapeOK, SessionCustody, Domains, ServedMatchesReplies,
         NEW t \in Threads, stage[t] = "counting", stage' = [stage EXCEPT ![t] = "writing"],
         served' = [served EXCEPT ![key[t]] = @ + 1],
         UNCHANGED <<conn, request, sent, session, key>>
  PROVE  ServedMatchesReplies'
<1>1. session[t] \in Conn /\ conn[session[t]] = "handled"
  BY DEF ShapeOK, SessionCustody
<1>2. \A u \in Threads : session[u] = session[t] => u = t
  BY DEF SessionCustody
<1>3. stage'[t] = "writing" /\ \A u \in Threads : u # t => stage'[u] = stage[u]
  BY DEF ShapeOK
<1>4. session[t] \notin RepliedAs(key[t])
  BY <1>1, <1>2, RepliedMember
<1>5. ASSUME NEW k, k = key[t] PROVE RepliedAs(k)' = RepliedAs(k) \cup {session[t]}
  BY <1>3, <1>5 DEF RepliedAs
<1>6. ASSUME NEW k, k # key[t] PROVE RepliedAs(k)' = RepliedAs(k)
  BY <1>3, <1>6 DEF RepliedAs
<1>7. SUFFICES ASSUME NEW k \in Keys PROVE served'[k] = Cardinality(RepliedAs(k)')
  BY DEF ServedMatchesReplies, Keys
<1>8. served[k] = Cardinality(RepliedAs(k)) /\ served[k] \in Nat
  BY RepliedMember DEF ServedMatchesReplies
<1>9. CASE k = key[t]
  <2>1. Cardinality(RepliedAs(k)') = Cardinality(RepliedAs(k)) + 1
    <3>1. IsFiniteSet(RepliedAs(k)) /\ session[t] \notin RepliedAs(k)
      BY <1>4, <1>9, RepliedMember
    <3>2. RepliedAs(k)' = RepliedAs(k) \cup {session[t]}
      BY <1>5, <1>9
    <3> QED BY <3>1, <3>2, FS_AddElement
  <2>2. served'[k] = served[k] + 1
    BY <1>9 DEF Domains
  <2> QED BY <1>8, <2>1, <2>2
<1>10. CASE k # key[t]
  <2>1. served'[k] = served[k]
    BY <1>10 DEF Domains
  <2> QED BY <1>6, <1>8, <1>10, <2>1
<1> QED BY <1>9, <1>10

\* A reply is written: it was about to be, and is now sent.
LEMMA WrittenReply ==
  ASSUME ShapeOK, SessionCustody, Domains, KeyOfSession, ServedMatchesReplies,
         NEW t \in Threads, WriteReply(t)
  PROVE  ServedMatchesReplies'
<1> DEFINE d == session[t]
<1>1. /\ stage[t] = "writing"
      /\ sent' = [sent EXCEPT ![d] = key[t][2]]
      /\ conn' = [conn EXCEPT ![d] = "closed"]
      /\ stage' = [stage EXCEPT ![t] = "idle"]
      /\ session' = [session EXCEPT ![t] = NoConn]
      /\ UNCHANGED <<request, key, served>>
  BY DEF WriteReply, In, counters
<1>2. d \in Conn /\ conn[d] = "handled" /\ \A u \in Threads : session[u] = d => u = t
  BY <1>1 DEF ShapeOK, SessionCustody
<1>3. key[t] = KeyOf(request[d], key[t][2])
  BY <1>1 DEF KeyOfSession
<1> HIDE DEF d
<1>4. /\ conn'[d] = "closed" /\ sent'[d] = key[t][2]
      /\ \A c \in Conn : c # d => conn'[c] = conn[c] /\ sent'[c] = sent[c]
  BY <1>1, <1>2 DEF ShapeOK, Domains
<1>5. /\ stage'[t] = "idle"
      /\ \A u \in Threads : u # t => stage'[u] = stage[u] /\ session'[u] = session[u]
  BY <1>1 DEF ShapeOK
<1>6. session[t] = d
  BY DEF d
<1>7. ASSUME NEW k PROVE RepliedAs(k)' = RepliedAs(k)
  <2>1. ASSUME NEW c \in RepliedAs(k)' PROVE c \in RepliedAs(k)
    <3>1. CASE c = d
      <4>1. KeyOf(request[d], sent'[d]) = k
        BY <1>1, <1>2, <1>5, <2>1, <3>1 DEF RepliedAs
      <4> QED BY <1>1, <1>3, <1>4, <1>6, <3>1, <4>1 DEF RepliedAs
    <3>2. CASE c # d
      BY <1>1, <1>4, <1>5, <2>1, <3>2 DEF RepliedAs
    <3> QED BY <3>1, <3>2
  <2>2. ASSUME NEW c \in RepliedAs(k) PROVE c \in RepliedAs(k)'
    <3>1. CASE c = d
      <4>1. key[t] = k
        BY <1>2, <2>2, <3>1, RepliedMember
      <4> QED BY <1>1, <1>2, <1>3, <1>4, <3>1, <4>1 DEF RepliedAs
    <3>2. CASE c # d
      BY <1>1, <1>4, <1>5, <1>6, <2>2, <3>2 DEF RepliedAs
    <3> QED BY <3>1, <3>2
  <2> QED BY <2>1, <2>2
<1> QED
  BY <1>1, <1>7 DEF ServedMatchesReplies, Keys

-----------------------------------------------------------------------------
\* A thread takes up the key of its request.
LEMMA BeginsRecord ==
  ASSUME Domains, KeyOfSession, NEW t \in Threads, NEW r, NEW code,
         Stats!BeginRecord(t, KeyOf(r, code)), r = request[session'[t]],
         \A u \in Threads : u # t => stage'[u] = stage[u] /\ session'[u] = session[u],
         request' = request, sent' = sent
  PROVE  Domains' /\ KeyOfSession' /\ served' = served /\ \A u \in Threads : u # t => key'[u] = key[u]
<1>1. /\ key' = [key EXCEPT ![t] = KeyOf(r, code)]
      /\ step' = [step EXCEPT ![t] = "find"]
      /\ UNCHANGED <<request_map, loaded, served>>
  BY DEF Stats!BeginRecord
<1>2. key'[t] = KeyOf(request'[session'[t]], key'[t][2])
  BY <1>1, KeyHasCode DEF Domains
<1>3. \A u \in Threads : u # t => key'[u] = key[u]
  BY <1>1 DEF Domains
<1>4. Domains'
  BY <1>1 DEF Domains, Keys
<1>5. KeyOfSession'
  BY <1>2, <1>3 DEF KeyOfSession
<1> QED BY <1>1, <1>3, <1>4, <1>5

\* The invariant through a step of a thread that does not record a request.
LEMMA SessionKeepsCInv ==
  ASSUME ShapeOK, SessionCustody, CInv, ShapeOK', SessionCustody', NEW t \in Threads,
         InSession(t)
  PROVE  CInv'
<1>1. Domains /\ KeyOfSession /\ ServedMatchesReplies
  BY DEF CInv
<1>2. CASE ReadCounter(t)
  <2>1. /\ UNCHANGED <<conn, request, sent, stage, session, key, served>>
        /\ UNCHANGED <<request_map, step, loaded>>
    BY <1>2 DEF ReadCounter, Stats!ReadEntry, network, pool
  <2>2. Domains' /\ KeyOfSession'
    BY <1>1, <2>1 DEF Domains, KeyOfSession, Keys
  <2> QED BY <1>1, <2>1, <2>2, NothingReplied DEF CInv
<1>3. CASE HandlerReturns(t)
  <2> DEFINE r == request[session[t]]
  <2>1. PICK reply \in Replies(NameFor(r)) : Stats!BeginRecord(t, KeyOf(r, StatusOf(reply)))
    BY <1>3 DEF HandlerReturns
  <2>2. /\ stage[t] = "handling" /\ stage' = [stage EXCEPT ![t] = "counting"]
        /\ UNCHANGED <<conn, request, sent, session>>
    BY <1>3 DEF HandlerReturns, In, network
  <2>3. stage'[t] = "counting" /\ \A u \in Threads : u # t => stage'[u] = stage[u]
    BY <2>2 DEF ShapeOK
  <2>4. Domains' /\ KeyOfSession' /\ served' = served /\ \A u \in Threads : u # t => key'[u] = key[u]
    BY <1>1, <2>1, <2>2, <2>3, BeginsRecord
  <2>5. ServedMatchesReplies'
    BY <1>1, <2>2, <2>3, <2>4, NothingReplied
  <2> QED BY <2>4, <2>5 DEF CInv
<1>4. CASE HandlerThrows(t) \/ WriteFails(t)
  <2>1. /\ UNCHANGED <<conn, request, sent, stage, session, key, served>>
        /\ UNCHANGED <<request_map, step, loaded>>
    BY <1>4 DEF HandlerThrows, WriteFails, network, pool, counters
  <2>2. Domains' /\ KeyOfSession'
    BY <1>1, <2>1 DEF Domains, KeyOfSession, Keys
  <2> QED BY <1>1, <2>1, <2>2, NothingReplied DEF CInv
<1>5. CASE LookUp(t)
  <2>1. UNCHANGED <<conn, request, sent, stage, session, key, served, request_map>>
    BY <1>5 DEF LookUp, Stats!Find, Stats!Load, network, pool
  <2>2. DOMAIN step' = DOMAIN step /\ DOMAIN loaded' = DOMAIN loaded
    BY <1>5 DEF LookUp, Stats!Find, Stats!Load
  <2>3. Domains' /\ KeyOfSession'
    BY <1>1, <2>1, <2>2 DEF Domains, KeyOfSession, Keys
  <2> QED BY <1>1, <2>1, <2>3, NothingReplied DEF CInv
<1>6. CASE Count(t)
  <2>1. /\ stage[t] = "counting" /\ stage' = [stage EXCEPT ![t] = "writing"]
        /\ UNCHANGED <<conn, request, sent, session>>
    BY <1>6 DEF Count, In, network
  <2>2. Stats!Recorded(t) /\ DOMAIN request_map' = Keys
    BY <1>1, <1>6 DEF Count, Stats!Store, Stats!Insert, Domains
  <2>3. /\ served' = [served EXCEPT ![key[t]] = @ + 1] /\ key' = key
        /\ DOMAIN step' = DOMAIN step /\ DOMAIN loaded' = DOMAIN loaded
    BY <2>2 DEF Stats!Recorded
  <2>4. Domains'
    BY <1>1, <2>1, <2>2, <2>3 DEF Domains, Keys
  <2>5. KeyOfSession'
    BY <1>1, <2>1, <2>3 DEF KeyOfSession, ShapeOK
  <2>6. ServedMatchesReplies'
    BY <1>1, <2>1, <2>3, RecordedReply
  <2> QED BY <2>4, <2>5, <2>6 DEF CInv
<1>7. CASE WriteReply(t)
  <2>1. /\ stage[t] = "writing" /\ DOMAIN sent' = DOMAIN sent
        /\ stage' = [stage EXCEPT ![t] = "idle"] /\ session' = [session EXCEPT ![t] = NoConn]
        /\ UNCHANGED <<request, key, served, request_map, step, loaded>>
    BY <1>7 DEF WriteReply, In, counters
  <2>2. Domains' /\ KeyOfSession'
    BY <1>1, <2>1 DEF Domains, KeyOfSession, Keys, ShapeOK
  <2>3. ServedMatchesReplies'
    BY <1>1, <1>7, WrittenReply
  <2> QED BY <2>2, <2>3 DEF CInv
<1> QED
  BY <1>2, <1>3, <1>4, <1>5, <1>6, <1>7 DEF InSession

\* The invariant when a session begins.
LEMMA StartKeepsCInv ==
  ASSUME ShapeOK, SessionCustody, CInv, ShapeOK', SessionCustody',
         NEW t \in Threads, NEW c \in Conn, Reject(t, c) \/ Dispatch(t, c)
  PROVE  CInv'
<1>1. Domains /\ KeyOfSession /\ ServedMatchesReplies
  BY DEF CInv
<1>2. PICK s \in {"counting", "handling"} :
        /\ stage[t] = "idle" /\ conn[c] = "open" /\ StartSession(t, c, s)
        /\ \/ s = "counting" /\ Stats!BeginRecord(t, KeyOf(request[c], 400))
           \/ s = "handling" /\ (Stats!BeginStatus(t) \/ UNCHANGED counters)
  BY DEF Reject, Dispatch, HasRequest, CanRead, Idle
<1>3. /\ conn' = [conn EXCEPT ![c] = "handled"]
      /\ session' = [session EXCEPT ![t] = c]
      /\ stage' = [stage EXCEPT ![t] = s]
      /\ request' = request /\ sent' = sent
  BY <1>2 DEF StartSession
<1>4. /\ stage'[t] = s /\ session'[t] = c
      /\ \A u \in Threads : u # t => stage'[u] = stage[u] /\ session'[u] = session[u]
  BY <1>3 DEF ShapeOK
<1>5. \A d \in Conn : conn'[d] = "closed" <=> conn[d] = "closed"
  BY <1>2, <1>3 DEF ShapeOK
<1>6. Domains' /\ KeyOfSession' /\ served' = served /\ \A u \in Threads : u # t => key'[u] = key[u]
  <2>1. CASE s = "counting" /\ Stats!BeginRecord(t, KeyOf(request[c], 400))
    BY <1>1, <1>3, <1>4, <2>1, BeginsRecord
  <2>2. CASE s = "handling" /\ (Stats!BeginStatus(t) \/ UNCHANGED counters)
    <3>1. UNCHANGED <<key, served, request_map, loaded>> /\ DOMAIN step' = DOMAIN step
      BY <2>2 DEF Stats!BeginStatus, counters
    <3> QED BY <1>1, <1>3, <1>4, <2>2, <3>1 DEF Domains, KeyOfSession, Keys
  <2> QED BY <1>2, <2>1, <2>2
<1>7. ServedMatchesReplies'
  BY <1>1, <1>2, <1>3, <1>4, <1>5, <1>6, NothingReplied
<1> QED BY <1>6, <1>7 DEF CInv

\* The invariant through what clients, the acceptor and the signal do.
LEMMA OutsideKeepsCInv ==
  ASSUME ShapeOK, SessionCustody, CInv, ShapeOK', SessionCustody',
         UNCHANGED <<sent, stage, session, key, served, request_map, step, loaded>>,
         DOMAIN request' = DOMAIN request,
         \A c \in Conn : conn'[c] = "closed" <=> conn[c] = "closed",
         \A c \in Conn : conn[c] \in {"handled", "closed"} => request'[c] = request[c]
  PROVE  CInv'
<1>1. Domains /\ KeyOfSession /\ ServedMatchesReplies
  BY DEF CInv
<1>2. \A t \in Threads : stage[t] \in {"counting", "writing"} =>
        session[t] \in Conn /\ request'[session[t]] = request[session[t]]
  BY DEF ShapeOK, SessionCustody
<1>3. Domains' /\ KeyOfSession'
  BY <1>1, <1>2 DEF Domains, KeyOfSession, Keys
<1>4. ServedMatchesReplies'
  BY <1>1, NothingReplied
<1> QED BY <1>3, <1>4 DEF CInv

\* Every step keeps the invariant.
LEMMA NextKeepsCInv ==
  ASSUME ShapeOK, SessionCustody, CInv, ShapeOK', SessionCustody', [Next]_vars
  PROVE  CInv'
<1> DEFINE Still == UNCHANGED <<sent, stage, session, key, served, request_map, step, loaded>>
<1>1. Domains
  BY DEF CInv
<1>2. ASSUME NEW c \in Conn, Connect(c) PROVE CInv'
  <2>1. Still /\ request' = request
    BY <1>2 DEF Connect, pool, counters
  <2>2. \A d \in Conn : conn'[d] = "closed" <=> conn[d] = "closed"
    BY <1>2 DEF Connect, ShapeOK
  <2> QED BY <2>1, <2>2, OutsideKeepsCInv
<1>3. ASSUME NEW c \in Conn, NEW r \in Requests, SendRequest(c, r) PROVE CInv'
  <2>1. Still /\ conn' = conn /\ DOMAIN request' = DOMAIN request
    BY <1>3 DEF SendRequest, pool, counters
  <2>2. \A d \in Conn : conn[d] \in {"handled", "closed"} => request'[d] = request[d]
    BY <1>1, <1>3 DEF SendRequest, Domains
  <2> QED BY <2>1, <2>2, OutsideKeepsCInv
<1>4. ASSUME NEW t \in Threads, NEW c \in Conn, HandleAccept(t, c) \/ HandleAcceptError(t, c)
      PROVE  CInv'
  <2>1. Still /\ request' = request
    BY <1>4 DEF HandleAccept, HandleAcceptError, pool, network, counters
  <2>2. \A d \in Conn : conn'[d] = "closed" <=> conn[d] = "closed"
    BY <1>4 DEF HandleAccept, HandleAcceptError, network, ShapeOK
  <2> QED BY <2>1, <2>2, OutsideKeepsCInv
<1>5. CASE Still /\ UNCHANGED <<conn, request>>
  BY <1>5, OutsideKeepsCInv
<1>6. ASSUME NEW t \in Threads, NEW c \in Conn, Handling(t, c) PROVE CInv'
  <2>1. CASE LosePeer(t, c) \/ Misroute(t, c)
    BY <1>5, <2>1 DEF LosePeer, Misroute, network, pool, counters
  <2> QED BY <1>6, <2>1, StartKeepsCInv DEF Handling
<1>7. CASE Client
  <2>1. CASE \E c \in Conn : Reset(c)
    BY <1>5, <2>1 DEF Reset, pool, counters
  <2>2. CASE Interrupt
    BY <1>5, <2>2 DEF Interrupt, network, pool, counters
  <2> QED BY <1>2, <1>3, <1>7, <2>1, <2>2 DEF Client
<1>8. ASSUME NEW t \in Threads, HandleSignal(t) \/ RaceCrash(t) PROVE CInv'
  BY <1>5, <1>8 DEF HandleSignal, RaceCrash, network, pool, counters
<1>9. CASE Quiet \/ UNCHANGED vars
  BY <1>5, <1>9 DEF Quiet, vars, network, pool, counters
<1> QED
  BY <1>4, <1>6, <1>7, <1>8, <1>9, SessionKeepsCInv DEF Next, Accepting

\* What the theorems below rest on.
THEOREM RepliesInvariant == Spec => []CInv
<1>1. Init => CInv
  <2> SUFFICES ASSUME Init PROVE CInv
    OBVIOUS
  <2>1. Domains
    BY DEF Init, Domains, Stats!Init, Stats!NoCounts
  <2>2. KeyOfSession
    BY DEF Init, KeyOfSession
  <2>3. \A k : RepliedAs(k) = {}
    BY DEF Init, RepliedAs
  <2>4. ServedMatchesReplies
    BY <2>3, FS_EmptySet DEF Init, ServedMatchesReplies, Stats!Init, Stats!NoCounts
  <2> QED BY <2>1, <2>2, <2>4 DEF CInv
<1> QED
  BY <1>1, NextKeepsCInv, ShapeCorrect, OneThreadPerSession, PTL DEF Spec

\* Each request that RequestMap records belongs to one reply, which is written
\* or about to be: nothing is counted twice or for nobody, whatever the other
\* threads do (session.cc 98-113).
THEOREM RecordedAreReplies == Spec => []ServedMatchesReplies
<1>1. CInv => ServedMatchesReplies
  BY DEF CInv
<1> QED BY <1>1, RepliesInvariant, PTL

-----------------------------------------------------------------------------
\* What is known of a request: who takes it up took it from a client, only a
\* valid one has a handler, and what is recorded and written is a status of it.
RequestsOK ==
  /\ request \in [Conn -> Requests \cup {NoRequest}]
  /\ sent \in [Conn -> Codes \cup {NoCode}]
  /\ \A c \in Conn : conn[c] # "closed" => sent[c] = NoCode
  /\ \A t \in Threads : stage[t] # "idle" => request[session[t]] \in Requests
  /\ \A t \in Threads : stage[t] = "handling" => request[session[t]].valid
  /\ \A t \in Threads : stage[t] \in {"counting", "writing"} =>
       \E code \in StatusCodesOf(request[session[t]]) :
         key[t] = KeyOf(request[session[t]], code)

\* A status of a request has a key, and the key tells the status.
LEMMA KeyOfStatus ==
  ASSUME NEW r \in Requests, NEW code \in StatusCodesOf(r)
  PROVE  KeyOf(r, code) \in Keys /\ KeyOf(r, code)[2] = code /\ code \in Codes
<1>1. KeyOf(r, code) \in Keys
  BY DEF Keys
<1>2. KeyOf(r, code)[2] = code
  <2>1. CASE r.valid
    BY <2>1 DEF KeyOf
  <2>2. CASE ~r.valid
    BY <2>2 DEF KeyOf
  <2> QED BY <2>1, <2>2
<1> QED BY <1>1, <1>2 DEF Codes

\* The steps, as the requests see them.
LEMMA RequestSteps ==
  ASSUME [Next]_vars
  PROVE  \/ \E c \in Conn : Connect(c) \/ \E r \in Requests : SendRequest(c, r)
         \/ \E t \in Threads, c \in Conn :
              HandleAccept(t, c) \/ Reject(t, c) \/ Dispatch(t, c)
         \/ \E t \in Threads : HandlerReturns(t) \/ Count(t) \/ WriteReply(t)
         \/ UNCHANGED <<conn, request, sent, stage, session, key>>
<1> DEFINE Still == UNCHANGED <<conn, request, sent, stage, session, key>>
<1>1. CASE Client
  BY <1>1 DEF Client, Reset, Interrupt, pool, network, counters
<1>2. ASSUME NEW t \in Threads, Accepting(t)
      PROVE  Still \/ \E c \in Conn : HandleAccept(t, c)
  BY <1>2 DEF Accepting, HandleAcceptError, pool, network, counters
<1>3. ASSUME NEW t \in Threads, HandleSignal(t) \/ RaceCrash(t) PROVE Still
  BY <1>3 DEF HandleSignal, RaceCrash, pool, network, counters
<1>4. ASSUME NEW t \in Threads, NEW c \in Conn, Handling(t, c)
      PROVE  Still \/ Reject(t, c) \/ Dispatch(t, c)
  BY <1>4 DEF Handling, LosePeer, Misroute, pool, network, counters
<1>5. ASSUME NEW t \in Threads, InSession(t)
      PROVE  Still \/ HandlerReturns(t) \/ Count(t) \/ WriteReply(t)
  BY <1>5 DEF InSession, ReadCounter, HandlerThrows, LookUp, WriteFails, pool, network,
              counters, Stats!ReadEntry, Stats!Find, Stats!Load
<1>6. CASE Quiet \/ UNCHANGED vars
  BY <1>6 DEF Quiet, vars, pool, network, counters
<1> HIDE DEF Still
<1>7. Still => UNCHANGED <<conn, request, sent, stage, session, key>>
  BY DEF Still
<1> QED
  BY <1>1, <1>2, <1>3, <1>4, <1>5, <1>6, <1>7 DEF Next

\* Every step keeps what is known of the requests.
LEMMA NextKeepsRequests ==
  ASSUME ShapeOK, SessionCustody, Domains, RequestsOK, [Next]_vars
  PROVE  RequestsOK'
<1> USE DEF RequestsOK
<1>1. \A t \in Threads : stage[t] # "idle" => session[t] \in Conn /\ conn[session[t]] = "handled"
  BY DEF ShapeOK, SessionCustody
<1>2. ASSUME NEW c \in Conn, Connect(c) PROVE RequestsOK'
  <2>1. conn[c] = "none" /\ conn' = [conn EXCEPT ![c] = "backlog"]
    BY <1>2 DEF Connect
  <2>2. UNCHANGED <<request, sent, stage, session, key>>
    BY <1>2 DEF Connect, pool, counters
  <2> QED BY <2>1, <2>2 DEF ShapeOK
<1>3. ASSUME NEW c \in Conn, NEW r \in Requests, SendRequest(c, r) PROVE RequestsOK'
  <2>1. conn[c] # "handled" /\ request' = [request EXCEPT ![c] = r]
    BY <1>3 DEF SendRequest
  <2>2. UNCHANGED <<conn, sent, stage, session, key>>
    BY <1>3 DEF SendRequest, pool, counters
  <2>3. \A t \in Threads : stage[t] # "idle" => request'[session[t]] = request[session[t]]
    BY <1>1, <2>1
  <2> QED BY <2>1, <2>2, <2>3
<1>4. ASSUME NEW t \in Threads, NEW c \in Conn, HandleAccept(t, c) PROVE RequestsOK'
  <2>1. conn[c] = "backlog" /\ conn' = [conn EXCEPT ![c] = "open"]
    BY <1>4 DEF HandleAccept
  <2>2. UNCHANGED <<request, sent, stage, session, key>>
    BY <1>4 DEF HandleAccept, pool, counters
  <2> QED BY <2>1, <2>2 DEF ShapeOK
<1>5. ASSUME NEW t \in Threads, NEW c \in Conn, Reject(t, c) PROVE RequestsOK'
  <2>1. conn[c] = "open" /\ request[c] \in Requests /\ ~request[c].valid
    BY <1>5 DEF Reject, HasRequest, CanRead
  <2>2. 400 \in StatusCodesOf(request[c])
    BY <2>1 DEF StatusCodesOf
  <2>3. /\ conn' = [conn EXCEPT ![c] = "handled"]
        /\ session' = [session EXCEPT ![t] = c]
        /\ stage' = [stage EXCEPT ![t] = "counting"]
        /\ key' = [key EXCEPT ![t] = KeyOf(request[c], 400)]
        /\ UNCHANGED <<request, sent>>
    BY <1>5 DEF Reject, StartSession, Stats!BeginRecord
  <2>4. session'[t] = c /\ stage'[t] = "counting" /\ key'[t] = KeyOf(request[c], 400)
    BY <2>3 DEF ShapeOK, Domains
  <2>5. \A u \in Threads : u # t =>
          session'[u] = session[u] /\ stage'[u] = stage[u] /\ key'[u] = key[u]
    BY <2>3 DEF ShapeOK, Domains
  <2>6. \A d \in Conn : conn'[d] # "closed" => conn[d] # "closed"
    BY <2>1, <2>3 DEF ShapeOK
  <2> QED BY <2>1, <2>2, <2>3, <2>4, <2>5, <2>6
<1>6. ASSUME NEW t \in Threads, NEW c \in Conn, Dispatch(t, c) PROVE RequestsOK'
  <2>1. conn[c] = "open" /\ request[c] \in Requests /\ request[c].valid
    BY <1>6 DEF Dispatch, HasRequest, CanRead
  <2>2. /\ conn' = [conn EXCEPT ![c] = "handled"]
        /\ session' = [session EXCEPT ![t] = c]
        /\ stage' = [stage EXCEPT ![t] = "handling"]
        /\ UNCHANGED <<request, sent, key>>
    BY <1>6 DEF Dispatch, StartSession, Stats!BeginStatus, counters
  <2>3. session'[t] = c /\ stage'[t] = "handling"
    BY <2>2 DEF ShapeOK
  <2>4. \A u \in Threads : u # t => session'[u] = session[u] /\ stage'[u] = stage[u]
    BY <2>2 DEF ShapeOK
  <2>5. \A d \in Conn : conn'[d] # "closed" => conn[d] # "closed"
    BY <2>1, <2>2 DEF ShapeOK
  <2> QED BY <2>1, <2>2, <2>3, <2>4, <2>5
<1>7. ASSUME NEW t \in Threads, HandlerReturns(t) PROVE RequestsOK'
  <2> DEFINE r == request[session[t]]
  <2>1. r \in Requests /\ r.valid
    BY <1>7 DEF HandlerReturns, In
  <2>2. PICK reply \in Replies(NameFor(r)) : Stats!BeginRecord(t, KeyOf(r, StatusOf(reply)))
    BY <1>7 DEF HandlerReturns
  <2>3. StatusOf(reply) \in StatusCodesOf(r)
    BY <2>1 DEF StatusCodesOf
  <2>4. /\ stage' = [stage EXCEPT ![t] = "counting"]
        /\ key' = [key EXCEPT ![t] = KeyOf(r, StatusOf(reply))]
        /\ UNCHANGED <<conn, request, sent, session>>
    BY <1>7, <2>2 DEF HandlerReturns, Stats!BeginRecord, network
  <2>5. stage'[t] = "counting" /\ key'[t] = KeyOf(r, StatusOf(reply))
    BY <2>4 DEF ShapeOK, Domains
  <2>6. \A u \in Threads : u # t => stage'[u] = stage[u] /\ key'[u] = key[u]
    BY <2>4 DEF ShapeOK, Domains
  <2> QED BY <2>1, <2>3, <2>4, <2>5, <2>6
<1>8. ASSUME NEW t \in Threads, Count(t) PROVE RequestsOK'
  <2>1. /\ stage[t] = "counting" /\ stage' = [stage EXCEPT ![t] = "writing"]
        /\ UNCHANGED <<conn, request, sent, session, key>>
    BY <1>8 DEF Count, In, network, Stats!Store, Stats!Insert, Stats!Recorded
  <2>2. stage'[t] = "writing" /\ \A u \in Threads : u # t => stage'[u] = stage[u]
    BY <2>1 DEF ShapeOK
  <2> QED BY <2>1, <2>2
<1>9. ASSUME NEW t \in Threads, WriteReply(t) PROVE RequestsOK'
  <2>1. /\ stage[t] = "writing"
        /\ sent' = [sent EXCEPT ![session[t]] = key[t][2]]
        /\ conn' = [conn EXCEPT ![session[t]] = "closed"]
        /\ stage' = [stage EXCEPT ![t] = "idle"]
        /\ session' = [session EXCEPT ![t] = NoConn]
        /\ UNCHANGED <<request, key>>
    BY <1>9 DEF WriteReply, In, counters
  <2>2. session[t] \in Conn /\ key[t][2] \in Codes
    BY <1>1, <2>1, KeyOfStatus
  <2>3. stage'[t] = "idle"
    BY <2>1 DEF ShapeOK
  <2>4. \A u \in Threads : u # t => stage'[u] = stage[u] /\ session'[u] = session[u]
    BY <2>1 DEF ShapeOK
  <2>5. sent' \in [Conn -> Codes \cup {NoCode}]
    BY <2>1, <2>2
  <2>6. \A c \in Conn : conn'[c] # "closed" => sent'[c] = NoCode
    BY <2>1, <2>2 DEF ShapeOK
  <2> QED BY <2>1, <2>3, <2>4, <2>5, <2>6
<1>10. CASE UNCHANGED <<conn, request, sent, stage, session, key>>
  BY <1>10
<1> QED
  BY <1>2, <1>3, <1>4, <1>5, <1>6, <1>7, <1>8, <1>9, <1>10, RequestSteps

\* From the moment a request is taken up, who serves it knows what it is and
\* what will be said of it.
THEOREM RequestsKnown == Spec => []RequestsOK
<1>1. Init => RequestsOK
  BY DEF Init, RequestsOK
<1>2. CInv => Domains
  BY DEF CInv
<1> QED
  BY <1>1, <1>2, NextKeepsRequests, ShapeCorrect, OneThreadPerSession, RepliesInvariant,
     PTL DEF Spec

-----------------------------------------------------------------------------
\* The counters of the server are those of RequestMap, on its own threads and
\* keys.  There are finitely many keys, whatever is requested and answered.
LEMMA KeysFinite == IsFiniteSet(Keys)
<1> DEFINE All == 0..500 \cup UpstreamCodes
           pairs == Requests \X All
           keyOf == [p \in pairs |-> KeyOf(p[1], p[2])]
           image == {keyOf[p] : p \in pairs}
<1>1. IsFiniteSet(All)
  <2>1. IsFiniteSet(0..500)
    <3>1. \A a, b \in Int : IsFiniteSet(a..b)
      BY FS_Interval
    <3>2. 0 \in Int /\ 500 \in Int
      OBVIOUS
    <3> QED BY <3>1, <3>2, Zenon
  <2>2. IsFiniteSet(UpstreamCodes)
    BY UpstreamAssumption
  <2> QED BY <2>1, <2>2, FS_Union
<1>2. \A name : Replies(name) \subseteq All
  BY DEF Replies, Null
<1>3. \A r \in Requests : StatusCodesOf(r) \subseteq All
  BY <1>2 DEF StatusCodesOf, StatusOf
<1> HIDE DEF All
<1>4. IsFiniteSet(pairs)
  BY <1>1, RequestsAssumption, FS_Product
<1>5. \A r \in Requests : \A code \in StatusCodesOf(r) :
        <<r, code>> \in pairs /\ keyOf[<<r, code>>] = KeyOf(r, code)
  BY <1>3
<1> HIDE DEF pairs
<1>6. keyOf \in Surjection(pairs, image)
  BY DEF Surjection
<1> HIDE DEF keyOf
<1>7. \A r \in Requests : \A code \in StatusCodesOf(r) : KeyOf(r, code) \in image
  BY <1>5
<1> HIDE DEF image
<1>8. IsFiniteSet(image)
  BY <1>4, <1>6, FS_Surjection
<1>9. Keys \subseteq image
  BY <1>7 DEF Keys
<1> QED
  BY <1>8, <1>9, FS_Subset

\* What RequestMap assumes of its constants is true of the server's.
LEMMA MapAssumptions ==
  Proved!ThreadsAssumption /\ Proved!KeysAssumption /\ Proved!MaxCountAssumption
<1>1. Threads # {} /\ IsFiniteSet(Threads)
  <2>1. CASE ThreadPoolSize = 0
    BY <2>1, FS_Singleton DEF Threads
  <2>2. CASE ThreadPoolSize # 0
    <3>1. Threads = 1..ThreadPoolSize
      BY <2>2 DEF Threads
    <3>2. 1 \in 1..ThreadPoolSize
      BY <2>2, PoolAssumption
    <3>3. IsFiniteSet(1..ThreadPoolSize)
      BY PoolAssumption, FS_Interval
    <3> QED BY <3>1, <3>2, <3>3
  <2> QED BY <2>1, <2>2
<1>2. Proved!ThreadsAssumption
  BY <1>1 DEF Proved!ThreadsAssumption, Proved!IsFiniteSet, IsFiniteSet
<1>3. Proved!KeysAssumption
  BY KeysFinite, KeysAssumption DEF Proved!KeysAssumption, Proved!IsFiniteSet, IsFiniteSet
<1>4. Cardinality(Conn) \in Nat \ {0}
  BY ConnAssumption, FS_CardinalityType, FS_EmptySet
<1>5. Proved!MaxCountAssumption
  BY <1>4 DEF Proved!MaxCountAssumption
<1> QED BY <1>2, <1>3, <1>5
\* The two instances of RequestMap are the same module.
LEMMA SameMap ==
  /\ \A t : Stats!BeginStatus(t) <=> Proved!BeginStatus(t)
  /\ \A t, k : Stats!ReadEntry(t, k) <=> Proved!ReadEntry(t, k)
  /\ \A t, k : Stats!BeginRecord(t, k) <=> Proved!BeginRecord(t, k)
  /\ \A t : Stats!Find(t) <=> Proved!Find(t)
  /\ \A t : Stats!Load(t) <=> Proved!Load(t)
  /\ \A t : Stats!Store(t) <=> Proved!Store(t)
  /\ \A t : Stats!Insert(t) <=> Proved!Insert(t)
  /\ Stats!Init <=> Proved!Init
  /\ Stats!TypeOK <=> Proved!TypeOK
  /\ Stats!ExactReport <=> Proved!ExactReport
  /\ Stats!OneThreadInvariant <=> Proved!OneThreadInvariant
<1>1. \A t : Stats!OthersInsert(t) <=> Proved!OthersInsert(t)
  BY DEF Stats!OthersInsert, Proved!OthersInsert
<1>2. Stats!NoCounts = Proved!NoCounts /\ Stats!Steps = Proved!Steps
  BY DEF Stats!NoCounts, Proved!NoCounts, Stats!Steps, Proved!Steps
<1>3. \A t : Stats!Recorded(t) <=> Proved!Recorded(t)
  BY DEF Stats!Recorded, Proved!Recorded
<1>4. \A t : Stats!BeginStatus(t) <=> Proved!BeginStatus(t)
  BY <1>2, Zenon DEF Stats!BeginStatus, Proved!BeginStatus
<1>5. \A t, k : Stats!ReadEntry(t, k) <=> Proved!ReadEntry(t, k)
  BY <1>1, Zenon DEF Stats!ReadEntry, Proved!ReadEntry
<1>6. \A t, k : Stats!BeginRecord(t, k) <=> Proved!BeginRecord(t, k)
  BY <1>2, Zenon DEF Stats!BeginRecord, Proved!BeginRecord
<1>7. \A t : Stats!Find(t) <=> Proved!Find(t)
  BY <1>1, Zenon DEF Stats!Find, Proved!Find
<1>8. \A t : Stats!Load(t) <=> Proved!Load(t)
  BY Zenon DEF Stats!Load, Proved!Load
<1>9. \A t : Stats!Store(t) <=> Proved!Store(t)
  BY <1>3, Zenon DEF Stats!Store, Proved!Store
<1>10. \A t : Stats!Insert(t) <=> Proved!Insert(t)
  BY <1>1, <1>3, Zenon DEF Stats!Insert, Proved!Insert
<1>11. Stats!Init <=> Proved!Init
  BY <1>2, Zenon DEF Stats!Init, Proved!Init
<1>12. Stats!TypeOK <=> Proved!TypeOK
  BY <1>2, Zenon DEF Stats!TypeOK, Proved!TypeOK
<1>13. Stats!ExactReport <=> Proved!ExactReport
  BY DEF Stats!ExactReport, Proved!ExactReport
<1>14. Stats!OneThreadInvariant <=> Proved!OneThreadInvariant
  BY <1>13, Zenon DEF Stats!OneThreadInvariant, Proved!OneThreadInvariant,
     Stats!ExactCounts, Proved!ExactCounts
<1> QED
  BY <1>4, <1>5, <1>6, <1>7, <1>8, <1>9, <1>10, <1>11, <1>12, <1>13, <1>14

\* A thread of the server in the counters is a thread of RequestMap, and
\* records a key that is one.
LEMMA NextIsMapStep ==
  ASSUME RequestsOK, [Next]_vars
  PROVE  [Proved!Next]_counters
<1> SUFFICES UNCHANGED counters \/ \E t \in Threads : Proved!ThreadStep(t)
  BY DEF Proved!Next
<1> USE DEF Proved!ThreadStep
<1>1. CASE Client
  BY <1>1 DEF Client, Connect, SendRequest, Reset, Interrupt
<1>2. ASSUME NEW t \in Threads, Accepting(t) PROVE UNCHANGED counters
  BY <1>2 DEF Accepting, HandleAccept, HandleAcceptError
<1>3. ASSUME NEW t \in Threads, HandleSignal(t) \/ RaceCrash(t) PROVE UNCHANGED counters
  BY <1>3 DEF HandleSignal, RaceCrash
<1>4. ASSUME NEW t \in Threads, NEW c \in Conn, Handling(t, c)
      PROVE  UNCHANGED counters \/ Proved!ThreadStep(t)
  <2>1. CASE LosePeer(t, c) \/ Misroute(t, c)
    BY <2>1 DEF LosePeer, Misroute
  <2>2. CASE Reject(t, c)
    <3>1. request[c] \in Requests /\ 400 \in StatusCodesOf(request[c])
      BY <2>2 DEF Reject, HasRequest, CanRead, RequestsOK, StatusCodesOf
    <3>2. KeyOf(request[c], 400) \in Keys
      BY <3>1, KeyOfStatus
    <3> QED
      BY <2>2, <3>2, SameMap DEF Reject
  <2>3. CASE Dispatch(t, c)
    BY <2>3, SameMap DEF Dispatch
  <2> QED BY <1>4, <2>1, <2>2, <2>3 DEF Handling
<1>5. ASSUME NEW t \in Threads, InSession(t)
      PROVE  UNCHANGED counters \/ Proved!ThreadStep(t)
  <2>1. CASE ReadCounter(t)
    BY <2>1, SameMap DEF ReadCounter
  <2>2. CASE HandlerReturns(t)
    <3> DEFINE r == request[session[t]]
    <3>1. r \in Requests /\ r.valid
      BY <2>2 DEF HandlerReturns, In, RequestsOK
    <3>2. PICK reply \in Replies(NameFor(r)) : Stats!BeginRecord(t, KeyOf(r, StatusOf(reply)))
      BY <2>2 DEF HandlerReturns
    <3>3. StatusOf(reply) \in StatusCodesOf(r)
      BY <3>1 DEF StatusCodesOf
    <3>4. KeyOf(r, StatusOf(reply)) \in Keys
      BY <3>1, <3>3, KeyOfStatus
    <3> QED
      BY <3>2, <3>4, SameMap
  <2>3. CASE LookUp(t)
    BY <2>3, SameMap DEF LookUp
  <2>4. CASE Count(t)
    BY <2>4, SameMap DEF Count
  <2>5. CASE HandlerThrows(t) \/ WriteReply(t) \/ WriteFails(t)
    BY <2>5 DEF HandlerThrows, WriteReply, WriteFails
  <2> QED BY <1>5, <2>1, <2>2, <2>3, <2>4, <2>5 DEF InSession
<1>6. CASE Quiet \/ UNCHANGED vars
  BY <1>6 DEF Quiet, vars
<1> QED
  BY <1>1, <1>2, <1>3, <1>4, <1>5, <1>6 DEF Next

\* The sessions use the counters the way RequestMap's threads do, and nothing
\* else touches them: what is proved of RequestMap is true of the server
\* (session.cc 92-110, status_handler.cc 41-60).
THEOREM ServerImplementsRequestMap == Spec => Proved!Spec
<1>1. Init => Proved!Init
  BY SameMap DEF Init
<1>2. RequestsOK /\ [Next]_vars => [Proved!Next]_Proved!vars
  BY NextIsMapStep DEF counters, Proved!vars
<1> QED
  BY <1>1, <1>2, RequestsKnown, PTL DEF Spec, Proved!Spec

-----------------------------------------------------------------------------
\* What is proved of the counters alone, on the server.
LEMMA MapInvariants == Spec => [](Proved!TypeOK /\ Proved!NoOvercount)
<1>1. Proved!Spec => []Proved!TypeOK
  BY Proved!RequestMapTypeCorrect, MapAssumptions
<1>2. Proved!Spec => []Proved!NoOvercount
  BY Proved!CountersNeverAhead, MapAssumptions
<1> QED
  BY <1>1, <1>2, ServerImplementsRequestMap, PTL

\* No counter of the status page is ahead of the replies with its URI and
\* status, with any number of threads (session.cc 92-110).
THEOREM ServerCountersNotAhead == Spec => []CountersNotAhead
<1>1. Proved!NoOvercount /\ ServedMatchesReplies => CountersNotAhead
  BY DEF Proved!NoOvercount, ServedMatchesReplies, CountersNotAhead
<1> QED
  BY <1>1, MapInvariants, RecordedAreReplies, PTL

\* The state of the server keeps its types; of what was sent and counted this
\* says that it is a status, and a key, of some request.
THEOREM ServerTypeCorrect == Spec => []TypeOK
<1> DEFINE Rest == process \in {"running", "exited", "aborted"} /\ interrupted \in BOOLEAN
                   /\ reset \in [Conn -> BOOLEAN]
<1>1. Init => Rest
  BY DEF Init
<1>2. Rest /\ [Next]_vars => Rest'
  <2> SUFFICES ASSUME Rest, [Next]_vars PROVE Rest'
    OBVIOUS
  <2>1. CASE Client
    BY <2>1 DEF Client, Connect, SendRequest, Reset, Interrupt, network
  <2>2. ASSUME NEW t \in Threads, Accepting(t) PROVE Rest'
    BY <2>2 DEF Accepting, HandleAccept, HandleAcceptError, network
  <2>3. ASSUME NEW t \in Threads, HandleSignal(t) \/ RaceCrash(t) PROVE Rest'
    BY <2>3 DEF HandleSignal, RaceCrash, network
  <2>4. ASSUME NEW t \in Threads, NEW c \in Conn, Handling(t, c) PROVE Rest'
    BY <2>4 DEF Handling, LosePeer, Misroute, Reject, Dispatch, StartSession, Uncaught, network
  <2>5. ASSUME NEW t \in Threads, InSession(t) PROVE Rest'
    BY <2>5 DEF InSession, ReadCounter, HandlerReturns, HandlerThrows, LookUp, Count,
       WriteReply, WriteFails, Uncaught, network
  <2>6. CASE Quiet \/ UNCHANGED vars
    BY <2>6 DEF Quiet, vars, network
  <2> QED
    BY <2>1, <2>2, <2>3, <2>4, <2>5, <2>6 DEF Next
<1>3. Rest /\ ShapeOK /\ RequestsOK /\ Proved!TypeOK => TypeOK
  BY SameMap DEF ShapeOK, RequestsOK, TypeOK
<1> QED
  BY <1>1, <1>2, <1>3, ShapeCorrect, RequestsKnown, MapInvariants, PTL DEF Spec
-----------------------------------------------------------------------------
\* The server with one thread: the argument 1, or 0 for the main thread alone.
OneThreadServer == ThreadPoolSize \in {0, 1}

\* One thread of the server is one thread of its request map.
LEMMA OneThreadOfMap ==
  ASSUME OneThreadServer PROVE Proved!OneThread
<1>1. CASE ThreadPoolSize = 0
  BY <1>1 DEF Threads, Proved!OneThread
<1>2. CASE ThreadPoolSize = 1
  <2>1. Threads = {1}
    BY <1>2 DEF Threads
  <2> QED BY <2>1 DEF Proved!OneThread
<1> QED BY <1>1, <1>2 DEF OneThreadServer

\* One thread finds the counters as it left them between its lookup and its
\* store (session.cc 98-108).
THEOREM OneThreadUndisturbed ==
  ASSUME OneThreadServer PROVE Spec => []OneThreadInvariant
<1>1. Proved!Spec => []Proved!OneThreadInvariant
  BY Proved!OneThreadInvariantHolds, OneThreadOfMap, OneThreadServer, MapAssumptions
<1>2. Proved!OneThreadInvariant => OneThreadInvariant
  BY SameMap DEF OneThreadInvariant
<1> QED
  BY <1>1, <1>2, ServerImplementsRequestMap, PTL

\* With one thread every counter is the number of replies with its URI and
\* status (session.cc 92-110).
THEOREM OneThreadCountsReplies ==
  ASSUME OneThreadServer PROVE Spec => []CountersMatchReplies
<1>1. Proved!Spec => []Proved!ExactCounts
  BY Proved!OneThreadCountsExactly, OneThreadOfMap, OneThreadServer, MapAssumptions
<1>2. Proved!ExactCounts /\ ServedMatchesReplies => CountersMatchReplies
  BY DEF Proved!ExactCounts, ServedMatchesReplies, CountersMatchReplies
<1> QED
  BY <1>1, <1>2, ServerImplementsRequestMap, RecordedAreReplies, PTL

\* With one thread the status page is a snapshot (status_handler.cc 41-60).
THEOREM OneThreadReports ==
  ASSUME OneThreadServer PROVE Spec => []ExactReport
<1>1. Proved!Spec => []Proved!ExactReport
  BY Proved!OneThreadReportsExactly, OneThreadOfMap, OneThreadServer, MapAssumptions
<1>2. Proved!ExactReport => ExactReport
  BY SameMap DEF ExactReport
<1> QED
  BY <1>1, <1>2, ServerImplementsRequestMap, PTL

-----------------------------------------------------------------------------
\* Every request that is valid has a location, and a handler by its name.
AllRouted == \A r \in Requests : r.valid => IsKnown(NameFor(r))

\* When main runs io_service::run itself, an exception is caught and the
\* process exits; no null handler is dereferenced when every request is
\* routed, and no other thread is in the counters (server_main.cc 65-77,
\* session.cc 80-83).
THEOREM MainNeverAborts ==
  ASSUME ThreadPoolSize = 0, AllRouted PROVE Spec => []NeverAborts
<1> USE DEF NeverAborts
<1>1. Init => NeverAborts
  BY DEF Init
<1>2. RequestsOK /\ NeverAborts /\ [Next]_vars => NeverAborts'
  <2> SUFFICES ASSUME RequestsOK, NeverAborts, [Next]_vars PROVE NeverAborts'
    OBVIOUS
  <2>1. Threads = {Main} /\ \A t \in Threads : Uncaught(t) = "exited"
    BY ThreadPoolSize = 0 DEF Threads, Uncaught
  <2>2. ASSUME NEW t \in Threads, NEW c \in Conn, Misroute(t, c) PROVE FALSE
    BY <2>2, AllRouted DEF Misroute, HasRequest, RequestsOK, AllRouted
  <2>3. ASSUME NEW t \in Threads, RaceCrash(t) PROVE FALSE
    BY <2>1, <2>3 DEF RaceCrash
  <2>4. CASE Client
    BY <2>4 DEF Client, Connect, SendRequest, Reset, Interrupt
  <2>5. ASSUME NEW t \in Threads, Accepting(t) \/ HandleSignal(t) PROVE NeverAborts'
    BY <2>5 DEF Accepting, HandleAccept, HandleAcceptError, HandleSignal
  <2>6. ASSUME NEW t \in Threads, NEW c \in Conn, Handling(t, c) PROVE NeverAborts'
    BY <2>1, <2>2, <2>6 DEF Handling, LosePeer, Reject, Dispatch, StartSession
  <2>7. ASSUME NEW t \in Threads, InSession(t) PROVE NeverAborts'
    BY <2>1, <2>7 DEF InSession, ReadCounter, HandlerReturns, HandlerThrows, LookUp, Count,
       WriteReply, WriteFails
  <2>8. CASE Quiet \/ UNCHANGED vars
    BY <2>8 DEF Quiet, vars
  <2> QED
    BY <2>3, <2>4, <2>5, <2>6, <2>7, <2>8 DEF Next
<1> QED
  BY <1>1, <1>2, RequestsKnown, PTL DEF Spec

-----------------------------------------------------------------------------
\* Whatever status the routing can end in for a request is promised for it.
KeepsPromises == \A r \in Requests : StatusCodesOf(r) \subseteq PromisedCodes[r]

\* What a reply that is written may be.
LEMMA WrittenIsPromised ==
  ASSUME KeepsPromises, ShapeOK, SessionCustody, RequestsOK, NEW t \in Threads, WriteReply(t)
  PROVE  \E c \in Conn : \E code \in UNION {PromisedCodes[r] : r \in Requests} :
           Service!Answer(c, code)
<1> DEFINE c == session[t]
           code == key[t][2]
<1>1. stage[t] = "writing" /\ process = "running" /\ process' = process /\ request' = request
      /\ sent' = [sent EXCEPT ![c] = code]
  BY DEF WriteReply, In
<1>2. c \in Conn /\ conn[c] = "handled"
  BY <1>1 DEF ShapeOK, SessionCustody
<1>3. request[c] \in Requests /\ sent[c] = NoCode
  BY <1>1, <1>2 DEF RequestsOK
<1>4. code \in StatusCodesOf(request[c])
  BY <1>1, <1>3, KeyOfStatus DEF RequestsOK
<1>5. code \in PromisedCodes[request[c]]
  BY <1>3, <1>4, KeepsPromises DEF KeepsPromises
<1>6. request[c] # NoRequest
  BY <1>3, RequestsAssumption
<1>7. Service!Answer(c, code)
  BY <1>1, <1>3, <1>5, <1>6 DEF Service!Answer
<1> QED
  BY <1>2, <1>3, <1>5, <1>7

\* The clients see a WebService: each request is answered at most once, with a
\* status promised for that very request, and not after the process has ended,
\* whatever the pool, the configuration and the order of the steps
\* (session.cc 43-136).
THEOREM ServerImplementsService ==
  ASSUME KeepsPromises PROVE Spec => ImplementsService
<1>1. Init => Service!Init
  BY DEF Init, Service!Init
<1>2. ShapeOK /\ SessionCustody /\ RequestsOK /\ [Next]_vars => [Service!Next]_Service!vars
  <2> SUFFICES ASSUME ShapeOK, SessionCustody, RequestsOK, [Next]_vars
               PROVE  Service!Next \/ UNCHANGED Service!vars
    OBVIOUS
  <2> DEFINE Still == UNCHANGED <<request, sent>>
  <2>1. ASSUME Still, process' = process PROVE UNCHANGED Service!vars
    BY <2>1 DEF Service!vars
  <2>2. ASSUME Still, process = "running" PROVE Service!Stop \/ UNCHANGED Service!vars
    BY <2>2 DEF Service!vars, Service!Stop
  <2>3. ASSUME NEW c \in Conn, NEW r \in Requests, SendRequest(c, r) PROVE Service!Ask(c, r)
    BY <2>3 DEF SendRequest, Service!Ask
  <2>4. ASSUME NEW c \in Conn, Connect(c) \/ Reset(c) PROVE Still /\ process' = process
    BY <2>4 DEF Connect, Reset
  <2>5. CASE Interrupt
    BY <2>1, <2>5 DEF Interrupt, network
  <2>6. ASSUME NEW t \in Threads, Accepting(t) PROVE Still /\ process' = process
    BY <2>6 DEF Accepting, HandleAccept, HandleAcceptError, network
  <2>7. ASSUME NEW t \in Threads, HandleSignal(t) \/ RaceCrash(t)
        PROVE  Still /\ process = "running"
    BY <2>7 DEF HandleSignal, RaceCrash, Idle, network
  <2>8. ASSUME NEW t \in Threads, NEW c \in Conn, Handling(t, c)
        PROVE  Still /\ process = "running"
    BY <2>8 DEF Handling, LosePeer, Misroute, Reject, Dispatch, StartSession, HasRequest,
       CanRead, Idle, network
  <2>9. ASSUME NEW t \in Threads, InSession(t)
        PROVE  WriteReply(t) \/ (Still /\ process = "running")
    BY <2>9 DEF InSession, ReadCounter, HandlerReturns, HandlerThrows, LookUp, Count,
       WriteFails, In, network
  <2>10. CASE Quiet \/ UNCHANGED vars
    BY <2>1, <2>10 DEF Quiet, vars, network
  <2> QED
    BY <2>1, <2>2, <2>3, <2>4, <2>5, <2>6, <2>7, <2>8, <2>9, <2>10, WrittenIsPromised
    DEF Next, Client, Service!Next
<1> QED
  BY <1>1, <1>2, ShapeCorrect, OneThreadPerSession, RequestsKnown,
     PTL DEF Spec, ImplementsService, Service!Spec
=============================================================================
