----------------------------- MODULE WebService -----------------------------
(***************************************************************************)
(* What the server promises its clients, nothing said of threads, sockets  *)
(* or handlers: a request is answered at most once, with a status that is  *)
(* one of those promised for that very request, until the process ends.    *)
(***************************************************************************)
CONSTANTS
  Conn,           \* connections, one request each
  Requests,
  NoRequest,
  NoCode,
  PromisedCodes   \* [Requests -> sets of status codes]

VARIABLES
  up,       \* the process is running
  asked,    \* what was asked on each connection
  answer    \* the status of the reply that was sent

vars == <<up, asked, answer>>

Init ==
  /\ up = TRUE
  /\ asked = [c \in Conn |-> NoRequest]
  /\ answer = [c \in Conn |-> NoCode]

Ask(c, r) ==
  /\ up
  /\ asked[c] = NoRequest
  /\ asked' = [asked EXCEPT ![c] = r]
  /\ UNCHANGED <<up, answer>>

Answer(c, code) ==
  /\ up
  /\ asked[c] # NoRequest
  /\ answer[c] = NoCode
  /\ code \in PromisedCodes[asked[c]]
  /\ answer' = [answer EXCEPT ![c] = code]
  /\ UNCHANGED <<up, asked>>

Stop ==
  /\ up
  /\ up' = FALSE
  /\ UNCHANGED <<asked, answer>>

Next ==
  \/ \E c \in Conn, r \in Requests : Ask(c, r)
  \/ \E c \in Conn : \E code \in UNION {PromisedCodes[r] : r \in Requests} : Answer(c, code)
  \/ Stop

Spec == Init /\ [][Next]_vars
=============================================================================
