----------------------------- MODULE MemeHandler ----------------------------
(***************************************************************************)
(* MemeHandler::HandleRequest on top of Database.  Each thread of the pool *)
(* serves one request at a time; a request is at most two calls of the     *)
(* database, one that does what was asked and one, after a create or an    *)
(* edit, that reads the meme back for the redirect.  Other threads run     *)
(* between the two.                                                        *)
(***************************************************************************)
EXTENDS Database

CONSTANTS
  NoRequest, NoReply,
  NotFound,      \* null reply, which the session answers with a 404
  Created, Edited, \* the contents clients send in a create and in an edit
  SearchQueries    \* a search, as the set of the contents that match it

VARIABLES
  request,   \* what each thread serves
  reading,   \* the thread is in the second call, which reads the meme back
  new_id,    \* createMeme's local meme_id, 0 before AddMeme returned one
  reply,
  wrote      \* history: a commit of this request changed or could change rows

handlerVars == <<request, reading, new_id, reply, wrote>>

vars == <<dbVars, handlerVars>>

\* /meme/new, /meme/new?update=, /meme/create with and without update, view,
\* list, list?q= and delete.  An update that is not empty and no number is id
\* 0, like a missing id.
Requests ==
  [action : {"new", "get create", "list"}] \cup
  [action : {"new update", "view", "delete"}, id : ParamIds] \cup
  [action : {"create"}, content : Created] \cup
  [action : {"edit"}, id : ParamIds, content : Edited] \cup
  [action : {"search"}, matching : SearchQueries]

\* A page that shows memes, a redirect to a meme, where NoId stands for the
\* URI "/meme/view?id=" with nothing after it, or another redirect or page.
NoId == -1
Page(memes) == [page |-> memes]
Redirect(id) == [view |-> id]
ToList == [list |-> TRUE]
Form == [form |-> {}]
EditForm(meme) == [form |-> {meme}]

ASSUME HandlerAssumption ==
  /\ Created \cup Edited \subseteq Contents
  /\ SearchQueries \subseteq SUBSET Contents
  /\ NoRequest \notin Requests /\ NotFound # NoReply
  /\ \A id \in ParamIds \cup {NoId} : Redirect(id) \notin {NoReply, NotFound}

HandlerTypeOK ==
  /\ TypeOK
  /\ \A t \in Threads :
       /\ request[t] \in Requests \cup {NoRequest}
       /\ reading[t] \in BOOLEAN /\ wrote[t] \in BOOLEAN
       /\ new_id[t] \in ParamIds
       /\ reply[t] # NoReply => at[t] = "idle" /\ request[t] # NoRequest
       /\ request[t] = NoRequest => at[t] = "idle"

HandlerInit ==
  /\ Init
  /\ request = [t \in Threads |-> NoRequest]
  /\ reading = [t \in Threads |-> FALSE]
  /\ new_id = [t \in Threads |-> 0]
  /\ reply = [t \in Threads |-> NoReply]
  /\ wrote = [t \in Threads |-> FALSE]

-----------------------------------------------------------------------------
\* The requests that need no database.  /meme/create wants a POST.
Immediate(r) ==
  CASE r.action = "new"        -> Form
    [] r.action = "get create" -> NotFound

NeedsDatabase(r) == r.action \notin {"new", "get create"}

\* The call that does what the request asks for.
FirstCall(r) ==
  CASE r.action \in {"new update", "view"} -> [op |-> "get", id |-> r.id]
    [] r.action = "create" -> [op |-> "add", content |-> r.content]
    [] r.action = "edit"   -> [op |-> "update", id |-> r.id, content |-> r.content]
    [] r.action = "delete" -> [op |-> "delete", id |-> r.id]
    [] r.action = "list"   -> [op |-> "all"]
    [] r.action = "search" -> [op |-> "find", matching |-> r.matching]

Receive(t, r) ==
  /\ request[t] = NoRequest
  /\ request' = [request EXCEPT ![t] = r]
  /\ IF NeedsDatabase(r)
     THEN Call(t, FirstCall(r)) /\ UNCHANGED reply
     ELSE reply' = [reply EXCEPT ![t] = Immediate(r)] /\ UNCHANGED dbVars
  /\ UNCHANGED <<reading, new_id, wrote>>

\* A step of Database on behalf of the request.
Query(t) ==
  /\ DbStep(t)
  /\ wrote' = [wrote EXCEPT ![t] = @ \/ at[t] = "exclusive"]
  /\ UNCHANGED <<request, reading, new_id, reply>>

\* Mutant of Finish: the call of the database is not over.
FinishInCall(t, answer) ==
  /\ reply' = [reply EXCEPT ![t] = answer]
  /\ UNCHANGED <<dbVars, request, reading, new_id, wrote>>

Finish(t, answer) ==
  /\ Return(t)
  /\ reply' = [reply EXCEPT ![t] = answer]
  /\ UNCHANGED <<request, reading, new_id, wrote>>

Returned(t, actions) ==
  /\ at[t] = "done" /\ ~reading[t]
  /\ request[t].action \in actions

TheMeme(t) == CHOOSE meme \in result[t].memes : TRUE

\* viewMeme(std::string) trusts the Meme only if it has the id asked for.
HasId(t, id) == TheMeme(t).id = id

View(t) ==
  /\ Returned(t, {"view"})
  /\ Finish(t, IF HasId(t, request[t].id) THEN Page({TheMeme(t)}) ELSE Page({}))

\* /meme/new?update=id: the form filled with the meme, or null.
Update(t) ==
  /\ Returned(t, {"new update"})
  /\ Finish(t, IF HasId(t, request[t].id) THEN EditForm(TheMeme(t)) ELSE NotFound)

List(t) ==
  /\ Returned(t, {"list", "search"})
  /\ Finish(t, Page(result[t].memes))

\* A delete that fails is logged and redirected all the same.
Delete(t) ==
  /\ Returned(t, {"delete"})
  /\ Finish(t, ToList)

\* Mutant of WriteFailed: a create is not checked either.
WriteFailedUnchecked(t) ==
  /\ Returned(t, {"create", "edit"})
  /\ result[t] = Failure
  /\ Finish(t, Redirect(NoId))

\* Mutant of WriteFailed: an edit is redirected to the id the client sent.
WriteFailedToId(t) ==
  /\ Returned(t, {"create", "edit"})
  /\ result[t] = Failure
  /\ Finish(t, IF request[t].action = "create" THEN NotFound ELSE Redirect(request[t].id))

\* Mutant of WriteFailed: the failure of an edit is not handled.
WriteFailedOfCreate(t) ==
  /\ Returned(t, {"create"})
  /\ result[t] = Failure
  /\ Finish(t, NotFound)

\* createMeme or editMeme: the write failed.  An edit is redirected with an
\* empty id, a create is null.
WriteFailed(t) ==
  /\ Returned(t, {"create", "edit"})
  /\ result[t] = Failure
  /\ Finish(t, IF request[t].action = "create" THEN NotFound ELSE Redirect(NoId))

\* The write succeeded: the meme is read back, by the id AddMeme returned or
\* the one the client sent.
ReadBack(t) ==
  /\ Returned(t, {"create", "edit"})
  /\ result[t] # Failure
  /\ Call(t, [op |-> "get", id |-> result[t].number])
  /\ new_id' = [new_id EXCEPT ![t] = result[t].number]
  /\ reading' = [reading EXCEPT ![t] = TRUE]
  /\ UNCHANGED <<request, reply, wrote>>

\* The redirect goes to the id in the Meme that was read.  After an edit the
\* id is checked, by viewMeme(std::string); after a create it is not.
RedirectToMeme(t) ==
  /\ at[t] = "done" /\ reading[t]
  /\ LET id == IF request[t].action = "create" \/ HasId(t, new_id[t])
               THEN TheMeme(t).id
               ELSE NoId
     IN  Finish(t, Redirect(id))

\* The reply is sent, and the thread takes another request.
Sent(t) ==
  /\ reply[t] # NoReply
  /\ request' = [request EXCEPT ![t] = NoRequest]
  /\ reply' = [reply EXCEPT ![t] = NoReply]
  /\ reading' = [reading EXCEPT ![t] = FALSE]
  /\ new_id' = [new_id EXCEPT ![t] = 0]
  /\ wrote' = [wrote EXCEPT ![t] = FALSE]
  /\ UNCHANGED dbVars

\* The process ends in the middle of the requests it serves.
RestartServer ==
  /\ Restart
  /\ request' = [t \in Threads |-> NoRequest]
  /\ reading' = [t \in Threads |-> FALSE]
  /\ new_id' = [t \in Threads |-> 0]
  /\ reply' = [t \in Threads |-> NoReply]
  /\ wrote' = [t \in Threads |-> FALSE]

Handle(t) ==
  \/ View(t) \/ Update(t) \/ List(t) \/ Delete(t)
  \/ WriteFailed(t) \/ ReadBack(t) \/ RedirectToMeme(t)

Serve(t) == Query(t) \/ Handle(t) \/ Sent(t)

HandlerNext ==
  \/ \E t \in Threads : Serve(t) \/ \E r \in Requests : Receive(t, r)
  \/ RestartServer

HandlerSpec == HandlerInit /\ [][HandlerNext]_vars

\* A thread that serves a request goes on: nothing in it waits for a lock.
FairHandlerSpec == HandlerSpec /\ \A t \in Threads : WF_vars(Serve(t))

-----------------------------------------------------------------------------
Replied(t, action) == reply[t] # NoReply /\ request[t].action = action

\* A client that is told 404 for its create has created nothing, and one that
\* is redirected has: no lock, error or other thread comes between the commit
\* and what is said of it (meme_handler.cc 129-133).
CreateTellsTheTruth ==
  \A t \in Threads : Replied(t, "create") => (reply[t] = NotFound <=> ~wrote[t])

\* When a client is redirected to the meme it edited, its UPDATE was committed
\* (on a row that may have been gone by then); the redirect with no id may come
\* after an edit that failed or one that succeeded
\* (meme_handler.cc 125-127 and 292-294).
EditRedirectMeansEdited ==
  \A t \in Threads : Replied(t, "edit") /\ reply[t] # Redirect(NoId) => wrote[t]

\* "call viewMeme() with the new meme id": the redirect after a create names
\* the meme that was created (meme_handler.cc 258-266, 137).
RedirectNamesNewMeme ==
  \A t \in Threads : Replied(t, "create") /\ reply[t] # NotFound
                       => reply[t] = Redirect(new_id[t])

\* SQLITE_BUSY never makes a request wait, and no two calls wait for each
\* other's locks: each request is answered, unless the process ends.
EveryRequestReplied ==
  \A t \in Threads :
    request[t] # NoRequest ~> reply[t] # NoReply \/ request[t] = NoRequest
=============================================================================
