----------------------------- MODULE StaticFiles ----------------------------
(***************************************************************************)
(* StaticHandler on the block that Router ends on, and a directory tree    *)
(* that is changed while requests are served: files come and go, and a     *)
(* directory takes the place of a file.  They are replaced as a whole, not *)
(* written in place.  The handler looks at its path twice, with stat and   *)
(* with open.                                                              *)
(***************************************************************************)
EXTENDS Router

CONSTANTS
  Files,       \* what a regular file can hold
  Missing, Directory,
  MaxChanges,  \* bound: changes of the tree during a request
  Nowhere      \* no path was built yet

Nodes == Files \cup {Missing, Directory}

VARIABLES
  stage,    \* how far HandleRequest is
  path,     \* file_path: the block whose root it starts with, and the rest
  node,     \* what is at that path now
  had,      \* history: all that was there during the request
  changes,
  opened,   \* what the stream is open on
  reply     \* the body of a 200, or null, which becomes a 404

fileVars == <<stage, path, node, had, changes, opened, reply>>

NotYet == "not yet"
Null == "null"

StaticInit ==
  /\ Init
  /\ stage = "routing"
  /\ path = Nowhere /\ node = Missing /\ had = {} /\ changes = 0
  /\ opened = Missing /\ reply = NotYet

\* Router looks at one more block.
Route == (Take \/ Skip) /\ UNCHANGED fileVars

\* Mutant of GetPath: one character too many is removed, as if the location
\* did not end in a slash.
GetPathAfterSlash == [root |-> handler_config,
                      rest |-> SubSeq(original_url, longest_match_size + 2, Len(original_url))]

\* The root of the chosen block, and the URI without the location in front.
GetPath == [root |-> handler_config,
            rest |-> SubSeq(original_url,
                            Len(handlers[handler_config].location) + 1, Len(original_url))]

\* Where stat fails its result is ignored, and st_mode is whatever the stack
\* held: a path that is missing may pass for a regular file.
LooksRegular(n) == IF n = Missing THEN BOOLEAN ELSE {n \in Files}

\* What is on the disk is not known before stat looks at it.
Stat(n) ==
  /\ stage = "routing" /\ AtEnd /\ handler_name = "static"
  /\ path' = GetPath
  /\ node' = n /\ had' = {n}
  /\ \E regular \in LooksRegular(n) :
       IF regular THEN stage' = "checked" /\ UNCHANGED reply
                  ELSE stage' = "replied" /\ reply' = Null
  /\ UNCHANGED <<vars, changes, opened>>

\* A directory can be opened too.
Open ==
  /\ stage = "checked" /\ node # Missing
  /\ opened' = node /\ stage' = "opened"
  /\ UNCHANGED <<vars, path, node, had, changes, reply>>

\* Nothing is there, or it may not be read, or there is no descriptor for it.
OpenFails ==
  /\ stage = "checked"
  /\ stage' = "replied" /\ reply' = Null
  /\ UNCHANGED <<vars, path, node, had, changes, opened>>

\* The stream stays on what was opened, whatever is at the path by now.
GetContent ==
  /\ stage = "opened" /\ opened # Directory
  /\ stage' = "replied" /\ reply' = opened
  /\ UNCHANGED <<vars, path, node, had, changes, opened>>

\* The length of a directory is -1 or no length at all: reserve throws, or
\* the first read does, and nobody catches it.
GetContentThrows ==
  /\ stage = "opened" /\ opened = Directory
  /\ stage' = "aborted"
  /\ UNCHANGED <<vars, path, node, had, changes, opened, reply>>

Change(n) ==
  /\ stage \in {"checked", "opened"} /\ changes < MaxChanges
  /\ node' = n /\ had' = had \cup {n} /\ changes' = changes + 1
  /\ UNCHANGED <<vars, stage, path, opened, reply>>

Served ==
  /\ AtEnd /\ (stage \in {"replied", "aborted"} \/ handler_name # "static")
  /\ UNCHANGED <<vars, fileVars>>

StaticNext ==
  \/ Route
  \/ \E n \in Nodes : Stat(n) \/ Change(n)
  \/ Open \/ OpenFails \/ GetContent \/ GetContentThrows
  \/ Served

StaticSpec == StaticInit /\ [][StaticNext]_<<vars, fileVars>>

-----------------------------------------------------------------------------
\* The reply is about the file of the winning location: a 200 carries what a
\* regular file held at some instant of the request, below the root of the
\* first of the longest locations, and the process ends only if a directory
\* was there.  Two looks at the path, an st_mode that is uninitialised and a
\* tree that changes cannot add up to a body nobody stored
\* (static_handler.cc 28-43 and 51-58, after session.cc 61-75).
ServesTheFile ==
  stage \in {"replied", "aborted"} =>
    /\ IsWinner(handlers, original_url, path.root)
    /\ handlers[path.root].location \o path.rest = original_url
    /\ reply \notin {NotYet, Null} => reply \in had \cap Files
    /\ stage = "aborted" => Directory \in had
=============================================================================
