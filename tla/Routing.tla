------------------------------ MODULE Routing ------------------------------
(***************************************************************************)
(* What it means for a handler block of the configuration to match a URI.  *)
(* A block is a record [location, name]; a location and a URI are sequences*)
(* of characters.  The blocks come in the order of the file, which is the  *)
(* order NginxConfig::FindBlocks("handler") returns them in.               *)
(***************************************************************************)
EXTENDS Naturals, Sequences, SequencesExt

\* Mutant of Matches: the URI must go on after the location.
MatchesStrictly(block, uri) == IsStrictPrefix(block.location, uri)

\* "original_url.find(prefix) == 0"
Matches(block, uri) == IsPrefix(block.location, uri)

\* The blocks that can be chosen.  The longest match so far starts at 0, so
\* an empty location matches and yet never wins.
Candidates(handlers, uri) ==
  {i \in DOMAIN handlers :
     Matches(handlers[i], uri) /\ Len(handlers[i].location) > 0}

\* Mutant of IsWinner: among the longest, the last of the file wins.
IsLastLongest(handlers, uri, i) ==
  /\ i \in Candidates(handlers, uri)
  /\ \A j \in Candidates(handlers, uri) :
       \/ Len(handlers[j].location) < Len(handlers[i].location)
       \/ Len(handlers[j].location) = Len(handlers[i].location) /\ j <= i

\* Block i wins: no candidate is longer, and none as long comes before it.
IsWinner(handlers, uri, i) ==
  /\ i \in Candidates(handlers, uri)
  /\ \A j \in Candidates(handlers, uri) :
       \/ Len(handlers[j].location) < Len(handlers[i].location)
       \/ Len(handlers[j].location) = Len(handlers[i].location) /\ i <= j

\* No block can be chosen: handler_config keeps its uninitialised value.
IsUnrouted(handlers, uri) == Candidates(handlers, uri) = {}

\* The name createByName is asked for when no block was chosen.
Unnamed == ""

\* The name of the handler that serves the URI.
HandlerName(handlers, uri) ==
  IF IsUnrouted(handlers, uri)
  THEN Unnamed
  ELSE handlers[CHOOSE i \in DOMAIN handlers : IsWinner(handlers, uri, i)].name
=============================================================================
