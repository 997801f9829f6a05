------------------------------- MODULE Router -------------------------------
(***************************************************************************)
(* The loop of Session::handle_request that looks for the handler block    *)
(* whose location is the longest prefix of the URI, one block at a time.   *)
(***************************************************************************)
EXTENDS Routing

CONSTANTS
  Characters,
  Names,    \* the names of handlers
  Configs,  \* the lists of handler blocks the server may be started with
  Uris      \* the URIs it may be asked for

Block == [location : Seq(Characters), name : Names]

ASSUME ConfigsAssumption == Configs \subseteq Seq(Block)
ASSUME UrisAssumption == Uris \subseteq Seq(Characters)

VARIABLES
  handlers,            \* the blocks, in the order of the file
  original_url,
  iter,                \* the block to look at next
  longest_match_size,
  handler_name,
  handler_config       \* the block chosen, 0 when the pointer is not set

vars == <<handlers, original_url, iter, longest_match_size, handler_name,
          handler_config>>

Unset == 0

TypeOK ==
  /\ handlers \in Configs
  /\ original_url \in Uris
  /\ iter \in 1..Len(handlers) + 1
  /\ longest_match_size \in Nat
  /\ handler_name \in Names \cup {Unnamed}
  /\ handler_config \in 0..Len(handlers)

Init ==
  /\ handlers \in Configs
  /\ original_url \in Uris
  /\ iter = 1
  /\ longest_match_size = 0
  /\ handler_name = Unnamed
  /\ handler_config = Unset

AtEnd == iter = Len(handlers) + 1

\* Mutant of Improves: a match as long replaces the one before.
ImprovesOrTies ==
  /\ Matches(handlers[iter], original_url)
  /\ Len(handlers[iter].location) >= longest_match_size

\* The block at iter is a longer match than any before it.
Improves ==
  /\ Matches(handlers[iter], original_url)
  /\ Len(handlers[iter].location) > longest_match_size

\* Mutant of Take: the length of the match is not kept.
TakeForgetsLength ==
  /\ ~AtEnd
  /\ Improves
  /\ handler_name' = handlers[iter].name
  /\ handler_config' = iter
  /\ iter' = iter + 1
  /\ UNCHANGED <<handlers, original_url, longest_match_size>>

\* Mutant of Take: the block is kept and its name is not.
TakeForgetsName ==
  /\ ~AtEnd
  /\ Improves
  /\ longest_match_size' = Len(handlers[iter].location)
  /\ handler_config' = iter
  /\ iter' = iter + 1
  /\ UNCHANGED <<handlers, original_url, handler_name>>

Take ==
  /\ ~AtEnd
  /\ Improves
  /\ longest_match_size' = Len(handlers[iter].location)
  /\ handler_name' = handlers[iter].name
  /\ handler_config' = iter
  /\ iter' = iter + 1
  /\ UNCHANGED <<handlers, original_url>>

\* Mutant of Skip: the iterator is advanced twice.
SkipTwo ==
  /\ ~AtEnd
  /\ ~Improves
  /\ iter' = iter + 2
  /\ UNCHANGED <<handlers, original_url, longest_match_size, handler_name,
                 handler_config>>

Skip ==
  /\ ~AtEnd
  /\ ~Improves
  /\ iter' = iter + 1
  /\ UNCHANGED <<handlers, original_url, longest_match_size, handler_name,
                 handler_config>>

Done == AtEnd /\ UNCHANGED vars

Next == Take \/ Skip \/ Done

Spec == Init /\ [][Next]_vars

-----------------------------------------------------------------------------
\* What the loop has established before the block at iter: the winner among
\* the blocks it has seen, and that block's length.
LoopInvariant ==
  LET seen == {j \in Candidates(handlers, original_url) : j < iter} IN
  IF handler_config = Unset
  THEN longest_match_size = 0 /\ seen = {}
  ELSE /\ handler_config \in seen
       /\ longest_match_size = Len(handlers[handler_config].location)
       /\ \A j \in seen :
            \/ Len(handlers[j].location) < longest_match_size
            \/ Len(handlers[j].location) = longest_match_size /\ handler_config <= j

\* The loop ends on the first of the blocks with the longest location that is
\* a prefix of the URI, and with no block exactly when no location that is not
\* empty is one (session.cc 61-75).
RoutesToLongest ==
  AtEnd =>
    IF IsUnrouted(handlers, original_url)
    THEN handler_config = Unset
    ELSE IsWinner(handlers, original_url, handler_config)

\* The name and the block handed to createByName belong together: the handler
\* is built from the block it was named in, and an unset block comes with the
\* empty name, which no handler has.
NameOfConfig ==
  handler_name = IF handler_config = Unset
                 THEN Unnamed
                 ELSE handlers[handler_config].name
=============================================================================
