---------------------------- MODULE RouterProofs ----------------------------
(***************************************************************************)
(* The routing loop chooses the longest match, for every configuration and *)
(* every URI, and a static block that is chosen replies with a file that   *)
(* was below its root, whatever becomes of the files in the meantime.      *)
(***************************************************************************)
EXTENDS StaticFiles, SequenceTheorems, TLAPS

\* The variables keep their types whatever the loop does (session.cc 56-58).
THEOREM RouterTypeCorrect == Spec => []TypeOK
<1>1. Init => TypeOK
  <2> SUFFICES ASSUME Init PROVE TypeOK
    OBVIOUS
  <2>1. handlers \in Seq(Block)
    BY ConfigsAssumption DEF Init
  <2>2. Len(handlers) \in Nat
    BY <2>1
  <2>3. iter \in 1..Len(handlers) + 1 /\ handler_config \in 0..Len(handlers)
    BY <2>2 DEF Init, Unset
  <2> QED
    BY <2>3 DEF Init, TypeOK
<1>2. TypeOK /\ [Next]_vars => TypeOK'
  <2> SUFFICES ASSUME TypeOK, [Next]_vars PROVE TypeOK'
    OBVIOUS
  <2>1. handlers \in Seq(Block) /\ Len(handlers) \in Nat
    BY ConfigsAssumption DEF TypeOK
  <2>2. CASE Take
    <3>1. iter \in 1..Len(handlers)
      BY <2>1, <2>2 DEF Take, AtEnd, TypeOK
    <3>2. handlers[iter] \in Block
      BY <2>1, <3>1
    <3>3. Len(handlers[iter].location) \in Nat /\ handlers[iter].name \in Names
      BY <3>2 DEF Block
    <3> QED
      BY <2>1, <2>2, <3>1, <3>3 DEF Take, TypeOK
  <2>3. CASE Skip
    <3>1. iter \in 1..Len(handlers)
      BY <2>1, <2>3 DEF Skip, AtEnd, TypeOK
    <3>2. (iter \in 1..Len(handlers) + 1)'
      BY <2>1, <2>3, <3>1 DEF Skip
    <3>3. (handler_config \in 0..Len(handlers))'
      BY <2>3 DEF Skip, TypeOK
    <3> QED
      BY <2>3, <3>2, <3>3 DEF Skip, TypeOK
  <2>4. CASE UNCHANGED vars
    BY <2>4 DEF vars, TypeOK
  <2> QED
    BY <2>2, <2>3, <2>4 DEF Next, Done
<1> QED
  BY <1>1, <1>2, PTL DEF Spec

\* A block that matches is longer than the longest match so far, or the loop
\* has seen one at least as long.
THEOREM LoopInvariantHolds == Spec => []LoopInvariant
<1>1. Init => LoopInvariant
  <2> SUFFICES ASSUME Init PROVE LoopInvariant
    OBVIOUS
  <2>1. handlers \in Seq(Block)
    BY ConfigsAssumption DEF Init
  <2>2. \A j \in Candidates(handlers, original_url) : ~(j < 1)
    BY <2>1 DEF Candidates
  <2> QED
    BY <2>2 DEF Init, LoopInvariant
<1>2. TypeOK /\ LoopInvariant /\ [Next]_vars => LoopInvariant'
  <2> SUFFICES ASSUME TypeOK, LoopInvariant, [Next]_vars
               PROVE  LoopInvariant'
    OBVIOUS
  <2> DEFINE C == Candidates(handlers, original_url)
             length(j) == Len(handlers[j].location)
  <2>1. /\ handlers \in Seq(Block)
        /\ Len(handlers) \in Nat
        /\ \A j \in 1..Len(handlers) : length(j) \in Nat
    <3>1. handlers \in Seq(Block)
      BY ConfigsAssumption DEF TypeOK
    <3>2. ASSUME NEW j \in 1..Len(handlers) PROVE length(j) \in Nat
      <4>1. handlers[j] \in Block
        BY <3>1
      <4> QED
        BY <4>1 DEF Block
    <3> QED
      BY <3>1, <3>2
  <2>2. C \subseteq 1..Len(handlers)
    BY <2>1 DEF Candidates
  <2>3. ASSUME UNCHANGED <<handlers, original_url>>
        PROVE  Candidates(handlers, original_url)' = C
    BY <2>3 DEF Candidates, Matches
  <2>4. CASE Take
    <3>1. iter \in 1..Len(handlers)
      BY <2>1, <2>4 DEF Take, AtEnd, TypeOK
    <3>2. iter \in C /\ longest_match_size < length(iter)
      BY <2>1, <2>4, <3>1 DEF Take, Improves, Candidates, TypeOK
    <3>3. \A j \in C : j < iter' => j < iter \/ j = iter
      BY <2>2, <2>4, <3>1 DEF Take
    <3>4. \A j \in C : j < iter => length(j) < length(iter)
      BY <2>1, <2>2, <3>1, <3>2 DEF LoopInvariant, TypeOK
    <3>5. handlers' = handlers /\ Candidates(handlers, original_url)' = C
      BY <2>3, <2>4 DEF Take
    <3>6. /\ handler_config' = iter /\ iter' = iter + 1
          /\ longest_match_size' = length(iter)
      BY <2>4 DEF Take
    <3> QED
      BY <3>1, <3>2, <3>3, <3>4, <3>5, <3>6 DEF LoopInvariant, Unset
  <2>5. CASE Skip
    <3>1. iter \in 1..Len(handlers)
      BY <2>1, <2>5 DEF Skip, AtEnd, TypeOK
    <3>2. iter \in C => length(iter) <= longest_match_size
      BY <2>1, <2>5, <3>1 DEF Skip, Improves, Candidates, TypeOK
    <3>3. \A j \in C : j < iter' => j < iter \/ j = iter
      BY <2>2, <2>5, <3>1 DEF Skip
    <3>4. handlers' = handlers /\ Candidates(handlers, original_url)' = C
      BY <2>3, <2>5 DEF Skip
    <3>5. /\ iter' = iter + 1
          /\ UNCHANGED <<handler_config, longest_match_size>>
      BY <2>5 DEF Skip
    <3>6. CASE handler_config = Unset
      <4>1. iter \in C => 0 < length(iter)
        BY <2>1, <3>1 DEF Candidates
      <4>2. iter \notin C
        BY <2>1, <3>1, <3>2, <3>6, <4>1 DEF LoopInvariant
      <4> QED
        BY <3>3, <3>4, <3>5, <3>6, <4>2 DEF LoopInvariant
    <3>7. CASE handler_config # Unset
      <4>1. /\ handler_config \in C /\ handler_config < iter
            /\ longest_match_size = length(handler_config)
        BY <3>7 DEF LoopInvariant
      <4>2. \A j \in C : j < iter' =>
              \/ length(j) < longest_match_size
              \/ length(j) = longest_match_size /\ handler_config <= j
        BY <2>1, <2>2, <3>1, <3>2, <3>3, <3>7, <4>1 DEF LoopInvariant, TypeOK
      <4>3. handler_config < iter'
        BY <2>2, <3>1, <3>5, <4>1
      <4> QED
        BY <3>4, <3>5, <3>7, <4>1, <4>2, <4>3 DEF LoopInvariant
    <3> QED
      BY <3>6, <3>7
  <2>6. CASE UNCHANGED vars
    BY <2>3, <2>6 DEF vars, LoopInvariant
  <2> QED
    BY <2>4, <2>5, <2>6 DEF Next, Done
<1> QED
  BY <1>1, <1>2, RouterTypeCorrect, PTL DEF Spec

\* For every configuration and URI the loop ends on the first of the longest
\* matches (session.cc 61-75).
THEOREM LongestMatchWins == Spec => []RoutesToLongest
<1>1. TypeOK /\ LoopInvariant => RoutesToLongest
  <2> SUFFICES ASSUME TypeOK, LoopInvariant, AtEnd PROVE RoutesToLongest
    BY DEF RoutesToLongest
  <2>1. handlers \in Seq(Block)
    BY ConfigsAssumption DEF TypeOK
  <2>2. \A j \in Candidates(handlers, original_url) : j < iter
    BY <2>1 DEF Candidates, AtEnd
  <2> QED
    BY <2>2 DEF LoopInvariant, RoutesToLongest, IsUnrouted, IsWinner, TypeOK
<1> QED
  BY <1>1, RouterTypeCorrect, LoopInvariantHolds, PTL

\* The handler is built by the name of the block it is given, for every
\* configuration and URI (session.cc 66-83).
THEOREM NameBelongsToConfig == Spec => []NameOfConfig
<1>1. Init => NameOfConfig
  BY DEF Init, NameOfConfig
<1>2. TypeOK /\ NameOfConfig /\ [Next]_vars => NameOfConfig'
  <2> SUFFICES ASSUME TypeOK, NameOfConfig, [Next]_vars PROVE NameOfConfig'
    OBVIOUS
  <2>1. CASE Take
    <3>1. iter # Unset
      BY DEF TypeOK, Unset
    <3> QED BY <2>1, <3>1 DEF Take, NameOfConfig
  <2>2. CASE Skip
    BY <2>2 DEF Skip, NameOfConfig
  <2>3. CASE UNCHANGED vars
    BY <2>3 DEF vars, NameOfConfig
  <2> QED BY <2>1, <2>2, <2>3 DEF Next, Done
<1> QED
  BY <1>1, <1>2, RouterTypeCorrect, PTL DEF Spec
-----------------------------------------------------------------------------
(* StaticHandler on the block the loop has chosen.                          *)

\* A prefix and what follows it are the whole.
LEMMA PrefixAndRest ==
  ASSUME NEW s \in Seq(Characters), NEW t \in Seq(Characters), IsPrefix(s, t)
  PROVE  s \o SubSeq(t, Len(s) + 1, Len(t)) = t
<1> DEFINE rest == SubSeq(t, Len(s) + 1, Len(t))
<1>1. Len(s) \in Nat /\ Len(t) \in Nat /\ Len(s) <= Len(t)
  BY DEF IsPrefix
<1>2. \A i \in 1..Len(s) : s[i] = t[i]
  <2>1. SubSeq(s, 1, Len(s)) = SubSeq(t, 1, Len(s))
    BY DEF IsPrefix
  <2> SUFFICES ASSUME NEW i \in 1..Len(s) PROVE s[i] = t[i]
    OBVIOUS
  <2>2. SubSeq(s, 1, Len(s))[i] = s[i]
    BY <1>1
  <2>3. SubSeq(t, 1, Len(s))[i] = t[i]
    BY <1>1
  <2> QED BY <2>1, <2>2, <2>3
<1>3. /\ rest \in Seq(Characters) /\ Len(rest) = Len(t) - Len(s)
      /\ \A i \in 1..Len(rest) : rest[i] = t[Len(s) + i]
  BY <1>1
<1>4. s \o rest \in Seq(Characters) /\ Len(s \o rest) = Len(t)
  BY <1>1, <1>3
<1> HIDE DEF rest
<1>5. \A i \in 1..Len(t) : (s \o rest)[i] = t[i]
  <2> SUFFICES ASSUME NEW i \in 1..Len(t) PROVE (s \o rest)[i] = t[i]
    OBVIOUS
  <2>1. CASE i <= Len(s)
    BY <1>1, <1>2, <1>3, <2>1
  <2>2. CASE i > Len(s)
    <3>1. (s \o rest)[i] = rest[i - Len(s)] /\ i - Len(s) \in 1..Len(rest)
      BY <1>1, <1>3, <2>2
    <3> QED BY <1>1, <1>3, <3>1
  <2>3. i \in Int /\ Len(s) \in Int
    BY <1>1
  <2>4. i <= Len(s) \/ i > Len(s)
    BY <2>3
  <2> QED BY <2>1, <2>2, <2>4
<1>6. Len(s \o rest) = Len(t) /\ \A i \in 1..Len(s \o rest) : (s \o rest)[i] = t[i]
  BY <1>4, <1>5
<1>7. s \o rest = t
  BY <1>4, <1>6, SeqEqual
<1> QED BY <1>7 DEF rest

\* Where the request stands: the path is that of the block, and what is open
\* or was sent was at the path during the request.
FileInvariant ==
  /\ stage \in {"routing", "checked", "opened", "replied", "aborted"}
  /\ stage = "routing" => reply = NotYet
  /\ stage # "routing" =>
       AtEnd /\ handler_name = "static" /\ path = GetPath /\ node \in had
  /\ had \subseteq Nodes
  /\ stage = "opened" => opened \in had /\ opened # Missing
  /\ stage = "aborted" => Directory \in had
  /\ reply \notin {NotYet, Null} => reply \in had \cap Files

\* While a file is served the loop has ended, and before it the loop runs.
LEMMA FileInvariantHolds == StaticSpec => [](FileInvariant /\ RoutesToLongest /\ NameOfConfig /\ TypeOK)
<1>1. StaticInit => Init /\ FileInvariant
  BY DEF StaticInit, FileInvariant
<1>2. [StaticNext]_<<vars, fileVars>> => [Next]_vars
  BY DEF StaticNext, Route, Stat, Change, Open, OpenFails, GetContent, GetContentThrows, Served,
     Next, vars
<1>3. FileInvariant /\ [StaticNext]_<<vars, fileVars>> => FileInvariant'
  <2> SUFFICES ASSUME FileInvariant, [StaticNext]_<<vars, fileVars>> PROVE FileInvariant'
    OBVIOUS
  <2> USE DEF FileInvariant
  <2>1. UNCHANGED vars => (AtEnd' <=> AtEnd) /\ GetPath' = GetPath
    BY DEF vars, AtEnd, GetPath
  <2>2. CASE Route
    <3>1. ~AtEnd /\ UNCHANGED fileVars
      BY <2>2 DEF Route, Take, Skip
    <3> QED BY <3>1 DEF fileVars
  <2>3. ASSUME NEW n \in Nodes, Stat(n) PROVE FileInvariant'
    <3>1. /\ stage' \in {"checked", "replied"}
          /\ AtEnd /\ handler_name = "static" /\ path' = GetPath /\ node' = n /\ had' = {n}
          /\ stage = "routing" /\ reply' \in {reply, Null} /\ UNCHANGED vars
      BY <2>3 DEF Stat
    <3> QED BY <2>1, <3>1 DEF vars
  <2>4. ASSUME NEW n \in Nodes, Change(n) PROVE FileInvariant'
    BY <2>1, <2>4 DEF Change, vars
  <2>5. CASE Open
    BY <2>1, <2>5 DEF Open, vars
  <2>6. CASE OpenFails
    BY <2>1, <2>6 DEF OpenFails, vars
  <2>7. CASE GetContent
    <3>1. opened \in Files
      BY <2>7 DEF GetContent, Nodes
    <3> QED BY <2>1, <2>7, <3>1 DEF GetContent, vars
  <2>8. CASE GetContentThrows
    BY <2>1, <2>8 DEF GetContentThrows, vars
  <2>9. CASE Served \/ UNCHANGED <<vars, fileVars>>
    BY <2>1, <2>9 DEF Served, vars, fileVars
  <2> QED
    BY <2>2, <2>3, <2>4, <2>5, <2>6, <2>7, <2>8, <2>9 DEF StaticNext
<1>4. StaticSpec => Spec
  BY <1>1, <1>2, PTL DEF StaticSpec, Spec
<1> QED
  BY <1>1, <1>3, <1>4, RouterTypeCorrect, LongestMatchWins, NameBelongsToConfig, PTL DEF StaticSpec

\* For every configuration, URI and directory tree, whatever changes in it
\* while the request is served: a 200 carries what a file at the path of the
\* winning location held at some instant of the request, and the process ends
\* only if a directory was there (static_handler.cc 28-43 and 51-58).
THEOREM FileIsServed == StaticSpec => []ServesTheFile
<1>1. FileInvariant /\ RoutesToLongest /\ NameOfConfig /\ TypeOK => ServesTheFile
  <2> SUFFICES ASSUME FileInvariant, RoutesToLongest, NameOfConfig, TypeOK,
                      stage \in {"replied", "aborted"}
               PROVE  /\ IsWinner(handlers, original_url, path.root)
                      /\ handlers[path.root].location \o path.rest = original_url
                      /\ reply \notin {NotYet, Null} => reply \in had \cap Files
                      /\ stage = "aborted" => Directory \in had
    BY DEF ServesTheFile
  <2>1. AtEnd /\ handler_name = "static" /\ path = GetPath
    BY DEF FileInvariant
  <2>2. path.root = handler_config
        /\ path.rest = SubSeq(original_url, Len(handlers[handler_config].location) + 1, Len(original_url))
    BY <2>1 DEF GetPath
  <2>3. handler_config # Unset
    BY <2>1 DEF NameOfConfig, Unnamed
  <2>4. IsWinner(handlers, original_url, handler_config)
    BY <2>1, <2>3 DEF RoutesToLongest
  <2>5. handler_config \in DOMAIN handlers /\ Matches(handlers[handler_config], original_url)
    BY <2>4 DEF IsWinner, Candidates
  <2>6. handlers[handler_config].location \in Seq(Characters) /\ original_url \in Seq(Characters)
    <3>1. handlers \in Seq(Block) /\ original_url \in Seq(Characters)
      BY ConfigsAssumption, UrisAssumption DEF TypeOK
    <3>2. handlers[handler_config] \in Block
      BY <2>5, <3>1
    <3> QED BY <3>1, <3>2 DEF Block
  <2>7. handlers[handler_config].location \o path.rest = original_url
    BY <2>2, <2>5, <2>6, PrefixAndRest DEF Matches
  <2> QED BY <2>2, <2>4, <2>7 DEF FileInvariant
<1> QED
  BY <1>1, FileInvariantHolds, PTL
=============================================================================
