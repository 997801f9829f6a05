------------------------------ MODULE MCRouter ------------------------------
(***************************************************************************)
(* Router and StaticFiles on every configuration of at most three handler  *)
(* blocks, among them blocks that share a location and differ in name, and *)
(* every URI of at most three characters.                                  *)
(***************************************************************************)
EXTENDS StaticFiles

Strings(n) == UNION {[1..m -> Characters] : m \in 0..n}

MCCharacters == {"/", "a"}

MCNames == {"static", "echo"}

Blocks ==
  [location : Strings(2), name : {"static"}] \cup
  [location : {<<"/">>, <<"/", "a">>}, name : {"echo"}]

MCConfigs == UNION {[1..m -> Blocks] : m \in 0..3}

MCUris == Strings(3)
=============================================================================
