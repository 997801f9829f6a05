----------------------------- MODULE MCDatabase -----------------------------
(***************************************************************************)
(* Database on its own, with a thread and one row.                         *)
(***************************************************************************)
EXTENDS Database, TLC

Symmetry == Permutations(Threads) \cup Permutations(Contents)
=============================================================================
