---------------------------- MODULE MCRequestMap ----------------------------
(***************************************************************************)
(* RequestMap on small sets of threads and keys.                           *)
(***************************************************************************)
EXTENDS RequestMap, TLC

\* Neither threads nor keys are told apart by anything in the module.
Symmetry == Permutations(Threads) \cup Permutations(Keys)
=============================================================================
