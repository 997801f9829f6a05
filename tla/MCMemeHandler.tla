---------------------------- MODULE MCMemeHandler ---------------------------
(***************************************************************************)
(* The meme handler on one or two threads.                                 *)
(***************************************************************************)
EXTENDS MemeHandler, TLC

\* A search that finds the memes as they were created, and not as edited.
MCSearchQueries == {Created}

Symmetry == Permutations(Threads)
=============================================================================
