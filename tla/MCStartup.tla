------------------------------ MODULE MCStartup -----------------------------
(***************************************************************************)
(* Startup on every file of at most three statements of at most two words. *)
(***************************************************************************)
EXTENDS Startup

MCWords == {"port", "handler", "65616"}

\* With its quotes in it a number is none.
MCQuoted == {"'80'"}

\* Port 80, once it is cut to 16 bits.
MCNumberOf == [w \in {"65616"} |-> 65616]
=============================================================================
