------------------------------- MODULE Startup ------------------------------
(***************************************************************************)
(* main, from the command line to Server::run: the configuration file is   *)
(* opened and parsed, its port is read, then the size of the pool, the     *)
(* table is made if there is none, and the port is bound.  Server goes on  *)
(* from there.                                                             *)
(***************************************************************************)
EXTENDS ConfigParser

CONSTANTS
  NumberOf  \* the words stoi can read, and what it returns

ASSUME NumberAssumption ==
  /\ DOMAIN NumberOf \subseteq Words /\ \A w \in DOMAIN NumberOf : NumberOf[w] \in Int
  /\ Undefined \notin Words \cup Quoted

VARIABLES
  stage,
  pool,    \* thread_pool_size: the default, or the number in argv[2]
  port,
  opened,  \* the file could be opened
  table    \* there is a table MEMES in amazon.db

mainVars == <<stage, pool, port, opened, table>>

MaxPort == 65536  \* what unsigned short holds, 2^16

Stages == {"arguments", "open", "parse", "port", "pool", "database", "bind",
           "running", "exited"}

TypeOK ==
  /\ ParserTypeOK
  /\ stage \in Stages
  /\ pool \in {"default", "number"}
  /\ port \in 0..MaxPort - 1
  /\ opened \in BOOLEAN /\ table \in BOOLEAN
  /\ outcome = "exception" => stage = "exited"

Init ==
  /\ ParserInit
  /\ stage = "arguments"
  /\ pool = "default" /\ port = 0 /\ opened = FALSE /\ table = FALSE

-----------------------------------------------------------------------------
At(s) == stage = s

Exit == stage' = "exited" /\ UNCHANGED <<pool, port, opened, table>>

\* The command line, like the file, is not given in advance: there may be one
\* argument or two, or another number of them.
CheckArguments ==
  /\ At("arguments")
  /\ \/ stage' = "open" /\ UNCHANGED <<pool, port, opened, table>>
     \/ Exit
  /\ UNCHANGED parserVars

\* Mutant of OpenFile: main runs without the file, on the port it had.
OpenFileAndGoOn ==
  /\ At("open")
  /\ \/ opened' = TRUE /\ stage' = "parse"
     \/ opened' = FALSE /\ stage' = "pool"
  /\ UNCHANGED <<pool, port, table, parserVars>>

\* Parse returns false when the file cannot be opened, and main goes on.
OpenFile ==
  /\ At("open")
  /\ \/ opened' = TRUE /\ stage' = "parse"
     \/ opened' = FALSE /\ stage' = "port"
  /\ UNCHANGED <<pool, port, table, parserVars>>

\* ConfigParserException is caught at the end of main.
Parse ==
  /\ At("parse")
  /\ ParserNext
  /\ stage' = CASE outcome' = "parsing"   -> "parse"
                [] outcome' = "true"      -> "port"
                [] outcome' = "exception" -> "exited"
  /\ UNCHANGED <<pool, port, opened, table>>

\* stoi throws unless the value begins with a number; the number is cut to 16
\* bits.  What is behind tokens_ may be anything, and mostly ends the process.
ReadPort ==
  /\ At("port")
  /\ LET value == Find(0, "port") IN
     \/ /\ value \in DOMAIN NumberOf \cup {Undefined}
        /\ port' \in IF value = Undefined THEN {0, MaxPort - 1}
                     ELSE {NumberOf[value] % MaxPort}
        /\ stage' = "pool"
        /\ UNCHANGED <<pool, opened, table>>
     \/ value \notin DOMAIN NumberOf /\ Exit
  /\ UNCHANGED parserVars

\* The second argument, if there is one; lexical_cast throws on what is no
\* number.
ReadPool ==
  /\ At("pool")
  /\ \/ /\ pool' \in {"default", "number"}
        /\ stage' = "database" /\ UNCHANGED <<port, opened, table>>
     \/ Exit
  /\ UNCHANGED parserVars

\* Database::Init makes the table unless it exists.  What fails is logged, and
\* the server starts without its table as well.
InitDatabase ==
  /\ At("database")
  /\ stage' = "bind"
  /\ table' \in BOOLEAN
  /\ UNCHANGED <<pool, port, opened, parserVars>>

\* The acceptor's constructor throws when the port is in use or not allowed.
Bind ==
  /\ At("bind")
  /\ \/ stage' = "running" /\ UNCHANGED <<pool, port, opened, table>>
     \/ Exit
  /\ UNCHANGED parserVars

Over == stage \in {"running", "exited"} /\ UNCHANGED <<parserVars, mainVars>>

Next ==
  \/ CheckArguments \/ OpenFile \/ Parse \/ ReadPort \/ ReadPool
  \/ InitDatabase \/ Bind \/ Over

Spec == Init /\ [][Next]_<<parserVars, mainVars>>

-----------------------------------------------------------------------------
\* main ignores what Parse returns and what Find found; still, a server that
\* runs has read its whole file, and listens on the number of the last port
\* statement outside all blocks, modulo 2^16.  Only a port statement without a
\* number, where tokens_[1] is undefined, can give it another
\* (server_main.cc 44-63; config_parser.cc 40-62 and 322-334).
RunsOnlyWithPort ==
  stage = "running" =>
    /\ opened /\ outcome = "true"
    /\ LET ports == {i \in DOMAIN statements :
                       statements[i].parent = 0 /\ Key(i) = "port"} IN
       /\ ports # {}
       /\ LET tokens == statements[Max(ports)].tokens IN
          \/ Len(tokens) = 1
          \/ tokens[2] \in DOMAIN NumberOf /\ port = NumberOf[tokens[2]] % MaxPort
=============================================================================
