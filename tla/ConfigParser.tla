---------------------------- MODULE ConfigParser ----------------------------
(***************************************************************************)
(* NginxConfigParser: ParseToken, one character of the file at a time, and *)
(* Parse, which builds the tree of statements and blocks from the tokens.  *)
(* The file is not given in advance: every character is any character, or  *)
(* the end of the file.                                                    *)
(*                                                                         *)
(* A word is a value of a small set, chosen where it ends; only what may   *)
(* stand around it is kept as characters.  The tree is kept flat: block 0  *)
(* is the file, block i the child block of statement i, and statements are *)
(* numbered in the order the file begins them.                             *)
(***************************************************************************)
EXTENDS Integers, Sequences, SequencesExt, FiniteSets, FiniteSetsExt

CONSTANTS
  Words,          \* what may stand between blanks
  Quoted,         \* words that keep their quotes
  MaxStatements,  \* bound
  MaxTokens       \* bound, of one statement

ASSUME WordsAssumption ==
  /\ MaxStatements \in Nat /\ MaxTokens \in Nat \ {0}
  /\ (Words \cup Quoted) \cap {";", "{", "}", ""} = {}

VARIABLES
  unread,           \* the character that unget put back
  state,            \* of ParseToken
  last_token_type,
  statements,       \* [tokens, parent, block], where block says it has a child
  config_stack,     \* blocks, the innermost last
  block_count,
  outcome,          \* "parsing", "true" or "exception"
  read              \* history: the tokens Parse was given

parserVars == <<unread, state, last_token_type, statements, config_stack,
                block_count, outcome, read>>

Blanks == {" ", "\n", "\r"}
Characters == Blanks \cup {"{", "}", "#", "quote", ";", "letter"}
EOF == "eof"
Nothing == "nothing"

States == {"initial", "quote", "comment", "normal"}
TokenTypes == {"start", "normal", "{", "}", ";"}

Blocks == 0..Len(statements)

ParserTypeOK ==
  /\ unread \in Characters \cup {Nothing} /\ state \in States
  /\ last_token_type \in TokenTypes
  /\ Len(statements) <= MaxStatements
  /\ \A i \in DOMAIN statements :
       /\ Len(statements[i].tokens) \in 1..MaxTokens
       /\ statements[i].tokens \in Seq(Words \cup Quoted)
       /\ statements[i].parent \in 0..i - 1
  /\ config_stack \in Seq(Blocks) /\ block_count = Len(config_stack) - 1
  /\ outcome \in {"parsing", "true", "exception"}

ParserInit ==
  /\ unread = Nothing /\ state = "initial" /\ last_token_type = "start"
  /\ statements = <<>> /\ config_stack = <<0>> /\ block_count = 0
  /\ outcome = "parsing" /\ read = <<>>

-----------------------------------------------------------------------------
\* The character get() returns.
Get(c) ==
  /\ outcome = "parsing"
  /\ c \in Characters \cup {EOF}
  /\ unread \in {Nothing, c}

\* config_stack.top(), and the last statement of that block.
Top == Last(config_stack)
Back == Max({i \in DOMAIN statements : statements[i].parent = Top})

Returned(type, token) ==
  /\ state' = "initial"
  /\ last_token_type' = type
  /\ read' = Append(read, token)

Throw ==
  /\ outcome' = "exception"
  /\ UNCHANGED <<state, last_token_type, statements, config_stack, block_count, read>>

\* A first word begins a statement of the innermost block.
Normal(word) ==
  /\ IF last_token_type # "normal"
     THEN /\ Len(statements) < MaxStatements
          /\ statements' = Append(statements,
               [tokens |-> <<word>>, parent |-> Top, block |-> FALSE])
     ELSE /\ Len(statements[Back].tokens) < MaxTokens
          /\ statements' = [statements EXCEPT ![Back].tokens = Append(@, word)]
  /\ Returned("normal", word)
  /\ UNCHANGED <<config_stack, block_count, outcome>>

StatementEnd ==
  IF last_token_type # "normal"
  THEN Throw
  ELSE Returned(";", ";") /\ UNCHANGED <<statements, config_stack, block_count, outcome>>

StartBlock ==
  IF last_token_type # "normal"
  THEN Throw
  ELSE /\ statements' = [statements EXCEPT ![Back].block = TRUE]
       /\ config_stack' = Append(config_stack, Back)
       /\ block_count' = block_count + 1
       /\ Returned("{", "{")
       /\ UNCHANGED outcome

\* Mutant of EndBlock: a block may end in the middle of a statement.
EndBlockAnywhere ==
  IF last_token_type = "start" \/ block_count = 0
  THEN Throw
  ELSE /\ config_stack' = Front(config_stack)
       /\ block_count' = block_count - 1
       /\ Returned("}", "}")
       /\ UNCHANGED <<statements, outcome>>

\* Mutant of EndBlock: the count of open blocks is not checked.
EndBlockUncounted ==
  IF last_token_type \notin {";", "}"}
  THEN Throw
  ELSE /\ config_stack' = Front(config_stack)
       /\ block_count' = block_count - 1
       /\ Returned("}", "}")
       /\ UNCHANGED <<statements, outcome>>

\* A block is not empty, and the last statement in it has ended.
EndBlock ==
  IF last_token_type \notin {";", "}"} \/ block_count = 0
  THEN Throw
  ELSE /\ config_stack' = Front(config_stack)
       /\ block_count' = block_count - 1
       /\ Returned("}", "}")
       /\ UNCHANGED <<statements, outcome>>

\* A word that the end of the file cuts off is lost: ParseToken returns the
\* end of the file and not the word.
EndOfFile ==
  IF state = "quote" \/ last_token_type \notin {";", "}", "start"} \/ block_count > 0
  THEN Throw
  ELSE /\ outcome' = "true"
       /\ UNCHANGED <<state, last_token_type, statements, config_stack, block_count, read>>

-----------------------------------------------------------------------------
Goes(s) ==
  /\ state' = s
  /\ UNCHANGED <<last_token_type, statements, config_stack, block_count, outcome, read>>

Initial(c) ==
  CASE c \in Blanks    -> Goes("initial")
    [] c = "#"         -> Goes("comment")
    [] c = "quote"     -> Goes("quote")
    [] c = "letter"    -> Goes("normal")
    [] c = ";"         -> StatementEnd
    [] c = "{"         -> StartBlock
    [] c = "}"         -> EndBlock

InQuote(c) ==
  IF c = "quote" THEN \E word \in Quoted : Normal(word) ELSE Goes("quote")

\* Comments are skipped by Parse too: last_token_type stays.
InComment(c) == Goes(IF c \in {"\n", "\r"} THEN "initial" ELSE "comment")

\* A carriage return does not end a word: it becomes a part of it.
EndsWord == {" ", "\n", ";", "{", "}"}

\* One character of the file.  The one that ends a word is put back.
Character(c) ==
  /\ Get(c)
  /\ IF c = EOF THEN EndOfFile
     ELSE \/ state = "initial" /\ Initial(c)
          \/ state = "quote" /\ InQuote(c)
          \/ state = "comment" /\ InComment(c)
          \/ state = "normal" /\ c \in EndsWord /\ \E word \in Words : Normal(word)
          \/ state = "normal" /\ c \notin EndsWord /\ Goes("normal")
  /\ unread' = IF state = "normal" /\ c \in EndsWord THEN c ELSE Nothing

ParserNext == \E c \in Characters \cup {EOF} : Character(c)

-----------------------------------------------------------------------------
Key(i) == statements[i].tokens[1]

\* tokens_[1] of a statement that has only its key is behind the end of the
\* vector.
Undefined == "undefined"
Value(i) == IF Len(statements[i].tokens) = 1 THEN Undefined ELSE statements[i].tokens[2]

\* NginxConfig::Find of a key without dots: one statement of the block after
\* the other, a later one replaces the value of an earlier one.
Find(b, key) ==
  LET value[i \in Blocks] ==
        IF i = 0 THEN ""
        ELSE IF statements[i].parent = b /\ Key(i) = key THEN Value(i) ELSE value[i - 1]
  IN  value[Len(statements)]

\* Mutant of FindBlocks: the search goes on inside a block it has found.
FindBlocksNested(key) ==
  LET found[b \in Blocks] ==
        LET in(i) ==
              (IF Key(i) = key /\ statements[i].block THEN <<i>> ELSE <<>>) \o found[i]
            upto[i \in Blocks] ==
              IF i = 0 THEN <<>>
              ELSE IF statements[i].parent = b THEN upto[i - 1] \o in(i) ELSE upto[i - 1]
        IN  upto[Len(statements)]
  IN  found[0]

\* NginxConfig::FindBlocks of a key without dots: one statement of the block
\* after the other, and into the blocks of statements with another key.
FindBlocks(key) ==
  LET found[b \in Blocks] ==
        LET in(i) ==
              IF ~statements[i].block THEN <<>>
              ELSE IF Key(i) = key THEN <<i>> ELSE found[i]
            upto[i \in Blocks] ==
              IF i = 0 THEN <<>>
              ELSE IF statements[i].parent = b THEN upto[i - 1] \o in(i) ELSE upto[i - 1]
        IN  upto[Len(statements)]
  IN  found[0]

\* NginxConfig::ToString, without its layout.
ConfigText ==
  LET text[b \in Blocks] ==
        LET printed(i) ==
              statements[i].tokens \o
                IF statements[i].block THEN <<"{">> \o (text[i] \o <<"}">>) ELSE <<";">>
            upto[i \in Blocks] ==
              IF i = 0 THEN <<>>
              ELSE IF statements[i].parent = b THEN upto[i - 1] \o printed(i) ELSE upto[i - 1]
        IN  upto[Len(statements)]
  IN  text[0]

-----------------------------------------------------------------------------
\* A file that is accepted is the tree that was built from it: ConfigText holds
\* the tokens that were read, each statement in its block, and no block that
\* is printed is empty.  Words, blocks and statements cannot move to another
\* block or get lost between push, pop and back(); a last word that the end
\* of the file cut off is not among the tokens (config_parser.cc 238-320
\* against 108-131).
PrintsWhatWasRead ==
  outcome = "true" =>
    /\ ConfigText = read
    /\ \A i \in DOMAIN statements :
         statements[i].block => \E j \in DOMAIN statements : statements[j].parent = i

Ancestors(i) ==
  LET up[j \in Blocks] == IF j = 0 THEN {} ELSE {j} \cup up[statements[j].parent]
  IN  up[statements[i].parent]

\* The blocks that Session::handle_request routes with are the handler blocks
\* of the file, in the file's order, on which its ties depend; a handler block
\* inside another is not one (config_parser.cc 76-106; session.cc 64).
HandlersInFileOrder ==
  outcome = "true" =>
    LET found == FindBlocks("handler") IN
    /\ ToSet(found) = {i \in DOMAIN statements :
                         /\ statements[i].block /\ Key(i) = "handler"
                         /\ \A j \in Ancestors(i) : Key(j) # "handler"}
    /\ \A k, m \in DOMAIN found : k < m => found[k] < found[m]
=============================================================================
