---------------------------- MODULE StartupProofs ---------------------------
(***************************************************************************)
(* Whatever the file holds and however main goes: the parser and main stay *)
(* well typed, a server that runs listens on the last port of its file,    *)
(* the tree of a file that is accepted is printed as it was read, and its  *)
(* handlers are found in the order of the file.                            *)
(***************************************************************************)
EXTENDS Startup, DataLemmas

-----------------------------------------------------------------------------
\* The statements of block b with this key among the first n.
Hits(b, key, n) == {i \in 1..n : statements[i].parent = b /\ Key(i) = key}

LastHit(b, key, n) ==
  IF Hits(b, key, n) = {} THEN "" ELSE Value(Max(Hits(b, key, n)))

\* One statement more replaces the value, or leaves it.
LEMMA HitsStep ==
  ASSUME NEW b, NEW key, NEW n \in Nat, n # 0
  PROVE  LastHit(b, key, n) =
           IF statements[n].parent = b /\ Key(n) = key THEN Value(n)
           ELSE LastHit(b, key, n - 1)
<1>1. CASE statements[n].parent = b /\ Key(n) = key
  <2>1. n \in Hits(b, key, n) /\ Hits(b, key, n) \subseteq 0..n
    BY <1>1 DEF Hits
  <2>2. \A y \in Hits(b, key, n) : n >= y
    BY <2>1
  <2>3. Max(Hits(b, key, n)) = n
    BY <2>1, <2>2, MaxIs
  <2> QED BY <1>1, <2>1, <2>3 DEF LastHit
<1>2. CASE ~(statements[n].parent = b /\ Key(n) = key)
  <2>1. \A i \in 1..n : statements[i].parent = b /\ Key(i) = key => i \in 1..n - 1
    BY <1>2
  <2>2. Hits(b, key, n) = Hits(b, key, n - 1)
    BY <2>1 DEF Hits
  <2> QED BY <1>2, <2>2 DEF LastHit
<1> QED BY <1>1, <1>2

\* Find returns the value of the last statement with the key, or nothing
\* (config_parser.cc 40-46).
LEMMA FindsLast ==
  ASSUME Len(statements) \in Nat, NEW b, NEW key
  PROVE  Find(b, key) = LastHit(b, key, Len(statements))
<1> DEFINE Step(f) == [i \in Blocks |->
             IF i = 0 THEN ""
             ELSE IF statements[i].parent = b /\ Key(i) = key THEN Value(i) ELSE f[i - 1]]
           value == CHOOSE f : f = Step(f)
           last == [i \in Blocks |-> LastHit(b, key, i)]
<1>1. Find(b, key) = value[Len(statements)]
  BY DEF Find
<1>2. last = Step(last)
  <2>1. ASSUME NEW i \in Blocks PROVE last[i] = Step(last)[i]
    <3>1. CASE i = 0
      <4>1. Hits(b, key, 0) = {}
        BY DEF Hits
      <4> QED BY <3>1, <4>1 DEF LastHit
    <3>2. CASE i # 0
      <4>1. i \in Nat /\ i - 1 \in Blocks
        BY <3>2 DEF Blocks
      <4>2. last[i] = IF statements[i].parent = b /\ Key(i) = key THEN Value(i)
                      ELSE LastHit(b, key, i - 1)
        BY <3>2, <4>1, HitsStep
      <4> QED BY <3>2, <4>1, <4>2
    <3> QED BY <3>1, <3>2
  <2> QED BY <2>1
<1>3. value = Step(value)
  <2> HIDE DEF last, Step
  <2> QED BY <1>2
<1>4. \A i \in Blocks : value[i] = last[i]
  <2> DEFINE differ == {i \in Blocks : value[i] # last[i]}
  <2> SUFFICES ASSUME differ # {} PROVE FALSE
    OBVIOUS
  <2>1. PICK i \in differ : \A j \in differ : i <= j
    <3> HIDE DEF value, last
    <3>1. differ \subseteq Nat
      BY DEF Blocks
    <3> HIDE DEF differ
    <3> QED BY <3>1, Least, Zenon
  <2>2. value[i] = Step(value)[i] /\ last[i] = Step(last)[i]
    <3> HIDE DEF value, last, Step
    <3> QED BY <1>2, <1>3
  <2> HIDE DEF value, last
  <2>3. i \in Blocks /\ value[i] # last[i]
    BY <2>1
  <2>4. i # 0
    BY <2>2, <2>3
  <2>5. i - 1 \in Blocks /\ i - 1 < i
    BY <2>3, <2>4 DEF Blocks
  <2>6. value[i - 1] = last[i - 1]
    BY <2>1, <2>5 DEF Blocks
  <2> QED BY <2>2, <2>3, <2>4, <2>6
<1>5. Len(statements) \in Blocks
  BY DEF Blocks
<1> HIDE DEF value
<1> QED BY <1>1, <1>4, <1>5
-----------------------------------------------------------------------------
Statement == [tokens : Seq(Words \cup Quoted), parent : Nat, block : BOOLEAN]

\* While a statement is being read it is the last of the innermost block.
ParserInv ==
  /\ ParserTypeOK
  /\ statements \in Seq(Statement)
  /\ config_stack # <<>>
  /\ last_token_type = "normal" =>
       statements # <<>> /\ statements[Len(statements)].parent = Top

\* back() is the statement that was begun last (config_parser.cc 270).
LEMMA BackIsLast ==
  ASSUME ParserInv, last_token_type = "normal"
  PROVE  Back = Len(statements) /\ Len(statements) \in DOMAIN statements
<1> DEFINE n == Len(statements)
           S == {i \in DOMAIN statements : statements[i].parent = Top}
<1>1. n \in Nat /\ DOMAIN statements = 1..n /\ n # 0 /\ statements[n].parent = Top
  BY DEF ParserInv
<1>2. n \in S /\ S \subseteq 0..n /\ \A y \in S : n >= y
  <2> HIDE DEF n
  <2> QED BY <1>1
<1>3. Max(S) = n
  <2> HIDE DEF n, S
  <2> QED BY <1>1, <1>2, MaxIs
<1>4. Back = n
  BY <1>3, Zenon DEF Back
<1> QED BY <1>1, <1>4

\* What a character may do.
ParserStep ==
  \/ \E word \in Words \cup Quoted : Normal(word)
  \/ StatementEnd \/ StartBlock \/ EndBlock \/ EndOfFile
  \/ \E s \in States : Goes(s)

\* Every character makes one of these steps (config_parser.cc 156-236).
LEMMA CharacterCases ==
  ASSUME NEW c \in Characters \cup {EOF}, Character(c)
  PROVE  /\ outcome = "parsing" /\ ParserStep
         /\ unread' \in Characters \cup {Nothing}
<1>1. outcome = "parsing" /\ unread' \in Characters \cup {Nothing}
  BY DEF Character, Get, EndsWord, Characters, Blanks
<1>2. CASE c = EOF
  BY <1>1, <1>2 DEF Character, ParserStep
<1>3. CASE c # EOF /\ state = "initial" /\ Initial(c)
  <2>1. c \in Characters
    BY <1>3
  <2> QED BY <1>1, <1>3, <2>1 DEF Initial, Characters, Blanks, ParserStep, States
<1>4. CASE state = "quote" /\ InQuote(c)
  BY <1>1, <1>4 DEF InQuote, ParserStep, States
<1>5. CASE state = "comment" /\ InComment(c)
  <2>1. PICK s \in {"initial", "comment"} : Goes(s)
    BY <1>5 DEF InComment
  <2> QED BY <1>1, <2>1 DEF ParserStep, States
<1>6. CASE \E word \in Words : Normal(word)
  BY <1>1, <1>6 DEF ParserStep
<1>7. CASE Goes("normal")
  BY <1>1, <1>7 DEF ParserStep, States
<1> QED
  BY <1>1, <1>2, <1>3, <1>4, <1>5, <1>6, <1>7 DEF Character

\* The statements stay what they are when the last gets a word or a block.
LEMMA LastChanged ==
  ASSUME ParserInv, last_token_type = "normal", NEW e \in Statement,
         e.parent = statements[Len(statements)].parent,
         Len(e.tokens) \in 1..MaxTokens,
         statements' = [statements EXCEPT ![Back] = e]
  PROVE  /\ statements' \in Seq(Statement) /\ Len(statements') = Len(statements)
         /\ \A i \in DOMAIN statements' :
              /\ Len(statements'[i].tokens) \in 1..MaxTokens
              /\ statements'[i].tokens \in Seq(Words \cup Quoted)
              /\ statements'[i].parent \in 0..i - 1
         /\ statements'[Len(statements)].parent = statements[Len(statements)].parent
<1>1. Back = Len(statements) /\ Back \in DOMAIN statements
  BY BackIsLast
<1>2. statements' \in Seq(Statement) /\ Len(statements') = Len(statements)
  BY <1>1 DEF ParserInv
<1>3. \A i \in DOMAIN statements : statements'[i] = IF i = Back THEN e ELSE statements[i]
  BY <1>1 DEF ParserInv
<1>4. DOMAIN statements' = DOMAIN statements
  OBVIOUS
<1>5. e.tokens \in Seq(Words \cup Quoted)
  BY DEF Statement
<1> QED BY <1>1, <1>2, <1>3, <1>4, <1>5 DEF ParserInv, ParserTypeOK
-----------------------------------------------------------------------------
\* The innermost block is one of the open ones, and its number is that of a
\* statement or of the file.
LEMMA TopIsBlock ==
  ASSUME ParserInv
  PROVE  Top \in Blocks /\ Top \in Nat /\ Len(config_stack) \in Nat \ {0}
<1>1. config_stack \in Seq(Blocks) /\ Len(config_stack) \in Nat \ {0}
  BY DEF ParserInv, ParserTypeOK
<1>2. config_stack[Len(config_stack)] \in Blocks
  BY <1>1
<1> QED BY <1>1, <1>2 DEF Top, Last, Blocks

\* A word begins a statement of the innermost block or is put to the last one
\* (config_parser.cc 260-274).
LEMMA NormalInv ==
  ASSUME ParserInv, outcome = "parsing", NEW word \in Words \cup Quoted, Normal(word),
         unread' \in Characters \cup {Nothing}
  PROVE  ParserInv'
<1>1. /\ state' = "initial" /\ last_token_type' = "normal"
      /\ UNCHANGED <<config_stack, block_count, outcome>>
  BY DEF Normal, Returned
<1>2. Len(statements) \in Nat /\ MaxStatements \in Nat /\ MaxTokens \in Nat \ {0}
  <2>1. Len(statements) \in Nat
    BY DEF ParserInv
  <2> QED BY <2>1, WordsAssumption
<1>3. CASE last_token_type # "normal"
  <2> DEFINE new == [tokens |-> <<word>>, parent |-> Top, block |-> FALSE]
  <2>1. statements' = Append(statements, new) /\ Len(statements) < MaxStatements
    BY <1>3 DEF Normal
  <2>2. new \in Statement /\ Len(new.tokens) = 1 /\ new.parent = Top
    BY TopIsBlock DEF Statement
  <2>3. new.tokens \in Seq(Words \cup Quoted)
    OBVIOUS
  <2> HIDE DEF new
  <2>4. /\ statements' \in Seq(Statement) /\ Len(statements') = Len(statements) + 1
        /\ \A i \in 1..Len(statements) : statements'[i] = statements[i]
        /\ statements'[Len(statements) + 1] = new
    BY <2>1, <2>2 DEF ParserInv
  <2>5. Blocks \subseteq Blocks'
    BY <1>2, <2>4 DEF Blocks
  <2>6. config_stack' \in Seq(Blocks')
    BY <1>1, <2>5, SeqLarger DEF ParserInv, ParserTypeOK
  <2>7. \A i \in DOMAIN statements' :
          /\ Len(statements'[i].tokens) \in 1..MaxTokens
          /\ statements'[i].tokens \in Seq(Words \cup Quoted)
          /\ statements'[i].parent \in 0..i - 1
    <3>1. Top \in 0..Len(statements)
      BY TopIsBlock DEF Blocks
    <3>2. \A i \in 1..Len(statements) :
            /\ Len(statements[i].tokens) \in 1..MaxTokens
            /\ statements[i].tokens \in Seq(Words \cup Quoted)
            /\ statements[i].parent \in 0..i - 1
      BY <1>2 DEF ParserInv, ParserTypeOK
    <3>3. DOMAIN statements' = 1..Len(statements) + 1
      BY <1>2, <2>4
    <3> SUFFICES ASSUME NEW i \in 1..Len(statements) + 1
        PROVE  /\ Len(statements'[i].tokens) \in 1..MaxTokens
               /\ statements'[i].tokens \in Seq(Words \cup Quoted)
               /\ statements'[i].parent \in 0..i - 1
      BY <3>3
    <3>4. CASE i = Len(statements) + 1
      <4>1. statements'[i] = new
        BY <2>4, <3>4
      <4>2. 1 \in 1..MaxTokens /\ new.parent \in 0..i - 1
        BY <1>2, <2>2, <3>1, <3>4
      <4> QED BY <2>2, <2>3, <4>1, <4>2, Zenon
    <3>5. CASE i # Len(statements) + 1
      <4>1. i \in 1..Len(statements)
        BY <1>2, <3>5
      <4>2. statements'[i] = statements[i]
        BY <2>4, <4>1
      <4> QED BY <3>2, <4>1, <4>2, Zenon
    <3> QED BY <3>4, <3>5
  <2>8. Top' = Top
    BY <1>1 DEF Top
  <2>9. ParserTypeOK'
    <3>1. Len(statements') <= MaxStatements
      BY <1>2, <2>1, <2>4
    <3> QED
      BY <1>1, <2>6, <2>7, <3>1 DEF ParserInv, ParserTypeOK, States, TokenTypes
  <2> QED
    BY <1>1, <1>2, <2>2, <2>4, <2>8, <2>9 DEF ParserInv
<1>4. CASE last_token_type = "normal"
  <2>1. Back = Len(statements) /\ Len(statements) \in DOMAIN statements
    BY <1>4, BackIsLast
  <2> DEFINE old == statements[Back]
             new == [old EXCEPT !.tokens = Append(@, word)]
  <2>2. old \in Statement
    BY <2>1 DEF ParserInv
  <2>3. statements' = [statements EXCEPT ![Back] = new] /\ Len(old.tokens) < MaxTokens
    BY <1>4 DEF Normal
  <2>4. /\ new \in Statement /\ new.parent = old.parent
        /\ Len(new.tokens) = Len(old.tokens) + 1 /\ Len(old.tokens) \in Nat
    <3> HIDE DEF old
    <3>1. old.tokens \in Seq(Words \cup Quoted) /\ old.parent \in Nat /\ old.block \in BOOLEAN
      BY <2>2 DEF Statement
    <3>2. /\ new = [tokens |-> Append(old.tokens, word), parent |-> old.parent, block |-> old.block]
      BY <2>2, SMTT(30) DEF Statement
    <3> QED BY <3>1, <3>2 DEF Statement
  <2> HIDE DEF old, new
  <2>5. Len(new.tokens) \in 1..MaxTokens /\ new.parent = statements[Len(statements)].parent
    BY <1>2, <2>1, <2>3, <2>4 DEF old
  <2>6. /\ statements' \in Seq(Statement) /\ Len(statements') = Len(statements)
        /\ \A i \in DOMAIN statements' :
             /\ Len(statements'[i].tokens) \in 1..MaxTokens
             /\ statements'[i].tokens \in Seq(Words \cup Quoted)
             /\ statements'[i].parent \in 0..i - 1
        /\ statements'[Len(statements)].parent = statements[Len(statements)].parent
    BY <1>4, <2>3, <2>4, <2>5, LastChanged
  <2>7. Top' = Top /\ Blocks' = Blocks
    BY <1>1, <2>6 DEF Top, Blocks
  <2>8. ParserTypeOK'
    BY <1>1, <2>6, <2>7 DEF ParserInv, ParserTypeOK, States, TokenTypes
  <2> QED
    BY <1>1, <1>2, <1>4, <2>1, <2>6, <2>7, <2>8 DEF ParserInv
<1> QED BY <1>3, <1>4

\* A block is put on the stack with the statement that has it
\* (config_parser.cc 280-289).
LEMMA StartBlockInv ==
  ASSUME ParserInv, outcome = "parsing", StartBlock, last_token_type = "normal",
         unread' \in Characters \cup {Nothing}
  PROVE  ParserInv'
<1>1. Back = Len(statements) /\ Len(statements) \in DOMAIN statements
  BY BackIsLast
<1> DEFINE old == statements[Back]
           new == [old EXCEPT !.block = TRUE]
<1>2. /\ statements' = [statements EXCEPT ![Back] = new]
      /\ config_stack' = Append(config_stack, Back) /\ block_count' = block_count + 1
      /\ state' = "initial" /\ last_token_type' = "{" /\ outcome' = outcome
  BY DEF StartBlock, Returned
<1>3. old \in Statement /\ Len(old.tokens) \in 1..MaxTokens
  BY <1>1 DEF ParserInv, ParserTypeOK
<1>4. new \in Statement /\ new.parent = old.parent /\ new.tokens = old.tokens
  <2> HIDE DEF old
  <2> QED BY <1>3 DEF Statement
<1> HIDE DEF old, new
<1>5. Len(new.tokens) \in 1..MaxTokens /\ new.parent = statements[Len(statements)].parent
  BY <1>1, <1>3, <1>4 DEF old
<1>6. /\ statements' \in Seq(Statement) /\ Len(statements') = Len(statements)
      /\ \A i \in DOMAIN statements' :
           /\ Len(statements'[i].tokens) \in 1..MaxTokens
           /\ statements'[i].tokens \in Seq(Words \cup Quoted)
           /\ statements'[i].parent \in 0..i - 1
  BY <1>2, <1>4, <1>5, LastChanged
<1>7. config_stack \in Seq(Blocks) /\ Len(config_stack) \in Nat /\ Back \in Blocks
  <2>1. Back \in Blocks
    BY <1>1 DEF Blocks
  <2> QED BY <2>1, TopIsBlock DEF ParserInv, ParserTypeOK
<1>8. /\ config_stack' \in Seq(Blocks) /\ config_stack' # <<>>
      /\ Len(config_stack') = Len(config_stack) + 1
  <2>1. /\ Append(config_stack, Back) \in Seq(Blocks) /\ Append(config_stack, Back) # <<>>
        /\ Len(Append(config_stack, Back)) = Len(config_stack) + 1
    BY <1>7, AppendProperties
  <2> QED BY <1>2, <2>1, Zenon
<1>9. block_count' = Len(config_stack') - 1
  <2>1. block_count = Len(config_stack) - 1
    BY DEF ParserInv, ParserTypeOK
  <2>2. block_count' = block_count + 1
    BY <1>2, Zenon
  <2>3. block_count' = Len(config_stack) - 1 + 1 /\ Len(config_stack) \in Nat
    BY <1>7, <2>1, <2>2, Zenon
  <2>4. block_count' = Len(config_stack) + 1 - 1
    BY <2>3
  <2>5. Len(config_stack') = Len(config_stack) + 1
    BY <1>8, Zenon
  <2> QED BY <2>4, <2>5
<1>10. Blocks' = Blocks
  BY <1>6 DEF Blocks
<1> QED
  BY <1>2, <1>6, <1>8, <1>9, <1>10 DEF ParserInv, ParserTypeOK, States, TokenTypes

\* The file's own block is never closed: block_count says how many others are
\* open (config_parser.cc 290-298).
LEMMA EndBlockInv ==
  ASSUME ParserInv, outcome = "parsing", EndBlock, outcome' = "parsing",
         unread' \in Characters \cup {Nothing}
  PROVE  ParserInv'
<1>1. block_count # 0 /\ block_count' = block_count - 1 /\ config_stack' = Front(config_stack)
  BY DEF EndBlock, Throw
<1>2. /\ state' = "initial" /\ last_token_type' = "}" /\ statements' = statements
      /\ Blocks' = Blocks
  BY DEF EndBlock, Returned, Throw, Blocks
<1>3. config_stack \in Seq(Blocks) /\ block_count = Len(config_stack) - 1
  BY DEF ParserInv, ParserTypeOK
<1>4. Len(config_stack) \in Nat \ {0, 1}
  <2>1. block_count # 0
    BY <1>1
  <2> QED BY <1>3, <2>1, TopIsBlock
<1>5. /\ config_stack' \in Seq(Blocks) /\ config_stack' # <<>>
      /\ Len(config_stack') = Len(config_stack) - 1
  <2>1. /\ Front(config_stack) \in Seq(Blocks) /\ Front(config_stack) # <<>>
        /\ Len(Front(config_stack)) = Len(config_stack) - 1
    BY <1>3, <1>4, FrontProperties
  <2> QED BY <1>1, <2>1, Zenon
<1>6. block_count' = Len(config_stack') - 1
  BY <1>1, <1>3, <1>5, Zenon
<1> QED
  BY <1>2, <1>5, <1>6 DEF ParserInv, ParserTypeOK, States, TokenTypes
\* Nothing is begun, and no block opened or closed.
LEMMA KeptInv ==
  ASSUME ParserInv, UNCHANGED <<statements, config_stack, block_count>>,
         last_token_type' \in {last_token_type, ";"}, state' \in States,
         outcome' \in {"parsing", "true", "exception"},
         unread' \in Characters \cup {Nothing}
  PROVE  ParserInv'
<1>1. Top' = Top /\ Blocks' = Blocks
  BY DEF Top, Blocks
<1>2. last_token_type' \in TokenTypes
  BY DEF ParserInv, ParserTypeOK, TokenTypes
<1> QED BY <1>1, <1>2 DEF ParserInv, ParserTypeOK

\* Every character keeps the tree well formed (config_parser.cc 156-320).
LEMMA ParserStepInv ==
  ASSUME ParserInv, outcome = "parsing", ParserStep, unread' \in Characters \cup {Nothing}
  PROVE  ParserInv'
<1>1. state \in States
  BY DEF ParserInv, ParserTypeOK
<1>2. CASE Throw
  BY <1>1, <1>2, KeptInv DEF Throw
<1>3. CASE \E word \in Words \cup Quoted : Normal(word)
  BY <1>3, NormalInv
<1>4. CASE StatementEnd
  <2>1. CASE last_token_type = "normal"
    BY <1>4, <2>1, KeptInv DEF StatementEnd, Returned, States
  <2> QED BY <1>2, <1>4, <2>1 DEF StatementEnd
<1>5. CASE StartBlock
  BY <1>2, <1>5, StartBlockInv DEF StartBlock
<1>6. CASE EndBlock
  <2>1. CASE ~Throw
    BY <1>6, <2>1, EndBlockInv DEF EndBlock
  <2> QED BY <1>2, <2>1
<1>7. CASE EndOfFile
  <2>1. CASE ~Throw
    BY <1>1, <1>7, <2>1, KeptInv DEF EndOfFile
  <2> QED BY <1>2, <2>1
<1>8. CASE \E s \in States : Goes(s)
  BY <1>8, KeptInv DEF Goes
<1> QED BY <1>3, <1>4, <1>5, <1>6, <1>7, <1>8 DEF ParserStep

\* The steps of main leave the parser alone once it has ended.
LEMMA ParserKeeps ==
  ASSUME ParserInv, UNCHANGED parserVars
  PROVE  ParserInv'
<1>1. Top' = Top /\ Blocks' = Blocks
  BY DEF Top, Blocks, parserVars
<1> QED BY <1>1 DEF ParserInv, ParserTypeOK, parserVars

\* The parser stays well typed, in main and whatever the file holds.
LEMMA ParserCorrect == Spec => []ParserInv
<1>1. Init => ParserInv
  <2> SUFFICES ASSUME Init PROVE ParserInv
    OBVIOUS
  <2>1. /\ unread = Nothing /\ state = "initial" /\ last_token_type = "start"
        /\ statements = <<>> /\ config_stack = <<0>> /\ block_count = 0
        /\ outcome = "parsing"
    BY DEF Init, ParserInit
  <2>2. Len(statements) = 0 /\ DOMAIN statements = {} /\ statements \in Seq(Statement)
    BY <2>1
  <2>3. 0 \in Blocks /\ <<0>> \in Seq(Blocks) /\ Len(<<0>>) = 1
    BY <2>2 DEF Blocks
  <2>4. config_stack \in Seq(Blocks) /\ block_count = Len(config_stack) - 1
    <3>1. 0 = 1 - 1
      OBVIOUS
    <3> QED BY <2>1, <2>3, <3>1, Zenon
  <2>5. Len(statements) <= MaxStatements
    <3>1. MaxStatements \in Nat /\ Len(statements) = 0
      BY <2>2, WordsAssumption, Zenon
    <3> QED BY <3>1
  <2>6. ParserTypeOK
    BY <2>1, <2>2, <2>4, <2>5 DEF ParserTypeOK, States, TokenTypes
  <2> QED BY <2>1, <2>2, <2>6 DEF ParserInv
<1>2. ParserInv /\ [Next]_<<parserVars, mainVars>> => ParserInv'
  <2> SUFFICES ASSUME ParserInv, [Next]_<<parserVars, mainVars>> PROVE ParserInv'
    OBVIOUS
  <2>1. CASE Parse
    <3>1. PICK c \in Characters \cup {EOF} : Character(c)
      BY <2>1 DEF Parse, ParserNext
    <3> QED BY <3>1, CharacterCases, ParserStepInv
  <2>2. CASE UNCHANGED parserVars
    BY <2>2, ParserKeeps
  <2> QED
    BY <2>1, <2>2 DEF Next, CheckArguments, OpenFile, ReadPort, ReadPool, InitDatabase,
       Bind, Over
<1> QED BY <1>1, <1>2, PTL DEF Spec

\* A port is any number that is left modulo 2^16.
LEMMA PortRange ==
  /\ MaxPort - 1 \in 0..MaxPort - 1 /\ 0 \in 0..MaxPort - 1
  /\ \A n \in Int : n % MaxPort \in 0..MaxPort - 1
<1>1. MaxPort - 1 \in 0..MaxPort - 1 /\ 0 \in 0..MaxPort - 1
  BY DEF MaxPort
<1>2. \A n \in Int : n % MaxPort \in 0..MaxPort - 1
  BY DEF MaxPort
<1> QED BY <1>1, <1>2

\* main's variables, too, keep their types; after an exception of the parser
\* nothing follows (server_main.cc 29-77).
THEOREM StartupTypeCorrect == Spec => []TypeOK
<1> DEFINE MainTypeOK ==
             /\ stage \in Stages /\ pool \in {"default", "number"} /\ port \in 0..MaxPort - 1
             /\ opened \in BOOLEAN /\ table \in BOOLEAN
             /\ outcome = "exception" => stage = "exited"
<1>1. Init => MainTypeOK
  <2> SUFFICES ASSUME Init PROVE MainTypeOK
    OBVIOUS
  <2>1. port \in 0..MaxPort - 1
    BY DEF Init, MaxPort
  <2>2. stage \in Stages /\ pool \in {"default", "number"} /\ outcome # "exception"
    BY DEF Init, ParserInit, Stages
  <2>3. opened \in BOOLEAN /\ table \in BOOLEAN
    BY DEF Init
  <2> QED BY <2>1, <2>2, <2>3
<1>2. ParserInv /\ ParserInv' /\ MainTypeOK /\ [Next]_<<parserVars, mainVars>> => MainTypeOK'
  <2> SUFFICES ASSUME ParserInv', MainTypeOK, [Next]_<<parserVars, mainVars>>
      PROVE  MainTypeOK'
    OBVIOUS
  <2>1. CASE Parse
    <3>1. outcome' \in {"parsing", "true", "exception"}
      BY DEF ParserInv, ParserTypeOK
    <3>2. stage' \in {"parse", "port", "exited"} /\ (outcome' = "exception" => stage' = "exited")
      BY <2>1, <3>1 DEF Parse
    <3> QED BY <2>1, <3>2 DEF Parse, Stages
  <2>2. CASE ReadPort
    <3>1. CASE Exit
      BY <2>2, <3>1 DEF ReadPort, Exit, Stages, parserVars
    <3>2. CASE ~Exit
      <4> DEFINE value == Find(0, "port")
      <4>1. /\ value \in DOMAIN NumberOf \cup {Undefined}
            /\ port' \in IF value = Undefined THEN {0, MaxPort - 1}
                         ELSE {NumberOf[value] % MaxPort}
            /\ stage = "port" /\ stage' = "pool" /\ UNCHANGED <<pool, opened, table, outcome>>
        BY <2>2, <3>2 DEF ReadPort, parserVars, At
      <4> HIDE DEF value
      <4>2. port' \in 0..MaxPort - 1
        <5>1. MaxPort - 1 \in 0..MaxPort - 1 /\ 0 \in 0..MaxPort - 1
          BY PortRange, Zenon
        <5>2. \A n \in Int : n % MaxPort \in 0..MaxPort - 1
          BY PortRange, Zenon
        <5>3. CASE value = Undefined
          BY <4>1, <5>1, <5>3
        <5>4. CASE value # Undefined
          <6>1. port' = NumberOf[value] % MaxPort /\ NumberOf[value] \in Int
            BY <4>1, <5>4, NumberAssumption
          <6> QED BY <5>2, <6>1, Zenon
        <5> QED BY <5>3, <5>4
      <4> QED BY <4>1, <4>2 DEF Stages
    <3> QED BY <3>1, <3>2
  <2>3. CASE CheckArguments \/ OpenFile \/ ReadPool \/ InitDatabase \/ Bind
    BY <2>3 DEF CheckArguments, OpenFile, ReadPool, InitDatabase, Bind, Exit, At, Stages,
       parserVars
  <2>4. CASE UNCHANGED <<parserVars, mainVars>>
    BY <2>4 DEF parserVars, mainVars
  <2> QED BY <2>1, <2>2, <2>3, <2>4 DEF Next, Over
<1>3. ParserInv /\ MainTypeOK => TypeOK
  BY DEF ParserInv, TypeOK
<1> QED
  BY <1>1, <1>2, <1>3, ParserCorrect, PTL DEF Spec
\* The port that main goes on with is the number of the last port statement
\* outside all blocks, or that statement has no number.
LastPort ==
  LET ports == {i \in DOMAIN statements : statements[i].parent = 0 /\ Key(i) = "port"} IN
  /\ ports # {}
  /\ LET tokens == statements[Max(ports)].tokens IN
     \/ Len(tokens) = 1
     \/ tokens[2] \in DOMAIN NumberOf /\ port = NumberOf[tokens[2]] % MaxPort

\* What main knows: before the file is open there are no statements, and so
\* there are none if it cannot be opened.
MainKnows ==
  /\ stage \in {"arguments", "open"} => statements = <<>> /\ outcome = "parsing"
  /\ stage = "parse" => opened
  /\ stage = "port" => (opened /\ outcome = "true") \/ statements = <<>>
  /\ stage \in {"pool", "database", "bind", "running"} =>
       opened /\ outcome = "true" /\ LastPort

\* What Find returns for the port is the value of the last port statement, and
\* nothing that stoi reads if there is none.
LEMMA PortFound ==
  ASSUME ParserInv, MainKnows, ReadPort, ~Exit
  PROVE  opened /\ outcome = "true" /\ LastPort'
<1> DEFINE value == Find(0, "port")
           ports == {i \in DOMAIN statements : statements[i].parent = 0 /\ Key(i) = "port"}
<1>1. /\ value \in DOMAIN NumberOf \cup {Undefined}
      /\ port' \in IF value = Undefined THEN {0, MaxPort - 1}
                   ELSE {NumberOf[value] % MaxPort}
      /\ stage = "port" /\ UNCHANGED <<statements, outcome>>
  BY DEF ReadPort, parserVars, At
<1>2. Len(statements) \in Nat /\ DOMAIN statements = 1..Len(statements)
  BY DEF ParserInv
<1>3. ports = Hits(0, "port", Len(statements))
  BY <1>2 DEF Hits
<1>4. value = IF ports = {} THEN "" ELSE Value(Max(ports))
  BY <1>2, <1>3, FindsLast, Zenon DEF LastHit
<1> HIDE DEF value
<1>5. "" \notin DOMAIN NumberOf /\ "" # Undefined
  BY WordsAssumption, NumberAssumption DEF Undefined
<1>6. ports # {}
  <2> HIDE DEF ports
  <2> QED BY <1>1, <1>4, <1>5
<1>7. opened /\ outcome = "true"
  BY <1>1, <1>2, <1>6 DEF MainKnows
<1> DEFINE last == Max(ports)
           tokens == statements[last].tokens
<1>8. last \in DOMAIN statements
  <2>1. ports \subseteq 0..Len(statements)
    BY <1>2
  <2>2. last \in ports
    <3> HIDE DEF ports
    <3> QED BY <1>2, <1>6, <2>1, MaxProperty
  <2> QED BY <2>2
<1> HIDE DEF last
<1>9. /\ tokens \in Seq(Words \cup Quoted) /\ Len(tokens) \in Nat /\ Len(tokens) >= 1
      /\ tokens = statements[last].tokens
  <2>1. tokens \in Seq(Words \cup Quoted) /\ Len(tokens) \in 1..MaxTokens
    BY <1>8 DEF ParserInv, ParserTypeOK
  <2>2. MaxTokens \in Nat
    BY WordsAssumption
  <2> HIDE DEF tokens
  <2> QED BY <2>1, <2>2 DEF tokens
<1>10. value = IF Len(tokens) = 1 THEN Undefined ELSE tokens[2]
  BY <1>4, <1>6, Zenon DEF Value, last
<1> HIDE DEF tokens
<1>11. \/ Len(tokens) = 1
       \/ tokens[2] \in DOMAIN NumberOf /\ port' = NumberOf[tokens[2]] % MaxPort
  <2> SUFFICES ASSUME Len(tokens) # 1
      PROVE  tokens[2] \in DOMAIN NumberOf /\ port' = NumberOf[tokens[2]] % MaxPort
    OBVIOUS
  <2>1. tokens[2] \in Words \cup Quoted /\ value = tokens[2]
    <3>1. 2 \in 1..Len(tokens)
      <4>1. \A n \in Nat : n >= 1 /\ n # 1 => 2 \in 1..n
        OBVIOUS
      <4> QED BY <1>9, <4>1, Zenon
    <3>2. tokens[2] \in Words \cup Quoted
      BY <1>9, <3>1
    <3> QED BY <1>10, <3>2
  <2>2. value # Undefined
    BY <2>1, NumberAssumption, Zenon
  <2>3. value \in DOMAIN NumberOf /\ port' = NumberOf[value] % MaxPort
    BY <1>1, <2>2
  <2> QED BY <2>1, <2>3, Zenon
<1>12. LastPort'
  <2>1. \A i : Key(i)' = Key(i)
    BY <1>1 DEF Key
  <2>2. ports' = ports
    BY <1>1, <2>1
  <2>3. ports' # {} /\ statements'[Max(ports')].tokens = tokens
    BY <1>1, <1>6, <2>2, Zenon DEF tokens, last
  <2> HIDE DEF ports
  <2> QED BY <1>11, <2>3, Zenon DEF LastPort, ports
<1> QED BY <1>7, <1>12

\* A step that changes neither the statements nor the port keeps what is said
\* of both.
LEMMA LastPortKept ==
  ASSUME LastPort, UNCHANGED <<statements, port>> PROVE LastPort'
BY Zenon DEF LastPort, Key

\* A server that runs has read its whole file and listens on the last port of
\* it, though main looks neither at what Parse returned nor at what Find found
\* (server_main.cc 44-63).
THEOREM RunsWithLastPort == Spec => []RunsOnlyWithPort
<1>1. Init => MainKnows
  BY DEF Init, ParserInit, MainKnows
<1>2. ParserInv /\ ParserInv' /\ MainKnows /\ [Next]_<<parserVars, mainVars>> => MainKnows'
  <2> SUFFICES ASSUME ParserInv, ParserInv', MainKnows, [Next]_<<parserVars, mainVars>>
      PROVE  MainKnows'
    OBVIOUS
  <2>1. CASE CheckArguments
    BY <2>1 DEF CheckArguments, Exit, At, MainKnows, parserVars
  <2>2. CASE OpenFile
    BY <2>2 DEF OpenFile, At, MainKnows, parserVars
  <2>3. CASE Parse
    <3>1. outcome' \in {"parsing", "true", "exception"}
      BY DEF ParserInv, ParserTypeOK
    <3>2. stage' \in {"parse", "exited"} \/ (stage' = "port" /\ outcome' = "true")
      <4>1. outcome' = "parsing" => stage' = "parse"
        BY <2>3 DEF Parse
      <4>2. outcome' = "exception" => stage' = "exited"
        BY <2>3 DEF Parse
      <4>3. outcome' = "true" => stage' = "port"
        BY <2>3 DEF Parse
      <4> QED BY <3>1, <4>1, <4>2, <4>3
    <3>3. opened'
      BY <2>3 DEF Parse, At, MainKnows
    <3> QED BY <3>2, <3>3 DEF MainKnows
  <2>4. CASE ReadPort
    <3>1. CASE Exit
      BY <3>1 DEF Exit, MainKnows
    <3>2. CASE ~Exit
      <4>1. opened /\ outcome = "true" /\ LastPort'
        BY <2>4, <3>2, PortFound
      <4>2. stage' = "pool" /\ UNCHANGED <<opened, outcome>>
        BY <2>4, <3>2 DEF ReadPort, parserVars
      <4> QED BY <4>1, <4>2 DEF MainKnows
    <3> QED BY <3>1, <3>2
  <2>5. CASE ReadPool \/ InitDatabase \/ Bind
    <3>1. CASE Exit
      BY <3>1 DEF Exit, MainKnows
    <3>2. CASE ~Exit
      <4>1. /\ stage \in {"pool", "database", "bind"}
            /\ stage' \in {"database", "bind", "running"}
            /\ UNCHANGED <<statements, port, opened, outcome>>
        BY <2>5, <3>2 DEF ReadPool, InitDatabase, Bind, At, parserVars
      <4>2. opened /\ outcome = "true" /\ LastPort
        BY <4>1 DEF MainKnows
      <4>3. LastPort'
        BY <4>1, <4>2, LastPortKept
      <4> QED BY <4>1, <4>2, <4>3 DEF MainKnows
    <3> QED BY <3>1, <3>2
  <2>6. CASE UNCHANGED <<parserVars, mainVars>>
    <3>1. UNCHANGED <<statements, port, opened, outcome, stage>>
      BY <2>6 DEF parserVars, mainVars
    <3>2. LastPort => LastPort'
      BY <3>1, LastPortKept
    <3> QED BY <3>1, <3>2 DEF MainKnows
  <2> QED BY <2>1, <2>2, <2>3, <2>4, <2>5, <2>6 DEF Next, Over
<1>3. MainKnows => RunsOnlyWithPort
  BY Zenon DEF MainKnows, LastPort, RunsOnlyWithPort
<1> QED
  BY <1>1, <1>2, <1>3, ParserCorrect, PTL DEF Spec

(***************************************************************************)
(* The text of a tree.  A loop over the statements of a block makes one    *)
(* row of a table; ConfigText is the last entry of the row of the file.    *)
(***************************************************************************)
-----------------------------------------------------------------------------
Tokens == Words \cup Quoted \cup {"{", "}", ";"}

\* The trees the parser builds: every statement is in a block that was begun
\* before it.
Trees == {s \in Seq(Statement) : \A i \in 1..Len(s) : s[i].parent \in 0..i - 1}

\* Row b of a text is what is printed of block b, statement by statement.
Printed(s, U, i) ==
  s[i].tokens \o
    IF s[i].block THEN <<"{">> \o (U[i][Len(s)] \o <<"}">>) ELSE <<";">>

RowIsText(s, U, b) ==
  /\ U[b][0] = <<>>
  /\ \A i \in 1..Len(s) :
       U[b][i] = IF s[i].parent = b THEN U[b][i - 1] \o Printed(s, U, i) ELSE U[b][i - 1]

Tables(s) == [0..Len(s) -> [0..Len(s) -> Seq(Tokens)]]

IsText(s, U) == U \in Tables(s) /\ \A b \in 0..Len(s) : RowIsText(s, U, b)

TextOf(s) == CHOOSE U : IsText(s, U)

\* What is printed of a statement are tokens.
LEMMA PrintedType ==
  ASSUME NEW s \in Trees, NEW U \in Tables(s), NEW i \in 1..Len(s)
  PROVE  Printed(s, U, i) \in Seq(Tokens)
<1>1. Len(s) \in Nat /\ s[i] \in Statement
  BY DEF Trees
<1>2. s[i].tokens \in Seq(Tokens)
  <2>1. s[i].tokens \in Seq(Words \cup Quoted)
    BY <1>1 DEF Statement
  <2>2. Words \cup Quoted \subseteq Tokens
    BY DEF Tokens
  <2> QED BY <2>1, <2>2, SeqLarger
<1>3. U[i][Len(s)] \in Seq(Tokens)
  BY <1>1 DEF Tables
<1>4. <<"{">> \in Seq(Tokens) /\ <<"}">> \in Seq(Tokens) /\ <<";">> \in Seq(Tokens)
  BY DEF Tokens
<1>5. <<"{">> \o (U[i][Len(s)] \o <<"}">>) \in Seq(Tokens)
  BY <1>3, <1>4, ConcatProperties
<1> DEFINE tail == IF s[i].block THEN <<"{">> \o (U[i][Len(s)] \o <<"}">>) ELSE <<";">>
<1>6. tail \in Seq(Tokens)
  BY <1>4, <1>5
<1> HIDE DEF tail
<1>7. s[i].tokens \o tail \in Seq(Tokens)
  BY <1>2, <1>6, ConcatProperties
<1> QED BY <1>7 DEF Printed, tail

\* Every tree has a text: the rows are made from the last block to the first.
LEMMA TextExists ==
  ASSUME NEW s \in Trees
  PROVE  IsText(s, TextOf(s))
<1> DEFINE n == Len(s)
           From(k, U) == \A b \in 0..n : b >= k => RowIsText(s, U, b)
           good == {k \in 0..n + 1 : \E U \in Tables(s) : From(k, U)}
<1>1. n \in Nat
  BY DEF Trees
<1>2. n + 1 \in good
  <2> DEFINE U == [b \in 0..n |-> [i \in 0..n |-> <<>>]]
  <2>1. <<>> \in Seq(Tokens)
    OBVIOUS
  <2>2. U \in Tables(s)
    BY <2>1 DEF Tables
  <2>3. From(n + 1, U)
    <3> HIDE DEF U
    <3> QED BY <1>1
  <2> QED BY <1>1, <2>2, <2>3
<1>3. ASSUME NEW k \in 0..n, k + 1 \in good PROVE k \in good
  <2>1. PICK U \in Tables(s) : From(k + 1, U)
    BY <1>3
  <2> DEFINE S == Seq(Tokens)
             step == [i \in 1..n |-> [t \in S |->
                        IF s[i].parent = k THEN t \o Printed(s, U, i) ELSE t]]
  <2>2. step \in [1..n -> [S -> S]]
    <3>1. \A i \in 1..n : Printed(s, U, i) \in S
      BY PrintedType
    <3>2. \A i \in 1..n, t \in S : t \o Printed(s, U, i) \in S
      BY <3>1, ConcatProperties
    <3> HIDE DEF S, n
    <3> QED BY <3>2
  <2>3. <<>> \in S
    OBVIOUS
  <2>4. PICK h \in [0..n -> S] : h[0] = <<>> /\ \A i \in 1..n : h[i] = step[i][h[i - 1]]
    <3> DEFINE none == <<>>
    <3>1. none \in S
      BY <2>3
    <3> HIDE DEF S, step, n, none
    <3>2. HasResults(S, n, none, step)
      BY <1>1, <2>2, <3>1, LoopHasResults, Zenon
    <3> QED BY <3>2 DEF none, HasResults
  <2>5. \A i \in 1..n :
          h[i] = IF s[i].parent = k THEN h[i - 1] \o Printed(s, U, i) ELSE h[i - 1]
    <3> SUFFICES ASSUME NEW i \in 1..n
        PROVE h[i] = IF s[i].parent = k THEN h[i - 1] \o Printed(s, U, i) ELSE h[i - 1]
      OBVIOUS
    <3>1. i - 1 \in 0..n
      BY <1>1
    <3>2. h[i - 1] \in S
      BY <3>1
    <3> HIDE DEF S
    <3> QED BY <2>4, <3>2
  <2> DEFINE V == [b \in 0..n |-> IF b = k THEN h ELSE U[b]]
  <2>6. V \in Tables(s)
    BY DEF Tables
  <2>7. ASSUME NEW i \in 1..n, s[i].parent >= k PROVE Printed(s, V, i) = Printed(s, U, i)
    <3>1. s[i].parent \in 0..i - 1
      BY DEF Trees
    <3>2. i # k /\ i \in 0..n
      BY <1>1, <2>7, <3>1
    <3>3. V[i] = U[i]
      BY <3>2
    <3> HIDE DEF V
    <3> QED BY <3>3 DEF Printed
  <2>8. ASSUME NEW b \in 0..n, b >= k PROVE RowIsText(s, V, b)
    <3>1. CASE b = k
      <4>1. V[b] = h
        BY <3>1
      <4>2. \A i \in 1..n : s[i].parent = b => Printed(s, V, i) = Printed(s, U, i)
        BY <2>7, <2>8, <3>1
      <4> HIDE DEF V
      <4> QED BY <2>4, <2>5, <3>1, <4>1, <4>2 DEF RowIsText
    <3>2. CASE b # k
      <4>1. V[b] = U[b]
        BY <3>2
      <4>2. b >= k + 1
        BY <1>1, <2>8, <3>2
      <4>3. RowIsText(s, U, b)
        BY <2>1, <4>2
      <4>4. \A i \in 1..n : s[i].parent = b => Printed(s, V, i) = Printed(s, U, i)
        BY <2>7, <2>8
      <4> HIDE DEF V
      <4> QED BY <4>1, <4>3, <4>4 DEF RowIsText
    <3> QED BY <3>1, <3>2
  <2> QED BY <1>1, <2>6, <2>8
<1>4. 0 \in good
  <2>1. PICK k \in good : \A j \in good : k <= j
    <3>1. good \subseteq Nat
      BY <1>1
    <3> HIDE DEF good
    <3> QED BY <1>2, <3>1, Least
  <2>2. k \in 0..n + 1
    BY <2>1
  <2>3. CASE k # 0
    <3>1. k - 1 \in 0..n /\ k - 1 + 1 = k /\ ~(k <= k - 1)
      BY <1>1, <2>2, <2>3
    <3>2. k - 1 \in good
      <4> HIDE DEF good
      <4> QED BY <1>3, <2>1, <3>1
    <3> HIDE DEF good
    <3> QED BY <2>1, <3>1, <3>2
  <2> QED BY <2>1, <2>3
<1>5. PICK U \in Tables(s) : From(0, U)
  BY <1>4
<1>6. IsText(s, U)
  BY <1>1, <1>5 DEF IsText
<1> QED BY <1>6 DEF TextOf
-----------------------------------------------------------------------------
\* What the code makes of one block, given the texts of the blocks in it.
PrintedWith(s, f, i) ==
  s[i].tokens \o IF s[i].block THEN <<"{">> \o (f[i] \o <<"}">>) ELSE <<";">>

Rounds(s, f, b, u) ==
  [i \in 0..Len(s) |->
     IF i = 0 THEN <<>>
     ELSE IF s[i].parent = b THEN u[i - 1] \o PrintedWith(s, f, i) ELSE u[i - 1]]

BlockText(s, f, b) == (CHOOSE u : u = Rounds(s, f, b, u))[Len(s)]

\* It is the row of the text if those were.
LEMMA BlockTextIsRow ==
  ASSUME NEW s \in Trees, NEW U, IsText(s, U), NEW b \in 0..Len(s), NEW f,
         \A i \in 1..Len(s) : s[i].parent = b => f[i] = U[i][Len(s)]
  PROVE  BlockText(s, f, b) = U[b][Len(s)]
<1> DEFINE n == Len(s)
           u == CHOOSE v : v = Rounds(s, f, b, v)
           row == U[b]
<1>1. n \in Nat /\ row \in [0..n -> Seq(Tokens)]
  BY DEF Trees, IsText, Tables
<1>2. row = Rounds(s, f, b, row)
  <2>1. ASSUME NEW i \in 0..n
        PROVE  row[i] = IF i = 0 THEN <<>>
                        ELSE IF s[i].parent = b THEN row[i - 1] \o PrintedWith(s, f, i)
                        ELSE row[i - 1]
    <3>1. CASE i = 0
      BY <3>1 DEF IsText, RowIsText
    <3>2. CASE i # 0
      <4>1. i \in 1..n
        BY <1>1, <3>2
      <4>2. s[i].parent = b => Printed(s, U, i) = PrintedWith(s, f, i)
        BY <4>1 DEF Printed, PrintedWith
      <4>3. row[i] = IF s[i].parent = b THEN row[i - 1] \o Printed(s, U, i) ELSE row[i - 1]
        BY <4>1 DEF IsText, RowIsText
      <4> HIDE DEF row
      <4> QED BY <3>2, <4>2, <4>3
    <3> QED BY <3>1, <3>2
  <2> HIDE DEF row, n
  <2>2. row = [i \in 0..n |-> row[i]]
    BY <1>1
  <2> QED BY <2>1, <2>2, Zenon DEF Rounds, n
<1>3. u = Rounds(s, f, b, u)
  <2> HIDE DEF row
  <2> QED BY <1>2
<1> DEFINE differ == {i \in 0..n : u[i] # row[i]}
<1>4. n \in differ \/ u[n] = row[n]
  BY <1>1
<1>5. ASSUME differ # {} PROVE FALSE
  <2>1. PICK i \in differ : \A j \in differ : i <= j
    <3>1. differ \subseteq Nat
      <4> HIDE DEF u, row, n
      <4> QED BY <1>1
    <3> HIDE DEF differ
    <3> QED BY <1>5, <3>1, Least, Zenon
  <2> HIDE DEF u, row
  <2>2. i \in 0..n /\ u[i] # row[i] /\ i \in Nat
    BY <1>1, <2>1
  <2>3. /\ u[i] = Rounds(s, f, b, u)[i] /\ row[i] = Rounds(s, f, b, row)[i]
    BY <1>2, <1>3, Zenon
  <2>4. i # 0
    BY <2>2, <2>3 DEF Rounds
  <2>5. i - 1 \in 0..n /\ ~(i <= i - 1)
    BY <1>1, <2>2, <2>4
  <2>6. u[i - 1] = row[i - 1]
    BY <2>1, <2>5
  <2> QED BY <2>2, <2>3, <2>4, <2>6 DEF Rounds
<1>6. u[n] = row[n]
  <2> HIDE DEF u, row, n, differ
  <2> QED BY <1>4, <1>5
<1> QED BY <1>6, Zenon DEF BlockText

\* ConfigText is the row of the file itself (config_parser.cc 108-131).
LEMMA ConfigTextIsRow ==
  ASSUME statements \in Trees, NEW U, IsText(statements, U)
  PROVE  ConfigText = U[0][Len(statements)]
<1> DEFINE s == statements
           n == Len(s)
           Step(f) == [b \in 0..n |-> BlockText(s, f, b)]
           text == CHOOSE f : f = Step(f)
           last == [b \in 0..n |-> U[b][n]]
<1>1. n \in Nat
  BY DEF Trees
<1>2. ConfigText = text[0]
  BY Zenon DEF ConfigText, Blocks, BlockText, Rounds, PrintedWith
<1>3. last = Step(last)
  <2>1. ASSUME NEW b \in 0..n PROVE BlockText(s, last, b) = U[b][n]
    <3>1. \A i \in 1..n : last[i] = U[i][n]
      BY <1>1
    <3> HIDE DEF last
    <3> QED BY <3>1, BlockTextIsRow
  <2> QED BY <2>1
<1>4. text = Step(text)
  <2> HIDE DEF last, Step
  <2> QED BY <1>3
<1> DEFINE differ == {k \in 0..n : text[n - k] # last[n - k]}
<1>5. ASSUME differ # {} PROVE FALSE
  <2>1. PICK k \in differ : \A j \in differ : k <= j
    <3>1. differ \subseteq Nat
      <4> HIDE DEF text, last, n
      <4> QED BY <1>1
    <3> HIDE DEF differ
    <3> QED BY <1>5, <3>1, Least, Zenon
  <2> HIDE DEF text, last
  <2> DEFINE b == n - k
  <2>2. k \in 0..n /\ b \in 0..n /\ text[b] # last[b]
    BY <1>1, <2>1
  <2>3. ASSUME NEW i \in 1..n, s[i].parent = b PROVE text[i] = U[i][n]
    <3>1. b < i
      BY <2>3 DEF Trees
    <3>2. n - i \in 0..n /\ ~(k <= n - i) /\ n - (n - i) = i
      BY <1>1, <2>2, <3>1
    <3>3. text[n - (n - i)] = last[n - (n - i)]
      BY <2>1, <3>2
    <3> QED BY <1>1, <3>2, <3>3 DEF last
  <2>4. BlockText(s, text, b) = U[b][n]
    <3> HIDE DEF b, s, n
    <3> QED BY <2>2, <2>3, BlockTextIsRow, Zenon DEF s, n
  <2>5. text[b] = BlockText(s, text, b)
    <3> HIDE DEF b
    <3> QED BY <1>4, <2>2
  <2> QED BY <2>2, <2>4, <2>5 DEF last
<1>6. text[0] = last[0]
  <2>1. n \in differ \/ text[n - n] = last[n - n]
    <3> HIDE DEF text, last
    <3> QED BY <1>1
  <2>2. n - n = 0
    BY <1>1
  <2> HIDE DEF text, last, differ
  <2> QED BY <1>5, <2>1, <2>2
<1> HIDE DEF text
<1> QED BY <1>1, <1>2, <1>6
-----------------------------------------------------------------------------
\* Statements of other blocks leave a row as it is.
LEMMA RowSkips ==
  ASSUME NEW s \in Trees, NEW U, IsText(s, U), NEW b \in 0..Len(s),
         NEW m \in 0..Len(s), NEW n \in m..Len(s),
         \A i \in m + 1..n : s[i].parent # b
  PROVE  U[b][n] = U[b][m]
<1> DEFINE L == Len(s)
           differ == {i \in m..n : U[b][i] # U[b][m]}
<1>1. L \in Nat /\ m \in Nat /\ n \in Nat /\ n <= L /\ m <= n
  BY DEF Trees
<1> HIDE DEF L
<1>2. ASSUME differ # {} PROVE FALSE
  <2>1. PICK i \in differ : \A j \in differ : i <= j
    <3>1. differ \subseteq Nat
      BY <1>1
    <3> HIDE DEF differ
    <3> QED BY <1>2, <3>1, Least, Zenon
  <2>2. i \in m..n /\ U[b][i] # U[b][m]
    BY <2>1
  <2>3. i \in m + 1..n /\ i \in 1..L /\ i - 1 \in m..n /\ ~(i <= i - 1)
    BY <1>1, <2>2
  <2>4. U[b][i - 1] = U[b][m]
    BY <2>1, <2>3
  <2>5. U[b][i] = U[b][i - 1]
    BY <2>3 DEF IsText, RowIsText, L
  <2> QED BY <2>2, <2>4, <2>5
<1>3. n \in m..n
  BY <1>1
<1> QED BY <1>2, <1>3

\* Nothing but the statements in O has changed from s to t, and what is new is
\* in one of them.
OnlyIn(O, s, t) ==
  /\ Len(s) <= Len(t)
  /\ 0 \in O
  /\ \A i \in 1..Len(s) :
       /\ t[i].parent = s[i].parent
       /\ i \in O => s[i].parent \in O
       /\ i \notin O => t[i] = s[i]
  /\ \A i \in Len(s) + 1..Len(t) : t[i].parent \in O

\* Then the text of what is not in O is the same.
LEMMA RowKept ==
  ASSUME NEW s \in Trees, NEW t \in Trees, NEW U, IsText(s, U), NEW V, IsText(t, V),
         NEW O, OnlyIn(O, s, t),
         NEW b \in 0..Len(s), NEW n \in 0..Len(s),
         \A i \in 1..n : s[i].parent = b => i \notin O
  PROVE  V[b][n] = U[b][n]
<1> DEFINE L == Len(s)
           M == Len(t)
           Closed(c, m) == \A i \in 1..m : s[i].parent = c => i \notin O
           Same(c) == \A m \in 0..L : Closed(c, m) => V[c][m] = U[c][m]
           bad == {k \in 0..L : ~ Same(L - k)}
<1>1. L \in Nat /\ M \in Nat /\ L <= M
  BY DEF Trees, OnlyIn
<1>2. \A i \in 1..L : s[i].parent \in 0..i - 1 /\ t[i].parent = s[i].parent
  BY DEF Trees, OnlyIn
<1>3. ASSUME bad # {} PROVE FALSE
  <2>1. PICK k \in bad : \A j \in bad : k <= j
    <3>1. bad \subseteq Nat
      <4> HIDE DEF L, Same
      <4> QED BY <1>1
    <3> HIDE DEF bad
    <3> QED BY <1>3, <3>1, Least, Zenon
  <2> DEFINE c == L - k
  <2>2. k \in 0..L /\ c \in 0..L /\ ~ Same(c)
    <3> HIDE DEF Same, L
    <3> QED BY <1>1, <2>1
  <2>3. ASSUME NEW i \in 1..L, i > c PROVE Same(i)
    <3> HIDE DEF Same, L
    <3>1. L - i \in 0..L /\ ~(k <= L - i) /\ L - (L - i) = i
      BY <1>1, <2>2, <2>3
    <3> QED BY <2>1, <3>1
  <2> DEFINE worse == {m \in 0..L : Closed(c, m) /\ V[c][m] # U[c][m]}
  <2>4. worse # {}
    <3> HIDE DEF L, c, Closed
    <3> QED BY <2>2
  <2>5. PICK m \in worse : \A j \in worse : m <= j
    <3>1. worse \subseteq Nat
      <4> HIDE DEF L, c, Closed
      <4> QED BY <1>1
    <3> HIDE DEF worse
    <3> QED BY <2>4, <3>1, Least, Zenon
  <2>6. m \in 0..L /\ Closed(c, m) /\ V[c][m] # U[c][m]
    BY <2>5
  <2>7. U[c][0] = <<>> /\ V[c][0] = <<>>
    <3>1. c \in 0..M
      <4> HIDE DEF c, L, M
      <4> QED BY <1>1, <2>2
    <3> QED BY <2>2, <3>1 DEF IsText, RowIsText
  <2>8. m \in 1..L /\ m \in 1..M /\ m - 1 \in 0..L /\ ~(m <= m - 1)
    <3> HIDE DEF L, c, M, Closed
    <3> QED BY <1>1, <2>6, <2>7
  <2>9. V[c][m - 1] = U[c][m - 1]
    <3>1. Closed(c, m - 1)
      <4> HIDE DEF L, c
      <4> QED BY <1>1, <2>6
    <3> HIDE DEF Closed, L, c
    <3> QED BY <2>5, <2>8, <3>1
  <2>10. /\ U[c][m] = IF s[m].parent = c THEN U[c][m - 1] \o Printed(s, U, m) ELSE U[c][m - 1]
         /\ V[c][m] = IF t[m].parent = c THEN V[c][m - 1] \o Printed(t, V, m) ELSE V[c][m - 1]
    <3>1. c \in 0..M
      <4> HIDE DEF c, L, M
      <4> QED BY <1>1, <2>2
    <3>2. RowIsText(s, U, c) /\ RowIsText(t, V, c)
      <4> HIDE DEF c
      <4> QED BY <2>2, <3>1 DEF IsText
    <3> HIDE DEF c
    <3> QED BY <2>8, <3>2 DEF RowIsText
  <2>11. s[m].parent = c /\ t[m].parent = c
    <3> HIDE DEF c, L, M
    <3> QED BY <1>2, <2>6, <2>8, <2>9, <2>10
  <2>12. m \notin O /\ t[m] = s[m] /\ m > c
    <3>1. m \notin O
      <4> HIDE DEF c, L
      <4> QED BY <1>1, <2>6, <2>8, <2>11
    <3>2. t[m] = s[m]
      BY <2>8, <3>1 DEF OnlyIn
    <3>3. m > c
      <4> HIDE DEF c, L
      <4> QED BY <1>1, <1>2, <2>2, <2>8, <2>11
    <3> QED BY <3>1, <3>2, <3>3
  <2>13. V[m][L] = U[m][L]
    <3>1. Same(m)
      <4> HIDE DEF c, L, Same
      <4> QED BY <2>3, <2>8, <2>12
    <3>2. Closed(m, L)
      BY <2>12 DEF OnlyIn
    <3>3. L \in 0..L
      <4> HIDE DEF L
      <4> QED BY <1>1
    <3> HIDE DEF L, Closed
    <3> QED BY <3>1, <3>2, <3>3
  <2>14. V[m][M] = V[m][L]
    <3>1. \A i \in L + 1..M : t[i].parent # m
      BY <2>12 DEF OnlyIn
    <3>2. m \in 0..M /\ L \in 0..M /\ M \in L..M
      <4> HIDE DEF L, M
      <4> QED BY <1>1, <2>8
    <3> HIDE DEF L
    <3> QED BY <3>1, <3>2, RowSkips
  <2>15. Printed(t, V, m) = Printed(s, U, m)
    BY <2>12, <2>13, <2>14 DEF Printed
  <2> HIDE DEF c
  <2> QED BY <2>6, <2>9, <2>10, <2>11, <2>15
<1>4. Same(b)
  <2>1. L - b \in 0..L /\ L - (L - b) = b
    <3>1. b \in 0..L
      OBVIOUS
    <3> HIDE DEF L
    <3> QED BY <1>1, <3>1
  <2>2. L - b \in bad \/ Same(L - (L - b))
    <3> HIDE DEF Same, L
    <3> QED BY <2>1
  <2> HIDE DEF Same, bad
  <2> QED BY <1>3, <2>1, <2>2
<1> QED BY <1>4
-----------------------------------------------------------------------------
\* Of the d blocks on the stack each is in the one below it,
Nested(s, n, stack, d) ==
  \A k \in 2..d :
    stack[k] \in 1..n /\ s[stack[k]].parent = stack[k - 1] /\ s[stack[k]].block

Ascending(stack, d) == \A j \in 1..d : \A k \in 1..d : j < k => stack[j] < stack[k]

\* as its last statement so far;
LastSoFar(s, n, stack, d) ==
  \A k \in 1..d - 1 : \A i \in 1..n : s[i].parent = stack[k] => i <= stack[k + 1]

\* and only the block that was begun last may be empty.
Filled(s, n, open) ==
  \A i \in 1..n : s[i].block => i = open \/ \E j \in 1..n : s[j].parent = i

Stacked(s, n, stack, d, open) ==
  /\ stack[1] = 0 /\ Nested(s, n, stack, d)
  /\ Ascending(stack, d) /\ LastSoFar(s, n, stack, d)
  /\ Filled(s, n, open)

\* A first word puts a statement into the innermost block.
LEMMA FirstWordStacked ==
  ASSUME NEW n \in Nat, NEW d \in Nat \ {0}, NEW s, NEW t, NEW stack,
         NEW open \in {0, stack[d]},
         \A k \in 1..d : stack[k] \in 0..n, Stacked(s, n, stack, d, open),
         \A i \in 1..n : t[i] = s[i], t[n + 1].parent = stack[d], ~t[n + 1].block
  PROVE  Stacked(t, n + 1, stack, d, 0)
<1>1. /\ stack[1] = 0 /\ Nested(s, n, stack, d)
      /\ Ascending(stack, d) /\ LastSoFar(s, n, stack, d)
      /\ Filled(s, n, open)
  BY Zenon DEF Stacked
<1>2. Nested(t, n + 1, stack, d)
  BY <1>1 DEF Nested
<1>3. LastSoFar(t, n + 1, stack, d)
  <2> SUFFICES ASSUME NEW k \in 1..d - 1, NEW i \in 1..n + 1, t[i].parent = stack[k]
      PROVE  i <= stack[k + 1]
    BY DEF LastSoFar
  <2>1. CASE i = n + 1
    <3>1. k \in 1..d /\ d \in 1..d /\ k < d
      OBVIOUS
    <3>2. stack[k] < stack[d]
      BY <1>1, <3>1, Zenon DEF Ascending
    <3>3. stack[k] = stack[d] /\ stack[k] \in 0..n
      BY <2>1, <3>1
    <3> QED BY <3>2, <3>3
  <2>2. CASE i # n + 1
    <3>1. i \in 1..n
      BY <2>2
    <3>2. s[i].parent = stack[k]
      BY <3>1
    <3> QED BY <1>1, <3>1, <3>2 DEF LastSoFar
  <2> QED BY <2>1, <2>2
<1>4. Filled(t, n + 1, 0)
  <2> SUFFICES ASSUME NEW i \in 1..n + 1, t[i].block
      PROVE  \E j \in 1..n + 1 : t[j].parent = i
    BY DEF Filled
  <2>1. i \in 1..n
    OBVIOUS
  <2>2. s[i].block
    BY <2>1
  <2>3. CASE i = stack[d]
    BY <2>3
  <2>4. CASE i # stack[d]
    <3>1. i # 0 /\ i # open
      BY <2>1, <2>4
    <3>2. PICK j \in 1..n : s[j].parent = i
      BY <1>1, <2>1, <2>2, <3>1, Zenon DEF Filled
    <3> QED BY <3>2
  <2> QED BY <2>3, <2>4
<1> QED BY <1>1, <1>2, <1>3, <1>4 DEF Stacked

\* Another word changes neither a block nor what a statement is in, and the
\* end of a statement nothing at all.
LEMMA NextWordStacked ==
  ASSUME NEW n \in Nat \ {0}, NEW d \in Nat \ {0}, NEW s, NEW t, NEW stack,
         Stacked(s, n, stack, d, 0),
         \A i \in 1..n : t[i].parent = s[i].parent /\ (t[i].block <=> s[i].block)
  PROVE  Stacked(t, n, stack, d, 0)
<1>1. /\ stack[1] = 0 /\ Nested(s, n, stack, d)
      /\ Ascending(stack, d) /\ LastSoFar(s, n, stack, d)
      /\ Filled(s, n, 0)
  BY DEF Stacked
<1>2. Nested(t, n, stack, d)
  BY <1>1 DEF Nested
<1>3. LastSoFar(t, n, stack, d)
  BY <1>1 DEF LastSoFar
<1>4. Filled(t, n, 0)
  BY <1>1 DEF Filled
<1> QED BY <1>1, <1>2, <1>3, <1>4 DEF Stacked

\* The block of the last statement is put on the stack.
LEMMA StartBlockStacked ==
  ASSUME NEW n \in Nat \ {0}, NEW d \in Nat \ {0}, NEW s, NEW t, NEW stack, NEW longer,
         \A k \in 1..d : stack[k] \in 0..n, Stacked(s, n, stack, d, 0),
         s[n].parent = stack[d], ~s[n].block, t[n].block,
         \A i \in 1..n : t[i].parent = s[i].parent,
         \A i \in 1..n : i # n => (t[i].block <=> s[i].block),
         \A k \in 1..d : longer[k] = stack[k], longer[d + 1] = n
  PROVE  Stacked(t, n, longer, d + 1, n)
<1>0. /\ stack[1] = 0 /\ Nested(s, n, stack, d)
      /\ Ascending(stack, d) /\ LastSoFar(s, n, stack, d)
      /\ Filled(s, n, 0)
  BY DEF Stacked
<1>1. \A k \in 1..d : stack[k] # n
  <2> SUFFICES ASSUME NEW k \in 1..d, stack[k] = n PROVE FALSE
    OBVIOUS
  <2>2. CASE k = 1
    BY <1>0, <2>2
  <2>3. CASE k # 1
    <3>1. k \in 2..d
      BY <2>3
    <3> QED BY <1>0, <3>1 DEF Nested
  <2> QED BY <2>2, <2>3
<1>2. Nested(t, n, longer, d + 1)
  <2> SUFFICES ASSUME NEW k \in 2..d + 1
      PROVE longer[k] \in 1..n /\ t[longer[k]].parent = longer[k - 1] /\ t[longer[k]].block
    BY DEF Nested
  <2>1. CASE k = d + 1
    BY <2>1
  <2>2. CASE k # d + 1
    <3>1. k \in 2..d /\ k \in 1..d /\ k - 1 \in 1..d
      BY <2>2
    <3>2. longer[k] = stack[k] /\ longer[k - 1] = stack[k - 1] /\ stack[k] # n
      BY <1>1, <3>1
    <3>3. stack[k] \in 1..n /\ s[stack[k]].parent = stack[k - 1] /\ s[stack[k]].block
      BY <1>0, <3>1 DEF Nested
    <3> QED BY <3>2, <3>3
  <2> QED BY <2>1, <2>2
<1>3. Ascending(longer, d + 1)
  <2> SUFFICES ASSUME NEW j \in 1..d + 1, NEW k \in 1..d + 1, j < k
      PROVE  longer[j] < longer[k]
    BY DEF Ascending
  <2>1. j \in 1..d /\ longer[j] = stack[j]
    OBVIOUS
  <2>2. CASE k = d + 1
    BY <1>1, <2>1, <2>2
  <2>3. CASE k # d + 1
    <3>1. k \in 1..d /\ longer[k] = stack[k]
      BY <2>3
    <3>2. stack[j] < stack[k]
      BY <1>0, <2>1, <3>1 DEF Ascending
    <3> QED BY <2>1, <3>1, <3>2
  <2> QED BY <2>2, <2>3
<1>4. LastSoFar(t, n, longer, d + 1)
  <2> SUFFICES ASSUME NEW k \in 1..d, NEW i \in 1..n, t[i].parent = longer[k]
      PROVE  i <= longer[k + 1]
    BY DEF LastSoFar
  <2>1. s[i].parent = stack[k]
    OBVIOUS
  <2>2. CASE k = d
    BY <2>2
  <2>3. CASE k # d
    <3>1. k \in 1..d - 1 /\ k + 1 \in 1..d
      BY <2>3
    <3>2. longer[k + 1] = stack[k + 1]
      BY <3>1
    <3> QED BY <1>0, <2>1, <3>1, <3>2 DEF LastSoFar
  <2> QED BY <2>2, <2>3
<1>5. Filled(t, n, n)
  <2> SUFFICES ASSUME NEW i \in 1..n, t[i].block, i # n
      PROVE  \E j \in 1..n : t[j].parent = i
    BY DEF Filled
  <2>1. s[i].block
    OBVIOUS
  <2>2. PICK j \in 1..n : s[j].parent = i
    BY <1>0, <2>1 DEF Filled
  <2> QED BY <2>2
<1>6. longer[1] = 0
  <2>1. 1 \in 1..d
    OBVIOUS
  <2> QED BY <1>0, <2>1
<1> QED BY <1>2, <1>3, <1>4, <1>5, <1>6 DEF Stacked

\* The innermost block is taken off the stack.
LEMMA EndBlockStacked ==
  ASSUME NEW n \in Nat, NEW d \in Nat \ {0, 1}, NEW s, NEW stack, NEW shorter,
         Stacked(s, n, stack, d, 0),
         \A k \in 1..d - 1 : shorter[k] = stack[k]
  PROVE  Stacked(s, n, shorter, d - 1, 0)
<1>0. /\ stack[1] = 0 /\ Nested(s, n, stack, d)
      /\ Ascending(stack, d) /\ LastSoFar(s, n, stack, d) /\ Filled(s, n, 0)
  BY DEF Stacked
<1>1. Nested(s, n, shorter, d - 1)
  <2> SUFFICES ASSUME NEW k \in 2..d - 1
      PROVE  shorter[k] \in 1..n /\ s[shorter[k]].parent = shorter[k - 1] /\ s[shorter[k]].block
    BY DEF Nested
  <2>1. k \in 2..d /\ k \in 1..d - 1 /\ k - 1 \in 1..d - 1
    OBVIOUS
  <2>2. shorter[k] = stack[k] /\ shorter[k - 1] = stack[k - 1]
    BY <2>1
  <2> QED BY <1>0, <2>1, <2>2 DEF Nested
<1>2. Ascending(shorter, d - 1)
  <2>1. \A k \in 1..d - 1 : k \in 1..d
    OBVIOUS
  <2> QED BY <1>0, <2>1 DEF Ascending
<1>3. LastSoFar(s, n, shorter, d - 1)
  <2> SUFFICES ASSUME NEW k \in 1..d - 1 - 1, NEW i \in 1..n, s[i].parent = shorter[k]
      PROVE  i <= shorter[k + 1]
    BY DEF LastSoFar
  <2>1. k \in 1..d - 1 /\ k + 1 \in 1..d - 1
    OBVIOUS
  <2>2. shorter[k] = stack[k] /\ shorter[k + 1] = stack[k + 1]
    BY <2>1
  <2> QED BY <1>0, <2>1, <2>2 DEF LastSoFar
<1>4. shorter[1] = 0
  <2>1. 1 \in 1..d - 1
    OBVIOUS
  <2> QED BY <1>0, <2>1
<1> QED BY <1>0, <1>1, <1>2, <1>3, <1>4 DEF Stacked
-----------------------------------------------------------------------------
\* What is printed of block b until the block of its statement i begins.
Begins(s, U, b, i) == U[b][i - 1] \o (s[i].tokens \o <<"{">>)

\* What was read of the open blocks before the innermost began.
Opened(s, U, stack, d, open) ==
  /\ open[1] = <<>>
  /\ \A k \in 1..d - 1 :
       open[k + 1] = open[k] \o Begins(s, U, stack[k], stack[k + 1])

\* text is that, and after it the rest.
ReadAs(s, U, stack, d, rest, text) ==
  \E open \in [1..d -> Seq(Tokens)] :
    Opened(s, U, stack, d, open) /\ text = open[d] \o rest

\* From U to V, and s to t, nothing of that changes.
SameOpened(s, t, U, V, stack, d) ==
  \A k \in 1..d - 1 :
    /\ V[stack[k]][stack[k + 1] - 1] = U[stack[k]][stack[k + 1] - 1]
    /\ t[stack[k + 1]].tokens = s[stack[k + 1]].tokens

SameRow(U, V, b, m) == V[b][m] = U[b][m]

\* The tree changes only in its last statement, which is one of the innermost
\* block: what was printed before it, and of the open blocks, stays.
LEMMA LastOnly ==
  ASSUME NEW s \in Trees, NEW t \in Trees, NEW U, IsText(s, U), NEW V, IsText(t, V),
         NEW n \in Nat, n = Len(s), NEW e \in Nat \ {0}, e = Len(t), e = n \/ e = n + 1,
         NEW d \in Nat \ {0}, NEW stack, NEW open, Stacked(s, n, stack, d, open),
         \A k \in 1..d : stack[k] \in 0..n /\ stack[k] # e, t[e].parent = stack[d],
         \A i \in 1..n : t[i].parent = s[i].parent /\ (i # e => t[i] = s[i])
  PROVE  SameOpened(s, t, U, V, stack, d) /\ SameRow(U, V, stack[d], e - 1)
<1> DEFINE O == {stack[k] : k \in 1..d} \cup {e}
<1>1. stack[1] = 0 /\ Nested(s, n, stack, d) /\ Ascending(stack, d)
  BY Zenon DEF Stacked
<1>2. ASSUME NEW j \in 1..d, stack[j] \in 1..n
      PROVE  /\ j \in 2..d /\ j - 1 \in 1..d
             /\ s[stack[j]].parent = stack[j - 1]
  <2>1. j # 1
    BY <1>1, <1>2
  <2>2. j \in 2..d /\ j - 1 \in 1..d
    BY <2>1
  <2> QED BY <1>1, <2>2 DEF Nested
<1>3. \A i \in 1..n : i = e => s[i].parent = stack[d]
  OBVIOUS
<1>4. OnlyIn(O, s, t)
  <2>1. n <= e /\ \A i \in n + 1..e : i = e
    OBVIOUS
  <2>2. 1 \in 1..d /\ d \in 1..d
    OBVIOUS
  <2>3. 0 \in O /\ stack[d] \in O
    BY <1>1, <2>2
  <2>4. ASSUME NEW i \in 1..n, i \in O PROVE s[i].parent \in O
    <3>1. CASE i = e
      BY <1>3, <2>3, <3>1
    <3>2. CASE i # e
      <4>1. PICK j \in 1..d : i = stack[j]
        BY <2>4, <3>2
      <4>2. j - 1 \in 1..d /\ s[i].parent = stack[j - 1]
        BY <1>2, <4>1
      <4> QED BY <4>2
    <3> QED BY <3>1, <3>2
  <2>5. \A i \in 1..n : i \notin O => t[i] = s[i]
    OBVIOUS
  <2>6. \A i \in n + 1..e : t[i].parent \in O
    BY <2>1, <2>3
  <2> HIDE DEF O
  <2> QED BY <2>1, <2>3, <2>4, <2>5, <2>6 DEF OnlyIn
<1>5. ASSUME NEW i \in 1..n, i \in O, i # e, NEW k \in 1..d, s[i].parent = stack[k]
      PROVE  k \in 1..d - 1 /\ i = stack[k + 1]
  <2>1. PICK j \in 1..d : i = stack[j]
    BY <1>5
  <2>2. j \in 2..d /\ j - 1 \in 1..d /\ stack[j - 1] = stack[k]
    BY <1>2, <1>5, <2>1
  <2>3. j - 1 = k
    <3>1. stack[k] \in 0..n
      OBVIOUS
    <3>2. ~(stack[k] < stack[k])
      BY <3>1
    <3>3. ~(j - 1 < k) /\ ~(k < j - 1)
      BY <1>1, <2>2, <3>2 DEF Ascending
    <3> QED BY <2>2, <3>3
  <2> QED BY <2>1, <2>2, <2>3
<1>6. ASSUME NEW k \in 1..d - 1
      PROVE  /\ V[stack[k]][stack[k + 1] - 1] = U[stack[k]][stack[k + 1] - 1]
             /\ t[stack[k + 1]].tokens = s[stack[k + 1]].tokens
  <2>1. k \in 1..d /\ k + 1 \in 2..d /\ k + 1 \in 1..d /\ d \in 1..d /\ k < d
    OBVIOUS
  <2>2. stack[k + 1] \in 1..n /\ stack[k] \in 0..n /\ stack[k + 1] # e
    BY <1>1, <2>1 DEF Nested
  <2>3. stack[k] # stack[d]
    <3>1. stack[k] < stack[d]
      BY <1>1, <2>1 DEF Ascending
    <3> QED BY <2>2, <3>1
  <2> DEFINE b == stack[k]
             m == stack[k + 1] - 1
  <2>4. m \in 0..n /\ \A i \in 1..m : i \in 1..n /\ i # stack[k + 1]
    BY <2>2
  <2>5. \A i \in 1..m : s[i].parent = b => i \notin O
    <3> SUFFICES ASSUME NEW i \in 1..m, s[i].parent = b, i \in O PROVE FALSE
      OBVIOUS
    <3>1. i \in 1..n /\ i # stack[k + 1]
      BY <2>4
    <3>2. i # e
      BY <1>3, <2>3, <3>1
    <3> QED BY <1>5, <2>1, <3>1, <3>2
  <2>6. V[b][m] = U[b][m]
    <3> HIDE DEF O, b, m
    <3>1. b \in 0..n
      BY <2>2 DEF b
    <3> QED BY <1>4, <2>4, <2>5, <3>1, RowKept
  <2>7. t[stack[k + 1]].tokens = s[stack[k + 1]].tokens
    BY <2>2
  <2> QED BY <2>6, <2>7
<1>7. V[stack[d]][e - 1] = U[stack[d]][e - 1]
  <2> DEFINE b == stack[d]
             m == e - 1
  <2>1. d \in 1..d /\ ~(d \in 1..d - 1)
    OBVIOUS
  <2>2. b \in 0..n
    BY <2>1
  <2>3. m \in 0..n /\ \A i \in 1..m : i \in 1..n /\ i # e
    OBVIOUS
  <2>4. \A i \in 1..m : s[i].parent = b => i \notin O
    BY <1>5, <2>1, <2>3
  <2> HIDE DEF O, b, m
  <2>5. V[b][m] = U[b][m]
    BY <1>4, <2>2, <2>3, <2>4, RowKept
  <2> QED BY <2>5 DEF b, m
<1> QED BY <1>6, <1>7, Zenon DEF SameOpened, SameRow

\* So what was read of the open blocks stays.
LEMMA ReadKept ==
  ASSUME NEW s, NEW t, NEW U, NEW V, NEW d \in Nat \ {0}, NEW stack, NEW rest, NEW text,
         ReadAs(s, U, stack, d, rest, text), SameOpened(s, t, U, V, stack, d)
  PROVE  ReadAs(t, V, stack, d, rest, text)
<1>1. PICK open \in [1..d -> Seq(Tokens)] :
        Opened(s, U, stack, d, open) /\ text = open[d] \o rest
  BY Zenon DEF ReadAs
<1>2. Opened(t, V, stack, d, open)
  BY <1>1, Zenon DEF Opened, Begins, SameOpened
<1> QED BY <1>1, <1>2, Zenon DEF ReadAs

\* One token more is read.
LEMMA ReadMore ==
  ASSUME NEW s, NEW U, NEW d \in Nat \ {0}, NEW stack, NEW rest \in Seq(Tokens), NEW text,
         ReadAs(s, U, stack, d, rest, text), NEW token \in Tokens
  PROVE  /\ ReadAs(s, U, stack, d, rest \o <<token>>, Append(text, token))
         /\ text \in Seq(Tokens)
<1>1. PICK open \in [1..d -> Seq(Tokens)] :
        Opened(s, U, stack, d, open) /\ text = open[d] \o rest
  BY Zenon DEF ReadAs
<1>2. d \in 1..d
  OBVIOUS
<1>3. open[d] \in Seq(Tokens)
  BY <1>2
<1>4. text \in Seq(Tokens) /\ <<token>> \in Seq(Tokens)
  BY <1>1, <1>3, ConcatProperties
<1>5. Append(text, token) = text \o <<token>>
  BY <1>4, AppendIsConcat
<1>6. (open[d] \o rest) \o <<token>> = open[d] \o (rest \o <<token>>)
  <2> DEFINE o == open[d]
             r == <<token>>
  <2>1. o \in Seq(Tokens) /\ r \in Seq(Tokens)
    BY <1>3, <1>4
  <2> HIDE DEF o, r
  <2>2. (o \o rest) \o r = o \o (rest \o r)
    BY <2>1, ConcatAssociative
  <2> QED BY <2>2 DEF o, r
<1> QED BY <1>1, <1>4, <1>5, <1>6, Zenon DEF ReadAs

\* Not to be expanded where only the order of the pieces matters.
Joined(x, y) == x \o y

\* Two texts put together are a text,
LEMMA JoinedType ==
  ASSUME NEW S, NEW x \in Seq(S), NEW y \in Seq(S)
  PROVE  Joined(x, y) \in Seq(S)
BY ConcatProperties DEF Joined

\* and it does not matter which two of three are put together first.
LEMMA JoinedAssociative ==
  ASSUME NEW S, NEW x \in Seq(S), NEW y \in Seq(S), NEW z \in Seq(S)
  PROVE  Joined(Joined(x, y), z) = Joined(x, Joined(y, z))
BY ConcatAssociative DEF Joined

\* Pieces put together from the left, and from the right.
SameThree(o, a, k, l) ==
  Joined(Joined(o, Joined(a, k)), l) = Joined(o, Joined(a, Joined(k, l)))

SameFive(o, a, k, l, i, r) ==
  Joined(Joined(Joined(o, Joined(a, Joined(k, l))), i), r) =
    Joined(o, Joined(a, Joined(k, Joined(l, Joined(i, r)))))

\* Four pieces: the last is put to them, or to the innermost of them.
LEMMA RegroupThree ==
  ASSUME NEW S, NEW o \in Seq(S), NEW a \in Seq(S), NEW k \in Seq(S), NEW l \in Seq(S)
  PROVE  SameThree(o, a, k, l)
<1>1. Joined(a, k) \in Seq(S) /\ Joined(k, l) \in Seq(S)
  BY JoinedType, Zenon
<1>2. Joined(Joined(o, Joined(a, k)), l) = Joined(o, Joined(Joined(a, k), l))
  BY <1>1, JoinedAssociative
<1>3. Joined(Joined(a, k), l) = Joined(a, Joined(k, l))
  BY <1>1, JoinedAssociative
<1> QED BY <1>2, <1>3, Zenon DEF SameThree

\* Six pieces: a block that is closed is printed as it was read.
LEMMA RegroupFive ==
  ASSUME NEW S, NEW o \in Seq(S), NEW a \in Seq(S), NEW k \in Seq(S), NEW l \in Seq(S),
         NEW i \in Seq(S), NEW r \in Seq(S)
  PROVE  SameFive(o, a, k, l, i, r)
<1> DEFINE kl == Joined(k, l)
           akl == Joined(a, kl)
           ir == Joined(i, r)
<1>1. ir \in Seq(S) /\ kl \in Seq(S) /\ akl \in Seq(S) /\ Joined(o, akl) \in Seq(S)
  BY JoinedType, Zenon
<1>2. Joined(Joined(Joined(o, akl), i), r) = Joined(Joined(o, akl), ir)
  BY <1>1, JoinedAssociative
<1>3. Joined(Joined(o, akl), ir) = Joined(o, Joined(akl, ir))
  BY <1>1, JoinedAssociative
<1>4. Joined(akl, ir) = Joined(a, Joined(kl, ir))
  BY <1>1, JoinedAssociative
<1>5. Joined(kl, ir) = Joined(k, Joined(l, ir))
  BY <1>1, JoinedAssociative
<1> QED BY <1>2, <1>3, <1>4, <1>5, Zenon DEF SameFive

\* A token alone is a text.
LEMMA OneToken ==
  ASSUME NEW S, NEW x \in S PROVE <<x>> \in Seq(S)
OBVIOUS

\* Each entry of a row is a text.
LEMMA RowType ==
  ASSUME NEW s \in Trees, NEW U, IsText(s, U), NEW b \in 0..Len(s), NEW m \in 0..Len(s)
  PROVE  U[b][m] \in Seq(Tokens)
BY DEF IsText, Tables

\* What was read of the statement that gets a block is part of what was read of
\* the open blocks.
LEMMA StartBlockRead ==
  ASSUME NEW s, NEW U, NEW n, NEW d \in Nat \ {0}, NEW stack, NEW longer, NEW text,
         U[stack[d]][n - 1] \in Seq(Tokens), s[n].tokens \in Seq(Tokens),
         ReadAs(s, U, stack, d, U[stack[d]][n - 1] \o s[n].tokens, text),
         \A k \in 1..d : longer[k] = stack[k], longer[d + 1] = n
  PROVE  ReadAs(s, U, longer, d + 1, <<>>, Append(text, "{"))
<1> DEFINE a == U[stack[d]][n - 1]
           k == s[n].tokens
           l == <<"{">>
<1>1. PICK open \in [1..d -> Seq(Tokens)] :
        Opened(s, U, stack, d, open) /\ text = open[d] \o (a \o k)
  BY Zenon DEF ReadAs
<1>2. d \in 1..d
  OBVIOUS
<1>3. /\ open[d] \in Seq(Tokens) /\ a \in Seq(Tokens) /\ k \in Seq(Tokens)
      /\ l \in Seq(Tokens) /\ "{" \in Tokens
  <2>1. open[d] \in Seq(Tokens)
    BY <1>2
  <2>2. "{" \in Tokens
    BY Zenon DEF Tokens
  <2>3. l \in Seq(Tokens)
    BY <2>2, OneToken
  <2> QED BY <2>1, <2>2, <2>3
<1>4. a \o k \in Seq(Tokens) /\ k \o l \in Seq(Tokens)
  BY <1>3, ConcatProperties
<1>5. text \in Seq(Tokens)
  BY <1>1, <1>3, <1>4, ConcatProperties
<1>6. Append(text, "{") = text \o l
  BY <1>3, <1>5, AppendIsConcat, Zenon
<1>7. (open[d] \o (a \o k)) \o l = open[d] \o (a \o (k \o l))
  <2> DEFINE o == open[d]
  <2> HIDE DEF o, a, k, l
  <2>1. o \in Seq(Tokens)
    BY <1>3 DEF o
  <2>2. SameThree(o, a, k, l)
    BY <1>3, <2>1, RegroupThree, Zenon
  <2> QED BY <2>2, Zenon DEF o, Joined, SameThree
<1>8. text \o l \in Seq(Tokens) /\ (text \o l) \o <<>> = text \o l
  <2>1. text \o l \in Seq(Tokens)
    BY <1>3, <1>5, ConcatProperties
  <2> QED BY <2>1, ConcatEmptySeq
<1> DEFINE all == text \o l
           more == [j \in 1..d + 1 |-> IF j = d + 1 THEN all ELSE open[j]]
<1>9. all = open[d] \o (a \o (k \o l)) /\ all \in Seq(Tokens) /\ Append(text, "{") = all \o <<>>
  BY <1>1, <1>6, <1>7, <1>8, Zenon
<1> HIDE DEF all
<1>10. more \in [1..d + 1 -> Seq(Tokens)] /\ more[d + 1] = all
       /\ \A j \in 1..d : more[j] = open[j]
  <2>1. \A j \in 1..d + 1 : j # d + 1 => j \in 1..d
    OBVIOUS
  <2>2. d + 1 \in 1..d + 1 /\ \A j \in 1..d : j \in 1..d + 1 /\ j # d + 1
    OBVIOUS
  <2> QED BY <1>9, <2>1, <2>2
<1> HIDE DEF more, a, k, l
<1>11. Opened(s, U, longer, d + 1, more)
  <2>1. more[1] = <<>>
    <3>1. 1 \in 1..d
      OBVIOUS
    <3> QED BY <1>1, <1>10, <3>1 DEF Opened
  <2> DEFINE e == d + 1
  <2>2. \A j \in 1..e - 1 : j \in 1..d
    OBVIOUS
  <2>3. ASSUME NEW j \in 1..d
        PROVE  more[j + 1] = more[j] \o Begins(s, U, longer[j], longer[j + 1])
    <3>1. CASE j = d
      <4>1. /\ more[j + 1] = all /\ more[j] = open[d]
            /\ longer[j] = stack[d] /\ longer[j + 1] = n
        BY <1>2, <1>10, <3>1
      <4>2. Begins(s, U, stack[d], n) = a \o (k \o l)
        BY Zenon DEF a, k, l, Begins
      <4> QED BY <1>9, <4>1, <4>2, Zenon
    <3>2. CASE j # d
      <4>1. j \in 1..d - 1 /\ j + 1 \in 1..d
        BY <3>2
      <4>2. /\ more[j + 1] = open[j + 1] /\ more[j] = open[j]
            /\ longer[j] = stack[j] /\ longer[j + 1] = stack[j + 1]
        BY <1>10, <4>1
      <4>3. open[j + 1] = open[j] \o Begins(s, U, stack[j], stack[j + 1])
        BY <1>1, <4>1, Zenon DEF Opened
      <4> QED BY <4>2, <4>3, Zenon
    <3> QED BY <3>1, <3>2
  <2> HIDE DEF e
  <2>4. \A j \in 1..e - 1 : more[j + 1] = more[j] \o Begins(s, U, longer[j], longer[j + 1])
    BY <2>2, <2>3, Zenon
  <2>5. Opened(s, U, longer, e, more)
    BY <2>1, <2>4, Zenon DEF Opened
  <2> QED BY <2>5 DEF e
<1> QED BY <1>9, <1>10, <1>11, Zenon DEF ReadAs

\* A closed block is part of what was read of the block around it.
LEMMA EndBlockRead ==
  ASSUME NEW s \in Trees, NEW U, IsText(s, U), NEW n \in Nat, n = Len(s),
         NEW d \in Nat \ {0, 1}, NEW stack, NEW shorter, NEW text,
         \A k \in 1..d : stack[k] \in 0..n, Stacked(s, n, stack, d, 0),
         s[stack[d]].tokens \in Seq(Tokens),
         ReadAs(s, U, stack, d, U[stack[d]][n], text),
         \A k \in 1..d - 1 : shorter[k] = stack[k]
  PROVE  ReadAs(s, U, shorter, d - 1, U[shorter[d - 1]][n], Append(text, "}"))
<1> DEFINE p == stack[d - 1]
           top == stack[d]
           a == U[p][top - 1]
           k == s[top].tokens
           l == <<"{">>
           i == U[top][n]
           r == <<"}">>
<1>1. /\ d \in 2..d /\ d \in 1..d /\ d - 1 \in 1..d /\ d - 1 \in 1..d - 1 /\ d - 1 + 1 = d
  OBVIOUS
<1>2. /\ top \in 1..n /\ s[top].parent = p /\ s[top].block /\ p \in 0..n
      /\ \A j \in 1..n : s[j].parent = p => j <= top
  BY <1>1 DEF Stacked, Nested, LastSoFar
<1>3. PICK open \in [1..d -> Seq(Tokens)] :
        Opened(s, U, stack, d, open) /\ text = open[d] \o i
  BY Zenon DEF ReadAs
<1> DEFINE o == open[d - 1]
<1>4. open[d] = o \o (a \o (k \o l))
  <2>1. d - 1 \in 1..d - 1
    OBVIOUS
  <2>2. open[d - 1 + 1] = open[d - 1] \o Begins(s, U, stack[d - 1], stack[d - 1 + 1])
    BY <1>3, <2>1, Zenon DEF Opened
  <2> QED BY <1>1, <2>2, Zenon DEF Begins
<1>5. U[p][n] = a \o (k \o (l \o (i \o r)))
  <2>1. U[p][top] = U[p][top - 1] \o Printed(s, U, top)
    BY <1>2, ZenonT(60) DEF IsText, RowIsText
  <2>2. Printed(s, U, top) = k \o (l \o (i \o r))
    BY <1>2 DEF Printed
  <2>3. U[p][n] = U[p][top]
    <3> HIDE DEF p, top
    <3>1. \A j \in top + 1..n : s[j].parent # p
      BY <1>2
    <3>2. p \in 0..Len(s) /\ top \in 0..Len(s) /\ n \in top..Len(s)
      BY <1>2
    <3> QED BY <3>1, <3>2, RowSkips, ZenonT(60)
  <2> QED BY <2>1, <2>2, <2>3, Zenon
<1>6. /\ o \in Seq(Tokens) /\ a \in Seq(Tokens) /\ k \in Seq(Tokens) /\ l \in Seq(Tokens)
      /\ i \in Seq(Tokens) /\ r \in Seq(Tokens) /\ "}" \in Tokens
  <2>1. o \in Seq(Tokens) /\ k \in Seq(Tokens)
    BY <1>1
  <2>2. a \in Seq(Tokens) /\ i \in Seq(Tokens)
    <3> HIDE DEF p, top
    <3>1. top - 1 \in 0..n /\ top \in 0..n /\ n \in 0..n
      BY <1>2
    <3> QED BY <1>2, <3>1, RowType
  <2>3. "{" \in Tokens /\ "}" \in Tokens
    BY Zenon DEF Tokens
  <2>4. l \in Seq(Tokens) /\ r \in Seq(Tokens)
    BY <2>3, OneToken
  <2> QED BY <2>1, <2>2, <2>3, <2>4
<1>7. open[d] \in Seq(Tokens)
  BY <1>1
<1> HIDE DEF o, a, k, l, i, r
<1>8. Append(text, "}") = text \o r
  <2>1. text \in Seq(Tokens)
    BY <1>3, <1>6, <1>7, ConcatProperties
  <2> QED BY <1>6, <2>1, AppendIsConcat, Zenon DEF r
<1>9. Append(text, "}") = o \o U[p][n]
  <2>1. SameFive(o, a, k, l, i, r)
    BY <1>6, RegroupFive, Zenon
  <2> QED BY <1>3, <1>4, <1>5, <1>8, <2>1, Zenon DEF Joined, SameFive
<1> DEFINE less == [j \in 1..d - 1 |-> open[j]]
<1>10. less \in [1..d - 1 -> Seq(Tokens)] /\ less[d - 1] = o
       /\ \A j \in 1..d - 1 : less[j] = open[j]
  <2>1. \A j \in 1..d - 1 : j \in 1..d
    OBVIOUS
  <2> QED BY <1>1, <2>1 DEF o
<1> HIDE DEF less
<1>11. Opened(s, U, shorter, d - 1, less)
  <2>1. less[1] = <<>>
    <3>1. 1 \in 1..d - 1
      OBVIOUS
    <3> QED BY <1>3, <1>10, <3>1 DEF Opened
  <2>2. ASSUME NEW j \in 1..d - 1 - 1
        PROVE  less[j + 1] = less[j] \o Begins(s, U, shorter[j], shorter[j + 1])
    <3>1. j \in 1..d - 1 /\ j + 1 \in 1..d - 1
      OBVIOUS
    <3>2. /\ less[j + 1] = open[j + 1] /\ less[j] = open[j]
          /\ shorter[j] = stack[j] /\ shorter[j + 1] = stack[j + 1]
      BY <1>10, <3>1
    <3>3. open[j + 1] = open[j] \o Begins(s, U, stack[j], stack[j + 1])
      BY <1>3, <3>1, Zenon DEF Opened
    <3> QED BY <3>2, <3>3, Zenon
  <2> QED BY <2>1, <2>2, Zenon DEF Opened
<1>12. shorter[d - 1] = p
  BY <1>1
<1> HIDE DEF p
<1> QED BY <1>9, <1>10, <1>11, <1>12, Zenon DEF ReadAs
-----------------------------------------------------------------------------
\* What Parse has read after a first word,
LEMMA FirstWordRead ==
  ASSUME NEW s \in Trees, NEW t \in Trees, NEW n \in Nat, n = Len(s), n + 1 = Len(t),
         NEW d \in Nat \ {0}, NEW stack, NEW open, Stacked(s, n, stack, d, open),
         \A k \in 1..d : stack[k] \in 0..n,
         \A i \in 1..n : t[i] = s[i], t[n + 1].parent = stack[d],
         NEW word \in Tokens, t[n + 1].tokens = <<word>>, NEW text,
         ReadAs(s, TextOf(s), stack, d, TextOf(s)[stack[d]][n], text)
  PROVE  ReadAs(t, TextOf(t), stack, d, TextOf(t)[stack[d]][n] \o t[n + 1].tokens,
                Append(text, word))
<1> DEFINE U == TextOf(s)
           V == TextOf(t)
           b == stack[d]
           e == n + 1
<1>1. IsText(s, U) /\ IsText(t, V)
  BY TextExists, Zenon
<1> HIDE DEF U, V
<1>2. b \in 0..Len(s) /\ n \in 0..Len(s)
  BY d \in 1..d
<1>3. U[b][n] \in Seq(Tokens)
  <2> HIDE DEF b
  <2> QED BY <1>1, <1>2, RowType
<1>4. ReadAs(s, U, stack, d, U[b][n] \o <<word>>, Append(text, word))
  <2> HIDE DEF b
  <2>1. ReadAs(s, U, stack, d, U[b][n], text)
    BY Zenon DEF U, b
  <2> QED BY <1>3, <2>1, ReadMore, Zenon
<1>5. /\ e \in Nat \ {0} /\ e = Len(t) /\ e = n + 1 /\ e - 1 = n
      /\ (e = n \/ e = n + 1)
      /\ \A k \in 1..d : stack[k] \in 0..n /\ stack[k] # e
  OBVIOUS
<1>6. t[e].parent = stack[d] /\ \A i \in 1..n : t[i].parent = s[i].parent /\ (i # e => t[i] = s[i])
  OBVIOUS
<1> HIDE DEF e
<1>7. SameOpened(s, t, U, V, stack, d) /\ SameRow(U, V, stack[d], e - 1)
  BY <1>1, <1>5, <1>6, LastOnly, Zenon
<1>8. ReadAs(t, V, stack, d, U[b][n] \o <<word>>, Append(text, word))
  <2> HIDE DEF b
  <2> QED BY <1>4, <1>7, ReadKept, Zenon
<1>9. U[b][n] \o <<word>> = V[b][n] \o t[n + 1].tokens
  BY <1>5, <1>7 DEF SameRow
<1> QED BY <1>8, <1>9, Zenon DEF V, b

\* after another word of the last statement,
LEMMA NextWordRead ==
  ASSUME NEW s \in Trees, NEW t \in Trees, NEW n \in Nat \ {0}, n = Len(s), n = Len(t),
         NEW d \in Nat \ {0}, NEW stack, NEW open, Stacked(s, n, stack, d, open),
         \A k \in 1..d : stack[k] \in 0..n /\ stack[k] # n,
         \A i \in 1..n : t[i].parent = s[i].parent /\ (i # n => t[i] = s[i]),
         s[n].parent = stack[d], s[n].tokens \in Seq(Tokens),
         NEW word \in Tokens, t[n].tokens = Append(s[n].tokens, word), NEW text,
         ReadAs(s, TextOf(s), stack, d, TextOf(s)[stack[d]][n - 1] \o s[n].tokens, text)
  PROVE  ReadAs(t, TextOf(t), stack, d, TextOf(t)[stack[d]][n - 1] \o t[n].tokens,
                Append(text, word))
<1> DEFINE U == TextOf(s)
           V == TextOf(t)
           b == stack[d]
           a == U[b][n - 1]
           k == s[n].tokens
           l == <<word>>
<1>1. IsText(s, U) /\ IsText(t, V)
  BY TextExists, Zenon
<1>2. b \in 0..Len(s) /\ n - 1 \in 0..Len(s)
  BY d \in 1..d
<1> HIDE DEF U, V, b
<1>3. a \in Seq(Tokens) /\ k \in Seq(Tokens) /\ l \in Seq(Tokens)
  <2>1. a \in Seq(Tokens)
    BY <1>1, <1>2, RowType
  <2> QED BY <2>1, OneToken
<1>4. a \o k \in Seq(Tokens)
  BY <1>3, ConcatProperties
<1>5. ReadAs(s, U, stack, d, a \o k, text)
  BY Zenon DEF U, b
<1>6. ReadAs(s, U, stack, d, (a \o k) \o l, Append(text, word))
  <2> HIDE DEF a, k
  <2> QED BY <1>4, <1>5, ReadMore, Zenon
<1>7. (a \o k) \o l = a \o t[n].tokens
  <2>1. Joined(Joined(a, k), l) = Joined(a, Joined(k, l))
    <3> HIDE DEF a, k, l
    <3> QED BY <1>3, JoinedAssociative
  <2>2. t[n].tokens = k \o l
    BY <1>3, AppendIsConcat
  <2> HIDE DEF a, k, l
  <2> QED BY <2>1, <2>2, Zenon DEF Joined
<1>8. SameOpened(s, t, U, V, stack, d) /\ SameRow(U, V, stack[d], n - 1)
  <2>1. t[n].parent = stack[d] /\ n \in Nat /\ (n = n \/ n = n + 1)
    <3>1. n \in 1..n
      OBVIOUS
    <3> QED BY <3>1
  <2> QED BY <1>1, <2>1, LastOnly, Zenon
<1>9. ReadAs(t, V, stack, d, (a \o k) \o l, Append(text, word))
  <2> DEFINE rest == (a \o k) \o l
  <2>1. ReadAs(s, U, stack, d, rest, Append(text, word))
    BY <1>6
  <2> HIDE DEF rest
  <2>2. ReadAs(t, V, stack, d, rest, Append(text, word))
    BY <1>8, <2>1, ReadKept, Zenon
  <2> QED BY <2>2 DEF rest
<1>10. a = V[b][n - 1]
  BY <1>8 DEF b, SameRow
<1> HIDE DEF a, k, l
<1> QED BY <1>7, <1>9, <1>10, Zenon DEF V, b

\* after its end,
LEMMA StatementEndRead ==
  ASSUME NEW s \in Trees, NEW n \in Nat \ {0}, n = Len(s), NEW d \in Nat \ {0}, NEW stack,
         \A k \in 1..d : stack[k] \in 0..n,
         s[n].parent = stack[d], ~s[n].block, s[n].tokens \in Seq(Tokens), NEW text,
         ReadAs(s, TextOf(s), stack, d, TextOf(s)[stack[d]][n - 1] \o s[n].tokens, text)
  PROVE  ReadAs(s, TextOf(s), stack, d, TextOf(s)[stack[d]][n], Append(text, ";"))
<1> DEFINE U == TextOf(s)
           b == stack[d]
           a == U[b][n - 1]
           k == s[n].tokens
           l == <<";">>
<1>1. IsText(s, U)
  BY TextExists, Zenon
<1>2. b \in 0..Len(s) /\ n - 1 \in 0..Len(s) /\ n \in 1..Len(s) /\ s[n].parent = b
  BY d \in 1..d
<1> HIDE DEF U, b
<1>3. a \in Seq(Tokens) /\ k \in Seq(Tokens) /\ l \in Seq(Tokens) /\ ";" \in Tokens
  <2>1. a \in Seq(Tokens)
    BY <1>1, <1>2, RowType
  <2>2. ";" \in Tokens
    BY Zenon DEF Tokens
  <2> QED BY <2>1, <2>2, OneToken
<1>4. a \o k \in Seq(Tokens)
  BY <1>3, ConcatProperties
<1>5. ReadAs(s, U, stack, d, a \o k, text)
  BY Zenon DEF U, b
<1>6. ReadAs(s, U, stack, d, (a \o k) \o l, Append(text, ";"))
  <2> HIDE DEF a, k
  <2> QED BY <1>3, <1>4, <1>5, ReadMore, Zenon
<1>7. (a \o k) \o l = U[b][n]
  <2>1. Joined(Joined(a, k), l) = Joined(a, Joined(k, l))
    <3>1. a \in Seq(Tokens) /\ k \in Seq(Tokens) /\ l \in Seq(Tokens)
      BY <1>3
    <3> HIDE DEF a, k, l
    <3> QED BY <3>1, JoinedAssociative
  <2>2. U[b][n] = U[b][n - 1] \o Printed(s, U, n)
    BY <1>1, <1>2 DEF IsText, RowIsText
  <2>3. Printed(s, U, n) = k \o l
    BY DEF Printed
  <2> QED BY <2>1, <2>2, <2>3, Zenon DEF Joined
<1> HIDE DEF a, k, l
<1> QED BY <1>6, <1>7, Zenon DEF U, b

\* A block that was just begun has no text.
LEMMA NewBlockIsEmpty ==
  ASSUME NEW s \in Trees, NEW U, IsText(s, U), NEW n \in Nat \ {0}, n = Len(s)
  PROVE  U[n][n] = <<>>
<1>1. \A i \in 0 + 1..n : s[i].parent # n
  BY DEF Trees
<1>2. n \in 0..Len(s) /\ 0 \in 0..Len(s)
  OBVIOUS
<1>3. U[n][n] = U[n][0]
  BY <1>1, <1>2, RowSkips
<1>4. U[n][0] = <<>>
  BY <1>2 DEF IsText, RowIsText
<1> QED BY <1>3, <1>4

\* and after the beginning of its block.
LEMMA BlockBegunRead ==
  ASSUME NEW s \in Trees, NEW t \in Trees, NEW n \in Nat \ {0}, n = Len(s), n = Len(t),
         NEW d \in Nat \ {0}, NEW stack, NEW longer, NEW open, Stacked(s, n, stack, d, open),
         \A k \in 1..d : stack[k] \in 0..n /\ stack[k] # n /\ longer[k] = stack[k],
         longer[d + 1] = n,
         \A i \in 1..n : t[i].parent = s[i].parent /\ (i # n => t[i] = s[i]),
         s[n].parent = stack[d], s[n].tokens \in Seq(Tokens),
         t[n].tokens = s[n].tokens, NEW text,
         ReadAs(s, TextOf(s), stack, d, TextOf(s)[stack[d]][n - 1] \o s[n].tokens, text)
  PROVE  ReadAs(t, TextOf(t), longer, d + 1, TextOf(t)[n][n], Append(text, "{"))
<1> DEFINE U == TextOf(s)
           V == TextOf(t)
           e == d + 1
<1>1. IsText(s, U) /\ IsText(t, V)
  BY TextExists, Zenon
<1>2. U[stack[d]][n - 1] \in Seq(Tokens)
  <2> HIDE DEF U
  <2>1. stack[d] \in 0..Len(s) /\ n - 1 \in 0..Len(s)
    BY d \in 1..d
  <2> QED BY <1>1, <2>1, RowType
<1>3. ReadAs(s, U, longer, e, <<>>, Append(text, "{"))
  <2> HIDE DEF U
  <2>1. ReadAs(s, U, stack, d, U[stack[d]][n - 1] \o s[n].tokens, text)
    BY Zenon DEF U
  <2>2. \A k \in 1..d : longer[k] = stack[k]
    OBVIOUS
  <2> QED BY <1>2, <2>1, <2>2, StartBlockRead, ZenonT(60)
<1> HIDE DEF U, V
<1>4. SameOpened(s, t, U, V, stack, d) /\ SameRow(U, V, stack[d], n - 1)
  <2>1. t[n].parent = stack[d] /\ n \in Nat /\ (n = n \/ n = n + 1)
    <3>1. n \in 1..n
      OBVIOUS
    <3> QED BY <3>1
  <2> QED BY <1>1, <2>1, LastOnly, Zenon
<1>5. ASSUME NEW k \in 1..d
      PROVE  /\ V[longer[k]][longer[k + 1] - 1] = U[longer[k]][longer[k + 1] - 1]
             /\ t[longer[k + 1]].tokens = s[longer[k + 1]].tokens
  <2>1. CASE k = d
    <3>1. longer[k] = stack[d] /\ longer[k + 1] = n
      BY <2>1
    <3> QED BY <1>4, <3>1 DEF SameRow
  <2>2. CASE k # d
    <3>1. k \in 1..d - 1 /\ k \in 1..d /\ k + 1 \in 1..d
      BY <2>2
    <3>2. longer[k] = stack[k] /\ longer[k + 1] = stack[k + 1]
      BY <3>1
    <3> QED BY <1>4, <3>1, <3>2 DEF SameOpened
  <2> QED BY <2>1, <2>2
<1>6. e \in Nat \ {0} /\ \A k \in 1..e - 1 : k \in 1..d
  OBVIOUS
<1> HIDE DEF e
<1>7. ReadAs(t, V, longer, e, <<>>, Append(text, "{"))
  <2>1. SameOpened(s, t, U, V, longer, e)
    BY <1>5, <1>6, Zenon DEF SameOpened
  <2> QED BY <1>3, <1>6, <2>1, ReadKept, Zenon
<1>8. V[n][n] = <<>>
  BY <1>1, NewBlockIsEmpty
<1> QED BY <1>7, <1>8, Zenon DEF V, e
-----------------------------------------------------------------------------
\* What was read of the innermost block.
Rest ==
  LET row == TextOf(statements)[Top]
      n == Len(statements)
  IN  IF last_token_type = "normal" THEN row[n - 1] \o statements[n].tokens ELSE row[n]

\* The tree and the stack say what Parse was given.
TextInv ==
  /\ Stacked(statements, Len(statements), config_stack, Len(config_stack),
             IF last_token_type = "{" THEN Top ELSE 0)
  /\ last_token_type = "normal" => ~statements[Len(statements)].block
  /\ ReadAs(statements, TextOf(statements), config_stack, Len(config_stack), Rest, read)
  /\ outcome = "true" =>
       last_token_type \notin {"{", "normal"} /\ Len(config_stack) = 1

\* What the steps use of the types.
LEMMA Bounds ==
  ASSUME ParserInv
  PROVE  /\ statements \in Trees /\ Len(statements) \in Nat
         /\ DOMAIN statements = 1..Len(statements)
         /\ \A i \in 1..Len(statements) : statements[i].tokens \in Seq(Tokens)
         /\ Len(config_stack) \in Nat \ {0} /\ Top = config_stack[Len(config_stack)]
         /\ \A k \in 1..Len(config_stack) : config_stack[k] \in 0..Len(statements)
<1>1. statements \in Seq(Statement) /\ Len(statements) \in Nat
      /\ DOMAIN statements = 1..Len(statements)
  BY DEF ParserInv
<1>2. statements \in Trees
  BY <1>1 DEF Trees, ParserInv, ParserTypeOK
<1>3. config_stack \in Seq(Blocks) /\ Len(config_stack) \in Nat \ {0}
  BY DEF ParserInv, ParserTypeOK
<1>4. \A k \in 1..Len(config_stack) : config_stack[k] \in 0..Len(statements)
  BY <1>3 DEF Blocks
<1>5. \A i \in 1..Len(statements) : statements[i].tokens \in Seq(Tokens)
  <2>1. \A i \in 1..Len(statements) : statements[i].tokens \in Seq(Words \cup Quoted)
    BY <1>1 DEF ParserInv, ParserTypeOK
  <2>2. Words \cup Quoted \subseteq Tokens
    BY DEF Tokens
  <2> QED BY <2>1, <2>2, SeqLarger
<1> QED BY <1>1, <1>2, <1>3, <1>4, <1>5 DEF Top, Last

\* The same of the tree after a step.
LEMMA TreeAfter ==
  ASSUME ParserInv'
  PROVE  /\ statements' \in Trees /\ Len(statements') \in Nat
         /\ DOMAIN statements' = 1..Len(statements')
<1>1. statements' \in Seq(Statement) /\ Len(statements') \in Nat
      /\ DOMAIN statements' = 1..Len(statements')
  BY DEF ParserInv
<1> QED BY <1>1 DEF Trees, ParserInv, ParserTypeOK

\* Nothing is read.
LEMMA TextKept ==
  ASSUME TextInv, UNCHANGED <<statements, config_stack, last_token_type, read>>,
         outcome' = "true" =>
           last_token_type \notin {"{", "normal"} /\ Len(config_stack) = 1
  PROVE  TextInv'
<1>1. Top' = Top
  BY DEF Top
<1>2. Rest' = Rest
  BY <1>1 DEF Rest
<1> QED BY <1>1, <1>2 DEF TextInv

\* A word that begins a statement (config_parser.cc 262-271).
LEMMA FirstWordTree ==
  ASSUME ParserInv, NEW word \in Words \cup Quoted,
         statements' = Append(statements, [tokens |-> <<word>>, parent |-> Top, block |-> FALSE])
  PROVE  /\ Len(statements') = Len(statements) + 1
         /\ \A i \in 1..Len(statements) : statements'[i] = statements[i]
         /\ statements'[Len(statements) + 1].tokens = <<word>>
         /\ statements'[Len(statements) + 1].parent = Top
         /\ ~statements'[Len(statements) + 1].block
<1> DEFINE new == [tokens |-> <<word>>, parent |-> Top, block |-> FALSE]
<1>1. new \in Statement
  BY TopIsBlock DEF Statement
<1>2. statements \in Seq(Statement) /\ statements' = Append(statements, new)
  BY DEF ParserInv
<1>3. new.tokens = <<word>> /\ new.parent = Top /\ ~new.block
  OBVIOUS
<1> HIDE DEF new
<1>4. /\ Len(Append(statements, new)) = Len(statements) + 1
      /\ \A i \in 1..Len(statements) : Append(statements, new)[i] = statements[i]
      /\ Append(statements, new)[Len(statements) + 1] = new
  BY <1>1, <1>2, AppendProperties
<1> QED BY <1>2, <1>3, <1>4, Zenon

\* What was read then ends with the first word of an unfinished statement.
LEMMA FirstWordText ==
  ASSUME ParserInv, ParserInv', TextInv, NEW word \in Words \cup Quoted,
         last_token_type # "normal", last_token_type' = "normal",
         config_stack' = config_stack, outcome' = "parsing",
         statements' = Append(statements, [tokens |-> <<word>>, parent |-> Top, block |-> FALSE]),
         read' = Append(read, word)
  PROVE  TextInv'
<1> DEFINE s == statements
           t == statements'
           n == Len(s)
           d == Len(config_stack)
           open == IF last_token_type = "{" THEN Top ELSE 0
<1>1. /\ s \in Trees /\ n \in Nat /\ d \in Nat \ {0} /\ Top = config_stack[d]
      /\ \A k \in 1..d : config_stack[k] \in 0..n
  BY Bounds
<1>2. t \in Trees
  BY TreeAfter
<1>3. /\ Len(t) = n + 1 /\ \A i \in 1..n : t[i] = s[i]
      /\ t[n + 1].tokens = <<word>> /\ t[n + 1].parent = config_stack[d] /\ ~t[n + 1].block
  BY <1>1, FirstWordTree
<1>4. open \in {0, config_stack[d]} /\ Stacked(s, n, config_stack, d, open)
  BY <1>1 DEF TextInv
<1>5. ReadAs(s, TextOf(s), config_stack, d, TextOf(s)[config_stack[d]][n], read)
  BY <1>1 DEF TextInv, Rest
<1>6. word \in Tokens
  BY DEF Tokens
<1>7. Len(config_stack') = d /\ Top' = config_stack[d] /\ n + 1 - 1 = n
  BY <1>1 DEF Top, Last
<1> HIDE DEF s, t, n, d, open
<1>8. Stacked(t, n + 1, config_stack, d, 0)
  BY <1>1, <1>3, <1>4, FirstWordStacked, Zenon
<1>9. ReadAs(t, TextOf(t), config_stack, d,
             TextOf(t)[config_stack[d]][n] \o t[n + 1].tokens, read')
  <2>1. n = Len(s) /\ n + 1 = Len(t)
    BY <1>3, Zenon DEF n
  <2>2. ReadAs(t, TextOf(t), config_stack, d,
             TextOf(t)[config_stack[d]][n] \o t[n + 1].tokens, Append(read, word))
    BY <1>1, <1>2, <1>3, <1>4, <1>5, <1>6, <2>1, FirstWordRead, Zenon
  <2> QED BY <2>2, Zenon
<1>10. Rest' = TextOf(t)[config_stack[d]][n] \o t[n + 1].tokens
  <2>1. Rest' = TextOf(t)[config_stack[d]][Len(t) - 1] \o t[Len(t)].tokens
    BY <1>7, Zenon DEF Rest, t
  <2>2. Len(t) - 1 = n
    BY <1>1, <1>3
  <2>3. Len(t) = n + 1
    BY <1>3
  <2> QED BY <2>1, <2>2, <2>3
<1>11. Stacked(t, Len(t), config_stack', Len(config_stack'), 0) /\ ~t[Len(t)].block
  BY <1>3, <1>7, <1>8, Zenon
<1>12. ReadAs(t, TextOf(t), config_stack', Len(config_stack'), Rest', read')
  BY <1>7, <1>9, <1>10, Zenon
<1> QED BY <1>11, <1>12 DEF TextInv, t

\* A word, or the beginning of a block, for the statement that was begun last
\* (config_parser.cc 272-289).
LEMMA LastChangedTree ==
  ASSUME ParserInv, ParserInv', TextInv, last_token_type = "normal", NEW e,
         statements' = [statements EXCEPT ![Back] = e],
         e.parent = statements[Back].parent
  PROVE  /\ Len(statements') = Len(statements) /\ Back = Len(statements)
         /\ Len(statements) \in Nat \ {0}
         /\ statements'[Len(statements)] = e
         /\ \A i \in 1..Len(statements) :
              /\ statements'[i].parent = statements[i].parent
              /\ i # Len(statements) => statements'[i] = statements[i]
         /\ statements[Len(statements)].parent = Top
         /\ ~statements[Len(statements)].block
         /\ Stacked(statements, Len(statements), config_stack, Len(config_stack), 0)
         /\ \A k \in 1..Len(config_stack) : config_stack[k] # Len(statements)
<1> DEFINE n == Len(statements)
           d == Len(config_stack)
<1>1. Back = n /\ n \in 1..n /\ n \in Nat \ {0} /\ statements[n].parent = Top
  <2>1. Back = n /\ n \in DOMAIN statements /\ DOMAIN statements = 1..n /\ n \in Nat
    BY BackIsLast, Bounds
  <2>2. statements[n].parent = Top
    BY DEF ParserInv
  <2> HIDE DEF n
  <2> QED BY <2>1, <2>2
<1>2. DOMAIN statements = 1..n
  BY Bounds
<1>3. \A i \in 1..n : statements'[i] = IF i = n THEN e ELSE statements[i]
  BY <1>1, <1>2
<1>4. Len(statements') = n
  <2>1. DOMAIN statements' = 1..n
    BY <1>2
  <2>2. DOMAIN statements' = 1..Len(statements') /\ Len(statements') \in Nat
    BY TreeAfter
  <2> HIDE DEF n
  <2> QED BY <1>1, <2>1, <2>2
<1>5. ~statements[n].block /\ Stacked(statements, n, config_stack, d, 0)
  BY DEF TextInv
<1>6. \A k \in 1..d : config_stack[k] # n
  <2>1. config_stack[1] = 0 /\ Nested(statements, n, config_stack, d)
    BY <1>5, Zenon DEF Stacked
  <2>2. d \in Nat
    BY Bounds
  <2> HIDE DEF n, d
  <2> SUFFICES ASSUME NEW k \in 1..d, config_stack[k] = n PROVE FALSE
    OBVIOUS
  <2>3. k # 1
    BY <1>1, <2>1
  <2>4. k \in 2..d
    BY <2>2, <2>3
  <2>5. statements[config_stack[k]].block
    BY <2>1, <2>4, Zenon DEF Nested
  <2> QED BY <1>5, <2>5
<1> HIDE DEF n, d
<1>7. \A i \in 1..n :
        /\ statements'[i].parent = statements[i].parent
        /\ i # n => statements'[i] = statements[i]
  BY <1>1, <1>3
<1>8. statements'[n] = e
  BY <1>1, <1>3
<1> QED BY <1>1, <1>4, <1>5, <1>6, <1>7, <1>8, Zenon DEF n, d

\* Another word becomes the last of what was read of the statement.
LEMMA NextWordText ==
  ASSUME ParserInv, ParserInv', TextInv, NEW word \in Words \cup Quoted,
         last_token_type = "normal", last_token_type' = "normal",
         config_stack' = config_stack, outcome' = "parsing", NEW e,
         statements' = [statements EXCEPT ![Back] = e],
         e.parent = statements[Back].parent, e.block = statements[Back].block,
         e.tokens = Append(statements[Back].tokens, word),
         read' = Append(read, word)
  PROVE  TextInv'
<1> DEFINE s == statements
           t == statements'
           n == Len(s)
           d == Len(config_stack)
<1>1. /\ s \in Trees /\ d \in Nat \ {0} /\ Top = config_stack[d]
      /\ \A k \in 1..d : config_stack[k] \in 0..n
  BY Bounds
<1>2. t \in Trees
  BY TreeAfter
<1>3. /\ Len(t) = n /\ Back = n /\ n \in Nat \ {0} /\ t[n] = e
      /\ \A i \in 1..n : t[i].parent = s[i].parent /\ (i # n => t[i] = s[i])
      /\ s[n].parent = Top /\ ~s[n].block /\ Stacked(s, n, config_stack, d, 0)
      /\ \A k \in 1..d : config_stack[k] # n
  BY LastChangedTree, Zenon
<1>4. ReadAs(s, TextOf(s), config_stack, d,
             TextOf(s)[config_stack[d]][n - 1] \o s[n].tokens, read)
  BY <1>1 DEF TextInv, Rest
<1>5. word \in Tokens
  BY DEF Tokens
<1>6. Len(config_stack') = d /\ Top' = config_stack[d]
  BY <1>1 DEF Top, Last
<1>7. n \in 1..n /\ s[n].tokens \in Seq(Tokens)
  <2>1. n \in 1..n
    <3> HIDE DEF n
    <3> QED BY <1>3
  <2> QED BY <2>1, Bounds
<1> HIDE DEF s, t, n, d
<1>8. t[n].tokens = Append(s[n].tokens, word) /\ t[n].block = s[n].block
  BY <1>3, Zenon DEF s
<1>9. Stacked(t, n, config_stack, d, 0)
  <2>1. \A i \in 1..n : t[i].parent = s[i].parent /\ (t[i].block <=> s[i].block)
    BY <1>3, <1>8
  <2> QED BY <1>1, <1>3, <2>1, NextWordStacked, Zenon
<1>10. ReadAs(t, TextOf(t), config_stack, d,
              TextOf(t)[config_stack[d]][n - 1] \o t[n].tokens, read')
  <2>1. n = Len(s) /\ n = Len(t) /\ s[n].parent = config_stack[d]
        /\ \A k \in 1..d : config_stack[k] \in 0..n /\ config_stack[k] # n
    BY <1>1, <1>3, Zenon DEF n
  <2>2. ReadAs(t, TextOf(t), config_stack, d,
               TextOf(t)[config_stack[d]][n - 1] \o t[n].tokens, Append(read, word))
    BY <1>1, <1>2, <1>3, <1>4, <1>5, <1>7, <1>8, <2>1, NextWordRead, Zenon
  <2> QED BY <2>2, Zenon
<1>11. Rest' = TextOf(t)[config_stack[d]][n - 1] \o t[n].tokens
  <2>1. Rest' = TextOf(t)[config_stack[d]][Len(t) - 1] \o t[Len(t)].tokens
    BY <1>6, Zenon DEF Rest, t
  <2> QED BY <1>3, <2>1
<1>12. Stacked(t, Len(t), config_stack', Len(config_stack'), 0) /\ ~t[Len(t)].block
  BY <1>3, <1>6, <1>8, <1>9, Zenon
<1>13. ReadAs(t, TextOf(t), config_stack', Len(config_stack'), Rest', read')
  BY <1>6, <1>10, <1>11, Zenon
<1> QED BY <1>12, <1>13 DEF TextInv, t

\* The block of the last statement becomes the innermost, and has no text yet.
LEMMA StartBlockText ==
  ASSUME ParserInv, ParserInv', TextInv,
         last_token_type = "normal", last_token_type' = "{",
         config_stack' = Append(config_stack, Back), outcome' = "parsing", NEW e,
         statements' = [statements EXCEPT ![Back] = e],
         e.parent = statements[Back].parent, e.block,
         e.tokens = statements[Back].tokens,
         read' = Append(read, "{")
  PROVE  TextInv'
<1> DEFINE s == statements
           t == statements'
           n == Len(s)
           d == Len(config_stack)
<1>1. /\ s \in Trees /\ d \in Nat \ {0} /\ Top = config_stack[d]
      /\ \A k \in 1..d : config_stack[k] \in 0..n
  BY Bounds
<1>2. t \in Trees
  BY TreeAfter
<1>3. /\ Len(t) = n /\ Back = n /\ n \in Nat \ {0} /\ t[n] = e
      /\ \A i \in 1..n : t[i].parent = s[i].parent /\ (i # n => t[i] = s[i])
      /\ s[n].parent = Top /\ ~s[n].block /\ Stacked(s, n, config_stack, d, 0)
      /\ \A k \in 1..d : config_stack[k] # n
  BY LastChangedTree, Zenon
<1>4. ReadAs(s, TextOf(s), config_stack, d,
             TextOf(s)[config_stack[d]][n - 1] \o s[n].tokens, read)
  BY <1>1 DEF TextInv, Rest
<1>5. n \in 1..n /\ s[n].tokens \in Seq(Tokens)
  <2>1. n \in 1..n
    <3>1. n \in Nat /\ n # 0
      BY <1>3, Zenon
    <3> QED BY <3>1, LastIndex, Zenon
  <2> QED BY <2>1, Bounds
<1>6. /\ Len(config_stack') = d + 1 /\ config_stack'[d + 1] = n
      /\ \A k \in 1..d : config_stack'[k] = config_stack[k]
  <2>1. config_stack \in Seq(Blocks) /\ Back \in Blocks /\ Back = n
    <3>1. config_stack \in Seq(Blocks)
      BY DEF ParserInv, ParserTypeOK
    <3>2. n \in Nat /\ n # 0
      BY <1>3, Zenon
    <3>3. n \in Blocks
      BY <3>2, LastIndex, Zenon DEF Blocks
    <3> QED BY <1>3, <3>1, <3>3, Zenon
  <2>2. /\ Len(Append(config_stack, Back)) = d + 1
        /\ Append(config_stack, Back)[d + 1] = Back
        /\ \A k \in 1..d : Append(config_stack, Back)[k] = config_stack[k]
    BY <2>1, AppendProperties, ZenonT(60)
  <2> QED BY <2>1, <2>2, Zenon
<1>7. Top' = n
  <2>1. Top' = config_stack'[Len(config_stack')]
    BY DEF Top, Last
  <2> QED BY <1>6, <2>1, Zenon
<1> HIDE DEF s, t, n, d
<1>8. t[n].tokens = s[n].tokens /\ t[n].block
  BY <1>3, Zenon DEF s
<1>9. Stacked(t, n, config_stack', d + 1, n)
  <2>1. /\ \A i \in 1..n : t[i].parent = s[i].parent
        /\ \A i \in 1..n : i # n => (t[i].block <=> s[i].block)
        /\ s[n].parent = config_stack[d]
    BY <1>1, <1>3
  <2> QED BY <1>1, <1>3, <1>6, <1>8, <2>1, StartBlockStacked, ZenonT(60)
<1>10. ReadAs(t, TextOf(t), config_stack', d + 1, TextOf(t)[n][n], read')
  <2>1. n = Len(s) /\ n = Len(t) /\ s[n].parent = config_stack[d]
        /\ \A k \in 1..d : /\ config_stack[k] \in 0..n /\ config_stack[k] # n
                           /\ config_stack'[k] = config_stack[k]
    BY <1>1, <1>3, <1>6, Zenon DEF n
  <2>2. ReadAs(t, TextOf(t), config_stack', d + 1, TextOf(t)[n][n], Append(read, "{"))
    BY <1>1, <1>2, <1>3, <1>4, <1>5, <1>6, <1>8, <2>1, BlockBegunRead, ZenonT(60)
  <2> QED BY <2>2, Zenon
<1>11. Rest' = TextOf(t)[n][n]
  <2>1. Rest' = TextOf(t)[Top'][Len(t)]
    BY DEF Rest, t
  <2> QED BY <1>3, <1>7, <2>1, Zenon
<1>12. Stacked(t, Len(t), config_stack', Len(config_stack'), Top')
  BY <1>3, <1>6, <1>7, <1>9, Zenon
<1>13. ReadAs(t, TextOf(t), config_stack', Len(config_stack'), Rest', read')
  BY <1>6, <1>10, <1>11, Zenon
<1> QED BY <1>12, <1>13 DEF TextInv, t

\* The end of the last statement (config_parser.cc 275-279).
LEMMA StatementEndText ==
  ASSUME ParserInv, TextInv, last_token_type = "normal", last_token_type' = ";",
         UNCHANGED <<statements, config_stack>>, outcome' = "parsing",
         read' = Append(read, ";")
  PROVE  TextInv'
<1> DEFINE s == statements
           n == Len(s)
           d == Len(config_stack)
<1>1. /\ s \in Trees /\ n \in Nat /\ d \in Nat \ {0} /\ Top = config_stack[d]
      /\ \A k \in 1..d : config_stack[k] \in 0..n
  BY Bounds
<1>2. n \in 1..n /\ n \in Nat \ {0} /\ s[n].parent = Top /\ s[n].tokens \in Seq(Tokens)
  <2>1. n \in DOMAIN statements /\ s[n].parent = Top
    BY BackIsLast DEF ParserInv
  <2>2. n \in 1..n
    BY <2>1, Bounds
  <2>3. s[n].tokens \in Seq(Tokens)
    BY <2>2, Bounds
  <2> QED BY <1>1, <2>1, <2>2, <2>3, LastIndex, Zenon
<1>3. /\ ~s[n].block /\ Stacked(s, n, config_stack, d, 0)
      /\ ReadAs(s, TextOf(s), config_stack, d,
                TextOf(s)[config_stack[d]][n - 1] \o s[n].tokens, read)
  BY <1>1 DEF TextInv, Rest
<1>4. ReadAs(s, TextOf(s), config_stack, d, TextOf(s)[config_stack[d]][n], Append(read, ";"))
  <2>1. n = Len(s) /\ s[n].parent = config_stack[d]
    BY <1>1, <1>2
  <2> HIDE DEF s, n, d
  <2> QED BY <1>1, <1>2, <1>3, <2>1, StatementEndRead, Zenon
<1>5. Rest' = TextOf(s)[config_stack[d]][n]
  <2>1. Rest' = TextOf(statements')[Top'][Len(statements')]
    BY DEF Rest
  <2>2. Top' = Top
    BY DEF Top
  <2> QED BY <1>1, <2>1, <2>2, Zenon
<1>6. ReadAs(s, TextOf(s), config_stack, d, Rest', read')
  BY <1>4, <1>5, Zenon
<1> QED BY <1>3, <1>6 DEF TextInv

\* The end of the innermost block (config_parser.cc 290-298).
LEMMA EndBlockText ==
  ASSUME ParserInv, TextInv, last_token_type \in {";", "}"}, last_token_type' = "}",
         statements' = statements, config_stack' = Front(config_stack),
         Len(config_stack) # 1, outcome' = "parsing", read' = Append(read, "}")
  PROVE  TextInv'
<1> DEFINE s == statements
           n == Len(s)
           d == Len(config_stack)
<1>1. /\ s \in Trees /\ n \in Nat /\ d \in Nat \ {0, 1} /\ Top = config_stack[d]
      /\ \A k \in 1..d : config_stack[k] \in 0..n
  BY Bounds
<1>2. /\ Len(config_stack') = d - 1
      /\ \A k \in 1..d - 1 : config_stack'[k] = config_stack[k]
  <2>1. config_stack \in Seq(Blocks)
    BY DEF ParserInv, ParserTypeOK
  <2>2. /\ Len(Front(config_stack)) = d - 1
        /\ \A k \in 1..d - 1 : Front(config_stack)[k] = config_stack[k]
    BY <1>1, <2>1, FrontProperties
  <2> QED BY <2>2, Zenon
<1>3. /\ Stacked(s, n, config_stack, d, 0)
      /\ ReadAs(s, TextOf(s), config_stack, d, TextOf(s)[config_stack[d]][n], read)
  BY <1>1 DEF TextInv, Rest
<1>4. s[config_stack[d]].tokens \in Seq(Tokens)
  <2>1. d \in 2..d
    <3>1. d \in Nat /\ d \in Nat \ {0, 1}
      BY <1>1, Zenon
    <3> QED BY <3>1, LastIndex, Zenon
  <2>2. config_stack[d] \in 1..n
    <3> HIDE DEF s, n, d
    <3> QED BY <1>3, <2>1, Zenon DEF Stacked, Nested
  <2> QED BY <2>2, Bounds
<1>5. Top' = config_stack'[d - 1]
  <2>1. Top' = config_stack'[Len(config_stack')]
    BY DEF Top, Last
  <2> QED BY <1>2, <2>1, Zenon
<1>6. Rest' = TextOf(s)[config_stack'[d - 1]][n]
  <2>1. Rest' = TextOf(statements')[Top'][Len(statements')]
    BY DEF Rest
  <2> QED BY <1>5, <2>1, Zenon
<1>7. n = Len(s)
  OBVIOUS
<1> HIDE DEF s, n, d
<1>8. Stacked(s, n, config_stack', d - 1, 0)
  BY <1>1, <1>2, <1>3, EndBlockStacked, Zenon
<1>9. ReadAs(s, TextOf(s), config_stack', d - 1, TextOf(s)[config_stack'[d - 1]][n],
             Append(read, "}"))
  <2>1. IsText(s, TextOf(s))
    BY <1>1, TextExists
  <2> QED BY <1>1, <1>2, <1>3, <1>4, <1>7, <2>1, EndBlockRead, Zenon
<1>10. /\ Stacked(s, n, config_stack', Len(config_stack'), 0)
       /\ ReadAs(s, TextOf(s), config_stack', Len(config_stack'), Rest', read')
  BY <1>2, <1>6, <1>8, <1>9, Zenon
<1> QED BY <1>10 DEF TextInv, s, n

\* block_count is the number of blocks on the stack above the file's own.
LEMMA OpenBlocks ==
  ASSUME ParserInv
  PROVE  /\ block_count # 0 => Len(config_stack) # 1
         /\ ~(block_count > 0) => Len(config_stack) = 1
<1>1. block_count = Len(config_stack) - 1
  BY DEF ParserInv, ParserTypeOK
<1>2. Len(config_stack) \in Nat \ {0}
  BY TopIsBlock
<1> QED BY <1>1, <1>2

\* Every character keeps it (config_parser.cc 238-320).
LEMMA ParserStepText ==
  ASSUME ParserInv, ParserInv', TextInv, outcome = "parsing", ParserStep
  PROVE  TextInv'
<1>1. CASE Throw
  BY <1>1, TextKept DEF Throw
<1>2. ASSUME NEW word \in Words \cup Quoted, Normal(word) PROVE TextInv'
  <2>1. /\ last_token_type' = "normal" /\ config_stack' = config_stack
        /\ outcome' = "parsing" /\ read' = Append(read, word)
    BY <1>2 DEF Normal, Returned
  <2>2. CASE last_token_type # "normal"
    <3>1. statements' = Append(statements, [tokens |-> <<word>>, parent |-> Top, block |-> FALSE])
      BY <1>2, <2>2, Zenon DEF Normal
    <3> QED BY <2>1, <2>2, <3>1, FirstWordText, Zenon
  <2>3. CASE last_token_type = "normal"
    <3> DEFINE old == statements[Back]
               e == [old EXCEPT !.tokens = Append(@, word)]
    <3>1. statements' = [statements EXCEPT ![Back] = e]
      BY <1>2, <2>3 DEF Normal
    <3>2. old \in Statement
      BY <2>3, BackIsLast DEF ParserInv
    <3>3. e.parent = old.parent /\ e.block = old.block /\ e.tokens = Append(old.tokens, word)
      <4> HIDE DEF old
      <4> QED BY <3>2 DEF Statement
    <3> HIDE DEF e
    <3> QED BY <2>1, <2>3, <3>1, <3>3, NextWordText, Zenon
  <2> QED BY <2>2, <2>3
<1>3. CASE StatementEnd /\ ~Throw
  <2>1. /\ last_token_type = "normal" /\ last_token_type' = ";"
        /\ UNCHANGED <<statements, config_stack>> /\ outcome' = "parsing"
        /\ read' = Append(read, ";")
    BY <1>3 DEF StatementEnd, Returned
  <2> QED BY <2>1, StatementEndText, Zenon
<1>4. CASE StartBlock /\ ~Throw
  <2> DEFINE old == statements[Back]
             e == [old EXCEPT !.block = TRUE]
  <2>1. /\ last_token_type = "normal" /\ last_token_type' = "{"
        /\ config_stack' = Append(config_stack, Back) /\ outcome' = "parsing"
        /\ statements' = [statements EXCEPT ![Back] = e]
        /\ read' = Append(read, "{")
    BY <1>4 DEF StartBlock, Returned
  <2>2. old \in Statement
    <3>1. statements \in Seq(Statement)
      BY DEF ParserInv
    <3>2. Back \in DOMAIN statements
      BY <2>1, BackIsLast
    <3> QED BY <3>1, <3>2
  <2>3. e.parent = old.parent /\ e.block /\ e.tokens = old.tokens
    <3> HIDE DEF old
    <3> QED BY <2>2 DEF Statement
  <2> HIDE DEF e
  <2> QED BY <2>1, <2>3, StartBlockText, Zenon
<1>5. CASE EndBlock /\ ~Throw
  <2>1. /\ last_token_type \in {";", "}"} /\ last_token_type' = "}" /\ block_count # 0
        /\ config_stack' = Front(config_stack) /\ outcome' = "parsing"
        /\ statements' = statements /\ read' = Append(read, "}")
    BY <1>5 DEF EndBlock, Returned
  <2>2. Len(config_stack) # 1
    BY <2>1, OpenBlocks, Zenon
  <2> QED BY <2>1, <2>2, EndBlockText, Zenon
<1>6. CASE EndOfFile /\ ~Throw
  <2>1. /\ last_token_type \in {";", "}", "start"} /\ ~(block_count > 0)
        /\ UNCHANGED <<statements, config_stack, last_token_type, read>>
    BY <1>6 DEF EndOfFile
  <2>2. Len(config_stack) = 1
    BY <2>1, OpenBlocks, Zenon
  <2> QED BY <2>1, <2>2, TextKept
<1>7. ASSUME NEW s \in States, Goes(s) PROVE TextInv'
  BY <1>7, TextKept DEF Goes
<1> QED
  BY <1>1, <1>2, <1>3, <1>4, <1>5, <1>6, <1>7 DEF ParserStep

\* While a file is read, the tree and the stack say what was read.
LEMMA AlwaysText == Spec => []TextInv
<1>1. Init => TextInv
  <2> SUFFICES ASSUME Init PROVE TextInv
    OBVIOUS
  <2>1. /\ last_token_type = "start" /\ statements = <<>> /\ config_stack = <<0>>
        /\ outcome = "parsing" /\ read = <<>>
    BY DEF Init, ParserInit
  <2>2. Len(statements) = 0 /\ Len(config_stack) = 1 /\ config_stack[1] = 0 /\ Top = 0
    BY <2>1 DEF Top, Last
  <2>3. statements \in Trees
    <3>1. statements \in Seq(Statement)
      BY <2>1
    <3> QED BY <2>2, <3>1 DEF Trees
  <2> DEFINE U == TextOf(statements)
             open == [k \in 1..1 |-> <<>>]
  <2>4. U[0][0] = <<>>
    <3>1. IsText(statements, U)
      BY <2>3, TextExists
    <3> HIDE DEF U
    <3> QED BY <2>2, <3>1 DEF IsText, RowIsText
  <2>5. Rest = <<>>
    <3>1. Rest = U[Top][Len(statements)]
      BY <2>1 DEF Rest
    <3> HIDE DEF U
    <3> QED BY <2>2, <2>4, <3>1
  <2>6. Stacked(statements, 0, config_stack, 1, 0)
    BY <2>2 DEF Stacked, Nested, Ascending, LastSoFar, Filled
  <2> HIDE DEF U
  <2>7. ReadAs(statements, U, config_stack, 1, <<>>, read)
    <3>1. open \in [1..1 -> Seq(Tokens)] /\ open[1] = <<>> /\ <<>> \o <<>> = <<>>
      <4>1. <<>> \in Seq(Tokens) /\ 1 \in 1..1
        OBVIOUS
      <4> QED BY <4>1, ConcatEmptySeq
    <3> HIDE DEF open
    <3>2. Opened(statements, U, config_stack, 1, open)
      BY <3>1 DEF Opened
    <3>3. read = open[1] \o <<>>
      BY <2>1, <3>1, Zenon
    <3> QED BY <3>1, <3>2, <3>3, Zenon DEF ReadAs
  <2> QED BY <2>1, <2>2, <2>5, <2>6, <2>7, Zenon DEF TextInv, U
<1>2. ParserInv /\ ParserInv' /\ TextInv /\ [Next]_<<parserVars, mainVars>> => TextInv'
  <2> SUFFICES ASSUME ParserInv, ParserInv', TextInv, [Next]_<<parserVars, mainVars>>
      PROVE  TextInv'
    OBVIOUS
  <2>1. CASE Parse
    <3>1. PICK c \in Characters \cup {EOF} : Character(c)
      BY <2>1 DEF Parse, ParserNext
    <3> QED BY <3>1, CharacterCases, ParserStepText
  <2>2. CASE UNCHANGED parserVars
    <3>1. UNCHANGED <<statements, config_stack, last_token_type, read, outcome>>
      BY <2>2 DEF parserVars
    <3>2. outcome = "true" =>
            last_token_type \notin {"{", "normal"} /\ Len(config_stack) = 1
      BY DEF TextInv
    <3> QED BY <3>1, <3>2, TextKept
  <2> QED
    BY <2>1, <2>2 DEF Next, CheckArguments, OpenFile, ReadPort, ReadPool, InitDatabase,
       Bind, Over
<1> QED BY <1>1, <1>2, ParserCorrect, PTL DEF Spec

\* An accepted file is the tree that was built from it (config_parser.cc
\* 238-320 against 108-131).
THEOREM AcceptedFileIsPrinted == Spec => []PrintsWhatWasRead
<1>1. ParserInv /\ TextInv => PrintsWhatWasRead
  <2> SUFFICES ASSUME ParserInv, TextInv, outcome = "true" PROVE PrintsWhatWasRead
    BY DEF PrintsWhatWasRead
  <2> DEFINE n == Len(statements)
             U == TextOf(statements)
  <2>1. last_token_type \notin {"{", "normal"} /\ Len(config_stack) = 1
    BY DEF TextInv
  <2>2. statements \in Trees /\ DOMAIN statements = 1..n /\ n \in Nat /\ Top = config_stack[1]
    BY <2>1, Bounds
  <2>3. /\ Stacked(statements, n, config_stack, 1, 0)
        /\ ReadAs(statements, U, config_stack, 1, Rest, read)
    BY <2>1 DEF TextInv
  <2>4. config_stack[1] = 0 /\ Filled(statements, n, 0)
    BY <2>3, Zenon DEF Stacked
  <2>5. Rest = U[0][n]
    BY <2>1, <2>2, <2>4 DEF Rest
  <2>6. read = U[0][n]
    <3>1. PICK open : Opened(statements, U, config_stack, 1, open) /\ read = open[1] \o Rest
      BY <2>3, Zenon DEF ReadAs
    <3>2. open[1] = <<>>
      BY <3>1, Zenon DEF Opened
    <3> DEFINE text == U[0][n]
    <3>3. text \in Seq(Tokens)
      <4>1. IsText(statements, U)
        BY <2>2, TextExists
      <4>2. 0 \in 0..n /\ n \in 0..n
        BY <2>2
      <4> HIDE DEF U
      <4> QED BY <2>2, <4>1, <4>2, RowType
    <3>4. read = <<>> \o text
      BY <2>5, <3>1, <3>2, Zenon
    <3> HIDE DEF text
    <3>5. <<>> \o text = text
      BY <3>3, ConcatEmptySeq
    <3> QED BY <3>4, <3>5, Zenon DEF text
  <2>7. ConfigText = U[0][n]
    <3>1. IsText(statements, U)
      BY <2>2, TextExists
    <3> HIDE DEF U
    <3> QED BY <2>2, <3>1, ConfigTextIsRow
  <2>8. \A i \in DOMAIN statements :
          statements[i].block => \E j \in DOMAIN statements : statements[j].parent = i
    <3>1. \A i \in 1..n : i # 0
      OBVIOUS
    <3> QED BY <2>2, <2>4, <3>1, Zenon DEF Filled
  <2> QED BY <2>6, <2>7, <2>8, Zenon DEF PrintsWhatWasRead
<1> QED BY <1>1, ParserCorrect, AlwaysText, PTL

(***************************************************************************)
(* What FindBlocks finds in a tree.  Its loops make the rows of a table as *)
(* well.                                                                   *)
(***************************************************************************)
\* The blocks around a statement, from the statement to the file: the
\* function that Ancestors is made from.
UpStep(s, f) == [j \in 0..Len(s) |-> IF j = 0 THEN {} ELSE {j} \cup f[s[j].parent]]

Up(s) == CHOOSE f : f = UpStep(s, f)

LEMMA UpExists ==
  ASSUME NEW s \in Trees
  PROVE  Up(s) = UpStep(s, Up(s))
<1> DEFINE n == Len(s)
           S == SUBSET Nat
           Line(m, f) == \A j \in 0..m : f[j] = IF j = 0 THEN {} ELSE {j} \cup f[s[j].parent]
           good == {m \in 0..n : \E f \in [0..n -> S] : Line(m, f)}
<1>1. n \in Nat /\ \A j \in 1..n : s[j].parent \in 0..j - 1
  BY DEF Trees
<1> HIDE DEF n
<1>2. \A k \in 0..n : (\A j \in 0..n : j < k => j \in good) => k \in good
  <2> SUFFICES ASSUME NEW k \in 0..n, \A j \in 0..n : j < k => j \in good PROVE k \in good
    OBVIOUS
  <2>1. CASE k = 0
    <3>1. [j \in 0..n |-> {}] \in [0..n -> S] /\ Line(0, [j \in 0..n |-> {}])
      BY <1>1
    <3> QED BY <1>1, <2>1, <3>1
  <2>2. CASE k # 0
    <3>1. k - 1 \in 0..n /\ k - 1 < k /\ k \in 1..n
      BY <1>1, <2>2
    <3>2. PICK f \in [0..n -> S] : Line(k - 1, f)
      BY <3>1
    <3> DEFINE g == [f EXCEPT ![k] = {k} \cup f[s[k].parent]]
    <3>3. s[k].parent \in 0..n /\ s[k].parent # k
      BY <1>1, <3>1
    <3>4. g \in [0..n -> S]
      BY <3>1, <3>3
    <3>5. Line(k, g)
      <4> SUFFICES ASSUME NEW j \in 0..k
          PROVE  g[j] = IF j = 0 THEN {} ELSE {j} \cup g[s[j].parent]
        OBVIOUS
      <4>1. CASE j = k
        BY <3>1, <3>3, <4>1
      <4>2. CASE j # k
        <5>1. j \in 0..k - 1 /\ j \in 0..n
          BY <1>1, <4>2
        <5>2. g[j] = f[j]
          BY <4>2, <5>1
        <5>3. CASE j = 0
          BY <3>2, <5>1, <5>2, <5>3
        <5>4. CASE j # 0
          <6>1. s[j].parent \in 0..n /\ s[j].parent # k
            BY <1>1, <5>1, <5>4
          <6>2. g[s[j].parent] = f[s[j].parent]
            BY <6>1
          <6> QED BY <3>2, <5>1, <5>2, <5>4, <6>2
        <5> QED BY <5>3, <5>4
      <4> QED BY <4>1, <4>2
    <3> QED BY <3>4, <3>5
  <2> QED BY <2>1, <2>2
<1>3. n \in good
  <2>1. n \in 0..n
    BY <1>1
  <2> HIDE DEF good
  <2> QED BY <1>1, <1>2, <2>1, FromBelow
<1>4. PICK f \in [0..n -> S] : Line(n, f)
  BY <1>3
<1>5. f = UpStep(s, f)
  BY <1>4 DEF UpStep, n
<1> QED BY <1>5 DEF Up

\* The blocks around a statement are it and those around its parent.
LEMMA UpOne ==
  ASSUME NEW s \in Trees
  PROVE  /\ Up(s)[0] = {}
         /\ \A j \in 1..Len(s) : Up(s)[j] = {j} \cup Up(s)[s[j].parent]
<1> DEFINE n == Len(s)
           up == Up(s)
<1>1. n \in Nat /\ 0 \in 0..n
  BY DEF Trees
<1>2. up = UpStep(s, up)
  BY UpExists
<1> HIDE DEF up, n
<1>3. \A j \in 0..n : up[j] = IF j = 0 THEN {} ELSE {j} \cup up[s[j].parent]
  <2>1. up = [j \in 0..n |-> IF j = 0 THEN {} ELSE {j} \cup up[s[j].parent]]
    BY <1>2 DEF UpStep, n
  <2> QED BY <2>1
<1>4. up[0] = {}
  BY <1>1, <1>3
<1>5. ASSUME NEW j \in 1..n PROVE up[j] = {j} \cup up[s[j].parent]
  <2>1. j \in 0..n /\ j # 0
    BY <1>1
  <2> QED BY <1>3, <2>1, Zenon
<1> QED BY <1>4, <1>5 DEF up, n

\* The blocks around a statement were begun before it.
LEMMA UpBounded ==
  ASSUME NEW s \in Trees, NEW j \in 0..Len(s)
  PROVE  Up(s)[j] \subseteq 1..j
<1> DEFINE n == Len(s)
           S == {k \in 0..n : Up(s)[k] \subseteq 1..k}
<1>1. n \in Nat /\ \A i \in 1..n : s[i].parent \in 0..i - 1
  BY DEF Trees
<1>2. Up(s)[0] = {} /\ \A i \in 1..n : Up(s)[i] = {i} \cup Up(s)[s[i].parent]
  BY UpOne
<1> HIDE DEF n
<1>3. \A k \in 0..n : (\A i \in 0..n : i < k => i \in S) => k \in S
  <2> SUFFICES ASSUME NEW k \in 0..n, \A i \in 0..n : i < k => i \in S PROVE k \in S
    OBVIOUS
  <2>1. CASE k = 0
    BY <1>2, <2>1
  <2>2. CASE k # 0
    <3> DEFINE b == s[k].parent
    <3>1. k \in 1..n /\ b \in 0..n /\ b < k
      BY <1>1, <2>2
    <3>2. Up(s)[b] \subseteq 1..b
      BY <3>1
    <3>3. Up(s)[k] = {k} \cup Up(s)[b]
      BY <1>2, <3>1
    <3> HIDE DEF b
    <3>4. 1..b \subseteq 1..k
      BY <1>1, <3>1
    <3>5. Up(s)[k] \subseteq 1..k
      BY <3>1, <3>2, <3>3, <3>4
    <3> QED BY <3>5
  <2> QED BY <2>1, <2>2
<1>4. \A k \in 0..n : k \in S
  <2> HIDE DEF S
  <2> QED BY <1>1, <1>3, FromBelow
<1> QED BY <1>4 DEF n
-----------------------------------------------------------------------------
\* A block that was begun after a statement of another block has no
\* statements from between the two.
Preorder(s) ==
  \A i \in 1..Len(s), j \in 1..Len(s) :
    i < j => s[j].parent <= s[i].parent \/ s[j].parent >= i

\* Statements are in blocks.
InBlocks(s) == \A i \in 1..Len(s) : s[i].parent # 0 => s[s[i].parent].block

IsHandler(s, i) == s[i].tokens[1] = "handler"

\* The statements through which a search comes to j: j, and what is around it
\* up to the first handler.
Through(s, j) ==
  {c \in Up(s)[j] : \A a \in Up(s)[s[j].parent] : a >= c => ~IsHandler(s, a)}

LEMMA ThroughOne ==
  ASSUME NEW s \in Trees, NEW j \in 1..Len(s)
  PROVE  /\ Through(s, j) = {j} \cup (IF s[j].parent = 0 \/ IsHandler(s, s[j].parent) THEN {}
                                      ELSE Through(s, s[j].parent))
         /\ Through(s, j) \subseteq 1..j
<1> DEFINE b == s[j].parent
           up == Up(s)
           h(a) == IsHandler(s, a)
<1>1. Len(s) \in Nat /\ b \in 0..j - 1 /\ b \in 0..Len(s) /\ j \in 0..Len(s)
  BY DEF Trees
<1>2. up[j] = {j} \cup up[b]
  BY UpOne
<1>3. up[j] \subseteq 1..j /\ up[b] \subseteq 1..b
  BY <1>1, UpBounded
<1>4. Through(s, j) = {c \in up[j] : \A a \in up[b] : a >= c => ~h(a)}
  BY DEF Through
<1>5. CASE b = 0
  <2>1. up[b] = {}
    BY <1>5, UpOne
  <2> HIDE DEF b, up, h
  <2>2. Through(s, j) = {j}
    BY <1>2, <1>4, <2>1
  <2> QED BY <1>1, <1>5, <2>2 DEF b
<1>6. CASE b # 0
  <2> DEFINE d == s[b].parent
  <2>1. up[b] = {b} \cup up[d]
    <3>1. b \in 1..Len(s)
      BY <1>1, <1>6
    <3> QED BY <3>1, UpOne
  <2>2. Through(s, b) = {c \in up[b] : \A a \in up[d] : a >= c => ~h(a)}
    BY DEF Through
  <2> HIDE DEF b, d, up, h
  <2>3. \A a \in up[b] : a \in Nat /\ a <= b /\ a < j /\ ~(a >= j)
    BY <1>1, <1>3
  <2>4. j \in Through(s, j)
    BY <1>2, <1>4, <2>3
  <2>5. CASE h(b)
    <3>1. \A c \in up[b] : ~(\A a \in up[b] : a >= c => ~h(a))
      BY <1>1, <2>1, <2>3, <2>5
    <3>2. Through(s, j) = {j}
      BY <1>2, <1>4, <2>4, <3>1
    <3> QED BY <1>1, <2>5, <3>2 DEF b, h
  <2>6. CASE ~h(b)
    <3>1. \A c \in up[b] : c \in Through(s, j) <=> c \in Through(s, b)
      BY <1>2, <1>4, <2>1, <2>2, <2>6
    <3>2. Through(s, j) \subseteq {j} \cup up[b] /\ Through(s, b) \subseteq up[b]
      BY <1>2, <1>4, <2>2
    <3>3. Through(s, j) = {j} \cup Through(s, b)
      BY <2>4, <3>1, <3>2
    <3>4. Through(s, j) \subseteq 1..j
      BY <1>3, <1>4
    <3> QED BY <1>6, <2>6, <3>3, <3>4 DEF b, h
  <2> QED BY <2>5, <2>6
<1> QED BY <1>5, <1>6

\* Everything in a statement comes before the next statement of its block.
LEMMA InsideIsBefore ==
  ASSUME NEW s \in Trees, Preorder(s), NEW i \in 1..Len(s), NEW c,
         s[i].parent < c, c < i, NEW j \in 1..Len(s), c \in Through(s, j)
  PROVE  j < i
<1> DEFINE n == Len(s)
           S == {k \in 0..n : k # 0 /\ c \in Through(s, k) => k < i}
<1>1. n \in Nat /\ s[i].parent \in 0..n /\ c \in Nat
  <2>1. c \in 1..j
    BY ThroughOne
  <2> QED BY <2>1 DEF Trees
<1>2. \A k \in 0..n : (\A m \in 0..n : m < k => m \in S) => k \in S
  <2> SUFFICES ASSUME NEW k \in 0..n, \A m \in 0..n : m < k => m \in S,
                      k # 0, c \in Through(s, k)
               PROVE  k < i
    OBVIOUS
  <2> DEFINE b == s[k].parent
  <2>1. k \in 1..n /\ b \in 0..n /\ b < k
    BY <1>1 DEF Trees
  <2>2. /\ Through(s, k) = {k} \cup (IF b = 0 \/ IsHandler(s, b) THEN {} ELSE Through(s, b))
        /\ Through(s, k) \subseteq 1..k
    BY <2>1, ThroughOne
  <2>3. i < k => b <= s[i].parent \/ b >= i
    BY <2>1 DEF Preorder
  <2>4. CASE c = k
    BY <2>4
  <2>5. CASE c # k
    <3>1. c \in Through(s, b) /\ b # 0
      BY <2>2, <2>5
    <3>2. b \in S /\ b \in 1..n
      BY <2>1, <3>1
    <3>3. b < i /\ Through(s, b) \subseteq 1..b
      BY <3>1, <3>2, ThroughOne
    <3>4. c <= b
      BY <3>1, <3>3
    <3>5. k # i
      BY <1>1, <3>4
    <3> HIDE DEF b, S
    <3> QED BY <1>1, <2>1, <2>3, <3>3, <3>4, <3>5
  <2> QED BY <2>4, <2>5
<1>3. \A k \in 0..n : k \in S
  <2> HIDE DEF S, n
  <2> QED BY <1>1, <1>2, FromBelow
<1>4. j \in S
  BY <1>1, <1>3
<1> QED BY <1>4

\* A search does not come through a handler to what is in it.
LEMMA NotThroughHandlers ==
  ASSUME NEW s \in Trees, InBlocks(s), NEW i \in 1..Len(s), NEW j \in 1..Len(s),
         i \in Through(s, j), i # j
  PROVE  ~IsHandler(s, i) /\ s[i].block
<1> DEFINE n == Len(s)
           S == {k \in 0..n : k # 0 /\ k # i /\ i \in Through(s, k) =>
                                ~IsHandler(s, i) /\ s[i].block}
<1>1. n \in Nat
  BY DEF Trees
<1>2. \A k \in 0..n : (\A m \in 0..n : m < k => m \in S) => k \in S
  <2> SUFFICES ASSUME NEW k \in 0..n, \A m \in 0..n : m < k => m \in S,
                      k # 0, k # i, i \in Through(s, k)
               PROVE  ~IsHandler(s, i) /\ s[i].block
    OBVIOUS
  <2> DEFINE b == s[k].parent
  <2>1. k \in 1..n /\ b \in 0..n /\ b < k
    BY <1>1 DEF Trees
  <2>2. Through(s, k) = {k} \cup (IF b = 0 \/ IsHandler(s, b) THEN {} ELSE Through(s, b))
    BY <2>1, ThroughOne
  <2>3. b # 0 /\ ~IsHandler(s, b) /\ i \in Through(s, b)
    BY <2>2
  <2>4. s[b].block
    BY <2>1, <2>3 DEF InBlocks
  <2>5. b \in S
    BY <2>1
  <2> HIDE DEF b
  <2> QED BY <2>3, <2>4, <2>5
<1>3. \A k \in 0..n : k \in S
  <2> HIDE DEF S, n
  <2> QED BY <1>1, <1>2, FromBelow
<1>4. j \in S
  BY <1>1, <1>3
<1> QED BY <1>4

\* Through another statement it comes to what it comes to through those in it.
LEMMA ThroughChildren ==
  ASSUME NEW s \in Trees, NEW i \in 1..Len(s), ~IsHandler(s, i),
         NEW j \in 1..Len(s), j # i
  PROVE  i \in Through(s, j) <=> \E c \in Through(s, j) : s[c].parent = i
<1> DEFINE n == Len(s)
           In(k) == \E c \in Through(s, k) : s[c].parent = i
           S == {k \in 0..n : k # 0 => IF k = i THEN ~In(k) ELSE i \in Through(s, k) <=> In(k)}
<1>1. n \in Nat
  BY DEF Trees
<1>2. \A k \in 0..n : (\A m \in 0..n : m < k => m \in S) => k \in S
  <2> SUFFICES ASSUME NEW k \in 0..n, \A m \in 0..n : m < k => m \in S, k # 0
               PROVE  IF k = i THEN ~In(k) ELSE i \in Through(s, k) <=> In(k)
    OBVIOUS
  <2> DEFINE b == s[k].parent
  <2>1. k \in 1..n /\ b \in 0..n /\ b < k
    BY <1>1 DEF Trees
  <2>2. /\ Through(s, k) = {k} \cup (IF b = 0 \/ IsHandler(s, b) THEN {} ELSE Through(s, b))
        /\ Through(s, k) \subseteq 1..k
    BY <2>1, ThroughOne
  <2>3. CASE k = i
    <3>1. ASSUME NEW c \in Through(s, k), s[c].parent = i PROVE FALSE
      <4>1. c \in 1..k /\ c \in 1..n
        BY <2>1, <2>2
      <4>2. s[c].parent < c
        BY <4>1 DEF Trees
      <4> QED BY <2>3, <3>1, <4>1, <4>2
    <3> QED BY <2>3, <3>1
  <2>4. CASE k # i
    <3>1. CASE b = i
      <4>1. b # 0
        BY <3>1
      <4>2. Through(s, k) = {k} \cup Through(s, b)
        BY <2>2, <3>1, <4>1
      <4>3. i \in Through(s, b)
        <5>1. b \in 1..n
          BY <3>1
        <5> QED BY <3>1, <5>1, ThroughOne
      <4>4. In(k)
        BY <3>1, <4>2
      <4> QED BY <2>4, <4>2, <4>3, <4>4
    <3>2. CASE b # i
      <4>1. CASE b = 0 \/ IsHandler(s, b)
        BY <2>2, <2>4, <3>2, <4>1
      <4>2. CASE ~(b = 0 \/ IsHandler(s, b))
        <5>1. b \in S
          BY <2>1
        <5>2. i \in Through(s, b) <=> In(b)
          BY <3>2, <4>2, <5>1
        <5>3. In(k) <=> In(b)
          BY <2>2, <3>2, <4>2
        <5>4. i \in Through(s, k) <=> i \in Through(s, b)
          BY <2>2, <2>4, <4>2
        <5> HIDE DEF b, In, S
        <5> QED BY <2>4, <5>2, <5>3, <5>4
      <4> QED BY <4>1, <4>2
    <3> QED BY <3>1, <3>2
  <2> QED BY <2>3, <2>4
<1>3. \A k \in 0..n : k \in S
  <2> HIDE DEF S, n
  <2> QED BY <1>1, <1>2, FromBelow
<1>4. j \in S
  BY <1>1, <1>3
<1> QED BY <1>4

\* A search of the whole file comes to what has no handler around it.
LEMMA ThroughFile ==
  ASSUME NEW s \in Trees, NEW j \in 1..Len(s)
  PROVE  (\E c \in Through(s, j) : s[c].parent = 0)
           <=> \A a \in Up(s)[s[j].parent] : ~IsHandler(s, a)
<1> DEFINE n == Len(s)
           In(k) == \E c \in Through(s, k) : s[c].parent = 0
           Free(k) == \A a \in Up(s)[s[k].parent] : ~IsHandler(s, a)
           S == {k \in 0..n : k # 0 => (In(k) <=> Free(k))}
<1>1. n \in Nat
  BY DEF Trees
<1>2. \A k \in 0..n : (\A m \in 0..n : m < k => m \in S) => k \in S
  <2> SUFFICES ASSUME NEW k \in 0..n, \A m \in 0..n : m < k => m \in S, k # 0
               PROVE  In(k) <=> Free(k)
    OBVIOUS
  <2> DEFINE b == s[k].parent
  <2>1. k \in 1..n /\ b \in 0..n /\ b < k
    BY <1>1 DEF Trees
  <2>2. Through(s, k) = {k} \cup (IF b = 0 \/ IsHandler(s, b) THEN {} ELSE Through(s, b))
    BY <2>1, ThroughOne
  <2>3. CASE b = 0
    <3>1. Up(s)[b] = {}
      BY <2>3, UpOne
    <3> QED BY <2>2, <2>3, <3>1
  <2>4. CASE b # 0
    <3>1. Up(s)[b] = {b} \cup Up(s)[s[b].parent]
      <4>1. b \in 1..n
        BY <2>1, <2>4
      <4> QED BY <4>1, UpOne
    <3>2. In(b) <=> Free(b)
      <4>1. b \in S
        BY <2>1
      <4> QED BY <2>4, <4>1
    <3>3. Free(k) <=> ~IsHandler(s, b) /\ Free(b)
      BY <3>1
    <3>4. In(k) <=> ~IsHandler(s, b) /\ In(b)
      BY <2>2, <2>4
    <3> HIDE DEF In, Free
    <3> QED BY <3>2, <3>3, <3>4
  <2> QED BY <2>3, <2>4
<1>3. \A k \in 0..n : k \in S
  <2> HIDE DEF S, n
  <2> QED BY <1>1, <1>2, FromBelow
<1>4. j \in S
  BY <1>1, <1>3
<1> QED BY <1>4
-----------------------------------------------------------------------------
\* What a search finds in each block, up to each statement, as the rows of a
\* table.
FoundTables(s) == [0..Len(s) -> [0..Len(s) -> Seq(1..Len(s))]]

Listed(s, U, i) ==
  IF ~s[i].block THEN <<>> ELSE IF IsHandler(s, i) THEN <<i>> ELSE U[i][Len(s)]

RowIsFound(s, U, b) ==
  /\ U[b][0] = <<>>
  /\ \A i \in 1..Len(s) :
       U[b][i] = IF s[i].parent = b THEN U[b][i - 1] \o Listed(s, U, i) ELSE U[b][i - 1]

IsFound(s, U) == U \in FoundTables(s) /\ \A b \in 0..Len(s) : RowIsFound(s, U, b)

LEMMA ListedType ==
  ASSUME NEW s \in Trees, NEW U \in FoundTables(s), NEW i \in 1..Len(s)
  PROVE  Listed(s, U, i) \in Seq(1..Len(s))
<1>1. Len(s) \in 0..Len(s) /\ i \in 0..Len(s)
  BY DEF Trees
<1>2. U[i][Len(s)] \in Seq(1..Len(s))
  BY <1>1 DEF FoundTables
<1>3. <<>> \in Seq(1..Len(s)) /\ <<i>> \in Seq(1..Len(s))
  OBVIOUS
<1> QED BY <1>2, <1>3 DEF Listed

\* Every tree has such a table.
LEMMA FoundExists ==
  ASSUME NEW s \in Trees
  PROVE  \E U : IsFound(s, U)
<1> DEFINE n == Len(s)
           From(k, U) == \A b \in 0..n : b > k => RowIsFound(s, U, b)
           S == Seq(1..n)
           good == {k \in 0..n : \E U \in FoundTables(s) : \A b \in 0..n : b >= k => RowIsFound(s, U, b)}
<1>1. n \in Nat
  BY DEF Trees
<1>2. ASSUME NEW k \in 0..n, \A m \in 0..n : m > k => m \in good PROVE k \in good
  <2>1. PICK U \in FoundTables(s) : \A b \in 0..n : b > k => RowIsFound(s, U, b)
    <3>1. CASE k = n
      <4> DEFINE U == [b \in 0..n |-> [i \in 0..n |-> <<>>]]
      <4>1. <<>> \in Seq(1..n)
        OBVIOUS
      <4>2. U \in FoundTables(s)
        BY <4>1 DEF FoundTables
      <4> HIDE DEF U
      <4> QED BY <1>1, <3>1, <4>2
    <3>2. CASE k # n
      <4>1. k + 1 \in good
        <5>1. k + 1 \in 0..n /\ k + 1 > k
          BY <1>1, <3>2
        <5> HIDE DEF good
        <5> QED BY <1>2, <5>1
      <4>2. PICK U \in FoundTables(s) : \A b \in 0..n : b >= k + 1 => RowIsFound(s, U, b)
        BY <4>1
      <4>3. \A b \in 0..n : b > k => b >= k + 1
        BY <1>1
      <4> QED BY <4>2, <4>3
    <3> QED BY <3>1, <3>2
  <2> DEFINE step == [i \in 1..n |-> [t \in S |->
                        IF s[i].parent = k THEN t \o Listed(s, U, i) ELSE t]]
             none == <<>>
  <2>2. step \in [1..n -> [S -> S]]
    <3>1. \A i \in 1..n : Listed(s, U, i) \in S
      BY ListedType
    <3>2. \A i \in 1..n, t \in S : t \o Listed(s, U, i) \in S
      BY <3>1, ConcatProperties
    <3> HIDE DEF S, n
    <3> QED BY <3>2
  <2>3. none \in S
    OBVIOUS
  <2>4. PICK h \in [0..n -> S] : h[0] = <<>> /\ \A i \in 1..n : h[i] = step[i][h[i - 1]]
    <3> HIDE DEF S, step, n, none
    <3>2. HasResults(S, n, none, step)
      BY <1>1, <2>2, <2>3, LoopHasResults, Zenon
    <3> QED BY <3>2 DEF none, HasResults
  <2>5. \A i \in 1..n :
          h[i] = IF s[i].parent = k THEN h[i - 1] \o Listed(s, U, i) ELSE h[i - 1]
    <3> SUFFICES ASSUME NEW i \in 1..n
        PROVE h[i] = IF s[i].parent = k THEN h[i - 1] \o Listed(s, U, i) ELSE h[i - 1]
      OBVIOUS
    <3>1. i - 1 \in 0..n
      BY <1>1
    <3>2. h[i - 1] \in S
      BY <3>1
    <3> HIDE DEF S
    <3> QED BY <2>4, <3>2
  <2> DEFINE V == [b \in 0..n |-> IF b = k THEN h ELSE U[b]]
  <2>6. V \in FoundTables(s)
    BY DEF FoundTables
  <2>7. ASSUME NEW i \in 1..n, s[i].parent >= k PROVE Listed(s, V, i) = Listed(s, U, i)
    <3>1. s[i].parent \in 0..i - 1
      BY DEF Trees
    <3>2. i # k /\ i \in 0..n
      BY <1>1, <2>7, <3>1
    <3>3. V[i] = U[i]
      BY <3>2
    <3> HIDE DEF V
    <3> QED BY <3>3 DEF Listed
  <2>8. ASSUME NEW b \in 0..n, b >= k PROVE RowIsFound(s, V, b)
    <3>0. \A i \in 1..n : s[i].parent = b => Listed(s, V, i) = Listed(s, U, i)
      BY <2>7, <2>8
    <3>1. CASE b = k
      <4>1. V[b] = h
        BY <3>1
      <4> HIDE DEF V
      <4> QED BY <2>4, <2>5, <3>0, <3>1, <4>1 DEF RowIsFound
    <3>2. CASE b # k
      <4>1. V[b] = U[b]
        BY <3>2
      <4>2. RowIsFound(s, U, b)
        BY <1>1, <2>1, <2>8, <3>2
      <4> HIDE DEF V
      <4> QED BY <3>0, <4>1, <4>2 DEF RowIsFound
    <3> QED BY <3>1, <3>2
  <2> QED BY <2>6, <2>8
<1>3. 0 \in good
  <2>1. 0 \in 0..n
    BY <1>1
  <2> HIDE DEF good
  <2> QED BY <1>1, <1>2, <2>1, FromAbove
<1>4. PICK U \in FoundTables(s) : \A b \in 0..n : b >= 0 => RowIsFound(s, U, b)
  BY <1>3
<1> QED BY <1>1, <1>4 DEF IsFound
-----------------------------------------------------------------------------
\* The loop of FindBlocks over one block, given what it finds in the others.
ListedWith(s, f, i) ==
  IF ~s[i].block THEN <<>> ELSE IF IsHandler(s, i) THEN <<i>> ELSE f[i]

Search(s, f, b, u) ==
  [i \in 0..Len(s) |->
     IF i = 0 THEN <<>>
     ELSE IF s[i].parent = b THEN u[i - 1] \o ListedWith(s, f, i) ELSE u[i - 1]]

FoundIn(s, f, b) == (CHOOSE u : u = Search(s, f, b, u))[Len(s)]

\* It makes the row of the table, if what it found in the others are rows.
LEMMA SearchIsRow ==
  ASSUME NEW s \in Trees, NEW U, IsFound(s, U), NEW b \in 0..Len(s), NEW f,
         \A i \in 1..Len(s) : s[i].parent = b => f[i] = U[i][Len(s)]
  PROVE  FoundIn(s, f, b) = U[b][Len(s)]
<1> DEFINE n == Len(s)
           row == U[b]
           u == CHOOSE v : v = Search(s, f, b, v)
           S == {i \in 0..n : u[i] = row[i]}
<1>1. n \in Nat /\ n \in 0..n /\ row \in [0..n -> Seq(1..n)]
  BY DEF Trees, IsFound, FoundTables
<1>2. row = Search(s, f, b, row)
  <2>1. ASSUME NEW i \in 1..n
        PROVE  row[i] = IF s[i].parent = b THEN row[i - 1] \o ListedWith(s, f, i) ELSE row[i - 1]
    <3>1. s[i].parent = b => Listed(s, U, i) = ListedWith(s, f, i)
      BY DEF Listed, ListedWith
    <3>2. row[i] = IF s[i].parent = b THEN row[i - 1] \o Listed(s, U, i) ELSE row[i - 1]
      BY DEF IsFound, RowIsFound
    <3> HIDE DEF row
    <3> QED BY <3>1, <3>2
  <2>2. row[0] = <<>>
    BY DEF IsFound, RowIsFound
  <2> HIDE DEF row, n
  <2>3. \A i \in 0..n : i # 0 => i \in 1..n
    BY <1>1
  <2>4. row = [i \in 0..n |-> row[i]]
    BY <1>1
  <2>5. \A i \in 0..n : row[i] = IF i = 0 THEN <<>>
          ELSE IF s[i].parent = b THEN row[i - 1] \o ListedWith(s, f, i) ELSE row[i - 1]
    BY <2>1, <2>2, <2>3, Zenon
  <2> QED BY <2>4, <2>5, Zenon DEF Search, n
<1>3. u = Search(s, f, b, u)
  <2> HIDE DEF row
  <2> QED BY <1>2
<1>4. \A k \in 0..n : (\A j \in 0..n : j < k => j \in S) => k \in S
  <2> SUFFICES ASSUME NEW k \in 0..n, \A j \in 0..n : j < k => j \in S PROVE u[k] = row[k]
    OBVIOUS
  <2>1. k # 0 => u[k - 1] = row[k - 1]
    <3>1. k # 0 => k - 1 \in 0..n /\ k - 1 < k
      BY <1>1
    <3> QED BY <3>1
  <2>2. u[k] = Search(s, f, b, u)[k] /\ row[k] = Search(s, f, b, row)[k]
    BY <1>2, <1>3, Zenon
  <2> HIDE DEF u, row
  <2> QED BY <2>1, <2>2 DEF Search
<1>5. n \in S
  <2> HIDE DEF S
  <2> QED BY <1>1, <1>4, FromBelow
<1> QED BY <1>5 DEF FoundIn

\* FindBlocks is the last entry of the row of the file.
LEMMA FindBlocksIsRow ==
  ASSUME statements \in Trees, NEW U, IsFound(statements, U)
  PROVE  FindBlocks("handler") = U[0][Len(statements)]
<1> DEFINE s == statements
           n == Len(s)
           Step(f) == [b \in 0..n |-> FoundIn(s, f, b)]
           found == CHOOSE f : f = Step(f)
           last == [b \in 0..n |-> U[b][n]]
           S == {b \in 0..n : found[b] = U[b][n]}
<1>1. n \in Nat /\ 0 \in 0..n
  BY DEF Trees
<1>2. FindBlocks("handler") = found[0]
  BY Zenon DEF FindBlocks, Blocks, FoundIn, Search, ListedWith, IsHandler, Key
<1>3. found = Step(found)
  <2>1. ASSUME NEW b \in 0..n PROVE FoundIn(s, last, b) = U[b][n]
    <3>1. \A i \in 1..n : last[i] = U[i][n]
      BY <1>1
    <3> HIDE DEF last
    <3> QED BY <3>1, SearchIsRow
  <2>2. last = Step(last)
    BY <2>1
  <2> HIDE DEF last, Step
  <2> QED BY <2>2
<1>4. \A k \in 0..n : (\A j \in 0..n : j > k => j \in S) => k \in S
  <2> SUFFICES ASSUME NEW k \in 0..n, \A j \in 0..n : j > k => j \in S
               PROVE  found[k] = U[k][n]
    OBVIOUS
  <2>1. ASSUME NEW i \in 1..n, s[i].parent = k PROVE found[i] = U[i][n]
    <3>1. i \in 0..n /\ i > k
      BY <1>1, <2>1 DEF Trees
    <3> QED BY <3>1
  <2> HIDE DEF found
  <2>2. FoundIn(s, found, k) = U[k][n]
    BY <2>1, SearchIsRow
  <2>3. found[k] = FoundIn(s, found, k)
    BY <1>3
  <2> QED BY <2>2, <2>3
<1>5. 0 \in S
  <2> HIDE DEF S
  <2> QED BY <1>1, <1>4, FromAbove
<1> HIDE DEF found
<1> QED BY <1>2, <1>5
-----------------------------------------------------------------------------
\* q holds the members of S, the smaller ones first.
Lists(q, S) ==
  /\ \A x : x \in S <=> \E k \in 1..Len(q) : q[k] = x
  /\ \A k \in 1..Len(q), m \in 1..Len(q) : k < m => q[k] < q[m]

LEMMA ListsConcat ==
  ASSUME NEW A, A \subseteq Nat, NEW q \in Seq(A), NEW r \in Seq(A), NEW S, NEW T,
         Lists(q, S), Lists(r, T), \A x \in S, y \in T : x < y
  PROVE  Lists(q \o r, S \cup T)
<1> DEFINE u == q \o r
           a == Len(q)
           b == Len(r)
<1>1. a \in Nat /\ b \in Nat
  OBVIOUS
<1>2. /\ Len(u) = a + b
      /\ \A k \in 1..a : u[k] = q[k] /\ k \in 1..a + b
      /\ \A k \in 1..b : u[a + k] = r[k] /\ a + k \in 1..a + b
      /\ \A k \in 1..a + b : k \in 1..a \/ k - a \in 1..b
  BY ConcatProperties
<1>3. /\ \A x : x \in S <=> \E k \in 1..a : q[k] = x
      /\ \A k \in 1..a, m \in 1..a : k < m => q[k] < q[m]
      /\ \A x : x \in T <=> \E k \in 1..b : r[k] = x
      /\ \A k \in 1..b, m \in 1..b : k < m => r[k] < r[m]
  BY DEF Lists
<1>4. \A k \in 1..a + b : k - a \in 1..b => u[k] = r[k - a]
  <2> SUFFICES ASSUME NEW k \in 1..a + b, k - a \in 1..b PROVE u[k] = r[k - a]
    OBVIOUS
  <2>1. a + (k - a) = k
    BY <1>1
  <2> HIDE DEF u, a, b
  <2> QED BY <1>2, <2>1
<1> HIDE DEF u, a, b
<1>5. \A x : x \in S \cup T <=> \E k \in 1..a + b : u[k] = x
  <2> SUFFICES ASSUME NEW x PROVE x \in S \cup T <=> \E k \in 1..a + b : u[k] = x
    OBVIOUS
  <2>1. x \in S => \E k \in 1..a + b : u[k] = x
    BY <1>2, <1>3
  <2>2. x \in T => \E k \in 1..a + b : u[k] = x
    BY <1>2, <1>3
  <2>3. ASSUME NEW k \in 1..a + b, u[k] = x PROVE x \in S \cup T
    BY <1>2, <1>3, <1>4, <2>3
  <2> QED BY <2>1, <2>2, <2>3
<1>6. ASSUME NEW k \in 1..a + b, NEW m \in 1..a + b, k < m PROVE u[k] < u[m]
  <2>1. CASE m \in 1..a
    <3>1. k \in 1..a
      BY <1>1, <1>6, <2>1
    <3> QED BY <1>2, <1>3, <1>6, <2>1, <3>1
  <2>2. CASE k \in 1..a /\ m - a \in 1..b
    <3>1. u[k] = q[k] /\ u[m] = r[m - a]
      BY <1>2, <1>4, <2>2
    <3>2. u[k] \in S /\ u[m] \in T
      BY <1>3, <2>2, <3>1
    <3> QED BY <3>2
  <2>3. CASE k - a \in 1..b /\ m - a \in 1..b
    <3>1. k - a < m - a
      BY <1>1, <1>6
    <3>2. u[k] = r[k - a] /\ u[m] = r[m - a]
      BY <1>4, <2>3
    <3> QED BY <1>3, <2>3, <3>1, <3>2
  <2> QED BY <1>2, <2>1, <2>2, <2>3
<1> QED BY <1>2, <1>5, <1>6, Zenon DEF Lists, u

\* What a search of block b comes to before it gets to statement i + 1: the
\* handler blocks in statements of b up to i.
Contents(s, b, i) ==
  {j \in 1..Len(s) :
     /\ s[j].block /\ IsHandler(s, j)
     /\ \E c \in Through(s, j) : c <= i /\ s[c].parent = b}

\* What it finds in one statement.
ContentsOf(s, i) == {j \in 1..Len(s) : s[j].block /\ IsHandler(s, j) /\ i \in Through(s, j)}

LEMMA ListedIsContents ==
  ASSUME NEW s \in Trees, InBlocks(s), NEW U, NEW i \in 1..Len(s),
         Lists(U[i][Len(s)], Contents(s, i, Len(s)))
  PROVE  Lists(Listed(s, U, i), ContentsOf(s, i))
<1> DEFINE n == Len(s)
<1>1. n \in Nat /\ i \in 1..n
  BY DEF Trees
<1>2. i \in Through(s, i)
  BY ThroughOne
<1>3. CASE ~s[i].block
  <2>1. ContentsOf(s, i) = {}
    BY <1>3, NotThroughHandlers DEF ContentsOf
  <2>2. Listed(s, U, i) = <<>> /\ Len(<<>>) = 0
    BY <1>3 DEF Listed
  <2> QED BY <2>1, <2>2 DEF Lists
<1>4. CASE s[i].block /\ IsHandler(s, i)
  <2>1. ContentsOf(s, i) = {i}
    BY <1>2, <1>4, NotThroughHandlers DEF ContentsOf
  <2> DEFINE q == <<i>>
  <2>2. Listed(s, U, i) = q
    BY <1>4 DEF Listed
  <2>3. Len(q) = 1 /\ q[1] = i
    OBVIOUS
  <2> HIDE DEF q
  <2>4. Lists(q, {i})
    BY <2>3 DEF Lists
  <2> QED BY <2>1, <2>2, <2>4
<1>5. CASE s[i].block /\ ~IsHandler(s, i)
  <2>1. Listed(s, U, i) = U[i][n]
    BY <1>5 DEF Listed
  <2>2. ASSUME NEW j \in 1..n, IsHandler(s, j)
        PROVE  i \in Through(s, j) <=> \E c \in Through(s, j) : c <= n /\ s[c].parent = i
    <3>1. j # i
      BY <1>5, <2>2
    <3>2. i \in Through(s, j) <=> \E c \in Through(s, j) : s[c].parent = i
      BY <1>5, <3>1, ThroughChildren
    <3>3. \A c \in Through(s, j) : c <= n
      <4>1. Through(s, j) \subseteq 1..j
        BY ThroughOne
      <4> QED BY <1>1, <4>1
    <3> QED BY <3>2, <3>3
  <2>3. ContentsOf(s, i) = Contents(s, i, n)
    BY <2>2 DEF ContentsOf, Contents
  <2> QED BY <2>1, <2>3
<1> QED BY <1>3, <1>4, <1>5

\* A row goes on with what is in the next statement of its block.
LEMMA ContentsStep ==
  ASSUME NEW s \in Trees, Preorder(s), NEW b \in 0..Len(s), NEW i \in 1..Len(s)
  PROVE  /\ s[i].parent # b => Contents(s, b, i) = Contents(s, b, i - 1)
         /\ s[i].parent = b =>
              /\ Contents(s, b, i) = Contents(s, b, i - 1) \cup ContentsOf(s, i)
              /\ \A x \in Contents(s, b, i - 1), y \in ContentsOf(s, i) : x < y
<1> DEFINE n == Len(s)
<1>1. n \in Nat /\ i \in Nat
  BY DEF Trees
<1>2. \A j \in 1..n : \A c \in Through(s, j) : c \in 1..n /\ c <= j /\ (c <= i <=> c <= i - 1 \/ c = i)
  <2> SUFFICES ASSUME NEW j \in 1..n, NEW c \in Through(s, j)
               PROVE  c \in 1..n /\ c <= j /\ (c <= i <=> c <= i - 1 \/ c = i)
    OBVIOUS
  <2>1. c \in 1..j
    BY ThroughOne
  <2> QED BY <1>1, <2>1
<1>3. CASE s[i].parent # b
  BY <1>2, <1>3 DEF Contents
<1>4. CASE s[i].parent = b
  <2>1. Contents(s, b, i) = Contents(s, b, i - 1) \cup ContentsOf(s, i)
    BY <1>2, <1>4 DEF Contents, ContentsOf
  <2>2. ASSUME NEW x \in Contents(s, b, i - 1), NEW y \in ContentsOf(s, i) PROVE x < y
    <3>1. PICK c \in Through(s, x) : c <= i - 1 /\ s[c].parent = b
      BY DEF Contents
    <3>2. x \in 1..n /\ y \in 1..n /\ i \in Through(s, y)
      BY DEF Contents, ContentsOf
    <3>3. c \in 1..n /\ b < c /\ c < i
      <4>1. c \in 1..n
        BY <1>2, <3>2
      <4> QED BY <1>1, <3>1, <4>1 DEF Trees
    <3>4. x < i
      BY <1>4, <3>2, <3>3, InsideIsBefore
    <3>5. i <= y
      BY <1>2, <3>2
    <3> QED BY <1>1, <3>2, <3>4, <3>5
  <2> QED BY <1>4, <2>1, <2>2
<1> QED BY <1>3, <1>4

\* So the rows list what the search comes to, in the order of the file.
LEMMA RowLists ==
  ASSUME NEW s \in Trees, Preorder(s), InBlocks(s), NEW U, IsFound(s, U)
  PROVE  Lists(U[0][Len(s)], Contents(s, 0, Len(s)))
<1> DEFINE n == Len(s)
           S == {b \in 0..n : Lists(U[b][n], Contents(s, b, n))}
<1>1. n \in Nat /\ 0 \in 0..n /\ n \in 0..n
  BY DEF Trees
<1>2. U \in FoundTables(s)
  BY DEF IsFound
<1>3. ASSUME NEW b \in 0..n, \A j \in 0..n : j > b => j \in S PROVE b \in S
  <2> DEFINE T == {i \in 0..n : Lists(U[b][i], Contents(s, b, i))}
  <2>1. ASSUME NEW i \in 0..n, \A j \in 0..n : j < i => j \in T PROVE i \in T
    <3>1. CASE i = 0
      <4>1. U[b][0] = <<>> /\ Len(<<>>) = 0
        BY DEF IsFound, RowIsFound
      <4>2. \A j \in 1..n : \A c \in Through(s, j) : ~(c <= 0)
        <5> SUFFICES ASSUME NEW j \in 1..n, NEW c \in Through(s, j) PROVE ~(c <= 0)
          OBVIOUS
        <5>1. c \in 1..j
          BY ThroughOne
        <5> QED BY <5>1
      <4>3. Contents(s, b, 0) = {}
        BY <4>2 DEF Contents
      <4>4. Lists(U[b][0], {})
        BY <4>1 DEF Lists
      <4> QED BY <3>1, <4>3, <4>4
    <3>2. CASE i # 0
      <4>1. i \in 1..n /\ i - 1 \in 0..n /\ i - 1 < i
        BY <1>1, <3>2
      <4>2. Lists(U[b][i - 1], Contents(s, b, i - 1))
        BY <2>1, <4>1
      <4>3. U[b][i] = IF s[i].parent = b THEN U[b][i - 1] \o Listed(s, U, i) ELSE U[b][i - 1]
        BY <4>1 DEF IsFound, RowIsFound
      <4>4. CASE s[i].parent # b
        <5>1. Contents(s, b, i) = Contents(s, b, i - 1)
          BY <4>1, <4>4, ContentsStep
        <5> QED BY <4>2, <4>3, <4>4, <5>1
      <4>5. CASE s[i].parent = b
        <5>1. i > b
          BY <4>1, <4>5 DEF Trees
        <5>2. Lists(Listed(s, U, i), ContentsOf(s, i))
          <6>1. i \in S
            BY <1>3, <5>1
          <6> QED BY <4>1, <6>1, ListedIsContents
        <5>3. U[b][i - 1] \in Seq(1..n) /\ Listed(s, U, i) \in Seq(1..n)
          BY <1>2, <4>1, ListedType DEF FoundTables
        <5>4. /\ Contents(s, b, i) = Contents(s, b, i - 1) \cup ContentsOf(s, i)
              /\ \A x \in Contents(s, b, i - 1), y \in ContentsOf(s, i) : x < y
          BY <4>1, <4>5, ContentsStep
        <5>5. 1..n \subseteq Nat
          BY <1>1
        <5>6. Lists(U[b][i - 1] \o Listed(s, U, i), Contents(s, b, i - 1) \cup ContentsOf(s, i))
          <6> DEFINE q == U[b][i - 1]
                     r == Listed(s, U, i)
          <6> HIDE DEF q, r, n
          <6> QED BY <4>2, <5>2, <5>3, <5>4, <5>5, ListsConcat, Zenon DEF q, r
        <5> QED BY <4>3, <4>5, <5>4, <5>6
      <4> QED BY <4>4, <4>5
    <3> QED BY <3>1, <3>2
  <2>2. n \in T
    <3> HIDE DEF T
    <3> QED BY <1>1, <2>1, FromBelow
  <2> QED BY <2>2
<1>4. 0 \in S
  <2> HIDE DEF S
  <2> QED BY <1>1, <1>3, FromAbove
<1> QED BY <1>4

\* Ancestors of a statement are the blocks around its parent.
LEMMA AncestorsAreUp ==
  ASSUME NEW i
  PROVE  Ancestors(i) = Up(statements)[statements[i].parent]
BY Zenon DEF Ancestors, Up, UpStep, Blocks

LEMMA FindsHandlersInOrder ==
  ASSUME statements \in Trees, Preorder(statements), InBlocks(statements)
  PROVE  HandlersInFileOrder
<1> DEFINE s == statements
           n == Len(s)
           found == FindBlocks("handler")
           H == {i \in DOMAIN s : /\ s[i].block /\ Key(i) = "handler"
                                  /\ \A j \in Ancestors(i) : Key(j) # "handler"}
<1>1. n \in Nat /\ DOMAIN s = 1..n
  BY DEF Trees
<1>2. PICK U : IsFound(s, U)
  BY FoundExists
<1>3. found = U[0][n]
  BY <1>2, FindBlocksIsRow
<1>4. found \in Seq(1..n) /\ DOMAIN found = 1..Len(found)
  <2>1. 0 \in 0..n /\ n \in 0..n
    BY <1>1
  <2>2. U[0][n] \in Seq(1..n)
    BY <1>2, <2>1 DEF IsFound, FoundTables
  <2> HIDE DEF found
  <2> QED BY <1>3, <2>2
<1>5. Lists(found, Contents(s, 0, n))
  BY <1>2, <1>3, RowLists
<1>6. Contents(s, 0, n) = H
  <2>1. \A i : Key(i) = "handler" <=> IsHandler(s, i)
    BY DEF Key, IsHandler
  <2>2. ASSUME NEW j \in 1..n
        PROVE  (\E c \in Through(s, j) : c <= n /\ s[c].parent = 0)
                 <=> \A a \in Ancestors(j) : Key(a) # "handler"
    <3>1. Through(s, j) \subseteq 1..j
      BY ThroughOne
    <3>2. \A c \in Through(s, j) : c <= n
      BY <1>1, <3>1
    <3> QED BY <2>1, <3>2, ThroughFile, AncestorsAreUp
  <2> QED BY <1>1, <2>1, <2>2 DEF Contents
<1> HIDE DEF found, H
<1>7. ToSet(found) = H
  BY <1>4, <1>5, <1>6 DEF Lists, ToSet
<1>8. \A k, m \in DOMAIN found : k < m => found[k] < found[m]
  BY <1>4, <1>5 DEF Lists
<1> QED BY <1>7, <1>8 DEF HandlersInFileOrder, found, H
-----------------------------------------------------------------------------
\* The statements are numbered as the search meets them, and no block that is
\* open lies behind what is around a statement and before it.
OrderInv ==
  /\ Preorder(statements) /\ InBlocks(statements)
  /\ \A k \in 1..Len(config_stack), i \in 1..Len(statements) :
       config_stack[k] <= statements[i].parent \/ config_stack[k] >= i

\* A word that begins a statement of the innermost block.
LEMMA FirstWordOrder ==
  ASSUME ParserInv, ParserInv', TextInv, OrderInv, NEW word \in Words \cup Quoted,
         config_stack' = config_stack,
         statements' = Append(statements, [tokens |-> <<word>>, parent |-> Top, block |-> FALSE])
  PROVE  OrderInv'
<1> DEFINE s == statements
           t == statements'
           n == Len(s)
           d == Len(config_stack)
           stack == config_stack
<1>1. /\ s \in Trees /\ n \in Nat /\ d \in Nat \ {0} /\ Top = stack[d]
      /\ \A k \in 1..d : stack[k] \in 0..n
  BY Bounds
<1>2. /\ Len(t) = n + 1 /\ \A i \in 1..n : t[i] = s[i]
      /\ t[n + 1].parent = stack[d]
  BY <1>1, FirstWordTree
<1>3. stack[1] = 0 /\ Nested(s, n, stack, d) /\ Ascending(stack, d)
  BY DEF TextInv, Stacked
<1>4. /\ Preorder(s) /\ InBlocks(s)
      /\ \A k \in 1..d, i \in 1..n : stack[k] <= s[i].parent \/ stack[k] >= i
  BY DEF OrderInv
<1>5. \A i \in 1..n : s[i].parent \in 0..i - 1
  BY <1>1 DEF Trees
<1>6. \A i \in 1..n + 1 : i \in 1..n \/ i = n + 1
  BY <1>1
<1>7. n = Len(s)
  OBVIOUS
<1> HIDE DEF s, t, n, d, stack
<1>8. Preorder(t)
  <2> SUFFICES ASSUME NEW i \in 1..n + 1, NEW j \in 1..n + 1, i < j
      PROVE  t[j].parent <= t[i].parent \/ t[j].parent >= i
    BY <1>2 DEF Preorder
  <2>1. i \in 1..n /\ t[i] = s[i]
    BY <1>1, <1>2
  <2>2. CASE j = n + 1
    BY <1>1, <1>2, <1>4, <2>1, <2>2
  <2>3. CASE j \in 1..n
    BY <1>2, <1>4, <1>7, <2>1, <2>3 DEF Preorder
  <2> QED BY <1>6, <2>2, <2>3
<1>9. InBlocks(t)
  <2> SUFFICES ASSUME NEW i \in 1..n + 1, t[i].parent # 0
      PROVE  t[t[i].parent].block
    BY <1>2 DEF InBlocks
  <2>1. CASE i = n + 1
    <3>1. d \in 2..d /\ t[i].parent = stack[d]
      BY <1>1, <1>2, <1>3, <2>1
    <3>2. stack[d] \in 1..n /\ s[stack[d]].block
      BY <1>3, <3>1 DEF Nested
    <3> QED BY <1>2, <3>1, <3>2
  <2>2. CASE i \in 1..n
    <3>1. t[i] = s[i] /\ s[i].parent \in 1..n
      BY <1>1, <1>2, <1>5, <2>2
    <3>2. s[s[i].parent].block
      BY <1>4, <1>7, <2>2, <3>1 DEF InBlocks
    <3> QED BY <1>2, <3>1, <3>2
  <2> QED BY <1>6, <2>1, <2>2
<1>10. \A k \in 1..d, i \in 1..n + 1 : stack[k] <= t[i].parent \/ stack[k] >= i
  <2> SUFFICES ASSUME NEW k \in 1..d, NEW i \in 1..n + 1
      PROVE  stack[k] <= t[i].parent \/ stack[k] >= i
    OBVIOUS
  <2>1. CASE i = n + 1
    <3>1. k = d \/ stack[k] < stack[d]
      BY <1>1, <1>3 DEF Ascending
    <3> QED BY <1>1, <1>2, <2>1, <3>1
  <2>2. CASE i \in 1..n
    BY <1>2, <1>4, <2>2
  <2> QED BY <1>6, <2>1, <2>2
<1> QED BY <1>2, <1>8, <1>9, <1>10 DEF OrderInv, t, stack, d

\* A word, or the beginning of a block, for the last statement.
LEMMA LastChangedOrder ==
  ASSUME ParserInv, ParserInv', TextInv, OrderInv, last_token_type = "normal", NEW e,
         statements' = [statements EXCEPT ![Back] = e],
         e.parent = statements[Back].parent, statements[Back].block => e.block,
         config_stack' = config_stack \/ config_stack' = Append(config_stack, Back)
  PROVE  OrderInv'
<1> DEFINE s == statements
           t == statements'
           n == Len(s)
           d == Len(config_stack)
           stack == config_stack
           longer == config_stack'
<1>1. /\ d \in Nat \ {0} /\ \A k \in 1..d : stack[k] \in 0..n
  BY Bounds
<1>2. /\ Len(t) = n /\ Back = n /\ n \in Nat \ {0} /\ t[n] = e
      /\ \A i \in 1..n : t[i].parent = s[i].parent /\ (i # n => t[i] = s[i])
  BY LastChangedTree, Zenon
<1>3. /\ Preorder(s) /\ InBlocks(s)
      /\ \A k \in 1..d, i \in 1..n : stack[k] <= s[i].parent \/ stack[k] >= i
  BY DEF OrderInv
<1>4. \A k \in 1..Len(longer) : longer[k] = n \/ (k \in 1..d /\ longer[k] = stack[k])
  <2>1. CASE longer = stack
    BY <2>1
  <2>2. CASE longer = Append(stack, Back)
    <3>1. stack \in Seq(Blocks) /\ Back \in Blocks
      <4>1. n \in Blocks
        <5>1. n \in 0..n
          <6> HIDE DEF n
          <6> QED BY <1>2
        <5> QED BY <5>1 DEF Blocks
      <4> QED BY <1>2, <4>1 DEF ParserInv, ParserTypeOK
    <3>2. /\ Len(Append(stack, Back)) = d + 1
          /\ Append(stack, Back)[d + 1] = Back
          /\ \A k \in 1..d : Append(stack, Back)[k] = stack[k]
      BY <3>1, AppendProperties
    <3>3. \A k \in 1..d + 1 : k = d + 1 \/ k \in 1..d
      BY <1>1
    <3>4. /\ Len(longer) = d + 1 /\ longer[d + 1] = n
          /\ \A k \in 1..d : longer[k] = stack[k]
      BY <1>2, <2>2, <3>2, Zenon
    <3> HIDE DEF stack, longer, d, n
    <3>5. 1..Len(longer) = 1..d + 1
      BY <3>4, Zenon
    <3> QED BY <3>3, <3>4, <3>5, Zenon
  <2> QED BY <2>1, <2>2
<1>5. n = Len(s) /\ (s[n].block => e.block)
  BY <1>2
<1>6. \A i \in 1..n : s[i].parent \in 0..n
  <2>1. \A i \in 1..n : s[i].parent \in 0..i - 1
    <3>1. s \in Trees
      BY Bounds
    <3> QED BY <3>1 DEF Trees
  <2> HIDE DEF s, n
  <2>2. \A i \in 1..n : i - 1 <= n
    BY <1>2
  <2> QED BY <1>2, <2>1, <2>2
<1> HIDE DEF s, t, n, d, stack, longer
<1>7. Preorder(t)
  BY <1>2, <1>3, <1>5 DEF Preorder
<1>8. InBlocks(t)
  <2> SUFFICES ASSUME NEW i \in 1..n, t[i].parent # 0 PROVE t[t[i].parent].block
    BY <1>2 DEF InBlocks
  <2> DEFINE b == s[i].parent
  <2>1. s[b].block /\ t[i].parent = b
    BY <1>2, <1>3, <1>5 DEF InBlocks
  <2>2. b \in 1..n
    BY <1>2, <1>6, <2>1
  <2> HIDE DEF b
  <2> QED BY <1>2, <1>5, <2>1, <2>2
<1>9. \A k \in 1..Len(longer), i \in 1..n : longer[k] <= t[i].parent \/ longer[k] >= i
  <2> SUFFICES ASSUME NEW k \in 1..Len(longer), NEW i \in 1..n
      PROVE  longer[k] <= t[i].parent \/ longer[k] >= i
    OBVIOUS
  <2>1. CASE longer[k] = n
    BY <1>2, <2>1
  <2>2. CASE k \in 1..d /\ longer[k] = stack[k]
    BY <1>2, <1>3, <2>2
  <2> QED BY <1>4, <2>1, <2>2
<1> QED BY <1>2, <1>7, <1>8, <1>9 DEF OrderInv, t, longer

\* Every character keeps it.
LEMMA ParserStepOrder ==
  ASSUME ParserInv, ParserInv', TextInv, OrderInv, ParserStep
  PROVE  OrderInv'
<1>1. CASE UNCHANGED <<statements, config_stack>>
  BY <1>1 DEF OrderInv
<1>2. ASSUME NEW word \in Words \cup Quoted, Normal(word) PROVE OrderInv'
  <2>1. config_stack' = config_stack
    BY <1>2 DEF Normal
  <2>2. CASE last_token_type # "normal"
    <3>1. statements' = Append(statements, [tokens |-> <<word>>, parent |-> Top, block |-> FALSE])
      BY <1>2, <2>2, Zenon DEF Normal
    <3> QED BY <2>1, <3>1, FirstWordOrder, Zenon
  <2>3. CASE last_token_type = "normal"
    <3> DEFINE old == statements[Back]
               e == [old EXCEPT !.tokens = Append(@, word)]
    <3>1. statements' = [statements EXCEPT ![Back] = e]
      BY <1>2, <2>3 DEF Normal
    <3>2. old \in Statement
      BY <2>3, BackIsLast DEF ParserInv
    <3>3. e.parent = old.parent /\ e.block = old.block
      <4> HIDE DEF old
      <4> QED BY <3>2 DEF Statement
    <3> HIDE DEF e
    <3> QED BY <2>1, <2>3, <3>1, <3>3, LastChangedOrder, Zenon
  <2> QED BY <2>2, <2>3
<1>3. CASE StartBlock /\ ~UNCHANGED <<statements, config_stack>>
  <2> DEFINE old == statements[Back]
             e == [old EXCEPT !.block = TRUE]
  <2>1. /\ last_token_type = "normal"
        /\ config_stack' = Append(config_stack, Back)
        /\ statements' = [statements EXCEPT ![Back] = e]
    BY <1>3 DEF StartBlock, Throw
  <2>2. old \in Statement
    BY <2>1, BackIsLast DEF ParserInv
  <2>3. e.parent = old.parent /\ e.block
    <3> HIDE DEF old
    <3> QED BY <2>2 DEF Statement
  <2> HIDE DEF e
  <2> QED BY <2>1, <2>3, LastChangedOrder, Zenon
<1>4. CASE EndBlock /\ ~UNCHANGED <<statements, config_stack>>
  <2>1. /\ config_stack' = Front(config_stack) /\ statements' = statements
        /\ block_count # 0
    BY <1>4 DEF EndBlock, Throw
  <2>2. config_stack \in Seq(Blocks) /\ Len(config_stack) \in Nat \ {0, 1}
    BY <2>1, OpenBlocks, Bounds DEF ParserInv, ParserTypeOK
  <2>3. /\ Len(config_stack') = Len(config_stack) - 1
        /\ \A k \in 1..Len(config_stack) - 1 : config_stack'[k] = config_stack[k]
    BY <2>1, <2>2, FrontProperties
  <2>4. \A k \in 1..Len(config_stack') :
          k \in 1..Len(config_stack) /\ config_stack'[k] = config_stack[k]
    BY <2>2, <2>3
  <2> QED BY <2>1, <2>4 DEF OrderInv
<1> QED
  BY <1>1, <1>2, <1>3, <1>4 DEF ParserStep, StatementEnd, EndOfFile, Goes, Throw

\* The handlers of an accepted file are found in its order (config_parser.cc
\* 76-106 after 238-320).
THEOREM HandlersAreFound == Spec => []HandlersInFileOrder
<1>1. Init => OrderInv
  <2> SUFFICES ASSUME Init PROVE OrderInv
    OBVIOUS
  <2>1. statements = <<>> /\ Len(statements) = 0
    BY DEF Init, ParserInit
  <2> QED BY <2>1 DEF OrderInv, Preorder, InBlocks
<1>2. ParserInv /\ ParserInv' /\ TextInv /\ OrderInv /\ [Next]_<<parserVars, mainVars>>
        => OrderInv'
  <2> SUFFICES ASSUME ParserInv, ParserInv', TextInv, OrderInv,
                      [Next]_<<parserVars, mainVars>>
               PROVE  OrderInv'
    OBVIOUS
  <2>1. CASE Parse
    <3>1. PICK c \in Characters \cup {EOF} : Character(c)
      BY <2>1 DEF Parse, ParserNext
    <3> QED BY <3>1, CharacterCases, ParserStepOrder
  <2>2. CASE UNCHANGED parserVars
    <3>1. UNCHANGED <<statements, config_stack>>
      BY <2>2 DEF parserVars
    <3> QED BY <3>1 DEF OrderInv
  <2> QED
    BY <2>1, <2>2 DEF Next, CheckArguments, OpenFile, ReadPort, ReadPool, InitDatabase,
       Bind, Over
<1>3. ParserInv /\ OrderInv => HandlersInFileOrder
  BY Bounds, FindsHandlersInOrder DEF OrderInv
<1> QED BY <1>1, <1>2, <1>3, ParserCorrect, AlwaysText, PTL DEF Spec
=============================================================================
