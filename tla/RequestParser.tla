--------------------------- MODULE RequestParser ----------------------------
(***************************************************************************)
(* Request::ParseRequest and set_params.  A message is a sequence of words *)
(* and of the characters the parser looks for: space, \r, \n, = and &.     *)
(* The method POST is the two words "POS" and "T", so that the first word  *)
(* of a message is the three characters that ParseRequest removes when     *)
(* there is no end of the headers.                                         *)
(***************************************************************************)
EXTENDS Naturals, Sequences, SequencesExt, FiniteSetsExt

SP == " "

Places(s, pattern) ==
  {i \in 1..Len(s) + 1 - Len(pattern) : IsPrefix(pattern, SubSeq(s, i, Len(s)))}

Before(s, c) == IF Contains(s, c) THEN SubSeq(s, 1, Min(Places(s, <<c>>)) - 1) ELSE s
After(s, c) == SubSeq(s, Min(Places(s, <<c>>)) + 1, Len(s))

-----------------------------------------------------------------------------
\* What the loop over the characters sees: it stops at the first \r.
RequestLine(message) == Before(message, "\r")

\* A space at the start, or two in a row.
BadSpaces(line) ==
  \/ line # <<>> /\ line[1] = SP
  \/ Places(line, <<SP, SP>>) # {}

\* method, url and version, each up to a space; what follows a third space is
\* dropped.
Behind(s, c) == IF Contains(s, c) THEN After(s, c) ELSE <<>>

Method(message) == Before(RequestLine(message), SP)
Uri(message) == Before(Behind(RequestLine(message), SP), SP)
Version(message) == Before(Behind(Behind(RequestLine(message), SP), SP), SP)

Get == <<"GET">>
Post == <<"POS", "T">>

\* Mutant of Valid: the version is not looked at.
ValidOfAnyVersion(message) ==
  /\ ~BadSpaces(RequestLine(message))
  /\ Method(message) \in {Get, Post}

Valid(message) ==
  /\ ~BadSpaces(RequestLine(message))
  /\ Method(message) \in {Get, Post}
  /\ Version(message) = <<"HTTP/1.1">>

HeadersEnd == <<"\r", "\n", "\r", "\n">>

\* Without an end of the headers npos + 4 is 3: the body begins after the
\* first three characters of the request line.
Body(message) ==
  IF Places(message, HeadersEnd) = {}
  THEN Tail(message)
  ELSE SubSeq(message, Min(Places(message, HeadersEnd)) + 4, Len(message))

\* The last words of a body, which are what set_params has left of it.
Rest(body, left) == SubSeq(body, Len(body) + 1 - left, Len(body))

\* A value of the map is replaced by a later one of its key.
WithEarlier(later, key, value) ==
  [k \in DOMAIN later \cup {key} |-> IF k \in DOMAIN later THEN later[k] ELSE value]

\* Mutant of Params: the last value is lost when no & follows it.
ParamsBeforeAnd(body) ==
  LET params[left \in 0..Len(body)] ==
        LET rest == Rest(body, left)
            value == After(rest, "=")
        IN  IF ~Contains(rest, "=") \/ ~Contains(value, "&") THEN <<>>
            ELSE WithEarlier(params[Len(After(value, "&"))], Before(rest, "="), Before(value, "&"))
  IN  params[Len(body)]

\* set_params and GetParams: the value of a key goes up to the next &, and a
\* later value replaces an earlier one.  Without an & the rest is searched
\* for another = all the same.
Params(body) ==
  LET params[left \in 0..Len(body)] ==
        LET rest == Rest(body, left)
            value == After(rest, "=")
            next == IF Contains(value, "&") THEN After(value, "&") ELSE value
        IN  IF ~Contains(rest, "=") THEN <<>>
            ELSE WithEarlier(params[Len(next)], Before(rest, "="), Before(value, "&"))
  IN  params[Len(body)]

\* operator[] of the map: a key that is missing has the empty value.
Param(params, key) == IF <<key>> \in DOMAIN params THEN params[<<key>>] ELSE <<>>
=============================================================================
