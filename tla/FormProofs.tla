------------------------------ MODULE FormProofs ----------------------------
(***************************************************************************)
(* Proofs about MemeForm: what is in the table, the form and the messages, *)
(* and that the texts of a meme get through the request parser, the table  *)
(* and the pages.                                                          *)
(***************************************************************************)
EXTENDS MemeForm, DataLemmas

-----------------------------------------------------------------------------
\* The space is a word of its own.
LEMMA SpaceDiffers ==
  SP \notin {"\r", "\n", "HTTP/1.1", "cut", "GET", "POS", "T", "=", "&", "+", "?", "%",
             "a", "b", "0", "'", "id", "Host", "/meme/create", "/meme/delete",
             "template_id", "top_text", "bottom_text", "update", "selected"}
BY Zenon DEF SP

\* The places of a single word.
PlacesOf(s, c) == {i \in 1..Len(s) : s[i] = c}

LEMMA PlacesOfWord ==
  ASSUME NEW S, NEW s \in Seq(S), NEW c
  PROVE  Places(s, <<c>>) = PlacesOf(s, c)
<1>1. Len(<<c>>) = 1 /\ Len(s) \in Nat /\ Len(s) + 1 - 1 = Len(s)
  OBVIOUS
<1>2. ASSUME NEW i \in 1..Len(s)
      PROVE  IsPrefix(<<c>>, SubSeq(s, i, Len(s))) <=> s[i] = c
  <2> DEFINE t == SubSeq(s, i, Len(s))
  <2>1. t \in Seq(S) /\ Len(t) = Len(s) - i + 1 /\ t[1] = s[i]
    OBVIOUS
  <2> HIDE DEF t
  <2>2. 1 <= Len(t)
    BY <2>1
  <2>3. SubSeq(<<c>>, 1, 1) = <<c>> /\ SubSeq(t, 1, 1) = <<t[1]>>
    <3>1. <<c>> \in Seq({c}) /\ Len(<<c>>) = 1
      OBVIOUS
    <3>2. SubSeq(<<c>>, 1, 1) = <<c>>
      BY <3>1, SubSeqFull
    <3>3. SubSeq(t, 1, 1) \in Seq(S) /\ Len(SubSeq(t, 1, 1)) = 1 /\ SubSeq(t, 1, 1)[1] = t[1]
      BY <2>1, <2>2
    <3>4. <<t[1]>> \in Seq(S) /\ Len(<<t[1]>>) = 1 /\ <<t[1]>>[1] = t[1]
      BY <2>1, <2>2
    <3>5. SubSeq(t, 1, 1) = <<t[1]>>
      <4> DEFINE u == SubSeq(t, 1, 1)
                 v == <<t[1]>>
      <4>1. u \in Seq(S) /\ v \in Seq(S) /\ Len(u) = Len(v) /\ \A j \in 1..Len(u) : u[j] = v[j]
        BY <3>3, <3>4
      <4> HIDE DEF u, v
      <4>2. u = v
        BY <4>1, SeqEqual
      <4> QED BY <4>2 DEF u, v
    <3> QED BY <3>2, <3>5
  <2>4. <<c>> = <<t[1]>> <=> t[1] = c
    OBVIOUS
  <2>5. IsPrefix(<<c>>, t) <=> s[i] = c
    BY <1>1, <2>1, <2>2, <2>3, <2>4 DEF IsPrefix
  <2> QED BY <2>5 DEF t
<1> QED BY <1>1, <1>2 DEF Places, PlacesOf

\* The first place of a word is where Before and After divide.
LEMMA Divided ==
  ASSUME NEW S, NEW a \in Seq(S), NEW b \in Seq(S), NEW c \in S, ~Contains(a, c)
  PROVE  /\ Contains(a \o <<c>> \o b, c)
         /\ Before(a \o <<c>> \o b, c) = a
         /\ After(a \o <<c>> \o b, c) = b
         /\ Behind(a \o <<c>> \o b, c) = b
<1> DEFINE s == a \o <<c>> \o b
           n == Len(a) + 1
<1>1. /\ s \in Seq(S) /\ Len(s) = n + Len(b) /\ n \in 1..Len(s)
      /\ \A i \in 1..Len(s) :
           s[i] = IF i < n THEN a[i] ELSE IF i = n THEN c ELSE b[i - n]
      /\ Len(a) \in Nat /\ Len(b) \in Nat
      /\ \A i \in 1..Len(a) : a[i] \in S
      /\ \A i \in 1..Len(b) : b[i] \in S
  OBVIOUS
<1>2. \A i \in 1..Len(a) : a[i] # c
  BY DEF Contains
<1> DEFINE p == Places(s, <<c>>)
<1> HIDE DEF s
<1>3. p = {i \in 1..Len(s) : s[i] = c}
  <2>1. Places(s, <<c>>) = PlacesOf(s, c)
    BY <1>1, PlacesOfWord, Zenon
  <2> QED BY <2>1 DEF PlacesOf
<1>4. n \in p /\ \A i \in p : n <= i
  <2>1. \A i \in 1..Len(s) : i < n => i \in 1..Len(a)
    BY <1>1
  <2>2. n \in Nat
    BY <1>1
  <2> HIDE DEF n
  <2>3. n \in 1..Len(s) /\ s[n] = c
    BY <1>1
  <2>4. \A i \in 1..Len(s) : s[i] = c => ~ (i < n)
    BY <1>1, <1>2, <2>1
  <2>5. \A i \in 1..Len(s) : ~ (i < n) => n <= i
    BY <2>2
  <2> HIDE DEF p
  <2> QED BY <1>3, <2>3, <2>4, <2>5
<1>5. Min(p) = n
  <2> DEFINE m == Min(p)
  <2>1. m \in p /\ \A y \in p : m =< y
    <3> HIDE DEF p, n
    <3>1. \E x \in p : \A y \in p : x =< y
      BY <1>4
    <3> QED BY <3>1, Zenon DEF Min
  <2> HIDE DEF m
  <2>2. m <= n /\ n <= m /\ m \in Int
    <3>1. p \subseteq Int
      BY <1>3
    <3> HIDE DEF p, n
    <3> QED BY <1>4, <2>1, <3>1
  <2>3. m = n
    BY <1>1, <2>2
  <2> QED BY <2>3 DEF m
<1>6. Contains(s, c)
  BY <1>1 DEF Contains
<1>7. SubSeq(s, 1, n - 1) = a
  <2>1. n - 1 = Len(a) /\ \A i \in 1..Len(a) : i \in 1..Len(s) /\ s[i] = a[i]
    BY <1>1
  <2>2. SubSeq(s, 1, Len(a)) \in Seq(S) /\ Len(SubSeq(s, 1, Len(a))) = Len(a)
        /\ \A i \in 1..Len(a) : SubSeq(s, 1, Len(a))[i] = a[i]
    BY <1>1, <2>1
  <2>3. SubSeq(s, 1, Len(a)) = a
    BY <2>2, SeqEqual
  <2> QED BY <2>1, <2>3
<1>8. SubSeq(s, n + 1, Len(s)) = b
  <2> DEFINE t == SubSeq(s, n + 1, Len(s))
  <2>1. t \in Seq(S) /\ Len(t) = Len(b) /\ \A i \in 1..Len(b) : t[i] = s[n + i]
    BY <1>1
  <2> HIDE DEF t
  <2>2. ASSUME NEW i \in 1..Len(b) PROVE t[i] = b[i]
    <3>1. n + i \in 1..Len(s) /\ ~ (n + i < n) /\ n + i # n /\ (n + i) - n = i
      BY <1>1
    <3>2. s[n + i] = b[i]
      BY <1>1, <3>1
    <3> QED BY <2>1, <3>2
  <2>3. t = b
    BY <2>1, <2>2, SeqEqual
  <2> QED BY <2>3 DEF t
<1>9. /\ Contains(s, c) /\ Before(s, c) = a /\ After(s, c) = b /\ Behind(s, c) = b
  <2> HIDE DEF n
  <2> QED BY <1>5, <1>6, <1>7, <1>8, Zenon DEF Before, After, Behind
<1> QED BY <1>9 DEF s

\* Every sequence that contains a word is divided by it.
LEMMA Division ==
  ASSUME NEW S, NEW s \in Seq(S), NEW c, Contains(s, c)
  PROVE  /\ c \in S
         /\ Before(s, c) \in Seq(S) /\ ~Contains(Before(s, c), c)
         /\ After(s, c) \in Seq(S)
         /\ s = Before(s, c) \o <<c>> \o After(s, c)
         /\ Len(s) = Len(Before(s, c)) + 1 + Len(After(s, c))
<1> DEFINE T == {i \in 1..Len(s) : s[i] = c}
<1>1. PICK n \in T : \A i \in T : n <= i
  <2>1. T # {} /\ T \subseteq Nat
    BY DEF Contains
  <2> HIDE DEF T
  <2> QED BY <2>1, Least
<1> DEFINE a == SubSeq(s, 1, n - 1)
           b == SubSeq(s, n + 1, Len(s))
<1>2. n \in 1..Len(s) /\ s[n] = c /\ c \in S
  OBVIOUS
<1>3. /\ a \in Seq(S) /\ Len(a) = n - 1 /\ \A i \in 1..n - 1 : a[i] = s[i]
      /\ b \in Seq(S) /\ Len(b) = Len(s) - n /\ \A i \in 1..Len(s) - n : b[i] = s[n + i]
  BY <1>2
<1> HIDE DEF a, b
<1>4. ~Contains(a, c)
  <2> SUFFICES ASSUME NEW i \in 1..n - 1, a[i] = c PROVE FALSE
    BY <1>3 DEF Contains
  <2>1. i \in 1..Len(s) /\ s[i] = c /\ ~ (n <= i)
    BY <1>2, <1>3
  <2> QED BY <1>1, <2>1
<1>5. s = a \o <<c>> \o b
  <2> DEFINE t == a \o <<c>> \o b
  <2>1. /\ t \in Seq(S) /\ Len(t) = Len(a) + 1 + Len(b)
        /\ \A i \in 1..Len(a) + 1 + Len(b) :
             t[i] = IF i <= Len(a) THEN a[i]
                    ELSE IF i = Len(a) + 1 THEN c ELSE b[i - (Len(a) + 1)]
    BY <1>2, <1>3
  <2> HIDE DEF t
  <2>2. ASSUME NEW i \in 1..Len(s) PROVE s[i] = t[i]
    <3>1. CASE i < n
      BY <1>2, <1>3, <2>1, <3>1
    <3>2. CASE i = n
      BY <1>2, <1>3, <2>1, <3>2
    <3>3. CASE i > n
      <4>1. i - n \in 1..Len(s) - n /\ n + (i - n) = i
        BY <1>2, <3>3
      <4> QED BY <1>2, <1>3, <2>1, <3>3, <4>1
    <3> QED BY <1>2, <3>1, <3>2, <3>3
  <2>3. Len(s) = Len(t)
    BY <1>2, <1>3, <2>1
  <2>4. s = t
    BY <2>1, <2>2, <2>3, SeqEqual
  <2> QED BY <2>4 DEF t
<1>6. Before(a \o <<c>> \o b, c) = a /\ After(a \o <<c>> \o b, c) = b
  BY <1>2, <1>3, <1>4, Divided
<1>7. Len(s) = Len(a) + 1 + Len(b)
  BY <1>2, <1>3
<1> QED BY <1>2, <1>3, <1>4, <1>5, <1>6, <1>7, Zenon

LEMMA TwoWords ==
  ASSUME NEW a, NEW b
  PROVE  <<a>> \o <<b>> = <<a, b>>
<1> DEFINE S == {a, b}
           x == <<a>> \o <<b>>
           y == <<a, b>>
<1>1. <<a>> \in Seq(S) /\ <<b>> \in Seq(S) /\ Len(<<a>>) = 1 /\ Len(<<b>>) = 1
      /\ <<a>>[1] = a /\ <<b>>[1] = b
  OBVIOUS
<1>2. x \in Seq(S) /\ Len(x) = 2 /\ x[1] = a /\ x[2] = b
  <2> HIDE DEF S
  <2> QED BY <1>1
<1>3. y \in Seq(S) /\ Len(y) = 2 /\ y[1] = a /\ y[2] = b
  OBVIOUS
<1> HIDE DEF S, x, y
<1>4. \A i \in 1..Len(x) : x[i] = y[i]
  <2>1. \A i \in 1..2 : i = 1 \/ i = 2
    OBVIOUS
  <2> QED BY <1>2, <1>3, <2>1
<1>5. x = y
  BY <1>2, <1>3, <1>4, SeqEqual
<1> QED BY <1>5 DEF x, y

LEMMA OneWord ==
  ASSUME NEW S, NEW w \in S
  PROVE  <<w>> \in Seq(S) /\ Len(<<w>>) = 1 /\ \A c : Contains(<<w>>, c) <=> c = w
BY DEF Contains

LEMMA ContainsConcat ==
  ASSUME NEW S, NEW a \in Seq(S), NEW b \in Seq(S), NEW c
  PROVE  Contains(a \o b, c) <=> Contains(a, c) \/ Contains(b, c)
<1>1. /\ Len(a \o b) = Len(a) + Len(b) /\ Len(a) \in Nat /\ Len(b) \in Nat
      /\ \A i \in 1..Len(a) + Len(b) : (a \o b)[i] = IF i <= Len(a) THEN a[i] ELSE b[i - Len(a)]
  OBVIOUS
<1>2. Contains(a \o b, c) => Contains(a, c) \/ Contains(b, c)
  <2> SUFFICES ASSUME NEW i \in 1..Len(a) + Len(b), (a \o b)[i] = c
               PROVE  Contains(a, c) \/ Contains(b, c)
    BY <1>1 DEF Contains
  <2>1. CASE i <= Len(a)
    BY <1>1, <2>1 DEF Contains
  <2>2. CASE ~ (i <= Len(a))
    <3>1. i - Len(a) \in 1..Len(b)
      BY <1>1, <2>2
    <3> QED BY <1>1, <2>2, <3>1 DEF Contains
  <2> QED BY <2>1, <2>2
<1>3. Contains(a, c) => Contains(a \o b, c)
  BY <1>1 DEF Contains
<1>4. Contains(b, c) => Contains(a \o b, c)
  <2> SUFFICES ASSUME NEW i \in 1..Len(b), b[i] = c PROVE Contains(a \o b, c)
    BY DEF Contains
  <2>1. Len(a) + i \in 1..Len(a) + Len(b) /\ ~ (Len(a) + i <= Len(a)) /\ (Len(a) + i) - Len(a) = i
    BY <1>1
  <2> QED BY <1>1, <2>1 DEF Contains
<1> QED BY <1>2, <1>3, <1>4
\* What Before and Behind leave is a part of the sequence.
LEMMA PartsOfWords ==
  ASSUME NEW S, NEW s \in Seq(S), NEW c
  PROVE  /\ Before(s, c) \in Seq(S) /\ Behind(s, c) \in Seq(S)
         /\ \A x : Contains(Before(s, c), x) \/ Contains(Behind(s, c), x) => Contains(s, x)
<1>1. CASE Contains(s, c)
  <2> DEFINE a == Before(s, c)
             b == After(s, c)
  <2>1. c \in S /\ a \in Seq(S) /\ b \in Seq(S) /\ s = a \o <<c>> \o b /\ Behind(s, c) = b
    BY <1>1, Division, Zenon DEF Behind
  <2> HIDE DEF a, b
  <2>2. <<c>> \in Seq(S) /\ a \o <<c>> \in Seq(S)
    BY <2>1
  <2>3. \A x : Contains(a, x) \/ Contains(b, x) => Contains(s, x)
    BY <2>1, <2>2, ContainsConcat, Zenon
  <2> QED BY <2>1, <2>3, Zenon DEF a
<1>2. CASE ~Contains(s, c)
  <2>1. Before(s, c) = s /\ Behind(s, c) = <<>>
    BY <1>2 DEF Before, Behind
  <2>2. <<>> \in Seq(S) /\ \A x : ~Contains(<<>>, x)
    BY DEF Contains
  <2> QED BY <2>1, <2>2, Zenon
<1> QED BY <1>1, <1>2

\* A beginning without the word is kept.
KeepsBeginning(S, a, b, c) == Before(a \o b, c) = a \o Before(b, c)

LEMMA BeforeConcat ==
  ASSUME NEW S, NEW a \in Seq(S), NEW b \in Seq(S), NEW c, ~Contains(a, c)
  PROVE  KeepsBeginning(S, a, b, c)
<1> SUFFICES Before(a \o b, c) = a \o Before(b, c)
  BY Zenon DEF KeepsBeginning
<1>1. CASE Contains(b, c)
  <2> DEFINE x == Before(b, c)
             y == After(b, c)
  <2>1. c \in S /\ x \in Seq(S) /\ ~Contains(x, c) /\ y \in Seq(S) /\ b = x \o <<c>> \o y
    BY <1>1, Division, Zenon
  <2> HIDE DEF x, y
  <2>2. a \o x \in Seq(S) /\ <<c>> \in Seq(S) /\ x \o <<c>> \in Seq(S)
    BY <2>1
  <2>3. (a \o x) \o <<c>> = a \o (x \o <<c>>)
    BY <2>1, <2>2, ConcatAssociative
  <2>4. a \o b = (a \o x) \o <<c>> \o y
    <3>1. (a \o (x \o <<c>>)) \o y = a \o ((x \o <<c>>) \o y)
      BY <2>1, <2>2, ConcatAssociative
    <3> QED BY <2>1, <2>3, <3>1, Zenon
  <2>5. ~Contains(a \o x, c)
    BY <2>1, ContainsConcat, Zenon
  <2>6. Before((a \o x) \o <<c>> \o y, c) = a \o x
    BY <2>1, <2>2, <2>5, Divided, Zenon
  <2> QED BY <2>4, <2>6 DEF x
<1>2. CASE ~Contains(b, c)
  <2>1. ~Contains(a \o b, c)
    BY <1>2, ContainsConcat, Zenon
  <2> QED BY <1>2, <2>1 DEF Before
<1> QED BY <1>1, <1>2

-----------------------------------------------------------------------------
\* The method and the URI of a request line that holds both.
IsLine(S, p, u, b, m) ==
  /\ Method(m) = p /\ Uri(m) = u
  /\ RequestLine(m) = (p \o <<SP>>) \o ((u \o <<SP>>) \o Before(b, "\r"))
  /\ Version(m) = Before(Before(b, "\r"), SP)

LEMMA LineHolds ==
  ASSUME NEW S, NEW p \in Seq(S), NEW u \in Seq(S), NEW b \in Seq(S), SP \in S,
         ~Contains(p, SP), ~Contains(u, SP), ~Contains(p, "\r"), ~Contains(u, "\r"),
         NEW m, m = (p \o <<SP>>) \o ((u \o <<SP>>) \o b)
  PROVE  IsLine(S, p, u, b, m)
<1> DEFINE q == p \o <<SP>>
           v == u \o <<SP>>
           r == Before(b, "\r")
<1>1. <<SP>> \in Seq(S) /\ ~Contains(<<SP>>, "\r")
  BY OneWord, SpaceDiffers
<1>2. q \in Seq(S) /\ v \in Seq(S) /\ ~Contains(q, "\r") /\ ~Contains(v, "\r")
  BY <1>1, ContainsConcat, ConcatProperties, Zenon
<1>3. r \in Seq(S)
  BY PartsOfWords, Zenon
<1> HIDE DEF r, q, v
<1>4. v \o b \in Seq(S) /\ v \o r \in Seq(S)
  BY <1>2, <1>3
<1>5. Before(q \o (v \o b), "\r") = q \o (v \o r)
  <2>1. Before(v \o b, "\r") = v \o r
    <3>1. KeepsBeginning(S, v, b, "\r")
      BY <1>2, BeforeConcat, Zenon
    <3> QED BY <3>1, Zenon DEF KeepsBeginning, r
  <2>2. Before(q \o (v \o b), "\r") = q \o Before(v \o b, "\r")
    <3>1. KeepsBeginning(S, q, v \o b, "\r")
      BY <1>2, <1>4, BeforeConcat, Zenon
    <3> QED BY <3>1, Zenon DEF KeepsBeginning
  <2> QED BY <2>1, <2>2, Zenon
<1>6. RequestLine(m) = q \o (v \o r)
  BY <1>5, Zenon DEF RequestLine, q, v
<1>7. Before(q \o (v \o r), SP) = p /\ Behind(q \o (v \o r), SP) = v \o r
  BY <1>4, Divided, Zenon DEF q
<1>8. Before(v \o r, SP) = u /\ Behind(v \o r, SP) = r
  BY <1>3, Divided, Zenon DEF v
<1> QED BY <1>6, <1>7, <1>8, Zenon DEF IsLine, Method, Uri, Version, r, q, v

\* A message that is the beginning of another one, whose last word may have
\* been cut off, is a bad one or holds the same method and URI.
CutIs(S, p, u, b, m, c) == Method(c) = p /\ Uri(c) = u

LEMMA CutLine ==
  ASSUME NEW S, NEW p \in Seq(S), NEW u \in Seq(S), NEW b \in Seq(S),
         {SP, "\r", "HTTP/1.1", "cut"} \subseteq S,
         ~Contains(p, SP), ~Contains(u, SP), ~Contains(p, "\r"), ~Contains(u, "\r"),
         ~Contains(p, "HTTP/1.1"), ~Contains(u, "HTTP/1.1"),
         NEW m, m = (p \o <<SP>>) \o ((u \o <<SP>>) \o b),
         NEW c \in Seq(S), Len(c) \in 1..Len(m),
         \A i \in 1..Len(c) - 1 : c[i] = m[i], c[Len(c)] \in {m[Len(c)], "cut"},
         Valid(c)
  PROVE  CutIs(S, p, u, b, m, c)
<1> DEFINE n == Len(c)
<1>0. /\ n \in 1..Len(m) /\ c \in Seq(S) /\ Len(c) = n
      /\ \A i \in 1..n - 1 : c[i] = m[i]
      /\ c[n] \in {m[n], "cut"}
  OBVIOUS
<1> HIDE DEF n
<1> DEFINE q == p \o <<SP>>
           v == u \o <<SP>>
           h == q \o v
           k == Len(h)
<1>1. <<SP>> \in Seq(S) /\ ~Contains(<<SP>>, "HTTP/1.1")
  BY OneWord, SpaceDiffers
<1>2. q \in Seq(S) /\ v \in Seq(S) /\ h \in Seq(S)
  BY <1>1, ConcatProperties, Zenon
<1>3. ~Contains(h, "HTTP/1.1")
  <2>1. ~Contains(q, "HTTP/1.1") /\ ~Contains(v, "HTTP/1.1")
    BY <1>1, ContainsConcat, Zenon
  <2> HIDE DEF q, v
  <2>2. q \in Seq(S) /\ v \in Seq(S)
    BY <1>2
  <2>3. Contains(q \o v, "HTTP/1.1") <=> Contains(q, "HTTP/1.1") \/ Contains(v, "HTTP/1.1")
    BY <2>2, ContainsConcat
  <2> QED BY <2>1, <2>3, Zenon
<1>4. m = h \o b
  <2>1. m = q \o (v \o b)
    BY Zenon DEF q, v
  <2> HIDE DEF q, v
  <2>2. Regrouped(S, q, v, b)
    BY <1>2, Regroup, Zenon
  <2> QED BY <2>1, <2>2, Zenon DEF h, Regrouped
<1> HIDE DEF h, q, v
<1>5. /\ m \in Seq(S) /\ Len(m) = k + Len(b) /\ k \in Nat /\ Len(b) \in Nat
      /\ \A i \in 1..k : m[i] = h[i]
  <2>1. h \o b \in Seq(S) /\ Len(h \o b) = Len(h) + Len(b) /\ Len(h) \in Nat /\ Len(b) \in Nat
        /\ \A i \in 1..Len(h) : (h \o b)[i] = h[i]
    BY <1>2
  <2> QED BY <1>4, <2>1
<1>6. n > k
  <2> SUFFICES ASSUME n <= k PROVE FALSE
    BY <1>0, <1>5
  <2>1. ~Contains(c, "HTTP/1.1")
    <3> SUFFICES ASSUME NEW i \in 1..n, c[i] = "HTTP/1.1" PROVE FALSE
      BY <1>0 DEF Contains
    <3>1. c[i] = m[i] \/ c[i] = "cut"
      <4>1. CASE i = n
        BY <1>0, <4>1
      <4>2. CASE i # n
        <5>1. i \in 1..n - 1
          BY <1>0, <4>2
        <5> QED BY <1>0, <5>1
      <4> QED BY <4>1, <4>2
    <3>2. i \in 1..k /\ m[i] = h[i]
      BY <1>0, <1>5
    <3> QED BY <1>3, <3>1, <3>2 DEF Contains
  <2>2. Contains(Version(c), "HTTP/1.1")
    BY DEF Valid, Contains
  <2> DEFINE line == RequestLine(c)
  <2>3. line \in Seq(S) /\ \A x : Contains(line, x) => Contains(c, x)
    BY PartsOfWords, Zenon DEF RequestLine
  <2> HIDE DEF line
  <2> DEFINE url == Behind(line, SP)
  <2>4. url \in Seq(S) /\ \A x : Contains(url, x) => Contains(line, x)
    BY <2>3, PartsOfWords, Zenon
  <2> HIDE DEF url
  <2> DEFINE rest == Behind(url, SP)
  <2>5. rest \in Seq(S) /\ \A x : Contains(rest, x) => Contains(url, x)
    BY <2>4, PartsOfWords, Zenon
  <2> HIDE DEF rest
  <2>6. \A x : Contains(Before(rest, SP), x) => Contains(rest, x)
    BY <2>5, PartsOfWords, Zenon
  <2>7. Version(c) = Before(rest, SP)
    BY Zenon DEF Version, line, url, rest
  <2> QED BY <2>1, <2>2, <2>3, <2>4, <2>5, <2>6, <2>7, Zenon
<1> DEFINE d == SubSeq(c, k + 1, n)
<1>7. d \in Seq(S)
  BY <1>0, <1>5, <1>6
<1>8. c = h \o d
  <2>1. c = SubSeq(c, 1, n)
    BY <1>0, SubSeqFull
  <2>2. SubSeq(c, 1, k) \o d = SubSeq(c, 1, n)
    <3>1. 1 \in 1..Len(c) + 1 /\ k \in 1 - 1..Len(c) /\ n \in k..Len(c)
      BY <1>0, <1>5, <1>6
    <3> QED BY <1>0, <3>1, ConcatAdjacentSubSeq
  <2> DEFINE e == SubSeq(c, 1, k)
  <2>3. e \in Seq(S) /\ Len(e) = k /\ \A i \in 1..k : e[i] = c[i]
    BY <1>0, <1>5, <1>6
  <2>4. \A i \in 1..k : c[i] = h[i]
    <3>1. \A i \in 1..k : i \in 1..n - 1
      BY <1>0, <1>5, <1>6
    <3> HIDE DEF k
    <3> QED BY <1>0, <1>5, <3>1
  <2> HIDE DEF e
  <2>5. e = h
    BY <1>2, <2>3, <2>4, SeqEqual
  <2> QED BY <2>1, <2>2, <2>5, Zenon DEF e
<1> HIDE DEF d
<1>9. c = q \o (v \o d)
  <2>1. Regrouped(S, q, v, d)
    BY <1>2, <1>7, Regroup, Zenon
  <2> QED BY <1>8, <2>1, Zenon DEF h, Regrouped
<1>10. c = (p \o <<SP>>) \o ((u \o <<SP>>) \o d)
  BY <1>9, Zenon DEF q, v
<1>11. IsLine(S, p, u, d, c)
  BY <1>7, <1>10, LineHolds, Zenon
<1> QED BY <1>11, Zenon DEF IsLine, CutIs
-----------------------------------------------------------------------------
\* The words of the pages, and those of the texts in a form.
Words == MessageWords \cup Markers \cup OptionMarkers \cup {"selected"}
TextWords == MessageWords \cup Markers \cup OptionMarkers

LEMMA Keys ==
  /\ MemeKeys[1] = "bottom_text" /\ MemeKeys[2] = "meme_id"
  /\ MemeKeys[3] = "template_id" /\ MemeKeys[4] = "top_text"
  /\ ToSet(MemeKeys) = {"bottom_text", "meme_id", "template_id", "top_text"}
  /\ Markers = {Marker("bottom_text"), Marker("meme_id"), Marker("template_id"), Marker("top_text")}
<1>1. ToSet(MemeKeys) = {"bottom_text", "meme_id", "template_id", "top_text"}
  <2>1. /\ DOMAIN MemeKeys = 1..4
        /\ MemeKeys[1] = "bottom_text" /\ MemeKeys[2] = "meme_id"
        /\ MemeKeys[3] = "template_id" /\ MemeKeys[4] = "top_text"
    BY DEF MemeKeys
  <2>2. \A i \in 1..4 : i = 1 \/ i = 2 \/ i = 3 \/ i = 4
    OBVIOUS
  <2> QED BY <2>1, <2>2 DEF ToSet
<1>2. /\ MemeKeys[1] = "bottom_text" /\ MemeKeys[2] = "meme_id"
      /\ MemeKeys[3] = "template_id" /\ MemeKeys[4] = "top_text"
  BY DEF MemeKeys
<1>3. Markers = {Marker("bottom_text"), Marker("meme_id"), Marker("template_id"), Marker("top_text")}
  BY <1>1 DEF Markers
<1> QED BY <1>1, <1>2, <1>3

\* No marker stands in a message, and the markers differ.
LEMMA MarkersDiffer ==
  /\ \A w \in MessageWords \cup OptionMarkers \cup {"selected"} : w \notin Markers
  /\ \A w \in MessageWords \cup {"selected"} : w \notin OptionMarkers
  /\ \A m, n \in ToSet(MemeKeys) : Marker(m) = Marker(n) => m = n
  /\ MessageWords \subseteq Words /\ Markers \subseteq Words
  /\ OptionMarkers \subseteq Words /\ TextWords \subseteq Words /\ "selected" \in Words
  /\ MessageWords \subseteq TextWords
<1>1. \A w \in MessageWords \cup {"selected"} : w \notin Markers /\ w \notin OptionMarkers
  BY MarkersAssumption DEF MessageWords
<1>2. \A w \in OptionMarkers : w \notin Markers
  BY MarkersAssumption
<1>3. \A m, n \in ToSet(MemeKeys) : Marker(m) = Marker(n) => m = n
  BY MarkersAssumption
<1> QED BY <1>1, <1>2, <1>3 DEF Words, TextWords

\* A sequence whose elements are words is a sequence of words.
LEMMA SeqOver ==
  ASSUME NEW S, NEW T, NEW s \in Seq(S), \A i \in 1..Len(s) : s[i] \in T
  PROVE  s \in Seq(T)
<1>1. Len(s) \in Nat /\ s = [i \in 1..Len(s) |-> s[i]]
  OBVIOUS
<1> QED BY <1>1

-----------------------------------------------------------------------------
InjectStep(name, replacement) ==
  [w \in Words |-> IF w = Marker(name) THEN replacement ELSE <<w>>]

LEMMA InjectIsEach ==
  ASSUME NEW html \in Seq(Words), NEW name, NEW replacement \in Seq(Words)
  PROVE  /\ InjectStep(name, replacement) \in [Words -> Seq(Words)]
         /\ Inject(html, name, replacement) = Each(InjectStep(name, replacement), html)
<1>1. InjectStep(name, replacement) \in [Words -> Seq(Words)]
  BY DEF InjectStep
<1>2. DOMAIN html = 1..Len(html) /\ \A i \in DOMAIN html : html[i] \in Words
  OBVIOUS
<1>3. [i \in DOMAIN html |-> IF html[i] = Marker(name) THEN replacement ELSE <<html[i]>>]
        = Pieces(InjectStep(name, replacement), html)
  BY <1>2 DEF Pieces, InjectStep
<1> QED BY <1>1, <1>3, Zenon DEF Inject, Each

\* Inject replaces in each part,
InjectsBoth(a, b, name, replacement) ==
  /\ Inject(a, name, replacement) \in Seq(Words)
  /\ Inject(a \o b, name, replacement)
       = Inject(a, name, replacement) \o Inject(b, name, replacement)

LEMMA InjectConcat ==
  ASSUME NEW a \in Seq(Words), NEW b \in Seq(Words), NEW name, NEW replacement \in Seq(Words)
  PROVE  InjectsBoth(a, b, name, replacement)
<1> DEFINE f == InjectStep(name, replacement)
<1>1. f \in [Words -> Seq(Words)] /\ Inject(a, name, replacement) = Each(f, a)
      /\ Inject(b, name, replacement) = Each(f, b)
  BY InjectIsEach, Zenon
<1>2. a \o b \in Seq(Words)
  OBVIOUS
<1>3. Inject(a \o b, name, replacement) = Each(f, a \o b)
  BY <1>2, InjectIsEach, Zenon
<1> HIDE DEF f
<1>4. Each(f, a \o b) = Each(f, a) \o Each(f, b)
  <2>1. Distributes(Words, Words, f, a, b)
    BY <1>1, EachConcat, Zenon
  <2> QED BY <2>1, Zenon DEF Distributes
<1>5. Each(f, a) \in Seq(Words)
  BY <1>1, EachType
<1> QED BY <1>1, <1>3, <1>4, <1>5, Zenon DEF InjectsBoth

\* a single word,
LEMMA InjectWord ==
  ASSUME NEW w \in Words, NEW name, NEW replacement \in Seq(Words)
  PROVE  Inject(<<w>>, name, replacement) = IF w = Marker(name) THEN replacement ELSE <<w>>
<1> DEFINE f == InjectStep(name, replacement)
<1>1. <<w>> \in Seq(Words)
  OBVIOUS
<1>2. f \in [Words -> Seq(Words)] /\ Inject(<<w>>, name, replacement) = Each(f, <<w>>)
  BY <1>1, InjectIsEach, Zenon
<1>3. f[w] = IF w = Marker(name) THEN replacement ELSE <<w>>
  BY DEF InjectStep
<1> HIDE DEF f
<1>4. Each(f, <<w>>) = f[w]
  BY <1>2, EachOne
<1> QED BY <1>2, <1>3, <1>4

\* and nothing where the marker does not stand.
LEMMA InjectNone ==
  ASSUME NEW html \in Seq(Words), NEW name, NEW replacement \in Seq(Words),
         \A i \in 1..Len(html) : html[i] # Marker(name)
  PROVE  Inject(html, name, replacement) = html
<1> DEFINE f == InjectStep(name, replacement)
<1>1. f \in [Words -> Seq(Words)] /\ Inject(html, name, replacement) = Each(f, html)
  BY InjectIsEach, Zenon
<1>2. \A i \in 1..Len(html) : f[html[i]] = <<html[i]>>
  BY DEF InjectStep
<1> HIDE DEF f
<1>3. Each(f, html) = html
  <2>1. EachIs(Words, Words, f, html, html)
    BY <1>1, <1>2, EachSingle, Zenon
  <2> QED BY <2>1, Zenon DEF EachIs
<1> QED BY <1>1, <1>3

-----------------------------------------------------------------------------
\* A meme as a map of what stands in messages.
IsMeme(map) == \A k \in ToSet(MemeKeys) : map[k] \in Seq(MessageWords)

LEMMA MemeValues ==
  ASSUME NEW map, IsMeme(map), NEW k \in ToSet(MemeKeys)
  PROVE  map[k] \in Seq(Words) /\ \A m \in ToSet(MemeKeys) : \A i \in 1..Len(map[k]) : map[k][i] # Marker(m)
<1>1. map[k] \in Seq(MessageWords)
  BY DEF IsMeme
<1>2. map[k] \in Seq(Words)
  BY <1>1, MarkersDiffer, SeqLarger
<1>3. \A i \in 1..Len(map[k]) : map[k][i] \notin Markers
  BY <1>1, MarkersDiffer
<1> QED BY <1>2, <1>3 DEF Markers

LEMMA InjectMapConcat ==
  ASSUME NEW a \in Seq(Words), NEW b \in Seq(Words), NEW map, IsMeme(map)
  PROVE  /\ InjectMap(a, map) \in Seq(Words)
         /\ InjectMap(a \o b, map) = InjectMap(a, map) \o InjectMap(b, map)
<1> DEFINE in1(s) == Inject(s, MemeKeys[1], map[MemeKeys[1]])
           in2(s) == Inject(s, MemeKeys[2], map[MemeKeys[2]])
           in3(s) == Inject(s, MemeKeys[3], map[MemeKeys[3]])
           in4(s) == Inject(s, MemeKeys[4], map[MemeKeys[4]])
<1>0. \A k \in 1..4 : map[MemeKeys[k]] \in Seq(Words)
  <2>1. \A k \in 1..4 : MemeKeys[k] \in ToSet(MemeKeys)
    BY Keys
  <2> QED BY <2>1, MemeValues, Zenon
<1>a. /\ map[MemeKeys[1]] \in Seq(Words) /\ map[MemeKeys[2]] \in Seq(Words)
      /\ map[MemeKeys[3]] \in Seq(Words) /\ map[MemeKeys[4]] \in Seq(Words)
  BY <1>0
<1>1. \A s, t \in Seq(Words) : in1(s) \in Seq(Words) /\ in1(s \o t) = in1(s) \o in1(t)
  <2> TAKE s, t \in Seq(Words)
  <2>1. InjectsBoth(s, t, MemeKeys[1], map[MemeKeys[1]])
    BY <1>a, InjectConcat, Zenon
  <2> QED BY <2>1, Zenon DEF in1, InjectsBoth
<1>2. \A s, t \in Seq(Words) : in2(s) \in Seq(Words) /\ in2(s \o t) = in2(s) \o in2(t)
  <2> TAKE s, t \in Seq(Words)
  <2>1. InjectsBoth(s, t, MemeKeys[2], map[MemeKeys[2]])
    BY <1>a, InjectConcat, Zenon
  <2> QED BY <2>1, Zenon DEF in2, InjectsBoth
<1>3. \A s, t \in Seq(Words) : in3(s) \in Seq(Words) /\ in3(s \o t) = in3(s) \o in3(t)
  <2> TAKE s, t \in Seq(Words)
  <2>1. InjectsBoth(s, t, MemeKeys[3], map[MemeKeys[3]])
    BY <1>a, InjectConcat, Zenon
  <2> QED BY <2>1, Zenon DEF in3, InjectsBoth
<1>4. \A s, t \in Seq(Words) : in4(s) \in Seq(Words) /\ in4(s \o t) = in4(s) \o in4(t)
  <2> TAKE s, t \in Seq(Words)
  <2>1. InjectsBoth(s, t, MemeKeys[4], map[MemeKeys[4]])
    BY <1>a, InjectConcat, Zenon
  <2> QED BY <2>1, Zenon DEF in4, InjectsBoth
<1>5. \A s : InjectMap(s, map) = in4(in3(in2(in1(s))))
  BY Zenon DEF InjectMap
<1> HIDE DEF in1, in2, in3, in4
<1>6. in1(a) \in Seq(Words) /\ in1(b) \in Seq(Words) /\ in1(a \o b) = in1(a) \o in1(b)
  BY <1>1
<1>7. in2(in1(a)) \in Seq(Words) /\ in2(in1(b)) \in Seq(Words)
      /\ in2(in1(a \o b)) = in2(in1(a)) \o in2(in1(b))
  BY <1>2, <1>6, Zenon
<1>8. in3(in2(in1(a))) \in Seq(Words) /\ in3(in2(in1(b))) \in Seq(Words)
      /\ in3(in2(in1(a \o b))) = in3(in2(in1(a))) \o in3(in2(in1(b)))
  BY <1>3, <1>7, Zenon
<1>9. in4(in3(in2(in1(a)))) \in Seq(Words)
      /\ in4(in3(in2(in1(a \o b)))) = in4(in3(in2(in1(a)))) \o in4(in3(in2(in1(b))))
  BY <1>4, <1>8, Zenon
<1>10. /\ InjectMap(a, map) = in4(in3(in2(in1(a))))
       /\ InjectMap(b, map) = in4(in3(in2(in1(b))))
       /\ InjectMap(a \o b, map) = in4(in3(in2(in1(a \o b))))
  BY <1>5, Zenon
<1> QED BY <1>9, <1>10

\* What holds no marker stays as it is.
LEMMA InjectMapKeeps ==
  ASSUME NEW s \in Seq(Words), NEW map, IsMeme(map),
         \A i \in 1..Len(s) : s[i] \notin Markers
  PROVE  InjectMap(s, map) = s
<1>1. \A k \in 1..4 : MemeKeys[k] \in ToSet(MemeKeys)
  BY Keys
<1>2. \A k \in 1..4 : map[MemeKeys[k]] \in Seq(Words)
  BY <1>1, MemeValues, Zenon
<1>3. \A k \in 1..4 : \A i \in 1..Len(s) : s[i] # Marker(MemeKeys[k])
  BY <1>1 DEF Markers
<1>4. \A k \in 1..4 : Inject(s, MemeKeys[k], map[MemeKeys[k]]) = s
  BY <1>2, <1>3, InjectNone
<1>5. /\ Inject(s, MemeKeys[1], map[MemeKeys[1]]) = s
      /\ Inject(s, MemeKeys[2], map[MemeKeys[2]]) = s
      /\ Inject(s, MemeKeys[3], map[MemeKeys[3]]) = s
      /\ Inject(s, MemeKeys[4], map[MemeKeys[4]]) = s
  BY <1>4
<1> QED BY <1>5, Zenon DEF InjectMap

\* A marker becomes the value of its name.
LEMMA InjectMapMarker ==
  ASSUME NEW map, IsMeme(map), NEW key \in ToSet(MemeKeys)
  PROVE  InjectMap(<<Marker(key)>>, map) = map[key]
<1> DEFINE m == <<Marker(key)>>
           v == map[key]
<1>1. \A k \in 1..4 : MemeKeys[k] \in ToSet(MemeKeys)
  BY Keys
<1>2. \A k \in 1..4 : map[MemeKeys[k]] \in Seq(Words)
  BY <1>1, MemeValues, Zenon
<1>3. v \in Seq(Words) /\ \A k \in 1..4 : \A i \in 1..Len(v) : v[i] # Marker(MemeKeys[k])
  BY <1>1, MemeValues, Zenon
<1>4. \A k \in 1..4 : Inject(v, MemeKeys[k], map[MemeKeys[k]]) = v
  <2> HIDE DEF v
  <2> QED BY <1>2, <1>3, InjectNone
<1>5. \A k \in 1..4 : Inject(m, MemeKeys[k], map[MemeKeys[k]]) = IF key = MemeKeys[k] THEN v ELSE m
  <2> TAKE k \in 1..4
  <2>1. Marker(key) \in Words
    BY MarkersDiffer DEF Markers
  <2>2. Inject(m, MemeKeys[k], map[MemeKeys[k]])
          = IF Marker(key) = Marker(MemeKeys[k]) THEN map[MemeKeys[k]] ELSE m
    BY <1>2, <2>1, InjectWord
  <2>3. Marker(key) = Marker(MemeKeys[k]) <=> key = MemeKeys[k]
    BY <1>1, MarkersDiffer, Zenon
  <2> QED BY <2>2, <2>3, Zenon
<1> HIDE DEF m, v
<1>6. /\ Inject(m, MemeKeys[1], map[MemeKeys[1]]) = IF key = MemeKeys[1] THEN v ELSE m
      /\ Inject(m, MemeKeys[2], map[MemeKeys[2]]) = IF key = MemeKeys[2] THEN v ELSE m
      /\ Inject(m, MemeKeys[3], map[MemeKeys[3]]) = IF key = MemeKeys[3] THEN v ELSE m
      /\ Inject(m, MemeKeys[4], map[MemeKeys[4]]) = IF key = MemeKeys[4] THEN v ELSE m
      /\ Inject(v, MemeKeys[1], map[MemeKeys[1]]) = v
      /\ Inject(v, MemeKeys[2], map[MemeKeys[2]]) = v
      /\ Inject(v, MemeKeys[3], map[MemeKeys[3]]) = v
      /\ Inject(v, MemeKeys[4], map[MemeKeys[4]]) = v
  BY <1>4, <1>5
<1>7. key = MemeKeys[1] \/ key = MemeKeys[2] \/ key = MemeKeys[3] \/ key = MemeKeys[4]
  BY Keys
<1>8. InjectMap(m, map) = v
  BY <1>6, <1>7, Zenon DEF InjectMap
<1> QED BY <1>8, Zenon DEF m, v
-----------------------------------------------------------------------------
\* A row of the table, and the table: what is stored has come in a message.
RowSet == [template_id : StoredTemplates,
           top_text    : Seq(MessageWords),
           bottom_text : Seq(MessageWords)]
TableInv == table \in [Ids -> RowSet \cup {NoRow}]

LEMMA RowsOfTable ==
  ASSUME TableInv, NEW i \in Rows
  PROVE  i \in Ids /\ table[i] \in RowSet /\ IsMeme(MemeMap(i))
         /\ IdText[i] \in MessageWords /\ table[i].template_id \in MessageWords
<1>1. i \in Ids /\ table[i] \in RowSet
  BY DEF TableInv, Rows
<1>2. table[i].template_id \in MessageWords /\ table[i].top_text \in Seq(MessageWords)
      /\ table[i].bottom_text \in Seq(MessageWords)
  BY <1>1 DEF RowSet, StoredTemplates, MessageWords, Syntax
<1>3. IdText[i] \in MessageWords
  BY <1>1 DEF MessageWords, Numbers
<1>4. IsMeme(MemeMap(i))
  <2> DEFINE map == MemeMap(i)
  <2>1. /\ map["meme_id"] = <<IdText[i]>> /\ map["template_id"] = <<table[i].template_id>>
        /\ map["top_text"] = table[i].top_text /\ map["bottom_text"] = table[i].bottom_text
    BY DEF MemeMap
  <2>2. <<IdText[i]>> \in Seq(MessageWords) /\ <<table[i].template_id>> \in Seq(MessageWords)
    BY <1>2, <1>3
  <2> HIDE DEF map
  <2>3. \A k \in ToSet(MemeKeys) : map[k] \in Seq(MessageWords)
    BY <1>2, <2>1, <2>2, Keys
  <2> QED BY <2>3 DEF IsMeme, map
<1> QED BY <1>1, <1>2, <1>3, <1>4

\* A row in the list shows its meme: each value goes through unchanged.
Shown(i) == <<IdText[i], table[i].template_id>> \o table[i].top_text
              \o table[i].bottom_text \o <<IdText[i], IdText[i]>>

LEMMA PartialShows ==
  ASSUME TableInv, NEW i \in Rows
  PROVE  InjectMap(Partial, MemeMap(i)) = Shown(i) /\ Shown(i) \in Seq(Words)
<1> DEFINE a == <<Marker("meme_id")>>
           b == <<Marker("template_id")>>
           c == <<Marker("top_text")>>
           d == <<Marker("bottom_text")>>
           map == MemeMap(i)
           inj(s) == InjectMap(s, map)
           top == table[i].top_text
           bottom == table[i].bottom_text
           id == IdText[i]
           t == table[i].template_id
<1>1. a \in Seq(Words) /\ b \in Seq(Words) /\ c \in Seq(Words) /\ d \in Seq(Words)
  BY Keys, MarkersDiffer
<1>2. IsMeme(map)
  BY RowsOfTable
<1>3. Partial = ((((a \o b) \o c) \o d) \o a) \o a
  BY DEF Partial
<1>4. /\ map["meme_id"] = <<id>> /\ map["template_id"] = <<t>>
      /\ map["top_text"] = top /\ map["bottom_text"] = bottom
  BY DEF MemeMap
<1>5. inj(a) = <<id>> /\ inj(b) = <<t>> /\ inj(c) = top /\ inj(d) = bottom
  BY <1>2, <1>4, Keys, InjectMapMarker
<1>6. \A s, u \in Seq(Words) : inj(s \o u) = inj(s) \o inj(u)
  BY <1>2, InjectMapConcat
<1>7. /\ <<id>> \in Seq(Words) /\ <<t>> \in Seq(Words)
      /\ top \in Seq(Words) /\ bottom \in Seq(Words)
  <2>1. id \in Words /\ t \in Words /\ top \in Seq(MessageWords) /\ bottom \in Seq(MessageWords)
    BY RowsOfTable, MarkersDiffer DEF RowSet
  <2> QED BY <2>1, MarkersDiffer, SeqLarger
<1>8. <<id, t>> = <<id>> \o <<t>> /\ <<id, id>> = <<id>> \o <<id>>
  OBVIOUS
<1>9. Shown(i) = (((<<id>> \o <<t>>) \o top) \o bottom) \o (<<id>> \o <<id>>)
  BY <1>8, Zenon DEF Shown
<1> HIDE DEF a, b, c, d, map, inj, top, bottom, id, t
<1>10. /\ a \o b \in Seq(Words) /\ (a \o b) \o c \in Seq(Words)
       /\ ((a \o b) \o c) \o d \in Seq(Words)
       /\ (((a \o b) \o c) \o d) \o a \in Seq(Words)
  BY <1>1
<1>11. inj(Partial) = ((((<<id>> \o <<t>>) \o top) \o bottom) \o <<id>>) \o <<id>>
  <2>1. inj(a \o b) = <<id>> \o <<t>>
    BY <1>1, <1>5, <1>6, Zenon
  <2>2. inj((a \o b) \o c) = (<<id>> \o <<t>>) \o top
    BY <1>1, <1>5, <1>6, <1>10, <2>1, Zenon
  <2>3. inj(((a \o b) \o c) \o d) = ((<<id>> \o <<t>>) \o top) \o bottom
    BY <1>1, <1>5, <1>6, <1>10, <2>2, Zenon
  <2>4. inj((((a \o b) \o c) \o d) \o a) = (((<<id>> \o <<t>>) \o top) \o bottom) \o <<id>>
    BY <1>1, <1>5, <1>6, <1>10, <2>3, Zenon
  <2> QED BY <1>1, <1>3, <1>5, <1>6, <1>10, <2>4, Zenon
<1> DEFINE x == ((<<id>> \o <<t>>) \o top) \o bottom
<1>12. x \in Seq(Words)
  BY <1>7
<1> HIDE DEF x
<1>13. Regrouped(Words, x, <<id>>, <<id>>)
  BY <1>7, <1>12, Regroup, Zenon
<1>14. inj(Partial) = Shown(i)
  BY <1>9, <1>11, <1>13, Zenon DEF x, Regrouped
<1>15. Shown(i) \in Seq(Words)
  <2>1. x \o (<<id>> \o <<id>>) \in Seq(Words)
    BY <1>7, <1>12
  <2> QED BY <1>9, <2>1, Zenon DEF x
<1> QED BY <1>14, <1>15, Zenon DEF inj, map

LEMMA RowsInOrderType ==
  ASSUME MaxId \in Nat
  PROVE  RowsInOrder \in Seq(Rows)
<1> DEFINE r == [i \in Ids |-> IF i \in Rows THEN <<i>> ELSE <<>>]
<1>1. \A i \in Ids : (IF i \in Rows THEN <<i>> ELSE <<>>) \in Seq(Rows)
  OBVIOUS
<1>2. r \in Seq(Seq(Rows))
  BY <1>1 DEF Ids
<1> HIDE DEF r
<1>3. FlattenSeq(r) \in Seq(Rows)
  BY <1>2, FlattenType
<1> QED BY <1>3, Zenon DEF RowsInOrder, r

\* Whatever is stored, the list shows it.
LEMMA ListIsRight ==
  ASSUME TableInv
  PROVE  ListShowsMemes
<1> DEFINE ids == RowsInOrder
           shownAt(k) == (IF k = 1 THEN <<>> ELSE <<"\n">>) \o Shown(ids[k])
           maps == [k \in DOMAIN ids |-> MemeMap(ids[k])]
           listAt(k) == IF k = 1 THEN InjectMap(Partial, maps[k])
                        ELSE <<"\n">> \o InjectMap(Partial, maps[k])
<1>1. DOMAIN ids = 1..Len(ids) /\ \A k \in DOMAIN ids : ids[k] \in Rows
  <2>1. ids \in Seq(Rows)
    BY FormAssumption, RowsInOrderType
  <2> HIDE DEF ids
  <2> QED BY <2>1
<1>2. ASSUME NEW k \in DOMAIN maps PROVE listAt(k) = shownAt(k)
  <2>1. k \in DOMAIN ids /\ maps[k] = MemeMap(ids[k])
    BY Zenon
  <2>2. ids[k] \in Rows
    BY <1>1, <2>1
  <2>3. InjectMap(Partial, maps[k]) = Shown(ids[k]) /\ Shown(ids[k]) \in Seq(Words)
    BY <2>1, <2>2, PartialShows, Zenon
  <2> HIDE DEF maps
  <2>4. <<>> \o Shown(ids[k]) = Shown(ids[k])
    BY <2>3, StartsEmpty, Zenon
  <2>5. CASE k = 1
    BY <2>3, <2>4, <2>5, Zenon
  <2>6. CASE k # 1
    BY <2>3, <2>6, Zenon
  <2> QED BY <2>5, <2>6
<1>3. [k \in DOMAIN maps |-> listAt(k)] = [k \in DOMAIN ids |-> shownAt(k)]
  <2>1. DOMAIN maps = DOMAIN ids
    BY Zenon
  <2> HIDE DEF maps, ids
  <2> HIDE DEF listAt, shownAt
  <2> QED BY <1>2, <2>1
<1>4. ListPage = FlattenSeq([k \in DOMAIN maps |-> listAt(k)])
  BY Zenon DEF ListPage, InjectList
<1>5. ListPage = FlattenSeq([k \in DOMAIN ids |-> shownAt(k)])
  BY <1>3, <1>4, Zenon
<1> QED BY <1>5, Zenon DEF ListShowsMemes, Shown
-----------------------------------------------------------------------------
\* One round of the loop of set_params, on what is left of a body: where the
\* next one begins, and what it adds to the parameters behind it.
NextOf(rest) ==
  IF Contains(After(rest, "="), "&") THEN After(After(rest, "="), "&") ELSE After(rest, "=")
RoundOf(rest, later) ==
  IF ~Contains(rest, "=") THEN <<>>
  ELSE WithEarlier(later, Before(rest, "="), Before(After(rest, "="), "&"))

LEMMA RestType ==
  ASSUME NEW S, NEW body \in Seq(S), NEW left \in 0..Len(body)
  PROVE  /\ Rest(body, left) \in Seq(S) /\ Len(Rest(body, left)) = left
         /\ \A i \in 1..left : Rest(body, left)[i] = body[Len(body) - left + i]
<1>1. Len(body) \in Nat /\ left \in Nat /\ left <= Len(body)
  OBVIOUS
<1> QED BY <1>1 DEF Rest

LEMMA RestOfRest ==
  ASSUME NEW S, NEW body \in Seq(S), NEW m \in 0..Len(body), NEW left \in 0..m
  PROVE  Rest(Rest(body, m), left) = Rest(body, left)
<1> DEFINE r == Rest(body, m)
           a == Rest(r, left)
           b == Rest(body, left)
<1>0. Len(body) \in Nat /\ m \in Nat /\ left \in Nat /\ left \in 0..Len(body)
  OBVIOUS
<1>1. r \in Seq(S) /\ Len(r) = m /\ \A i \in 1..m : r[i] = body[Len(body) - m + i]
  BY RestType
<1> HIDE DEF r
<1>2. a \in Seq(S) /\ Len(a) = left /\ \A i \in 1..left : a[i] = r[m - left + i]
  BY <1>1, RestType
<1>3. b \in Seq(S) /\ Len(b) = left /\ \A i \in 1..left : b[i] = body[Len(body) - left + i]
  BY <1>0, RestType
<1> HIDE DEF a, b
<1>4. ASSUME NEW i \in 1..left PROVE a[i] = b[i]
  <2>1. m - left + i \in 1..m /\ Len(body) - m + (m - left + i) = Len(body) - left + i
    BY <1>0
  <2> QED BY <1>1, <1>2, <1>3, <2>1
<1>5. a = b
  BY <1>2, <1>3, <1>4, SeqEqual
<1> QED BY <1>5 DEF a, b, r

\* The end of a sequence is what is left of it.
LEMMA EndIsRest ==
  ASSUME NEW S, NEW a \in Seq(S), NEW b \in Seq(S)
  PROVE  Rest(a \o b, Len(b)) = b /\ Len(b) \in 0..Len(a \o b)
<1>1. /\ a \o b \in Seq(S) /\ Len(a \o b) = Len(a) + Len(b)
      /\ Len(a) \in Nat /\ Len(b) \in Nat
      /\ \A i \in 1..Len(a) + Len(b) : (a \o b)[i] = IF i <= Len(a) THEN a[i] ELSE b[i - Len(a)]
  OBVIOUS
<1> DEFINE s == a \o b
           r == Rest(s, Len(b))
<1>2. Len(b) \in 0..Len(s)
  BY <1>1
<1>3. r \in Seq(S) /\ Len(r) = Len(b) /\ \A i \in 1..Len(b) : r[i] = s[Len(s) - Len(b) + i]
  BY <1>1, <1>2, RestType
<1>4. ASSUME NEW i \in 1..Len(b) PROVE r[i] = b[i]
  <2>1. Len(s) - Len(b) + i \in 1..Len(a) + Len(b) /\ ~ (Len(s) - Len(b) + i <= Len(a))
        /\ (Len(s) - Len(b) + i) - Len(a) = i
    BY <1>1
  <2>2. s[Len(s) - Len(b) + i] = b[i]
    <3> DEFINE j == Len(s) - Len(b) + i
    <3>1. j \in 1..Len(a) + Len(b) /\ ~ (j <= Len(a)) /\ j - Len(a) = i
      BY <2>1
    <3> HIDE DEF j
    <3>2. s[j] = b[i]
      BY <1>1, <3>1
    <3> QED BY <3>2 DEF j
  <2> HIDE DEF r, s
  <2> QED BY <1>3, <2>2
<1> HIDE DEF r
<1>5. r = b
  BY <1>3, <1>4, SeqEqual
<1> QED BY <1>2, <1>5 DEF r

\* Each round leaves less, and that is the end of what it had.
LEMMA NextIsRest ==
  ASSUME NEW S, NEW rest \in Seq(S), Contains(rest, "=")
  PROVE  /\ NextOf(rest) \in Seq(S) /\ Len(NextOf(rest)) \in Nat
         /\ Len(NextOf(rest)) < Len(rest)
         /\ Rest(rest, Len(NextOf(rest))) = NextOf(rest)
         /\ Before(rest, "=") \in Seq(S) /\ Before(After(rest, "="), "&") \in Seq(S)
<1> DEFINE key == Before(rest, "=")
           value == After(rest, "=")
<1>1. /\ "=" \in S /\ key \in Seq(S) /\ value \in Seq(S) /\ rest = key \o <<"=">> \o value
      /\ Len(rest) = Len(key) + 1 + Len(value)
  BY Division, Zenon
<1>2. Before(value, "&") \in Seq(S)
  BY <1>1, PartsOfWords, Zenon
<1>3. key \o <<"=">> \in Seq(S) /\ Len(key) \in Nat /\ Len(value) \in Nat
  BY <1>1
<1> HIDE DEF key, value
<1>4. Rest(rest, Len(value)) = value
  BY <1>1, <1>3, EndIsRest
<1>5. CASE ~Contains(value, "&")
  <2>1. NextOf(rest) = value
    BY <1>5 DEF NextOf, value
  <2> QED BY <1>1, <1>2, <1>3, <1>4, <2>1 DEF key, value
<1>6. CASE Contains(value, "&")
  <2> DEFINE next == After(value, "&")
             x == Before(value, "&")
  <2>1. NextOf(rest) = next
    BY <1>6 DEF NextOf, value
  <2>2. /\ "&" \in S /\ x \in Seq(S) /\ next \in Seq(S) /\ value = x \o <<"&">> \o next
        /\ Len(value) = Len(x) + 1 + Len(next)
    BY <1>1, <1>6, Division, Zenon
  <2> HIDE DEF next, x
  <2>3. x \o <<"&">> \in Seq(S) /\ Len(x) \in Nat /\ Len(next) \in Nat
    BY <2>2
  <2>4. Rest(value, Len(next)) = next
    BY <2>2, <2>3, EndIsRest
  <2>5. Rest(Rest(rest, Len(value)), Len(next)) = Rest(rest, Len(next))
    <3>1. Len(value) \in 0..Len(rest) /\ Len(next) \in 0..Len(value)
      BY <1>1, <1>3, <2>2, <2>3
    <3> QED BY <3>1, RestOfRest
  <2>6. Len(next) < Len(rest)
    BY <1>1, <1>3, <2>2, <2>3
  <2> QED BY <1>1, <1>2, <1>4, <2>1, <2>2, <2>3, <2>4, <2>5, <2>6, Zenon DEF key, value
<1> QED BY <1>5, <1>6

-----------------------------------------------------------------------------
\* What the loop has collected behind each place of a body.
Solves(body, m, f) ==
  \A l \in 0..m : f[l] = RoundOf(Rest(body, l), f[Len(NextOf(Rest(body, l)))])

Agree(S, body, m, f, g) == \A l \in 0..m : f[l] = g[l]

LEMMA SolutionsAgree ==
  ASSUME NEW S, NEW body \in Seq(S), NEW m \in 0..Len(body), NEW f, NEW g,
         Solves(body, m, f), Solves(body, m, g)
  PROVE  Agree(S, body, m, f, g)
<1> DEFINE T == {l \in 0..m : f[l] = g[l]}
<1>0. m \in Nat
  OBVIOUS
<1>1. ASSUME NEW k \in 0..m, \A j \in 0..m : j < k => j \in T PROVE k \in T
  <2> DEFINE r == Rest(body, k)
             n == Len(NextOf(r))
  <2>1. k \in 0..Len(body)
    OBVIOUS
  <2>2. r \in Seq(S) /\ Len(r) = k
    BY <2>1, RestType
  <2>3. f[k] = RoundOf(r, f[n]) /\ g[k] = RoundOf(r, g[n])
    BY Zenon DEF Solves
  <2>4. CASE ~Contains(r, "=")
    <3> HIDE DEF r, n
    <3> QED BY <2>3, <2>4 DEF RoundOf
  <2>5. CASE Contains(r, "=")
    <3>1. n \in Nat /\ n < k
      <4> HIDE DEF r
      <4> QED BY <2>2, <2>5, NextIsRest
    <3> HIDE DEF n, r
    <3>2. n \in 0..m
      BY <3>1
    <3>3. f[n] = g[n]
      <4>1. n \in T
        BY <1>1, <3>1, <3>2
      <4> QED BY <4>1
    <3> QED BY <2>3, <3>3
  <2> QED BY <2>4, <2>5
<1>2. \A k \in 0..m : k \in T
  <2> HIDE DEF T
  <2> QED BY <1>0, <1>1, FromBelow
<1> QED BY <1>2 DEF Agree

\* Maps from keys to values.
MapsOf(S) == UNION {[D -> Seq(S)] : D \in SUBSET Seq(S)}

LEMMA MapsType ==
  ASSUME NEW S
  PROVE  /\ <<>> \in MapsOf(S)
         /\ \A later \in MapsOf(S), key \in Seq(S), value \in Seq(S) :
              WithEarlier(later, key, value) \in MapsOf(S)
<1>1. <<>> \in [{} -> Seq(S)]
  <2>1. <<>> \in Seq(Seq(S)) /\ Len(<<>>) = 0 /\ 1..0 = {}
    OBVIOUS
  <2> QED BY <2>1, LenProperties
<1>2. ASSUME NEW later \in MapsOf(S), NEW key \in Seq(S), NEW value \in Seq(S)
      PROVE  WithEarlier(later, key, value) \in MapsOf(S)
  <2>1. PICK D \in SUBSET Seq(S) : later \in [D -> Seq(S)]
    BY DEF MapsOf
  <2> DEFINE E == D \cup {key}
  <2>2. WithEarlier(later, key, value) \in [E -> Seq(S)]
    BY <2>1 DEF WithEarlier
  <2>3. E \in SUBSET Seq(S)
    OBVIOUS
  <2> QED BY <2>2, <2>3 DEF MapsOf
<1> QED BY <1>1, <1>2 DEF MapsOf

LEMMA SolutionExists ==
  ASSUME NEW S, NEW body \in Seq(S)
  PROVE  \E f \in [0..Len(body) -> MapsOf(S)] : Solves(body, Len(body), f)
<1> DEFINE n == Len(body)
           V == MapsOf(S)
           rest(l) == Rest(body, l)
           done == {l \in 0..n : ~Contains(rest(l), "=")}
           back == [l \in 0..n |-> Len(NextOf(rest(l)))]
           join == [l \in 0..n |-> [later \in V |->
                      IF l \in done THEN <<>> ELSE RoundOf(rest(l), later)]]
<1>1. n \in Nat /\ <<>> \in V
  BY MapsType
<1>2. ASSUME NEW l \in 0..n
      PROVE  /\ rest(l) \in Seq(S) /\ Len(rest(l)) = l
             /\ l \in done <=> ~Contains(rest(l), "=")
  BY RestType
<1>3. ASSUME NEW l \in 0..n, l \notin done
      PROVE  back[l] \in Nat /\ back[l] < l
  <2> DEFINE r == rest(l)
  <2>1. r \in Seq(S) /\ Len(r) = l /\ Contains(r, "=")
    BY <1>2, <1>3
  <2>2. back[l] = Len(NextOf(r))
    OBVIOUS
  <2> HIDE DEF r
  <2>3. Len(NextOf(r)) \in Nat /\ Len(NextOf(r)) < Len(r)
    BY <2>1, NextIsRest
  <2> HIDE DEF back
  <2> QED BY <2>1, <2>2, <2>3
<1>4. join \in [0..n -> [V -> V]]
  <2> SUFFICES ASSUME NEW l \in 0..n, NEW later \in V
               PROVE  (IF l \in done THEN <<>> ELSE RoundOf(rest(l), later)) \in V
    OBVIOUS
  <2>1. CASE l \in done
    BY <1>1, <2>1
  <2>2. CASE l \notin done
    <3> DEFINE r == rest(l)
    <3>1. r \in Seq(S) /\ Contains(r, "=")
      BY <1>2, <2>2
    <3> HIDE DEF r
    <3>2. Before(r, "=") \in Seq(S) /\ Before(After(r, "="), "&") \in Seq(S)
      BY <3>1, NextIsRest
    <3>3. RoundOf(r, later) \in V
      BY <3>1, <3>2, MapsType DEF RoundOf
    <3> QED BY <2>2, <3>3 DEF r
  <2> QED BY <2>1, <2>2
<1> HIDE DEF V
<1>5. \A l \in 0..n : back[l] = Len(NextOf(rest(l)))
  OBVIOUS
<1>6. \A l \in 0..n : \A later \in V : join[l][later] = IF l \in done THEN <<>> ELSE RoundOf(rest(l), later)
  OBVIOUS
<1> HIDE DEF back, join, n
<1>7. PICK f \in [0..n -> V] : Descent(n, done, back, <<>>, join, f)
  <2> HIDE DEF done
  <2> QED BY <1>1, <1>3, <1>4, DescentHasResults
<1>8. ASSUME NEW l \in 0..n
      PROVE  f[l] = RoundOf(rest(l), f[Len(NextOf(rest(l)))])
  <2>1. f[l] = IF l \in done THEN <<>> ELSE join[l][f[back[l]]]
    BY <1>7, Zenon DEF Descent
  <2>2. CASE l \in done
    <3>1. ~Contains(rest(l), "=")
      BY <1>2, <2>2
    <3> QED BY <2>1, <2>2, <3>1 DEF RoundOf
  <2>3. CASE l \notin done
    <3>1. back[l] \in 0..n
      BY <1>1, <1>3, <2>3
    <3>2. f[back[l]] \in V
      BY <3>1
    <3>3. join[l][f[back[l]]] = RoundOf(rest(l), f[back[l]])
      BY <1>6, <2>3, <3>2, Zenon
    <3> QED BY <1>5, <2>1, <2>3, <3>3, Zenon
  <2> QED BY <2>2, <2>3
<1>9. Solves(body, n, f)
  BY <1>8, Zenon DEF Solves
<1> QED BY <1>9, Zenon DEF n, V
\* Params is the solution at the beginning of the body.
LEMMA ParamsIs ==
  ASSUME NEW S, NEW body \in Seq(S),
         NEW f \in [0..Len(body) -> MapsOf(S)], Solves(body, Len(body), f)
  PROVE  Params(body) = f[Len(body)]
<1> DEFINE n == Len(body)
           Loop(p) == p = [left \in 0..Len(body) |->
             LET rest == Rest(body, left)
                 value == After(rest, "=")
                 next == IF Contains(value, "&") THEN After(value, "&") ELSE value
             IN  IF ~Contains(rest, "=") THEN <<>>
                 ELSE WithEarlier(p[Len(next)], Before(rest, "="), Before(value, "&"))]
           params == CHOOSE p : Loop(p)
<1>1. Params(body) = params[n]
  BY Zenon DEF Params
<1>2. ASSUME NEW p PROVE Loop(p) <=> p = [left \in 0..n |->
                          RoundOf(Rest(body, left), p[Len(NextOf(Rest(body, left)))])]
  BY Zenon DEF RoundOf, NextOf
<1>3. f = [left \in 0..n |-> RoundOf(Rest(body, left), f[Len(NextOf(Rest(body, left)))])]
  BY DEF Solves
<1>4. Loop(f)
  <2> HIDE DEF Loop
  <2> QED BY <1>2, <1>3, Zenon
<1>5. Loop(params)
  <2> HIDE DEF Loop
  <2> QED BY <1>4, Zenon
<1> HIDE DEF Loop, params
<1>6. params = [left \in 0..n |-> RoundOf(Rest(body, left), params[Len(NextOf(Rest(body, left)))])]
  BY <1>2, <1>5, Zenon
<1>7. Solves(body, n, params)
  BY <1>6, Zenon DEF Solves
<1>8. n \in 0..Len(body) /\ n \in 0..n
  OBVIOUS
<1>9. \A l \in 0..n : params[l] = f[l]
  <2> HIDE DEF n
  <2>1. Solves(body, n, f)
    BY Zenon DEF n
  <2>2. Agree(S, body, n, params, f)
    BY <1>7, <1>8, <2>1, SolutionsAgree, Zenon
  <2> QED BY <2>2, Zenon DEF Agree
<1> QED BY <1>1, <1>8, <1>9, Zenon

LEMMA ParamsType ==
  ASSUME NEW S, NEW body \in Seq(S)
  PROVE  Params(body) \in MapsOf(S)
<1>1. PICK f \in [0..Len(body) -> MapsOf(S)] : Solves(body, Len(body), f)
  BY SolutionExists
<1>2. Len(body) \in 0..Len(body)
  OBVIOUS
<1>3. Params(body) = f[Len(body)]
  BY <1>1, ParamsIs
<1> QED BY <1>2, <1>3

\* The first round of the loop, and what the next ones add.
ParamsRound(S, body) == Params(body) = RoundOf(body, Params(NextOf(body)))

LEMMA ParamsStep ==
  ASSUME NEW S, NEW body \in Seq(S)
  PROVE  ParamsRound(S, body)
<1> DEFINE n == Len(body)
<1>1. PICK f \in [0..n -> MapsOf(S)] : Solves(body, n, f)
  BY SolutionExists
<1>2. n \in Nat /\ n \in 0..n
  OBVIOUS
<1>3. Params(body) = f[n]
  BY <1>1, ParamsIs
<1>4. Rest(body, n) = body
  <2>1. n + 1 - n = 1 /\ SubSeq(body, 1, n) = body
    BY <1>2, SubSeqFull
  <2> QED BY <2>1 DEF Rest
<1> HIDE DEF n
<1>5. f[n] = RoundOf(body, f[Len(NextOf(body))])
  BY <1>1, <1>2, <1>4, Zenon DEF Solves
<1>6. CASE ~Contains(body, "=")
  <2>1. Params(body) = <<>> /\ RoundOf(body, Params(NextOf(body))) = <<>>
    BY <1>3, <1>5, <1>6 DEF RoundOf
  <2> QED BY <2>1 DEF ParamsRound
<1>7. CASE Contains(body, "=")
  <2> DEFINE next == NextOf(body)
             m == Len(next)
  <2>1. next \in Seq(S) /\ m \in Nat /\ m < n /\ Rest(body, m) = next
    BY <1>7, NextIsRest DEF n
  <2> HIDE DEF next
  <2>2. PICK g \in [0..m -> MapsOf(S)] : Solves(next, m, g)
    BY <2>1, SolutionExists
  <2>3. Params(next) = g[m]
    BY <2>1, <2>2, ParamsIs
  <2>4. Solves(next, m, f)
    <3> SUFFICES ASSUME NEW l \in 0..m
                 PROVE  f[l] = RoundOf(Rest(next, l), f[Len(NextOf(Rest(next, l)))])
      BY Zenon DEF Solves
    <3>1. l \in 0..n /\ m \in 0..n
      BY <1>2, <2>1
    <3>2. Rest(next, l) = Rest(body, l)
      <4>1. Rest(Rest(body, m), l) = Rest(body, l)
        BY <3>1, RestOfRest DEF n
      <4> QED BY <2>1, <4>1, Zenon
    <3>3. f[l] = RoundOf(Rest(body, l), f[Len(NextOf(Rest(body, l)))])
      BY <1>1, <3>1, Zenon DEF Solves
    <3> QED BY <3>2, <3>3, Zenon
  <2>5. m \in 0..Len(next) /\ m \in 0..m
    BY <2>1
  <2> HIDE DEF m
  <2>6. \A l \in 0..m : f[l] = g[l]
    <3>1. Agree(S, next, m, f, g)
      BY <2>1, <2>2, <2>4, <2>5, SolutionsAgree, Zenon
    <3> QED BY <3>1, Zenon DEF Agree
  <2>7. f[m] = Params(next)
    BY <2>3, <2>5, <2>6, Zenon
  <2> QED BY <1>3, <1>5, <2>7, Zenon DEF ParamsRound, next, m
<1> QED BY <1>6, <1>7

-----------------------------------------------------------------------------
\* A field of a form: what is before the = is its key, what is before the
\* next & its value.
Puts(params, later, key, value) ==
  params = [k \in DOMAIN later \cup {<<key>>} |-> IF k \in DOMAIN later THEN later[k] ELSE value]

LEMMA FieldBeforeOthers ==
  ASSUME NEW S, NEW key \in S, key # "=", "=" \in S, "&" \in S,
         NEW value \in Seq(S), ~Contains(value, "&"), NEW rest \in Seq(S)
  PROVE  Puts(Params(<<key>> \o <<"=">> \o (value \o <<"&">> \o rest)), Params(rest), key, value)
         /\ <<key>> \o <<"=">> \o (value \o <<"&">> \o rest) \in Seq(S)
<1> DEFINE v == value \o <<"&">> \o rest
           body == <<key>> \o <<"=">> \o v
<1>1. <<key>> \in Seq(S) /\ ~Contains(<<key>>, "=") /\ v \in Seq(S)
  BY OneWord
<1> HIDE DEF v
<1>2. Contains(body, "=") /\ Before(body, "=") = <<key>> /\ After(body, "=") = v
  BY <1>1, Divided, Zenon
<1>3. Contains(v, "&") /\ Before(v, "&") = value /\ After(v, "&") = rest
  BY Divided, Zenon DEF v
<1>4. body \in Seq(S)
  BY <1>1
<1>5. ParamsRound(S, body)
  BY <1>4, ParamsStep, Zenon
<1> HIDE DEF body
<1>6. Params(body) = WithEarlier(Params(rest), <<key>>, value)
  BY <1>2, <1>3, <1>5, Zenon DEF ParamsRound, RoundOf, NextOf
<1>7. Puts(Params(body), Params(rest), key, value)
  BY <1>6, Zenon DEF Puts, WithEarlier
<1> QED BY <1>4, <1>7, Zenon DEF body, v

LEMMA LastField ==
  ASSUME NEW S, NEW key \in S, key # "=", "=" \in S,
         NEW value \in Seq(S), ~Contains(value, "&"), ~Contains(value, "=")
  PROVE  Puts(Params(<<key>> \o <<"=">> \o value), <<>>, key, value)
         /\ <<key>> \o <<"=">> \o value \in Seq(S)
<1> DEFINE body == <<key>> \o <<"=">> \o value
<1>1. <<key>> \in Seq(S) /\ ~Contains(<<key>>, "=")
  BY OneWord
<1>2. Contains(body, "=") /\ Before(body, "=") = <<key>> /\ After(body, "=") = value
  BY <1>1, Divided, Zenon
<1>3. Before(value, "&") = value
  BY DEF Before
<1>4. body \in Seq(S)
  BY <1>1
<1>5. ParamsRound(S, body)
  BY <1>4, ParamsStep, Zenon
<1>6. ParamsRound(S, value)
  BY ParamsStep, Zenon
<1>7. Params(value) = <<>>
  BY <1>6, Zenon DEF ParamsRound, RoundOf
<1> HIDE DEF body
<1>8. Params(body) = WithEarlier(<<>>, <<key>>, value)
  BY <1>2, <1>3, <1>5, <1>7, Zenon DEF ParamsRound, RoundOf, NextOf
<1>9. Puts(Params(body), <<>>, key, value)
  BY <1>8, Zenon DEF Puts, WithEarlier
<1> QED BY <1>4, <1>9, Zenon DEF body
-----------------------------------------------------------------------------
\* What the browser makes of a word.
EncodeStep ==
  [w \in TextWords |->
     CASE w = SP -> <<"+">>
       [] w = "'" -> <<"%", "27">>
       [] w = "%" -> <<"%", "25">>
       [] w \in Markers \cup OptionMarkers -> <<"%", MarkerCode>>
       [] OTHER -> <<w>>]

LEMMA EncodeIsEach ==
  ASSUME NEW text \in Seq(TextWords)
  PROVE  /\ EncodeStep \in [TextWords -> Seq(MessageWords)]
         /\ Encode(text) = Each(EncodeStep, text)
         /\ Encode(text) \in Seq(MessageWords)
<1>1. EncodeStep \in [TextWords -> Seq(MessageWords)]
  <2>1. {"+", "%", "27", "25", MarkerCode} \subseteq MessageWords
    BY DEF MessageWords, Syntax
  <2>2. ASSUME NEW w \in TextWords, w \notin Markers \cup OptionMarkers PROVE w \in MessageWords
    BY <2>2 DEF TextWords
  <2> SUFFICES ASSUME NEW w \in TextWords PROVE EncodeStep[w] \in Seq(MessageWords)
    BY DEF EncodeStep
  <2>3. CASE w = SP \/ w = "'" \/ w = "%" \/ w \in Markers \cup OptionMarkers
    <3>1. /\ <<"+">> \in Seq(MessageWords) /\ <<"%", "27">> \in Seq(MessageWords)
          /\ <<"%", "25">> \in Seq(MessageWords) /\ <<"%", MarkerCode>> \in Seq(MessageWords)
      BY <2>1
    <3> QED BY <2>3, <3>1 DEF EncodeStep
  <2>4. CASE ~ (w = SP \/ w = "'" \/ w = "%" \/ w \in Markers \cup OptionMarkers)
    <3>1. EncodeStep[w] = <<w>> /\ w \in MessageWords
      BY <2>2, <2>4 DEF EncodeStep
    <3> QED BY <3>1
  <2> QED BY <2>3, <2>4
<1>2. DOMAIN text = 1..Len(text) /\ \A k \in DOMAIN text : text[k] \in TextWords
  OBVIOUS
<1>3. [k \in DOMAIN text |->
        CASE text[k] = SP -> <<"+">>
          [] text[k] = "'" -> <<"%", "27">>
          [] text[k] = "%" -> <<"%", "25">>
          [] text[k] \in Markers \cup OptionMarkers -> <<"%", MarkerCode>>
          [] OTHER -> <<text[k]>>] = Pieces(EncodeStep, text)
  BY <1>2 DEF Pieces, EncodeStep
<1>4. Encode(text) = Each(EncodeStep, text)
  BY <1>3, Zenon DEF Encode, Each
<1>5. Each(EncodeStep, text) \in Seq(MessageWords)
  BY <1>1, EachType
<1> QED BY <1>1, <1>4, <1>5

\* Letters and spaces come back as they were.
LEMMA PlainReturns ==
  ASSUME NEW text \in Seq(TextWords), Plain(text)
  PROVE  /\ PseudoDecode(Encode(text)) = text
         /\ ~Contains(Encode(text), "&") /\ ~Contains(Encode(text), "=")
<1> DEFINE r == [k \in 1..Len(text) |-> IF text[k] = SP THEN "+" ELSE text[k]]
<1>1. /\ DOMAIN text = 1..Len(text) /\ Len(text) \in Nat
      /\ \A k \in 1..Len(text) : text[k] \in TextWords /\ text[k] \in {"a", "b", SP}
  BY DEF Plain
<1>2. {"a", "b", "+"} \subseteq MessageWords
  BY DEF MessageWords, Syntax
<1>3. \A k \in 1..Len(text) : r[k] \in {"a", "b", "+"}
  BY <1>1
<1>4. r \in Seq(MessageWords) /\ Len(r) = Len(text)
  BY <1>1, <1>2, <1>3
<1>5. \A k \in 1..Len(text) : EncodeStep[text[k]] = <<r[k]>>
  <2> TAKE k \in 1..Len(text)
  <2>1. CASE text[k] = SP
    <3>1. SP \in TextWords /\ SP # "'" /\ SP # "%" /\ SP \notin Markers \cup OptionMarkers
      <4>1. SP \in MessageWords
        BY DEF MessageWords, Syntax
      <4> QED BY <4>1, Keys, MarkersDiffer, SpaceDiffers
    <3>2. EncodeStep[SP] = <<"+">>
      BY <3>1 DEF EncodeStep
    <3> QED BY <2>1, <3>2
  <2>2. CASE text[k] # SP
    <3>1. text[k] \in {"a", "b"} /\ text[k] \in TextWords /\ r[k] = text[k]
      BY <1>1, <2>2
    <3>2. text[k] \notin Markers \cup OptionMarkers
      BY <1>2, <3>1, Keys, MarkersDiffer
    <3>3. text[k] # "'" /\ text[k] # "%"
      BY <3>1
    <3> HIDE DEF r
    <3> QED BY <2>2, <3>1, <3>2, <3>3 DEF EncodeStep
  <2> QED BY <2>1, <2>2
<1> HIDE DEF r
<1>6. Encode(text) = r
  <2>1. EncodeStep \in [TextWords -> Seq(MessageWords)] /\ Encode(text) = Each(EncodeStep, text)
    BY EncodeIsEach, Zenon
  <2>2. Each(EncodeStep, text) = r
    <3>1. EachIs(TextWords, MessageWords, EncodeStep, text, r)
      BY <1>4, <1>5, <2>1, EachSingle, Zenon
    <3> QED BY <3>1, Zenon DEF EachIs
  <2> QED BY <2>1, <2>2
<1>7. ~Contains(r, "&") /\ ~Contains(r, "=")
  BY <1>3, <1>4 DEF Contains
<1>8. PseudoDecode(r) = text
  <2>1. DOMAIN r = 1..Len(text)
    BY <1>4
  <2>2. \A k \in 1..Len(text) : (IF r[k] = "+" THEN SP ELSE r[k]) = text[k]
    BY <1>1 DEF r
  <2>3. text = [k \in 1..Len(text) |-> text[k]]
    BY <1>1
  <2>4. PseudoDecode(r) = [k \in 1..Len(text) |-> IF r[k] = "+" THEN SP ELSE r[k]]
    BY <2>1, Zenon DEF PseudoDecode
  <2> QED BY <2>2, <2>3, <2>4
<1> QED BY <1>6, <1>7, <1>8

LEMMA PseudoDecodeType ==
  ASSUME NEW text \in Seq(MessageWords)
  PROVE  PseudoDecode(text) \in Seq(MessageWords)
<1>1. SP \in MessageWords
  BY DEF MessageWords, Syntax
<1> QED BY <1>1 DEF PseudoDecode

-----------------------------------------------------------------------------
\* What a meme is when its parameters are whatever was parsed.
LEMMA ParamType ==
  ASSUME NEW params \in MapsOf(MessageWords), NEW key
  PROVE  Param(params, key) \in Seq(MessageWords)
<1>1. PICK D \in SUBSET Seq(MessageWords) : params \in [D -> Seq(MessageWords)]
  BY DEF MapsOf
<1>2. <<>> \in Seq(MessageWords)
  OBVIOUS
<1> QED BY <1>1, <1>2 DEF Param

LEMMA RowType ==
  ASSUME NEW params \in MapsOf(MessageWords)
  PROVE  Row(AtoiTemplate(Param(params, "template_id")),
             PseudoDecode(Param(params, "top_text")),
             PseudoDecode(Param(params, "bottom_text"))) \in RowSet
<1>1. PseudoDecode(Param(params, "top_text")) \in Seq(MessageWords)
      /\ PseudoDecode(Param(params, "bottom_text")) \in Seq(MessageWords)
  BY ParamType, PseudoDecodeType, Zenon
<1>2. \A text : AtoiTemplate(text) \in ToSet(Templates) \cup {"0"}
  <2> SUFFICES ASSUME NEW text, text \in {<<n>> : n \in ToSet(Templates)}
               PROVE  text[1] \in ToSet(Templates)
    BY DEF AtoiTemplate
  <2> QED OBVIOUS
<1> QED BY <1>1, <1>2 DEF Row, RowSet, StoredTemplates

\* The body and the URI of a message, and what Places finds in it.
LEMMA MessageParts ==
  ASSUME NEW m \in Seq(MessageWords), m # <<>>
  PROVE  /\ Body(m) \in Seq(MessageWords)
         /\ Uri(m) \in Seq(MessageWords)
         /\ Contains(Uri(m), "?") => After(Uri(m), "?") \in Seq(MessageWords)
<1>1. Uri(m) \in Seq(MessageWords)
  BY PartsOfWords, Zenon DEF Uri, RequestLine
<1>2. Contains(Uri(m), "?") => After(Uri(m), "?") \in Seq(MessageWords)
  BY <1>1, Division, Zenon
<1>3. CASE Places(m, HeadersEnd) = {}
  BY <1>1, <1>2, <1>3, HeadTailProperties DEF Body
<1>4. CASE Places(m, HeadersEnd) # {}
  <2> DEFINE p == Places(m, HeadersEnd)
             n == Min(p)
  <2>1. p \subseteq Nat
    BY DEF Places, HeadersEnd
  <2>2. n \in p
    <3>1. \E x \in p : \A y \in p : x =< y
      <4> HIDE DEF p
      <4> QED BY <1>4, <2>1, Least DEF p
    <3> QED BY <3>1, Zenon DEF Min
  <2> HIDE DEF p, n
  <2>3. n \in Nat
    BY <2>1, <2>2
  <2>4. SubSeq(m, n + 4, Len(m)) \in Seq(MessageWords)
    BY <2>3
  <2>5. Body(m) = SubSeq(m, n + 4, Len(m))
    BY <1>4, Zenon DEF Body, p, n
  <2> QED BY <1>1, <1>2, <2>4, <2>5
<1> QED BY <1>3, <1>4
-----------------------------------------------------------------------------
\* What the form in the browser holds.  An edit holds the id of a row, and of
\* that row the bottom text, and the template if it is one of the options.
FormSet == [update      : {<<>>} \cup {<<n>> : n \in Numbers},
            template_id : ToSet(Templates),
            top_text    : Seq(TextWords),
            bottom_text : Seq(TextWords)]
Edits(f, i) ==
  /\ f.update = <<IdText[i]>>
  /\ f.bottom_text = table[i].bottom_text
  /\ table[i].template_id \in ToSet(Templates) => f.template_id = table[i].template_id

\* The options of the form, with the one of v selected.
OptionOf(t, v) ==
  IF t = v THEN <<t>> \o <<"selected">> ELSE <<t>>
DropStep ==
  [w \in Words |-> IF w \in {Marker(Equality("template_id", t)) : t \in ToSet(Templates)}
                   THEN <<>> ELSE <<w>>]
Filled(s, v) == Each(DropStep, Inject(s, Equality("template_id", v), <<"selected">>))

LEMMA DropStepType == DropStep \in [Words -> Seq(Words)]
BY DEF DropStep

LEMMA EqualityInjectIs ==
  ASSUME NEW s \in Seq(Words), NEW v
  PROVE  EqualityInject(s, v, "template_id", <<"selected">>, ToSet(Templates)) = Filled(s, v)
<1> DEFINE injected == Inject(s, Equality("template_id", v), <<"selected">>)
           others == {Marker(Equality("template_id", t)) : t \in ToSet(Templates)}
<1>1. <<"selected">> \in Seq(Words)
  BY MarkersDiffer
<1>2. InjectsBoth(s, s, Equality("template_id", v), <<"selected">>)
  BY <1>1, InjectConcat, Zenon
<1>3. injected \in Seq(Words)
  BY <1>2, Zenon DEF InjectsBoth
<1>4. EqualityInject(s, v, "template_id", <<"selected">>, ToSet(Templates))
        = FlattenSeq([i \in DOMAIN injected |->
            IF injected[i] \in others THEN <<>> ELSE <<injected[i]>>])
  BY Zenon DEF EqualityInject
<1>5. \A w \in Words : DropStep[w] = IF w \in others THEN <<>> ELSE <<w>>
  BY DEF DropStep
<1> HIDE DEF injected, others
<1>6. [i \in DOMAIN injected |-> IF injected[i] \in others THEN <<>> ELSE <<injected[i]>>]
        = Pieces(DropStep, injected)
  <2>1. \A i \in DOMAIN injected : injected[i] \in Words
    BY <1>3
  <2> QED BY <1>5, <2>1 DEF Pieces
<1> QED BY <1>4, <1>6, Zenon DEF Filled, Each, injected

LEMMA FilledConcat ==
  ASSUME NEW a \in Seq(Words), NEW b \in Seq(Words), NEW v
  PROVE  Filled(a \o b, v) = Filled(a, v) \o Filled(b, v) /\ Filled(a, v) \in Seq(Words)
<1> DEFINE in(s) == Inject(s, Equality("template_id", v), <<"selected">>)
<1>1. <<"selected">> \in Seq(Words)
  BY MarkersDiffer
<1>2. InjectsBoth(a, b, Equality("template_id", v), <<"selected">>)
      /\ InjectsBoth(b, b, Equality("template_id", v), <<"selected">>)
  BY <1>1, InjectConcat, Zenon
<1>3. in(a) \in Seq(Words) /\ in(b) \in Seq(Words) /\ in(a \o b) = in(a) \o in(b)
  BY <1>2, Zenon DEF InjectsBoth
<1> HIDE DEF in
<1>4. Distributes(Words, Words, DropStep, in(a), in(b))
  BY <1>3, DropStepType, EachConcat, Zenon
<1>5. Each(DropStep, in(a)) \in Seq(Words)
  BY <1>3, DropStepType, EachType
<1> QED BY <1>3, <1>4, <1>5, Zenon DEF Distributes, Filled, in

LEMMA FilledWord ==
  ASSUME NEW w \in Words, NEW v
  PROVE  Filled(<<w>>, v) = IF w = Marker(Equality("template_id", v)) THEN <<"selected">>
                            ELSE IF w \in {Marker(Equality("template_id", t)) : t \in ToSet(Templates)}
                                 THEN <<>> ELSE <<w>>
<1> DEFINE in == Inject(<<w>>, Equality("template_id", v), <<"selected">>)
           others == {Marker(Equality("template_id", t)) : t \in ToSet(Templates)}
<1>1. <<"selected">> \in Seq(Words) /\ "selected" \in Words
  BY MarkersDiffer
<1>2. in = IF w = Marker(Equality("template_id", v)) THEN <<"selected">> ELSE <<w>>
  BY <1>1, InjectWord, Zenon
<1>3. \A x \in Words : DropStep[x] = IF x \in others THEN <<>> ELSE <<x>>
  BY DEF DropStep
<1>4. "selected" \notin others
  BY MarkersDiffer DEF OptionMarkers, StoredTemplates
<1> HIDE DEF in, others
<1>5. \A x \in Words : Each(DropStep, <<x>>) = DropStep[x]
  BY DropStepType, EachOne
<1>6. Each(DropStep, in) = IF w = Marker(Equality("template_id", v)) THEN <<"selected">>
                           ELSE IF w \in others THEN <<>> ELSE <<w>>
  <2>1. CASE w = Marker(Equality("template_id", v))
    <3>1. Each(DropStep, <<"selected">>) = <<"selected">>
      BY <1>1, <1>3, <1>4, <1>5, Zenon
    <3> QED BY <1>2, <2>1, <3>1, Zenon
  <2>2. CASE w # Marker(Equality("template_id", v))
    <3>1. Each(DropStep, <<w>>) = IF w \in others THEN <<>> ELSE <<w>>
      BY <1>3, <1>5, Zenon
    <3> QED BY <1>2, <2>2, <3>1, Zenon
  <2> QED BY <2>1, <2>2, Zenon
<1> QED BY <1>6, Zenon DEF Filled, in, others

\* An option keeps its value, and says selected if it is the one.
LEMMA FilledOption ==
  ASSUME NEW t \in ToSet(Templates), NEW v \in StoredTemplates
  PROVE  Options(t) \in Seq(Words) /\ Filled(Options(t), v) = OptionOf(t, v)
         /\ \A i \in 1..Len(Options(t)) : Options(t)[i] \notin Markers
<1> DEFINE m == Marker(Equality("template_id", t))
<1>1. /\ t \in MessageWords /\ m \in OptionMarkers /\ t \in Words /\ m \in Words
      /\ t \notin OptionMarkers /\ t \notin Markers /\ m \notin Markers
  <2>1. t \in MessageWords /\ m \in OptionMarkers
    BY DEF MessageWords, OptionMarkers, StoredTemplates
  <2> HIDE DEF m
  <2> QED BY <2>1, MarkersDiffer
<1>2. t # Marker(Equality("template_id", v))
      /\ t \notin {Marker(Equality("template_id", u)) : u \in ToSet(Templates)}
  BY <1>1 DEF OptionMarkers, StoredTemplates
<1>3. m = Marker(Equality("template_id", v)) <=> t = v
  BY MarkersAssumption, Zenon DEF StoredTemplates
<1>4. m \in {Marker(Equality("template_id", u)) : u \in ToSet(Templates)}
  OBVIOUS
<1>5. Options(t) = <<t>> \o <<m>> /\ Options(t) = <<t, m>>
  BY DEF Options
<1> HIDE DEF m
<1>6. Filled(<<t>>, v) = <<t>>
  BY <1>1, <1>2, FilledWord, Zenon
<1>7. Filled(<<m>>, v) = IF t = v THEN <<"selected">> ELSE <<>>
  <2>1. CASE t = v
    BY <1>1, <1>3, <2>1, FilledWord, Zenon
  <2>2. CASE t # v
    BY <1>1, <1>3, <1>4, <2>2, FilledWord, Zenon
  <2> QED BY <2>1, <2>2, Zenon
<1>8. <<t>> \in Seq(Words) /\ <<m>> \in Seq(Words)
  BY <1>1
<1>9. Filled(<<t>> \o <<m>>, v) = Filled(<<t>>, v) \o Filled(<<m>>, v)
  BY <1>8, FilledConcat, Zenon
<1>10. <<t>> \o <<>> = <<t>>
  OBVIOUS
<1>11. Filled(Options(t), v) = OptionOf(t, v)
  <2>1. CASE t = v
    BY <1>5, <1>6, <1>7, <1>9, <2>1, Zenon DEF OptionOf
  <2>2. CASE t # v
    BY <1>5, <1>6, <1>7, <1>9, <1>10, <2>2, Zenon DEF OptionOf
  <2> QED BY <2>1, <2>2, Zenon
<1>12. Options(t) \in Seq(Words) /\ \A i \in 1..Len(Options(t)) : Options(t)[i] \notin Markers
  BY <1>1, <1>5
<1> QED BY <1>11, <1>12
-----------------------------------------------------------------------------
\* Options of which only the one of v is selected.
Selectable(x, v) ==
  /\ x \in Seq(Words)
  /\ \A j \in 1..Len(x) : x[j] = "selected" => j > 1 /\ x[j - 1] = v /\ v \in ToSet(Templates)
  /\ x # <<>> => x[1] \in ToSet(Templates)

LEMMA SelectableStep ==
  ASSUME NEW v \in StoredTemplates, NEW x, Selectable(x, v), NEW t \in ToSet(Templates)
  PROVE  /\ Selectable(x \o OptionOf(t, v), v) /\ x \o OptionOf(t, v) # <<>>
         /\ t = v => Contains(x \o OptionOf(t, v), "selected")
         /\ Contains(x, "selected") => Contains(x \o OptionOf(t, v), "selected")
<1> DEFINE o == OptionOf(t, v)
           y == x \o o
<1>1. x \in Seq(Words)
  BY DEF Selectable
<1>2. t \in Words /\ "selected" \in Words /\ t # "selected"
  <2>1. t \in MessageWords
    BY DEF MessageWords
  <2>2. t # "selected"
    BY NumbersAssumption
  <2> QED BY <2>1, <2>2, MarkersDiffer
<1>3. /\ o \in Seq(Words) /\ Len(o) \in {1, 2} /\ o[1] = t
      /\ Len(o) = 2 => o[2] = "selected" /\ t = v
      /\ t = v => Len(o) = 2 /\ o[2] = "selected"
  <2>1. CASE t = v
    <3>1. o = <<t, "selected">>
      <4>1. o = <<t>> \o <<"selected">>
        BY <2>1, Zenon DEF OptionOf
      <4>2. <<t>> \o <<"selected">> = <<t, "selected">>
        BY TwoWords
      <4> QED BY <4>1, <4>2, Zenon
    <3> HIDE DEF o
    <3> QED BY <1>2, <2>1, <3>1
  <2>2. CASE t # v
    <3>1. o = <<t>>
      BY <2>2 DEF OptionOf
    <3> HIDE DEF o
    <3> QED BY <1>2, <2>2, <3>1
  <2> QED BY <2>1, <2>2
<1> HIDE DEF o
<1>4. /\ y \in Seq(Words) /\ Len(y) = Len(x) + Len(o) /\ Len(x) \in Nat
      /\ \A j \in 1..Len(x) + Len(o) : y[j] = IF j <= Len(x) THEN x[j] ELSE o[j - Len(x)]
  BY <1>1, <1>3
<1>5. Contains(x, "selected") => Contains(y, "selected")
  BY <1>1, <1>3, ContainsConcat, Zenon
<1>6. t = v => Contains(y, "selected")
  <2>1. t = v => Contains(o, "selected")
    BY <1>3 DEF Contains
  <2> QED BY <1>1, <1>3, <2>1, ContainsConcat, Zenon
<1> HIDE DEF y
<1>7. y # <<>> /\ y[1] \in ToSet(Templates)
  <2>1. Len(y) >= 1 /\ 1 \in 1..Len(x) + Len(o)
    BY <1>3, <1>4
  <2>2. CASE Len(x) = 0
    BY <1>3, <1>4, <2>1, <2>2
  <2>3. CASE Len(x) # 0
    <3>1. 1 <= Len(x) /\ x # <<>>
      BY <1>1, <1>4, <2>3
    <3> QED BY <1>4, <2>1, <3>1 DEF Selectable
  <2> QED BY <2>2, <2>3
<1>8. ASSUME NEW j \in 1..Len(y), y[j] = "selected"
      PROVE  j > 1 /\ y[j - 1] = v /\ v \in ToSet(Templates)
  <2>1. CASE j <= Len(x)
    <3>1. j \in 1..Len(x) /\ x[j] = "selected"
      BY <1>4, <1>8, <2>1
    <3>2. j > 1 /\ x[j - 1] = v /\ v \in ToSet(Templates)
      BY <3>1 DEF Selectable
    <3>3. j - 1 \in 1..Len(x) + Len(o) /\ j - 1 <= Len(x)
      BY <1>3, <1>4, <3>1, <3>2
    <3> QED BY <1>4, <3>2, <3>3
  <2>2. CASE ~ (j <= Len(x))
    <3> DEFINE k == j - Len(x)
    <3>1. k \in 1..Len(o) /\ o[k] = "selected"
      BY <1>3, <1>4, <1>8, <2>2
    <3>2. k = 2 /\ Len(o) = 2 /\ t = v
      BY <1>2, <1>3, <3>1
    <3>3. j - 1 \in 1..Len(x) + Len(o) /\ ~ (j - 1 <= Len(x)) /\ (j - 1) - Len(x) = 1 /\ j > 1
      BY <1>4, <3>2
    <3> QED BY <1>3, <1>4, <3>2, <3>3
  <2> QED BY <2>1, <2>2
<1>9. Selectable(y, v)
  BY <1>4, <1>7, <1>8 DEF Selectable
<1> QED BY <1>5, <1>6, <1>7, <1>9 DEF y, o

LEMMA SelectedIs ==
  ASSUME NEW v, NEW x, Selectable(x, v), x # <<>>,
         v \in ToSet(Templates) => Contains(x, "selected")
  PROVE  /\ Selected(x) \in ToSet(Templates)
         /\ v \in ToSet(Templates) => Selected(x) = v
<1> DEFINE marked == {k \in DOMAIN x : x[k] = "selected"}
<1>1. DOMAIN x = 1..Len(x) /\ Len(x) \in Nat
  BY DEF Selectable
<1>2. CASE marked = {}
  <2>1. Selected(x) = x[1]
    BY <1>2, Zenon DEF Selected
  <2>2. ~Contains(x, "selected")
    BY <1>1, <1>2 DEF Contains
  <2> QED BY <2>1, <2>2 DEF Selectable
<1>3. CASE marked # {}
  <2> DEFINE n == Min(marked)
  <2>1. n \in marked
    <3>1. marked \subseteq Nat
      BY <1>1
    <3>2. \E y \in marked : \A z \in marked : y =< z
      <4> HIDE DEF marked
      <4> QED BY <1>3, <3>1, Least
    <3> HIDE DEF marked
    <3> QED BY <3>2, Zenon DEF Min
  <2>2. Selected(x) = x[n - 1]
    BY <1>3, Zenon DEF Selected
  <2> HIDE DEF n
  <2>3. x[n - 1] = v /\ v \in ToSet(Templates)
    BY <1>1, <2>1 DEF Selectable
  <2> QED BY <2>2, <2>3
<1> QED BY <1>2, <1>3

LEMMA FilledEmpty ==
  ASSUME NEW v
  PROVE  Filled(<<>>, v) = <<>>
<1>1. <<"selected">> \in Seq(Words) /\ "selected" \in Words /\ <<>> \in Seq(Words)
  BY MarkersDiffer
<1> DEFINE f == InjectStep(Equality("template_id", v), <<"selected">>)
<1>2. f \in [Words -> Seq(Words)]
      /\ Inject(<<>>, Equality("template_id", v), <<"selected">>) = Each(f, <<>>)
  BY <1>1, InjectIsEach, Zenon
<1> HIDE DEF f
<1>3. Each(f, <<>>) = <<>> /\ Each(DropStep, <<>>) = <<>>
  BY <1>1, <1>2, DropStepType, EachOne
<1> QED BY <1>2, <1>3, Zenon DEF Filled

\* The options of the form, one after the other.
AllOptions == FlattenSeq([k \in DOMAIN Templates |-> Options(Templates[k])])

LEMMA AllOptionsSelect ==
  ASSUME NEW v \in StoredTemplates
  PROVE  /\ AllOptions \in Seq(Words) /\ \A i \in 1..Len(AllOptions) : AllOptions[i] \notin Markers
         /\ Selected(Filled(AllOptions, v)) \in ToSet(Templates)
         /\ v \in ToSet(Templates) => Selected(Filled(AllOptions, v)) = v
<1> DEFINE n == Len(Templates)
           pieces == [k \in DOMAIN Templates |-> Options(Templates[k])]
           Plainly == Words \ Markers
<1>1. /\ n \in Nat \ {0} /\ DOMAIN Templates = 1..n
      /\ \A k \in 1..n : Templates[k] \in ToSet(Templates)
      /\ \A t \in ToSet(Templates) : \E k \in 1..n : Templates[k] = t
  BY FormAssumption DEF ToSet
<1>2. pieces \in Seq(Seq(Words)) /\ Len(pieces) = n /\ \A k \in 1..n : pieces[k] = Options(Templates[k])
  <2>1. \A k \in 1..n : Options(Templates[k]) \in Seq(Words)
    BY <1>1, FilledOption
  <2>2. pieces = [k \in 1..n |-> Options(Templates[k])]
    BY <1>1
  <2> HIDE DEF pieces, n
  <2> QED BY <1>1, <2>1, <2>2
<1>3. AllOptions = FlattenSeq(pieces)
  BY Zenon DEF AllOptions
<1>4. AllOptions \in Seq(Plainly)
  <2>1. ASSUME NEW k \in 1..n PROVE pieces[k] \in Seq(Plainly)
    <3> DEFINE p == Options(Templates[k])
    <3>1. p \in Seq(Words) /\ \A i \in 1..Len(p) : p[i] \notin Markers
      BY <1>1, FilledOption, Zenon
    <3> HIDE DEF p
    <3>2. \A i \in 1..Len(p) : p[i] \in Plainly
      BY <3>1
    <3> HIDE DEF Plainly
    <3>3. p \in Seq(Plainly)
      BY <3>1, <3>2, SeqOver
    <3> QED BY <1>2, <3>3, Zenon DEF p
  <2> HIDE DEF pieces, Plainly
  <2>2. pieces \in Seq(Seq(Plainly))
    BY <1>2, <2>1, SeqOver
  <2> QED BY <1>3, <2>2, FlattenType
<1>5. AllOptions \in Seq(Words) /\ \A i \in 1..Len(AllOptions) : AllOptions[i] \notin Markers
  BY <1>4
<1> HIDE DEF pieces, Plainly
<1>6. PICK g : JoinedRow(Words, pieces, g)
  BY <1>2, FlattenRow
<1>7. g \in [0..n -> Seq(Words)] /\ g[0] = <<>> /\ \A k \in 1..n : g[k] = g[k - 1] \o Options(Templates[k])
  BY <1>2, <1>6, Zenon DEF JoinedRow
<1>8. AllOptions = g[n]
  BY <1>2, <1>3, <1>6, FlattenIsLast
<1> HIDE DEF n
<1> DEFINE x(k) == Filled(g[k], v)
           T == {k \in 0..n : /\ Selectable(x(k), v) /\ (k # 0 => x(k) # <<>>)
                              /\ \A j \in 1..k : Templates[j] = v => Contains(x(k), "selected")}
<1>9. ASSUME NEW k \in 0..n, \A j \in 0..n : j < k => j \in T PROVE k \in T
  <2>1. CASE k = 0
    <3>1. x(k) = <<>>
      BY <1>7, <2>1, FilledEmpty
    <3>2. Selectable(<<>>, v)
      BY DEF Selectable
    <3>3. ~ \E j \in 1..k : TRUE
      BY <2>1
    <3> HIDE DEF x
    <3> QED BY <2>1, <3>1, <3>2, <3>3
  <2>2. CASE k # 0
    <3>1. k - 1 \in 0..n /\ k - 1 < k /\ k \in 1..n
      BY <1>1, <2>2
    <3>2. k - 1 \in T
      BY <1>9, <3>1, Zenon
    <3> DEFINE t == Templates[k]
    <3>3. t \in ToSet(Templates)
      BY <1>1, <3>1
    <3>4. g[k - 1] \in Seq(Words) /\ Options(t) \in Seq(Words) /\ Filled(Options(t), v) = OptionOf(t, v)
      BY <1>7, <3>1, <3>3, FilledOption
    <3>5. g[k] = g[k - 1] \o Options(t)
      BY <1>7, <3>1
    <3>6. x(k) = x(k - 1) \o OptionOf(t, v)
      <4>1. Filled(g[k - 1] \o Options(t), v) = Filled(g[k - 1], v) \o Filled(Options(t), v)
        BY <3>4, FilledConcat, Zenon
      <4> QED BY <3>4, <3>5, <4>1, Zenon
    <3>7. Selectable(x(k - 1), v) /\ \A j \in 1..k - 1 : Templates[j] = v => Contains(x(k - 1), "selected")
      BY <3>2
    <3> DEFINE y == x(k - 1)
               z == x(k)
    <3>8. z = y \o OptionOf(t, v) /\ Selectable(y, v)
          /\ \A j \in 1..k - 1 : Templates[j] = v => Contains(y, "selected")
      BY <3>6, <3>7, Zenon
    <3> HIDE DEF y, x
    <3>9. /\ Selectable(z, v) /\ z # <<>>
          /\ t = v => Contains(z, "selected")
          /\ Contains(y, "selected") => Contains(z, "selected")
      <4> HIDE DEF t, z
      <4> QED BY <3>3, <3>8, SelectableStep, Zenon
    <3>10. ASSUME NEW j \in 1..k, Templates[j] = v PROVE Contains(z, "selected")
      <4>1. j = k \/ j \in 1..k - 1
        BY <3>1
      <4> QED BY <3>8, <3>9, <3>10, <4>1, Zenon
    <3> QED BY <3>9, <3>10
  <2> QED BY <2>1, <2>2
<1>10. \A k \in 0..n : k \in T
  <2>1. n \in Nat
    BY <1>1
  <2> HIDE DEF T
  <2> QED BY <1>9, <2>1, FromBelow
<1>11. n \in T /\ n # 0
  <2>1. n \in 0..n /\ n # 0
    BY <1>1
  <2> HIDE DEF T
  <2> QED BY <1>10, <2>1
<1> DEFINE z == x(n)
<1>12. Selectable(z, v) /\ z # <<>> /\ \A j \in 1..n : Templates[j] = v => Contains(z, "selected")
  BY <1>11, Zenon
<1>13. z = Filled(AllOptions, v)
  BY <1>8, Zenon
<1> HIDE DEF z, T, x
<1>14. v \in ToSet(Templates) => Contains(z, "selected")
  <2> SUFFICES ASSUME v \in ToSet(Templates) PROVE Contains(z, "selected")
    OBVIOUS
  <2>1. PICK k \in 1..n : Templates[k] = v
    BY <1>1
  <2> QED BY <1>12, <2>1, Zenon
<1>15. Selected(z) \in ToSet(Templates) /\ (v \in ToSet(Templates) => Selected(z) = v)
  BY <1>12, <1>14, SelectedIs, Zenon
<1> QED BY <1>5, <1>13, <1>15, Zenon

\* The form of an edit holds the meme.
LEMMA EditPageIs ==
  ASSUME TableInv, NEW i \in Rows
  PROVE  EditPage(i) \in FormSet /\ Edits(EditPage(i), i)
<1> DEFINE map == MemeMap(i)
           v == table[i].template_id
<1>1. /\ i \in Ids /\ table[i] \in RowSet /\ IsMeme(map)
      /\ v \in StoredTemplates /\ table[i].top_text \in Seq(MessageWords)
      /\ table[i].bottom_text \in Seq(MessageWords)
  BY RowsOfTable DEF RowSet
<1>2. /\ EditForm["update"] = <<Marker("meme_id")>>
      /\ EditForm["top_text"] = <<Marker("top_text")>>
      /\ EditForm["bottom_text"] = <<Marker("bottom_text")>>
      /\ EditForm["template_id"] = AllOptions
  BY Zenon DEF EditForm, AllOptions
<1>3. /\ map["meme_id"] = <<IdText[i]>>
      /\ map["top_text"] = table[i].top_text /\ map["bottom_text"] = table[i].bottom_text
  BY DEF MemeMap
<1> HIDE DEF map
<1>4. /\ InjectMap(EditForm["update"], map) = <<IdText[i]>>
      /\ InjectMap(EditForm["top_text"], map) = table[i].top_text
      /\ InjectMap(EditForm["bottom_text"], map) = table[i].bottom_text
  BY <1>1, <1>2, <1>3, Keys, InjectMapMarker
<1>5. InjectMap(EditForm["template_id"], map) = AllOptions
  <2>1. AllOptions \in Seq(Words) /\ \A k \in 1..Len(AllOptions) : AllOptions[k] \notin Markers
    BY <1>1, AllOptionsSelect, Zenon
  <2> QED BY <1>1, <1>2, <2>1, InjectMapKeeps
<1> DEFINE t == Selected(EqualityInject(AllOptions, v, "template_id", <<"selected">>, ToSet(Templates)))
<1>6. t \in ToSet(Templates) /\ (v \in ToSet(Templates) => t = v)
  <2>1. EqualityInject(AllOptions, v, "template_id", <<"selected">>, ToSet(Templates)) = Filled(AllOptions, v)
    BY <1>1, AllOptionsSelect, EqualityInjectIs, Zenon
  <2> QED BY <1>1, <2>1, AllOptionsSelect, Zenon
<1>7. EditPage(i) = [update |-> <<IdText[i]>>, top_text |-> table[i].top_text,
                     bottom_text |-> table[i].bottom_text, template_id |-> t]
  BY <1>4, <1>5, Zenon DEF EditPage, map
<1> HIDE DEF t, v
<1>8. IdText[i] \in Numbers /\ table[i].top_text \in Seq(TextWords) /\ table[i].bottom_text \in Seq(TextWords)
  <2>1. MessageWords \subseteq TextWords
    BY MarkersDiffer
  <2> QED BY <1>1, <2>1, SeqLarger DEF Numbers
<1> QED BY <1>6, <1>7, <1>8 DEF FormSet, Edits, v
-----------------------------------------------------------------------------
\* Three words in front of others, as fields need them.
Three(S, a, b, c, z) ==
  /\ <<a, b, c>> \o z = <<a>> \o <<b>> \o (<<c>> \o z)
  /\ <<a, b, c>> \o z = <<a>> \o (<<b>> \o <<c>> \o z)

LEMMA ThreeWords ==
  ASSUME NEW S, NEW a \in S, NEW b \in S, NEW c \in S, NEW z \in Seq(S)
  PROVE  Three(S, a, b, c, z)
<1> DEFINE x == <<a>>
           y == <<b>>
           w == <<c>>
<1>1. x \in Seq(S) /\ y \in Seq(S) /\ w \in Seq(S)
  OBVIOUS
<1>2. <<a, b, c>> = (x \o y) \o w
  <2> DEFINE s == (x \o y) \o w
             t == <<a, b, c>>
  <2>1. x \o y = <<a, b>>
    BY TwoWords
  <2>2. <<a, b>> \in Seq(S) /\ Len(<<a, b>>) = 2 /\ <<a, b>>[1] = a /\ <<a, b>>[2] = b
        /\ w \in Seq(S) /\ Len(w) = 1 /\ w[1] = c
    OBVIOUS
  <2>3. s \in Seq(S) /\ Len(s) = 3 /\ s[1] = a /\ s[2] = b /\ s[3] = c
    <3> DEFINE u == <<a, b>>
    <3> HIDE DEF u, w
    <3>1. s = u \o w
      BY <2>1, Zenon DEF u
    <3>2. u \in Seq(S) /\ Len(u) = 2 /\ u[1] = a /\ u[2] = b
      BY <2>2 DEF u
    <3>3. /\ u \o w \in Seq(S) /\ Len(u \o w) = Len(u) + Len(w)
          /\ \A i \in 1..Len(u) + Len(w) : (u \o w)[i] = IF i <= Len(u) THEN u[i] ELSE w[i - Len(u)]
      BY <1>1, <3>2, ConcatProperties, Zenon
    <3> HIDE DEF s
    <3>4. s \in Seq(S) /\ Len(s) = 3
          /\ \A i \in 1..3 : s[i] = IF i <= 2 THEN u[i] ELSE w[i - 2]
      BY <2>2, <3>1, <3>2, <3>3
    <3> QED BY <2>2, <3>2, <3>4
  <2>4. t \in Seq(S) /\ Len(t) = 3 /\ t[1] = a /\ t[2] = b /\ t[3] = c
    OBVIOUS
  <2> HIDE DEF s, t
  <2>5. \A i \in 1..Len(s) : s[i] = t[i]
    <3>1. \A i \in 1..3 : i = 1 \/ i = 2 \/ i = 3
      OBVIOUS
    <3> QED BY <2>3, <2>4, <3>1
  <2>6. s = t
    BY <2>3, <2>4, <2>5, SeqEqual
  <2> QED BY <2>6 DEF s, t
<1> HIDE DEF x, y, w
<1>3. x \o y \in Seq(S) /\ w \o z \in Seq(S)
  BY <1>1
<1>4. Regrouped(S, x \o y, w, z) /\ Regrouped(S, x, y, w \o z) /\ Regrouped(S, y, w, z)
  BY <1>1, <1>3, Regroup, Zenon
<1>5. <<a, b, c>> \o z = (x \o y) \o (w \o z)
  BY <1>2, <1>4, Zenon DEF Regrouped
<1>6. <<a, b, c>> \o z = x \o ((y \o w) \o z)
  BY <1>4, <1>5, Zenon DEF Regrouped
<1> QED BY <1>5, <1>6, Zenon DEF x, y, w, Three

\* A field between the value before it and what comes behind.
FieldBetween(S, v, b, c, z) ==
  v \o (<<"&", b, c>> \o z) = v \o <<"&">> \o (<<b>> \o <<c>> \o z)

LEMMA FieldBetweenIs ==
  ASSUME NEW S, NEW v \in Seq(S), "&" \in S, NEW b \in S, NEW c \in S, NEW z \in Seq(S)
  PROVE  FieldBetween(S, v, b, c, z)
<1> DEFINE x == <<"&">>
           w == <<b>> \o <<c>> \o z
<1>1. x \in Seq(S) /\ w \in Seq(S)
  OBVIOUS
<1>2. <<"&", b, c>> \o z = x \o w
  <2>1. Three(S, "&", b, c, z)
    BY ThreeWords, Zenon
  <2> QED BY <2>1, Zenon DEF Three
<1> HIDE DEF x, w
<1>3. Regrouped(S, v, x, w)
  BY <1>1, Regroup, Zenon
<1>4. v \o (<<"&", b, c>> \o z) = v \o x \o w
  BY <1>2, <1>3, Zenon DEF Regrouped
<1> QED BY <1>4, Zenon DEF FieldBetween, x, w

\* A pattern stands where all of its words do.
PlacesAre(S, s, p) ==
  Places(s, p) = {i \in 1..Len(s) + 1 - Len(p) : \A j \in 1..Len(p) : s[i + j - 1] = p[j]}

LEMMA PlacesOfPattern ==
  ASSUME NEW S, NEW s \in Seq(S), NEW p \in Seq(S), Len(p) \in 1..Len(s)
  PROVE  PlacesAre(S, s, p)
<1> DEFINE n == Len(p)
<1>0. n \in Nat /\ Len(s) \in Nat /\ 1 <= n /\ n <= Len(s)
  OBVIOUS
<1>1. ASSUME NEW i \in 1..Len(s) + 1 - n
      PROVE  IsPrefix(p, SubSeq(s, i, Len(s))) <=> \A j \in 1..n : s[i + j - 1] = p[j]
  <2> DEFINE t == SubSeq(s, i, Len(s))
             u == SubSeq(t, 1, n)
  <2>1. t \in Seq(S) /\ Len(t) = Len(s) - i + 1 /\ \A j \in 1..Len(s) - i + 1 : t[j] = s[i + j - 1]
    BY <1>0
  <2>2. n <= Len(t)
    BY <1>0, <2>1
  <2> HIDE DEF t
  <2>3. u \in Seq(S) /\ Len(u) = n /\ \A j \in 1..n : u[j] = t[j]
    BY <1>0, <2>1, <2>2
  <2>4. \A j \in 1..n : u[j] = s[i + j - 1]
    <3>1. \A j \in 1..n : j \in 1..Len(s) - i + 1
      BY <1>0
    <3> QED BY <2>1, <2>3, <3>1
  <2>5. SubSeq(p, 1, n) = p
    BY SubSeqFull
  <2>6. IsPrefix(p, t) <=> p = u
    BY <2>2, <2>5, Zenon DEF IsPrefix
  <2> HIDE DEF u
  <2>7. p = u <=> \A j \in 1..n : u[j] = p[j]
    <3>1. (\A j \in 1..n : u[j] = p[j]) => u = p
      BY <2>3, SeqEqual
    <3> QED BY <3>1
  <2> HIDE DEF n
  <2>8. IsPrefix(p, t) <=> \A j \in 1..n : s[i + j - 1] = p[j]
    BY <2>4, <2>6, <2>7
  <2> QED BY <2>8, Zenon DEF t
<1>2. Places(s, p) = {i \in 1..Len(s) + 1 - n : IsPrefix(p, SubSeq(s, i, Len(s)))}
  BY Zenon DEF Places
<1> HIDE DEF n
<1>3. Places(s, p) = {i \in 1..Len(s) + 1 - n : \A j \in 1..n : s[i + j - 1] = p[j]}
  BY <1>1, <1>2
<1> QED BY <1>3, Zenon DEF n, PlacesAre

-----------------------------------------------------------------------------
\* The head of the message of a form.
FormHead == Post \o <<SP, "/meme/create">> \o Headers

LEMMA HeadWords ==
  /\ FormHead \in Seq(MessageWords) /\ Len(FormHead) = 13
  /\ FormHead[1] = "POS" /\ FormHead[2] = "T" /\ FormHead[3] = SP
  /\ FormHead[4] = "/meme/create" /\ FormHead[5] = SP /\ FormHead[6] = "HTTP/1.1"
  /\ FormHead[7] = "\r" /\ FormHead[8] = "\n" /\ FormHead[9] = "Host"
  /\ FormHead[10] = "\r" /\ FormHead[11] = "\n" /\ FormHead[12] = "\r" /\ FormHead[13] = "\n"
<1> DEFINE p == Post
           q == <<SP, "/meme/create">>
           h == Headers
<1>1. {"POS", "T", SP, "/meme/create", "HTTP/1.1", "\r", "\n", "Host"} \subseteq MessageWords
  BY DEF MessageWords, Syntax
<1>2. p \in Seq(MessageWords) /\ Len(p) = 2 /\ p[1] = "POS" /\ p[2] = "T"
  BY <1>1 DEF Post
<1>3. q \in Seq(MessageWords) /\ Len(q) = 2 /\ q[1] = SP /\ q[2] = "/meme/create"
  BY <1>1
<1>4. h \in Seq(MessageWords) /\ Len(h) = 9
  BY <1>1 DEF Headers
<1>5. /\ h[1] = SP /\ h[2] = "HTTP/1.1" /\ h[3] = "\r" /\ h[4] = "\n" /\ h[5] = "Host"
      /\ h[6] = "\r" /\ h[7] = "\n" /\ h[8] = "\r" /\ h[9] = "\n"
  BY DEF Headers
<1>6. FormHead = (p \o q) \o h
  BY Zenon DEF FormHead
<1> HIDE DEF p, q, h
<1>7. p \o q \in Seq(MessageWords) /\ Len(p \o q) = 4
      /\ \A i \in 1..4 : (p \o q)[i] = IF i <= 2 THEN p[i] ELSE q[i - 2]
  <2>1. /\ p \o q \in Seq(MessageWords) /\ Len(p \o q) = Len(p) + Len(q)
        /\ \A i \in 1..Len(p) + Len(q) : (p \o q)[i] = IF i <= Len(p) THEN p[i] ELSE q[i - Len(p)]
    BY <1>2, <1>3, ConcatProperties, Zenon
  <2> QED BY <1>2, <1>3, <2>1
<1> DEFINE u == p \o q
<1> HIDE DEF u
<1>8. u \in Seq(MessageWords) /\ Len(u) = 4
      /\ u[1] = "POS" /\ u[2] = "T" /\ u[3] = SP /\ u[4] = "/meme/create"
  BY <1>2, <1>3, <1>7 DEF u
<1>9. u \o h \in Seq(MessageWords) /\ Len(u \o h) = 13
      /\ \A i \in 1..13 : (u \o h)[i] = IF i <= 4 THEN u[i] ELSE h[i - 4]
  <2>1. /\ u \o h \in Seq(MessageWords) /\ Len(u \o h) = Len(u) + Len(h)
        /\ \A i \in 1..Len(u) + Len(h) : (u \o h)[i] = IF i <= Len(u) THEN u[i] ELSE h[i - Len(u)]
    BY <1>4, <1>8, ConcatProperties, Zenon
  <2>2. Len(u) = 4 /\ Len(h) = 9 /\ 4 + 9 = 13
    BY <1>4, <1>8
  <2> DEFINE w == u \o h
  <2> HIDE DEF w
  <2>3. w \in Seq(MessageWords) /\ Len(w) = Len(u) + Len(h)
        /\ \A i \in 1..Len(u) + Len(h) : w[i] = IF i <= Len(u) THEN u[i] ELSE h[i - Len(u)]
    BY <2>1, Zenon DEF w
  <2>4. w \in Seq(MessageWords) /\ Len(w) = 13
        /\ \A i \in 1..13 : w[i] = IF i <= 4 THEN u[i] ELSE h[i - 4]
    BY <2>2, <2>3
  <2> QED BY <2>4, Zenon DEF w
<1>10. FormHead = u \o h
  BY <1>6, Zenon DEF u
<1> HIDE DEF FormHead
<1>11. FormHead \in Seq(MessageWords) /\ Len(FormHead) = 13
       /\ \A i \in 1..13 : FormHead[i] = IF i <= 4 THEN u[i] ELSE h[i - 4]
  BY <1>9, <1>10
<1>12. /\ FormHead[1] = u[1] /\ FormHead[2] = u[2] /\ FormHead[3] = u[3] /\ FormHead[4] = u[4]
       /\ FormHead[5] = h[1] /\ FormHead[6] = h[2] /\ FormHead[7] = h[3] /\ FormHead[8] = h[4]
       /\ FormHead[9] = h[5] /\ FormHead[10] = h[6] /\ FormHead[11] = h[7] /\ FormHead[12] = h[8]
       /\ FormHead[13] = h[9]
  BY <1>11
<1> QED BY <1>5, <1>8, <1>11, <1>12
-----------------------------------------------------------------------------
\* The fields of a form, as the browser writes them behind the head.
Update == IF form.update = <<>> THEN <<>> ELSE <<"&", "update", "=">> \o form.update
FormFields ==
  <<"template_id", "=", form.template_id>>
    \o (<<"&", "top_text", "=">> \o (Encode(form.top_text)
    \o (<<"&", "bottom_text", "=">> \o (Encode(form.bottom_text) \o Update))))

LEMMA FieldWords ==
  ASSUME form \in FormSet
  PROVE  /\ <<"template_id", "=", form.template_id>> \in Seq(MessageWords)
         /\ <<"&", "top_text", "=">> \in Seq(MessageWords)
         /\ <<"&", "bottom_text", "=">> \in Seq(MessageWords)
         /\ Encode(form.top_text) \in Seq(MessageWords)
         /\ Encode(form.bottom_text) \in Seq(MessageWords)
         /\ Update \in Seq(MessageWords)
<1>1. form.template_id \in MessageWords
  BY DEF FormSet, MessageWords
<1>2. {"template_id", "=", "&", "top_text", "bottom_text", "update"} \subseteq MessageWords
  BY DEF MessageWords, Syntax
<1>3. Encode(form.top_text) \in Seq(MessageWords) /\ Encode(form.bottom_text) \in Seq(MessageWords)
  <2>1. form.top_text \in Seq(TextWords) /\ form.bottom_text \in Seq(TextWords)
    BY DEF FormSet
  <2> QED BY <2>1, EncodeIsEach
<1>4. Update \in Seq(MessageWords)
  <2>1. form.update = <<>> \/ \E n \in MessageWords : form.update = <<n>>
    BY DEF FormSet, MessageWords
  <2>2. <<>> \in Seq(MessageWords) /\ <<"&", "update", "=">> \in Seq(MessageWords)
        /\ \A n \in MessageWords : <<n>> \in Seq(MessageWords)
    BY <1>2
  <2>3. form.update \in Seq(MessageWords)
    BY <2>1, <2>2
  <2> DEFINE u == <<"&", "update", "=">>
  <2> HIDE DEF u
  <2>4. u \o form.update \in Seq(MessageWords)
    BY <2>2, <2>3 DEF u
  <2> QED BY <2>2, <2>4 DEF Update, u
<1> QED BY <1>1, <1>2, <1>3, <1>4

\* Six sequences behind another one.
AllBehind(S, h, a, b, c, d, e, u) ==
  /\ h \o a \o b \o c \o d \o e \o u = h \o (a \o (b \o (c \o (d \o (e \o u)))))
  /\ a \o (b \o (c \o (d \o (e \o u)))) \in Seq(S)

LEMMA RegroupAll ==
  ASSUME NEW S, NEW h \in Seq(S), NEW a \in Seq(S), NEW b \in Seq(S), NEW c \in Seq(S),
         NEW d \in Seq(S), NEW e \in Seq(S), NEW u \in Seq(S)
  PROVE  AllBehind(S, h, a, b, c, d, e, u)
<1> DEFINE x1 == h \o a
           x2 == x1 \o b
           x3 == x2 \o c
           x4 == x3 \o d
           y4 == e \o u
           y3 == d \o y4
           y2 == c \o y3
           y1 == b \o y2
<1>1. x1 \in Seq(S) /\ y4 \in Seq(S)
  BY ConcatProperties, Zenon
<1> HIDE DEF x1, y4
<1>2. x2 \in Seq(S) /\ y3 \in Seq(S)
  BY <1>1, ConcatProperties, Zenon
<1> HIDE DEF x2, y3
<1>3. x3 \in Seq(S) /\ y2 \in Seq(S)
  BY <1>2, ConcatProperties, Zenon
<1> HIDE DEF x3, y2
<1>4. x4 \in Seq(S) /\ y1 \in Seq(S)
  BY <1>3, ConcatProperties, Zenon
<1> HIDE DEF x4, y1
<1>5. a \o y1 \in Seq(S)
  BY <1>4, ConcatProperties, Zenon
<1>6. /\ Regrouped(S, x4, e, u) /\ Regrouped(S, x3, d, y4) /\ Regrouped(S, x2, c, y3)
      /\ Regrouped(S, x1, b, y2) /\ Regrouped(S, h, a, y1)
  BY <1>1, <1>2, <1>3, <1>4, Regroup, Zenon
<1>7. /\ (x4 \o e) \o u = x4 \o y4
      /\ x4 \o y4 = x3 \o y3
      /\ x3 \o y3 = x2 \o y2
      /\ x2 \o y2 = x1 \o y1
      /\ x1 \o y1 = h \o (a \o y1)
  BY <1>6, Zenon DEF Regrouped, x4, y4, x3, y3, x2, y2, x1, y1
<1>8. (x4 \o e) \o u = h \o (a \o y1)
  BY <1>7, Zenon
<1> QED BY <1>5, <1>8, Zenon DEF AllBehind, x4, y4, x3, y3, x2, y2, x1, y1

LEMMA FormMessageIs ==
  ASSUME form \in FormSet
  PROVE  FormMessage = FormHead \o FormFields /\ FormFields \in Seq(MessageWords)
<1> DEFINE a == <<"template_id", "=", form.template_id>>
           b == <<"&", "top_text", "=">>
           c == Encode(form.top_text)
           d == <<"&", "bottom_text", "=">>
           e == Encode(form.bottom_text)
<1>1. FormMessage = FormHead \o a \o b \o c \o d \o e \o Update
  BY Zenon DEF FormMessage, FormHead, Update
<1>2. FormFields = a \o (b \o (c \o (d \o (e \o Update))))
  BY Zenon DEF FormFields
<1>3. /\ a \in Seq(MessageWords) /\ b \in Seq(MessageWords) /\ c \in Seq(MessageWords)
      /\ d \in Seq(MessageWords) /\ e \in Seq(MessageWords) /\ Update \in Seq(MessageWords)
  BY FieldWords, Zenon
<1> HIDE DEF a, b, c, d, e
<1>4. AllBehind(MessageWords, FormHead, a, b, c, d, e, Update)
  BY <1>3, HeadWords, RegroupAll, Zenon
<1> QED BY <1>1, <1>2, <1>4, Zenon DEF AllBehind

\* A sequence is its first element and the tail.
LEMMA FirstAndTail ==
  ASSUME NEW S, NEW s \in Seq(S), s # <<>>
  PROVE  /\ s = <<s[1]>> \o Tail(s) /\ Tail(s) \in Seq(S) /\ Len(Tail(s)) = Len(s) - 1
         /\ \A i \in 1..Len(s) - 1 : Tail(s)[i] = s[i + 1]
<1> DEFINE t == Tail(s)
           x == <<s[1]>>
<1>1. Len(s) \in Nat \ {0} /\ s[1] \in S
  OBVIOUS
<1>2. t \in Seq(S) /\ Len(t) = Len(s) - 1 /\ \A i \in 1..Len(s) - 1 : t[i] = s[i + 1]
  OBVIOUS
<1>3. x \in Seq(S) /\ Len(x) = 1 /\ x[1] = s[1]
  BY <1>1
<1> HIDE DEF t, x
<1>4. /\ x \o t \in Seq(S) /\ Len(x \o t) = Len(x) + Len(t)
      /\ \A i \in 1..Len(x) + Len(t) : (x \o t)[i] = IF i <= Len(x) THEN x[i] ELSE t[i - Len(x)]
  <2>1. x \in Seq(S) /\ t \in Seq(S)
    BY <1>2, <1>3
  <2> QED BY <2>1, ConcatProperties, Zenon
<1> DEFINE u == x \o t
<1>5. u \in Seq(S) /\ Len(u) = Len(s) /\ \A i \in 1..Len(s) : u[i] = s[i]
  <2> HIDE DEF u
  <2>1. u \in Seq(S) /\ Len(u) = Len(s)
        /\ \A i \in 1..Len(s) : u[i] = IF i <= 1 THEN x[i] ELSE t[i - 1]
    BY <1>1, <1>2, <1>3, <1>4 DEF u
  <2>2. ASSUME NEW i \in 1..Len(s) PROVE u[i] = s[i]
    <3>1. CASE i = 1
      BY <1>3, <2>1, <3>1
    <3>2. CASE i # 1
      <4>1. i - 1 \in 1..Len(s) - 1 /\ (i - 1) + 1 = i /\ ~ (i <= 1)
        BY <1>1, <3>2
      <4> QED BY <1>2, <2>1, <4>1
    <3> QED BY <3>1, <3>2
  <2> QED BY <2>1, <2>2
<1> HIDE DEF u
<1>6. u = s
  BY <1>5, SeqEqual
<1> QED BY <1>2, <1>6, Zenon DEF u, x, t

\* A message as its method, its URI and the rest of it.
LineOf(S, p, t, h) ==
  (p \o t) \o h = (p \o <<SP>>) \o ((Tail(t) \o <<SP>>) \o Tail(h))

LEMMA LineOfParts ==
  ASSUME NEW S, NEW p \in Seq(S), NEW t \in Seq(S), NEW h \in Seq(S), SP \in S,
         t # <<>>, t[1] = SP, h # <<>>, h[1] = SP
  PROVE  LineOf(S, p, t, h) /\ Tail(t) \in Seq(S) /\ Tail(h) \in Seq(S)
<1> DEFINE x == <<SP>>
           y == Tail(t)
           z == Tail(h)
<1>1. /\ t = x \o y /\ y \in Seq(S)
      /\ h = x \o z /\ z \in Seq(S)
  BY FirstAndTail, Zenon
<1>2. x \in Seq(S)
  OBVIOUS
<1> HIDE DEF x, y, z
<1>3. p \o x \in Seq(S) /\ x \o z \in Seq(S) /\ y \o x \in Seq(S)
  BY <1>1, <1>2, ConcatProperties, Zenon
<1>4. Regrouped(S, p, x, y) /\ Regrouped(S, p \o x, y, x \o z) /\ Regrouped(S, y, x, z)
  BY <1>1, <1>2, <1>3, Regroup, Zenon
<1>5. (p \o (x \o y)) \o (x \o z) = (p \o x) \o ((y \o x) \o z)
  BY <1>4, Zenon DEF Regrouped
<1>6. (p \o t) \o h = (p \o x) \o ((y \o x) \o z)
  BY <1>1, <1>5, Zenon
<1> QED BY <1>1, <1>6, Zenon DEF LineOf, x, y, z
\* Where there is a method and a URI in the messages of a browser.
PostRest == Tail(Headers \o FormFields)
DeleteUri(i) == <<"/meme/delete", "?", "id", "=", IdText[i]>>
DeleteMessage(i) == Get \o <<SP, "/meme/delete", "?", "id", "=", IdText[i]>> \o Headers

LEMMA HeadersWords ==
  /\ Headers \in Seq(MessageWords) /\ Len(Headers) = 9
  /\ Headers[1] = SP /\ Headers[2] = "HTTP/1.1" /\ Headers[3] = "\r"
<1>1. {SP, "HTTP/1.1", "\r", "\n", "Host"} \subseteq MessageWords
  BY DEF MessageWords, Syntax
<1>2. Headers \in Seq(MessageWords) /\ Len(Headers) = 9
  BY <1>1 DEF Headers
<1>3. Headers[1] = SP /\ Headers[2] = "HTTP/1.1" /\ Headers[3] = "\r"
  BY DEF Headers
<1> QED BY <1>2, <1>3

LEMMA PostLine ==
  ASSUME form \in FormSet
  PROVE  /\ FormMessage = (Post \o <<SP>>) \o ((<<"/meme/create">> \o <<SP>>) \o PostRest)
         /\ PostRest \in Seq(MessageWords) /\ Len(PostRest) >= 8
         /\ PostRest[1] = "HTTP/1.1" /\ PostRest[2] = "\r"
<1> DEFINE q == <<SP, "/meme/create">>
           h == Headers
           k == h \o FormFields
<1>1. FormMessage = ((Post \o q) \o h) \o FormFields /\ FormFields \in Seq(MessageWords)
  BY FormMessageIs, Zenon DEF FormHead
<1>2. {SP, "POS", "T", "/meme/create"} \subseteq MessageWords
  BY DEF MessageWords, Syntax
<1>3. Post \in Seq(MessageWords)
  BY <1>2 DEF Post
<1>4. q \in Seq(MessageWords) /\ q # <<>> /\ q[1] = SP
  BY <1>2
<1>5. Tail(q) = <<"/meme/create">>
  <2>1. Tail(q) \in Seq(MessageWords) /\ Len(Tail(q)) = 1 /\ Tail(q)[1] = "/meme/create"
    BY <1>2
  <2> DEFINE u == Tail(q)
             v == <<"/meme/create">>
  <2>2. v \in Seq(MessageWords) /\ Len(v) = 1 /\ v[1] = "/meme/create"
    BY <1>2
  <2>3. u \in Seq(MessageWords) /\ Len(u) = 1 /\ u[1] = "/meme/create"
    BY <2>1
  <2> HIDE DEF u, v
  <2>4. \A i \in 1..Len(u) : u[i] = v[i]
    <3>1. \A i \in 1..1 : i = 1
      OBVIOUS
    <3> QED BY <2>2, <2>3, <3>1
  <2>5. u = v
    BY <2>2, <2>3, <2>4, SeqEqual
  <2> QED BY <2>5, Zenon DEF u, v
<1>6. h \in Seq(MessageWords) /\ Len(h) = 9
      /\ h[1] = SP /\ h[2] = "HTTP/1.1" /\ h[3] = "\r"
  BY HeadersWords
<1> HIDE DEF q, h
<1>7. k \in Seq(MessageWords) /\ k # <<>> /\ Len(k) >= 9
      /\ k[1] = SP /\ k[2] = "HTTP/1.1" /\ k[3] = "\r"
  <2>1. /\ k \in Seq(MessageWords) /\ Len(k) = Len(h) + Len(FormFields)
        /\ \A i \in 1..Len(h) + Len(FormFields) : k[i] = IF i <= Len(h) THEN h[i] ELSE FormFields[i - Len(h)]
    <3>1. h \in Seq(MessageWords) /\ FormFields \in Seq(MessageWords)
      BY <1>1, <1>6
    <3> QED BY <3>1, ConcatProperties, Zenon
  <2> HIDE DEF k
  <2>2. Len(FormFields) \in Nat
    BY <1>1
  <2> DEFINE l == Len(FormFields)
  <2> HIDE DEF l
  <2>3. k \in Seq(MessageWords) /\ Len(k) = 9 + l /\ l \in Nat
        /\ k[1] = h[1] /\ k[2] = h[2] /\ k[3] = h[3]
    BY <1>6, <2>1, <2>2 DEF l
  <2> QED BY <1>6, <2>3
<1>8. ((Post \o q) \o h) \o FormFields = (Post \o q) \o k
  <2>1. Post \o q \in Seq(MessageWords)
    BY <1>3, <1>4, ConcatProperties, Zenon
  <2>2. Regrouped(MessageWords, Post \o q, h, FormFields)
    BY <1>1, <1>6, <2>1, Regroup, Zenon
  <2> QED BY <2>2, Zenon DEF Regrouped
<1>9. PostRest = Tail(k)
  BY Zenon DEF PostRest, h
<1> HIDE DEF k
<1>10. LineOf(MessageWords, Post, q, k)
  BY <1>2, <1>3, <1>4, <1>7, LineOfParts
<1>11. Tail(k) \in Seq(MessageWords) /\ Len(Tail(k)) = Len(k) - 1
       /\ \A i \in 1..Len(k) - 1 : Tail(k)[i] = k[i + 1]
  BY <1>7, FirstAndTail, Zenon
<1>12. PostRest \in Seq(MessageWords) /\ Len(PostRest) >= 8
       /\ PostRest[1] = "HTTP/1.1" /\ PostRest[2] = "\r"
  <2>1. Len(k) \in Nat
    BY <1>7
  <2> QED BY <1>7, <1>9, <1>11, <2>1
<1> QED BY <1>1, <1>5, <1>8, <1>9, <1>10, <1>12, Zenon DEF LineOf

LEMMA DeleteLine ==
  ASSUME NEW i \in Ids
  PROVE  /\ DeleteMessage(i) = (Get \o <<SP>>) \o ((DeleteUri(i) \o <<SP>>) \o Tail(Headers))
         /\ DeleteUri(i) \in Seq(MessageWords) /\ Tail(Headers) \in Seq(MessageWords)
<1> DEFINE q == <<SP, "/meme/delete", "?", "id", "=", IdText[i]>>
           h == Headers
           n == IdText[i]
<1>1. {SP, "GET", "/meme/delete", "?", "id", "="} \subseteq MessageWords /\ n \in MessageWords
  BY DEF MessageWords, Syntax, Numbers
<1>2. Get \in Seq(MessageWords)
  BY <1>1 DEF Get
<1>3. q \in Seq(MessageWords) /\ q # <<>> /\ q[1] = SP
  <2> HIDE DEF n
  <2>1. <<SP, "/meme/delete", "?", "id", "=", n>> \in Seq(MessageWords)
    BY <1>1
  <2>2. <<SP, "/meme/delete", "?", "id", "=", n>>[1] = SP
    OBVIOUS
  <2> QED BY <2>1, <2>2 DEF n
<1>4. Tail(q) = DeleteUri(i) /\ DeleteUri(i) \in Seq(MessageWords)
  <2> DEFINE v == <<"/meme/delete", "?", "id", "=", n>>
             u == Tail(<<SP, "/meme/delete", "?", "id", "=", n>>)
  <2> HIDE DEF n
  <2>1. v \in Seq(MessageWords) /\ Len(v) = 5 /\ v[1] = "/meme/delete" /\ v[2] = "?"
        /\ v[3] = "id" /\ v[4] = "=" /\ v[5] = n
    BY <1>1
  <2>2. u \in Seq(MessageWords) /\ Len(u) = 5 /\ u[1] = "/meme/delete" /\ u[2] = "?"
        /\ u[3] = "id" /\ u[4] = "=" /\ u[5] = n
    BY <1>1
  <2> HIDE DEF u, v
  <2>3. \A j \in 1..Len(u) : u[j] = v[j]
    <3>1. \A j \in 1..5 : j = 1 \/ j = 2 \/ j = 3 \/ j = 4 \/ j = 5
      OBVIOUS
    <3> QED BY <2>1, <2>2, <3>1
  <2>4. u = v
    BY <2>1, <2>2, <2>3, SeqEqual
  <2> QED BY <2>1, <2>4, Zenon DEF u, v, n, DeleteUri
<1>5. h \in Seq(MessageWords) /\ h # <<>> /\ h[1] = SP
  BY HeadersWords
<1>6. DeleteMessage(i) = (Get \o q) \o h
  BY Zenon DEF DeleteMessage
<1>7. Tail(h) = Tail(Headers)
  OBVIOUS
<1> HIDE DEF q, h
<1>8. LineOf(MessageWords, Get, q, h) /\ Tail(h) \in Seq(MessageWords)
  BY <1>1, <1>2, <1>3, <1>5, LineOfParts
<1> QED BY <1>4, <1>6, <1>7, <1>8, Zenon DEF LineOf
-----------------------------------------------------------------------------
\* The inductive invariant.  What is in the form is a form, and an edit holds
\* a meme of the table; what is on its way is what the browser sent, with the
\* form and the table as they are.
FormInv ==
  form # NoForm =>
    form \in FormSet /\ (form.update # <<>> => \E i \in Rows : Edits(form, i))
SentInv ==
  message # <<>> =>
    /\ sent = [message |-> message, form |-> form, table |-> table]
    /\ IF form = NoForm THEN \E i \in Rows : message = DeleteMessage(i)
       ELSE message = FormMessage
FormsInv == TableInv /\ FormInv /\ SentInv

\* What is typed are texts of the form.
LEMMA TypedTexts ==
  /\ \A row \in NewMemes : row.template_id \in ToSet(Templates)
       /\ row.top_text \in Seq(TextWords) /\ row.bottom_text \in Seq(TextWords)
  /\ \A text \in Retyped : text \in Seq(TextWords)
<1>1. Typed \subseteq TextWords
  BY DEF TextWords, MessageWords
<1>2. ASSUME NEW text \in Seq(STRING), ToSet(text) \subseteq Typed PROVE text \in Seq(TextWords)
  <2>1. \A i \in 1..Len(text) : text[i] \in ToSet(text)
    BY DEF ToSet
  <2> HIDE DEF TextWords
  <2>2. \A i \in 1..Len(text) : text[i] \in TextWords
    BY <1>1, <1>2, <2>1
  <2> QED BY <2>2, SeqOver
<1>3. ASSUME NEW row \in NewMemes
      PROVE  row.template_id \in ToSet(Templates)
             /\ row.top_text \in Seq(TextWords) /\ row.bottom_text \in Seq(TextWords)
  <2>1. /\ row.template_id \in ToSet(Templates)
        /\ row.top_text \in Seq(STRING) /\ row.bottom_text \in Seq(STRING)
    BY FormAssumption
  <2>2. ToSet(row.top_text) \subseteq Typed /\ ToSet(row.bottom_text) \subseteq Typed
    BY Zenon DEF Typed
  <2> QED BY <1>2, <2>1, <2>2
<1>4. ASSUME NEW text \in Retyped PROVE text \in Seq(TextWords)
  <2>1. text \in Seq(STRING) /\ ToSet(text) \subseteq Typed
    BY FormAssumption DEF Typed
  <2> QED BY <1>2, <2>1
<1> QED BY <1>3, <1>4

\* What the browser sends are words of a message.
LEMMA MessageType ==
  ASSUME FormsInv, message # <<>>
  PROVE  message \in Seq(MessageWords)
<1>1. CASE form = NoForm
  <2>1. PICK i \in Rows : message = DeleteMessage(i)
    BY <1>1 DEF FormsInv, SentInv
  <2>2. i \in Ids
    BY DEF Rows
  <2>3. DeleteUri(i) \in Seq(MessageWords) /\ Tail(Headers) \in Seq(MessageWords)
        /\ message = (Get \o <<SP>>) \o ((DeleteUri(i) \o <<SP>>) \o Tail(Headers))
    BY <2>1, <2>2, DeleteLine
  <2>4. <<SP>> \in Seq(MessageWords) /\ Get \in Seq(MessageWords)
    BY DEF MessageWords, Syntax, Get
  <2> QED BY <2>3, <2>4, ConcatProperties, Zenon
<1>2. CASE form # NoForm
  <2>1. form \in FormSet /\ message = FormMessage
    BY <1>2 DEF FormsInv, FormInv, SentInv
  <2>2. FormMessage \in Seq(MessageWords)
    BY <2>1, FormMessageIs, HeadWords, ConcatProperties, Zenon
  <2> QED BY <2>1, <2>2
<1> QED BY <1>1, <1>2

\* What arrives is a part of what was sent, in which the last word may have
\* been cut off.
LEMMA ArrivedIs ==
  ASSUME message \in Seq(MessageWords), NEW m \in Arrived
  PROVE  /\ m \in Seq(MessageWords) /\ m # <<>> /\ Len(m) \in 1..Len(message)
         /\ \A i \in 1..Len(m) - 1 : m[i] = message[i]
         /\ m[Len(m)] \in {message[Len(m)], "cut"}
<1>1. "cut" \in MessageWords
  BY DEF MessageWords, Syntax
<1>2. ASSUME NEW n \in 1..Len(message)
      PROVE  LET p == SubSeq(message, 1, n) IN
             p \in Seq(MessageWords) /\ Len(p) = n /\ \A i \in 1..n : p[i] = message[i]
  OBVIOUS
<1>3. PICK n \in 1..Len(message) :
        m = SubSeq(message, 1, n) \/ m = Front(SubSeq(message, 1, n)) \o <<"cut">>
  BY DEF Arrived
<1> DEFINE p == SubSeq(message, 1, n)
<1>4. p \in Seq(MessageWords) /\ Len(p) = n /\ \A i \in 1..n : p[i] = message[i]
  BY <1>2
<1> HIDE DEF p
<1>5. n \in Nat \ {0}
  OBVIOUS
<1>6. CASE m = p
  <2>1. m # <<>> /\ m[n] = message[n]
    BY <1>4, <1>5, <1>6
  <2>2. \A i \in 1..n - 1 : m[i] = message[i]
    BY <1>4, <1>5, <1>6
  <2> QED BY <1>4, <1>6, <2>1, <2>2
<1>7. CASE m = Front(p) \o <<"cut">>
  <2> DEFINE f == Front(p)
             x == <<"cut">>
  <2>1. f \in Seq(MessageWords) /\ Len(f) = n - 1 /\ \A i \in 1..n - 1 : f[i] = p[i]
    <3>1. CASE n = 1
      <4>1. f = <<>>
        <5>1. Len(p) - 1 = 0
          BY <1>4, <3>1
        <5>2. SubSeq(p, 1, 0) = <<>>
          BY <1>4
        <5> QED BY <5>1, <5>2, Zenon DEF Front
      <4> QED BY <3>1, <4>1
    <3>2. CASE n # 1
      <4>1. Len(p) \in Nat \ {0, 1}
        BY <1>4, <1>5, <3>2
      <4> QED BY <1>4, <4>1, FrontProperties
    <3> QED BY <3>1, <3>2
  <2>2. x \in Seq(MessageWords) /\ Len(x) = 1 /\ x[1] = "cut"
    BY <1>1
  <2>3. m = f \o x
    BY <1>7
  <2> HIDE DEF f, x
  <2>4. /\ f \o x \in Seq(MessageWords) /\ Len(f \o x) = Len(f) + Len(x)
        /\ \A i \in 1..Len(f) + Len(x) : (f \o x)[i] = IF i <= Len(f) THEN f[i] ELSE x[i - Len(f)]
    <3>1. f \in Seq(MessageWords) /\ x \in Seq(MessageWords)
      BY <2>1, <2>2
    <3> QED BY <3>1, ConcatProperties, Zenon
  <2>5. /\ m \in Seq(MessageWords) /\ Len(m) = n
        /\ \A i \in 1..n : m[i] = IF i <= n - 1 THEN f[i] ELSE x[i - (n - 1)]
    BY <1>5, <2>1, <2>2, <2>3, <2>4
  <2>6. m # <<>> /\ m[n] = "cut"
    BY <1>5, <2>2, <2>5
  <2>7. \A i \in 1..n - 1 : m[i] = message[i]
    BY <1>4, <1>5, <2>1, <2>5
  <2> QED BY <2>5, <2>6, <2>7
<1> QED BY <1>3, <1>6, <1>7, Zenon DEF p

\* What Create and Delete make of the table.
LEMMA CreateType ==
  ASSUME TableInv, NEW params \in MapsOf(MessageWords), Create(params)
  PROVE  TableInv'
<1> DEFINE row == Row(AtoiTemplate(Param(params, "template_id")),
                      PseudoDecode(Param(params, "top_text")),
                      PseudoDecode(Param(params, "bottom_text")))
           id == Atoi(Param(params, "update"))
<1>1. row \in RowSet
  BY RowType, Zenon
<1>2. \/ table' = [table EXCEPT ![NewRowid] = row]
      \/ table' = [i \in Ids |-> IF i = id /\ i \in Rows THEN row ELSE table[i]]
  BY Zenon DEF Create
<1> HIDE DEF row, id
<1>3. table' \in [Ids -> RowSet \cup {NoRow}]
  <2> DEFINE T == RowSet \cup {NoRow}
  <2>1. row \in T /\ table \in [Ids -> T]
    BY <1>1 DEF TableInv
  <2> HIDE DEF T
  <2> QED BY <1>2, <2>1 DEF T
<1>4. TableInv' <=> table' \in [Ids -> RowSet \cup {NoRow}]
  BY DEF TableInv
<1> QED BY <1>3, <1>4

LEMMA DeleteType ==
  ASSUME TableInv, NEW params, Delete(params)
  PROVE  TableInv'
<1>1. table' \in [Ids -> RowSet \cup {NoRow}]
  BY DEF TableInv, Delete
<1>2. TableInv' <=> table' \in [Ids -> RowSet \cup {NoRow}]
  BY DEF TableInv
<1> QED BY <1>1, <1>2

LEMMA HandleType ==
  ASSUME FormsInv, NEW m \in Arrived, Handle(m)
  PROVE  TableInv'
<1>1. message \in Seq(MessageWords) /\ TableInv
  BY MessageType DEF Handle, FormsInv
<1>2. m \in Seq(MessageWords) /\ m # <<>>
  BY <1>1, ArrivedIs
<1>3. /\ Body(m) \in Seq(MessageWords)
      /\ Contains(Uri(m), "?") => After(Uri(m), "?") \in Seq(MessageWords)
  BY <1>2, MessageParts
<1>4. \/ UNCHANGED table
      \/ Create(Params(Body(m)))
      \/ \E params : Delete(params)
  BY Zenon DEF Handle
<1>5. Params(Body(m)) \in MapsOf(MessageWords)
  BY <1>3, ParamsType
<1>6. CASE UNCHANGED table
  <2>1. TableInv' <=> TableInv
    BY <1>6 DEF TableInv
  <2> QED BY <1>1, <2>1
<1> QED BY <1>1, <1>4, <1>5, <1>6, CreateType, DeleteType
LEMMA FormsInit == Init => FormsInv
<1> SUFFICES ASSUME Init PROVE FormsInv
  OBVIOUS
<1>1. TableInv
  BY DEF Init, TableInv
<1>2. FormInv /\ SentInv
  BY DEF Init, FormInv, SentInv
<1> QED BY <1>1, <1>2 DEF FormsInv

LEMMA FormsStep == FormsInv /\ [Next]_vars => FormsInv'
<1> SUFFICES ASSUME FormsInv, [Next]_vars PROVE FormsInv'
  OBVIOUS
<1>1. TableInv /\ FormInv /\ SentInv
  BY DEF FormsInv
<1> DEFINE Kept == table' = table
<1>2. Kept => TableInv' /\ Rows' = Rows
  BY <1>1 DEF TableInv, Rows
<1>3. ASSUME NEW f, NEW i, Kept PROVE Edits(f, i)' <=> Edits(f, i)
  BY <1>3 DEF Edits
<1>4. form' = form => FormMessage' = FormMessage
  <2> SUFFICES ASSUME form' = form PROVE FormMessage' = FormMessage
    OBVIOUS
  <2> QED BY DEF FormMessage
<1>5. \A i : DeleteMessage(i)' = DeleteMessage(i)
  BY DEF DeleteMessage
<1>6. message' = <<>> => SentInv'
  BY DEF SentInv
<1>7. ASSUME Kept, form' = form PROVE FormInv'
  <2> SUFFICES ASSUME form # NoForm
               PROVE  form \in FormSet /\ (form.update # <<>> => \E i \in Rows' : Edits(form, i)')
    BY <1>7 DEF FormInv
  <2>1. form \in FormSet /\ (form.update # <<>> => \E i \in Rows : Edits(form, i))
    BY <1>1 DEF FormInv
  <2> QED BY <1>2, <1>3, <1>7, <2>1, Zenon
<1>8. CASE OpenNew
  <2>1. Kept /\ message' = <<>>
    BY <1>8 DEF OpenNew, Open
  <2>2. PICK row \in NewMemes :
          form' = [update |-> <<>>, template_id |-> row.template_id,
                   top_text |-> row.top_text, bottom_text |-> row.bottom_text]
    BY <1>8 DEF OpenNew
  <2>3. form' \in FormSet /\ form'.update = <<>>
    <3>1. row.template_id \in ToSet(Templates)
          /\ row.top_text \in Seq(TextWords) /\ row.bottom_text \in Seq(TextWords)
      BY TypedTexts
    <3> QED BY <2>2, <3>1 DEF FormSet
  <2>4. FormInv'
    BY <2>3 DEF FormInv
  <2> QED BY <1>2, <1>6, <2>1, <2>4 DEF FormsInv
<1>9. ASSUME NEW i \in Ids, OpenEdit(i) PROVE FormsInv'
  <2>1. Kept /\ message' = <<>> /\ i \in Rows /\ form' = EditPage(i)
    BY <1>9 DEF OpenEdit, Open
  <2>2. EditPage(i) \in FormSet /\ Edits(EditPage(i), i)
    BY <1>1, <2>1, EditPageIs
  <2>3. FormInv'
    <3>1. form' \in FormSet /\ Edits(form', i)
      BY <2>1, <2>2
    <3>2. \E j \in Rows' : (Edits(form, j))'
      BY <1>2, <2>1, <3>1 DEF Edits
    <3> QED BY <3>1, <3>2 DEF FormInv
  <2> QED BY <1>2, <1>6, <2>1, <2>3 DEF FormsInv
<1>10. ASSUME NEW top \in Retyped, Retype(top) PROVE FormsInv'
  <2>1. /\ Kept /\ message' = <<>> /\ form # NoForm /\ form.update # <<>>
        /\ form' = [form EXCEPT !.top_text = top]
    BY <1>10 DEF Retype
  <2>2. form \in FormSet /\ top \in Seq(TextWords)
    BY <1>1, <2>1, TypedTexts DEF FormInv
  <2>3. form' \in FormSet /\ form'.update = form.update
        /\ form'.bottom_text = form.bottom_text /\ form'.template_id = form.template_id
    <3> DEFINE T == Seq(TextWords)
               U == {<<>>} \cup {<<n>> : n \in Numbers}
    <3>1. FormSet = [update : U, template_id : ToSet(Templates), top_text : T, bottom_text : T]
      BY DEF FormSet
    <3> HIDE DEF T, U
    <3>2. form \in [update : U, template_id : ToSet(Templates), top_text : T, bottom_text : T]
          /\ top \in T
      BY <2>2, <3>1 DEF T
    <3> QED BY <2>1, <3>1, <3>2
  <2>4. PICK i \in Rows : Edits(form, i)
    BY <1>1, <2>1 DEF FormInv
  <2>5. (Edits(form, i))'
    BY <2>1, <2>3, <2>4 DEF Edits
  <2>6. FormInv'
    BY <1>2, <2>1, <2>3, <2>4, <2>5 DEF FormInv
  <2> QED BY <1>2, <1>6, <2>1, <2>6 DEF FormsInv
<1>11. CASE Submit
  <2>1. /\ Kept /\ form' = form /\ form # NoForm /\ message' = FormMessage
        /\ sent' = [message |-> FormMessage, form |-> form, table |-> table]
    BY <1>11, Zenon DEF Submit, Send
  <2>2. SentInv'
    <3>1. sent' = [message |-> message', form |-> form', table |-> table']
      BY <2>1
    <3>2. form' # NoForm /\ message' = FormMessage'
      BY <1>4, <2>1
    <3> QED BY <3>1, <3>2 DEF SentInv
  <2> QED BY <1>2, <1>7, <2>1, <2>2 DEF FormsInv
<1>12. ASSUME NEW i \in Ids, ClickDelete(i) PROVE FormsInv'
  <2>1. /\ Kept /\ form' = form /\ form = NoForm /\ i \in Rows /\ message' = DeleteMessage(i)
        /\ sent' = [message |-> DeleteMessage(i), form |-> form, table |-> table]
    BY <1>12, Zenon DEF ClickDelete, Send, DeleteMessage
  <2>2. SentInv'
    <3>1. sent' = [message |-> message', form |-> form', table |-> table']
      BY <2>1
    <3>2. form' = NoForm /\ \E j \in Rows' : message' = DeleteMessage(j)'
      BY <1>2, <1>5, <2>1
    <3> QED BY <3>1, <3>2 DEF SentInv
  <2> QED BY <1>2, <1>7, <2>1, <2>2 DEF FormsInv
<1>13. ASSUME NEW m \in Arrived, Handle(m) PROVE FormsInv'
  <2>1. TableInv'
    BY <1>13, HandleType
  <2>2. message' = <<>> /\ form' = NoForm
    BY <1>13 DEF Handle
  <2>3. FormInv'
    BY <2>2 DEF FormInv
  <2> QED BY <1>6, <2>1, <2>2, <2>3 DEF FormsInv
<1>14. CASE UNCHANGED vars
  <2>1. Kept /\ form' = form /\ message' = message /\ sent' = sent
    BY <1>14 DEF vars
  <2>2. SentInv'
    <3> SUFFICES ASSUME message # <<>>
                 PROVE  /\ sent = [message |-> message, form |-> form, table |-> table]
                        /\ IF form = NoForm THEN \E i \in Rows : message = DeleteMessage(i)
                           ELSE message = FormMessage
      BY <1>2, <1>4, <1>5, <2>1 DEF SentInv
    <3> QED BY <1>1 DEF SentInv
  <2> QED BY <1>2, <1>7, <2>1, <2>2 DEF FormsInv
<1> QED BY <1>8, <1>9, <1>10, <1>11, <1>12, <1>13, <1>14 DEF Next

\* What the table holds are memes, in texts without a marker of the pages; an
\* edit in the browser holds a meme of the table; what is on its way is what
\* was written from the form (meme_handler.cc 77-92 and 113-130).
THEOREM FormsAreKept == Spec => []FormsInv
<1>1. Init => FormsInv
  BY FormsInit
<1>2. FormsInv /\ [Next]_vars => FormsInv'
  BY FormsStep
<1> QED BY <1>1, <1>2, PTL DEF Spec

-----------------------------------------------------------------------------
\* Every meme is shown in the list, with its own texts and word for word
\* (html_builder.cc 44-58 and 87-104; meme_handler.cc 332-346).
THEOREM ListIsComplete == Spec => []ListShowsMemes
<1>1. FormsInv => ListShowsMemes
  BY ListIsRight DEF FormsInv
<1> QED BY <1>1, FormsAreKept, PTL
-----------------------------------------------------------------------------
\* What stands in front of a message: a method and a URI, without the words
\* that divide them.
Quiet(s) == ~Contains(s, SP) /\ ~Contains(s, "\r") /\ ~Contains(s, "HTTP/1.1")
Begins(m, p, u, b) ==
  /\ p \in Seq(MessageWords) /\ u \in Seq(MessageWords) /\ b \in Seq(MessageWords)
  /\ Quiet(p) /\ Quiet(u)
  /\ m = (p \o <<SP>>) \o ((u \o <<SP>>) \o b)

LEMMA QuietParts ==
  /\ Quiet(Post) /\ Quiet(Get) /\ Quiet(<<"/meme/create">>)
  /\ \A i \in Ids : Quiet(DeleteUri(i))
<1>1. \A i \in Ids : IdText[i] \notin {SP, "\r", "HTTP/1.1"}
  <2>1. \A i \in Ids : IdText[i] \in Numbers
    BY DEF Numbers
  <2>2. {SP, "\r", "HTTP/1.1"} \subseteq Syntax /\ "0" \notin {SP, "\r", "HTTP/1.1"}
    BY SpaceDiffers DEF Syntax
  <2> HIDE DEF Numbers
  <2> QED BY <2>1, <2>2, NumbersAssumption
<1>2. Quiet(Post)
  <2>1. Len(Post) = 2 /\ Post[1] = "POS" /\ Post[2] = "T" /\ \A i \in 1..2 : i = 1 \/ i = 2
    BY DEF Post
  <2>2. \A i \in 1..Len(Post) : Post[i] \in {"POS", "T"}
    BY <2>1
  <2> QED BY <2>2, SpaceDiffers DEF Quiet, Contains
<1>3. Quiet(Get) /\ Quiet(<<"/meme/create">>)
  <2>1. ASSUME NEW w, w \notin {SP, "\r", "HTTP/1.1"} PROVE Quiet(<<w>>)
    BY <2>1, OneWord DEF Quiet
  <2>2. "GET" \notin {SP, "\r", "HTTP/1.1"} /\ "/meme/create" \notin {SP, "\r", "HTTP/1.1"}
    BY SpaceDiffers
  <2> QED BY <2>1, <2>2 DEF Get
<1>4. ASSUME NEW i \in Ids PROVE Quiet(DeleteUri(i))
  <2> DEFINE s == DeleteUri(i)
             n == IdText[i]
  <2>1. /\ Len(s) = 5 /\ s[1] = "/meme/delete" /\ s[2] = "?" /\ s[3] = "id"
        /\ s[4] = "=" /\ s[5] = n
    BY DEF DeleteUri
  <2>2. \A k \in 1..5 : k = 1 \/ k = 2 \/ k = 3 \/ k = 4 \/ k = 5
    OBVIOUS
  <2>3. n \notin {SP, "\r", "HTTP/1.1"}
    BY <1>1
  <2> HIDE DEF s, n
  <2>4. \A k \in 1..Len(s) : s[k] \in {"/meme/delete", "?", "id", "=", n}
    BY <2>1, <2>2
  <2>5. \A w \in {"/meme/delete", "?", "id", "=", n} : w \notin {SP, "\r", "HTTP/1.1"}
    BY <2>3, SpaceDiffers
  <2>6. \A k \in 1..Len(s) : s[k] \notin {SP, "\r", "HTTP/1.1"}
    BY <2>4, <2>5
  <2>7. Quiet(s)
    BY <2>6 DEF Quiet, Contains
  <2> QED BY <2>7 DEF s
<1> QED BY <1>2, <1>3, <1>4

LEMMA MessageBegins ==
  ASSUME FormsInv, message # <<>>
  PROVE  \E p, u, b : Begins(message, p, u, b)
<1>1. Post \in Seq(MessageWords) /\ Get \in Seq(MessageWords) /\ <<"/meme/create">> \in Seq(MessageWords)
  <2>1. {"POS", "T", "GET", "/meme/create"} \subseteq MessageWords
    BY DEF MessageWords, Syntax
  <2> QED BY <2>1 DEF Post, Get
<1>2. CASE form = NoForm
  <2>1. PICK i \in Rows : message = DeleteMessage(i)
    BY <1>2 DEF FormsInv, SentInv
  <2>2. i \in Ids
    BY DEF Rows
  <2>3. Begins(message, Get, DeleteUri(i), Tail(Headers))
    BY <1>1, <2>1, <2>2, DeleteLine, QuietParts, Zenon DEF Begins
  <2> QED BY <2>3, Zenon
<1>3. CASE form # NoForm
  <2>1. form \in FormSet /\ message = FormMessage
    BY <1>3 DEF FormsInv, FormInv, SentInv
  <2>2. Begins(message, Post, <<"/meme/create">>, PostRest)
    BY <1>1, <2>1, PostLine, QuietParts, Zenon DEF Begins
  <2> QED BY <2>2, Zenon
<1> QED BY <1>2, <1>3

LEMMA CutKeepsUri ==
  ASSUME FormsInv, message # <<>>, NEW m \in Arrived, Valid(m)
  PROVE  Method(m) = Method(message) /\ Uri(m) = Uri(message)
<1>1. PICK p, u, b : Begins(message, p, u, b)
  BY MessageBegins
<1>2. /\ p \in Seq(MessageWords) /\ u \in Seq(MessageWords) /\ b \in Seq(MessageWords)
      /\ ~Contains(p, SP) /\ ~Contains(p, "\r") /\ ~Contains(p, "HTTP/1.1")
      /\ ~Contains(u, SP) /\ ~Contains(u, "\r") /\ ~Contains(u, "HTTP/1.1")
      /\ message = (p \o <<SP>>) \o ((u \o <<SP>>) \o b)
  BY <1>1, Zenon DEF Begins, Quiet
<1>3. {SP, "\r", "HTTP/1.1", "cut"} \subseteq MessageWords
  BY DEF MessageWords, Syntax
<1>4. SP \in MessageWords
  BY <1>3
<1>5. message \in Seq(MessageWords)
  BY MessageType
<1>6. /\ m \in Seq(MessageWords) /\ Len(m) \in 1..Len(message)
      /\ \A i \in 1..Len(m) - 1 : m[i] = message[i]
      /\ m[Len(m)] \in {message[Len(m)], "cut"}
  BY <1>5, ArrivedIs
<1>7. Method(m) = p /\ Uri(m) = u
  <2>1. CutIs(MessageWords, p, u, b, message, m)
    BY <1>2, <1>3, <1>6, CutLine, Zenon
  <2> QED BY <2>1, Zenon DEF CutIs
<1>8. IsLine(MessageWords, p, u, b, message)
  BY <1>2, <1>4, LineHolds, Zenon
<1> QED BY <1>7, <1>8, Zenon DEF IsLine

\* A request line that still passes as valid has the method and the URI that
\* were sent, wherever the message was cut off (request.cc 21-66 after
\* session.cc 43-46).
THEOREM CutMessagesKeepTheirUri == Spec => []CutMessageKeepsUri
<1>1. Init => CutMessageKeepsUri
  BY DEF Init, CutMessageKeepsUri
<1>2. FormsInv /\ CutMessageKeepsUri /\ [Next]_vars => CutMessageKeepsUri'
  <2> SUFFICES ASSUME FormsInv, CutMessageKeepsUri, [Next]_vars
               PROVE  CutMessageKeepsUri'
    OBVIOUS
  <2>1. handled' = <<>> => CutMessageKeepsUri'
    BY DEF CutMessageKeepsUri
  <2>2. handled' = handled /\ sent' = sent => CutMessageKeepsUri'
    BY DEF CutMessageKeepsUri
  <2>3. CASE OpenNew \/ Submit \/ \E i \in Ids : OpenEdit(i) \/ ClickDelete(i)
    BY <2>1, <2>3, Zenon DEF OpenNew, OpenEdit, Open, Submit, ClickDelete, Send
  <2>4. CASE (\E top \in Retyped : Retype(top)) \/ UNCHANGED vars
    BY <2>2, <2>4, Zenon DEF Retype, vars
  <2>5. ASSUME NEW m \in Arrived, Handle(m) PROVE CutMessageKeepsUri'
    <3>1. message # <<>> /\ handled' = m /\ sent' = sent
      BY <2>5, Zenon DEF Handle
    <3>2. sent.message = message
      BY <3>1 DEF FormsInv, SentInv
    <3>3. Valid(m) => Method(m) = Method(message) /\ Uri(m) = Uri(message)
      BY <3>1, CutKeepsUri
    <3>4. sent'.message = message
      BY <3>1, <3>2
    <3> QED BY <3>1, <3>3, <3>4, Zenon DEF CutMessageKeepsUri
  <2> QED BY <2>3, <2>4, <2>5, Zenon DEF Next
<1> QED BY <1>1, <1>2, FormsAreKept, PTL DEF Spec
-----------------------------------------------------------------------------
\* The least of a set of numbers is what is below all others.
LEMMA MinIs ==
  ASSUME NEW T, T \subseteq Int, NEW x \in T, \A y \in T : x <= y
  PROVE  Min(T) = x
<1> DEFINE m == Min(T)
<1>1. m \in T /\ \A y \in T : m =< y
  <2>1. \E z \in T : \A y \in T : z =< y
    OBVIOUS
  <2> QED BY <2>1, Zenon DEF Min
<1> HIDE DEF m
<1>2. m = x
  BY <1>1
<1> QED BY <1>2, Zenon DEF m

\* What is before a word is what is before its first place.
LEMMA BeforePlace ==
  ASSUME NEW S, NEW s \in Seq(S), NEW c, NEW n \in 1..Len(s), s[n] = c,
         \A i \in 1..n - 1 : s[i] # c
  PROVE  Before(s, c) = SubSeq(s, 1, n - 1)
<1>1. Places(s, <<c>>) = {i \in 1..Len(s) : s[i] = c}
  <2>1. Places(s, <<c>>) = PlacesOf(s, c)
    BY PlacesOfWord, Zenon
  <2> QED BY <2>1 DEF PlacesOf
<1> DEFINE T == {i \in 1..Len(s) : s[i] = c}
<1>2. T \subseteq Int /\ n \in T
  OBVIOUS
<1>3. \A y \in T : n <= y
  <2> SUFFICES ASSUME NEW y \in 1..Len(s), s[y] = c, y < n PROVE FALSE
    OBVIOUS
  <2>1. y \in 1..n - 1
    OBVIOUS
  <2> QED BY <2>1
<1> HIDE DEF T
<1>4. Min(T) = n
  BY <1>2, <1>3, MinIs
<1>5. Contains(s, c)
  BY DEF Contains
<1>6. Min(Places(s, <<c>>)) = n
  BY <1>1, <1>4, Zenon DEF T
<1> QED BY <1>5, <1>6, Zenon DEF Before

\* The head of a message of a form, in the message.
LEMMA HeadInMessage ==
  ASSUME form \in FormSet
  PROVE  /\ FormMessage \in Seq(MessageWords) /\ FormMessage # <<>>
         /\ Len(FormMessage) = 13 + Len(FormFields) /\ Len(FormFields) \in Nat
         /\ \A i \in 1..13 : FormMessage[i] = FormHead[i]
         /\ \A i \in 1..Len(FormFields) : FormMessage[13 + i] = FormFields[i]
<1> DEFINE h == FormHead
           f == FormFields
           m == FormMessage
<1>1. m = h \o f /\ f \in Seq(MessageWords) /\ h \in Seq(MessageWords) /\ Len(h) = 13
  BY FormMessageIs, HeadWords
<1> HIDE DEF h, f, m
<1>2. /\ h \o f \in Seq(MessageWords) /\ Len(h \o f) = Len(h) + Len(f)
      /\ \A i \in 1..Len(h) + Len(f) : (h \o f)[i] = IF i <= Len(h) THEN h[i] ELSE f[i - Len(h)]
  <2>1. h \in Seq(MessageWords) /\ f \in Seq(MessageWords)
    BY <1>1
  <2> QED BY <2>1, ConcatProperties, Zenon
<1>3. Len(f) \in Nat
  BY <1>1
<1> DEFINE l == Len(f)
<1> HIDE DEF l
<1>4. /\ m \in Seq(MessageWords) /\ Len(m) = 13 + l /\ l \in Nat
      /\ \A i \in 1..13 + l : m[i] = IF i <= 13 THEN h[i] ELSE f[i - 13]
  BY <1>1, <1>2, <1>3 DEF l
<1>5. \A i \in 1..13 : m[i] = h[i]
  BY <1>4
<1>6. ASSUME NEW i \in 1..l PROVE m[13 + i] = f[i]
  <2>1. 13 + i \in 1..13 + l /\ ~ (13 + i <= 13) /\ (13 + i) - 13 = i
    BY <1>4
  <2> QED BY <1>4, <2>1
<1>7. m # <<>>
  BY <1>4
<1> QED BY <1>4, <1>5, <1>6, <1>7, Zenon DEF m, h, f, l

\* The body of such a message are the fields.
LEMMA BodyIsFields ==
  ASSUME form \in FormSet
  PROVE  Body(FormMessage) = FormFields
<1> DEFINE m == FormMessage
           e == HeadersEnd
           f == FormFields
           l == Len(FormFields)
           T == {i \in 1..Len(m) + 1 - Len(e) : \A j \in 1..Len(e) : m[i + j - 1] = e[j]}
<1>1. /\ m \in Seq(MessageWords) /\ Len(m) = 13 + l /\ l \in Nat
      /\ \A i \in 1..13 : m[i] = FormHead[i]
      /\ \A i \in 1..l : m[13 + i] = f[i]
  BY HeadInMessage
<1>2. e \in Seq(MessageWords) /\ Len(e) = 4
      /\ e[1] = "\r" /\ e[2] = "\n" /\ e[3] = "\r" /\ e[4] = "\n"
  <2>1. {"\r", "\n"} \subseteq MessageWords
    BY DEF MessageWords, Syntax
  <2> QED BY <2>1 DEF HeadersEnd
<1>3. f \in Seq(MessageWords)
  BY FormMessageIs, Zenon
<1> HIDE DEF m, e, f, l
<1>4. Places(m, e) = T
  <2>1. Len(e) \in 1..Len(m)
    BY <1>1, <1>2
  <2>2. PlacesAre(MessageWords, m, e)
    <3>1. m \in Seq(MessageWords) /\ e \in Seq(MessageWords)
      BY <1>1, <1>2
    <3> QED BY <2>1, <3>1, PlacesOfPattern, Zenon
  <2> QED BY <2>2, Zenon DEF PlacesAre
<1>5. T = {i \in 1..10 + l : m[i] = "\r" /\ m[i + 1] = "\n" /\ m[i + 2] = "\r" /\ m[i + 3] = "\n"}
  <2>1. Len(m) + 1 - Len(e) = 10 + l
    BY <1>1, <1>2
  <2>2. ASSUME NEW i \in 1..10 + l
        PROVE  (\A j \in 1..Len(e) : m[i + j - 1] = e[j]) <=>
                 m[i] = "\r" /\ m[i + 1] = "\n" /\ m[i + 2] = "\r" /\ m[i + 3] = "\n"
    <3>1. i + 1 - 1 = i /\ i + 2 - 1 = i + 1 /\ i + 3 - 1 = i + 2 /\ i + 4 - 1 = i + 3
      BY <1>1
    <3>2. \A j \in 1..4 : j = 1 \/ j = 2 \/ j = 3 \/ j = 4
      OBVIOUS
    <3>3. (\A j \in 1..4 : m[i + j - 1] = e[j]) <=>
             /\ m[i + 1 - 1] = e[1] /\ m[i + 2 - 1] = e[2]
             /\ m[i + 3 - 1] = e[3] /\ m[i + 4 - 1] = e[4]
      BY <3>2
    <3> QED BY <1>2, <3>1, <3>3
  <2> QED BY <2>1, <2>2
<1> HIDE DEF T
<1>6. /\ m[1] = "POS" /\ m[2] = "T" /\ m[3] = SP /\ m[4] = "/meme/create" /\ m[5] = SP
      /\ m[6] = "HTTP/1.1" /\ m[7] = "\r" /\ m[8] = "\n" /\ m[9] = "Host"
      /\ m[10] = "\r" /\ m[11] = "\n" /\ m[12] = "\r" /\ m[13] = "\n"
  BY <1>1, HeadWords
<1>7. 10 \in T
  <2>1. 10 \in 1..10 + l /\ 10 + 1 = 11 /\ 10 + 2 = 12 /\ 10 + 3 = 13
    BY <1>1
  <2> QED BY <1>5, <1>6, <2>1
<1>8. \A y \in T : 10 <= y
  <2> SUFFICES ASSUME NEW y \in T, y < 10 PROVE FALSE
    BY <1>1, <1>5
  <2>1. /\ m[y] = "\r" /\ m[y + 2] = "\r"
        /\ y = 1 \/ y = 2 \/ y = 3 \/ y = 4 \/ y = 5 \/ y = 6 \/ y = 7 \/ y = 8 \/ y = 9
    BY <1>1, <1>5
  <2>2. m[1] # "\r" /\ m[2] # "\r" /\ m[3] # "\r" /\ m[4] # "\r" /\ m[5] # "\r" /\ m[6] # "\r"
        /\ m[8] # "\r" /\ m[9] # "\r"
    BY <1>6, SpaceDiffers
  <2>3. y = 7
    BY <2>1, <2>2
  <2>4. m[9] = "\r"
    BY <2>1, <2>3
  <2> QED BY <2>2, <2>4
<1>9. Min(T) = 10 /\ T # {}
  <2>1. T \subseteq Int
    BY <1>1, <1>5
  <2> QED BY <1>7, <1>8, <2>1, MinIs
<1>10. Body(m) = SubSeq(m, 14, Len(m))
  <2>1. 10 + 4 = 14
    OBVIOUS
  <2>2. Body(m) = SubSeq(m, 10 + 4, Len(m))
    BY <1>4, <1>9, Zenon DEF Body, e
  <2> QED BY <2>1, <2>2
<1>11. SubSeq(m, 14, Len(m)) = f
  <2> DEFINE t == SubSeq(m, 14, Len(m))
  <2>1. t \in Seq(MessageWords) /\ Len(t) = l /\ \A i \in 1..l : t[i] = m[13 + i]
    BY <1>1
  <2> HIDE DEF t
  <2>2. \A i \in 1..Len(t) : t[i] = f[i]
    BY <1>1, <2>1
  <2>3. Len(f) = l
    BY DEF f, l
  <2>4. t = f
    BY <1>3, <2>1, <2>2, <2>3, SeqEqual
  <2> QED BY <2>4 DEF t
<1> QED BY <1>10, <1>11, Zenon DEF m, f

\* Such a message is a good one, to create a meme.
LEMMA FormMessageIsValid ==
  ASSUME form \in FormSet
  PROVE  Valid(FormMessage) /\ Method(FormMessage) = Post /\ Uri(FormMessage) = <<"/meme/create">>
<1> DEFINE m == FormMessage
           line == RequestLine(m)
           u == <<"/meme/create">>
<1>1. SP \in MessageWords /\ Post \in Seq(MessageWords) /\ u \in Seq(MessageWords)
  <2>1. {SP, "POS", "T", "/meme/create"} \subseteq MessageWords
    BY DEF MessageWords, Syntax
  <2> QED BY <2>1 DEF Post
<1>2. /\ m = (Post \o <<SP>>) \o ((u \o <<SP>>) \o PostRest)
      /\ PostRest \in Seq(MessageWords) /\ Len(PostRest) >= 8
      /\ PostRest[1] = "HTTP/1.1" /\ PostRest[2] = "\r"
  BY PostLine
<1>3. IsLine(MessageWords, Post, u, PostRest, m)
  <2>1. ~Contains(Post, SP) /\ ~Contains(Post, "\r") /\ ~Contains(u, SP) /\ ~Contains(u, "\r")
    BY QuietParts, Zenon DEF Quiet
  <2> HIDE DEF m, u
  <2> QED BY <1>1, <1>2, <2>1, LineHolds, Zenon
<1>4. Method(m) = Post /\ Uri(m) = u /\ Version(m) = Before(Before(PostRest, "\r"), SP)
  BY <1>3, Zenon DEF IsLine
<1>5. Version(m) = <<"HTTP/1.1">>
  <2>1. Before(PostRest, "\r") = SubSeq(PostRest, 1, 1)
    <3>1. Len(PostRest) \in Nat /\ 2 \in 1..Len(PostRest) /\ 2 - 1 = 1
          /\ \A i \in 1..1 : PostRest[i] # "\r"
      BY <1>2
    <3>2. Before(PostRest, "\r") = SubSeq(PostRest, 1, 2 - 1)
      BY <1>2, <3>1, BeforePlace
    <3> QED BY <3>1, <3>2
  <2>2. SubSeq(PostRest, 1, 1) = <<"HTTP/1.1">>
    <3> DEFINE t == SubSeq(PostRest, 1, 1)
               v == <<"HTTP/1.1">>
    <3>1. t \in Seq(MessageWords) /\ Len(t) = 1 /\ t[1] = "HTTP/1.1"
      BY <1>2
    <3>2. v \in Seq(MessageWords) /\ Len(v) = 1 /\ v[1] = "HTTP/1.1"
      <4>1. "HTTP/1.1" \in MessageWords
        BY DEF MessageWords, Syntax
      <4> QED BY <4>1
    <3> HIDE DEF t, v
    <3>3. \A i \in 1..Len(t) : t[i] = v[i]
      <4>1. \A i \in 1..1 : i = 1
        OBVIOUS
      <4> QED BY <3>1, <3>2, <4>1
    <3>4. t = v
      BY <3>1, <3>2, <3>3, SeqEqual
    <3> QED BY <3>4 DEF t, v
  <2>3. Before(<<"HTTP/1.1">>, SP) = <<"HTTP/1.1">>
    BY OneWord, SpaceDiffers DEF Before
  <2> QED BY <1>4, <2>1, <2>2, <2>3
<1>6. /\ m \in Seq(MessageWords) /\ Len(m) \in Nat /\ Len(m) >= 13
      /\ m[1] = "POS" /\ m[2] = "T" /\ m[3] = SP /\ m[4] = "/meme/create" /\ m[5] = SP
      /\ m[6] = "HTTP/1.1" /\ m[7] = "\r"
  BY HeadInMessage, HeadWords
<1> HIDE DEF m
<1>7. line = SubSeq(m, 1, 6)
  <2>1. 7 \in 1..Len(m) /\ 7 - 1 = 6
    BY <1>6
  <2>2. \A i \in 1..7 - 1 : m[i] # "\r"
    <3>1. \A i \in 1..7 - 1 : i = 1 \/ i = 2 \/ i = 3 \/ i = 4 \/ i = 5 \/ i = 6
      OBVIOUS
    <3>2. SP # "\r"
      BY SpaceDiffers
    <3> QED BY <1>6, <3>1, <3>2
  <2>3. Before(m, "\r") = SubSeq(m, 1, 7 - 1)
    BY <1>6, <2>1, <2>2, BeforePlace
  <2> QED BY <2>1, <2>3 DEF RequestLine
<1>8. /\ line \in Seq(MessageWords) /\ Len(line) = 6
      /\ line[1] = "POS" /\ line[2] = "T" /\ line[3] = SP /\ line[4] = "/meme/create"
      /\ line[5] = SP /\ line[6] = "HTTP/1.1"
  BY <1>6, <1>7
<1> HIDE DEF line
<1>9. Places(line, <<SP, SP>>) = {}
  <2> DEFINE e == <<SP, SP>>
             T == {i \in 1..Len(line) + 1 - Len(e) : \A j \in 1..Len(e) : line[i + j - 1] = e[j]}
  <2>1. e \in Seq(MessageWords) /\ Len(e) = 2 /\ e[1] = SP /\ e[2] = SP
    BY <1>1
  <2> HIDE DEF e
  <2>2. Places(line, e) = T
    <3>1. Len(e) \in 1..Len(line)
      BY <1>8, <2>1
    <3>2. PlacesAre(MessageWords, line, e)
      <4>1. line \in Seq(MessageWords) /\ e \in Seq(MessageWords)
        BY <1>8, <2>1
      <4> QED BY <3>1, <4>1, PlacesOfPattern, Zenon
    <3> QED BY <3>2, Zenon DEF PlacesAre
  <2>3. ASSUME NEW i \in T PROVE FALSE
    <3>1. i \in 1..5 /\ line[i + 1 - 1] = SP /\ line[i + 2 - 1] = SP
      BY <1>8, <2>1
    <3>2. i + 1 - 1 = i /\ i + 2 - 1 = i + 1 /\ (i = 1 \/ i = 2 \/ i = 3 \/ i = 4 \/ i = 5)
      BY <3>1
    <3>3. line[i] = SP /\ line[i + 1] = SP
      BY <3>1, <3>2
    <3>4. SP # "POS" /\ SP # "T" /\ SP # "/meme/create" /\ SP # "HTTP/1.1"
      BY SpaceDiffers
    <3> QED BY <1>8, <3>2, <3>3, <3>4
  <2> HIDE DEF T
  <2>4. T = {}
    BY <2>3
  <2> QED BY <2>2, <2>4, Zenon DEF e
<1>10. ~BadSpaces(line)
  BY <1>8, <1>9, SpaceDiffers DEF BadSpaces
<1> QED BY <1>4, <1>5, <1>10, Zenon DEF Valid, line, m, u
-----------------------------------------------------------------------------
\* What a field adds to the parameters of those behind it.
Gives(ps, later, key, value) ==
  /\ DOMAIN ps = DOMAIN later \cup {<<key>>}
  /\ <<key>> \notin DOMAIN later => Param(ps, key) = value
  /\ \A k : k # key => Param(ps, k) = Param(later, k)

LEMMA PutsParam ==
  ASSUME NEW ps, NEW later, NEW key, NEW value, Puts(ps, later, key, value)
  PROVE  Gives(ps, later, key, value)
<1>1. ps = [k \in DOMAIN later \cup {<<key>>} |-> IF k \in DOMAIN later THEN later[k] ELSE value]
  BY Zenon DEF Puts
<1> DEFINE D == DOMAIN later
<1>2. DOMAIN ps = D \cup {<<key>>}
      /\ \A k \in D \cup {<<key>>} : ps[k] = IF k \in D THEN later[k] ELSE value
  <2> HIDE DEF D
  <2>1. ps = [k \in D \cup {<<key>>} |-> IF k \in D THEN later[k] ELSE value]
    BY <1>1, Zenon DEF D
  <2> QED BY <2>1
<1> HIDE DEF D
<1>3. <<key>> \notin D => Param(ps, key) = value
  BY <1>2 DEF Param
<1>4. ASSUME NEW k, k # key PROVE Param(ps, k) = Param(later, k)
  <2>1. <<k>> # <<key>>
    BY <1>4
  <2>2. <<k>> \in DOMAIN ps <=> <<k>> \in D
    BY <1>2, <2>1
  <2>3. <<k>> \in D => ps[<<k>>] = later[<<k>>]
    BY <1>2
  <2> QED BY <2>2, <2>3, Zenon DEF Param, D
<1> QED BY <1>2, <1>3, <1>4, Zenon DEF D, Gives

\* Keys of fields.
LEMMA KeyWords ==
  /\ {"template_id", "top_text", "bottom_text", "update", "=", "&"} \subseteq MessageWords
  /\ \A t \in Numbers \cup ToSet(Templates) : t # "&" /\ t # "=" /\ t \in MessageWords
<1>1. {"template_id", "top_text", "bottom_text", "update", "=", "&"} \subseteq MessageWords
  BY DEF MessageWords, Syntax
<1>2. ASSUME NEW t \in Numbers \cup ToSet(Templates) PROVE t # "&" /\ t # "=" /\ t \in MessageWords
  <2>1. "&" \in Syntax /\ "=" \in Syntax /\ "&" # "0" /\ "=" # "0"
    BY DEF Syntax
  <2>2. t \in MessageWords
    BY DEF MessageWords
  <2> QED BY <2>1, <2>2, NumbersAssumption
<1> QED BY <1>1, <1>2

\* The last fields: the bottom text, and the id of the meme if it is an edit.
LEMMA LastFields ==
  ASSUME form \in FormSet, Plain(form.bottom_text)
  PROVE  LET body == <<"bottom_text">> \o <<"=">> \o (Encode(form.bottom_text) \o Update)
             ps == Params(body)
         IN  /\ body \in Seq(MessageWords)
             /\ DOMAIN ps \subseteq {<<"bottom_text">>, <<"update">>}
             /\ Param(ps, "bottom_text") = Encode(form.bottom_text)
             /\ Param(ps, "update") = form.update
<1> DEFINE e == Encode(form.bottom_text)
           body == <<"bottom_text">> \o <<"=">> \o (e \o Update)
<1>1. e \in Seq(MessageWords) /\ ~Contains(e, "&") /\ ~Contains(e, "=")
  <2>1. form.bottom_text \in Seq(TextWords)
    BY DEF FormSet
  <2> QED BY <2>1, EncodeIsEach, PlainReturns
<1>2. /\ "bottom_text" \in MessageWords /\ "update" \in MessageWords
      /\ "=" \in MessageWords /\ "&" \in MessageWords
      /\ "bottom_text" # "=" /\ "update" # "=" /\ "update" # "bottom_text"
  BY KeyWords
<1> HIDE DEF e
<1>3. DOMAIN <<>> = {} /\ \A k : <<k>> \notin DOMAIN <<>> /\ Param(<<>>, k) = <<>>
  <2>1. DOMAIN <<>> = {}
    OBVIOUS
  <2>2. \A k : <<k>> \notin DOMAIN <<>>
    BY <2>1
  <2> QED BY <2>1, <2>2, Zenon DEF Param
<1>4. CASE form.update = <<>>
  <2>1. e \o Update = e
    BY <1>1, <1>4 DEF Update
  <2> DEFINE b == <<"bottom_text">> \o <<"=">> \o e
  <2>2. Puts(Params(b), <<>>, "bottom_text", e) /\ b \in Seq(MessageWords)
    BY <1>1, <1>2, LastField, Zenon
  <2> HIDE DEF b
  <2>3. /\ DOMAIN Params(b) = {<<"bottom_text">>}
        /\ Param(Params(b), "bottom_text") = e /\ Param(Params(b), "update") = <<>>
    <3>1. /\ DOMAIN Params(b) = DOMAIN <<>> \cup {<<"bottom_text">>}
          /\ <<"bottom_text">> \notin DOMAIN <<>> => Param(Params(b), "bottom_text") = e
          /\ \A k : k # "bottom_text" => Param(Params(b), k) = Param(<<>>, k)
      <4>1. Gives(Params(b), <<>>, "bottom_text", e)
        BY <2>2, PutsParam, Zenon
      <4> QED BY <4>1, Zenon DEF Gives
    <3> QED BY <1>2, <1>3, <3>1
  <2>4. body = b
    BY <2>1, Zenon DEF b
  <2> HIDE DEF body
  <2>5. /\ body \in Seq(MessageWords) /\ DOMAIN Params(body) \subseteq {<<"bottom_text">>, <<"update">>}
        /\ Param(Params(body), "bottom_text") = e /\ Param(Params(body), "update") = form.update
    BY <1>4, <2>2, <2>3, <2>4
  <2> QED BY <2>5, Zenon DEF body, e
<1>5. CASE form.update # <<>>
  <2>1. PICK n \in Numbers : form.update = <<n>>
    BY <1>5 DEF FormSet
  <2> DEFINE z == <<n>>
             w == <<"update">> \o <<"=">> \o z
             b == <<"bottom_text">> \o <<"=">> \o (e \o <<"&">> \o w)
  <2>2. n \in MessageWords /\ n # "&" /\ n # "="
    BY KeyWords
  <2>3. z \in Seq(MessageWords) /\ ~Contains(z, "&") /\ ~Contains(z, "=")
    BY <2>2, OneWord
  <2>4. e \o Update = e \o <<"&">> \o w
    <3>1. Update = <<"&", "update", "=">> \o z
      BY <1>5, <2>1, Zenon DEF Update
    <3> HIDE DEF z
    <3>2. FieldBetween(MessageWords, e, "update", "=", z)
      BY <1>1, <1>2, <2>3, FieldBetweenIs, Zenon
    <3> QED BY <3>1, <3>2, Zenon DEF FieldBetween, w
  <2> HIDE DEF z
  <2>5. Puts(Params(w), <<>>, "update", z) /\ w \in Seq(MessageWords)
    BY <1>2, <2>3, LastField, Zenon
  <2> HIDE DEF w
  <2>6. Puts(Params(b), Params(w), "bottom_text", e) /\ b \in Seq(MessageWords)
    BY <1>1, <1>2, <2>5, FieldBeforeOthers, Zenon
  <2>7. body = b
    BY <2>4, Zenon DEF b
  <2> HIDE DEF b, body
  <2>8. DOMAIN Params(w) = {<<"update">>} /\ Param(Params(w), "update") = z
    <3>1. /\ DOMAIN Params(w) = DOMAIN <<>> \cup {<<"update">>}
          /\ <<"update">> \notin DOMAIN <<>> => Param(Params(w), "update") = z
      <4>1. Gives(Params(w), <<>>, "update", z)
        BY <2>5, PutsParam, Zenon
      <4> QED BY <4>1, Zenon DEF Gives
    <3> QED BY <1>3, <3>1
  <2>9. /\ DOMAIN Params(b) = {<<"update">>, <<"bottom_text">>}
        /\ Param(Params(b), "bottom_text") = e /\ Param(Params(b), "update") = z
    <3>1. /\ DOMAIN Params(b) = DOMAIN Params(w) \cup {<<"bottom_text">>}
          /\ <<"bottom_text">> \notin DOMAIN Params(w) => Param(Params(b), "bottom_text") = e
          /\ \A k : k # "bottom_text" => Param(Params(b), k) = Param(Params(w), k)
      <4>1. Gives(Params(b), Params(w), "bottom_text", e)
        BY <2>6, PutsParam, Zenon
      <4> QED BY <4>1, Zenon DEF Gives
    <3>2. <<"bottom_text">> # <<"update">>
      OBVIOUS
    <3> QED BY <1>2, <2>8, <3>1, <3>2
  <2>10. z = form.update
    BY <2>1, Zenon DEF z
  <2>11. /\ body \in Seq(MessageWords) /\ DOMAIN Params(body) \subseteq {<<"bottom_text">>, <<"update">>}
         /\ Param(Params(body), "bottom_text") = e /\ Param(Params(body), "update") = form.update
    BY <2>6, <2>7, <2>9, <2>10
  <2> QED BY <2>11, Zenon DEF body, e
<1> QED BY <1>4, <1>5

\* The parameters of a form are its fields.
LEMMA FormParams ==
  ASSUME form \in FormSet, Plain(form.top_text), Plain(form.bottom_text)
  PROVE  LET ps == Params(FormFields) IN
         /\ Param(ps, "template_id") = <<form.template_id>>
         /\ Param(ps, "top_text") = Encode(form.top_text)
         /\ Param(ps, "bottom_text") = Encode(form.bottom_text)
         /\ Param(ps, "update") = form.update
<1> DEFINE t == <<form.template_id>>
           e == Encode(form.top_text)
           e2 == Encode(form.bottom_text)
           r3 == e2 \o Update
           w3 == <<"bottom_text">> \o <<"=">> \o r3
           w2 == <<"top_text">> \o <<"=">> \o (e \o <<"&">> \o w3)
           w1 == <<"template_id">> \o <<"=">> \o (t \o <<"&">> \o w2)
           r2 == e \o (<<"&", "bottom_text", "=">> \o r3)
           r1 == t \o (<<"&", "top_text", "=">> \o r2)
<1>1. e \in Seq(MessageWords) /\ ~Contains(e, "&") /\ ~Contains(e, "=")
  <2>1. form.top_text \in Seq(TextWords)
    BY DEF FormSet
  <2> QED BY <2>1, EncodeIsEach, PlainReturns
<1>2. t \in Seq(MessageWords) /\ ~Contains(t, "&") /\ form.template_id \in MessageWords
  <2>1. form.template_id \in MessageWords /\ form.template_id # "&"
    BY KeyWords DEF FormSet
  <2> QED BY <2>1, OneWord
<1>3. /\ w3 \in Seq(MessageWords) /\ DOMAIN Params(w3) \subseteq {<<"bottom_text">>, <<"update">>}
      /\ Param(Params(w3), "bottom_text") = e2 /\ Param(Params(w3), "update") = form.update
  BY LastFields, Zenon
<1>4. r3 \in Seq(MessageWords)
  BY FieldWords, ConcatProperties, Zenon
<1>5. /\ "template_id" \in MessageWords /\ "top_text" \in MessageWords /\ "bottom_text" \in MessageWords
      /\ "=" \in MessageWords /\ "&" \in MessageWords
      /\ "template_id" # "=" /\ "top_text" # "="
  BY KeyWords
<1>6. FormFields = <<"template_id", "=", form.template_id>> \o (<<"&", "top_text", "=">> \o r2)
  BY Zenon DEF FormFields
<1> HIDE DEF t, e, e2, r3
<1>7. r2 = e \o <<"&">> \o w3 /\ r2 \in Seq(MessageWords)
  <2>1. FieldBetween(MessageWords, e, "bottom_text", "=", r3)
    BY <1>1, <1>4, <1>5, FieldBetweenIs, Zenon
  <2>2. r2 = e \o <<"&">> \o w3
    BY <2>1, Zenon DEF FieldBetween
  <2>3. <<"&">> \in Seq(MessageWords)
    BY <1>5
  <2> HIDE DEF w3, r2
  <2>4. e \o <<"&">> \o w3 \in Seq(MessageWords)
    BY <1>1, <1>3, <2>3, ConcatProperties, Zenon
  <2> QED BY <2>2, <2>4
<1> HIDE DEF w3
<1>8. Puts(Params(w2), Params(w3), "top_text", e) /\ w2 \in Seq(MessageWords)
  BY <1>1, <1>3, <1>5, FieldBeforeOthers, Zenon
<1> HIDE DEF r2
<1>9. w2 = <<"top_text">> \o <<"=">> \o r2
  BY <1>7, Zenon
<1>10. r1 = t \o <<"&">> \o w2
  <2>1. FieldBetween(MessageWords, t, "top_text", "=", r2)
    BY <1>2, <1>5, <1>7, FieldBetweenIs, Zenon
  <2> QED BY <1>9, <2>1, Zenon DEF FieldBetween
<1> HIDE DEF w2
<1>11. FormFields = w1
  <2> DEFINE z == <<"&", "top_text", "=">> \o r2
  <2>1. z \in Seq(MessageWords)
    <3>1. <<"&", "top_text", "=">> \in Seq(MessageWords)
      BY <1>5
    <3> QED BY <1>7, <3>1, ConcatProperties, Zenon
  <2>2. r1 = t \o z
    BY Zenon
  <2> HIDE DEF z
  <2>3. Three(MessageWords, "template_id", "=", form.template_id, z)
    BY <1>2, <1>5, <2>1, ThreeWords, Zenon
  <2>4. FormFields = <<"template_id">> \o <<"=">> \o (t \o z)
    BY <1>6, <2>3, Zenon DEF Three, z, t
  <2> QED BY <1>10, <2>2, <2>4, Zenon
<1>12. Puts(Params(w1), Params(w2), "template_id", t)
  BY <1>2, <1>5, <1>8, FieldBeforeOthers, Zenon
<1> HIDE DEF w1
<1>13. /\ DOMAIN Params(w2) = DOMAIN Params(w3) \cup {<<"top_text">>}
       /\ <<"top_text">> \notin DOMAIN Params(w3) => Param(Params(w2), "top_text") = e
       /\ \A k : k # "top_text" => Param(Params(w2), k) = Param(Params(w3), k)
  <2>1. Gives(Params(w2), Params(w3), "top_text", e)
    BY <1>8, PutsParam, Zenon
  <2> QED BY <2>1, Zenon DEF Gives
<1>14. /\ <<"template_id">> \notin DOMAIN Params(w2) => Param(Params(w1), "template_id") = t
       /\ \A k : k # "template_id" => Param(Params(w1), k) = Param(Params(w2), k)
  <2>1. Gives(Params(w1), Params(w2), "template_id", t)
    BY <1>12, PutsParam, Zenon
  <2> QED BY <2>1, Zenon DEF Gives
<1>15. /\ <<"top_text">> # <<"bottom_text">> /\ <<"top_text">> # <<"update">>
       /\ <<"template_id">> # <<"bottom_text">> /\ <<"template_id">> # <<"update">>
       /\ <<"template_id">> # <<"top_text">>
  OBVIOUS
<1>16. <<"top_text">> \notin DOMAIN Params(w3)
  BY <1>3, <1>15
<1>17. <<"template_id">> \notin DOMAIN Params(w2)
  BY <1>3, <1>13, <1>15
<1>18. /\ Param(Params(w1), "template_id") = t /\ Param(Params(w1), "top_text") = e
       /\ Param(Params(w1), "bottom_text") = e2 /\ Param(Params(w1), "update") = form.update
  BY <1>3, <1>13, <1>14, <1>16, <1>17
<1> QED BY <1>11, <1>18, Zenon DEF t, e, e2
-----------------------------------------------------------------------------
\* A number is read as what it was written from.
LEMMA NumberReturns ==
  /\ \A i \in Ids : Atoi(<<IdText[i]>>) = i
  /\ \A t \in ToSet(Templates) : AtoiTemplate(<<t>>) = t
<1>1. ASSUME NEW i \in Ids PROVE Atoi(<<IdText[i]>>) = i
  <2> DEFINE P(n) == n \in Ids /\ <<IdText[i]>> = <<IdText[n]>>
  <2>1. P(i)
    OBVIOUS
  <2>2. \A n : P(n) => n = i
    <3>1. \A n : <<IdText[i]>> = <<IdText[n]>> => IdText[i] = IdText[n]
      OBVIOUS
    <3> QED BY <3>1, NumbersAssumption
  <2> DEFINE c == CHOOSE n \in Ids : <<IdText[i]>> = <<IdText[n]>>
  <2>3. P(c)
    BY <2>1
  <2>4. c = i
    <3> HIDE DEF c, P
    <3> QED BY <2>2, <2>3
  <2>5. Atoi(<<IdText[i]>>) = c
    BY <2>1, Zenon DEF Atoi
  <2> QED BY <2>4, <2>5
<1>2. ASSUME NEW t \in ToSet(Templates) PROVE AtoiTemplate(<<t>>) = t
  <2>1. <<t>> \in {<<n>> : n \in ToSet(Templates)} /\ <<t>>[1] = t
    OBVIOUS
  <2> QED BY <2>1 DEF AtoiTemplate
<1> QED BY <1>1, <1>2

\* A new row is put where there was none.
LEMMA NewRowIsFree ==
  ASSUME NewRowid \in Ids
  PROVE  NewRowid \notin Rows
<1>1. MaxId \in Nat /\ Rows \subseteq 0..MaxId
  BY FormAssumption DEF Rows, Ids
<1>2. CASE Rows = {}
  BY <1>2
<1>3. CASE Rows # {}
  <2> DEFINE m == Max(Rows)
             R == Rows
  <2>1. m \in R /\ \A y \in R : m >= y
    BY <1>1, <1>3, MaxProperty
  <2>2. NewRowid = m + 1
    BY <1>3, Zenon DEF NewRowid
  <2>3. R \subseteq 0..MaxId
    BY <1>1
  <2> HIDE DEF m, R
  <2>4. m + 1 \notin R
    BY <1>1, <2>1, <2>3
  <2> QED BY <2>2, <2>4, Zenon DEF R
<1> QED BY <1>2, <1>3

\* What a form that arrives whole makes of the table.
FormRow == Row(form.template_id, form.top_text, form.bottom_text)

LEMMA FormIsWritten ==
  ASSUME FormsInv, message # <<>>, form # NoForm, Handle(message),
         Plain(form.top_text), Plain(form.bottom_text)
  PROVE  IF form.update = <<>>
         THEN NewRowid \in Ids /\ table' = [table EXCEPT ![NewRowid] = FormRow]
         ELSE table' = [i \in Ids |-> IF i = Atoi(form.update) /\ i \in Rows THEN FormRow ELSE table[i]]
<1> DEFINE ps == Params(Body(message))
<1>1. form \in FormSet /\ message = FormMessage
  BY DEF FormsInv, FormInv, SentInv
<1>2. /\ Valid(message) /\ Method(message) = Post /\ Uri(message) = <<"/meme/create">>
      /\ Body(message) = FormFields
  BY <1>1, FormMessageIsValid, BodyIsFields
<1>3. Create(ps)
  BY <1>2, Zenon DEF Handle
<1>4. /\ Param(ps, "template_id") = <<form.template_id>>
      /\ Param(ps, "top_text") = Encode(form.top_text)
      /\ Param(ps, "bottom_text") = Encode(form.bottom_text)
      /\ Param(ps, "update") = form.update
  <2>1. ps = Params(FormFields)
    BY <1>2
  <2> QED BY <1>1, <2>1, FormParams
<1> HIDE DEF ps
<1>5. /\ AtoiTemplate(<<form.template_id>>) = form.template_id
      /\ PseudoDecode(Encode(form.top_text)) = form.top_text
      /\ PseudoDecode(Encode(form.bottom_text)) = form.bottom_text
  <2>1. /\ form.template_id \in ToSet(Templates)
        /\ form.top_text \in Seq(TextWords) /\ form.bottom_text \in Seq(TextWords)
    BY <1>1 DEF FormSet
  <2> QED BY <2>1, NumberReturns, PlainReturns
<1>6. Row(AtoiTemplate(Param(ps, "template_id")), PseudoDecode(Param(ps, "top_text")),
          PseudoDecode(Param(ps, "bottom_text"))) = FormRow
  BY <1>4, <1>5, Zenon DEF FormRow
<1> QED BY <1>3, <1>4, <1>6, Zenon DEF Create

\* The two properties, of a form, the table before it and the one after it.
RoundTrip(f, before, after) ==
  LET row == Row(f.template_id, f.top_text, f.bottom_text)
      full == MaxId \in {i \in Ids : before[i] # NoRow}
      changed == {i \in Ids : after[i] # before[i]}
  IN  Plain(f.top_text) /\ Plain(f.bottom_text) =>
        IF f.update = <<>>
        THEN full \/ \E i \in Ids : changed = {i} /\ before[i] = NoRow /\ after[i] = row
        ELSE LET i == Atoi(f.update) IN after[i] = row /\ changed \subseteq {i}
Unedited(f, before) ==
  LET row == before[Atoi(f.update)] IN
  /\ f.top_text = row.top_text
  /\ Plain(row.top_text) /\ Plain(row.bottom_text)
  /\ row.template_id \in ToSet(Templates)

LEMMA HandleRoundTrip ==
  ASSUME FormsInv, message # <<>>, form # NoForm, Handle(message)
  PROVE  RoundTrip(form, table, table')
<1> SUFFICES ASSUME Plain(form.top_text), Plain(form.bottom_text)
             PROVE  LET changed == {i \in Ids : table'[i] # table[i]} IN
                    IF form.update = <<>>
                    THEN \E i \in Ids : changed = {i} /\ table[i] = NoRow /\ table'[i] = FormRow
                    ELSE LET i == Atoi(form.update) IN table'[i] = FormRow /\ changed \subseteq {i}
  BY Zenon DEF RoundTrip, FormRow
<1>1. IF form.update = <<>>
      THEN NewRowid \in Ids /\ table' = [table EXCEPT ![NewRowid] = FormRow]
      ELSE table' = [i \in Ids |-> IF i = Atoi(form.update) /\ i \in Rows THEN FormRow ELSE table[i]]
  BY FormIsWritten
<1>2. table \in [Ids -> RowSet \cup {NoRow}]
  BY DEF FormsInv, TableInv
<1>3. FormRow # NoRow
  <2>1. DOMAIN FormRow = {"template_id", "top_text", "bottom_text"} /\ DOMAIN <<>> = {}
    BY DEF FormRow, Row
  <2> QED BY <2>1 DEF NoRow
<1>4. CASE form.update = <<>>
  <2> DEFINE n == NewRowid
  <2>1. n \in Ids /\ table' = [table EXCEPT ![n] = FormRow]
    BY <1>1, <1>4
  <2>2. table[n] = NoRow
    BY <2>1, NewRowIsFree DEF Rows
  <2> DEFINE changed == {i \in Ids : table'[i] # table[i]}
  <2> HIDE DEF n
  <2>3. changed = {n} /\ table'[n] = FormRow
    BY <1>2, <1>3, <2>1, <2>2
  <2> QED BY <1>4, <2>1, <2>2, <2>3, Zenon
<1>5. CASE form.update # <<>>
  <2> DEFINE n == Atoi(form.update)
  <2>1. PICK j \in Rows : Edits(form, j)
    BY <1>5 DEF FormsInv, FormInv
  <2>2. j \in Ids /\ n = j
    BY <2>1, NumberReturns DEF Edits, Rows
  <2>3. table' = [i \in Ids |-> IF i = n /\ i \in Rows THEN FormRow ELSE table[i]]
    BY <1>1, <1>5
  <2> DEFINE changed == {i \in Ids : table'[i] # table[i]}
  <2> HIDE DEF n
  <2>4. table'[n] = FormRow /\ changed \subseteq {n}
    BY <2>1, <2>2, <2>3
  <2> QED BY <1>5, <2>4, Zenon DEF n
<1> QED BY <1>4, <1>5

LEMMA HandleUnedited ==
  ASSUME FormsInv, message # <<>>, form # NoForm, form.update # <<>>, Handle(message),
         Unedited(form, table)
  PROVE  table' = table
<1>1. PICK j \in Rows : Edits(form, j)
  BY DEF FormsInv, FormInv
<1> DEFINE n == Atoi(form.update)
<1>2. j \in Ids /\ n = j
  BY <1>1, NumberReturns DEF Edits, Rows
<1>3. /\ form.bottom_text = table[j].bottom_text
      /\ table[j].template_id \in ToSet(Templates) => form.template_id = table[j].template_id
  BY <1>1 DEF Edits
<1>4. /\ form.top_text = table[j].top_text
      /\ Plain(table[j].top_text) /\ Plain(table[j].bottom_text)
      /\ table[j].template_id \in ToSet(Templates)
  BY <1>2, Zenon DEF Unedited
<1>5. table' = [i \in Ids |-> IF i = n /\ i \in Rows THEN FormRow ELSE table[i]]
  BY <1>3, <1>4, FormIsWritten
<1>6. TableInv
  BY DEF FormsInv
<1>7. table[j] \in RowSet /\ table \in [Ids -> RowSet \cup {NoRow}]
  BY <1>6, RowsOfTable DEF TableInv
<1>8. FormRow = table[j]
  BY <1>3, <1>4, <1>7 DEF FormRow, Row, RowSet
<1> HIDE DEF n
<1>9. \A i \in Ids : table'[i] = table[i]
  BY <1>2, <1>5, <1>8
<1>10. table' = [i \in Ids |-> table'[i]] /\ table = [i \in Ids |-> table[i]]
  BY <1>5, <1>7
<1> QED BY <1>9, <1>10

\* The texts, the template and the id of a form that arrives whole get through
\* the encoding, the parsers and the table; an edit that changes nothing
\* leaves the table as it is.
LEMMA TripStep ==
  FormsInv /\ (FormRoundTrip /\ EditKeepsMeme) /\ [Next]_vars => (FormRoundTrip /\ EditKeepsMeme)'
<1> SUFFICES ASSUME FormsInv, FormRoundTrip, EditKeepsMeme, [Next]_vars
             PROVE  FormRoundTrip' /\ EditKeepsMeme'
  BY Zenon
<1>1. handled' = <<>> => FormRoundTrip' /\ EditKeepsMeme'
  BY DEF FormRoundTrip, EditKeepsMeme, Whole
<1>2. handled' = handled /\ sent' = sent /\ table' = table => FormRoundTrip' /\ EditKeepsMeme'
  <2> SUFFICES ASSUME handled' = handled, sent' = sent, table' = table
               PROVE  FormRoundTrip' /\ EditKeepsMeme'
    OBVIOUS
  <2>1. FormRoundTrip'
    BY DEF FormRoundTrip, Whole
  <2>2. EditKeepsMeme'
    BY DEF EditKeepsMeme, Whole
  <2> QED BY <2>1, <2>2
<1>3. CASE OpenNew \/ Submit \/ \E i \in Ids : OpenEdit(i) \/ ClickDelete(i)
  BY <1>1, <1>3, Zenon DEF OpenNew, OpenEdit, Open, Submit, ClickDelete, Send
<1>4. CASE (\E top \in Retyped : Retype(top)) \/ UNCHANGED vars
  BY <1>2, <1>4, Zenon DEF Retype, vars
<1>5. ASSUME NEW m \in Arrived, Handle(m) PROVE FormRoundTrip' /\ EditKeepsMeme'
  <2>1. message # <<>> /\ handled' = m /\ sent' = sent
    BY <1>5, Zenon DEF Handle
  <2>2. sent = [message |-> message, form |-> form, table |-> table]
    BY <2>1 DEF FormsInv, SentInv
  <2>3. sent'.message = message /\ sent'.form = form /\ sent'.table = table
    BY <2>1, <2>2
  <2>4. FormRoundTrip' <=>
          (Whole' /\ sent'.form # NoForm => RoundTrip(sent'.form, sent'.table, table'))
    BY Zenon DEF FormRoundTrip, RoundTrip
  <2>5. EditKeepsMeme' <=>
          (/\ Whole' /\ sent'.form # NoForm /\ sent'.form.update # <<>>
           /\ Unedited(sent'.form, sent'.table)
           => table' = sent'.table)
    BY Zenon DEF EditKeepsMeme, Unedited
  <2>6. Whole' => m = message
    BY <2>1, <2>3 DEF Whole
  <2>7. Whole' /\ form # NoForm => RoundTrip(form, table, table')
    <3> SUFFICES ASSUME Whole', form # NoForm PROVE RoundTrip(form, table, table')
      OBVIOUS
    <3>1. Handle(message)
      BY <1>5, <2>6
    <3> QED BY <2>1, <3>1, HandleRoundTrip
  <2>8. Whole' /\ form # NoForm /\ form.update # <<>> /\ Unedited(form, table) => table' = table
    <3> SUFFICES ASSUME Whole', form # NoForm, form.update # <<>>, Unedited(form, table)
                 PROVE  table' = table
      OBVIOUS
    <3>1. Handle(message)
      BY <1>5, <2>6
    <3> QED BY <2>1, <3>1, HandleUnedited
  <2>9. FormRoundTrip'
    BY <2>3, <2>4, <2>7, Zenon
  <2>10. EditKeepsMeme'
    BY <2>3, <2>5, <2>8, Zenon
  <2> QED BY <2>9, <2>10
<1> QED BY <1>3, <1>4, <1>5, Zenon DEF Next

LEMMA TripInit == Init => FormRoundTrip /\ EditKeepsMeme
BY DEF Init, FormRoundTrip, EditKeepsMeme, Whole

\* A form that arrives whole is the row it becomes: the texts, the template
\* and the hidden id each get through the encoding, the message, the two
\* parsers and the table (meme_handler.cc 113-130 and 526-535;
\* request.cc 71-111).
THEOREM TextsGetThrough == Spec => []FormRoundTrip
<1>1. Spec => [](FormRoundTrip /\ EditKeepsMeme)
  BY TripInit, TripStep, FormsAreKept, PTL DEF Spec
<1>2. FormRoundTrip /\ EditKeepsMeme => FormRoundTrip
  BY Zenon
<1> QED BY <1>1, <1>2, PTL

\* The form of an edit that is sent as it came changes nothing, whatever the
\* other rows are (html_builder.cc 17-42 and 77-85; meme_handler.cc 77-92).
THEOREM EditsKeepTheMeme == Spec => []EditKeepsMeme
<1>1. Spec => [](FormRoundTrip /\ EditKeepsMeme)
  BY TripInit, TripStep, FormsAreKept, PTL DEF Spec
<1>2. FormRoundTrip /\ EditKeepsMeme => EditKeepsMeme
  BY Zenon
<1> QED BY <1>1, <1>2, PTL
=============================================================================
