------------------------------ MODULE DataLemmas ----------------------------
(***************************************************************************)
(* Lemmas about numbers, sequences and loops that the proofs of several    *)
(* modules use.  The provers cannot use a rule of induction that takes a   *)
(* predicate: here the induction is over a set.                            *)
(***************************************************************************)
EXTENDS Integers, Sequences, SequencesExt, FiniteSetsExt, SequenceTheorems,
        WellFoundedInduction, TLAPS

\* A set of natural numbers has a least element.
LEMMA Least ==
  ASSUME NEW T, T \subseteq Nat, T # {}
  PROVE  \E n \in T : \A m \in T : n <= m
<1>1. PICK n \in T : \A m \in T : ~ (<<m, n>> \in OpToRel(<, Nat))
  BY WFMin, NatLessThanWellFounded, Zenon
<1>2. \A m \in T : ~ (m < n)
  BY <1>1, Zenon DEF OpToRel
<1> QED BY <1>2

\* The largest of a set of natural numbers that has a bound.
LEMMA MaxProperty ==
  ASSUME NEW S, S # {}, NEW n \in Nat, S \subseteq 0..n
  PROVE  Max(S) \in S /\ \A y \in S : Max(S) >= y
<1> DEFINE bounds == {m \in Nat : \A y \in S : m >= y}
<1>1. n \in bounds
  OBVIOUS
<1>2. PICK m \in bounds : \A k \in bounds : m <= k
  <2> HIDE DEF bounds
  <2>1. bounds \subseteq Nat
    BY DEF bounds
  <2> QED BY <1>1, <2>1, Least
<1>3. m \in S
  <2> SUFFICES ASSUME m \notin S PROVE FALSE
    OBVIOUS
  <2>1. PICK y \in S : TRUE
    OBVIOUS
  <2>2. \A x \in S : x \in Nat /\ m >= x /\ x # m
    BY <1>2
  <2>3. m - 1 \in Nat /\ \A x \in S : m - 1 >= x
    BY <1>2, <2>1, <2>2
  <2> QED BY <1>2, <2>3
<1>4. \E x \in S : \A y \in S : x >= y
  BY <1>2, <1>3
<1> QED BY <1>4 DEF Max

\* The largest is what is above all others.
LEMMA MaxIs ==
  ASSUME NEW S, NEW n \in Nat, S \subseteq 0..n, NEW x \in S, \A y \in S : x >= y
  PROVE  Max(S) = x
<1>1. S # {}
  OBVIOUS
<1>2. Max(S) \in S /\ \A y \in S : Max(S) >= y
  BY <1>1, MaxProperty, Zenon
<1> DEFINE m == Max(S)
<1>3. m \in S /\ m >= x
  BY <1>2
<1> HIDE DEF m
<1>4. m = x
  BY <1>3
<1> QED BY <1>4 DEF m

\* Induction over the numbers up to n, on the set of those that are as they
\* should be: with what is known of all smaller ones,
LEMMA FromBelow ==
  ASSUME NEW n \in Nat, NEW S,
         \A k \in 0..n : (\A j \in 0..n : j < k => j \in S) => k \in S
  PROVE  \A k \in 0..n : k \in S
<1> DEFINE bad == {k \in 0..n : k \notin S}
<1>1. SUFFICES ASSUME bad # {} PROVE FALSE
  OBVIOUS
<1>2. PICK k \in bad : \A j \in bad : k <= j
  <2>1. bad \subseteq Nat
    OBVIOUS
  <2> HIDE DEF bad
  <2> QED BY <1>1, <2>1, Least
<1>3. k \in 0..n /\ \A j \in 0..n : j < k => j \in S
  BY <1>2
<1> QED BY <1>2, <1>3

\* and with what is known of all larger ones.
LEMMA FromAbove ==
  ASSUME NEW n \in Nat, NEW S,
         \A k \in 0..n : (\A j \in 0..n : j > k => j \in S) => k \in S
  PROVE  \A k \in 0..n : k \in S
<1> DEFINE T == {k \in 0..n : n - k \in S}
<1>1. \A k \in 0..n : (\A j \in 0..n : j < k => j \in T) => k \in T
  <2> SUFFICES ASSUME NEW k \in 0..n, \A j \in 0..n : j < k => j \in T PROVE k \in T
    OBVIOUS
  <2>1. \A j \in 0..n : j > n - k => j \in S
    <3> SUFFICES ASSUME NEW j \in 0..n, j > n - k PROVE j \in S
      OBVIOUS
    <3>1. n - j \in 0..n /\ n - j < k /\ n - (n - j) = j
      OBVIOUS
    <3>2. n - j \in T
      <4> HIDE DEF T
      <4> QED BY <3>1
    <3> QED BY <3>1, <3>2
  <2> QED BY <2>1
<1>2. \A k \in 0..n : k \in T
  <2> HIDE DEF T
  <2> QED BY <1>1, FromBelow
<1> SUFFICES ASSUME NEW k \in 0..n PROVE k \in S
  OBVIOUS
<1>3. n - k \in 0..n /\ n - (n - k) = k
  OBVIOUS
<1> QED BY <1>2, <1>3

\* The last index of a sequence is one of its indices.
LEMMA LastIndex ==
  ASSUME NEW m \in Nat
  PROVE  /\ m # 0 => m \in 1..m /\ m \in 0..m
         /\ m \in 1..m => m \in Nat \ {0}
         /\ m \in Nat \ {0, 1} => m \in 2..m
OBVIOUS
-----------------------------------------------------------------------------
\* A sequence over a set is one over a larger set.
LEMMA SeqLarger ==
  ASSUME NEW S, NEW T, S \subseteq T, NEW s \in Seq(S)
  PROVE  s \in Seq(T)
OBVIOUS

\* What is left of a sequence of two or more without its last element.
LEMMA FrontProperties ==
  ASSUME NEW S, NEW s \in Seq(S), Len(s) \in Nat \ {0, 1}
  PROVE  Front(s) \in Seq(S) /\ Front(s) # <<>> /\ Len(Front(s)) = Len(s) - 1
         /\ \A i \in 1..Len(s) - 1 : Front(s)[i] = s[i]
<1> DEFINE n == Len(s) - 1
           front == SubSeq(s, 1, n)
<1>1. n \in Nat \ {0} /\ \A i \in 1..n : s[i] \in S
  OBVIOUS
<1> HIDE DEF n
<1>2. /\ front \in Seq(S) /\ Len(front) = IF 1 <= n THEN n - 1 + 1 ELSE 0
      /\ \A i \in 1..n - 1 + 1 : front[i] = s[1 + i - 1]
  BY <1>1, SubSeqProperties
<1> HIDE DEF front
<1>3. Len(front) = n /\ front # <<>>
  BY <1>1, <1>2
<1>4. \A i \in 1..n : front[i] = s[i]
  <2>1. \A i \in 1..n : i \in 1..n - 1 + 1 /\ 1 + i - 1 = i
    BY <1>1
  <2> QED BY <1>2, <2>1
<1>5. Front(s) = front
  BY Zenon DEF Front, front, n
<1> QED BY <1>2, <1>3, <1>4, <1>5, Zenon DEF n
-----------------------------------------------------------------------------
\* The results of a loop: base, and then what each step makes of the one before.
HasResults(S, n, base, step) ==
  \E h \in [0..n -> S] : h[0] = base /\ \A i \in 1..n : h[i] = step[i][h[i - 1]]

\* A loop that puts one thing after another into a variable has a result in
\* each round.
LEMMA LoopHasResults ==
  ASSUME NEW S, NEW n \in Nat, NEW base \in S, NEW step \in [1..n -> [S -> S]]
  PROVE  HasResults(S, n, base, step)
<1> DEFINE Loop(m, h) == h[0] = base /\ \A i \in 1..m : h[i] = step[i][h[i - 1]]
           bad == {m \in 0..n : ~ \E h \in [0..m -> S] : Loop(m, h)}
<1>a. n \in bad \/ \E h \in [0..n -> S] : Loop(n, h)
  OBVIOUS
<1> USE DEF HasResults
<1> SUFFICES ASSUME bad # {} PROVE FALSE
  BY <1>a
<1>1. PICK m \in bad : \A k \in bad : m <= k
  <2>1. bad \subseteq Nat
    OBVIOUS
  <2> HIDE DEF bad
  <2> QED BY <2>1, Least
<1>2. m \in 0..n /\ ~ \E h \in [0..m -> S] : Loop(m, h)
  BY <1>1
<1>3. m # 0
  <2> SUFFICES ASSUME m = 0 PROVE FALSE
    OBVIOUS
  <2> DEFINE h == [i \in 0..0 |-> base]
  <2>1. h \in [0..m -> S] /\ Loop(m, h)
    OBVIOUS
  <2> QED BY <1>2, <2>1
<1>4. PICK g \in [0..m - 1 -> S] : Loop(m - 1, g)
  <2>1. m - 1 \in 0..n /\ m - 1 < m
    BY <1>2, <1>3
  <2>2. m - 1 \notin bad
    <3>1. bad \subseteq Nat /\ ~(m <= m - 1)
      BY <1>2
    <3> HIDE DEF bad
    <3> QED BY <1>1, <3>1
  <2> QED BY <2>1, <2>2
<1> DEFINE h == [i \in 0..m |-> IF i = m THEN step[m][g[m - 1]] ELSE g[i]]
<1>5. h \in [0..m -> S]
  <2>1. m - 1 \in 0..m - 1 /\ m \in 1..n
    BY <1>2, <1>3
  <2>2. step[m][g[m - 1]] \in S
    BY <2>1
  <2>3. \A i \in 0..m : i # m => g[i] \in S
    BY <1>2
  <2> QED BY <2>2, <2>3
<1>6. Loop(m, h)
  <2>1. h[0] = base
    BY <1>2, <1>3, <1>4
  <2>2. ASSUME NEW i \in 1..m PROVE h[i] = step[i][h[i - 1]]
    <3>1. i - 1 \in 0..m /\ i - 1 # m /\ i \in 0..m
      BY <1>2
    <3>2. h[i - 1] = g[i - 1]
      BY <3>1
    <3>3. CASE i = m
      BY <3>1, <3>2, <3>3
    <3>4. CASE i # m
      <4>1. i \in 1..m - 1
        BY <1>2, <3>4
      <4> QED BY <1>4, <3>1, <3>2, <3>4, <4>1
    <3> QED BY <3>3, <3>4
  <2> QED BY <2>1, <2>2
<1> QED BY <1>2, <1>5, <1>6
-----------------------------------------------------------------------------
\* What has been put together before each round of FlattenSeq.
JoinedRow(S, ss, f) ==
  /\ f \in [0..Len(ss) -> Seq(S)]
  /\ f[0] = <<>>
  /\ \A i \in 1..Len(ss) : f[i] = f[i - 1] \o ss[i]

\* The law of associativity, in a form that names the sequences it is for.
Regrouped(S, x, y, z) == (x \o y) \o z = x \o (y \o z)

LEMMA Regroup ==
  ASSUME NEW S, NEW x \in Seq(S), NEW y \in Seq(S), NEW z \in Seq(S)
  PROVE  Regrouped(S, x, y, z)
BY ConcatAssociative DEF Regrouped

LEMMA StartsEmpty ==
  ASSUME NEW S, NEW s \in Seq(S)
  PROVE  <<>> \o s = s
OBVIOUS

\* There is one such row of sequences, and FlattenSeq returns its last.
LEMMA FlattenRow ==
  ASSUME NEW S, NEW ss \in Seq(Seq(S))
  PROVE  \E f : JoinedRow(S, ss, f)
<1> DEFINE n == Len(ss)
           step == [i \in 1..n |-> [s \in Seq(S) |-> s \o ss[i]]]
<1>1. n \in Nat /\ \A i \in 1..n : ss[i] \in Seq(S)
  OBVIOUS
<1> HIDE DEF n
<1>2. step \in [1..n -> [Seq(S) -> Seq(S)]]
  BY <1>1
<1>3. <<>> \in Seq(S)
  OBVIOUS
<1>a. \A i \in 1..n : step[i] = [s \in Seq(S) |-> s \o ss[i]]
  OBVIOUS
<1> HIDE DEF step
<1>4. PICK f \in [0..n -> Seq(S)] : f[0] = <<>> /\ \A i \in 1..n : f[i] = step[i][f[i - 1]]
  <2>1. HasResults(Seq(S), n, <<>>, step)
    BY <1>1, <1>2, <1>3, LoopHasResults, Zenon
  <2> QED BY <2>1, Zenon DEF HasResults
<1>5. ASSUME NEW i \in 1..n PROVE f[i] = f[i - 1] \o ss[i]
  <2>1. f[i - 1] \in Seq(S)
    BY <1>1
  <2> QED BY <1>4, <1>a, <2>1
<1> QED BY <1>4, <1>5 DEF JoinedRow, n

LEMMA FlattenIsLast ==
  ASSUME NEW S, NEW ss \in Seq(Seq(S)), NEW f, JoinedRow(S, ss, f)
  PROVE  FlattenSeq(ss) = f[Len(ss)]
<1> DEFINE n == Len(ss)
           Rounds(g) == g = [i \in 1..n |-> IF i = 1 THEN ss[i] ELSE g[i - 1] \o ss[i]]
<1>1. n \in Nat /\ \A i \in 1..n : ss[i] \in Seq(S)
  OBVIOUS
<1>2. CASE n = 0
  <2>1. ss = <<>> /\ f[n] = <<>>
    BY <1>2 DEF JoinedRow
  <2> QED BY <1>2, <2>1 DEF FlattenSeq
<1>3. CASE n # 0
  <2> DEFINE h == [i \in 1..n |-> f[i]]
             flatten == CHOOSE g : Rounds(g)
  <2>1. Rounds(h)
    <3> SUFFICES ASSUME NEW i \in 1..n
                 PROVE  f[i] = IF i = 1 THEN ss[i] ELSE h[i - 1] \o ss[i]
      <4> HIDE DEF n
      <4> QED OBVIOUS
    <3>1. f[i] = f[i - 1] \o ss[i] /\ ss[i] \in Seq(S)
      BY <1>1 DEF JoinedRow
    <3>2. CASE i = 1
      <4>1. f[i - 1] = <<>>
        BY <3>2 DEF JoinedRow
      <4> QED BY <3>1, <3>2, <4>1
    <3>3. CASE i # 1
      <4>1. i - 1 \in 1..n
        BY <1>1, <3>3
      <4> QED BY <3>1, <3>3, <4>1
    <3> QED BY <3>2, <3>3
  <2>2. Rounds(flatten)
    <3> HIDE DEF Rounds
    <3> QED BY <2>1, Zenon
  <2>3. FlattenSeq(ss) = flatten[n]
    BY <1>3, Zenon DEF FlattenSeq
  <2> HIDE DEF flatten
  <2>4. \A k \in 0..n : k \in {i \in 0..n : i # 0 => flatten[i] = f[i]}
    <3> DEFINE T == {i \in 0..n : i # 0 => flatten[i] = f[i]}
    <3>1. ASSUME NEW k \in 0..n, \A j \in 0..n : j < k => j \in T PROVE k \in T
      <4>1. CASE k = 0
        BY <4>1
      <4>2. CASE k = 1
        <5>1. 1 \in 1..n /\ flatten[1] = ss[1]
          BY <1>1, <2>2, <4>2
        <5>2. f[1] = f[1 - 1] \o ss[1] /\ f[0] = <<>> /\ ss[1] \in Seq(S)
          BY <1>1, <5>1 DEF JoinedRow
        <5>3. f[1] = ss[1]
          <6>1. f[1 - 1] = <<>>
            BY <5>2
          <6> QED BY <5>2, <6>1, StartsEmpty, Zenon
        <5> QED BY <4>2, <5>1, <5>3
      <4>3. CASE k # 0 /\ k # 1
        <5>1. k \in 1..n /\ k - 1 \in 0..n /\ k - 1 < k /\ k - 1 # 0
          BY <1>1, <4>3
        <5>2. flatten[k] = flatten[k - 1] \o ss[k]
          BY <2>2, <4>3, <5>1
        <5>3. flatten[k - 1] = f[k - 1]
          BY <3>1, <5>1
        <5>4. f[k] = f[k - 1] \o ss[k]
          BY <5>1 DEF JoinedRow
        <5> QED BY <5>2, <5>3, <5>4
      <4> QED BY <4>1, <4>2, <4>3
    <3>2. n \in Nat
      BY <1>1
    <3> HIDE DEF T
    <3>3. \A k \in 0..n : k \in T
      BY <3>1, <3>2, FromBelow
    <3> QED BY <3>3 DEF T
  <2>5. n \in 0..n
    BY <1>1
  <2> QED BY <1>3, <2>3, <2>4, <2>5
<1> QED BY <1>2, <1>3

\* FlattenSeq returns a sequence of what is in its parts,
LEMMA FlattenType ==
  ASSUME NEW S, NEW ss \in Seq(Seq(S))
  PROVE  FlattenSeq(ss) \in Seq(S)
<1>1. PICK f : JoinedRow(S, ss, f)
  BY FlattenRow
<1>2. Len(ss) \in 0..Len(ss)
  OBVIOUS
<1>3. f[Len(ss)] \in Seq(S)
  BY <1>1, <1>2 DEF JoinedRow
<1> QED BY <1>1, <1>3, FlattenIsLast

\* of which those of one part come before those of the next.
LEMMA FlattenConcat ==
  ASSUME NEW S, NEW ss \in Seq(Seq(S)), NEW tt \in Seq(Seq(S))
  PROVE  FlattenSeq(ss \o tt) = FlattenSeq(ss) \o FlattenSeq(tt)
<1>1. PICK f : JoinedRow(S, ss, f)
  BY FlattenRow
<1>2. PICK g : JoinedRow(S, tt, g)
  BY FlattenRow
<1> DEFINE n == Len(ss)
           m == Len(tt)
           h == [i \in 0..n + m |-> IF i <= n THEN f[i] ELSE f[n] \o g[i - n]]
<1>3. /\ n \in Nat /\ m \in Nat /\ ss \o tt \in Seq(Seq(S)) /\ Len(ss \o tt) = n + m
      /\ \A i \in 1..n + m : (ss \o tt)[i] = IF i <= n THEN ss[i] ELSE tt[i - n]
      /\ \A i \in 1..n : ss[i] \in Seq(S)
      /\ \A i \in 1..m : tt[i] \in Seq(S)
  OBVIOUS
<1>4. /\ f \in [0..n -> Seq(S)] /\ f[0] = <<>> /\ \A i \in 1..n : f[i] = f[i - 1] \o ss[i]
      /\ g \in [0..m -> Seq(S)] /\ g[0] = <<>> /\ \A i \in 1..m : g[i] = g[i - 1] \o tt[i]
  BY <1>1, <1>2 DEF JoinedRow
<1> HIDE DEF n, m
<1>5. JoinedRow(S, ss \o tt, h)
  <2>1. h \in [0..n + m -> Seq(S)]
    <3> SUFFICES ASSUME NEW i \in 0..n + m
                 PROVE  (IF i <= n THEN f[i] ELSE f[n] \o g[i - n]) \in Seq(S)
      OBVIOUS
    <3>1. CASE i <= n
      BY <1>3, <1>4, <3>1
    <3>2. CASE ~ (i <= n)
      <4>1. n \in 0..n /\ i - n \in 0..m
        BY <1>3, <3>2
      <4>2. f[n] \in Seq(S) /\ g[i - n] \in Seq(S)
        BY <1>4, <4>1
      <4> QED BY <3>2, <4>2
    <3> QED BY <3>1, <3>2
  <2>2. h[0] = <<>>
    BY <1>3, <1>4
  <2>3. ASSUME NEW i \in 1..n + m PROVE h[i] = h[i - 1] \o (ss \o tt)[i]
    <3>0. i - 1 \in 0..n + m /\ i \in 0..n + m
      BY <1>3
    <3>1. CASE i <= n
      <4>1. i \in 1..n /\ i - 1 <= n /\ (ss \o tt)[i] = ss[i]
        BY <1>3, <3>1
      <4>2. h[i] = f[i] /\ h[i - 1] = f[i - 1]
        BY <3>0, <3>1, <4>1
      <4> QED BY <1>4, <4>1, <4>2
    <3>2. CASE i = n + 1
      <4>1. ~ (i <= n) /\ i - n \in 1..m /\ i - 1 = n /\ i - n = 1 /\ n <= n /\ n \in 0..n
        BY <1>3, <3>2
      <4>2. h[i] = f[n] \o g[1] /\ h[i - 1] = f[n] /\ (ss \o tt)[i] = tt[1]
        BY <1>3, <3>0, <4>1
      <4>3. g[1] = g[1 - 1] \o tt[1] /\ g[0] = <<>> /\ tt[1] \in Seq(S)
        BY <1>3, <1>4, <4>1, Zenon
      <4>4. g[1] = tt[1]
        <5>1. g[1 - 1] = <<>>
          BY <4>3
        <5> QED BY <4>3, <5>1, StartsEmpty, Zenon
      <4> QED BY <4>2, <4>4
    <3>3. CASE ~ (i <= n) /\ i # n + 1
      <4>1. ~ (i - 1 <= n) /\ i - n \in 1..m /\ (i - 1) - n = (i - n) - 1 /\ n \in 0..n
            /\ (i - n) - 1 \in 0..m
        BY <1>3, <3>3
      <4>2. h[i] = f[n] \o g[i - n] /\ h[i - 1] = f[n] \o g[(i - n) - 1]
            /\ (ss \o tt)[i] = tt[i - n]
        BY <1>3, <3>0, <3>3, <4>1
      <4>3. g[i - n] = g[(i - n) - 1] \o tt[i - n]
        BY <1>4, <4>1
      <4>4. f[n] \in Seq(S) /\ g[(i - n) - 1] \in Seq(S) /\ tt[i - n] \in Seq(S)
        BY <1>3, <1>4, <4>1
      <4>5. f[n] \o (g[(i - n) - 1] \o tt[i - n]) = (f[n] \o g[(i - n) - 1]) \o tt[i - n]
        <5>1. \A a, b, c \in Seq(S) : a \o (b \o c) = (a \o b) \o c
          BY ConcatAssociative
        <5> QED BY <4>4, <5>1, Zenon
      <4> QED BY <4>2, <4>3, <4>5
    <3> QED BY <3>1, <3>2, <3>3
  <2> HIDE DEF h
  <2> QED BY <1>3, <2>1, <2>2, <2>3 DEF JoinedRow
<1>6. FlattenSeq(ss \o tt) = h[n + m]
  <2> HIDE DEF h
  <2> QED BY <1>3, <1>5, FlattenIsLast
<1>7. FlattenSeq(ss) = f[n] /\ FlattenSeq(tt) = g[m]
  BY <1>1, <1>2, FlattenIsLast DEF n, m
<1>8. n + m \in 0..n + m /\ n \in 0..n
  BY <1>3
<1>9. CASE m = 0
  <2>1. h[n + m] = f[n] /\ g[m] = <<>> /\ f[n] \in Seq(S)
    BY <1>3, <1>4, <1>8, <1>9
  <2> QED BY <1>6, <1>7, <2>1
<1>10. CASE m # 0
  <2>1. ~ (n + m <= n) /\ (n + m) - n = m
    BY <1>3, <1>10
  <2>2. h[n + m] = f[n] \o g[m]
    BY <1>8, <2>1
  <2> QED BY <1>6, <1>7, <2>2
<1> QED BY <1>9, <1>10

LEMMA FlattenOne ==
  ASSUME NEW S, NEW s \in Seq(S)
  PROVE  FlattenSeq(<<s>>) = s /\ FlattenSeq(<<>>) = <<>>
<1>2. Len(<<s>>) = 1 /\ <<s>>[1] = s /\ 1 \in 1..1 /\ <<s>> \in Seq(Seq(S))
  OBVIOUS
<1>1. PICK f : JoinedRow(S, <<s>>, f)
  BY <1>2, FlattenRow, Zenon
<1>3. f[1] = f[1 - 1] \o s /\ f[0] = <<>>
  BY <1>1, <1>2, Zenon DEF JoinedRow
<1>4. FlattenSeq(<<s>>) = f[1]
  BY <1>1, <1>2, FlattenIsLast
<1>5. FlattenSeq(<<>>) = <<>>
  BY DEF FlattenSeq
<1> QED BY <1>3, <1>4, <1>5
-----------------------------------------------------------------------------
\* What a loop writes that writes something for each element.
Pieces(f, s) == [i \in DOMAIN s |-> f[s[i]]]
Each(f, s) == FlattenSeq(Pieces(f, s))

HasPieces(S, T, f, s) ==
  /\ Pieces(f, s) \in Seq(Seq(T))
  /\ Len(Pieces(f, s)) = Len(s)
  /\ \A i \in 1..Len(s) : Pieces(f, s)[i] = f[s[i]]

LEMMA EachParts ==
  ASSUME NEW S, NEW T, NEW f \in [S -> Seq(T)], NEW s \in Seq(S)
  PROVE  HasPieces(S, T, f, s)
<1> DEFINE r == [i \in 1..Len(s) |-> f[s[i]]]
<1>1. Len(s) \in Nat /\ DOMAIN s = 1..Len(s) /\ \A i \in 1..Len(s) : s[i] \in S
  OBVIOUS
<1>2. \A i \in 1..Len(s) : f[s[i]] \in Seq(T)
  BY <1>1
<1>3. r \in Seq(Seq(T))
  BY <1>1, <1>2
<1>4. Len(r) = Len(s)
  BY <1>1
<1>5. Pieces(f, s) = r
  BY <1>1 DEF Pieces
<1>6. \A i \in 1..Len(s) : r[i] = f[s[i]]
  OBVIOUS
<1> HIDE DEF r
<1> QED BY <1>3, <1>4, <1>5, <1>6 DEF HasPieces

LEMMA EachType ==
  ASSUME NEW S, NEW T, NEW f \in [S -> Seq(T)], NEW s \in Seq(S)
  PROVE  Each(f, s) \in Seq(T)
<1>1. HasPieces(S, T, f, s)
  BY EachParts, Zenon
<1> QED BY <1>1, FlattenType, Zenon DEF Each, HasPieces

Distributes(S, T, f, s, t) == Each(f, s \o t) = Each(f, s) \o Each(f, t)

LEMMA EachConcat ==
  ASSUME NEW S, NEW T, NEW f \in [S -> Seq(T)], NEW s \in Seq(S), NEW t \in Seq(S)
  PROVE  Distributes(S, T, f, s, t)
<1> DEFINE a == Pieces(f, s)
           b == Pieces(f, t)
           c == Pieces(f, s \o t)
<1>1. a \in Seq(Seq(T)) /\ Len(a) = Len(s) /\ \A i \in 1..Len(s) : a[i] = f[s[i]]
  <2>1. HasPieces(S, T, f, s)
    BY EachParts, Zenon
  <2> QED BY <2>1, Zenon DEF HasPieces
<1>2. b \in Seq(Seq(T)) /\ Len(b) = Len(t) /\ \A i \in 1..Len(t) : b[i] = f[t[i]]
  <2>1. HasPieces(S, T, f, t)
    BY EachParts, Zenon
  <2> QED BY <2>1, Zenon DEF HasPieces
<1>3. s \o t \in Seq(S) /\ Len(s \o t) = Len(s) + Len(t)
      /\ \A i \in 1..Len(s) + Len(t) :
           (s \o t)[i] = IF i <= Len(s) THEN s[i] ELSE t[i - Len(s)]
  OBVIOUS
<1>4. c \in Seq(Seq(T)) /\ Len(c) = Len(s) + Len(t)
      /\ \A i \in 1..Len(s) + Len(t) : c[i] = f[(s \o t)[i]]
  <2>1. c \in Seq(Seq(T)) /\ Len(c) = Len(s \o t)
        /\ \A i \in 1..Len(s \o t) : c[i] = f[(s \o t)[i]]
    <3>1. HasPieces(S, T, f, s \o t)
      BY <1>3, EachParts, Zenon
    <3> QED BY <3>1, Zenon DEF HasPieces
  <2> HIDE DEF c
  <2> QED BY <1>3, <2>1, Zenon
<1> HIDE DEF a, b, c
<1>5. \A i \in 1..Len(s) + Len(t) : c[i] = (a \o b)[i]
  <2> SUFFICES ASSUME NEW i \in 1..Len(s) + Len(t) PROVE c[i] = (a \o b)[i]
    OBVIOUS
  <2>1. CASE i <= Len(s)
    <3>1. i \in 1..Len(s)
      BY <2>1
    <3>2. (a \o b)[i] = a[i]
      BY <1>1, <1>2, <3>1
    <3> QED BY <1>1, <1>3, <1>4, <2>1, <3>1, <3>2
  <2>2. CASE ~ (i <= Len(s))
    <3>1. i - Len(s) \in 1..Len(t)
      BY <2>2
    <3>2. (a \o b)[i] = b[i - Len(s)]
      BY <1>1, <1>2, <2>2, <3>1
    <3> QED BY <1>2, <1>3, <1>4, <2>2, <3>1, <3>2
  <2> QED BY <2>1, <2>2
<1>6. c = a \o b
  <2>1. a \o b \in Seq(Seq(T)) /\ Len(a \o b) = Len(s) + Len(t)
    <3>1. \A u, v \in Seq(Seq(T)) : u \o v \in Seq(Seq(T)) /\ Len(u \o v) = Len(u) + Len(v)
      BY ConcatProperties, Zenon
    <3> QED BY <1>1, <1>2, <3>1, Zenon
  <2> QED BY <1>4, <1>5, <2>1, SeqEqual, Zenon
<1>7. FlattenSeq(a \o b) = FlattenSeq(a) \o FlattenSeq(b)
  BY <1>1, <1>2, FlattenConcat
<1> QED BY <1>6, <1>7, Zenon DEF Distributes, Each, a, b, c

LEMMA EachOne ==
  ASSUME NEW S, NEW T, NEW f \in [S -> Seq(T)], NEW x \in S
  PROVE  Each(f, <<x>>) = f[x] /\ Each(f, <<>>) = <<>>
<1>1. Pieces(f, <<x>>) = <<f[x]>>
  BY DEF Pieces
<1>2. DOMAIN <<>> = {}
  OBVIOUS
<1>3. Pieces(f, <<>>) = <<>>
  BY <1>2 DEF Pieces
<1>4. f[x] \in Seq(T)
  OBVIOUS
<1>5. FlattenSeq(<<f[x]>>) = f[x] /\ FlattenSeq(<<>>) = <<>>
  BY <1>4, FlattenOne
<1> QED BY <1>1, <1>3, <1>5, Zenon DEF Each

\* A loop that writes one element for each writes them in their places.
EachIs(S, T, f, s, r) == Each(f, s) = r

LEMMA EachSingle ==
  ASSUME NEW S, NEW T, NEW f \in [S -> Seq(T)], NEW s \in Seq(S), NEW r \in Seq(T),
         Len(r) = Len(s), \A i \in 1..Len(s) : f[s[i]] = <<r[i]>>
  PROVE  EachIs(S, T, f, s, r)
<1> DEFINE n == Len(s)
           a == Pieces(f, s)
           h == [i \in 0..n |-> SubSeq(r, 1, i)]
<1>1. n \in Nat /\ Len(r) = n /\ DOMAIN s = 1..n
  OBVIOUS
<1>2. a \in Seq(Seq(T)) /\ Len(a) = n /\ \A i \in 1..n : a[i] = <<r[i]>>
  <2>1. HasPieces(S, T, f, s)
    BY EachParts, Zenon
  <2> QED BY <2>1, Zenon DEF HasPieces
<1>3. \A i \in 0..n : h[i] = SubSeq(r, 1, i)
  OBVIOUS
<1>4. h \in [0..n -> Seq(T)]
  BY <1>1
<1>5. h[0] = <<>>
  <2>1. 0 \in 0..n /\ SubSeq(r, 1, 0) = <<>>
    BY <1>1, SubSeqEmpty
  <2> QED BY <1>3, <2>1
<1>6. ASSUME NEW i \in 1..n PROVE h[i] = h[i - 1] \o a[i]
  <2>1. i \in 0..n /\ i - 1 \in 0..n /\ 1 \in 1..Len(r) /\ i \in 1..Len(r)
    BY <1>1
  <2>2. SubSeq(r, 1, i) = SubSeq(r, 1, i - 1) \o <<r[i]>>
    BY <2>1, SubSeqRecursiveSecond
  <2> QED BY <1>2, <1>3, <2>1, <2>2, Zenon
<1>7. JoinedRow(T, a, h)
  BY <1>2, <1>4, <1>5, <1>6, Zenon DEF JoinedRow
<1>8. FlattenSeq(a) = h[n]
  <2> HIDE DEF h, a
  <2> QED BY <1>2, <1>7, FlattenIsLast
<1>9. h[n] = r
  <2>1. n \in 0..n /\ SubSeq(r, 1, n) = r
    BY <1>1, SubSeqFull
  <2> QED BY <1>3, <2>1
<1> QED BY <1>8, <1>9, Zenon DEF EachIs, Each

-----------------------------------------------------------------------------
\* A recursion over the numbers up to n that ends at some and goes down at all
\* others has a value for each,
Descent(n, done, back, base, join, f) ==
  \A l \in 0..n : f[l] = IF l \in done THEN base ELSE join[l][f[back[l]]]

LEMMA DescentHasResults ==
  ASSUME NEW V, NEW n \in Nat, NEW done, NEW back, NEW base \in V,
         NEW join \in [0..n -> [V -> V]],
         \A l \in 0..n : l \notin done => back[l] \in Nat /\ back[l] < l
  PROVE  \E f \in [0..n -> V] : Descent(n, done, back, base, join, f)
<1> DEFINE Good(m, f) == \A l \in 0..m : f[l] = IF l \in done THEN base ELSE join[l][f[back[l]]]
           T == {m \in 0..n : \E f \in [0..m -> V] : Good(m, f)}
<1>1. ASSUME NEW m \in 0..n, \A j \in 0..n : j < m => j \in T PROVE m \in T
  <2>1. CASE m = 0
    <3> DEFINE f == [l \in 0..0 |-> base]
    <3>1. f \in [0..0 -> V] /\ \A l \in 0..0 : l \in done /\ f[l] = base
      <4>1. \A l \in 0..0 : ~ (\E k \in Nat : k < l)
        OBVIOUS
      <4>2. 0 \in 0..n
        OBVIOUS
      <4> QED BY <4>1, <4>2
    <3>2. Good(0, f)
      BY <3>1
    <3> HIDE DEF f
    <3> QED BY <2>1, <3>1, <3>2
  <2>2. CASE m # 0
    <3>1. m - 1 \in 0..n /\ m - 1 < m
      BY <2>2
    <3>2. PICK g \in [0..m - 1 -> V] : Good(m - 1, g)
      BY <1>1, <3>1
    <3> DEFINE v == IF m \in done THEN base ELSE join[m][g[back[m]]]
               f == [l \in 0..m |-> IF l = m THEN v ELSE g[l]]
    <3>3. v \in V
      <4>1. m \notin done => back[m] \in 0..m - 1
        BY <2>2
      <4> QED BY <4>1
    <3>4. f \in [0..m -> V]
      <4> HIDE DEF v
      <4> QED BY <3>3
    <3>5. ASSUME NEW l \in 0..m PROVE f[l] = IF l \in done THEN base ELSE join[l][f[back[l]]]
      <4>1. l \notin done => back[l] \in Nat /\ back[l] < l
        OBVIOUS
      <4>2. l \notin done => f[back[l]] = g[back[l]]
        BY <4>1
      <4>3. CASE l = m
        <5>1. f[l] = v
          BY <4>3
        <5> QED BY <4>2, <4>3, <5>1
      <4>4. CASE l # m
        <5>1. l \in 0..m - 1 /\ f[l] = g[l]
          BY <4>4
        <5>2. g[l] = IF l \in done THEN base ELSE join[l][g[back[l]]]
          BY <3>2, <5>1
        <5> QED BY <4>2, <5>1, <5>2
      <4> QED BY <4>3, <4>4
    <3>6. Good(m, f)
      <4> HIDE DEF f
      <4> QED BY <3>5
    <3> HIDE DEF f, Good
    <3> QED BY <3>4, <3>6
  <2> QED BY <2>1, <2>2
<1>2. \A m \in 0..n : m \in T
  <2> HIDE DEF T
  <2> QED BY <1>1, FromBelow
<1>3. n \in T
  <2> HIDE DEF T
  <2> QED BY <1>2
<1> QED BY <1>3 DEF Descent

\* and no more than one.
LEMMA DescentIsOne ==
  ASSUME NEW n \in Nat, NEW done, NEW back, NEW base, NEW join, NEW f, NEW g,
         \A l \in 0..n : l \notin done => back[l] \in Nat /\ back[l] < l,
         Descent(n, done, back, base, join, f), Descent(n, done, back, base, join, g)
  PROVE  \A l \in 0..n : f[l] = g[l]
<1> DEFINE T == {l \in 0..n : f[l] = g[l]}
<1>1. ASSUME NEW k \in 0..n, \A j \in 0..n : j < k => j \in T PROVE k \in T
  <2>1. CASE k \in done
    BY <2>1 DEF Descent
  <2>2. CASE k \notin done
    <3>1. back[k] \in 0..n /\ back[k] < k
      BY <2>2
    <3>2. f[back[k]] = g[back[k]]
      BY <1>1, <3>1
    <3> QED BY <2>2, <3>2 DEF Descent
  <2> QED BY <2>1, <2>2
<1>2. \A k \in 0..n : k \in T
  <2> HIDE DEF T
  <2> QED BY <1>1, FromBelow
<1> QED BY <1>2
=============================================================================
