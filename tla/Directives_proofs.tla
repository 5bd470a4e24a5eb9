-------------------------- MODULE Directives_proofs --------------------------
(***************************************************************************)
(* What process_preprocessing_tokens and handle_if_directives make of      *)
(* every file whose directives end in newlines and whose conditionals are  *)
(* closed: they stay in the list, remove no text but in a group, keep one  *)
(* group of a conditional of up to two #elifs, and leave the text lines    *)
(* that ConditionalInclusion keeps.                                        *)
(***************************************************************************)
EXTENDS Directives, LeastNumber, SequenceTheorems, FiniteSetTheorems

-----------------------------------------------------------------------------
(* current_if_level, counted over part of the list *)

\* How a line changes the level.
Turn(l) == IF l.kind \in IfKinds THEN 1 ELSE IF l.kind = "endif" THEN -1 ELSE 0

Count(s, K, a, n) == Cardinality({j \in a..n : s[j].kind \in K})

LEMMA CountNext ==
    ASSUME NEW s, NEW K, NEW a \in Nat, NEW c \in Nat, a <= c
    PROVE  /\ Count(s, K, a, c - 1) \in Nat
           /\ Count(s, K, a, c) = Count(s, K, a, c - 1) + (IF s[c].kind \in K THEN 1 ELSE 0)
  <1> DEFINE N == {j \in a..(c - 1) : s[j].kind \in K}
             M == {j \in a..c : s[j].kind \in K}
  <1>1. IsFiniteSet(a..(c - 1)) /\ N \in SUBSET (a..(c - 1))
    BY FS_Interval
  <1>2. IsFiniteSet(N)
    BY <1>1, FS_Subset
  <1>3. Cardinality(N) \in Nat
    BY <1>2, FS_CardinalityType
  <1>4. c \notin N
    OBVIOUS
  <1>5. CASE s[c].kind \in K
    <2>1. M = N \cup {c}
      BY <1>5
    <2>2. Cardinality(N \cup {c}) = Cardinality(N) + 1
      BY <1>2, <1>4, FS_AddElement
    <2> HIDE DEF M, N
    <2>3. Cardinality(M) = Cardinality(N) + 1
      BY <2>1, <2>2
    <2> QED BY <1>3, <1>5, <2>3 DEF M, N, Count
  <1>6. CASE s[c].kind \notin K
    <2>1. M = N
      BY <1>6
    <2> HIDE DEF M, N
    <2>2. Cardinality(M) = Cardinality(N) + 0
      BY <1>3, <2>1
    <2> QED BY <1>3, <1>6, <2>2 DEF M, N, Count
  <1> QED BY <1>5, <1>6

LEMMA LevelIsCount ==
    ASSUME NEW s, NEW a, NEW c
    PROVE  Level(s, a, c) = Count(s, IfKinds, a, c - 1) - Count(s, {"endif"}, a, c - 1)
  <1>1. {j \in a..(c - 1) : s[j].kind = "endif"} = {j \in a..(c - 1) : s[j].kind \in {"endif"}}
    OBVIOUS
  <1> QED BY <1>1 DEF Level, Quantify, Count

LEMMA LevelNext ==
    ASSUME NEW s, NEW a \in Nat, NEW c \in Nat, a <= c
    PROVE  /\ Level(s, a, c) \in Int
           /\ Level(s, a, a) = 0
           /\ Level(s, a, c + 1) = Level(s, a, c) + Turn(s[c])
  <1> DEFINE K == {"endif"}
             n == c - 1
             x == Count(s, IfKinds, a, n)
             y == Count(s, K, a, n)
             i == IF s[c].kind \in IfKinds THEN 1 ELSE 0
             e == IF s[c].kind \in K THEN 1 ELSE 0
  <1>1. x \in Nat /\ y \in Nat /\ i \in Int /\ e \in Int
    BY CountNext
  <1>2. Count(s, IfKinds, a, c) = x + i
    BY CountNext
  <1>3. Count(s, K, a, c) = y + e
    BY CountNext
  <1>4. Turn(s[c]) = i - e
    BY DEF Turn, IfKinds
  <1>5. Level(s, a, c) = x - y
    BY LevelIsCount
  <1>6. Level(s, a, c + 1) = Count(s, IfKinds, a, c) - Count(s, K, a, c)
    <2>1. (c + 1) - 1 = c
      OBVIOUS
    <2> QED BY <2>1, LevelIsCount
  <1>7. Level(s, a, a) = 0
    <2>1. \A L : {j \in a..(a - 1) : s[j].kind \in L} = {}
      OBVIOUS
    <2>2. \A L : Count(s, L, a, a - 1) = 0
      BY <2>1, FS_EmptySet DEF Count
    <2>3. Level(s, a, a) = Count(s, IfKinds, a, a - 1) - Count(s, K, a, a - 1)
      BY LevelIsCount
    <2> QED BY <2>2, <2>3
  <1> HIDE DEF x, y, i, e
  <1>8. x - y \in Int /\ (x + i) - (y + e) = (x - y) + (i - e)
    BY <1>1
  <1> QED BY <1>2, <1>3, <1>4, <1>5, <1>6, <1>7, <1>8

LEMMA LevelSplit ==
    ASSUME NEW s, NEW a \in Nat, NEW b \in Nat, NEW c \in Nat, a <= b, b <= c
    PROVE  Level(s, a, c) = Level(s, a, b) + Level(s, b, c)
  <1> DEFINE A == {n \in Nat : Level(s, a, b + n) = Level(s, a, b) + Level(s, b, b + n)}
  <1>1. ASSUME NEW n \in Nat, \A m \in 0..(n - 1) : m \in A
        PROVE  n \in A
    <2>1. CASE n = 0
      <3>1. Level(s, a, b) \in Int /\ Level(s, b, b) = 0
        BY LevelNext
      <3> QED BY <2>1, <3>1
    <2>2. CASE n # 0
      <3> DEFINE k == b + (n - 1)
      <3>1. n - 1 \in 0..(n - 1) /\ k \in Nat /\ a <= k /\ b <= k /\ b + n = k + 1
        BY <2>2
      <3>2. Level(s, a, k) = Level(s, a, b) + Level(s, b, k)
        BY <1>1, <3>1
      <3> HIDE DEF k
      <3>3. /\ Level(s, a, k + 1) = Level(s, a, k) + Turn(s[k])
            /\ Level(s, b, k + 1) = Level(s, b, k) + Turn(s[k])
            /\ Level(s, a, k) \in Int /\ Level(s, b, k) \in Int
        BY <3>1, LevelNext
      <3>4. Level(s, a, b) \in Int /\ Turn(s[k]) \in Int
        <4>1. Level(s, a, b) \in Int
          BY LevelNext
        <4> QED BY <4>1 DEF Turn
      <3>5. Level(s, a, k + 1) = Level(s, a, b) + Level(s, b, k + 1)
        BY <3>2, <3>3, <3>4
      <3> QED BY <3>1, <3>5
    <2> QED BY <2>1, <2>2
  <1> HIDE DEF A
  <1>2. Nat \subseteq A
    BY <1>1, SetInduction
  <1>3. c - b \in Nat /\ b + (c - b) = c
    OBVIOUS
  <1> QED BY <1>2, <1>3 DEF A

\* The level depends on the lines alone, wherever they are.
Same(s, a, c, t, b) == \A j \in a..(c - 1) : t[j + (b - a)] = s[j]

LEMMA LevelMove ==
    ASSUME NEW s, NEW a \in Nat, NEW c \in Nat, NEW t, NEW b \in Nat, NEW e \in Nat,
           a <= c, b - a = e - c, Same(s, a, c, t, b)
    PROVE  Level(t, b, e) = Level(s, a, c)
  <1> DEFINE d == b - a
  <1>0. /\ d \in Int /\ a + d = b /\ c + d = e /\ a + d \in Nat
        /\ \A j \in a..(c - 1) : t[j + d] = s[j]
    BY DEF Same
  <1> HIDE DEF d
  <1> DEFINE A == {n \in Nat : a + n <= c => Level(t, a + d, a + n + d) = Level(s, a, a + n)}
  <1>1. ASSUME NEW n \in Nat, \A m \in 0..(n - 1) : m \in A
        PROVE  n \in A
    <2> SUFFICES ASSUME a + n <= c PROVE Level(t, a + d, a + n + d) = Level(s, a, a + n)
      OBVIOUS
    <2>1. CASE n = 0
      <3>1. Level(t, b, b) = 0 /\ Level(s, a, a) = 0
        BY LevelNext
      <3> QED BY <1>0, <2>1, <3>1
    <2>2. CASE n # 0
      <3> DEFINE k == a + (n - 1)
                 f == k + d
      <3>1. /\ n - 1 \in 0..(n - 1) /\ k \in Nat /\ a <= k /\ k <= c - 1 /\ k <= c
            /\ f \in Nat /\ a + d <= f /\ a + n = k + 1 /\ a + n + d = f + 1
        BY <1>0, <2>2
      <3>2. Level(t, a + d, f) = Level(s, a, k)
        BY <1>1, <3>1
      <3>3. t[f] = s[k]
        BY <1>0, <3>1
      <3> HIDE DEF k, f
      <3>4. Level(s, a, k + 1) = Level(s, a, k) + Turn(s[k])
        BY <3>1, LevelNext
      <3>5. Level(t, a + d, f + 1) = Level(t, a + d, f) + Turn(t[f])
        BY <1>0, <3>1, LevelNext
      <3> QED BY <3>1, <3>2, <3>3, <3>4, <3>5
    <2> QED BY <2>1, <2>2
  <1> HIDE DEF A
  <1>2. Nat \subseteq A
    BY <1>1, SetInduction
  <1>3. c - a \in Nat /\ a + (c - a) = c
    OBVIOUS
  <1>4. Level(t, a + d, c + d) = Level(s, a, c)
    BY <1>2, <1>3 DEF A
  <1> QED BY <1>0, <1>4

\* The level first falls below 0 behind an #endif at level 0.
LEMMA FirstDrop ==
    ASSUME NEW s, NEW a \in Nat, NEW k \in Nat, a <= k, Level(s, a, k) < 0
    PROVE  \E e \in a..(k - 1) : s[e].kind = "endif" /\ Level(s, a, e) = 0
  <1> DEFINE S == {n \in Nat : a <= n /\ Level(s, a, n) < 0}
  <1>1. PICK n \in S : \A m \in S : n <= m
    BY LeastElement
  <1>2. Level(s, a, a) = 0
    BY LevelNext
  <1>3. n \in Nat /\ a < n /\ n <= k
    BY <1>1, <1>2
  <1> DEFINE e == n - 1
  <1>4. e \in a..(k - 1) /\ e \in Nat /\ a <= e /\ e + 1 = n /\ e \notin S
    BY <1>1, <1>3
  <1>5. Level(s, a, n) < 0
    BY <1>1
  <1> HIDE DEF e
  <1>6. Level(s, a, e) \in Int /\ Level(s, a, e + 1) = Level(s, a, e) + Turn(s[e])
    BY <1>4, LevelNext
  <1>7. ~ (Level(s, a, e) < 0)
    BY <1>4
  <1>8. Level(s, a, e) = 0 /\ Turn(s[e]) = -1
    BY <1>4, <1>5, <1>6, <1>7 DEF Turn
  <1>9. s[e].kind = "endif"
    BY <1>8 DEF Turn
  <1> QED BY <1>4, <1>8, <1>9

-----------------------------------------------------------------------------
(* Lists of lines whose conditionals are ended and have two #elifs at most *)

Openers == IfKinds \cup {"elif", "else"}

\* What line i opens is ended: behind it the level falls below 0.
Drops(s, i) == \E k \in (i + 1)..(Len(s) + 1) : Level(s, i + 1, k) < 0

Ended(s) == \A i \in 1..Len(s) : s[i].kind \in Openers => Drops(s, i)

LEMMA ClosedIsEnded ==
    ASSUME NEW s \in Seq(Lines), Closed(s)
    PROVE  Ended(s)
  <1> SUFFICES ASSUME NEW i \in 1..Len(s), s[i].kind \in Openers
               PROVE  Drops(s, i)
    BY DEF Ended
  <1>1. Len(s) \in Nat /\ DOMAIN s = 1..Len(s)
    BY LenProperties
  <1>2. PICK k \in (i + 1)..Len(s) : s[k].kind = "endif" /\ Level(s, i + 1, k) = 0
    BY <1>1 DEF Closed, Openers
  <1>3. i + 1 \in Nat /\ k \in Nat /\ i + 1 <= k
    BY <1>1
  <1>4. Level(s, i + 1, k + 1) = Level(s, i + 1, k) + Turn(s[k])
    BY <1>3, LevelNext
  <1>5. Turn(s[k]) = -1
    BY <1>2 DEF Turn, IfKinds
  <1>6. Level(s, i + 1, k + 1) < 0 /\ k + 1 \in (i + 1)..(Len(s) + 1)
    BY <1>1, <1>2, <1>4, <1>5
  <1> QED BY <1>6 DEF Drops

LEMMA ChainShift ==
    ASSUME NEW s, NEW t, NEW i \in Nat, NEW j \in Nat, i < j, NEW d \in Int, i + d \in Nat, NEW K,
           \A m \in (i + 1)..j : t[m + d] = s[m],
           InChain(s, i, j, K)
    PROVE  InChain(t, i + d, j + d, K)
  <1>1. ASSUME NEW k \in (i + 1)..j
        PROVE  Level(t, i + d + 1, k + d) = Level(s, i + 1, k)
    <2>1. /\ i + 1 \in Nat /\ k \in Nat /\ i + 1 <= k /\ (i + 1) + d \in Nat
          /\ (i + 1) + d = i + d + 1
      BY <1>1
    <2>2. \A m \in (i + 1)..(k - 1) : t[m + d] = s[m]
      OBVIOUS
    <2> DEFINE a == i + 1
               b == i + d + 1
               e == k + d
    <2>3. /\ a \in Nat /\ b \in Nat /\ e \in Nat /\ a <= k /\ b - a = e - k /\ b - a = d
      BY <2>1
    <2>4. Same(s, a, k, t, b)
      BY <2>2, <2>3 DEF Same
    <2> HIDE DEF a, b, e
    <2>5. Level(t, b, e) = Level(s, a, k)
      BY <2>1, <2>3, <2>4, LevelMove
    <2> QED BY <2>5 DEF a, b, e
  <1>2. t[j + d].kind \in K /\ Level(t, i + d + 1, j + d) = 0
    BY <1>1 DEF InChain
  <1>3. ASSUME NEW k \in (i + d + 1)..(j + d)
        PROVE  Level(t, i + d + 1, k) >= 0
    <2>1. k - d \in (i + 1)..j /\ (k - d) + d = k
      BY <1>3
    <2>2. Level(s, i + 1, k - d) >= 0
      BY <2>1 DEF InChain
    <2> QED BY <1>1, <2>1, <2>2
  <1> QED BY <1>2, <1>3 DEF InChain

\* t is what is left of s behind its first d lines.
IsSuffix(t, s, d) ==
    /\ s \in Seq(Lines) /\ t \in Seq(Lines) /\ d \in Nat
    /\ Len(s) = Len(t) + d
    /\ \A i \in 1..Len(t) : t[i] = s[i + d]

LEMMA SuffixEnded ==
    ASSUME NEW s, NEW t, NEW d, IsSuffix(t, s, d), Ended(s)
    PROVE  Ended(t)
  <1> SUFFICES ASSUME NEW i \in 1..Len(t), t[i].kind \in Openers
               PROVE  Drops(t, i)
    BY DEF Ended
  <1>1. /\ Len(s) \in Nat /\ Len(t) \in Nat /\ d \in Nat /\ i + d \in 1..Len(s)
        /\ Len(s) = Len(t) + d /\ \A x \in 1..Len(t) : t[x] = s[x + d]
    BY DEF IsSuffix
  <1>2. PICK k \in (i + d + 1)..(Len(s) + 1) : Level(s, i + d + 1, k) < 0
    BY <1>1 DEF Ended, Drops
  <1> DEFINE a == i + 1
             c == k - d
             b == i + d + 1
  <1>3. /\ c \in (i + 1)..(Len(t) + 1) /\ a \in Nat /\ c \in Nat /\ b \in Nat /\ k \in Nat
        /\ a <= c /\ b - a = k - c /\ b - a = d
    BY <1>1
  <1>4. Same(t, a, c, s, b)
    BY <1>1, <1>3 DEF Same
  <1> HIDE DEF a, b, c
  <1>5. Level(s, b, k) = Level(t, a, c)
    BY <1>3, <1>4, LevelMove
  <1>6. c \in (i + 1)..(Len(t) + 1) /\ Level(t, i + 1, c) < 0
    BY <1>2, <1>3, <1>5 DEF a, b
  <1> QED BY <1>6 DEF Drops

LEMMA SuffixChain ==
    ASSUME NEW s, NEW t, NEW d, IsSuffix(t, s, d),
           NEW i \in 1..Len(t), NEW j \in (i + 1)..Len(t), NEW K, InChain(t, i, j, K)
    PROVE  InChain(s, i + d, j + d, K)
  <1>0. /\ Len(t) \in Nat /\ d \in Nat /\ \A m \in 1..Len(t) : t[m] = s[m + d]
    BY DEF IsSuffix
  <1>1. i \in Nat /\ j \in Nat /\ i < j /\ i + d \in Nat /\ d \in Int
    BY <1>0
  <1>2. \A m \in (i + 1)..j : s[m + d] = t[m]
    BY <1>0
  <1> QED BY <1>1, <1>2, ChainShift

LEMMA SuffixBounds ==
    ASSUME NEW s, NEW t, NEW d, IsSuffix(t, s, d)
    PROVE  /\ Len(s) \in Nat /\ Len(t) \in Nat /\ DOMAIN s = 1..Len(s) /\ DOMAIN t = 1..Len(t)
           /\ d \in Nat /\ Len(s) = Len(t) + d /\ \A i \in 1..Len(t) : t[i] = s[i + d]
  BY LenProperties DEF IsSuffix

LEMMA SuffixShort ==
    ASSUME NEW s, NEW t, NEW d, IsSuffix(t, s, d), Short(s)
    PROVE  Short(t)
  <1>0. /\ Len(s) \in Nat /\ Len(t) \in Nat /\ DOMAIN s = 1..Len(s) /\ DOMAIN t = 1..Len(t)
        /\ d \in Nat /\ Len(s) = Len(t) + d /\ \A i \in 1..Len(t) : t[i] = s[i + d]
    BY SuffixBounds
  <1> SUFFICES ASSUME NEW i \in 1..Len(t), t[i].kind \in IfKinds,
                      NEW j \in (i + 1)..Len(t), NEW k \in (i + 1)..Len(t),
                      NEW l \in (i + 1)..Len(t), j < k, k < l,
                      ElifOf(t, i, j), ElifOf(t, i, k), ElifOf(t, i, l)
               PROVE  FALSE
    BY <1>0 DEF Short
  <1>1. ElifOf(s, i + d, j + d) /\ ElifOf(s, i + d, k + d) /\ ElifOf(s, i + d, l + d)
    BY SuffixChain DEF ElifOf
  <1>2. /\ i + d \in 1..Len(s) /\ s[i + d].kind \in IfKinds
        /\ {j + d, k + d, l + d} \subseteq (i + d + 1)..Len(s) /\ j + d < k + d /\ k + d < l + d
    BY <1>0
  <1> QED BY <1>0, <1>1, <1>2 DEF Short

LEMMA SuffixElseLast ==
    ASSUME NEW s, NEW t, NEW d, IsSuffix(t, s, d), ElseLast(s)
    PROVE  ElseLast(t)
  <1>0. /\ Len(s) \in Nat /\ Len(t) \in Nat /\ DOMAIN s = 1..Len(s) /\ DOMAIN t = 1..Len(t)
        /\ d \in Nat /\ Len(s) = Len(t) + d /\ \A i \in 1..Len(t) : t[i] = s[i + d]
    BY SuffixBounds
  <1> DEFINE E == {"else"}
             F == {"elif", "else"}
  <1> HIDE DEF E, F
  <1> SUFFICES ASSUME NEW i \in 1..Len(t), t[i].kind \in IfKinds,
                      NEW j \in (i + 1)..Len(t), NEW k \in (i + 1)..Len(t), j < k,
                      InChain(t, i, j, E), InChain(t, i, k, F)
               PROVE  FALSE
    BY <1>0 DEF ElseLast, E, F
  <1>1. InChain(s, i + d, j + d, E) /\ InChain(s, i + d, k + d, F)
    BY SuffixChain
  <1>2. /\ i + d \in 1..Len(s) /\ s[i + d].kind \in IfKinds
        /\ j + d \in (i + d + 1)..Len(s) /\ k + d \in (i + d + 1)..Len(s) /\ j + d < k + d
    BY <1>0
  <1> QED BY <1>0, <1>1, <1>2 DEF ElseLast, E, F

\* u is h followed by t.
IsConcat(u, h, t) ==
    /\ h \in Seq(Lines) /\ t \in Seq(Lines) /\ u \in Seq(Lines)
    /\ Len(u) = Len(h) + Len(t)
    /\ \A i \in 1..Len(h) : u[i] = h[i]
    /\ \A i \in 1..Len(t) : u[i + Len(h)] = t[i]

\* What a line of h opens h ends.
LEMMA DropsInFront ==
    ASSUME NEW u, NEW h, NEW t, IsConcat(u, h, t), NEW i \in 1..Len(h), Drops(h, i)
    PROVE  \E k \in (i + 1)..(Len(h) + 1) : Level(u, i + 1, k) < 0
  <1>0. Len(h) \in Nat /\ Len(t) \in Nat /\ Len(u) = Len(h) + Len(t)
    BY DEF IsConcat
  <1>1. PICK k \in (i + 1)..(Len(h) + 1) : Level(h, i + 1, k) < 0
    BY DEF Drops
  <1> DEFINE a == i + 1
  <1>2. a \in Nat /\ k \in Nat /\ a <= k /\ a - a = k - k
    BY <1>0
  <1>3. \A j \in a..(k - 1) : j + (a - a) = j /\ j \in 1..Len(h)
    BY <1>0
  <1>4. Same(h, a, k, u, a)
    BY <1>3 DEF IsConcat, Same
  <1> HIDE DEF a
  <1>5. Level(u, a, k) = Level(h, a, k)
    BY <1>2, <1>4, LevelMove
  <1> QED BY <1>1, <1>5 DEF a

LEMMA ConcatEnded ==
    ASSUME NEW u, NEW h, NEW t, IsConcat(u, h, t), Ended(h), Ended(t)
    PROVE  Ended(u)
  <1>0. Len(h) \in Nat /\ Len(t) \in Nat /\ Len(u) = Len(h) + Len(t)
    BY DEF IsConcat
  <1> SUFFICES ASSUME NEW i \in 1..Len(u), u[i].kind \in Openers
               PROVE  Drops(u, i)
    BY DEF Ended
  <1>1. CASE i <= Len(h)
    <2>1. i \in 1..Len(h) /\ Drops(h, i)
      BY <1>0, <1>1 DEF IsConcat, Ended
    <2> QED BY <1>0, <2>1, DropsInFront DEF Drops
  <1>2. CASE i > Len(h)
    <2> DEFINE d == Len(h)
               n == i - d
    <2>1. n \in 1..Len(t) /\ n + d = i /\ d \in Nat
      BY <1>0, <1>2
    <2>2. t[n].kind \in Openers
      BY <2>1 DEF IsConcat
    <2>3. PICK k \in (n + 1)..(Len(t) + 1) : Level(t, n + 1, k) < 0
      BY <2>1, <2>2 DEF Ended, Drops
    <2> DEFINE a == n + 1
               b == i + 1
               e == k + d
    <2>4. /\ a \in Nat /\ k \in Nat /\ b \in Nat /\ e \in Nat /\ a <= k
          /\ b - a = e - k /\ b - a = d /\ e \in b..(Len(u) + 1)
      BY <1>0, <2>1
    <2>5. Same(t, a, k, u, b)
      BY <1>0, <2>1, <2>4 DEF IsConcat, Same
    <2> HIDE DEF a, b, e, n, d
    <2>6. Level(u, b, e) = Level(t, a, k)
      BY <2>4, <2>5, LevelMove
    <2>7. e \in (i + 1)..(Len(u) + 1) /\ Level(u, i + 1, e) < 0
      BY <2>3, <2>4, <2>6 DEF a, b
    <2> QED BY <2>7 DEF Drops
  <1> QED BY <1>0, <1>1, <1>2

\* A chain that begins in h ends there; one that begins behind it is one of t.
LEMMA ConcatChainFront ==
    ASSUME NEW u, NEW h, NEW t, IsConcat(u, h, t), Ended(h),
           NEW i \in 1..Len(h), u[i].kind \in Openers,
           NEW l \in (i + 1)..Len(u), NEW K, InChain(u, i, l, K)
    PROVE  l \in (i + 1)..Len(h) /\ InChain(h, i, l, K)
  <1>0. Len(h) \in Nat /\ Len(t) \in Nat /\ Len(u) = Len(h) + Len(t)
    BY DEF IsConcat
  <1>1. Drops(h, i)
    BY DEF IsConcat, Ended
  <1>2. PICK n \in (i + 1)..(Len(h) + 1) : Level(u, i + 1, n) < 0
    BY <1>1, DropsInFront
  <1>3. \A x \in (i + 1)..l : Level(u, i + 1, x) >= 0
    BY DEF InChain
  <1>4. l <= Len(h)
    <2>1. ASSUME n \in (i + 1)..l PROVE FALSE
      <3>1. Level(u, i + 1, n) >= 0
        BY <1>3, <2>1
      <3>2. Level(u, i + 1, n) \in Int
        <4>1. i + 1 \in Nat /\ n \in Nat /\ i + 1 <= n
          BY <1>0, <2>1
        <4> QED BY <4>1, LevelNext
      <3> QED BY <1>2, <3>1, <3>2
    <2> QED BY <1>0, <1>2, <2>1
  <1>5. /\ i \in Nat /\ l \in Nat /\ i < l /\ i + 0 \in Nat /\ 0 \in Int
        /\ i + 0 = i /\ l + 0 = l
    BY <1>0
  <1>6. \A m \in (i + 1)..l : h[m + 0] = u[m]
    BY <1>0, <1>4 DEF IsConcat
  <1>7. InChain(h, i + 0, l + 0, K)
    BY <1>5, <1>6, ChainShift
  <1> QED BY <1>0, <1>4, <1>5, <1>7

LEMMA ConcatChainBehind ==
    ASSUME NEW u, NEW h, NEW t, IsConcat(u, h, t),
           NEW i \in 1..Len(u), i > Len(h),
           NEW l \in (i + 1)..Len(u), NEW K, InChain(u, i, l, K)
    PROVE  /\ i - Len(h) \in 1..Len(t) /\ l - Len(h) \in ((i - Len(h)) + 1)..Len(t)
           /\ u[i] = t[i - Len(h)] /\ InChain(t, i - Len(h), l - Len(h), K)
  <1> DEFINE d == Len(h)
  <1>0. /\ d \in Nat /\ Len(t) \in Nat /\ Len(u) = d + Len(t)
        /\ \A x \in 1..Len(t) : u[x + d] = t[x]
    BY DEF IsConcat
  <1>1. i > d
    OBVIOUS
  <1> HIDE DEF d
  <1>2. i \in Nat /\ l \in Nat /\ i < l /\ i + (-d) \in Nat /\ -d \in Int
    BY <1>0, <1>1
  <1>3. \A m \in (i + 1)..l : m - d \in 1..Len(t) /\ (m - d) + d = m /\ m + (-d) = m - d
    BY <1>0, <1>1
  <1>4. \A m \in (i + 1)..l : t[m + (-d)] = u[m]
    BY <1>0, <1>3
  <1>5. InChain(t, i + (-d), l + (-d), K)
    BY <1>2, <1>4, ChainShift
  <1>6. i + (-d) = i - d /\ l + (-d) = l - d
    BY <1>0
  <1>7. /\ i - d \in 1..Len(t) /\ (i - d) + d = i /\ l - d \in ((i - d) + 1)..Len(t)
    BY <1>0, <1>1
  <1>8. u[i] = t[i - d]
    BY <1>0, <1>7
  <1> QED BY <1>5, <1>6, <1>7, <1>8 DEF d

LEMMA ConcatBounds ==
    ASSUME NEW u, NEW h, NEW t, IsConcat(u, h, t)
    PROVE  /\ Len(h) \in Nat /\ Len(t) \in Nat /\ Len(u) = Len(h) + Len(t)
           /\ DOMAIN h = 1..Len(h) /\ DOMAIN t = 1..Len(t) /\ DOMAIN u = 1..Len(u)
           /\ \A i \in 1..Len(h) : u[i] = h[i]
  BY LenProperties DEF IsConcat

LEMMA ConcatShort ==
    ASSUME NEW u, NEW h, NEW t, IsConcat(u, h, t), Ended(h), Short(h), Short(t)
    PROVE  Short(u)
  <1>0. /\ Len(h) \in Nat /\ Len(t) \in Nat /\ Len(u) = Len(h) + Len(t)
        /\ DOMAIN h = 1..Len(h) /\ DOMAIN t = 1..Len(t) /\ DOMAIN u = 1..Len(u)
        /\ \A i \in 1..Len(h) : u[i] = h[i]
    BY ConcatBounds
  <1> SUFFICES ASSUME NEW i \in 1..Len(u), u[i].kind \in IfKinds,
                      NEW j \in (i + 1)..Len(u), NEW k \in (i + 1)..Len(u),
                      NEW l \in (i + 1)..Len(u), j < k, k < l,
                      ElifOf(u, i, j), ElifOf(u, i, k), ElifOf(u, i, l)
               PROVE  FALSE
    BY <1>0 DEF Short
  <1>1. CASE i <= Len(h)
    <2>1. i \in 1..Len(h) /\ h[i].kind \in IfKinds /\ u[i].kind \in Openers
      BY <1>0, <1>1 DEF Openers
    <2>2. \A n \in {j, k, l} : n \in (i + 1)..Len(h) /\ ElifOf(h, i, n)
      BY <2>1, ConcatChainFront DEF ElifOf
    <2> QED BY <1>0, <2>1, <2>2 DEF Short
  <1>2. CASE i > Len(h)
    <2> DEFINE d == Len(h)
    <2>1. /\ i - d \in 1..Len(t) /\ u[i] = t[i - d]
          /\ \A n \in {j, k, l} : n - d \in ((i - d) + 1)..Len(t) /\ ElifOf(t, i - d, n - d)
      BY <1>2, ConcatChainBehind DEF ElifOf
    <2>2. j - d < k - d /\ k - d < l - d
      BY <1>0
    <2> HIDE DEF d
    <2> QED BY <1>0, <2>1, <2>2 DEF Short
  <1> QED BY <1>0, <1>1, <1>2

LEMMA ConcatElseLast ==
    ASSUME NEW u, NEW h, NEW t, IsConcat(u, h, t), Ended(h), ElseLast(h), ElseLast(t)
    PROVE  ElseLast(u)
  <1>0. /\ Len(h) \in Nat /\ Len(t) \in Nat /\ Len(u) = Len(h) + Len(t)
        /\ DOMAIN h = 1..Len(h) /\ DOMAIN t = 1..Len(t) /\ DOMAIN u = 1..Len(u)
        /\ \A i \in 1..Len(h) : u[i] = h[i]
    BY ConcatBounds
  <1> DEFINE E == {"else"}
             F == {"elif", "else"}
  <1> HIDE DEF E, F
  <1> SUFFICES ASSUME NEW i \in 1..Len(u), u[i].kind \in IfKinds,
                      NEW j \in (i + 1)..Len(u), NEW k \in (i + 1)..Len(u), j < k,
                      InChain(u, i, j, E), InChain(u, i, k, F)
               PROVE  FALSE
    BY <1>0 DEF ElseLast, E, F
  <1>1. CASE i <= Len(h)
    <2>1. i \in 1..Len(h) /\ h[i].kind \in IfKinds /\ u[i].kind \in Openers
      BY <1>0, <1>1 DEF Openers
    <2>2. /\ j \in (i + 1)..Len(h) /\ k \in (i + 1)..Len(h)
          /\ InChain(h, i, j, E) /\ InChain(h, i, k, F)
      BY <2>1, ConcatChainFront
    <2> QED BY <1>0, <2>1, <2>2 DEF ElseLast, E, F
  <1>2. CASE i > Len(h)
    <2> DEFINE d == Len(h)
    <2>1. /\ i - d \in 1..Len(t) /\ u[i] = t[i - d]
          /\ j - d \in ((i - d) + 1)..Len(t) /\ k - d \in ((i - d) + 1)..Len(t)
          /\ InChain(t, i - d, j - d, E) /\ InChain(t, i - d, k - d, F)
      BY <1>2, ConcatChainBehind
    <2>2. j - d < k - d
      BY <1>0
    <2> HIDE DEF d
    <2> QED BY <1>0, <2>1, <2>2 DEF ElseLast, E, F
  <1> QED BY <1>0, <1>1, <1>2

\* t is what is left of s when the group that line a begins is removed, up to
\* line b.
IsCut(t, s, a, b) ==
    /\ s \in Seq(Lines) /\ t \in Seq(Lines)
    /\ a \in 1..Len(s) /\ b \in (a + 1)..Len(s)
    /\ Len(s) = Len(t) + (b - (a + 1))
    /\ \A i \in 1..a : t[i] = s[i]
    /\ \A i \in (a + 1)..Len(t) : t[i] = s[i + (b - (a + 1))]
    /\ Level(s, a + 1, b) = 0
    /\ \A k \in (a + 1)..b : Level(s, a + 1, k) >= 0

LEMMA CutBounds ==
    ASSUME NEW s, NEW t, NEW a, NEW b, IsCut(t, s, a, b)
    PROVE  /\ Len(s) \in Nat /\ Len(t) \in Nat /\ a \in Nat \ {0} /\ b \in Nat
           /\ a < b /\ a < Len(t) /\ b <= Len(s) /\ Len(s) = Len(t) + (b - (a + 1))
           /\ DOMAIN s = 1..Len(s) /\ DOMAIN t = 1..Len(t)
  BY LenProperties DEF IsCut

\* The level up to line k is the same if both are before the group, or both behind
\* it, or one is before it and one behind.
LEMMA CutBefore ==
    ASSUME NEW s, NEW t, NEW a, NEW b, IsCut(t, s, a, b),
           NEW i \in Nat \ {0}, NEW k \in i..(a + 1)
    PROVE  Level(t, i, k) = Level(s, i, k)
  <1>1. a \in Nat \ {0} /\ b \in Nat /\ k \in Nat /\ i <= k /\ i - i = k - k
    BY CutBounds
  <1>2. \A j \in i..(k - 1) : j + (i - i) = j /\ j \in 1..a
    BY <1>1
  <1>3. Same(s, i, k, t, i)
    BY <1>2 DEF Same, IsCut
  <1> QED BY <1>1, <1>3, LevelMove

LEMMA CutBehind ==
    ASSUME NEW s, NEW t, NEW a, NEW b, IsCut(t, s, a, b),
           NEW i \in Nat, a + 1 <= i, NEW k \in i..(Len(t) + 1)
    PROVE  Level(s, i + (b - (a + 1)), k + (b - (a + 1))) = Level(t, i, k)
  <1> DEFINE d == b - (a + 1)
             x == i + d
             y == k + d
  <1>1. /\ a \in Nat \ {0} /\ b \in Nat /\ k \in Nat /\ i <= k
        /\ x \in Nat /\ y \in Nat /\ x - i = y - k /\ x - i = d
    BY CutBounds
  <1>2. \A j \in i..(k - 1) : j \in (a + 1)..Len(t)
    BY <1>1, CutBounds
  <1>3. \A j \in (a + 1)..Len(t) : t[j] = s[j + d]
    BY DEF IsCut
  <1> HIDE DEF x, y, d
  <1>4. Same(t, i, k, s, x)
    BY <1>1, <1>2, <1>3 DEF Same
  <1>5. Level(s, x, y) = Level(t, i, k)
    BY <1>1, <1>4, LevelMove
  <1> QED BY <1>5 DEF x, y, d

LEMMA CutAcross ==
    ASSUME NEW s, NEW t, NEW a, NEW b, IsCut(t, s, a, b),
           NEW i \in 1..(a + 1), NEW k \in (a + 1)..(Len(t) + 1)
    PROVE  Level(s, i, k + (b - (a + 1))) = Level(t, i, k)
  <1> DEFINE n == a + 1
             d == b - (a + 1)
             y == k + d
  <1>1. /\ a \in Nat /\ b \in Nat /\ n \in Nat /\ i \in Nat /\ i \in Nat \ {0} /\ k \in Nat /\ y \in Nat
        /\ n <= b /\ i <= n /\ n <= k /\ b <= y /\ n + d = b /\ n \in i..(a + 1)
        /\ n \in n..(Len(t) + 1) /\ k \in n..(Len(t) + 1) /\ a + 1 <= n /\ i <= b
    BY CutBounds
  <1>2. Level(s, n, b) = 0
    BY DEF IsCut
  <1> HIDE DEF n
  <1>3. Level(s, n + d, y) = Level(t, n, k)
    BY <1>1, CutBehind
  <1>4. Level(t, i, n) = Level(s, i, n)
    BY <1>1, CutBefore
  <1> HIDE DEF d, y
  <1>5. Level(t, i, k) = Level(t, i, n) + Level(t, n, k)
    BY <1>1, LevelSplit
  <1>6. Level(s, i, y) = Level(s, i, b) + Level(s, b, y)
    BY <1>1, LevelSplit
  <1>7. Level(s, i, b) = Level(s, i, n) + Level(s, n, b)
    BY <1>1, LevelSplit
  <1>8. Level(s, i, n) \in Int
    BY <1>1, LevelNext
  <1>9. Level(s, i, y) = Level(t, i, k)
    BY <1>1, <1>2, <1>3, <1>4, <1>5, <1>6, <1>7, <1>8
  <1> QED BY <1>9 DEF y, d, n

LEMMA CutEnded ==
    ASSUME NEW s, NEW t, NEW a, NEW b, IsCut(t, s, a, b), Ended(s)
    PROVE  Ended(t)
  <1> DEFINE d == b - (a + 1)
  <1>0. /\ Len(s) \in Nat /\ Len(t) \in Nat /\ a \in Nat \ {0} /\ b \in Nat /\ d \in Nat
        /\ a < b /\ a < Len(t) /\ b <= Len(s) /\ Len(s) = Len(t) + d
    BY CutBounds
  <1> SUFFICES ASSUME NEW i \in 1..Len(t), t[i].kind \in Openers
               PROVE  Drops(t, i)
    BY DEF Ended
  <1>1. CASE i > a
    <2> DEFINE e == i + d
    <2>1. e \in 1..Len(s) /\ s[e] = t[i]
      BY <1>0, <1>1 DEF IsCut
    <2>2. PICK k \in (e + 1)..(Len(s) + 1) : Level(s, e + 1, k) < 0
      BY <2>1 DEF Ended, Drops
    <2> DEFINE n == i + 1
               m == k - d
    <2>3. /\ n \in Nat /\ a + 1 <= n /\ m \in n..(Len(t) + 1)
          /\ n + d = e + 1 /\ m + d = k
      BY <1>0, <1>1
    <2> HIDE DEF m, n, e
    <2>4. Level(s, n + d, m + d) = Level(t, n, m)
      BY <2>3, CutBehind
    <2>5. m \in (i + 1)..(Len(t) + 1) /\ Level(t, i + 1, m) < 0
      BY <2>2, <2>3, <2>4 DEF n
    <2> QED BY <2>5 DEF Drops
  <1>2. CASE i <= a
    <2> DEFINE n == i + 1
               x == a + 1
    <2>1. i \in 1..Len(s) /\ s[i] = t[i]
      BY <1>0, <1>2 DEF IsCut
    <2>2. PICK k \in (i + 1)..(Len(s) + 1) : Level(s, i + 1, k) < 0
      BY <2>1 DEF Ended, Drops
    <2>3. n \in Nat \ {0} /\ n \in 1..(a + 1) /\ x \in Nat /\ n <= x /\ k \in Nat /\ x \in n..(a + 1)
      BY <1>0, <1>2
    <2>4. CASE k <= a + 1
      <3>1. k \in n..(a + 1)
        BY <2>4
      <3> HIDE DEF n
      <3>2. Level(t, n, k) = Level(s, n, k)
        BY <2>3, <3>1, CutBefore
      <3>3. k \in (i + 1)..(Len(t) + 1) /\ Level(t, i + 1, k) < 0
        BY <1>0, <2>2, <2>4, <3>2 DEF n
      <3> QED BY <3>3 DEF Drops
    <2>5. CASE a + 1 < k /\ k < b
      <3>1. Level(s, x, k) >= 0
        BY <1>0, <2>5 DEF IsCut
      <3>2. x <= k
        BY <1>0, <2>5
      <3> HIDE DEF n, x
      <3>3. Level(s, n, k) = Level(s, n, x) + Level(s, x, k)
        BY <2>3, <3>2, LevelSplit
      <3>4. Level(s, n, x) \in Int
        BY <2>3, LevelNext
      <3>5. Level(s, x, k) \in Int
        BY <2>3, <3>2, LevelNext
      <3>6. Level(s, n, x) < 0
        BY <2>2, <3>1, <3>3, <3>4, <3>5 DEF n
      <3>7. Level(t, n, x) = Level(s, n, x)
        BY <2>3, CutBefore
      <3>8. x \in (i + 1)..(Len(t) + 1) /\ Level(t, i + 1, x) < 0
        BY <1>0, <2>3, <3>6, <3>7 DEF n, x
      <3> QED BY <3>8 DEF Drops
    <2>6. CASE b <= k
      <3> DEFINE m == k - d
      <3>1. m \in (a + 1)..(Len(t) + 1) /\ m + d = k /\ m \in (i + 1)..(Len(t) + 1)
        BY <1>0, <1>2, <2>6
      <3> HIDE DEF m, n
      <3>2. Level(s, n, m + d) = Level(t, n, m)
        BY <2>3, <3>1, CutAcross
      <3>3. Level(t, i + 1, m) < 0
        BY <2>2, <3>1, <3>2 DEF n
      <3> QED BY <3>1, <3>3 DEF Drops
    <2> QED BY <1>0, <2>3, <2>4, <2>5, <2>6
  <1> QED BY <1>0, <1>1, <1>2

\* The lines of t that are #elifs of a chain were in one chain of s.
LEMMA CutChain ==
    ASSUME NEW s, NEW t, NEW a, NEW b, IsCut(t, s, a, b),
           NEW i \in 1..Len(t), NEW j \in (i + 1)..Len(t), NEW K, InChain(t, i, j, K)
    PROVE  InChain(s, IF i <= a THEN i ELSE i + (b - (a + 1)),
                      IF j <= a THEN j ELSE j + (b - (a + 1)), K)
  <1> DEFINE d == b - (a + 1)
             n == i + 1
             x == a + 1
  <1>0. /\ Len(s) \in Nat /\ Len(t) \in Nat /\ a \in Nat \ {0} /\ b \in Nat /\ d \in Nat
        /\ a < b /\ a < Len(t) /\ b <= Len(s) /\ Len(s) = Len(t) + d /\ x \in Nat /\ x + d = b
        /\ i \in Nat /\ n \in Nat \ {0} /\ j \in Nat /\ i < j
    BY CutBounds
  <1>1. /\ t[j].kind \in K /\ Level(t, n, j) = 0
        /\ \A k \in n..j : Level(t, n, k) >= 0
    BY DEF InChain
  <1>2. CASE i > a
    <2>1. i + d \in Nat /\ d \in Int
      BY <1>0
    <2>2. \A m \in (i + 1)..j : m \in (a + 1)..Len(t)
      BY <1>0, <1>2
    <2>3. \A m \in (i + 1)..j : s[m + d] = t[m]
      BY <2>2 DEF IsCut
    <2> HIDE DEF d
    <2>4. InChain(s, i + d, j + d, K)
      BY <1>0, <2>1, <2>3, ChainShift
    <2>5. ~(i <= a) /\ ~(j <= a)
      BY <1>0, <1>2
    <2> QED BY <2>4, <2>5 DEF d
  <1>3. CASE i <= a /\ j <= a
    <2>1. n \in Nat \ {0} /\ s[j] = t[j] /\ \A k \in n..j : k \in n..(a + 1)
      BY <1>0, <1>3 DEF IsCut
    <2> HIDE DEF n
    <2>2. \A k \in n..j : Level(s, n, k) = Level(t, n, k)
      BY <2>1, CutBefore
    <2>3. j \in n..j
      BY <1>0, <1>3 DEF n
    <2>4. /\ s[j].kind \in K /\ Level(s, n, j) = 0
          /\ \A k \in n..j : Level(s, n, k) >= 0
      BY <1>1, <2>1, <2>2, <2>3
    <2> QED BY <1>3, <2>4 DEF InChain, n
  <1>4. CASE i <= a /\ j > a
    <2> DEFINE e == j + d
    <2>1. /\ n \in 1..(a + 1) /\ j \in (a + 1)..(Len(t) + 1) /\ j \in (a + 1)..Len(t)
          /\ x \in n..j /\ x \in n..(a + 1) /\ n <= x
      BY <1>0, <1>4
    <2>2. s[e] = t[j]
      BY <2>1 DEF IsCut
    <2>3. Level(s, n, e) = 0
      <3> HIDE DEF n
      <3>1. Level(s, n, j + d) = Level(t, n, j)
        BY <2>1, CutAcross
      <3> QED BY <1>1, <3>1
    <2>4. ASSUME NEW k \in n..e
          PROVE  Level(s, n, k) >= 0
      <3>1. CASE k <= a + 1
        <4>1. k \in n..(a + 1) /\ k \in n..j
          BY <1>0, <1>4, <3>1
        <4> HIDE DEF n
        <4>2. Level(s, n, k) = Level(t, n, k)
          BY <1>0, <4>1, CutBefore
        <4> QED BY <1>1, <4>1, <4>2
      <3>2. CASE a + 1 < k /\ k < b
        <4>1. Level(s, x, k) >= 0
          BY <1>0, <3>2 DEF IsCut
        <4>2. Level(t, n, x) >= 0 /\ Level(t, n, x) = Level(s, n, x)
          <5> HIDE DEF n, x
          <5> QED BY <1>0, <1>1, <2>1, CutBefore
        <4>3. x <= k /\ k \in Nat
          BY <1>0, <3>2
        <4> HIDE DEF n, x
        <4>4. Level(s, n, k) = Level(s, n, x) + Level(s, x, k)
          BY <1>0, <2>1, <4>3, LevelSplit
        <4>5. Level(s, n, x) \in Int
          BY <1>0, <2>1, LevelNext
        <4>6. Level(s, x, k) \in Int
          BY <1>0, <4>3, LevelNext
        <4> QED BY <4>1, <4>2, <4>4, <4>5, <4>6
      <3>3. CASE b <= k
        <4> DEFINE m == k - d
        <4>1. m \in (a + 1)..(Len(t) + 1) /\ m + d = k /\ m \in n..j
          BY <1>0, <1>4, <3>3
        <4> HIDE DEF m, n
        <4>2. Level(s, n, m + d) = Level(t, n, m)
          BY <2>1, <4>1, CutAcross
        <4> QED BY <1>1, <4>1, <4>2
      <3> QED BY <1>0, <3>1, <3>2, <3>3
    <2>5. InChain(s, i, e, K)
      BY <1>1, <2>2, <2>3, <2>4 DEF InChain
    <2>6. ~(j <= a)
      BY <1>0, <1>4
    <2> QED BY <1>4, <2>5, <2>6
  <1> QED BY <1>0, <1>2, <1>3, <1>4

\* Where line n of t was in s.
InUncut(n, a, b) == IF n <= a THEN n ELSE n + (b - (a + 1))

LEMMA UncutFacts ==
    ASSUME NEW s, NEW t, NEW a, NEW b, IsCut(t, s, a, b)
    PROVE  \A i \in 1..Len(t) :
               /\ InUncut(i, a, b) \in 1..Len(s) /\ s[InUncut(i, a, b)] = t[i]
               /\ \A j \in (i + 1)..Len(t) : InUncut(i, a, b) < InUncut(j, a, b)
  <1>0. /\ Len(s) \in Nat /\ Len(t) \in Nat /\ a \in Nat \ {0} /\ b \in Nat
        /\ a < b /\ a < Len(t) /\ b <= Len(s) /\ Len(s) = Len(t) + (b - (a + 1))
    BY CutBounds
  <1> SUFFICES ASSUME NEW i \in 1..Len(t)
               PROVE  /\ InUncut(i, a, b) \in 1..Len(s) /\ s[InUncut(i, a, b)] = t[i]
                      /\ \A j \in (i + 1)..Len(t) : InUncut(i, a, b) < InUncut(j, a, b)
    OBVIOUS
  <1>1. CASE i <= a
    <2>1. i \in 1..a /\ InUncut(i, a, b) = i
      BY <1>0, <1>1 DEF InUncut
    <2> QED BY <1>0, <2>1 DEF IsCut, InUncut
  <1>2. CASE i > a
    <2>1. i \in (a + 1)..Len(t) /\ InUncut(i, a, b) = i + (b - (a + 1))
      BY <1>0, <1>2 DEF InUncut
    <2> QED BY <1>0, <1>2, <2>1 DEF IsCut, InUncut
  <1> QED BY <1>0, <1>1, <1>2

LEMMA CutShort ==
    ASSUME NEW s, NEW t, NEW a, NEW b, IsCut(t, s, a, b), Short(s)
    PROVE  Short(t)
  <1> DEFINE in_s(n) == InUncut(n, a, b)
  <1>0. Len(s) \in Nat /\ Len(t) \in Nat /\ DOMAIN s = 1..Len(s) /\ DOMAIN t = 1..Len(t)
    BY CutBounds
  <1> SUFFICES ASSUME NEW i \in 1..Len(t), t[i].kind \in IfKinds,
                      NEW j \in (i + 1)..Len(t), NEW k \in (i + 1)..Len(t),
                      NEW l \in (i + 1)..Len(t), j < k, k < l,
                      ElifOf(t, i, j), ElifOf(t, i, k), ElifOf(t, i, l)
               PROVE  FALSE
    BY <1>0 DEF Short
  <1>1. \A n \in {j, k, l} : ElifOf(s, in_s(i), in_s(n))
    BY CutChain DEF ElifOf, InUncut
  <1>2. /\ in_s(i) \in 1..Len(s) /\ s[in_s(i)] = t[i]
        /\ \A n \in {j, k, l} : in_s(n) \in 1..Len(s) /\ in_s(i) < in_s(n)
        /\ in_s(j) < in_s(k) /\ in_s(k) < in_s(l)
    <2>1. \A n \in {j, k, l} : n \in 1..Len(t)
      BY <1>0
    <2>2. k \in (j + 1)..Len(t) /\ l \in (k + 1)..Len(t)
      BY <1>0
    <2> QED BY <2>1, <2>2, UncutFacts
  <1> HIDE DEF in_s
  <1>3. \A n \in {j, k, l} : in_s(n) \in (in_s(i) + 1)..Len(s)
    BY <1>0, <1>2
  <1> QED BY <1>0, <1>1, <1>2, <1>3 DEF Short

LEMMA CutElseLast ==
    ASSUME NEW s, NEW t, NEW a, NEW b, IsCut(t, s, a, b), ElseLast(s)
    PROVE  ElseLast(t)
  <1> DEFINE in_s(n) == InUncut(n, a, b)
             E == {"else"}
             F == {"elif", "else"}
  <1> HIDE DEF E, F
  <1>0. Len(s) \in Nat /\ Len(t) \in Nat /\ DOMAIN s = 1..Len(s) /\ DOMAIN t = 1..Len(t)
    BY CutBounds
  <1> SUFFICES ASSUME NEW i \in 1..Len(t), t[i].kind \in IfKinds,
                      NEW j \in (i + 1)..Len(t), NEW k \in (i + 1)..Len(t), j < k,
                      InChain(t, i, j, E), InChain(t, i, k, F)
               PROVE  FALSE
    BY <1>0 DEF ElseLast, E, F
  <1>1. InChain(s, in_s(i), in_s(j), E) /\ InChain(s, in_s(i), in_s(k), F)
    BY CutChain DEF InUncut
  <1>2. /\ in_s(i) \in 1..Len(s) /\ s[in_s(i)] = t[i] /\ in_s(i) < in_s(j) /\ in_s(i) < in_s(k)
        /\ in_s(j) \in 1..Len(s) /\ in_s(k) \in 1..Len(s) /\ in_s(j) < in_s(k)
    <2>1. j \in 1..Len(t) /\ k \in 1..Len(t) /\ k \in (j + 1)..Len(t)
      BY <1>0
    <2> QED BY <2>1, UncutFacts
  <1> HIDE DEF in_s
  <1>3. in_s(j) \in (in_s(i) + 1)..Len(s) /\ in_s(k) \in (in_s(i) + 1)..Len(s)
    BY <1>0, <1>2
  <1> QED BY <1>0, <1>1, <1>2, <1>3 DEF ElseLast, E, F

-----------------------------------------------------------------------------
(* The invariants *)

\* handle_if_directives is at a line of the chain that the first line begins.
Position ==
    pc = "groups" => /\ at \in 1..Len(rest)
                     /\ rest[1].kind \in IfKinds
                     /\ rest[at].kind \in Openers \cup {"endif"}

TInv == TypeOK /\ rest \in Seq(Lines) /\ Position

\* Of whole files: what is ahead is ended, wherever the loop is.
FInv == TInv /\ Ended(rest) /\ pc # "crash"

\* One #elif behind the #if is remembered by cond, and an earlier one is not.
Memory ==
    pc = "groups" =>
        /\ at > 1 => /\ rest[at].kind \notin IfKinds
                     /\ Level(rest, 2, at) = 0
                     /\ \A k \in 2..at : Level(rest, 2, k) >= 0
        /\ any_cond_true => if_cond \/ \E j \in 2..(at - 1) : ElifOf(rest, 1, j)
        /\ any_cond_true => \/ if_cond \/ cond
                            \/ \E j, k \in 2..(at - 1) : j < k /\ ElifOf(rest, 1, j) /\ ElifOf(rest, 1, k)

CInv == FInv /\ Short(rest) /\ Memory

AllTerminated == \A f \in Files : Terminated(f)
AllClosed     == \A f \in Files : Closed(f)
AllShort      == \A f \in Files : Short(f)

-----------------------------------------------------------------------------
(* The lines ahead *)

LEMMA LineFacts ==
    ASSUME TInv, rest # <<>>
    PROVE  rest[1] \in Lines /\ Len(rest) \in Nat \ {0}
  <1>1. rest \in Seq(Lines) /\ Len(rest) \in Nat \ {0}
    BY EmptySeq DEF TInv
  <1>2. rest[1] \in Lines
    BY <1>1, ElementOfSeq
  <1> QED BY <1>1, <1>2

\* A directive ends with its line.
LEMMA DirectivesEnd ==
    ASSUME AllTerminated, NEW l \in Lines, l.kind # "text"
    PROVE  l.eol
  <1>1. PICK f \in Files : l \in Range(f)
    BY DEF Lines
  <1>2. f \in Seq(Lines) /\ Terminated(f)
    BY FilesAssumption DEF AllTerminated
  <1>3. PICK i \in DOMAIN f : l = f[i]
    BY <1>1 DEF Range
  <1> QED BY <1>2, <1>3 DEF Terminated

LEMMA SuffixFacts ==
    ASSUME NEW s \in Seq(Lines), NEW d \in 0..Len(s)
    PROVE  IsSuffix(SubSeq(s, d + 1, Len(s)), s, d)
  <1> DEFINE m == d + 1
             n == Len(s)
             t == SubSeq(s, m, n)
  <1>1. n \in Nat /\ d \in Nat /\ m \in Int /\ n \in Int
    OBVIOUS
  <1>2. \A i \in m..n : i \in 1..Len(s)
    BY <1>1
  <1>3. \A i \in m..n : s[i] \in Lines
    BY <1>2, ElementOfSeq
  <1>4. /\ t \in Seq(Lines) /\ Len(t) = IF m <= n THEN n - m + 1 ELSE 0
        /\ \A i \in 1..(n - m + 1) : t[i] = s[m + i - 1]
    <2> HIDE DEF m, n
    <2> QED BY <1>1, <1>3, SubSeqProperties
  <1>5. Len(t) = n - d
    BY <1>1, <1>4
  <1>6. \A i \in 1..(n - d) : i \in 1..(n - m + 1) /\ m + i - 1 = i + d
    BY <1>1
  <1>7. \A i \in 1..(n - d) : t[i] = s[i + d]
    BY <1>4, <1>6
  <1> HIDE DEF t, m
  <1>8. Len(s) = Len(t) + d /\ \A i \in 1..Len(t) : t[i] = s[i + d]
    BY <1>1, <1>5, <1>7
  <1> QED BY <1>1, <1>4, <1>8 DEF IsSuffix, t, m

LEMMA RemoveFacts ==
    ASSUME NEW s \in Seq(Lines), s # <<>>, RemoveDirective(s)
    PROVE  /\ pc' \in {"lines", "crash"} /\ rest' \in Seq(Lines)
           /\ s[1].eol => pc' = "lines" /\ IsSuffix(rest', s, 1)
  <1> DEFINE E == DirectiveEnd(s)
  <1>1. Len(s) \in Nat \ {0} /\ E \subseteq 1..Len(s)
    BY EmptySeq DEF DirectiveEnd
  <1>2. s[1].eol => 1 \in E
    BY <1>1 DEF DirectiveEnd
  <1>3. \/ E = {} /\ pc' = "crash" /\ rest' = <<>>
        \/ E # {} /\ pc' = "lines" /\ rest' = SubSeq(s, Min(E) + 1, Len(s))
    BY DEF RemoveDirective
  <1> HIDE DEF E
  <1>4. CASE E = {}
    BY <1>2, <1>3, <1>4, EmptySeq
  <1>5. CASE E # {}
    <2> DEFINE m == Min(E)
    <2>0. E \subseteq Nat
      BY <1>1
    <2>1. m \in E /\ \A e \in E : m <= e
      BY <1>5, <2>0, MinOfNaturals
    <2>2. pc' = "lines" /\ rest' = SubSeq(s, m + 1, Len(s))
      BY <1>3, <1>5
    <2> HIDE DEF m
    <2>3. m \in 1..Len(s) /\ m \in 0..Len(s)
      BY <1>1, <2>1
    <2>4. IsSuffix(rest', s, m)
      BY <2>2, <2>3, SuffixFacts
    <2>5. s[1].eol => m = 1
      BY <1>1, <1>2, <2>1, <2>3
    <2> QED BY <2>2, <2>4, <2>5 DEF IsSuffix
  <1> QED BY <1>4, <1>5

LEMMA ConcatFacts ==
    ASSUME NEW h \in Seq(Lines), NEW t \in Seq(Lines)
    PROVE  IsConcat(h \o t, h, t)
  <1> DEFINE u == h \o t
  <1>1. /\ u \in Seq(Lines) /\ Len(u) = Len(h) + Len(t) /\ Len(h) \in Nat /\ Len(t) \in Nat
        /\ \A i \in 1..(Len(h) + Len(t)) : u[i] = IF i <= Len(h) THEN h[i] ELSE t[i - Len(h)]
    BY ConcatProperties
  <1> HIDE DEF u
  <1>2. \A i \in 1..Len(h) : u[i] = h[i]
    BY <1>1
  <1>3. ASSUME NEW i \in 1..Len(t)
        PROVE  u[i + Len(h)] = t[i]
    <2>1. /\ i + Len(h) \in 1..(Len(h) + Len(t)) /\ ~(i + Len(h) <= Len(h))
          /\ (i + Len(h)) - Len(h) = i
      BY <1>1
    <2> QED BY <1>1, <2>1
  <1>4. IsConcat(u, h, t)
    BY <1>1, <1>2, <1>3 DEF IsConcat
  <1> QED BY <1>4 DEF u

LEMMA CutFacts ==
    ASSUME NEW s \in Seq(Lines), NEW a \in 1..Len(s), NEW b \in (a + 1)..Len(s),
           Level(s, a + 1, b) = 0, \A k \in (a + 1)..b : Level(s, a + 1, k) >= 0
    PROVE  IsCut(SubSeq(s, 1, a) \o SubSeq(s, b, Len(s)), s, a, b)
  <1> DEFINE n == Len(s)
             x == SubSeq(s, 1, a)
             y == SubSeq(s, b, n)
             t == x \o y
  <1>1. n \in Nat /\ a \in Nat /\ b \in Nat /\ 1 <= a /\ a < b /\ b <= n
    OBVIOUS
  <1>2. \A i \in 1..n : s[i] \in Lines
    BY ElementOfSeq
  <1> HIDE DEF n
  <1>3. /\ x \in Seq(Lines) /\ Len(x) = a
        /\ \A i \in 1..a : x[i] = s[i]
    <2>1. /\ x \in Seq(Lines) /\ Len(x) = IF 1 <= a THEN a - 1 + 1 ELSE 0
          /\ \A i \in 1..(a - 1 + 1) : x[i] = s[1 + i - 1]
      <3>1. \A i \in 1..a : s[i] \in Lines
        BY <1>1, <1>2
      <3> QED BY <1>1, <3>1, SubSeqProperties
    <2> QED BY <1>1, <2>1
  <1>4. /\ y \in Seq(Lines) /\ Len(y) = n - b + 1
        /\ \A i \in 1..(n - b + 1) : y[i] = s[b + i - 1]
    <2>1. \A i \in b..n : s[i] \in Lines
      BY <1>1, <1>2
    <2> QED BY <1>1, <2>1, SubSeqProperties
  <1> HIDE DEF x, y
  <1>5. /\ t \in Seq(Lines) /\ Len(t) = a + (n - b + 1)
        /\ \A i \in 1..(a + (n - b + 1)) : t[i] = IF i <= a THEN x[i] ELSE y[i - a]
    <2>1. /\ t \in Seq(Lines) /\ Len(t) = Len(x) + Len(y)
          /\ \A i \in 1..(Len(x) + Len(y)) : t[i] = IF i <= Len(x) THEN x[i] ELSE y[i - Len(x)]
      BY <1>3, <1>4, ConcatProperties
    <2>2. Len(x) = a /\ Len(y) = n - b + 1
      BY <1>3, <1>4
    <2> HIDE DEF t
    <2> QED BY <2>1, <2>2
  <1> HIDE DEF t
  <1>6. n = Len(t) + (b - (a + 1))
    BY <1>1, <1>5
  <1>7. ASSUME NEW i \in 1..a
        PROVE  t[i] = s[i]
    BY <1>1, <1>3, <1>5
  <1>8. ASSUME NEW i \in (a + 1)..Len(t)
        PROVE  t[i] = s[i + (b - (a + 1))]
    <2>1. /\ i \in 1..(a + (n - b + 1)) /\ ~(i <= a) /\ i - a \in 1..(n - b + 1)
          /\ b + (i - a) - 1 = i + (b - (a + 1))
      BY <1>1, <1>5
    <2>2. t[i] = y[i - a]
      BY <1>5, <2>1
    <2>3. y[i - a] = s[b + (i - a) - 1]
      BY <1>4, <2>1
    <2> QED BY <2>1, <2>2, <2>3
  <1>9. IsCut(t, s, a, b)
    BY <1>5, <1>6, <1>7, <1>8 DEF IsCut, n
  <1> QED BY <1>9 DEF t, x, y, n

-----------------------------------------------------------------------------
(* handle_if_directives *)

LEMMA EvaluateIfFacts ==
    ASSUME NEW l
    PROVE  EvaluateIf(l) \in BOOLEAN
  <1>1. CASE l.kind = "ifndef"
    <2>1. EvaluateIf(l) = (macros[l.name] = NoBody)
      BY <1>1 DEF EvaluateIf
    <2> QED BY Zenon, <2>1
  <1>2. CASE l.kind = "ifdef"
    <2>1. EvaluateIf(l) = (macros[l.name] # NoBody)
      BY <1>2 DEF EvaluateIf
    <2> QED BY Zenon, <2>1
  <1>3. CASE l.kind \notin {"ifdef", "ifndef"} /\ l.name = ""
    <2>1. EvaluateIf(l) = (l.body # 0)
      BY <1>3 DEF EvaluateIf
    <2> QED BY Zenon, <2>1
  <1>4. CASE l.kind \notin {"ifdef", "ifndef"} /\ l.name # ""
    <2>1. EvaluateIf(l) = (macros[l.name] # NoBody)
      BY <1>4 DEF EvaluateIf
    <2> QED BY Zenon, <2>1
  <1> QED BY <1>1, <1>2, <1>3, <1>4

LEMMA CondFacts ==
    ASSUME TypeOK
    PROVE  /\ GroupCond \in BOOLEAN /\ AnyTrue \in BOOLEAN
           /\ rest[at].kind = "elif" => /\ GroupCond => ~if_cond /\ ~cond
                                        /\ AnyTrue => any_cond_true \/ GroupCond
           /\ rest[at].kind # "elif" => /\ GroupCond = cond
                                        /\ AnyTrue => any_cond_true
  <1>1. cond \in BOOLEAN
    BY Zenon DEF TypeOK
  <1>2. GroupCond \in BOOLEAN
    <2>1. CASE rest[at].kind = "elif"
      <3>1. GroupCond = (~if_cond /\ ~cond /\ EvaluateIf(ElifExpanded(rest[at])))
        BY <2>1 DEF GroupCond
      <3> QED BY Zenon, <3>1
    <2>2. CASE rest[at].kind # "elif"
      BY <1>1, <2>2 DEF GroupCond
    <2> QED BY <2>1, <2>2
  <1>3. AnyTrue \in BOOLEAN
    BY Zenon DEF AnyTrue
  <1> QED BY <1>2, <1>3 DEF GroupCond, AnyTrue

\* The group ends at the next line of its chain.
LEMMA GroupEndFacts ==
    ASSUME TInv, pc = "groups", GroupEnds # {}
    PROVE  /\ at \in 1..Len(rest) /\ Min(GroupEnds) \in (at + 1)..Len(rest)
           /\ rest[Min(GroupEnds)].kind \in {"elif", "else", "endif"}
           /\ Level(rest, at + 1, Min(GroupEnds)) = 0
           /\ \A k \in (at + 1)..Min(GroupEnds) : Level(rest, at + 1, k) >= 0
  <1> DEFINE E == GroupEnds
             last == Min(E)
             a == at + 1
  <1>1. at \in 1..Len(rest) /\ at \in Nat /\ Len(rest) \in Nat /\ a \in Nat
    BY DEF TInv, Position
  <1>2. E \subseteq (at + 1)..Len(rest) /\ E \subseteq Nat /\ E # {}
    BY <1>1 DEF GroupEnds
  <1>3. last \in E /\ \A e \in E : last <= e
    <2> HIDE DEF E
    <2> QED BY <1>2, MinOfNaturals
  <1> HIDE DEF last
  <1>4. /\ last \in (at + 1)..Len(rest) /\ rest[last].kind \in {"elif", "else", "endif"}
        /\ Level(rest, at + 1, last) = 0
    BY <1>3 DEF GroupEnds
  <1>5. ASSUME NEW k \in a..last
        PROVE  Level(rest, a, k) >= 0
    <2>1. k \in Nat /\ a <= k
      BY <1>1, <1>4
    <2> HIDE DEF a
    <2>2. Level(rest, a, k) \in Int
      BY <1>1, <2>1, LevelNext
    <2>3. ASSUME Level(rest, a, k) < 0 PROVE FALSE
      <3>1. PICK e \in a..(k - 1) : rest[e].kind = "endif" /\ Level(rest, a, e) = 0
        BY <1>1, <2>1, <2>3, FirstDrop
      <3>2. e \in (at + 1)..Len(rest) /\ e < last
        BY <1>1, <1>4, <2>1, <3>1 DEF a
      <3>3. e \in E
        BY <3>1, <3>2 DEF GroupEnds, a
      <3> QED BY <1>1, <1>3, <1>4, <3>2, <3>3
    <2> QED BY <2>2, <2>3
  <1> QED BY <1>1, <1>4, <1>5 DEF last, a

LEMMA GroupEndExists ==
    ASSUME TInv, pc = "groups", Drops(rest, at)
    PROVE  GroupEnds # {}
  <1> DEFINE a == at + 1
  <1>1. at \in 1..Len(rest) /\ at \in Nat /\ Len(rest) \in Nat /\ a \in Nat
    BY DEF TInv, Position
  <1>2. PICK k \in a..(Len(rest) + 1) : Level(rest, a, k) < 0
    BY DEF Drops
  <1>3. k \in Nat /\ a <= k
    BY <1>1
  <1>4. PICK e \in a..(k - 1) : rest[e].kind = "endif" /\ Level(rest, a, e) = 0
    <2> HIDE DEF a
    <2> QED BY <1>1, <1>2, <1>3, FirstDrop
  <1>5. e \in (at + 1)..Len(rest)
    BY <1>1, <1>2, <1>4
  <1>6. e \in GroupEnds
    BY <1>4, <1>5 DEF GroupEnds
  <1> QED BY <1>6

\* A group is left as it is, or cut out.
GroupSteps(last) ==
    /\ at \in 1..Len(rest) /\ last \in (at + 1)..Len(rest)
    /\ rest[last].kind \in {"elif", "else", "endif"}
    /\ Level(rest, at + 1, last) = 0
    /\ \A k \in (at + 1)..last : Level(rest, at + 1, k) >= 0
    /\ pc' = "groups" /\ rest' \in Seq(Lines)
    /\ cond' = GroupCond /\ any_cond_true' = AnyTrue /\ if_cond' = if_cond
    /\ \/ rest' = rest /\ at' = last
       \/ IsCut(rest', rest, at, last) /\ at' = at + 1

LEMMA GroupFacts ==
    ASSUME TInv, Group
    PROVE  \/ GroupEnds # {} /\ GroupSteps(Min(GroupEnds))
           \/ GroupEnds = {} /\ pc' = "crash" /\ UNCHANGED <<rest, chain>>
  <1>1. pc = "groups"
    BY DEF Group
  <1>2. CASE GroupEnds = {}
    BY <1>2 DEF Group
  <1>3. CASE GroupEnds # {}
    <2> DEFINE last == Min(GroupEnds)
               cut == SubSeq(rest, 1, at) \o SubSeq(rest, last, Len(rest))
    <2>1. /\ at \in 1..Len(rest) /\ last \in (at + 1)..Len(rest)
          /\ rest[last].kind \in {"elif", "else", "endif"}
          /\ Level(rest, at + 1, last) = 0
          /\ \A k \in (at + 1)..last : Level(rest, at + 1, k) >= 0
      BY <1>1, <1>3, GroupEndFacts
    <2>2. /\ cond' = GroupCond /\ any_cond_true' = AnyTrue /\ if_cond' = if_cond
          /\ pc' = pc
          /\ rest' = IF Removed THEN cut ELSE rest
          /\ at' = IF Removed THEN at + 1 ELSE last
      BY <1>3 DEF Group
    <2>3. rest \in Seq(Lines)
      BY DEF TInv
    <2> HIDE DEF last
    <2>4. IsCut(cut, rest, at, last)
      BY <2>1, <2>3, CutFacts
    <2> HIDE DEF cut
    <2>5. cut \in Seq(Lines)
      BY <2>4 DEF IsCut
    <2>6. GroupSteps(last)
      BY <1>1, <2>1, <2>2, <2>3, <2>4, <2>5 DEF GroupSteps
    <2> QED BY <1>3, <2>6 DEF last
  <1> QED BY <1>2, <1>3

\* The next line of the chain is where the loop goes on.
LEMMA NextOfChain ==
    ASSUME TInv, pc = "groups", NEW last, GroupSteps(last)
    PROVE  /\ at' \in 1..Len(rest') /\ at < at'
           /\ rest'[at'] = rest[last]
           /\ \A i \in 1..at : rest'[i] = rest[i]
  <1>1. /\ at \in 1..Len(rest) /\ last \in (at + 1)..Len(rest) /\ Len(rest) \in Nat
    BY DEF GroupSteps, TInv
  <1>2. CASE rest' = rest /\ at' = last
    BY <1>1, <1>2
  <1>3. CASE IsCut(rest', rest, at, last) /\ at' = at + 1
    <2>1. Len(rest') \in Nat /\ at < Len(rest')
      BY <1>3, CutBounds
    <2>2. at + 1 \in (at + 1)..Len(rest') /\ (at + 1) + (last - (at + 1)) = last
      BY <1>1, <2>1
    <2>3. rest'[at + 1] = rest[(at + 1) + (last - (at + 1))]
      BY <1>3, <2>2 DEF IsCut
    <2>4. \A i \in 1..at : rest'[i] = rest[i]
      BY <1>3 DEF IsCut
    <2> QED BY <1>1, <1>3, <2>1, <2>2, <2>3, <2>4
  <1> QED BY <1>2, <1>3 DEF GroupSteps

-----------------------------------------------------------------------------
(* Every step keeps the types, whatever the files hold *)

LEMMA OutsideGroups ==
    ASSUME TInv, rest' \in Seq(Lines), pc' \in {"lines", "done", "crash", "out_of_memory"},
           macros' \in [Names -> Int], includes' \in 0..MaxIncludes, UNCHANGED chain
    PROVE  TInv'
  <1>1. pc' # "groups" /\ pc' \in {"lines", "groups", "done", "crash", "out_of_memory"}
    OBVIOUS
  <1>2. cond' \in BOOLEAN /\ if_cond' \in BOOLEAN /\ any_cond_true' \in BOOLEAN
    BY Zenon DEF TInv, TypeOK, chain
  <1>3. TypeOK'
    BY <1>1, <1>2 DEF TypeOK
  <1>4. Position'
    BY <1>1 DEF Position
  <1> QED BY <1>3, <1>4 DEF TInv

LEMMA AtLineFacts ==
    ASSUME TInv, NEW kinds, AtLine(kinds)
    PROVE  /\ rest \in Seq(Lines) /\ rest # <<>> /\ rest[1] \in Lines /\ rest[1].kind \in kinds
           /\ pc = "lines" /\ Len(rest) \in Nat \ {0}
           /\ macros \in [Names -> Int] /\ includes \in 0..MaxIncludes
  BY LineFacts DEF AtLine, TInv, TypeOK

LEMMA TextTyped ==
    ASSUME TInv, Text
    PROVE  TInv'
  <1>1. /\ AtLine({"text"}) /\ rest' = Tail(rest)
        /\ UNCHANGED <<macros, includes, pc, chain>>
    BY DEF Text
  <1>2. /\ rest \in Seq(Lines) /\ rest # <<>> /\ pc = "lines"
        /\ macros \in [Names -> Int] /\ includes \in 0..MaxIncludes
    BY <1>1, AtLineFacts
  <1>3. rest' \in Seq(Lines)
    BY <1>1, <1>2, HeadTailProperties
  <1> QED BY <1>1, <1>2, <1>3, OutsideGroups

LEMMA DefineTyped ==
    ASSUME TInv, Define
    PROVE  TInv'
  <1> DEFINE l == rest[1]
             value == IF l.eol THEN l.body ELSE Joined
  <1>1. /\ AtLine({"define"}) /\ RemoveDirective(rest)
        /\ macros' = macros \/ macros' = [macros EXCEPT ![l.name] = value]
        /\ UNCHANGED <<includes, chain>>
    BY DEF Define
  <1>2. /\ rest \in Seq(Lines) /\ rest # <<>> /\ l \in Lines
        /\ macros \in [Names -> Int] /\ includes \in 0..MaxIncludes
    BY <1>1, AtLineFacts
  <1>3. value \in Int
    <2>1. l.body \in Int
      <3> HIDE DEF l
      <3> QED BY <1>2, LinesAssumption
    <2>2. Joined \in Int
      BY DEF Joined
    <2>3. value = l.body \/ value = Joined
      <3> HIDE DEF l
      <3> QED BY Zenon
    <2> HIDE DEF l, value
    <2> QED BY <2>1, <2>2, <2>3
  <1>4. macros' \in [Names -> Int]
    <2> HIDE DEF l, value
    <2> QED BY <1>1, <1>2, <1>3
  <1>5. pc' \in {"lines", "crash"} /\ rest' \in Seq(Lines)
    BY <1>1, <1>2, RemoveFacts
  <1> QED BY <1>1, <1>2, <1>4, <1>5, OutsideGroups

LEMMA UndefTyped ==
    ASSUME TInv, Undef
    PROVE  TInv'
  <1>1. /\ AtLine({"undef"}) /\ RemoveDirective(rest)
        /\ macros' = [macros EXCEPT ![rest[1].name] = NoBody]
        /\ UNCHANGED <<includes, chain>>
    BY DEF Undef
  <1>2. /\ rest \in Seq(Lines) /\ rest # <<>>
        /\ macros \in [Names -> Int] /\ includes \in 0..MaxIncludes
    BY <1>1, AtLineFacts
  <1>3. macros' \in [Names -> Int]
    <2> DEFINE n == rest[1].name
    <2>1. macros' = [macros EXCEPT ![n] = NoBody]
      BY <1>1
    <2>2. NoBody \in Int
      BY DEF NoBody
    <2> HIDE DEF n
    <2> QED BY <1>2, <2>1, <2>2
  <1>4. pc' \in {"lines", "crash"} /\ rest' \in Seq(Lines)
    BY <1>1, <1>2, RemoveFacts
  <1> QED BY <1>1, <1>2, <1>3, <1>4, OutsideGroups

\* The lines a header is inserted into.
Including(h) == <<rest[1]>> \o h \o Tail(rest)

LEMMA IncludingFacts ==
    ASSUME TInv, rest # <<>>, NEW h \in Seq(Lines)
    PROVE  /\ Including(h) \in Seq(Lines) /\ Including(h) # <<>>
           /\ Including(h)[1] = rest[1]
           /\ IsSuffix(Tail(rest), rest, 1)
           /\ \A u : IsSuffix(u, Including(h), 1) => IsConcat(u, h, Tail(rest))
  <1> DEFINE f == <<rest[1]>>
             t == Tail(rest)
             g == f \o h
             s == Including(h)
  <1>1. /\ rest \in Seq(Lines) /\ rest[1] \in Lines /\ Len(rest) \in Nat \ {0}
    BY LineFacts DEF TInv
  <1>2. /\ t \in Seq(Lines) /\ Len(t) = Len(rest) - 1
        /\ \A i \in 1..Len(t) : t[i] = rest[i + 1]
    BY <1>1, HeadTailProperties
  <1>3. IsSuffix(t, rest, 1)
    BY <1>1, <1>2 DEF IsSuffix
  <1>4. f \in Seq(Lines) /\ Len(f) = 1 /\ f[1] = rest[1]
    BY <1>1
  <1> HIDE DEF t, f
  <1>5. /\ g \in Seq(Lines) /\ Len(g) = 1 + Len(h) /\ Len(h) \in Nat
        /\ \A i \in 1..(1 + Len(h)) : g[i] = IF i <= 1 THEN f[i] ELSE h[i - 1]
    <2>1. /\ g \in Seq(Lines) /\ Len(g) = Len(f) + Len(h)
          /\ \A i \in 1..(Len(f) + Len(h)) : g[i] = IF i <= Len(f) THEN f[i] ELSE h[i - Len(f)]
      BY <1>4, ConcatProperties
    <2> HIDE DEF g
    <2> QED BY <1>4, <2>1
  <1> HIDE DEF g
  <1>6. s = g \o t
    BY DEF Including, g, f, t
  <1>7. IsConcat(s, g, t)
    BY <1>2, <1>5, <1>6, ConcatFacts
  <1> HIDE DEF s
  <1>8. s \in Seq(Lines) /\ s # <<>> /\ s[1] = rest[1]
    <2>1. Len(s) = 1 + Len(h) + Len(t) /\ s[1] = g[1] /\ s \in Seq(Lines) /\ Len(t) \in Nat
      BY <1>2, <1>5, <1>7 DEF IsConcat
    <2> QED BY <1>4, <1>5, <2>1, EmptySeq
  <1>9. ASSUME NEW u, IsSuffix(u, s, 1)
        PROVE  IsConcat(u, h, t)
    <2>1. /\ u \in Seq(Lines) /\ Len(s) = Len(u) + 1 /\ \A i \in 1..Len(u) : u[i] = s[i + 1]
      BY <1>9 DEF IsSuffix
    <2>2. Len(s) = 1 + Len(h) + Len(t) /\ Len(t) \in Nat /\ Len(u) = Len(h) + Len(t)
      <3>1. Len(s) = Len(g) + Len(t) /\ Len(t) \in Nat /\ Len(u) \in Nat
        BY <1>2, <1>7, <2>1 DEF IsConcat
      <3>2. Len(g) = 1 + Len(h) /\ Len(h) \in Nat
        BY <1>5
      <3>3. Len(s) = Len(u) + 1
        BY <2>1
      <3> QED BY <3>1, <3>2, <3>3
    <2>3. ASSUME NEW i \in 1..Len(h)
          PROVE  u[i] = h[i]
      <3>1. i \in 1..Len(u) /\ i + 1 \in 1..Len(g) /\ ~(i + 1 <= 1) /\ (i + 1) - 1 = i
        BY <1>5, <2>2
      <3>2. s[i + 1] = g[i + 1]
        BY <1>7, <3>1 DEF IsConcat
      <3>3. g[i + 1] = h[i]
        BY <1>5, <3>1
      <3> QED BY <2>1, <3>1, <3>2, <3>3
    <2>4. ASSUME NEW i \in 1..Len(t)
          PROVE  u[i + Len(h)] = t[i]
      <3>1. i + Len(h) \in 1..Len(u) /\ (i + Len(h)) + 1 = i + Len(g)
        BY <1>5, <2>2
      <3>2. s[i + Len(g)] = t[i]
        BY <1>7 DEF IsConcat
      <3> QED BY <2>1, <3>1, <3>2
    <2> QED BY <1>2, <2>1, <2>2, <2>3, <2>4 DEF IsConcat
  <1>10. \A u : IsSuffix(u, s, 1) => IsConcat(u, h, t)
    BY <1>9
  <1> QED BY <1>3, <1>8, <1>10 DEF s, t

LEMMA IncludeFacts ==
    ASSUME TInv, Include
    PROVE  \E h \in Files \cup {<<>>} : h \in Seq(Lines) /\ RemoveDirective(Including(h))
  <1> DEFINE h == IF rest[1].name \in DOMAIN Headers THEN Headers[rest[1].name] ELSE <<>>
  <1>1. RemoveDirective(Including(h))
    BY DEF Include, Including
  <1>2. h \in Files \cup {<<>>}
    BY DEF Files, Range
  <1>3. h \in Seq(Lines)
    BY <1>2, FilesAssumption, EmptySeq
  <1> HIDE DEF h
  <1> QED BY <1>1, <1>2, <1>3

LEMMA IncludeTyped ==
    ASSUME TInv, Include
    PROVE  TInv'
  <1>1. /\ AtLine({"include"}) /\ includes < MaxIncludes /\ includes' = includes + 1
        /\ UNCHANGED <<macros, chain>>
    BY DEF Include
  <1>2. /\ rest # <<>> /\ macros \in [Names -> Int] /\ includes \in 0..MaxIncludes
    BY <1>1, AtLineFacts
  <1>3. PICK h \in Files \cup {<<>>} : h \in Seq(Lines) /\ RemoveDirective(Including(h))
    BY IncludeFacts
  <1>4. pc' \in {"lines", "crash"} /\ rest' \in Seq(Lines)
    BY <1>2, <1>3, IncludingFacts, RemoveFacts
  <1>5. includes' \in 0..MaxIncludes
    BY <1>1, <1>2, BoundAssumption
  <1> QED BY <1>1, <1>2, <1>4, <1>5, OutsideGroups

LEMMA PragmaFacts ==
    ASSUME TInv, Pragma
    PROVE  /\ rest' \in Seq(Lines) /\ pc' \in {"lines", "crash"}
           /\ rest[1].eol => pc' = "lines" /\ \E d \in Nat : IsSuffix(rest', rest, d)
  <1> DEFINE E == DirectiveEnd(rest)
             n == Min(E)
  <1>1. AtLine({"pragma"})
    BY DEF Pragma
  <1>2. rest \in Seq(Lines) /\ pc = "lines" /\ Len(rest) \in Nat \ {0}
    BY <1>1, AtLineFacts
  <1>3. E \subseteq Nat /\ E \subseteq 1..Len(rest) /\ (rest[1].eol => 1 \in E)
    BY <1>2 DEF DirectiveEnd
  <1>4. \/ E = {} /\ pc' = "crash" /\ rest' = rest
        \/ E # {} /\ pc' = pc /\ rest' = SubSeq(rest, n + 1, Len(rest))
    BY DEF Pragma
  <1>5. CASE E = {}
    BY <1>2, <1>3, <1>4, <1>5
  <1>6. CASE E # {}
    <2>1. n \in E
      <3> HIDE DEF E
      <3> QED BY <1>3, <1>6, MinOfNaturals
    <2>2. rest' = SubSeq(rest, n + 1, Len(rest)) /\ pc' = "lines"
      BY <1>2, <1>4, <1>6
    <2> HIDE DEF n
    <2>3. n \in 0..Len(rest) /\ n \in Nat
      BY <1>3, <2>1
    <2>4. IsSuffix(rest', rest, n)
      BY <1>2, <2>2, <2>3, SuffixFacts
    <2> QED BY <2>2, <2>3, <2>4 DEF IsSuffix
  <1> QED BY <1>5, <1>6

LEMMA PragmaTyped ==
    ASSUME TInv, Pragma
    PROVE  TInv'
  <1>1. AtLine({"pragma"}) /\ UNCHANGED <<macros, includes, chain>>
    BY DEF Pragma
  <1>2. macros \in [Names -> Int] /\ includes \in 0..MaxIncludes
    BY <1>1, AtLineFacts
  <1> QED BY <1>1, <1>2, PragmaFacts, OutsideGroups

LEMMA ElifElseEndifTyped ==
    ASSUME TInv, ElifElseEndif
    PROVE  TInv'
  <1>1. /\ AtLine({"elif", "else", "endif"}) /\ RemoveDirective(rest)
        /\ UNCHANGED <<macros, includes, chain>>
    BY DEF ElifElseEndif
  <1>2. /\ rest \in Seq(Lines) /\ rest # <<>>
        /\ macros \in [Names -> Int] /\ includes \in 0..MaxIncludes
    BY <1>1, AtLineFacts
  <1>3. pc' \in {"lines", "crash"} /\ rest' \in Seq(Lines)
    BY <1>1, <1>2, RemoveFacts
  <1> QED BY <1>1, <1>2, <1>3, OutsideGroups

LEMMA EndGroupsTyped ==
    ASSUME TInv, EndGroups
    PROVE  TInv'
  <1>1. pc = "groups" /\ RemoveDirective(rest) /\ UNCHANGED <<macros, includes, chain>>
    BY DEF EndGroups
  <1>2. /\ rest \in Seq(Lines) /\ rest # <<>>
        /\ macros \in [Names -> Int] /\ includes \in 0..MaxIncludes
    BY <1>1, EmptySeq DEF TInv, TypeOK, Position
  <1>3. pc' \in {"lines", "crash"} /\ rest' \in Seq(Lines)
    BY <1>1, <1>2, RemoveFacts
  <1> QED BY <1>1, <1>2, <1>3, OutsideGroups

LEMMA IfTyped ==
    ASSUME TInv, If
    PROVE  TInv'
  <1>1. /\ AtLine(IfKinds) /\ pc' = "groups" /\ at' = 1
        /\ cond' = EvaluateIf(rest[1]) /\ if_cond' = cond' /\ any_cond_true' = cond'
        /\ UNCHANGED <<rest, macros, includes>>
    BY DEF If
  <1>2. /\ rest \in Seq(Lines) /\ rest[1].kind \in IfKinds /\ Len(rest) \in Nat \ {0}
        /\ macros \in [Names -> Int] /\ includes \in 0..MaxIncludes
    BY <1>1, AtLineFacts
  <1>3. cond' \in BOOLEAN
    BY <1>1, EvaluateIfFacts
  <1>4. TypeOK'
    BY <1>1, <1>2, <1>3 DEF TypeOK
  <1>5. Position'
    BY <1>1, <1>2 DEF Position, Openers
  <1> QED BY <1>1, <1>2, <1>4, <1>5 DEF TInv

LEMMA GroupTyped ==
    ASSUME TInv, Group
    PROVE  TInv'
  <1>1. UNCHANGED <<macros, includes>> /\ pc = "groups"
    BY DEF Group
  <1>2. TypeOK /\ macros \in [Names -> Int] /\ includes \in 0..MaxIncludes
    BY DEF TInv, TypeOK
  <1>3. CASE GroupEnds = {}
    <2>1. pc' = "crash" /\ UNCHANGED <<rest, chain>>
      BY <1>3, GroupFacts
    <2> QED BY <1>1, <1>2, <2>1, OutsideGroups DEF TInv
  <1>4. CASE GroupEnds # {}
    <2> DEFINE last == Min(GroupEnds)
    <2>1. GroupSteps(last)
      BY <1>4, GroupFacts
    <2> HIDE DEF last
    <2>2. /\ at' \in 1..Len(rest') /\ rest'[at'] = rest[last]
          /\ \A i \in 1..at : rest'[i] = rest[i]
      BY <1>1, <2>1, NextOfChain
    <2>3. GroupCond \in BOOLEAN /\ AnyTrue \in BOOLEAN
      BY <1>2, CondFacts
    <2>4. if_cond \in BOOLEAN
      BY <1>2 DEF TypeOK
    <2>5. /\ pc' = "groups" /\ rest' \in Seq(Lines) /\ cond' \in BOOLEAN
          /\ any_cond_true' \in BOOLEAN /\ if_cond' \in BOOLEAN
      BY <2>1, <2>3, <2>4 DEF GroupSteps
    <2>6. TypeOK'
      BY <1>1, <1>2, <2>2, <2>5 DEF TypeOK
    <2>7. rest'[1].kind \in IfKinds
      <3>1. rest[1].kind \in IfKinds /\ 1 \in 1..at
        BY <1>1 DEF TInv, Position
      <3> QED BY <2>2, <3>1
    <2>8. rest'[at'].kind \in Openers \cup {"endif"}
      BY <2>1, <2>2 DEF GroupSteps, Openers
    <2>9. Position'
      BY <2>2, <2>7, <2>8 DEF Position
    <2> QED BY <2>5, <2>6, <2>9 DEF TInv
  <1> QED BY <1>3, <1>4

LEMMA NextTyped ==
    ASSUME TInv, Next
    PROVE  TInv'
  <1>1. CASE Text BY <1>1, TextTyped
  <1>2. CASE Define BY <1>2, DefineTyped
  <1>3. CASE Undef BY <1>3, UndefTyped
  <1>4. CASE Include BY <1>4, IncludeTyped
  <1>5. CASE IncludeOutOfMemory
    BY <1>5, OutsideGroups DEF IncludeOutOfMemory, TInv, TypeOK
  <1>6. CASE Pragma BY <1>6, PragmaTyped
  <1>7. CASE BarePragma
    BY <1>7 DEF BarePragma, vars, chain, TInv, TypeOK, Position
  <1>8. CASE ElifElseEndif BY <1>8, ElifElseEndifTyped
  <1>9. CASE Finish
    BY <1>9, OutsideGroups DEF Finish, TInv, TypeOK
  <1>10. CASE If BY <1>10, IfTyped
  <1>11. CASE Group BY <1>11, GroupTyped
  <1>12. CASE EndGroups BY <1>12, EndGroupsTyped
  <1> QED BY <1>1, <1>2, <1>3, <1>4, <1>5, <1>6, <1>7, <1>8, <1>9, <1>10, <1>11, <1>12 DEF Next

LEMMA TypesStay ==
    ASSUME TInv, [Next]_vars
    PROVE  TInv'
  <1>1. CASE Next
    BY <1>1, NextTyped
  <1>2. CASE UNCHANGED vars
    BY <1>2 DEF vars, chain, TInv, TypeOK, Position
  <1> QED BY <1>1, <1>2

LEMMA InitTyped ==
    ASSUME Init
    PROVE  TInv /\ rest \in Files
  <1>1. rest \in Files
    BY DEF Init, Files
  <1>2. rest \in Seq(Lines)
    BY <1>1, FilesAssumption
  <1>3. macros \in [Names -> Int]
    <2>1. NoBody \in Int /\ macros = [n \in Names |-> NoBody]
      BY DEF NoBody, Init
    <2> QED BY <2>1
  <1>4. TypeOK
    <2>1. cond \in BOOLEAN /\ if_cond \in BOOLEAN /\ any_cond_true \in BOOLEAN
      BY DEF Init
    <2>2. includes \in 0..MaxIncludes
      BY BoundAssumption DEF Init
    <2> QED BY <1>3, <2>1, <2>2 DEF Init, TypeOK
  <1>5. Position
    BY DEF Init, Position
  <1> QED BY <1>1, <1>2, <1>4, <1>5 DEF TInv

(* The macro table, the includes counted, and where handle_if_directives    *)
(* stands are what process_preprocessing_tokens takes them for, in every    *)
(* state and whatever the files hold: if_directive is never behind the last *)
(* line, although the groups before it go while it is in use.               *)
THEOREM TypeCorrect == Spec => []TypeOK
  <1>1. Init => TInv
    BY InitTyped
  <1>2. TInv /\ [Next]_vars => TInv'
    BY TypesStay
  <1>3. TInv => TypeOK
    BY DEF TInv
  <1> QED BY <1>1, <1>2, <1>3, PTL DEF Spec

-----------------------------------------------------------------------------
(* Files whose directives end in newlines and whose conditionals are closed *)

LEMMA HeaderFacts ==
    ASSUME AllClosed, NEW h \in Files \cup {<<>>}
    PROVE  h \in Seq(Lines) /\ Ended(h)
  <1>1. CASE h \in Files
    BY <1>1, FilesAssumption, ClosedIsEnded DEF AllClosed
  <1>2. CASE h = <<>>
    <2>1. h \in Seq(Lines) /\ Len(h) = 0
      BY <1>2, EmptySeq
    <2> QED BY <2>1 DEF Ended
  <1> QED BY <1>1, <1>2

\* How a step moves the lines ahead.
Behind(d)     == IsSuffix(rest', rest, d)
Inserted(h)   == \E t : IsConcat(rest', h, t) /\ IsSuffix(t, rest, 1)
CutOut(last)  == IsCut(rest', rest, at, last)
Moved ==
    \/ rest' = rest
    \/ \E d \in Nat : Behind(d)
    \/ \E h \in Files \cup {<<>>} : Inserted(h)
    \/ \E last : CutOut(last)

LEMMA RemovedLine ==
    ASSUME AllTerminated, rest \in Seq(Lines), rest # <<>>, rest[1] \in Lines,
           rest[1].kind # "text", RemoveDirective(rest)
    PROVE  pc' = "lines" /\ Behind(1)
  <1>1. rest[1].eol
    BY DirectivesEnd
  <1> QED BY <1>1, RemoveFacts DEF Behind

LEMMA IncludedLines ==
    ASSUME AllTerminated, TInv, Include
    PROVE  pc' = "lines" /\ \E h \in Files \cup {<<>>} : Inserted(h)
  <1>1. AtLine({"include"})
    BY DEF Include
  <1>2. rest # <<>> /\ rest[1] \in Lines /\ rest[1].kind # "text"
    BY <1>1, AtLineFacts
  <1>3. rest[1].eol
    BY <1>2, DirectivesEnd
  <1>4. PICK h \in Files \cup {<<>>} : h \in Seq(Lines) /\ RemoveDirective(Including(h))
    BY IncludeFacts
  <1> DEFINE s == Including(h)
  <1>5. /\ s \in Seq(Lines) /\ s # <<>> /\ s[1] = rest[1]
        /\ IsSuffix(Tail(rest), rest, 1)
        /\ \A u : IsSuffix(u, s, 1) => IsConcat(u, h, Tail(rest))
    BY <1>2, <1>4, IncludingFacts
  <1>6. RemoveDirective(s)
    BY <1>4
  <1> HIDE DEF s
  <1>7. pc' = "lines" /\ IsSuffix(rest', s, 1)
    BY <1>3, <1>5, <1>6, RemoveFacts
  <1>8. IsConcat(rest', h, Tail(rest))
    BY <1>5, <1>7
  <1> QED BY <1>5, <1>7, <1>8 DEF Inserted

\* In files whose conditionals are closed every group has an end.
LEMMA GroupGoesOn ==
    ASSUME FInv, Group
    PROVE  GroupSteps(Min(GroupEnds))
  <1>1. TInv /\ pc = "groups" /\ rest[at].kind # "endif"
    BY DEF Group, FInv
  <1>2. at \in 1..Len(rest) /\ rest[at].kind \in Openers
    BY <1>1 DEF TInv, Position
  <1>3. Drops(rest, at)
    BY <1>2 DEF FInv, Ended
  <1>4. GroupEnds # {}
    BY <1>1, <1>3, GroupEndExists
  <1> QED BY <1>1, <1>4, GroupFacts

LEMMA NextMoves ==
    ASSUME AllTerminated, FInv, Next
    PROVE  pc' # "crash" /\ Moved
  <1>0. TInv /\ pc # "crash" /\ rest \in Seq(Lines)
    BY DEF FInv, TInv
  <1>1. CASE Text
    <2>1. AtLine({"text"}) /\ rest' = Tail(rest) /\ pc' = pc
      BY <1>1 DEF Text
    <2>2. rest # <<>>
      BY <1>0, <2>1, AtLineFacts
    <2>3. IsSuffix(Tail(rest), rest, 1)
      BY <1>0, <2>2, EmptySeq, IncludingFacts
    <2> QED BY <1>0, <2>1, <2>3 DEF Moved, Behind
  <1>2. CASE \/ Define \/ Undef \/ ElifElseEndif
    <2>1. /\ AtLine({"define", "undef", "elif", "else", "endif"}) /\ RemoveDirective(rest)
      BY <1>2 DEF Define, Undef, ElifElseEndif, AtLine
    <2>2. rest # <<>> /\ rest[1] \in Lines /\ rest[1].kind # "text"
      BY <1>0, <2>1, AtLineFacts
    <2>3. pc' = "lines" /\ Behind(1)
      BY <1>0, <2>1, <2>2, RemovedLine
    <2> QED BY <2>3 DEF Moved
  <1>3. CASE Include
    BY <1>0, <1>3, IncludedLines DEF Moved
  <1>4. CASE Pragma
    <2>1. AtLine({"pragma"})
      BY <1>4 DEF Pragma
    <2>2. rest[1] \in Lines /\ rest[1].kind # "text"
      BY <1>0, <2>1, AtLineFacts
    <2>3. rest[1].eol
      BY <2>2, DirectivesEnd
    <2> QED BY <1>0, <1>4, <2>3, PragmaFacts DEF Moved, Behind
  <1>5. CASE \/ IncludeOutOfMemory \/ BarePragma \/ Finish \/ If
    BY <1>0, <1>5 DEF IncludeOutOfMemory, BarePragma, Finish, If, vars, Moved
  <1>6. CASE Group
    <2> DEFINE last == Min(GroupEnds)
    <2>1. GroupSteps(last)
      BY <1>6, GroupGoesOn
    <2> HIDE DEF last
    <2> QED BY <2>1 DEF GroupSteps, Moved, CutOut
  <1>7. CASE EndGroups
    <2>1. pc = "groups" /\ rest[at].kind = "endif" /\ RemoveDirective(rest)
      BY <1>7 DEF EndGroups
    <2>2. rest # <<>> /\ rest[1].kind \in IfKinds
      BY <1>0, <2>1, EmptySeq DEF TInv, Position
    <2>3. rest[1] \in Lines /\ rest[1].kind # "text"
      BY <1>0, <2>2, LineFacts DEF IfKinds
    <2>4. pc' = "lines" /\ Behind(1)
      BY <1>0, <2>1, <2>2, <2>3, RemovedLine
    <2> QED BY <2>4 DEF Moved
  <1> QED BY <1>1, <1>2, <1>3, <1>4, <1>5, <1>6, <1>7 DEF Next

LEMMA NextWhole ==
    ASSUME AllTerminated, AllClosed, FInv, Next
    PROVE  FInv'
  <1>1. pc' # "crash" /\ Moved
    BY NextMoves
  <1>2. TInv'
    BY NextTyped DEF FInv
  <1>3. Ended(rest)
    BY DEF FInv
  <1>4. Ended(rest')
    <2>1. CASE rest' = rest
      BY <1>3, <2>1
    <2>2. ASSUME NEW d \in Nat, Behind(d) PROVE Ended(rest')
      BY <1>3, <2>2, SuffixEnded DEF Behind
    <2>3. ASSUME NEW h \in Files \cup {<<>>}, Inserted(h) PROVE Ended(rest')
      <3>1. PICK t : IsConcat(rest', h, t) /\ IsSuffix(t, rest, 1)
        BY <2>3 DEF Inserted
      <3>2. Ended(t)
        BY <1>3, <3>1, SuffixEnded
      <3>3. Ended(h)
        BY HeaderFacts
      <3> QED BY <3>1, <3>2, <3>3, ConcatEnded
    <2>4. ASSUME NEW last, CutOut(last) PROVE Ended(rest')
      BY <1>3, <2>4, CutEnded DEF CutOut
    <2> QED BY <1>1, <2>1, <2>2, <2>3, <2>4 DEF Moved
  <1>5. Ended(rest)'
    BY <1>4
  <1> QED BY <1>1, <1>2, <1>5 DEF FInv

LEMMA InitWhole ==
    ASSUME AllClosed, Init
    PROVE  FInv
  <1>1. TInv /\ rest \in Files
    BY InitTyped
  <1>2. Ended(rest)
    BY <1>1, HeaderFacts
  <1> QED BY <1>1, <1>2 DEF FInv, Init

LEMMA WholeStays ==
    ASSUME AllTerminated, AllClosed, FInv, [Next]_vars
    PROVE  FInv'
  <1>1. CASE Next
    BY <1>1, NextWhole
  <1>2. CASE UNCHANGED vars
    <2>1. TInv'
      BY TypesStay DEF FInv
    <2>2. rest' = rest /\ pc' = pc
      BY <1>2 DEF vars
    <2>3. Ended(rest)'
      BY <2>2 DEF FInv
    <2> QED BY <2>1, <2>2, <2>3 DEF FInv
  <1> QED BY <1>1, <1>2

(* In files whose directives end in newlines and whose conditionals are     *)
(* closed, handle_if_directives finds the end of every group and no         *)
(* directive is removed past the last token: nothing that follows a removal *)
(* reads a NULL token, however headers, groups and directives are nested.   *)
THEOREM NeverCrashes ==
    ASSUME AllTerminated, AllClosed
    PROVE  Spec => []NoCrash
  <1>1. Init => FInv
    BY InitWhole
  <1>2. FInv /\ [Next]_vars => FInv'
    BY WholeStays
  <1>3. FInv => NoCrash
    BY DEF FInv, NoCrash
  <1> QED BY <1>1, <1>2, <1>3, PTL DEF Spec

LEMMA TextStays ==
    ASSUME AllTerminated, TInv, [Next]_vars, pc = "lines",
           AtLine({"define", "undef", "include", "elif", "else", "endif"}),
           NEW i \in 2..Len(rest)
    PROVE  \E j \in 1..Len(rest') : rest'[j] = rest[i]
  <1>1. /\ rest \in Seq(Lines) /\ rest # <<>> /\ rest[1] \in Lines /\ Len(rest) \in Nat \ {0}
        /\ rest[1].kind \in {"define", "undef", "include", "elif", "else", "endif"}
    BY AtLineFacts
  <1>2. ASSUME Behind(1)
        PROVE  \E j \in 1..Len(rest') : rest'[j] = rest[i]
    <2>1. /\ Len(rest') \in Nat /\ Len(rest) = Len(rest') + 1
          /\ \A j \in 1..Len(rest') : rest'[j] = rest[j + 1]
      BY <1>2 DEF Behind, IsSuffix
    <2>2. i - 1 \in 1..Len(rest') /\ (i - 1) + 1 = i
      BY <1>1, <2>1
    <2> QED BY <2>1, <2>2
  <1>3. CASE \/ Define \/ Undef \/ ElifElseEndif
    <2>1. RemoveDirective(rest)
      BY <1>3 DEF Define, Undef, ElifElseEndif
    <2> QED BY <1>1, <1>2, <2>1, RemovedLine
  <1>4. CASE Include
    <2>1. PICK h \in Files \cup {<<>>} : Inserted(h)
      BY <1>4, IncludedLines
    <2>2. PICK t : IsConcat(rest', h, t) /\ IsSuffix(t, rest, 1)
      BY <2>1 DEF Inserted
    <2>3. /\ Len(t) \in Nat /\ Len(rest) = Len(t) + 1 /\ \A j \in 1..Len(t) : t[j] = rest[j + 1]
      BY <2>2 DEF IsSuffix
    <2>4. /\ Len(h) \in Nat /\ Len(rest') = Len(h) + Len(t)
          /\ \A j \in 1..Len(t) : rest'[j + Len(h)] = t[j]
      BY <2>2, <2>3 DEF IsConcat
    <2>5. i - 1 \in 1..Len(t) /\ (i - 1) + 1 = i /\ (i - 1) + Len(h) \in 1..Len(rest')
      BY <1>1, <2>3, <2>4
    <2>6. rest'[(i - 1) + Len(h)] = rest[i]
      BY <2>3, <2>4, <2>5
    <2> QED BY <2>5, <2>6
  <1>5. CASE rest' = rest
    <2>1. i \in 1..Len(rest')
      BY <1>1, <1>5
    <2> QED BY <1>5, <2>1
  <1>6. ~ (Text \/ Pragma \/ BarePragma \/ Finish \/ If \/ Group \/ EndGroups)
    BY <1>1 DEF Text, Pragma, BarePragma, Finish, If, Group, EndGroups, AtLine, IfKinds
  <1>7. IncludeOutOfMemory \/ UNCHANGED vars => rest' = rest
    BY DEF IncludeOutOfMemory, vars
  <1> QED BY <1>3, <1>4, <1>5, <1>6, <1>7 DEF Next

(* In files whose directives end in newlines, "Remove the directive" removes *)
(* the directive alone: the lines behind it are all ahead of the loop        *)
(* afterwards, behind the header that an #include put there.                 *)
THEOREM TextSurvives ==
    ASSUME AllTerminated
    PROVE  Spec => TextIsNotRemoved
  <1>1. Init => TInv
    BY InitTyped
  <1>2. TInv /\ [Next]_vars => TInv'
    BY TypesStay
  <1>3. TInv /\ [Next]_vars =>
          [pc = "lines" /\ AtLine({"define", "undef", "include", "elif", "else", "endif"}) =>
              \A i \in 2..Len(rest) : rest[i].kind = "text" =>
                  \E j \in 1..Len(rest') : rest'[j] = rest[i]]_vars
    BY TextStays
  <1> QED BY <1>1, <1>2, <1>3, PTL DEF Spec, TextIsNotRemoved

-----------------------------------------------------------------------------
(* Conditionals of up to two #elifs *)

LEMMA ShortStays ==
    ASSUME AllTerminated, AllClosed, AllShort, FInv, Short(rest), Next
    PROVE  Short(rest')
  <1>1. Moved
    BY NextMoves
  <1>2. CASE rest' = rest
    BY <1>2
  <1>3. ASSUME NEW d \in Nat, Behind(d) PROVE Short(rest')
    BY <1>3, SuffixShort DEF Behind
  <1>4. ASSUME NEW h \in Files \cup {<<>>}, Inserted(h) PROVE Short(rest')
    <2>1. PICK t : IsConcat(rest', h, t) /\ IsSuffix(t, rest, 1)
      BY <1>4 DEF Inserted
    <2>2. Short(t)
      BY <2>1, SuffixShort
    <2>3. Ended(h)
      BY HeaderFacts
    <2>4. Short(h)
      <3>1. CASE h \in Files
        BY <3>1 DEF AllShort
      <3>2. CASE h = <<>>
        BY <3>2 DEF Short
      <3> QED BY <3>1, <3>2
    <2> QED BY <2>1, <2>2, <2>3, <2>4, ConcatShort
  <1>5. ASSUME NEW last, CutOut(last) PROVE Short(rest')
    BY <1>5, CutShort DEF CutOut
  <1> QED BY <1>1, <1>2, <1>3, <1>4, <1>5 DEF Moved

\* Behind the line that handle_if_directives is at, the level is that of the chain.
LEMMA ChainLevel ==
    ASSUME TInv, Memory, pc = "groups", rest[at].kind # "endif"
    PROVE  /\ Level(rest, 2, at + 1) = 0
           /\ \A k \in 2..(at + 1) : Level(rest, 2, k) >= 0
  <1>1. at \in 1..Len(rest) /\ at \in Nat \ {0} /\ rest[at].kind \in Openers
    BY DEF TInv, Position
  <1>2. Level(rest, 2, 2) = 0
    BY LevelNext
  <1>3. CASE at = 1
    <2>1. at + 1 = 2 /\ \A k \in 2..(at + 1) : k = 2
      BY <1>3
    <2> QED BY <1>2, <2>1
  <1>4. CASE at > 1
    <2>1. /\ rest[at].kind \notin IfKinds /\ Level(rest, 2, at) = 0
          /\ \A k \in 2..at : Level(rest, 2, k) >= 0
      BY <1>4 DEF Memory
    <2>2. Turn(rest[at]) = 0
      BY <2>1 DEF Turn
    <2>3. Level(rest, 2, at + 1) = Level(rest, 2, at) + Turn(rest[at])
      <3>1. 2 \in Nat /\ at \in Nat /\ 2 <= at
        BY <1>1, <1>4
      <3> QED BY <3>1, LevelNext
    <2>4. Level(rest, 2, at + 1) = 0
      BY <2>1, <2>2, <2>3
    <2>5. \A k \in 2..(at + 1) : k \in 2..at \/ k = at + 1
      BY <1>1
    <2> QED BY <2>1, <2>4, <2>5
  <1> QED BY <1>1, <1>3, <1>4

\* Up to the end of the group the level is that of the chain.
LEMMA LevelToEnd ==
    ASSUME TInv, Memory, pc = "groups", rest[at].kind # "endif", NEW last, GroupSteps(last)
    PROVE  /\ Level(rest, 2, last) = 0
           /\ \A k \in 2..last : Level(rest, 2, k) >= 0
  <1> DEFINE a == at + 1
  <1>1. /\ at \in Nat \ {0} /\ last \in Nat /\ a \in Nat \ {0} /\ 2 <= a /\ a <= last
        /\ Level(rest, a, last) = 0
        /\ \A k \in a..last : Level(rest, a, k) >= 0
    BY DEF GroupSteps, TInv, Position
  <1>2. Level(rest, 2, a) = 0 /\ \A k \in 2..a : Level(rest, 2, k) >= 0
    BY ChainLevel
  <1> HIDE DEF a
  <1>3. ASSUME NEW k \in a..last
        PROVE  Level(rest, 2, k) = Level(rest, a, k)
    <2>1. k \in Nat /\ a <= k
      BY <1>1
    <2>2. Level(rest, 2, k) = Level(rest, 2, a) + Level(rest, a, k)
      BY <1>1, <2>1, LevelSplit
    <2>3. Level(rest, a, k) \in Int
      BY <1>1, <2>1, LevelNext
    <2> QED BY <1>2, <2>2, <2>3
  <1>4. last \in a..last /\ \A k \in 2..last : k \in 2..a \/ k \in a..last
    BY <1>1
  <1> QED BY <1>1, <1>2, <1>3, <1>4

LEMMA ChainLevelStays ==
    ASSUME TInv, Memory, pc = "groups", rest[at].kind # "endif", NEW last, GroupSteps(last)
    PROVE  /\ Level(rest', 2, at') = 0
           /\ \A k \in 2..at' : Level(rest', 2, k) >= 0
  <1>1. CASE rest' = rest /\ at' = last
    BY <1>1, LevelToEnd
  <1>2. CASE IsCut(rest', rest, at, last) /\ at' = at + 1
    <2>1. Level(rest, 2, at + 1) = 0 /\ \A k \in 2..(at + 1) : Level(rest, 2, k) >= 0
      BY ChainLevel
    <2>2. \A k \in 2..(at + 1) : Level(rest', 2, k) = Level(rest, 2, k)
      BY <1>2, CutBefore
    <2>3. at + 1 \in 2..(at + 1)
      BY DEF GroupSteps, TInv, Position
    <2> QED BY <1>2, <2>1, <2>2, <2>3
  <1> QED BY <1>1, <1>2 DEF GroupSteps

\* The #elifs handled stay, and the one at hand is one of them afterwards.
LEMMA ElifStays ==
    ASSUME TInv, Memory, pc = "groups", NEW last, GroupSteps(last),
           NEW j \in 2..at, ElifOf(rest, 1, j)
    PROVE  j \in 2..(at' - 1) /\ ElifOf(rest', 1, j)
  <1>1. at' \in 1..Len(rest') /\ at < at' /\ \A i \in 1..at : rest'[i] = rest[i]
    BY NextOfChain
  <1>2. at \in Nat /\ at' \in Nat
    BY <1>1 DEF TInv, Position
  <1>3. j \in 2..(at' - 1)
    BY <1>1, <1>2
  <1>4. /\ 1 \in Nat /\ j \in Nat /\ 1 < j /\ 0 \in Int /\ 1 + 0 \in Nat
        /\ 1 + 0 = 1 /\ j + 0 = j
    BY <1>2
  <1>5. \A m \in (1 + 1)..j : rest'[m + 0] = rest[m]
    BY <1>1, <1>2
  <1>6. ElifOf(rest', 1 + 0, j + 0)
    BY <1>4, <1>5, ChainShift DEF ElifOf
  <1>7. ElifOf(rest', 1, j)
    BY <1>4, <1>6
  <1> QED BY <1>3, <1>7

LEMMA MemoryStays ==
    ASSUME FInv, Memory, Next
    PROVE  Memory'
  <1>0. TInv /\ TypeOK
    BY DEF FInv, TInv
  <1>1. CASE If
    <2>1. at' = 1 /\ if_cond' = cond' /\ any_cond_true' = cond'
      BY <1>1 DEF If
    <2> QED BY <2>1 DEF Memory
  <1>2. CASE Group
    <2> DEFINE last == Min(GroupEnds)
    <2>1. GroupSteps(last)
      BY <1>2, GroupGoesOn
    <2>2. pc = "groups" /\ rest[at].kind # "endif"
      BY <1>2 DEF Group
    <2> HIDE DEF last
    <2>3. /\ cond' = GroupCond /\ any_cond_true' = AnyTrue /\ if_cond' = if_cond
          /\ rest[last].kind \in {"elif", "else", "endif"}
      BY <2>1 DEF GroupSteps
    <2>4. /\ at \in Nat \ {0} /\ at' \in Nat \ {0} /\ at < at' /\ rest'[at'] = rest[last]
          /\ rest[1].kind \in IfKinds
      BY <1>0, <2>1, <2>2, NextOfChain DEF TInv, Position
    <2>5. Level(rest', 2, at') = 0 /\ \A k \in 2..at' : Level(rest', 2, k) >= 0
      BY <1>0, <2>1, <2>2, ChainLevelStays
    <2>6. \A j \in 2..(at - 1) : ElifOf(rest, 1, j) => j \in 2..(at' - 1) /\ ElifOf(rest', 1, j)
      <3> SUFFICES ASSUME NEW j \in 2..(at - 1), ElifOf(rest, 1, j)
                   PROVE  j \in 2..(at' - 1) /\ ElifOf(rest', 1, j)
        OBVIOUS
      <3>1. j \in 2..at
        BY <2>4
      <3> QED BY <1>0, <2>1, <2>2, <3>1, ElifStays
    <2>7. CASE rest[at].kind = "elif"
      <3>1. at > 1
        BY <2>4, <2>7 DEF IfKinds
      <3>2. ElifOf(rest, 1, at)
        BY <2>2, <2>7, <3>1 DEF Memory, ElifOf, InChain
      <3>3. at \in 2..(at' - 1) /\ ElifOf(rest', 1, at)
        <4>1. at \in 2..at
          BY <2>4, <3>1
        <4> QED BY <1>0, <2>1, <2>2, <3>2, <4>1, ElifStays
      <3>4. any_cond_true' => any_cond_true \/ cond'
        BY <1>0, <2>3, <2>7, CondFacts
      <3>5. any_cond_true => if_cond \/ \E j \in 2..(at - 1) : ElifOf(rest, 1, j)
        BY <2>2 DEF Memory
      <3>6. any_cond_true' => \/ if_cond' \/ cond'
                              \/ \E j, k \in 2..(at' - 1) : j < k /\ ElifOf(rest', 1, j) /\ ElifOf(rest', 1, k)
        <4>1. ASSUME NEW j \in 2..(at - 1), ElifOf(rest, 1, j)
              PROVE  \E i, k \in 2..(at' - 1) : i < k /\ ElifOf(rest', 1, i) /\ ElifOf(rest', 1, k)
          <5>1. j \in 2..(at' - 1) /\ ElifOf(rest', 1, j)
            BY <2>6, <4>1
          <5>2. j < at
            BY <2>4
          <5> QED BY <3>3, <5>1, <5>2
        <4> QED BY <2>3, <3>4, <3>5, <4>1
      <3>7. any_cond_true' => if_cond' \/ \E j \in 2..(at' - 1) : ElifOf(rest', 1, j)
        BY <3>3
      <3>8. at' > 1 => rest'[at'].kind \notin IfKinds
        BY <2>3, <2>4 DEF IfKinds
      <3> QED BY <2>5, <3>6, <3>7, <3>8 DEF Memory
    <2>8. CASE rest[at].kind # "elif"
      <3>1. cond' = cond /\ (any_cond_true' => any_cond_true)
        BY <1>0, <2>3, <2>8, CondFacts
      <3>2. /\ any_cond_true => if_cond \/ \E j \in 2..(at - 1) : ElifOf(rest, 1, j)
            /\ any_cond_true => \/ if_cond \/ cond
                                \/ \E j, k \in 2..(at - 1) : j < k /\ ElifOf(rest, 1, j) /\ ElifOf(rest, 1, k)
        BY <2>2 DEF Memory
      <3>3. any_cond_true' => if_cond' \/ \E j \in 2..(at' - 1) : ElifOf(rest', 1, j)
        BY <2>3, <2>6, <3>1, <3>2
      <3>4. any_cond_true' => \/ if_cond' \/ cond'
                              \/ \E j, k \in 2..(at' - 1) : j < k /\ ElifOf(rest', 1, j) /\ ElifOf(rest', 1, k)
        BY <2>3, <2>6, <3>1, <3>2
      <3>5. at' > 1 => rest'[at'].kind \notin IfKinds
        BY <2>3, <2>4 DEF IfKinds
      <3> QED BY <2>5, <3>3, <3>4, <3>5 DEF Memory
    <2> QED BY <2>7, <2>8
  <1>3. CASE pc' # "groups"
    BY <1>3 DEF Memory
  <1>4. ~If /\ ~Group => pc' # "groups"
    BY DEF Next, Text, Define, Undef, Include, IncludeOutOfMemory, Pragma, BarePragma,
           ElifElseEndif, Finish, EndGroups, AtLine, RemoveDirective, vars
  <1> QED BY <1>1, <1>2, <1>3, <1>4

\* Of up to two #elifs, cond and if_cond remember whether one before held.
LEMMA TwoElifs ==
    ASSUME TInv, Short(rest), Memory, pc = "groups", rest[at].kind = "elif"
    PROVE  at > 1 /\ (any_cond_true => if_cond \/ cond)
  <1>1. at \in 1..Len(rest) /\ Len(rest) \in Nat /\ rest[1].kind \in IfKinds /\ DOMAIN rest = 1..Len(rest)
    BY LenProperties DEF TInv, Position
  <1>2. at > 1
    BY <1>1 DEF IfKinds
  <1>3. ElifOf(rest, 1, at)
    BY <1>2 DEF Memory, ElifOf, InChain
  <1>4. ASSUME NEW j \in 2..(at - 1), NEW k \in 2..(at - 1), j < k, ElifOf(rest, 1, j), ElifOf(rest, 1, k)
        PROVE  FALSE
    <2>1. ElifOf(rest, 1, j) /\ ElifOf(rest, 1, k)
      BY <1>4
    <2>2. /\ 1 \in DOMAIN rest /\ j < k /\ k < at
          /\ j \in (1 + 1)..Len(rest) /\ k \in (1 + 1)..Len(rest) /\ at \in (1 + 1)..Len(rest)
      BY <1>1, <1>2, <1>4
    <2> QED BY <1>1, <1>3, <2>1, <2>2 DEF Short
  <1> QED BY <1>2, <1>4 DEF Memory

LEMMA OneGroupStep ==
    ASSUME FInv, Short(rest), Memory, Next, pc = "groups", rest[at].kind = "elif", cond'
    PROVE  ~any_cond_true
  <1>0. TInv /\ TypeOK
    BY DEF FInv, TInv
  <1>1. Group
    BY DEF Next, Text, Define, Undef, Include, IncludeOutOfMemory, Pragma, BarePragma,
           ElifElseEndif, Finish, If, EndGroups, AtLine
  <1>2. cond' = GroupCond
    BY <1>1, GroupGoesOn DEF GroupSteps
  <1>3. ~if_cond /\ ~cond
    BY <1>0, <1>2, CondFacts
  <1>4. any_cond_true => if_cond \/ cond
    BY <1>0, TwoElifs
  <1> QED BY <1>3, <1>4

LEMMA ChainInit ==
    ASSUME AllClosed, AllShort, Init
    PROVE  CInv
  <1>1. FInv /\ rest \in Files
    BY InitTyped, InitWhole
  <1>2. Short(rest)
    BY <1>1 DEF AllShort
  <1>3. Memory
    BY DEF Init, Memory
  <1> QED BY <1>1, <1>2, <1>3 DEF CInv

LEMMA ChainStays ==
    ASSUME AllTerminated, AllClosed, AllShort, CInv, [Next]_vars
    PROVE  CInv'
  <1>1. FInv'
    BY WholeStays DEF CInv
  <1>2. CASE Next
    <2>1. Short(rest')
      BY <1>2, ShortStays DEF CInv
    <2>2. Memory'
      BY <1>2, MemoryStays DEF CInv
    <2>3. Short(rest)'
      BY <2>1
    <2> QED BY <1>1, <2>2, <2>3 DEF CInv
  <1>3. CASE UNCHANGED vars
    <2>1. UNCHANGED <<rest, pc, at, cond, if_cond, any_cond_true>>
      BY <1>3 DEF vars, chain
    <2>2. Short(rest)'
      BY <2>1 DEF CInv
    <2>3. Memory'
      BY <2>1 DEF CInv, Memory
    <2> QED BY <1>1, <2>2, <2>3 DEF CInv
  <1> QED BY <1>2, <1>3

(* "Only want the elif condition to be true if the original condition and    *)
(* the previous condition was false": in files whose directives end in       *)
(* newlines, whose conditionals are closed and have two #elifs at most, the  *)
(* group of an #elif is not kept when one before it was.  cond remembers one *)
(* #elif only; the hypothesis on the #elifs is what a third one breaks.      *)
THEOREM OneGroup ==
    ASSUME AllTerminated, AllClosed, AllShort
    PROVE  Spec => OneGroupKept
  <1>1. Init => CInv
    BY ChainInit
  <1>2. CInv /\ [Next]_vars => CInv'
    BY ChainStays
  <1>3. CInv /\ [Next]_vars =>
          [pc = "groups" /\ rest[at].kind = "elif" /\ cond' => ~any_cond_true]_vars
    BY OneGroupStep DEF CInv
  <1> QED BY <1>1, <1>2, <1>3, PTL DEF Spec, OneGroupKept

-----------------------------------------------------------------------------
(* The lines that are left of a list *)

\* The function that Only recurses with.
IsFirst(f, s, I) ==
    f = [n \in 0..Len(s) |->
            IF n = 0 THEN <<>>
            ELSE IF n \in I THEN Append(f[n - 1], s[n]) ELSE f[n - 1]]

\* What it is: a list for each number of lines read.
FirstLines(f, s, I) ==
    /\ Only(s, I) = f[Len(s)] /\ f[0] = <<>>
    /\ \A n \in 0..Len(s) : f[n] \in Seq(Lines)
    /\ \A n \in 1..Len(s) : f[n] = IF n \in I THEN Append(f[n - 1], s[n]) ELSE f[n - 1]

LEMMA OnlyFacts ==
    ASSUME NEW s \in Seq(Lines), NEW I
    PROVE  \E f : FirstLines(f, s, I)
  <1> DEFINE S    == Seq(Lines)
             B    == {0}
             J    == I \cap (1..Len(s))
             base == [n \in B |-> <<>>]
             prev == [n \in Nat \ B |-> n - 1]
             step == [p \in Nat \X S |-> IF p[1] \in J THEN Append(p[2], s[p[1]]) ELSE p[2]]
  <1>1. Len(s) \in Nat /\ \A n \in 1..Len(s) : s[n] \in Lines
    BY ElementOfSeq
  <1>2. base \in [B -> S]
    BY EmptySeq
  <1>3. prev \in [Nat \ B -> Nat] /\ \A n \in Nat \ B : prev[n] < n
    OBVIOUS
  <1>4. step \in [Nat \X S -> S]
    <2>1. \A p \in Nat \X S : p[2] \in S
      OBVIOUS
    <2>2. \A n \in J : s[n] \in Lines
      BY <1>1
    <2>3. \A q \in S, l \in Lines : Append(q, l) \in S
      BY AppendProperties
    <2> HIDE DEF S, J
    <2>4. \A p \in Nat \X S : (IF p[1] \in J THEN Append(p[2], s[p[1]]) ELSE p[2]) \in S
      BY <2>1, <2>2, <2>3
    <2> QED BY <2>4
  <1>5. PICK g \in [Nat -> S] :
            \A n \in Nat : g[n] = IF n \in B THEN base[n] ELSE step[<<n, g[prev[n]]>>]
    <2> HIDE DEF S, B, base, prev, step
    <2>1. WellFounded(S, B, base, prev, step)
      BY <1>2, <1>3, <1>4 DEF WellFounded
    <2>2. PICK h \in [Nat -> S] : \A k \in Nat : Solves(h, k, B, base, prev, step)
      BY <2>1, Recursion
    <2>3. \A n \in Nat : h[n] = IF n \in B THEN base[n] ELSE step[<<n, h[prev[n]]>>]
      BY <2>2 DEF Solves
    <2> QED BY <2>3
  <1>6. g[0] = <<>>
    BY <1>5
  <1>7. \A n \in 1..Len(s) : g[n] = IF n \in I THEN Append(g[n - 1], s[n]) ELSE g[n - 1]
    <2> TAKE n \in 1..Len(s)
    <2>1. n \in Nat \ B /\ n - 1 \in Nat /\ prev[n] = n - 1 /\ (n \in J <=> n \in I)
      BY <1>1
    <2>2. g[n] = step[<<n, g[n - 1]>>] /\ g[n - 1] \in S
      BY <1>5, <2>1
    <2>3. \A q \in S : step[<<n, q>>] = IF n \in J THEN Append(q, s[n]) ELSE q
      <3> HIDE DEF S, J
      <3> QED BY <2>1
    <2> HIDE DEF S, J, step
    <2> QED BY <2>1, <2>2, <2>3
  <1>8. \E f : IsFirst(f, s, I)
    <2> DEFINE f == [n \in 0..Len(s) |-> g[n]]
    <2>1. ASSUME NEW n \in 0..Len(s)
          PROVE  f[n] = IF n = 0 THEN <<>> ELSE IF n \in I THEN Append(f[n - 1], s[n]) ELSE f[n - 1]
      <3>1. CASE n = 0
        BY <1>6, <3>1
      <3>2. CASE n # 0
        <4>1. n \in 1..Len(s) /\ n - 1 \in 0..Len(s)
          BY <1>1, <3>2
        <4>2. f[n] = g[n] /\ f[n - 1] = g[n - 1]
          BY <4>1
        <4> HIDE DEF f
        <4> QED BY <1>7, <3>2, <4>1, <4>2
      <3> QED BY <3>1, <3>2
    <2>2. IsFirst(f, s, I)
      BY <2>1 DEF IsFirst
    <2> QED BY <2>2
  <1> DEFINE f == CHOOSE h : IsFirst(h, s, I)
  <1>9. IsFirst(f, s, I)
    BY <1>8
  <1>10. Only(s, I) = f[Len(s)]
    BY DEF Only, IsFirst
  <1> HIDE DEF f
  <1>11. f[0] = <<>> /\ \A n \in 1..Len(s) : f[n] = IF n \in I THEN Append(f[n - 1], s[n]) ELSE f[n - 1]
    <2>1. 0 \in 0..Len(s) /\ \A n \in 1..Len(s) : n \in 0..Len(s) /\ n # 0
      BY <1>1
    <2>2. \A n \in 0..Len(s) : f[n] = IF n = 0 THEN <<>>
                                      ELSE IF n \in I THEN Append(f[n - 1], s[n]) ELSE f[n - 1]
      BY <1>9 DEF IsFirst
    <2> QED BY <2>1, <2>2
  <1>12. \A n \in 0..Len(s) : f[n] = g[n]
    <2> DEFINE A == {n \in Nat : n <= Len(s) => f[n] = g[n]}
    <2>1. ASSUME NEW n \in Nat, \A m \in 0..(n - 1) : m \in A
          PROVE  n \in A
      <3> SUFFICES ASSUME n <= Len(s) PROVE f[n] = g[n]
        OBVIOUS
      <3>1. CASE n = 0
        BY <1>6, <1>11, <3>1
      <3>2. CASE n # 0
        <4>1. n \in 1..Len(s) /\ n - 1 \in 0..(n - 1) /\ n - 1 <= Len(s)
          BY <1>1, <3>2
        <4>2. f[n - 1] = g[n - 1]
          BY <2>1, <4>1
        <4> QED BY <1>7, <1>11, <4>1, <4>2
      <3> QED BY <3>1, <3>2
    <2> HIDE DEF A
    <2>2. Nat \subseteq A
      BY <2>1, SetInduction
    <2> QED BY <1>1, <2>2 DEF A
  <1>13. \A n \in 0..Len(s) : f[n] \in Seq(Lines)
    BY <1>1, <1>5, <1>12
  <1> QED BY <1>10, <1>11, <1>13 DEF FirstLines

\* t is s without the d lines behind line a; no line in I is one of them, and J are
\* the others in I.
Without(t, J, s, I, a, d) ==
    /\ s \in Seq(Lines) /\ t \in Seq(Lines) /\ a \in Nat /\ a <= Len(t) /\ d \in Nat
    /\ Len(s) = Len(t) + d
    /\ \A i \in 1..a : t[i] = s[i] /\ (i \in I <=> i \in J)
    /\ \A i \in (a + 1)..(a + d) : i \notin I
    /\ \A i \in (a + 1)..Len(t) : t[i] = s[i + d] /\ (i + d \in I <=> i \in J)

LEMMA OnlyCut ==
    ASSUME NEW s, NEW t, NEW a, NEW d, NEW I, NEW J, Without(t, J, s, I, a, d)
    PROVE  Only(s, I) = Only(t, J)
  <1>0. /\ Len(s) \in Nat /\ Len(t) \in Nat /\ a \in Nat /\ d \in Nat /\ a <= Len(t)
        /\ Len(s) = Len(t) + d
    BY DEF Without
  <1>1. \A i \in 1..a : t[i] = s[i] /\ (i \in I <=> i \in J)
    BY DEF Without
  <1>2. \A i \in (a + 1)..(a + d) : i \notin I
    BY DEF Without
  <1>3. \A i \in (a + 1)..Len(t) : t[i] = s[i + d] /\ (i + d \in I <=> i \in J)
    BY DEF Without
  <1>4. PICK f : FirstLines(f, s, I)
    BY OnlyFacts DEF Without
  <1>5. PICK g : FirstLines(g, t, J)
    BY OnlyFacts DEF Without
  <1>6. /\ f[0] = <<>> /\ g[0] = <<>>
        /\ \A n \in 1..Len(s) : f[n] = IF n \in I THEN Append(f[n - 1], s[n]) ELSE f[n - 1]
        /\ \A n \in 1..Len(t) : g[n] = IF n \in J THEN Append(g[n - 1], t[n]) ELSE g[n - 1]
    BY <1>4, <1>5 DEF FirstLines
  <1>7. \A n \in 0..a : f[n] = g[n]
    <2> DEFINE A == {n \in Nat : n <= a => f[n] = g[n]}
    <2>1. ASSUME NEW n \in Nat, \A m \in 0..(n - 1) : m \in A
          PROVE  n \in A
      <3> SUFFICES ASSUME n <= a PROVE f[n] = g[n]
        OBVIOUS
      <3>1. CASE n = 0
        BY <1>6, <3>1
      <3>2. CASE n # 0
        <4>1. n \in 1..a /\ n \in 1..Len(s) /\ n \in 1..Len(t) /\ n - 1 \in 0..(n - 1) /\ n - 1 <= a
          BY <1>0, <3>2
        <4>2. f[n - 1] = g[n - 1]
          BY <2>1, <4>1
        <4>3. t[n] = s[n] /\ (n \in I <=> n \in J)
          BY <1>1, <4>1
        <4> QED BY <1>6, <4>1, <4>2, <4>3
      <3> QED BY <3>1, <3>2
    <2> HIDE DEF A
    <2>2. Nat \subseteq A
      BY <2>1, SetInduction
    <2> QED BY <2>2 DEF A
  <1>8. \A n \in 0..d : f[a + n] = f[a]
    <2> DEFINE A == {n \in Nat : n <= d => f[a + n] = f[a]}
    <2>1. ASSUME NEW n \in Nat, \A m \in 0..(n - 1) : m \in A
          PROVE  n \in A
      <3> SUFFICES ASSUME n <= d PROVE f[a + n] = f[a]
        OBVIOUS
      <3>1. CASE n = 0
        BY <1>0, <3>1
      <3>2. CASE n # 0
        <4> DEFINE x == a + n
        <4>1. /\ x \in 1..Len(s) /\ x \in (a + 1)..(a + d) /\ n - 1 \in 0..(n - 1)
              /\ n - 1 <= d /\ x - 1 = a + (n - 1)
          BY <1>0, <3>2
        <4> HIDE DEF x
        <4>2. f[x - 1] = f[a]
          BY <2>1, <4>1
        <4>3. x \notin I
          BY <1>2, <4>1
        <4>4. f[x] = f[x - 1]
          BY <1>6, <4>1, <4>3
        <4>5. f[x] = f[a]
          BY <4>2, <4>4
        <4> QED BY <4>5 DEF x
      <3> QED BY <3>1, <3>2
    <2> HIDE DEF A
    <2>2. Nat \subseteq A
      BY <2>1, SetInduction
    <2> QED BY <2>2 DEF A
  <1>9. \A n \in 0..(Len(t) - a) : f[(a + d) + n] = g[a + n]
    <2> DEFINE A == {n \in Nat : n <= Len(t) - a => f[(a + d) + n] = g[a + n]}
    <2>1. ASSUME NEW n \in Nat, \A m \in 0..(n - 1) : m \in A
          PROVE  n \in A
      <3> SUFFICES ASSUME n <= Len(t) - a PROVE f[(a + d) + n] = g[a + n]
        OBVIOUS
      <3>1. CASE n = 0
        <4>1. d \in 0..d /\ a \in 0..a /\ (a + d) + n = a + d /\ a + n = a
          BY <1>0, <3>1
        <4> QED BY <1>7, <1>8, <4>1
      <3>2. CASE n # 0
        <4> DEFINE x == (a + d) + n
                   y == a + n
        <4>1. /\ x \in 1..Len(s) /\ y \in 1..Len(t) /\ y \in (a + 1)..Len(t) /\ x = y + d
              /\ n - 1 \in 0..(n - 1) /\ n - 1 <= Len(t) - a
              /\ x - 1 = (a + d) + (n - 1) /\ y - 1 = a + (n - 1)
          BY <1>0, <3>2
        <4> HIDE DEF x, y
        <4>2. f[x - 1] = g[y - 1]
          BY <2>1, <4>1
        <4>3. t[y] = s[x] /\ (x \in I <=> y \in J)
          BY <1>3, <4>1
        <4>4. f[x] = g[y]
          BY <1>6, <4>1, <4>2, <4>3
        <4> QED BY <4>4 DEF x, y
      <3> QED BY <3>1, <3>2
    <2> HIDE DEF A
    <2>2. Nat \subseteq A
      BY <2>1, SetInduction
    <2> QED BY <2>2 DEF A
  <1>10. Len(t) - a \in 0..(Len(t) - a) /\ (a + d) + (Len(t) - a) = Len(s) /\ a + (Len(t) - a) = Len(t)
    BY <1>0
  <1>11. f[Len(s)] = g[Len(t)]
    BY <1>9, <1>10
  <1> QED BY <1>4, <1>5, <1>11 DEF FirstLines

LEMMA OnlyAll ==
    ASSUME NEW t \in Seq(Lines), NEW J, 1..Len(t) \subseteq J
    PROVE  Only(t, J) = t
  <1>0. Len(t) \in Nat /\ \A n \in 1..Len(t) : t[n] \in Lines
    BY ElementOfSeq
  <1>1. PICK g : FirstLines(g, t, J)
    BY OnlyFacts
  <1>2. /\ g[0] = <<>>
        /\ \A n \in 0..Len(t) : g[n] \in Seq(Lines)
        /\ \A n \in 1..Len(t) : g[n] = Append(g[n - 1], t[n])
    BY <1>1 DEF FirstLines
  <1> DEFINE Is(n) == Len(g[n]) = n /\ \A i \in 1..n : g[n][i] = t[i]
             A == {n \in Nat : n <= Len(t) => Is(n)}
  <1>3. ASSUME NEW n \in Nat, \A m \in 0..(n - 1) : m \in A
        PROVE  n \in A
    <2> SUFFICES ASSUME n <= Len(t) PROVE Is(n)
      OBVIOUS
    <2>1. CASE n = 0
      BY <1>2, <2>1, EmptySeq
    <2>2. CASE n # 0
      <3>1. /\ n \in 1..Len(t) /\ n - 1 \in 0..(n - 1) /\ n - 1 <= Len(t) /\ n - 1 \in 0..Len(t)
            /\ (n - 1) + 1 = n
        BY <1>0, <2>2
      <3>2. Len(g[n - 1]) = n - 1 /\ \A i \in 1..(n - 1) : g[n - 1][i] = t[i]
        BY <1>3, <3>1
      <3> DEFINE q == g[n - 1]
      <3>3. q \in Seq(Lines) /\ t[n] \in Lines /\ g[n] = Append(q, t[n])
        BY <1>0, <1>2, <3>1
      <3> HIDE DEF q
      <3>4. /\ Len(g[n]) = Len(q) + 1 /\ \A i \in 1..Len(q) : g[n][i] = q[i]
            /\ g[n][Len(q) + 1] = t[n]
        BY <3>3, AppendProperties
      <3>5. Len(q) = n - 1 /\ \A i \in 1..(n - 1) : q[i] = t[i]
        BY <3>2 DEF q
      <3>6. \A i \in 1..n : i \in 1..(n - 1) \/ i = n
        BY <3>1
      <3> QED BY <3>1, <3>4, <3>5, <3>6
    <2> QED BY <2>1, <2>2
  <1> HIDE DEF A, Is
  <1>4. Nat \subseteq A
    BY <1>3, SetInduction
  <1>5. Is(Len(t)) /\ g[Len(t)] \in Seq(Lines)
    <2>1. Len(t) \in 0..Len(t)
      BY <1>0
    <2> QED BY <1>0, <1>2, <1>4, <2>1 DEF A
  <1>6. g[Len(t)] = t
    <2> DEFINE q == g[Len(t)]
    <2>1. q \in Seq(Lines) /\ Len(q) = Len(t) /\ \A i \in 1..Len(t) : q[i] = t[i]
      BY <1>5 DEF Is
    <2> HIDE DEF q
    <2>2. q = t
      BY <2>1, SeqEqual
    <2> QED BY <2>2 DEF q
  <1> QED BY <1>1, <1>6 DEF FirstLines

LEMMA OnlyTail ==
    ASSUME NEW s \in Seq(Lines), s # <<>>
    PROVE  Only(s, 2..Len(s)) = Tail(s)
  <1> DEFINE t == Tail(s)
             J == 1..Len(t)
             I == 2..Len(s)
             a == 0
             d == 1
  <1>1. /\ t \in Seq(Lines) /\ Len(t) = Len(s) - 1 /\ Len(s) \in Nat \ {0} /\ Len(t) \in Nat
        /\ \A i \in 1..Len(t) : t[i] = s[i + 1]
    BY EmptySeq, HeadTailProperties
  <1> HIDE DEF t
  <1>2. /\ a \in Nat /\ a <= Len(t) /\ d \in Nat /\ Len(s) = Len(t) + d
        /\ \A i \in 1..a : t[i] = s[i] /\ (i \in I <=> i \in J)
        /\ \A i \in (a + 1)..(a + d) : i \notin I
        /\ \A i \in (a + 1)..Len(t) : t[i] = s[i + d] /\ (i + d \in I <=> i \in J)
    BY <1>1
  <1> HIDE DEF I, J, a, d
  <1>3. Only(s, I) = Only(t, J)
    <2>1. Without(t, J, s, I, a, d)
      BY <1>1, <1>2 DEF Without
    <2> QED BY <2>1, OnlyCut
  <1>4. Only(t, J) = t
    BY <1>1, OnlyAll DEF J
  <1> QED BY <1>3, <1>4 DEF I, t

-----------------------------------------------------------------------------
(* The lines that C skips, a group at a time *)

Separators == {"elif", "else", "endif"}

\* Line b is the next directive of the conditional that line a is one of.
NextIs(s, a, b) ==
    /\ s \in Seq(Lines) /\ a \in 1..Len(s) /\ b \in (a + 1)..Len(s)
    /\ s[b].kind \in Separators /\ Level(s, a + 1, b) = 0
    /\ \A k \in (a + 1)..b : Level(s, a + 1, k) >= 0
    /\ \A i \in (a + 1)..(b - 1) : ~ (s[i].kind \in Separators /\ Level(s, a + 1, i) = 0)

LEMMA NextIsBounds ==
    ASSUME NEW s, NEW a, NEW b, NextIs(s, a, b)
    PROVE  /\ Len(s) \in Nat /\ a \in Nat \ {0} /\ b \in Nat /\ a < b /\ b <= Len(s)
           /\ a + 1 \in Nat /\ b + 1 \in Nat
  BY DEF NextIs

LEMMA LevelPast ==
    ASSUME NEW s, NEW a, NEW b, NextIs(s, a, b), NEW k \in (b + 1)..(Len(s) + 1)
    PROVE  /\ Level(s, a + 1, k) = Turn(s[b]) + Level(s, b + 1, k)
           /\ Level(s, b + 1, k) \in Int
  <1> DEFINE x == a + 1
             y == b + 1
  <1>1. /\ x \in Nat /\ b \in Nat /\ y \in Nat /\ k \in Nat /\ x <= b /\ b <= y /\ y <= k
        /\ b <= k /\ b <= b
    BY NextIsBounds
  <1>2. Level(s, x, b) = 0
    BY DEF NextIs
  <1>3. Level(s, b, y) = Turn(s[b])
    <2>1. Level(s, b, b) = 0 /\ Level(s, b, b + 1) = Level(s, b, b) + Turn(s[b])
      BY <1>1, LevelNext
    <2>2. Turn(s[b]) \in Int
      BY DEF Turn
    <2> QED BY <2>1, <2>2
  <1> HIDE DEF x, y
  <1>4. Level(s, x, k) = Level(s, x, b) + Level(s, b, k)
    BY <1>1, LevelSplit
  <1>5. Level(s, b, k) = Level(s, b, y) + Level(s, y, k)
    BY <1>1, LevelSplit
  <1>6. Level(s, y, k) \in Int /\ Level(s, b, k) \in Int
    BY <1>1, LevelNext
  <1>7. Level(s, x, k) = Turn(s[b]) + Level(s, y, k)
    BY <1>2, <1>3, <1>4, <1>5, <1>6
  <1> QED BY <1>6, <1>7 DEF x, y

\* How far the conditional goes.
Within(s, a, i) == \A k \in (a + 1)..i : Level(s, a + 1, k) >= 0

LEMMA WithinNext ==
    ASSUME NEW s, NEW a, NEW b, NextIs(s, a, b), NEW i \in (b + 1)..Len(s)
    PROVE  /\ s[b].kind # "endif" => (Within(s, a, i) <=> Within(s, b, i))
           /\ s[b].kind = "endif" => ~Within(s, a, i)
  <1>0. Len(s) \in Nat /\ a \in Nat \ {0} /\ b \in Nat /\ a < b /\ b <= Len(s)
    BY NextIsBounds
  <1>1. \A k \in (a + 1)..b : Level(s, a + 1, k) >= 0
    BY DEF NextIs
  <1>2. CASE s[b].kind # "endif"
    <2>1. Turn(s[b]) = 0
      BY <1>2 DEF NextIs, Separators, Turn, IfKinds
    <2>2. ASSUME NEW k \in (b + 1)..i PROVE Level(s, a + 1, k) = Level(s, b + 1, k)
      <3>1. k \in (b + 1)..(Len(s) + 1)
        BY <1>0
      <3> QED BY <2>1, <3>1, LevelPast
    <2>3. ASSUME Within(s, b, i) PROVE Within(s, a, i)
      <3> SUFFICES ASSUME NEW k \in (a + 1)..i PROVE Level(s, a + 1, k) >= 0
        BY DEF Within
      <3>1. k \in (a + 1)..b \/ k \in (b + 1)..i
        BY <1>0
      <3> QED BY <1>1, <2>2, <2>3, <3>1 DEF Within
    <2>4. ASSUME Within(s, a, i) PROVE Within(s, b, i)
      <3> SUFFICES ASSUME NEW k \in (b + 1)..i PROVE Level(s, b + 1, k) >= 0
        BY DEF Within
      <3>1. k \in (a + 1)..i
        BY <1>0
      <3> QED BY <2>2, <2>4, <3>1 DEF Within
    <2> QED BY <1>2, <2>3, <2>4
  <1>3. CASE s[b].kind = "endif"
    <2>1. Turn(s[b]) = -1
      BY <1>3 DEF Turn, IfKinds
    <2> DEFINE k == b + 1
    <2>2. k \in (b + 1)..(Len(s) + 1) /\ k \in (a + 1)..i /\ k \in Nat
      BY <1>0
    <2>3. Level(s, a + 1, k) = Turn(s[b]) + Level(s, b + 1, k)
      BY <2>2, LevelPast
    <2>4. Level(s, k, k) = 0
      BY <2>2, LevelNext
    <2>5. Level(s, a + 1, k) = -1
      BY <2>1, <2>3, <2>4
    <2> HIDE DEF k
    <2>6. ~(Level(s, a + 1, k) >= 0)
      BY <2>5
    <2> QED BY <1>3, <2>2, <2>6 DEF Within
  <1> QED BY <1>2, <1>3

LEMMA GroupsBounds ==
    ASSUME NEW s, NEW a \in 1..Len(s), Len(s) \in Nat
    PROVE  Groups(s, a) \subseteq a..Len(s) /\ a \in Groups(s, a)
  BY DEF Groups

LEMMA GroupsNext ==
    ASSUME NEW s, NEW a, NEW b, NextIs(s, a, b)
    PROVE  /\ \A i \in (a + 1)..(b - 1) : i \notin Groups(s, a)
           /\ a \in Groups(s, a) /\ b \in Groups(s, a)
           /\ s[b].kind # "endif" => Groups(s, a) = {a} \cup Groups(s, b)
  <1>0. Len(s) \in Nat /\ a \in Nat \ {0} /\ b \in Nat /\ a < b /\ b <= Len(s)
    BY NextIsBounds
  <1>1. ASSUME NEW i \in (a + 1)..(b - 1)
        PROVE  i \notin Groups(s, a)
    <2>1. ~ (s[i].kind \in Separators /\ Level(s, a + 1, i) = 0) /\ i # a
      BY <1>0 DEF NextIs
    <2> QED BY <2>1 DEF Groups, InChain, Separators
  <1>2. a \in Groups(s, a)
    BY DEF Groups
  <1>3. b \in Groups(s, a)
    <2>1. InChain(s, a, b, Separators)
      BY DEF NextIs, InChain
    <2>2. b \in (a + 1)..Len(s)
      BY <1>0
    <2> QED BY <2>1, <2>2 DEF Groups, Separators
  <1>4. ASSUME s[b].kind # "endif"
        PROVE  Groups(s, a) = {a} \cup Groups(s, b)
    <2>1. Turn(s[b]) = 0
      BY <1>4 DEF NextIs, Separators, Turn, IfKinds
    <2>2. ASSUME NEW i \in (b + 1)..Len(s)
          PROVE  InChain(s, a, i, Separators) <=> InChain(s, b, i, Separators)
      <3>1. Level(s, a + 1, i) = Level(s, b + 1, i)
        <4>1. i \in (b + 1)..(Len(s) + 1)
          BY <1>0
        <4> QED BY <2>1, <4>1, LevelPast
      <3>2. Within(s, a, i) <=> Within(s, b, i)
        BY <1>4, WithinNext
      <3> QED BY <3>1, <3>2 DEF InChain, Within
    <2>3. ASSUME NEW i \in Groups(s, a)
          PROVE  i \in {a} \cup Groups(s, b)
      <3>1. i = a \/ (i \in (a + 1)..Len(s) /\ InChain(s, a, i, Separators))
        BY DEF Groups, Separators
      <3>2. i = a \/ i = b \/ i \in (b + 1)..Len(s) \/ i \in (a + 1)..(b - 1)
        BY <1>0, <3>1
      <3>3. CASE i \in (b + 1)..Len(s)
        <4>1. i # a
          BY <1>0, <3>3
        <4> QED BY <2>2, <3>1, <3>3, <4>1 DEF Groups, Separators
      <3> QED BY <1>1, <3>2, <3>3 DEF Groups
    <2>4. ASSUME NEW i \in Groups(s, b)
          PROVE  i \in Groups(s, a)
      <3>1. i = b \/ (i \in (b + 1)..Len(s) /\ InChain(s, b, i, Separators))
        BY DEF Groups, Separators
      <3>2. CASE i \in (b + 1)..Len(s) /\ InChain(s, b, i, Separators)
        <4>1. i \in (a + 1)..Len(s) /\ InChain(s, a, i, Separators)
          BY <1>0, <2>2, <3>2
        <4> QED BY <4>1 DEF Groups, Separators
      <3> QED BY <1>3, <3>1, <3>2
    <2> QED BY <1>2, <2>3, <2>4
  <1> QED BY <1>1, <1>2, <1>3, <1>4

LEMMA SkippedIs ==
    ASSUME NEW s, NEW a, NEW taken, NEW env, NEW i
    PROVE  i \in Skipped(s, a, taken, env) <=>
               /\ i \in (a + 1)..Len(s) /\ i \notin Groups(s, a)
               /\ s[a].kind # "endif" /\ Within(s, a, i)
               /\ taken \/ \A c \in Chosen(s, Groups(s, a), env) : ~InGroup(Groups(s, a), c, i)
  BY DEF Skipped, Within

LEMMA SkippedNext ==
    ASSUME NEW s, NEW a, NEW b, NextIs(s, a, b), s[a].kind # "endif", NEW taken, NEW env, NEW i
    PROVE  i \in Skipped(s, a, taken, env) <=>
               \/ i \in (a + 1)..(b - 1) /\ (taken \/ ~Holds(s[a], env))
               \/ i \in Skipped(s, b, taken \/ Holds(s[a], env), env)
  <1> DEFINE G == Groups(s, a)
             H == Groups(s, b)
             held == Holds(s[a], env)
  <1>0. /\ Len(s) \in Nat /\ a \in Nat \ {0} /\ b \in Nat /\ a < b /\ b <= Len(s)
        /\ a \in 1..Len(s) /\ b \in 1..Len(s)
    BY NextIsBounds
  <1>1. /\ G \subseteq a..Len(s) /\ a \in G /\ b \in G /\ H \subseteq b..Len(s) /\ b \in H
        /\ \A j \in (a + 1)..(b - 1) : j \notin G
        /\ s[b].kind # "endif" => G = {a} \cup H
    BY <1>0, GroupsBounds, GroupsNext
  <1>2. i \in Skipped(s, a, taken, env) <=>
            /\ i \in (a + 1)..Len(s) /\ i \notin G /\ Within(s, a, i)
            /\ taken \/ \A c \in Chosen(s, G, env) : ~InGroup(G, c, i)
    BY SkippedIs
  <1>3. i \in Skipped(s, b, taken \/ held, env) <=>
            /\ i \in (b + 1)..Len(s) /\ i \notin H
            /\ s[b].kind # "endif" /\ Within(s, b, i)
            /\ taken \/ held \/ \A c \in Chosen(s, H, env) : ~InGroup(H, c, i)
    BY SkippedIs
  <1>4. Within(s, a, b)
    BY DEF NextIs, Within
  <1>5. \A c : c \in Chosen(s, G, env) <=>
            c \in G /\ Holds(s[c], env) /\ \A x \in G : x < c => ~Holds(s[x], env)
    BY DEF Chosen
  <1>6. \A c : c \in Chosen(s, H, env) <=>
            c \in H /\ Holds(s[c], env) /\ \A x \in H : x < c => ~Holds(s[x], env)
    BY DEF Chosen
  <1>7. \A c : InGroup(G, c, i) <=> c < i /\ \A g \in G : g <= c \/ i < g
    BY DEF InGroup
  <1>8. \A c : InGroup(H, c, i) <=> c < i /\ \A g \in H : g <= c \/ i < g
    BY DEF InGroup
  <1>9. CASE i \in (a + 1)..(b - 1)
    <2>1. i \notin G /\ i \in (a + 1)..Len(s) /\ i \notin (b + 1)..Len(s) /\ i < b /\ a < i /\ i \in Nat
      BY <1>0, <1>1, <1>9
    <2>2. Within(s, a, i)
      <3>1. \A k \in (a + 1)..i : k \in (a + 1)..b
        BY <1>0, <2>1
      <3> QED BY <1>4, <3>1 DEF Within
    <2>3. \A g \in G : g <= a \/ i < g
      <3> SUFFICES ASSUME NEW g \in G, ~(g <= a), ~(i < g) PROVE FALSE
        OBVIOUS
      <3>1. g \in a..Len(s)
        BY <1>1
      <3>2. g \in (a + 1)..(b - 1)
        BY <1>0, <2>1, <3>1
      <3> QED BY <1>1, <3>2
    <2>4. \A c \in G : InGroup(G, c, i) => c = a
      <3> SUFFICES ASSUME NEW c \in G, InGroup(G, c, i), c # a PROVE FALSE
        OBVIOUS
      <3>1. c < i /\ c \in a..Len(s)
        BY <1>1, <1>7
      <3>2. c \in (a + 1)..(b - 1)
        BY <1>0, <2>1, <3>1
      <3> QED BY <1>1, <3>2
    <2>5. InGroup(G, a, i)
      BY <1>7, <2>1, <2>3
    <2>6. a \in Chosen(s, G, env) <=> held
      <3>1. \A x \in G : ~(x < a)
        BY <1>0, <1>1
      <3> HIDE DEF G
      <3> QED BY <1>1, <1>5, <3>1
    <2>7. (\A c \in Chosen(s, G, env) : ~InGroup(G, c, i)) <=> ~held
      <3>1. \A c \in Chosen(s, G, env) : c \in G
        BY <1>5
      <3> HIDE DEF G, held
      <3> QED BY <2>4, <2>5, <2>6, <3>1
    <2> HIDE DEF G, H, held
    <2>8. i \in Skipped(s, a, taken, env) <=> (taken \/ ~held)
      BY <1>2, <2>1, <2>2, <2>7
    <2>9. i \notin Skipped(s, b, taken \/ held, env)
      BY <1>3, <2>1
    <2> QED BY <1>9, <2>8, <2>9 DEF held
  <1>10. CASE i \in (b + 1)..Len(s)
    <2>1. i \notin (a + 1)..(b - 1) /\ i \in (a + 1)..Len(s) /\ b < i /\ a < i /\ i \in Nat /\ i # a
      BY <1>0, <1>10
    <2>2. CASE s[b].kind = "endif"
      <3>1. ~Within(s, a, i)
        BY <1>10, <2>2, WithinNext
      <3> HIDE DEF G, H, held
      <3>2. i \notin Skipped(s, a, taken, env)
        BY <1>2, <3>1
      <3>3. i \notin Skipped(s, b, taken \/ held, env)
        BY <1>3, <2>2
      <3> QED BY <2>1, <3>2, <3>3 DEF held
    <2>3. CASE s[b].kind # "endif"
      <3>1. Within(s, a, i) <=> Within(s, b, i)
        BY <1>10, <2>3, WithinNext
      <3>2. G = {a} \cup H
        BY <1>1, <2>3
      <3>3. ~InGroup(G, a, i)
        <4>1. ~(b <= a) /\ ~(i < b)
          BY <1>0, <2>1
        <4> HIDE DEF G, H
        <4> QED BY <1>1, <1>7, <4>1
      <3>4. \A c \in H : a < c /\ a <= c
        BY <1>0, <1>1
      <3> HIDE DEF G, H, held
      <3>5. \A c \in H : InGroup(G, c, i) <=> InGroup(H, c, i)
        BY <1>7, <1>8, <3>2, <3>4
      <3>6. \A c \in H : c \in Chosen(s, G, env) <=> ~held /\ c \in Chosen(s, H, env)
        <4>1. held = Holds(s[a], env)
          BY DEF held
        <4> QED BY <1>5, <1>6, <3>2, <3>4, <4>1
      <3>7. \A c \in Chosen(s, G, env) : c = a \/ c \in H
        BY <1>5, <3>2
      <3>8. \A c \in Chosen(s, H, env) : c \in H
        BY <1>6
      <3>9. (\A c \in Chosen(s, G, env) : ~InGroup(G, c, i)) <=>
                held \/ \A c \in Chosen(s, H, env) : ~InGroup(H, c, i)
        BY <3>3, <3>5, <3>6, <3>7, <3>8
      <3>10. i \notin G <=> i \notin H
        BY <2>1, <3>2
      <3>11. i \in Skipped(s, a, taken, env) <=> i \in Skipped(s, b, taken \/ held, env)
        BY <1>2, <1>3, <1>10, <2>1, <2>3, <3>1, <3>9, <3>10
      <3> QED BY <2>1, <3>11 DEF held
    <2> QED BY <2>2, <2>3
  <1>11. CASE i = b
    <2>1. i \in G /\ i \notin (b + 1)..Len(s) /\ i \notin (a + 1)..(b - 1)
      BY <1>0, <1>1, <1>11
    <2> HIDE DEF G, H, held
    <2> QED BY <1>2, <1>3, <2>1 DEF held
  <1>12. CASE i \notin (a + 1)..Len(s)
    <2>1. i \notin (b + 1)..Len(s) /\ i \notin (a + 1)..(b - 1)
      BY <1>0, <1>12
    <2> HIDE DEF G, H, held
    <2> QED BY <1>2, <1>3, <1>12, <2>1 DEF held
  <1>13. \/ i \in (a + 1)..(b - 1) \/ i \in (b + 1)..Len(s) \/ i = b \/ i \notin (a + 1)..Len(s)
    BY <1>0
  <1> QED BY <1>9, <1>10, <1>11, <1>12, <1>13

\* From line x on, t is what s is from line x + d on.
FromOn(t, x, s, d) ==
    /\ s \in Seq(Lines) /\ t \in Seq(Lines) /\ x \in 1..Len(t) /\ d \in Nat
    /\ Len(s) = Len(t) + d
    /\ \A i \in x..Len(t) : t[i] = s[i + d]

LEMMA FromOnLevel ==
    ASSUME NEW s, NEW t, NEW x, NEW d, FromOn(t, x, s, d), NEW k \in (x + 1)..(Len(t) + 1)
    PROVE  Level(s, x + d + 1, k + d) = Level(t, x + 1, k)
  <1> DEFINE a == x + 1
             b == x + d + 1
             e == k + d
  <1>1. /\ a \in Nat /\ k \in Nat /\ b \in Nat /\ e \in Nat /\ a <= k /\ b - a = e - k /\ b - a = d
        /\ \A j \in a..(k - 1) : j \in x..Len(t)
    BY DEF FromOn
  <1>2. Same(t, a, k, s, b)
    BY <1>1 DEF FromOn, Same
  <1> HIDE DEF a, b, e
  <1>3. Level(s, b, e) = Level(t, a, k)
    BY <1>1, <1>2, LevelMove
  <1> QED BY <1>3 DEF a, b, e

LEMMA FromOnWithin ==
    ASSUME NEW s, NEW t, NEW x, NEW d, FromOn(t, x, s, d), NEW i \in (x + 1)..Len(t)
    PROVE  Within(s, x + d, i + d) <=> Within(t, x, i)
  <1>0. Len(t) \in Nat /\ x \in Nat /\ d \in Nat
    BY DEF FromOn
  <1>1. \A k \in (x + 1)..i : Level(s, x + d + 1, k + d) = Level(t, x + 1, k)
    BY <1>0, FromOnLevel
  <1>2. ASSUME Within(s, x + d, i + d) PROVE Within(t, x, i)
    <2> SUFFICES ASSUME NEW k \in (x + 1)..i PROVE Level(t, x + 1, k) >= 0
      BY DEF Within
    <2>1. k + d \in (x + d + 1)..(i + d)
      BY <1>0
    <2> QED BY <1>1, <1>2, <2>1 DEF Within
  <1>3. ASSUME Within(t, x, i) PROVE Within(s, x + d, i + d)
    <2> SUFFICES ASSUME NEW k \in (x + d + 1)..(i + d) PROVE Level(s, x + d + 1, k) >= 0
      BY DEF Within
    <2>1. k - d \in (x + 1)..i /\ (k - d) + d = k
      BY <1>0
    <2>2. Level(t, x + 1, k - d) >= 0
      BY <1>3, <2>1 DEF Within
    <2>3. Level(s, x + d + 1, (k - d) + d) = Level(t, x + 1, k - d)
      BY <1>1, <2>1
    <2> QED BY <2>1, <2>2, <2>3
  <1> QED BY <1>2, <1>3

LEMMA FromOnGroups ==
    ASSUME NEW s, NEW t, NEW x, NEW d, FromOn(t, x, s, d)
    PROVE  \A i \in x..Len(t) : i + d \in Groups(s, x + d) <=> i \in Groups(t, x)
  <1>0. Len(t) \in Nat /\ x \in Nat /\ d \in Nat /\ Len(s) = Len(t) + d
    BY DEF FromOn
  <1> TAKE i \in x..Len(t)
  <1>1. CASE i = x
    <2>1. i + d = x + d
      BY <1>1
    <2> QED BY <1>1, <2>1 DEF Groups
  <1>2. CASE i # x
    <2>1. i \in (x + 1)..Len(t) /\ i + d \in (x + d + 1)..Len(s) /\ i + d # x + d /\ i \in (x + 1)..(Len(t) + 1)
      BY <1>0, <1>2
    <2>2. Level(s, x + d + 1, i + d) = Level(t, x + 1, i)
      BY <2>1, FromOnLevel
    <2>3. Within(s, x + d, i + d) <=> Within(t, x, i)
      BY <2>1, FromOnWithin
    <2>4. t[i] = s[i + d]
      BY DEF FromOn
    <2>5. InChain(s, x + d, i + d, Separators) <=> InChain(t, x, i, Separators)
      BY <2>2, <2>3, <2>4 DEF InChain, Within
    <2> QED BY <1>2, <2>1, <2>5 DEF Groups, Separators
  <1> QED BY <1>1, <1>2

LEMMA SkippedMoved ==
    ASSUME NEW s, NEW t, NEW x, NEW d, FromOn(t, x, s, d), NEW taken, NEW env,
           NEW i \in (x + 1)..Len(t)
    PROVE  i + d \in Skipped(s, x + d, taken, env) <=> i \in Skipped(t, x, taken, env)
  <1> DEFINE y == x + d
             G == Groups(s, y)
             H == Groups(t, x)
  <1>0. /\ Len(t) \in Nat /\ Len(s) \in Nat /\ x \in Nat /\ d \in Nat /\ Len(s) = Len(t) + d
        /\ x \in x..Len(t) /\ x \in 1..Len(t) /\ y \in 1..Len(s) /\ y \in Nat
    BY DEF FromOn
  <1>1. G \subseteq y..Len(s) /\ H \subseteq x..Len(t)
    BY <1>0, GroupsBounds
  <1>2. \A c \in x..Len(t) : c + d \in G <=> c \in H
    BY FromOnGroups
  <1>3. \A c \in H : c + d \in G /\ t[c] = s[c + d] /\ c \in Nat
    BY <1>0, <1>1, <1>2 DEF FromOn
  <1>4. \A c \in G : c - d \in H /\ (c - d) + d = c /\ c \in Nat
    <2> TAKE c \in G
    <2>1. c \in y..Len(s)
      BY <1>1
    <2>2. c - d \in x..Len(t) /\ (c - d) + d = c
      BY <1>0, <2>1
    <2> QED BY <1>0, <1>2, <2>1, <2>2
  <1>5. i \in x..Len(t) /\ i + d \in (y + 1)..Len(s) /\ i \in Nat /\ i + d \in Nat
    BY <1>0
  <1>6. t[x] = s[y]
    BY <1>0 DEF FromOn
  <1>7. Within(s, y, i + d) <=> Within(t, x, i)
    BY FromOnWithin
  <1>8. i + d \in Skipped(s, y, taken, env) <=>
            /\ i + d \in (y + 1)..Len(s) /\ i + d \notin G
            /\ s[y].kind # "endif" /\ Within(s, y, i + d)
            /\ taken \/ \A c \in Chosen(s, G, env) : ~InGroup(G, c, i + d)
    BY SkippedIs
  <1>9. i \in Skipped(t, x, taken, env) <=>
            /\ i \in (x + 1)..Len(t) /\ i \notin H
            /\ t[x].kind # "endif" /\ Within(t, x, i)
            /\ taken \/ \A c \in Chosen(t, H, env) : ~InGroup(H, c, i)
    BY SkippedIs
  <1> HIDE DEF y, G, H
  <1>10. \A c \in H : InGroup(G, c + d, i + d) <=> InGroup(H, c, i)
    <2> TAKE c \in H
    <2>1. c \in Nat /\ c + d \in Nat /\ (c + d < i + d <=> c < i)
      BY <1>0, <1>3, <1>5
    <2>2. ASSUME \A g \in G : g <= c + d \/ i + d < g
          PROVE  \A g \in H : g <= c \/ i < g
      <3> TAKE g \in H
      <3>1. g + d \in G /\ g \in Nat
        BY <1>3
      <3>2. g + d <= c + d \/ i + d < g + d
        BY <2>2, <3>1
      <3> QED BY <1>0, <1>5, <2>1, <3>1, <3>2
    <2>3. ASSUME \A g \in H : g <= c \/ i < g
          PROVE  \A g \in G : g <= c + d \/ i + d < g
      <3> TAKE g \in G
      <3>1. g - d \in H /\ (g - d) + d = g /\ g \in Nat
        BY <1>4
      <3>2. g - d <= c \/ i < g - d
        BY <2>3, <3>1
      <3> QED BY <1>0, <1>5, <2>1, <3>1, <3>2
    <2> QED BY <2>1, <2>2, <2>3 DEF InGroup
  <1>11. \A c \in H : c + d \in Chosen(s, G, env) <=> c \in Chosen(t, H, env)
    <2> TAKE c \in H
    <2>1. c \in Nat /\ c + d \in G /\ t[c] = s[c + d]
      BY <1>3
    <2>2. ASSUME \A b \in G : b < c + d => ~Holds(s[b], env)
          PROVE  \A b \in H : b < c => ~Holds(t[b], env)
      <3> TAKE b \in H
      <3>1. b + d \in G /\ b \in Nat /\ t[b] = s[b + d]
        BY <1>3
      <3>2. b < c => b + d < c + d
        BY <1>0, <2>1, <3>1
      <3> QED BY <2>2, <3>1, <3>2
    <2>3. ASSUME \A b \in H : b < c => ~Holds(t[b], env)
          PROVE  \A b \in G : b < c + d => ~Holds(s[b], env)
      <3> TAKE b \in G
      <3>1. b - d \in H /\ (b - d) + d = b /\ b \in Nat
        BY <1>4
      <3>2. t[b - d] = s[b]
        BY <1>3, <3>1
      <3>3. b < c + d => b - d < c
        BY <1>0, <2>1, <3>1
      <3> QED BY <2>3, <3>1, <3>2, <3>3
    <2> QED BY <2>1, <2>2, <2>3 DEF Chosen
  <1>12. (\A c \in Chosen(s, G, env) : ~InGroup(G, c, i + d)) <=>
            (\A c \in Chosen(t, H, env) : ~InGroup(H, c, i))
    <2>1. \A c \in Chosen(t, H, env) : c \in H
      BY DEF Chosen
    <2>2. \A c \in Chosen(s, G, env) : c - d \in H /\ (c - d) + d = c
      BY <1>4 DEF Chosen
    <2>3. ASSUME \A c \in Chosen(s, G, env) : ~InGroup(G, c, i + d)
          PROVE  \A c \in Chosen(t, H, env) : ~InGroup(H, c, i)
      BY <1>10, <1>11, <2>1, <2>3
    <2>4. ASSUME \A c \in Chosen(t, H, env) : ~InGroup(H, c, i)
          PROVE  \A c \in Chosen(s, G, env) : ~InGroup(G, c, i + d)
      <3> TAKE c \in Chosen(s, G, env)
      <3>1. c - d \in H /\ (c - d) + d = c
        BY <2>2
      <3> DEFINE b == c - d
      <3>2. b \in H /\ b + d = c /\ b + d \in Chosen(s, G, env)
        BY <3>1
      <3> HIDE DEF b
      <3>3. ~InGroup(H, b, i)
        BY <1>11, <2>4, <3>2
      <3> QED BY <1>10, <3>2, <3>3
    <2> QED BY <2>3, <2>4
  <1>13. i + d \in G <=> i \in H
    BY <1>2, <1>5
  <1>14. i + d \in Skipped(s, y, taken, env) <=> i \in Skipped(t, x, taken, env)
    BY <1>5, <1>6, <1>7, <1>8, <1>9, <1>12, <1>13
  <1> QED BY <1>14 DEF y

-----------------------------------------------------------------------------
(* The vocabulary of ConditionalInclusion is that of Directives *)

LEMMA SameLevel ==
    \A s, i, j : C!Level(s, i, j) = Level(s, i, j)
  BY DEF C!Level, Level, C!Quantify, Quantify, C!Cardinality, Cardinality, C!IfKinds, IfKinds

LEMMA SameHolds ==
    \A l, e : C!Holds(l, e) = Holds(l, e)
  BY DEF C!Holds, Holds, C!NoBody, NoBody

LEMMA SameOnly ==
    \A s, I : C!Only(s, I) = Only(s, I)
  BY DEF C!Only, Only

LEMMA SameGroups ==
    \A s, a : C!Groups(s, a) = Groups(s, a)
  <1>1. \A s, i, j, K : C!InChain(s, i, j, K) = InChain(s, i, j, K)
    BY SameLevel DEF C!InChain, InChain
  <1> QED BY <1>1 DEF C!Groups, Groups

LEMMA SameSkipped ==
    \A s, a, taken, e : C!Skipped(s, a, taken, e) = Skipped(s, a, taken, e)
  <1>1. \A s, G, e : C!Chosen(s, G, e) = Chosen(s, G, e)
    BY SameHolds DEF C!Chosen, Chosen
  <1>2. \A G, c, i : C!InGroup(G, c, i) = InGroup(G, c, i)
    BY DEF C!InGroup, InGroup
  <1>3. \A s, i, j : C!Level(s, i, j) = Level(s, i, j)
    BY SameLevel
  <1>4. \A s, a : C!Groups(s, a) = Groups(s, a)
    BY SameGroups
  <1> QED BY <1>1, <1>2, <1>3, <1>4 DEF C!Skipped, Skipped

-----------------------------------------------------------------------------
(* handle_if_directives decides as C does *)

\* cond and any_cond_true know the groups handled.
Marks ==
    pc = "groups" =>
        /\ at = 1 => (cond <=> Holds(rest[1], macros)) /\ (any_cond_true <=> cond)
        /\ if_cond \/ cond => any_cond_true

LEMMA EvaluateIfHolds ==
    ASSUME NEW l, l.kind \in IfKinds \cup {"elif"}
    PROVE  EvaluateIf(l) <=> Holds(l, macros)
  <1>1. CASE l.kind = "ifndef"
    BY <1>1 DEF EvaluateIf, Holds
  <1>2. CASE l.kind = "ifdef"
    BY <1>2 DEF EvaluateIf, Holds
  <1>3. CASE l.kind \in {"if", "elif"}
    BY <1>3 DEF EvaluateIf, Holds
  <1> QED BY <1>1, <1>2, <1>3 DEF IfKinds

AllBareElifs == \A f \in Files : BareElifs(f)

\* The expansion leaves an #elif alone that has no parentheses.
LEMMA ElifsUnchanged ==
    ASSUME AllBareElifs, NEW l \in Lines, l.kind = "elif"
    PROVE  ElifExpanded(l) = l
  <1>1. PICK f \in Files : \E i \in DOMAIN f : l = f[i]
    BY DEF Lines, Range
  <1>2. ~Parenthesised(l)
    BY <1>1 DEF AllBareElifs, BareElifs
  <1> QED BY Zenon, <1>2 DEF ElifExpanded

LEMMA GroupDecides ==
    ASSUME AllBareElifs, TInv, Short(rest), Memory, Marks, pc = "groups", rest[at].kind # "endif"
    PROVE  /\ Removed <=> Taken \/ ~Holds(rest[at], macros)
           /\ rest[at].kind # "else" => (AnyTrue <=> Taken \/ Holds(rest[at], macros))
  <1>1. /\ at \in 1..Len(rest) /\ rest[1].kind \in IfKinds /\ rest[at].kind \in Openers
    BY DEF TInv, Position
  <1>2. CASE rest[at].kind \in IfKinds
    <2>1. at = 1
      BY <1>1, <1>2 DEF Memory
    <2>2. ~Taken /\ rest[at].kind # "elif" /\ rest[at].kind # "else"
      BY <1>2, <2>1 DEF Taken, IfKinds
    <2>3. GroupCond = cond
      BY <2>2 DEF GroupCond
    <2>4. (cond <=> Holds(rest[at], macros)) /\ (any_cond_true <=> cond)
      BY <2>1 DEF Marks
    <2>5. (Removed <=> ~GroupCond) /\ (AnyTrue <=> any_cond_true)
      BY <2>2 DEF Removed, AnyTrue
    <2> QED BY <2>2, <2>3, <2>4, <2>5
  <1>3. CASE rest[at].kind = "elif"
    <2>1. at > 1 /\ (any_cond_true <=> if_cond \/ cond)
      BY <1>3, TwoElifs DEF Marks
    <2>2. Taken <=> any_cond_true
      BY <2>1 DEF Taken
    <2>3. EvaluateIf(rest[at]) <=> Holds(rest[at], macros)
      BY <1>3, EvaluateIfHolds
    <2>4. GroupCond <=> ~if_cond /\ ~cond /\ EvaluateIf(rest[at])
      <3>1. GroupCond <=> ~if_cond /\ ~cond /\ EvaluateIf(ElifExpanded(rest[at]))
        BY <1>3 DEF GroupCond
      <3>2. rest[at] \in Lines
        BY <1>1, ElementOfSeq DEF TInv
      <3>3. ElifExpanded(rest[at]) = rest[at]
        BY <1>3, <3>2, ElifsUnchanged
      <3> QED BY <3>1, <3>3
    <2>5. (Removed <=> ~GroupCond) /\ (AnyTrue <=> any_cond_true \/ GroupCond)
      BY <1>3 DEF Removed, AnyTrue
    <2> QED BY <2>1, <2>2, <2>3, <2>4, <2>5
  <1>4. CASE rest[at].kind = "else"
    <2>1. at > 1
      BY <1>1, <1>4 DEF IfKinds
    <2>2. Removed <=> any_cond_true
      BY <1>4 DEF Removed, AnyTrue
    <2>3. Holds(rest[at], macros)
      BY <1>4 DEF Holds
    <2>4. Taken <=> any_cond_true
      BY <2>1 DEF Taken
    <2> QED BY <1>4, <2>2, <2>3, <2>4
  <1> QED BY <1>1, <1>2, <1>3, <1>4 DEF Openers

\* Behind an #else comes the #endif.
LEMMA ElseEnds ==
    ASSUME TInv, Memory, ElseLast(rest), pc = "groups", rest[at].kind = "else",
           NEW last, GroupSteps(last)
    PROVE  rest[last].kind = "endif"
  <1>1. /\ at \in 1..Len(rest) /\ rest[1].kind \in IfKinds /\ Len(rest) \in Nat
        /\ DOMAIN rest = 1..Len(rest) /\ at > 1
    <2>1. rest \in Seq(Lines) /\ at \in 1..Len(rest) /\ rest[1].kind \in IfKinds
      BY DEF TInv, Position
    <2>2. at # 1
      BY <2>1 DEF IfKinds
    <2> QED BY <2>1, <2>2, LenProperties
  <1>2. last \in (at + 1)..Len(rest) /\ rest[last].kind \in {"elif", "else", "endif"}
    BY DEF GroupSteps
  <1>3. Level(rest, 2, last) = 0 /\ \A k \in 2..last : Level(rest, 2, k) >= 0
    BY LevelToEnd
  <1>4. Level(rest, 2, at) = 0 /\ \A k \in 2..at : Level(rest, 2, k) >= 0
    BY <1>1 DEF Memory
  <1>5. 1 + 1 = 2 /\ 1 \in DOMAIN rest /\ at \in 2..Len(rest) /\ last \in 2..Len(rest) /\ at < last
    BY <1>1, <1>2
  <1>6. InChain(rest, 1, at, {"else"})
    BY <1>4, <1>5 DEF InChain
  <1>7. ASSUME rest[last].kind \in {"elif", "else"} PROVE FALSE
    <2>1. InChain(rest, 1, last, {"elif", "else"})
      BY <1>3, <1>5, <1>7 DEF InChain
    <2>2. ~ \E j, k \in (1 + 1)..Len(rest) :
                j < k /\ InChain(rest, 1, j, {"else"}) /\ InChain(rest, 1, k, {"elif", "else"})
      BY <1>1, <1>5 DEF ElseLast
    <2> QED BY <1>5, <1>6, <2>1, <2>2
  <1> QED BY <1>2, <1>7

-----------------------------------------------------------------------------
(* A group handled is no step of C *)

\* The group goes if C skips it.
LEMMA GroupRemoves ==
    ASSUME FInv, Group
    PROVE  \E last : /\ GroupSteps(last) /\ NextIs(rest, at, last)
                     /\ Removed => IsCut(rest', rest, at, last) /\ at' = at + 1
                     /\ ~Removed => rest' = rest /\ at' = last
  <1> DEFINE E == GroupEnds
             last == Min(E)
             cut == SubSeq(rest, 1, at) \o SubSeq(rest, last, Len(rest))
  <1>1. GroupSteps(last)
    BY GroupGoesOn
  <1>2. /\ at \in 1..Len(rest) /\ at \in Nat /\ Len(rest) \in Nat /\ rest \in Seq(Lines) /\ pc = "groups"
    BY DEF FInv, TInv, Position, Group
  <1>3. /\ last \in (at + 1)..Len(rest) /\ rest[last].kind \in Separators
        /\ Level(rest, at + 1, last) = 0
        /\ \A k \in (at + 1)..last : Level(rest, at + 1, k) >= 0
    BY <1>1 DEF GroupSteps, Separators
  <1>4. E # {}
    <2>1. Drops(rest, at)
      <3>1. rest[at].kind \in Openers
        BY <1>2 DEF FInv, TInv, Position, Group
      <3> QED BY <1>2, <3>1 DEF FInv, Ended
    <2> QED BY <1>2, <2>1, GroupEndExists DEF FInv
  <1>5. \A e \in E : last <= e
    <2>1. E \subseteq Nat
      BY <1>2 DEF GroupEnds
    <2> HIDE DEF E
    <2> QED BY <1>4, <2>1, MinOfNaturals
  <1>6. ASSUME NEW i \in (at + 1)..(last - 1)
        PROVE  ~ (rest[i].kind \in Separators /\ Level(rest, at + 1, i) = 0)
    <2>1. i \in (at + 1)..Len(rest) /\ ~(last <= i)
      BY <1>2, <1>3
    <2>2. i \notin E
      BY <1>5, <2>1
    <2> QED BY <2>1, <2>2 DEF GroupEnds, Separators
  <1>7. /\ rest' = IF Removed THEN cut ELSE rest
        /\ at' = IF Removed THEN at + 1 ELSE last
    BY <1>4 DEF Group
  <1> HIDE DEF last
  <1>8. IsCut(cut, rest, at, last)
    BY <1>2, <1>3, CutFacts
  <1>9. NextIs(rest, at, last)
    BY <1>2, <1>3, <1>6 DEF NextIs
  <1> HIDE DEF cut
  <1>10. /\ Removed => IsCut(rest', rest, at, last) /\ at' = at + 1
         /\ ~Removed => rest' = rest /\ at' = last
    BY <1>7, <1>8
  <1> QED BY <1>1, <1>9, <1>10

\* What C skips from line a on is behind line a.
LEMMA SkippedBehind ==
    ASSUME NEW s, NEW a, NEW taken, NEW env, NEW i \in Skipped(s, a, taken, env)
    PROVE  i \in (a + 1)..Len(s) /\ s[a].kind # "endif"
  BY SkippedIs

\* The same lines are skipped however it is said that a group has been taken.
LEMMA SkippedSame ==
    ASSUME NEW s, NEW a, NEW x, NEW y, NEW env, (x <=> y) \/ s[a].kind = "endif", NEW i
    PROVE  i \in Skipped(s, a, x, env) <=> i \in Skipped(s, a, y, env)
  BY SkippedIs

\* What is skipped before and after a step of handle_if_directives.
LEMMA SkippedSteps ==
    ASSUME AllBareElifs, TInv, Short(rest), ElseLast(rest), Memory, Marks,
           pc = "groups", rest[at].kind # "endif",
           NEW last, GroupSteps(last), NextIs(rest, at, last), NEW i
    PROVE  i \in Skipped(rest, at, Taken, macros) <=>
               \/ i \in (at + 1)..(last - 1) /\ Removed
               \/ i \in Skipped(rest, last, Taken', macros)
  <1> DEFINE taken == Taken
             held == Holds(rest[at], macros)
  <1>1. i \in Skipped(rest, at, taken, macros) <=>
            \/ i \in (at + 1)..(last - 1) /\ (taken \/ ~held)
            \/ i \in Skipped(rest, last, taken \/ held, macros)
    BY SkippedNext
  <1>2. Removed <=> taken \/ ~held
    BY GroupDecides
  <1>3. (Taken' <=> taken \/ held) \/ rest[last].kind = "endif"
    <2>1. CASE rest[at].kind = "else"
      BY <2>1, ElseEnds
    <2>2. CASE rest[at].kind # "else"
      <3>1. AnyTrue <=> taken \/ held
        BY <2>2, GroupDecides
      <3>2. any_cond_true' = AnyTrue
        BY DEF GroupSteps
      <3>3. at' > 1
        <4>1. at' \in Nat /\ at < at' /\ at \in Nat \ {0}
          <5>1. at' \in 1..Len(rest') /\ at < at'
            BY NextOfChain
          <5>2. at \in 1..Len(rest)
            BY DEF GroupSteps
          <5> QED BY <5>1, <5>2
        <4> QED BY <4>1
      <3>4. Taken' <=> any_cond_true'
        BY <3>3 DEF Taken
      <3> QED BY <3>1, <3>2, <3>4
    <2> QED BY <2>1, <2>2
  <1> DEFINE later == Taken'
  <1>4. i \in Skipped(rest, last, later, macros) <=> i \in Skipped(rest, last, taken \/ held, macros)
    <2>1. (later <=> taken \/ held) \/ rest[last].kind = "endif"
      BY <1>3
    <2> HIDE DEF later, taken, held
    <2> QED BY <2>1, SkippedSame
  <1> HIDE DEF taken, held, later
  <1>5. i \in Skipped(rest, at, taken, macros) <=>
            \/ i \in (at + 1)..(last - 1) /\ Removed
            \/ i \in Skipped(rest, last, later, macros)
    BY <1>1, <1>2, <1>4
  <1> QED BY <1>5 DEF taken, later

LEMMA GroupStutters ==
    ASSUME AllBareElifs, FInv, Short(rest), ElseLast(rest), Memory, Marks, Group
    PROVE  Ahead' = Ahead
  <1>1. TInv /\ pc = "groups" /\ rest[at].kind # "endif" /\ macros' = macros
    BY DEF FInv, Group
  <1>2. PICK last : /\ GroupSteps(last) /\ NextIs(rest, at, last)
                    /\ Removed => IsCut(rest', rest, at, last) /\ at' = at + 1
                    /\ ~Removed => rest' = rest /\ at' = last
    BY GroupRemoves
  <1> DEFINE s == rest
             t == rest'
             a == at
             later == Taken'
             S == Skipped(s, a, Taken, macros)
             T == Skipped(t, at', later, macros)
             I == (2..Len(s)) \ S
             J == (2..Len(t)) \ T
  <1>3. pc' = "groups"
    BY <1>2 DEF GroupSteps
  <1>4. Ahead = Only(s, I) /\ Ahead' = Only(t, J)
    BY <1>1, <1>3 DEF Ahead
  <1>5. \A i : i \in S <=> \/ i \in (a + 1)..(last - 1) /\ Removed
                           \/ i \in Skipped(s, last, later, macros)
    BY <1>1, <1>2, SkippedSteps
  <1>6. CASE ~Removed
    <2>1. t = s /\ at' = last
      BY <1>2, <1>6
    <2>2. T = Skipped(s, last, later, macros)
      BY <2>1
    <2>3. \A i : i \in S <=> i \in T
      BY <1>5, <1>6, <2>2
    <2> HIDE DEF S, T, later
    <2>4. I = J
      BY <2>1, <2>3
    <2> QED BY <1>4, <2>1, <2>4
  <1>7. CASE Removed
    <2> DEFINE d == last - (a + 1)
               x == a + 1
    <2>1. IsCut(t, s, a, last) /\ at' = x
      BY <1>2, <1>7
    <2>2. /\ s \in Seq(Lines) /\ t \in Seq(Lines) /\ Len(s) \in Nat /\ Len(t) \in Nat
          /\ a \in Nat \ {0} /\ a <= Len(t) /\ x \in 1..Len(t) /\ x \in Nat
          /\ last \in Nat /\ last <= Len(s) /\ a < last
          /\ d \in Nat /\ x + d = last /\ Len(s) = Len(t) + d /\ a + d = last - 1
          /\ \A i \in 1..a : t[i] = s[i]
          /\ \A i \in (a + 1)..Len(t) : t[i] = s[i + d]
      BY <2>1, CutBounds DEF IsCut
    <2>3. FromOn(t, x, s, d)
      BY <2>2 DEF FromOn
    <2>4. T = Skipped(t, x, later, macros)
      BY <2>1
    <2>5. \A i \in T : i \in (x + 1)..Len(t)
      BY <2>4, SkippedBehind
    <2>6. \A i \in (x + 1)..Len(t) : i + d \in Skipped(s, last, later, macros) <=> i \in T
      <3> HIDE DEF x, d, later
      <3>1. \A i \in (x + 1)..Len(t) : i + d \in Skipped(s, x + d, later, macros) <=> i \in Skipped(t, x, later, macros)
        BY <2>3, SkippedMoved
      <3> QED BY <2>2, <2>4, <3>1
    <2>7. \A i \in Skipped(s, last, later, macros) : i \in (last + 1)..Len(s)
      BY SkippedBehind
    <2> DEFINE U == Skipped(s, last, later, macros)
    <2>8. \A i : i \in S <=> i \in (a + 1)..(last - 1) \/ i \in U
      BY <1>5, <1>7
    <2>9. \A i \in (x + 1)..Len(t) : i + d \in U <=> i \in T
      BY <2>6
    <2>10. \A i \in U : i \in (last + 1)..Len(s)
      BY <2>7
    <2> HIDE DEF S, T, U, d, x
    <2>11. x = a + 1
      BY DEF x
    <2>12. \A i \in 1..a : t[i] = s[i] /\ (i \in I <=> i \in J)
      <3> TAKE i \in 1..a
      <3>1. i \notin S /\ i \notin T
        <4>1. i \notin (a + 1)..(last - 1) /\ i \notin (last + 1)..Len(s) /\ i \notin (x + 1)..Len(t)
          BY <2>2, <2>11
        <4> QED BY <2>5, <2>8, <2>10, <4>1
      <3>2. i \in 2..Len(s) <=> i \in 2..Len(t)
        BY <2>2
      <3>3. i \in I <=> i \in J
        BY <3>1, <3>2
      <3> QED BY <2>2, <3>3
    <2>13. \A i \in (a + 1)..(a + d) : i \notin I
      BY <2>2, <2>8
    <2>14. \A i \in (a + 1)..Len(t) : t[i] = s[i + d] /\ (i + d \in I <=> i \in J)
      <3> TAKE i \in (a + 1)..Len(t)
      <3>1. i + d \in 2..Len(s) /\ i \in 2..Len(t) /\ i + d \notin (a + 1)..(last - 1)
        BY <2>2, <2>11
      <3>2. i + d \in S <=> i + d \in U
        BY <2>8, <3>1
      <3>3. i + d \in U <=> i \in T
        <4>1. CASE i = x
          <5>1. i \notin T /\ i + d \notin U
            <6>1. i \notin (x + 1)..Len(t) /\ i + d \notin (last + 1)..Len(s)
              BY <2>2, <4>1
            <6> QED BY <2>5, <2>10, <6>1
          <5> QED BY <5>1
        <4>2. CASE i # x
          <5>1. i \in (x + 1)..Len(t)
            BY <2>2, <2>11, <4>2
          <5> QED BY <2>9, <5>1
        <4> QED BY <4>1, <4>2
      <3> QED BY <2>2, <3>1, <3>2, <3>3
    <2> HIDE DEF I, J
    <2>15. Without(t, J, s, I, a, d)
      BY <2>2, <2>12, <2>13, <2>14 DEF Without
    <2>16. Only(s, I) = Only(t, J)
      BY <2>15, OnlyCut
    <2> QED BY <1>4, <2>16
  <1> QED BY <1>6, <1>7

-----------------------------------------------------------------------------
(* The invariant of the refinement *)

AllElseLast == \A f \in Files : ElseLast(f)

KeptLines == [kind : Kinds, body : Int, value : Int]

RInv == CInv /\ ElseLast(rest) /\ Marks /\ out \in Seq(KeptLines)

LEMMA ElseLastStays ==
    ASSUME AllTerminated, AllClosed, AllElseLast, FInv, ElseLast(rest), Next
    PROVE  ElseLast(rest')
  <1>1. Moved
    BY NextMoves
  <1>2. CASE rest' = rest
    BY <1>2
  <1>3. ASSUME NEW d \in Nat, Behind(d) PROVE ElseLast(rest')
    BY <1>3, SuffixElseLast DEF Behind
  <1>4. ASSUME NEW h \in Files \cup {<<>>}, Inserted(h) PROVE ElseLast(rest')
    <2>1. PICK t : IsConcat(rest', h, t) /\ IsSuffix(t, rest, 1)
      BY <1>4 DEF Inserted
    <2>2. ElseLast(t)
      BY <2>1, SuffixElseLast
    <2>3. Ended(h)
      BY HeaderFacts
    <2>4. ElseLast(h)
      <3>1. CASE h \in Files
        BY <3>1 DEF AllElseLast
      <3>2. CASE h = <<>>
        BY <3>2 DEF ElseLast
      <3> QED BY <3>1, <3>2
    <2> QED BY <2>1, <2>2, <2>3, <2>4, ConcatElseLast
  <1>5. ASSUME NEW last, CutOut(last) PROVE ElseLast(rest')
    BY <1>5, CutElseLast DEF CutOut
  <1> QED BY <1>1, <1>2, <1>3, <1>4, <1>5 DEF Moved

LEMMA MarksStay ==
    ASSUME FInv, Marks, Next
    PROVE  Marks'
  <1>1. CASE If
    <2>1. /\ AtLine(IfKinds) /\ at' = 1 /\ cond' = EvaluateIf(rest[1]) /\ if_cond' = cond'
          /\ any_cond_true' = cond' /\ rest' = rest /\ macros' = macros
      BY <1>1 DEF If
    <2>2. EvaluateIf(rest[1]) <=> Holds(rest[1], macros)
      BY <2>1, EvaluateIfHolds DEF AtLine
    <2>3. cond' <=> Holds(rest'[1], macros')
      BY <2>1, <2>2
    <2> QED BY <2>1, <2>3 DEF Marks
  <1>2. CASE Group
    <2> DEFINE last == Min(GroupEnds)
    <2>1. GroupSteps(last)
      BY <1>2, GroupGoesOn
    <2>2. TInv /\ pc = "groups"
      BY <1>2 DEF Group, FInv
    <2> HIDE DEF last
    <2>3. cond' = GroupCond /\ any_cond_true' = AnyTrue /\ if_cond' = if_cond
      BY <2>1 DEF GroupSteps
    <2>4. at' # 1
      <3>1. at' \in 1..Len(rest') /\ at < at'
        BY <2>1, <2>2, NextOfChain
      <3>2. at \in 1..Len(rest)
        BY <2>1 DEF GroupSteps
      <3> QED BY <3>1, <3>2
    <2>5. if_cond \/ cond => any_cond_true
      BY <2>2 DEF Marks
    <2>6. if_cond' \/ cond' => any_cond_true'
      BY <2>3, <2>5 DEF GroupCond, AnyTrue
    <2> QED BY <2>4, <2>6 DEF Marks
  <1>3. CASE pc' # "groups"
    BY <1>3 DEF Marks
  <1>4. ~If /\ ~Group => pc' # "groups"
    BY DEF Next, Text, Define, Undef, Include, IncludeOutOfMemory, Pragma, BarePragma,
           ElifElseEndif, Finish, EndGroups, AtLine, RemoveDirective, vars
  <1> QED BY <1>1, <1>2, <1>3, <1>4

\* What a line leaves in the output.
KeptOf(l, value) == [kind |-> l.kind, body |-> l.body, value |-> value]

LEMMA KeptFacts ==
    ASSUME NEW l \in Lines, NEW value \in Int
    PROVE  KeptOf(l, value) \in KeptLines
  <1>1. l.kind \in Kinds /\ l.body \in Int
    BY LinesAssumption
  <1> QED BY <1>1 DEF KeptOf, KeptLines

LEMMA BehindTail ==
    ASSUME rest \in Seq(Lines), rest # <<>>, Behind(1)
    PROVE  rest' = Tail(rest)
  <1>1. /\ rest' \in Seq(Lines) /\ Len(rest) = Len(rest') + 1 /\ Len(rest') \in Nat
        /\ \A i \in 1..Len(rest') : rest'[i] = rest[i + 1]
    BY DEF Behind, IsSuffix
  <1> DEFINE t == Tail(rest)
  <1>2. t \in Seq(Lines) /\ Len(t) = Len(rest) - 1 /\ \A i \in 1..Len(t) : t[i] = rest[i + 1]
    BY HeadTailProperties
  <1> HIDE DEF t
  <1>3. t = rest'
    BY <1>1, <1>2, SeqEqual
  <1> QED BY <1>3 DEF t

LEMMA TextKept ==
    ASSUME TInv, out \in Seq(KeptLines), Text
    PROVE  /\ rest # <<>> /\ rest[1].kind = "text" /\ pc = "lines" /\ pc' = "lines"
           /\ rest' = Tail(rest) /\ macros' = macros
           /\ out' = Append(out, KeptOf(rest[1], macros[rest[1].name]))
           /\ out' \in Seq(KeptLines)
  <1> DEFINE l == rest[1]
             x == KeptOf(l, macros[l.name])
  <1>1. /\ AtLine({"text"}) /\ rest' = Tail(rest) /\ macros' = macros /\ pc' = pc
        /\ out' = Append(out, [kind |-> "text", body |-> l.body, value |-> macros[l.name]])
    BY DEF Text
  <1>2. rest # <<>> /\ l \in Lines /\ l.kind = "text" /\ pc = "lines" /\ macros \in [Names -> Int]
    BY <1>1, AtLineFacts
  <1>3. macros[l.name] \in Int
    <2> HIDE DEF l
    <2>1. l.name \in Names
      BY <1>2, LinesAssumption
    <2> QED BY <1>2, <2>1
  <1>4. out' = Append(out, x)
    BY <1>1, <1>2 DEF KeptOf
  <1>5. x \in KeptLines
    BY <1>2, <1>3, KeptFacts
  <1> HIDE DEF x
  <1>6. out' \in Seq(KeptLines)
    BY <1>4, <1>5, AppendProperties
  <1> QED BY <1>1, <1>2, <1>4, <1>6 DEF x

LEMMA PragmaKept ==
    ASSUME AllTerminated, TInv, out \in Seq(KeptLines), Pragma
    PROVE  /\ rest # <<>> /\ rest[1].kind = "pragma" /\ pc = "lines" /\ pc' = "lines"
           /\ rest' = Tail(rest) /\ macros' = macros
           /\ out' = Append(out, KeptOf(rest[1], NoBody))
           /\ out' \in Seq(KeptLines)
  <1> DEFINE E == DirectiveEnd(rest)
             n == Min(E)
             x == KeptOf(rest[1], NoBody)
             z == [i \in 1..n |-> [kind |-> rest[i].kind, body |-> rest[i].body, value |-> NoBody]]
  <1>1. AtLine({"pragma"}) /\ macros' = macros
    BY DEF Pragma
  <1>2. /\ rest # <<>> /\ rest[1] \in Lines /\ rest[1].kind = "pragma" /\ pc = "lines"
        /\ rest \in Seq(Lines) /\ Len(rest) \in Nat \ {0}
    BY <1>1, AtLineFacts
  <1>3. rest[1].eol
    BY <1>2, DirectivesEnd
  <1>4. n = 1 /\ E # {}
    <2>1. E \subseteq Nat /\ E \subseteq 1..Len(rest) /\ 1 \in E
      BY <1>2, <1>3 DEF DirectiveEnd
    <2> HIDE DEF E
    <2>2. n \in E /\ n <= 1
      BY <2>1, MinOfNaturals
    <2> HIDE DEF n
    <2> QED BY <1>2, <2>1, <2>2
  <1>5. out' = out \o z /\ rest' = SubSeq(rest, n + 1, Len(rest)) /\ pc' = pc
    BY <1>4 DEF Pragma
  <1>6. rest' = Tail(rest)
    <2>1. 1 \in 0..Len(rest)
      BY <1>2
    <2>2. IsSuffix(SubSeq(rest, 1 + 1, Len(rest)), rest, 1)
      BY <1>2, <2>1, SuffixFacts
    <2>3. Behind(1)
      BY <1>4, <1>5, <2>2 DEF Behind
    <2> QED BY <1>2, <2>3, BehindTail
  <1>7. x \in KeptLines
    BY <1>2, KeptFacts DEF NoBody
  <1>8. z = <<x>>
    <2>1. z = [i \in 1..1 |-> KeptOf(rest[i], NoBody)]
      BY <1>4 DEF KeptOf
    <2> HIDE DEF z
    <2>2. z \in Seq(KeptLines) /\ Len(z) = 1 /\ z[1] = x
      <3>1. \A i \in 1..1 : KeptOf(rest[i], NoBody) \in KeptLines
        BY <1>7
      <3>2. z \in [1..1 -> KeptLines]
        BY <2>1, <3>1
      <3>3. z \in Seq(KeptLines)
        <4>1. z \in UNION {[1..m -> KeptLines] : m \in Nat}
          BY <3>2
        <4>2. UNION {[1..m -> KeptLines] : m \in Nat} = Seq(KeptLines)
          BY SeqDef
        <4> QED BY <4>1, <4>2
      <3> QED BY <2>1, <3>2, <3>3
    <2> HIDE DEF x
    <2> DEFINE w == <<x>>
    <2>3. w \in Seq(KeptLines) /\ Len(w) = 1 /\ w[1] = x
      BY <1>7
    <2> HIDE DEF w
    <2>4. z = w
      BY <2>2, <2>3, SeqEqual
    <2> QED BY <2>4 DEF w
  <1> HIDE DEF x, z
  <1>9. out' = Append(out, x)
    BY <1>5, <1>7, <1>8, AppendIsConcat
  <1>10. out' \in Seq(KeptLines)
    BY <1>7, <1>9, AppendProperties
  <1> QED BY <1>1, <1>2, <1>5, <1>6, <1>9, <1>10 DEF x

LEMMA RefinementInvariant ==
    ASSUME AllTerminated, AllClosed, AllShort, AllElseLast, RInv, [Next]_vars
    PROVE  RInv'
  <1>0. CInv /\ FInv /\ TInv /\ ElseLast(rest) /\ Marks /\ out \in Seq(KeptLines)
    BY DEF RInv, CInv, FInv
  <1>1. CInv'
    BY <1>0, ChainStays
  <1>2. CASE Next
    <2>1. ElseLast(rest')
      BY <1>0, <1>2, ElseLastStays
    <2>2. ElseLast(rest)'
      BY <2>1
    <2>3. Marks'
      BY <1>0, <1>2, MarksStay
    <2>4. out' \in Seq(KeptLines)
      <3>1. ~Text /\ ~Pragma => out' = out
        BY <1>2 DEF Next, Define, Undef, Include, IncludeOutOfMemory, BarePragma,
                    ElifElseEndif, Finish, If, Group, EndGroups, vars
      <3> QED BY <1>0, <3>1, TextKept, PragmaKept
    <2> QED BY <1>1, <2>2, <2>3, <2>4 DEF RInv
  <1>3. CASE UNCHANGED vars
    <2>1. UNCHANGED <<out, rest, macros, pc, at, cond, if_cond, any_cond_true>>
      BY <1>3 DEF vars, chain
    <2>2. ElseLast(rest)'
      BY <1>0, <2>1
    <2>3. Marks'
      BY <1>0, <2>1 DEF Marks
    <2> QED BY <1>0, <1>1, <2>1, <2>2, <2>3 DEF RInv
  <1> QED BY <1>2, <1>3

-----------------------------------------------------------------------------
(* Every step is one of ConditionalInclusion, or none *)

LEMMA AheadLines ==
    /\ pc # "groups" => Ahead = rest
    /\ pc' # "groups" => Ahead' = rest'
  BY DEF Ahead

\* A directive is removed, and the list goes on behind it.
LEMMA DirectiveGoes ==
    ASSUME AllTerminated, TInv, NEW kinds, AtLine(kinds), "text" \notin kinds, RemoveDirective(rest)
    PROVE  /\ rest # <<>> /\ rest[1] \in Lines /\ rest[1].kind \in kinds /\ rest[1].eol
           /\ Ahead = rest /\ Ahead' = rest' /\ rest' = Tail(rest)
  <1>1. /\ rest \in Seq(Lines) /\ rest # <<>> /\ rest[1] \in Lines /\ rest[1].kind \in kinds
        /\ pc = "lines"
    BY AtLineFacts
  <1>2. rest[1].kind # "text"
    BY <1>1
  <1>3. rest[1].eol
    BY <1>1, <1>2, DirectivesEnd
  <1>4. pc' = "lines" /\ Behind(1)
    BY <1>1, <1>2, RemovedLine
  <1>5. rest' = Tail(rest)
    BY <1>1, <1>4, BehindTail
  <1>6. Ahead = rest /\ Ahead' = rest'
    BY <1>1, <1>4, AheadLines
  <1> QED BY <1>1, <1>3, <1>5, <1>6

LEMMA TextReads ==
    ASSUME RInv, Text
    PROVE  C!Next
  <1>1. /\ rest # <<>> /\ rest[1].kind = "text" /\ pc = "lines" /\ pc' = "lines"
        /\ rest' = Tail(rest) /\ macros' = macros
        /\ out' = Append(out, KeptOf(rest[1], macros[rest[1].name]))
    BY TextKept DEF RInv, CInv, FInv
  <1>2. Ahead = rest /\ Ahead' = rest'
    BY <1>1, AheadLines
  <1>3. C!Text(Ahead[1])
    BY <1>1, <1>2 DEF C!Text, C!Keep, KeptOf
  <1> QED BY <1>1, <1>2, <1>3 DEF C!Next, C!Read

LEMMA PragmaReads ==
    ASSUME AllTerminated, RInv, Pragma
    PROVE  C!Next
  <1>1. /\ rest # <<>> /\ rest[1].kind = "pragma" /\ pc = "lines" /\ pc' = "lines"
        /\ rest' = Tail(rest) /\ macros' = macros
        /\ out' = Append(out, KeptOf(rest[1], NoBody))
    BY PragmaKept DEF RInv, CInv, FInv
  <1>2. Ahead = rest /\ Ahead' = rest'
    BY <1>1, AheadLines
  <1>3. C!Pragma(Ahead[1])
    BY <1>1, <1>2 DEF C!Pragma, C!Keep, KeptOf, C!NoBody, NoBody
  <1> QED BY <1>1, <1>2, <1>3 DEF C!Next, C!Read

LEMMA DefineReads ==
    ASSUME AllTerminated, RInv, Define
    PROVE  C!Next
  <1>1. /\ AtLine({"define"}) /\ RemoveDirective(rest) /\ out' = out
        /\ macros' = IF macros[rest[1].name] # NoBody THEN macros
                     ELSE [macros EXCEPT ![rest[1].name] = IF rest[1].eol THEN rest[1].body ELSE Joined]
    BY DEF Define
  <1>2. /\ rest # <<>> /\ rest[1].kind = "define" /\ rest[1].eol
        /\ Ahead = rest /\ Ahead' = rest' /\ rest' = Tail(rest)
    BY <1>1, DirectiveGoes DEF RInv, CInv, FInv
  <1>3. C!Define(Ahead[1])
    BY <1>1, <1>2 DEF C!Define, C!NoBody, NoBody
  <1> QED BY <1>2, <1>3 DEF C!Next, C!Read

LEMMA UndefReads ==
    ASSUME AllTerminated, RInv, Undef
    PROVE  C!Next
  <1>1. /\ AtLine({"undef"}) /\ RemoveDirective(rest) /\ out' = out
        /\ macros' = [macros EXCEPT ![rest[1].name] = NoBody]
    BY DEF Undef
  <1>2. /\ rest # <<>> /\ rest[1].kind = "undef"
        /\ Ahead = rest /\ Ahead' = rest' /\ rest' = Tail(rest)
    BY <1>1, DirectiveGoes DEF RInv, CInv, FInv
  <1>3. C!Undef(Ahead[1])
    BY <1>1, <1>2 DEF C!Undef, C!NoBody, NoBody
  <1> QED BY <1>2, <1>3 DEF C!Next, C!Read

LEMMA ElifElseEndifReads ==
    ASSUME AllTerminated, RInv, ElifElseEndif
    PROVE  C!Next
  <1>1. /\ AtLine({"elif", "else", "endif"}) /\ RemoveDirective(rest)
        /\ out' = out /\ macros' = macros
    BY DEF ElifElseEndif
  <1>2. /\ rest # <<>> /\ rest[1].kind \in {"elif", "else", "endif"}
        /\ Ahead = rest /\ Ahead' = rest' /\ rest' = Tail(rest)
    BY <1>1, DirectiveGoes DEF RInv, CInv, FInv
  <1>3. C!ElifElseEndif(Ahead[1])
    BY <1>1, <1>2 DEF C!ElifElseEndif
  <1> QED BY <1>2, <1>3 DEF C!Next, C!Read

LEMMA IncludeReads ==
    ASSUME AllTerminated, RInv, Include
    PROVE  C!Next
  <1> DEFINE h == IF rest[1].name \in DOMAIN Headers THEN Headers[rest[1].name] ELSE <<>>
             s == Including(h)
             t == Tail(rest)
  <1>1. AtLine({"include"}) /\ RemoveDirective(s) /\ out' = out /\ macros' = macros
    BY DEF Include, Including
  <1>2. TInv
    BY DEF RInv, CInv, FInv
  <1>3. /\ rest # <<>> /\ rest[1] \in Lines /\ rest[1].kind = "include" /\ pc = "lines"
    BY <1>1, <1>2, AtLineFacts
  <1>4. rest[1].eol
    BY <1>3, DirectivesEnd
  <1>5. h \in Seq(Lines)
    <2>1. h \in Files \cup {<<>>}
      BY DEF Files, Range
    <2> QED BY <2>1, FilesAssumption, EmptySeq
  <1>6. C!Include(rest[1]) <=> /\ rest[1].kind = "include"
                               /\ Ahead' = h \o Tail(Ahead)
                               /\ out' = out /\ macros' = macros
    BY DEF C!Include
  <1> HIDE DEF h
  <1>7. /\ s \in Seq(Lines) /\ s # <<>> /\ s[1] = rest[1]
        /\ \A u : IsSuffix(u, s, 1) => IsConcat(u, h, t)
    BY <1>2, <1>3, <1>5, IncludingFacts
  <1> HIDE DEF s
  <1>8. pc' = "lines" /\ IsConcat(rest', h, t)
    BY <1>1, <1>4, <1>7, RemoveFacts
  <1>9. rest' = h \o t
    <2>1. /\ h \in Seq(Lines) /\ t \in Seq(Lines) /\ rest' \in Seq(Lines)
          /\ Len(h) \in Nat /\ Len(t) \in Nat /\ Len(rest') = Len(h) + Len(t)
          /\ \A i \in 1..Len(h) : rest'[i] = h[i]
          /\ \A i \in 1..Len(t) : rest'[i + Len(h)] = t[i]
      BY <1>8 DEF IsConcat
    <2> HIDE DEF t
    <2> DEFINE u == h \o t
    <2>2. /\ u \in Seq(Lines) /\ Len(u) = Len(h) + Len(t)
          /\ \A i \in 1..(Len(h) + Len(t)) : u[i] = IF i <= Len(h) THEN h[i] ELSE t[i - Len(h)]
      BY <2>1, ConcatProperties
    <2> HIDE DEF u
    <2>3. ASSUME NEW i \in 1..Len(u) PROVE u[i] = rest'[i]
      <3>1. CASE i <= Len(h)
        <4>1. i \in 1..Len(h) /\ i \in 1..(Len(h) + Len(t))
          BY <2>1, <2>2, <3>1
        <4> QED BY <2>1, <2>2, <3>1, <4>1
      <3>2. CASE ~(i <= Len(h))
        <4>1. i - Len(h) \in 1..Len(t) /\ (i - Len(h)) + Len(h) = i /\ i \in 1..(Len(h) + Len(t))
          BY <2>1, <2>2, <3>2
        <4>2. rest'[(i - Len(h)) + Len(h)] = t[i - Len(h)]
          BY <2>1, <4>1
        <4> QED BY <2>2, <3>2, <4>1, <4>2
      <3> QED BY <3>1, <3>2
    <2>4. u = rest'
      BY <2>1, <2>2, <2>3, SeqEqual
    <2> QED BY <2>4 DEF u
  <1>10. Ahead = rest /\ Ahead' = rest'
    BY <1>3, <1>8, AheadLines
  <1>11. C!Include(Ahead[1])
    BY <1>1, <1>3, <1>6, <1>9, <1>10
  <1> QED BY <1>3, <1>10, <1>11 DEF C!Next, C!Read

\* The lines C skips go, as far as the list read is concerned, with the #if.
LEMMA IfReads ==
    ASSUME RInv, If
    PROVE  C!Next
  <1>1. /\ AtLine(IfKinds) /\ pc' = "groups" /\ at' = 1
        /\ out' = out /\ rest' = rest /\ macros' = macros
    BY DEF If
  <1>2. TInv
    BY DEF RInv, CInv, FInv
  <1>3. rest # <<>> /\ rest[1].kind \in IfKinds /\ pc = "lines"
    BY <1>1, <1>2, AtLineFacts
  <1>4. Ahead = rest
    BY <1>3, AheadLines
  <1>5. ~Taken'
    BY <1>1 DEF Taken
  <1>6. Ahead' = Only(rest, (2..Len(rest)) \ Skipped(rest, 1, FALSE, macros))
    <2> DEFINE later == Taken'
               S == Skipped(rest, 1, later, macros)
               T == Skipped(rest, 1, FALSE, macros)
    <2>1. Ahead' = Only(rest, (2..Len(rest)) \ S)
      BY <1>1 DEF Ahead
    <2>2. \A i : i \in S <=> i \in T
      <3>1. (later <=> FALSE) \/ rest[1].kind = "endif"
        BY <1>5
      <3> HIDE DEF later
      <3> QED BY <3>1, SkippedSame
    <2> HIDE DEF S, T, later
    <2>3. (2..Len(rest)) \ S = (2..Len(rest)) \ T
      BY <2>2
    <2> QED BY <2>1, <2>3 DEF T
  <1>7. C!Conditional(Ahead[1])
    <2>1. C!IfKinds = IfKinds
      BY DEF C!IfKinds, IfKinds
    <2>2. /\ C!Only(rest, (2..Len(rest)) \ C!Skipped(rest, 1, FALSE, macros))
                = Only(rest, (2..Len(rest)) \ Skipped(rest, 1, FALSE, macros))
      BY SameOnly, SameSkipped
    <2> QED BY <1>1, <1>3, <1>4, <1>6, <2>1, <2>2 DEF C!Conditional
  <1> QED BY <1>3, <1>4, <1>7 DEF C!Next, C!Read

LEMMA EndGroupsStutters ==
    ASSUME AllTerminated, RInv, EndGroups
    PROVE  Ahead' = Ahead
  <1>1. pc = "groups" /\ rest[at].kind = "endif" /\ RemoveDirective(rest)
    BY DEF EndGroups
  <1>2. TInv /\ rest \in Seq(Lines)
    BY DEF RInv, CInv, FInv, TInv
  <1>3. rest # <<>> /\ rest[1].kind \in IfKinds
    BY <1>1, <1>2, EmptySeq DEF TInv, Position
  <1>4. rest[1] \in Lines /\ rest[1].kind # "text"
    BY <1>2, <1>3, LineFacts DEF IfKinds
  <1>5. pc' = "lines" /\ Behind(1)
    BY <1>1, <1>2, <1>3, <1>4, RemovedLine
  <1>6. Ahead' = Tail(rest)
    BY <1>2, <1>3, <1>5, BehindTail, AheadLines
  <1>7. (2..Len(rest)) \ Skipped(rest, at, Taken, macros) = 2..Len(rest)
    <2>1. \A i : i \notin Skipped(rest, at, Taken, macros)
      BY <1>1, SkippedBehind
    <2> QED BY <2>1
  <1>8. Ahead = Only(rest, 2..Len(rest))
    BY <1>1, <1>7 DEF Ahead
  <1> QED BY <1>2, <1>3, <1>6, <1>8, OnlyTail

LEMMA RefinementStep ==
    ASSUME AllTerminated, AllBareElifs, RInv, [Next]_vars
    PROVE  [C!Next]_(C!vars)
  <1>1. CASE Text \/ Pragma \/ Define \/ Undef \/ Include \/ ElifElseEndif \/ If
    BY <1>1, TextReads, PragmaReads, DefineReads, UndefReads, IncludeReads, ElifElseEndifReads, IfReads
  <1>2. CASE Group
    <2>1. Ahead' = Ahead
      BY <1>2, GroupStutters DEF RInv, CInv
    <2>2. out' = out /\ macros' = macros
      BY <1>2 DEF Group
    <2> QED BY <2>1, <2>2 DEF C!vars
  <1>3. CASE EndGroups
    <2>1. Ahead' = Ahead
      BY <1>3, EndGroupsStutters
    <2>2. out' = out /\ macros' = macros
      BY <1>3 DEF EndGroups
    <2> QED BY <2>1, <2>2 DEF C!vars
  <1>4. CASE IncludeOutOfMemory \/ Finish
    <2>1. pc = "lines" /\ pc' # "groups" /\ UNCHANGED <<rest, out, macros>>
      BY <1>4 DEF IncludeOutOfMemory, Finish, AtLine
    <2>2. Ahead' = Ahead
      BY <2>1, AheadLines
    <2> QED BY <2>1, <2>2 DEF C!vars
  <1>5. CASE BarePragma \/ UNCHANGED vars
    <2>1. UNCHANGED <<rest, out, macros, pc, at, any_cond_true>>
      BY <1>5 DEF BarePragma, vars, chain
    <2>2. Ahead' = Ahead
      BY <2>1 DEF Ahead, Taken
    <2> QED BY <2>1, <2>2 DEF C!vars
  <1> QED BY <1>1, <1>2, <1>3, <1>4, <1>5 DEF Next

(* In files whose directives end in newlines, whose conditionals are closed,  *)
(* end with their #else if they have one, and have two #elifs at most, none   *)
(* of which has its `defined` in the form with parentheses,                   *)
(* process_preprocessing_tokens and handle_if_directives do what C does: they *)
(* keep the text lines C keeps, in order and with the macros C has there,     *)
(* wherever headers, groups and conditionals are nested in each other.        *)
THEOREM Refinement ==
    ASSUME AllTerminated, AllClosed, AllShort, AllElseLast, AllBareElifs
    PROVE  Spec => ImplementsC
  <1>1. Init => RInv
    <2> SUFFICES ASSUME Init PROVE RInv
      OBVIOUS
    <2>1. CInv
      BY ChainInit
    <2>2. ElseLast(rest)
      BY InitTyped DEF AllElseLast
    <2>3. Marks /\ out \in Seq(KeptLines)
      BY EmptySeq DEF Init, Marks
    <2> QED BY <2>1, <2>2, <2>3 DEF RInv
  <1>2. RInv /\ [Next]_vars => RInv'
    BY RefinementInvariant
  <1>3. Init => C!Init
    <2> SUFFICES ASSUME Init PROVE C!Init
      OBVIOUS
    <2>1. Ahead = rest
      BY AheadLines DEF Init
    <2>2. rest \in Files
      BY InitTyped
    <2> QED BY <2>1, <2>2 DEF Init, C!Init, C!NoBody, NoBody
  <1>4. RInv /\ [Next]_vars => [C!Next]_(C!vars)
    BY RefinementStep
  <1> QED BY <1>1, <1>2, <1>3, <1>4, PTL DEF Spec, ImplementsC, C!Spec
=============================================================================
