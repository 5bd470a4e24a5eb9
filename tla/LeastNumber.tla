---------------------------- MODULE LeastNumber ----------------------------
(***************************************************************************)
(* A set of natural numbers has a least element.  What the proofs need of  *)
(* it: Min and Max of FiniteSetsExt, which are CHOOSEs, are what their     *)
(* names say; and induction, for a property given as a set of numbers.     *)
(***************************************************************************)
EXTENDS Integers, FiniteSetsExt, WellFoundedInduction, TLAPS

LEMMA LeastElement ==
    ASSUME NEW S, S \subseteq Nat, S # {}
    PROVE  \E x \in S : \A y \in S : x <= y
  <1>1. PICK x \in S : \A y \in S : ~ (<<y, x>> \in OpToRel(<, Nat))
    BY NatLessThanWellFounded, WFMin
  <1>2. \A y \in S : ~ (y < x)
    BY <1>1 DEF OpToRel
  <1> QED BY <1>2

LEMMA MinOfNaturals ==
    ASSUME NEW S, S \subseteq Nat, S # {}
    PROVE  Min(S) \in S /\ \A y \in S : Min(S) <= y
  BY LeastElement DEF Min

LEMMA MaxOfNaturals ==
    ASSUME NEW n \in Nat, NEW S, S \subseteq 0..n, S # {}
    PROVE  Max(S) \in S /\ \A y \in S : y <= Max(S)
  <1> DEFINE T == {n - x : x \in S}
  <1>1. T \subseteq Nat /\ T # {}
    <2>1. \A x \in S : n - x \in Nat
      OBVIOUS
    <2>2. PICK x \in S : TRUE
      OBVIOUS
    <2>3. n - x \in T
      OBVIOUS
    <2> QED BY <2>1, <2>3
  <1>2. PICK t \in T : \A u \in T : t <= u
    BY <1>1, LeastElement
  <1>3. PICK x \in S : t = n - x
    BY <1>2
  <1>4. \A y \in S : n - x <= n - y
    BY <1>2, <1>3
  <1>5. \A y \in S : x >= y
    BY <1>4
  <1>6. \E m \in S : \A y \in S : m >= y
    BY <1>5
  <1>7. Max(S) \in S /\ \A y \in S : Max(S) >= y
    BY <1>6 DEF Max
  <1> QED BY <1>7

LEMMA SetInduction ==
    ASSUME NEW S,
           \A n \in Nat : (\A m \in 0..(n - 1) : m \in S) => n \in S
    PROVE  Nat \subseteq S
  <1> SUFFICES ASSUME Nat \ S # {} PROVE FALSE
    OBVIOUS
  <1>1. PICK n \in Nat \ S : \A y \in Nat \ S : n <= y
    BY LeastElement
  <1>2. \A m \in 0..(n - 1) : m \in S
    BY <1>1
  <1> QED BY <1>1, <1>2

-----------------------------------------------------------------------------
(* A function defined by recursion on smaller numbers exists: what a        *)
(* recursive definition f[n \in Nat] == e needs to have its value.          *)
(* On B it is base, elsewhere step gives its value from that at prev[n].    *)

Solves(f, k, B, base, prev, step) ==
    \A n \in 0..k : f[n] = IF n \in B THEN base[n] ELSE step[<<n, f[prev[n]]>>]

WellFounded(S, B, base, prev, step) ==
    /\ base \in [B -> S]
    /\ prev \in [Nat \ B -> Nat]
    /\ step \in [Nat \X S -> S]
    /\ \A n \in Nat \ B : prev[n] < n

LEMMA Recursion ==
    ASSUME NEW S, NEW B, NEW base, NEW prev, NEW step, WellFounded(S, B, base, prev, step)
    PROVE  \E f \in [Nat -> S] : \A k \in Nat : Solves(f, k, B, base, prev, step)
  <1> USE DEF WellFounded
  <1> DEFINE Good == {k \in Nat : \E f \in [0..k -> S] : Solves(f, k, B, base, prev, step)}
  <1>1. ASSUME NEW k \in Nat, \A m \in 0..(k - 1) : m \in Good
        PROVE  k \in Good
    <2>1. PICK g : k > 0 => g \in [0..(k - 1) -> S] /\ Solves(g, k - 1, B, base, prev, step)
      <3>1. CASE k > 0
        <4>1. k - 1 \in Good
          BY <1>1, <3>1
        <4> QED BY <4>1
      <3> QED BY <3>1
    <2> DEFINE last == IF k \in B THEN base[k] ELSE step[<<k, g[prev[k]]>>]
               f    == [n \in 0..k |-> IF n < k THEN g[n] ELSE last]
    <2>2. k \notin B => prev[k] \in 0..(k - 1)
      OBVIOUS
    <2>3. last \in S
      <3>1. CASE k \in B
        BY <3>1
      <3>2. CASE k \notin B
        <4>1. g[prev[k]] \in S
          BY <2>1, <2>2, <3>2
        <4> QED BY <3>2, <4>1
      <3> QED BY <3>1, <3>2
    <2>4. f \in [0..k -> S]
      <3> HIDE DEF last
      <3>1. \A n \in 0..k : n < k => g[n] \in S
        BY <2>1
      <3> QED BY <2>3, <3>1
    <2>5. Solves(f, k, B, base, prev, step)
      <3> SUFFICES ASSUME NEW n \in 0..k
                   PROVE  f[n] = IF n \in B THEN base[n] ELSE step[<<n, f[prev[n]]>>]
        BY DEF Solves
      <3>1. n \notin B => prev[n] \in 0..(n - 1) /\ f[prev[n]] = g[prev[n]]
        OBVIOUS
      <3>2. CASE n < k
        <4>1. g[n] = IF n \in B THEN base[n] ELSE step[<<n, g[prev[n]]>>]
          BY <2>1, <3>2 DEF Solves
        <4> QED BY <3>1, <3>2, <4>1
      <3>3. CASE n = k
        <4>1. f[n] = last
          BY <3>3
        <4> QED BY <3>1, <3>3, <4>1
      <3> QED BY <3>2, <3>3
    <2> QED BY <2>4, <2>5
  <1> HIDE DEF Good
  <1>2. ASSUME NEW j \in Nat, NEW k \in Nat, j <= k,
               NEW f, Solves(f, j, B, base, prev, step),
               NEW g, Solves(g, k, B, base, prev, step)
        PROVE  \A n \in 0..j : f[n] = g[n]
    <2> DEFINE A == {n \in Nat : n <= j => f[n] = g[n]}
    <2>1. ASSUME NEW n \in Nat, \A m \in 0..(n - 1) : m \in A
          PROVE  n \in A
      <3> SUFFICES ASSUME n <= j PROVE f[n] = g[n]
        OBVIOUS
      <3>1. /\ f[n] = IF n \in B THEN base[n] ELSE step[<<n, f[prev[n]]>>]
            /\ g[n] = IF n \in B THEN base[n] ELSE step[<<n, g[prev[n]]>>]
        BY <1>2 DEF Solves
      <3>2. CASE n \in B
        BY <3>1, <3>2
      <3>3. CASE n \notin B
        <4>1. prev[n] \in 0..(n - 1) /\ prev[n] <= j
          BY <3>3
        <4>2. f[prev[n]] = g[prev[n]]
          BY <2>1, <4>1
        <4> QED BY <3>1, <3>3, <4>2
      <3> QED BY <3>2, <3>3
    <2> HIDE DEF A
    <2>2. Nat \subseteq A
      BY <2>1, SetInduction
    <2> QED BY <2>2 DEF A
  <1>3. Nat \subseteq Good
    BY <1>1, SetInduction
  <1> DEFINE F(n) == CHOOSE f \in [0..n -> S] : Solves(f, n, B, base, prev, step)
             h == [n \in Nat |-> F(n)[n]]
  <1>4. \A n \in Nat : F(n) \in [0..n -> S] /\ Solves(F(n), n, B, base, prev, step)
    BY <1>3 DEF Good
  <1> HIDE DEF F
  <1>5. h \in [Nat -> S]
    BY <1>4
  <1>6. ASSUME NEW n \in Nat
        PROVE  h[n] = IF n \in B THEN base[n] ELSE step[<<n, h[prev[n]]>>]
    <2>1. F(n)[n] = IF n \in B THEN base[n] ELSE step[<<n, F(n)[prev[n]]>>]
      BY <1>4 DEF Solves
    <2>2. CASE n \in B
      BY <2>1, <2>2
    <2>3. CASE n \notin B
      <3>1. prev[n] \in Nat /\ prev[n] <= n /\ prev[n] \in 0..prev[n]
        BY <2>3
      <3>2. F(prev[n])[prev[n]] = F(n)[prev[n]]
        <4> DEFINE p == prev[n]
                   f == F(p)
                   g == F(n)
        <4>1. /\ p \in Nat /\ p <= n
              /\ Solves(f, p, B, base, prev, step) /\ Solves(g, n, B, base, prev, step)
          BY <1>4, <3>1
        <4> HIDE DEF p, f, g
        <4>2. \A m \in 0..p : f[m] = g[m]
          BY <1>2, <4>1
        <4>3. f[p] = g[p]
          BY <4>1, <4>2
        <4> QED BY <4>3 DEF p, f, g
      <3> QED BY <2>1, <2>3, <3>1, <3>2
    <2> QED BY <2>2, <2>3
  <1>7. \A k \in Nat : Solves(h, k, B, base, prev, step)
    <2> HIDE DEF h
    <2> QED BY <1>6 DEF Solves
  <1> HIDE DEF h
  <1> QED BY <1>5, <1>7

-----------------------------------------------------------------------------
(* The common case: a step is repeated k times. *)

Iterates(f, k, a, step) == f[0] = a /\ \A i \in 1..k : f[i] = step[f[i - 1]]

LEMMA Iteration ==
    ASSUME NEW S, NEW k \in Nat, NEW a \in S, NEW step \in [S -> S]
    PROVE  \E f \in [0..k -> S] : Iterates(f, k, a, step)
  <1> DEFINE B    == {0}
             base == [n \in B |-> a]
             prev == [n \in Nat \ B |-> n - 1]
             next == [p \in Nat \X S |-> step[p[2]]]
  <1>1. WellFounded(S, B, base, prev, next)
    <2>1. base \in [B -> S]
      OBVIOUS
    <2>2. prev \in [Nat \ B -> Nat] /\ \A n \in Nat \ B : prev[n] < n
      OBVIOUS
    <2>3. next \in [Nat \X S -> S]
      OBVIOUS
    <2> HIDE DEF B, base, prev, next
    <2> QED BY <2>1, <2>2, <2>3 DEF WellFounded
  <1>2. PICK g \in [Nat -> S] : \A j \in Nat : Solves(g, j, B, base, prev, next)
    <2> HIDE DEF B, base, prev, next
    <2> QED BY <1>1, Recursion
  <1>3. \A n \in Nat : g[n] = IF n \in B THEN base[n] ELSE next[<<n, g[prev[n]]>>]
    <2> HIDE DEF B, base, prev, next
    <2> QED BY <1>2 DEF Solves
  <1>4. g[0] = a
    BY <1>3
  <1>5. \A i \in 1..k : g[i] = step[g[i - 1]]
    <2> TAKE i \in 1..k
    <2>1. i \in Nat \ B /\ i - 1 \in Nat /\ prev[i] = i - 1
      OBVIOUS
    <2>2. g[i] = next[<<i, g[i - 1]>>] /\ g[i - 1] \in S
      BY <1>3, <2>1
    <2> QED BY <2>1, <2>2
  <1> DEFINE f == [i \in 0..k |-> g[i]]
  <1>6. f \in [0..k -> S] /\ f[0] = a
    BY <1>4
  <1>7. \A i \in 1..k : f[i] = step[f[i - 1]]
    BY <1>5
  <1> QED BY <1>6, <1>7 DEF Iterates

\* What every step keeps, all values have.
Keeps(f, k, S) == f[0] \in S /\ \A i \in 1..k : f[i - 1] \in S => f[i] \in S

LEMMA IterationKeeps ==
    ASSUME NEW S, NEW k \in Nat, NEW f, Keeps(f, k, S)
    PROVE  \A i \in 0..k : f[i] \in S
  <1> USE DEF Keeps
  <1> DEFINE A == {i \in Nat : i <= k => f[i] \in S}
  <1>1. ASSUME NEW i \in Nat, \A j \in 0..(i - 1) : j \in A
        PROVE  i \in A
    <2> SUFFICES ASSUME i <= k PROVE f[i] \in S
      OBVIOUS
    <2>1. CASE i = 0
      BY <2>1
    <2>2. CASE i # 0
      <3>1. i \in 1..k /\ i - 1 \in 0..(i - 1) /\ i - 1 <= k
        BY <2>2
      <3>2. f[i - 1] \in S
        BY <1>1, <3>1
      <3> QED BY <3>1, <3>2
    <2> QED BY <2>1, <2>2
  <1> HIDE DEF A
  <1>2. Nat \subseteq A
    BY <1>1, SetInduction
  <1> QED BY <1>2 DEF A
=============================================================================
