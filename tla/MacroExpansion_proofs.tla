----------------------- MODULE MacroExpansion_proofs -----------------------
(***************************************************************************)
(* The pointers of expand_macro, for every program: they are NULL or nodes *)
(* of the list, through the removals and insertions of all activations.    *)
(***************************************************************************)
EXTENDS MacroExpansion, LeastNumber, SequenceTheorems

-----------------------------------------------------------------------------
(* Lists of tokens and the memory of nodes *)

IsList(s) == \E S : s \in Seq(S)

\* Every node is linked to a node or to none.
Heap(l) ==
    /\ \E T : l \in Seq([token : T, next : Nat])
    /\ \A n \in 1..Len(l) : l[n].next \in 0..Len(l)

LEMMA ListFacts ==
    ASSUME NEW s, IsList(s)
    PROVE  Len(s) \in Nat /\ DOMAIN s = 1..Len(s)
  <1>1. PICK S : s \in Seq(S)
    BY DEF IsList
  <1> QED BY <1>1

LEMMA ListTail ==
    ASSUME NEW s, IsList(s), Len(s) # 0
    PROVE  IsList(Tail(s)) /\ Len(Tail(s)) = Len(s) - 1
  <1>1. PICK S : s \in Seq(S)
    BY DEF IsList
  <1>2. s # <<>>
    OBVIOUS
  <1>3. Tail(s) \in Seq(S) /\ Len(Tail(s)) = Len(s) - 1
    BY <1>1, <1>2, HeadTailProperties
  <1> QED BY <1>3 DEF IsList

LEMMA ListAppend ==
    ASSUME NEW s, IsList(s), NEW x
    PROVE  /\ IsList(Append(s, x))
           /\ Len(Append(s, x)) = Len(s) + 1
           /\ \A i \in 1..Len(s) : Append(s, x)[i] = s[i]
           /\ Append(s, x)[Len(s) + 1] = x
  <1>1. PICK S : s \in Seq(S)
    BY DEF IsList
  <1> DEFINE T == S \cup {x}
  <1>2. s \in Seq(T) /\ x \in T
    BY <1>1, SeqMonotonic
  <1>3. Append(s, x) \in Seq(T)
    BY <1>2, AppendProperties
  <1>4. /\ Len(Append(s, x)) = Len(s) + 1
        /\ \A i \in 1..Len(s) : Append(s, x)[i] = s[i]
        /\ Append(s, x)[Len(s) + 1] = x
    BY <1>2, AppendProperties
  <1>5. IsList(Append(s, x))
    BY <1>3 DEF IsList
  <1> QED BY <1>4, <1>5

LEMMA HeapFacts ==
    ASSUME NEW l, Heap(l)
    PROVE  /\ IsList(l) /\ Len(l) \in Nat /\ DOMAIN l = 1..Len(l)
           /\ \A n \in 1..Len(l) : l[n].next \in 0..Len(l)
  <1>1. PICK T : l \in Seq([token : T, next : Nat])
    BY DEF Heap
  <1>2. IsList(l)
    BY <1>1 DEF IsList
  <1> QED BY <1>1, <1>2 DEF Heap

\* A node is written: its token, its link or both.
LEMMA Written ==
    ASSUME NEW l, Heap(l), NEW n \in 1..Len(l), NEW t, NEW p \in 0..Len(l)
    PROVE  LET m == [l EXCEPT ![n] = [token |-> t, next |-> p]]
           IN  Heap(m) /\ Len(m) = Len(l)
  <1> DEFINE m == [l EXCEPT ![n] = [token |-> t, next |-> p]]
  <1>1. PICK T : l \in Seq([token : T, next : Nat])
    BY DEF Heap
  <1>2. Len(l) \in Nat /\ \A i \in 1..Len(l) : l[i].next \in 0..Len(l)
    BY HeapFacts
  <1> DEFINE U == T \cup {t}
             N == [token : U, next : Nat]
  <1>3. l \in Seq(N)
    <2>1. [token : T, next : Nat] \subseteq N
      OBVIOUS
    <2> HIDE DEF N
    <2> QED BY <1>1, <2>1, SeqMonotonic
  <1>4. [token |-> t, next |-> p] \in N
    BY <1>2
  <1>5. /\ m \in Seq(N) /\ Len(m) = Len(l)
        /\ \A i \in 1..Len(l) : m[i] = IF i = n THEN [token |-> t, next |-> p] ELSE l[i]
    <2> HIDE DEF N
    <2> QED BY <1>3, <1>4, ExceptSeq
  <1>6. \A i \in 1..Len(m) : m[i].next \in 0..Len(m)
    <2> HIDE DEF m
    <2> QED BY <1>2, <1>5
  <1>7. \E S : m \in Seq([token : S, next : Nat])
    BY <1>5
  <1> HIDE DEF m
  <1>8. Heap(m)
    BY <1>6, <1>7 DEF Heap
  <1> QED BY <1>5, <1>8 DEF m

LEMMA NodeShape ==
    ASSUME NEW l, Heap(l), NEW n \in 1..Len(l)
    PROVE  /\ \A p : [l[n] EXCEPT !.next = p] = [token |-> l[n].token, next |-> p]
           /\ \A t : [l[n] EXCEPT !.token = t] = [token |-> t, next |-> l[n].next]
  <1>1. PICK T : l \in Seq([token : T, next : Nat])
    BY DEF Heap
  <1>2. l[n] \in [token : T, next : Nat]
    BY <1>1, ElementOfSeq
  <1> QED BY <1>2

LEMMA LinkWritten ==
    ASSUME NEW l, Heap(l), NEW n \in 1..Len(l), NEW p \in 0..Len(l)
    PROVE  LET m == [l EXCEPT ![n].next = p] IN Heap(m) /\ Len(m) = Len(l)
  <1>1. [l[n] EXCEPT !.next = p] = [token |-> l[n].token, next |-> p]
    BY NodeShape
  <1>2. [l EXCEPT ![n].next = p] = [l EXCEPT ![n] = [l[n] EXCEPT !.next = p]]
    OBVIOUS
  <1> QED BY <1>1, <1>2, Written

LEMMA TokenWritten ==
    ASSUME NEW l, Heap(l), NEW n \in 1..Len(l), NEW t
    PROVE  LET m == [l EXCEPT ![n].token = t] IN Heap(m) /\ Len(m) = Len(l)
  <1>1. [l[n] EXCEPT !.token = t] = [token |-> t, next |-> l[n].next]
    BY NodeShape
  <1>2. l[n].next \in 0..Len(l)
    BY HeapFacts
  <1>3. [l EXCEPT ![n].token = t] = [l EXCEPT ![n] = [l[n] EXCEPT !.token = t]]
    OBVIOUS
  <1> QED BY <1>1, <1>2, <1>3, Written

LEMMA IsListNodes ==
    ASSUME NEW s, IsList(s), NEW at \in Nat, NEW after \in Nat
    PROVE  /\ \E T : Nodes(s, at, after) \in Seq([token : T, next : Nat])
           /\ Len(Nodes(s, at, after)) = Len(s)
           /\ \A i \in 1..Len(s) :
                  Nodes(s, at, after)[i].next = IF i = Len(s) THEN after ELSE at + i
  <1>1. PICK T : s \in Seq(T)
    BY DEF IsList
  <1>2. Len(s) \in Nat /\ DOMAIN s = 1..Len(s)
    BY ListFacts
  <1> DEFINE e == [i \in 1..Len(s) |-> [token |-> s[i], next |-> IF i = Len(s) THEN after ELSE at + i]]
             N == [token : T, next : Nat]
  <1>3. Nodes(s, at, after) = e
    BY <1>2 DEF Nodes
  <1>4. \A i \in 1..Len(s) : e[i] \in N
    <2>1. \A i \in 1..Len(s) : s[i] \in T
      BY <1>1, ElementOfSeq
    <2>2. \A i \in 1..Len(s) : (IF i = Len(s) THEN after ELSE at + i) \in Nat
      <3> TAKE i \in 1..Len(s)
      <3>1. i \in Nat /\ at + i \in Nat
        OBVIOUS
      <3> QED BY <3>1
    <2> QED BY <2>1, <2>2
  <1>5. e \in Seq(N) /\ Len(e) = Len(s)
    <2>1. e \in [1..Len(s) -> N]
      <3> HIDE DEF N
      <3> QED BY <1>4
    <2> HIDE DEF N, e
    <2> QED BY <2>1, <1>2
  <1>6. \A i \in 1..Len(s) : e[i].next = IF i = Len(s) THEN after ELSE at + i
    OBVIOUS
  <1> HIDE DEF e
  <1> QED BY <1>3, <1>5, <1>6

\* Nodes put behind those of a list.
LEMMA NodesAdded ==
    ASSUME NEW l, Heap(l), NEW s, IsList(s), NEW after \in 0..Len(l)
    PROVE  LET m == l \o Nodes(s, Len(l) + 1, after)
           IN  Heap(m) /\ Len(m) = Len(l) + Len(s)
  <1> DEFINE e == Nodes(s, Len(l) + 1, after)
             m == l \o e
  <1>1. Len(l) \in Nat /\ Len(s) \in Nat /\ \A n \in 1..Len(l) : l[n].next \in 0..Len(l)
    BY HeapFacts, ListFacts
  <1>2. PICK T : l \in Seq([token : T, next : Nat])
    BY DEF Heap
  <1>0. Len(l) + 1 \in Nat /\ after \in Nat
    BY <1>1
  <1>3. PICK U : e \in Seq([token : U, next : Nat])
    BY <1>0, IsListNodes
  <1>4. Len(e) = Len(s) /\ \A i \in 1..Len(s) : e[i].next = IF i = Len(s) THEN after ELSE Len(l) + 1 + i
    BY <1>0, IsListNodes
  <1> DEFINE V == T \cup U
             N == [token : V, next : Nat]
  <1>5. l \in Seq(N) /\ e \in Seq(N)
    <2>1. [token : T, next : Nat] \subseteq N /\ [token : U, next : Nat] \subseteq N
      OBVIOUS
    <2> HIDE DEF N, e
    <2> QED BY <1>2, <1>3, <2>1, SeqMonotonic
  <1> HIDE DEF e
  <1>6. /\ m \in Seq(N) /\ Len(m) = Len(l) + Len(e)
        /\ \A i \in 1..(Len(l) + Len(e)) : m[i] = IF i <= Len(l) THEN l[i] ELSE e[i - Len(l)]
    <2> HIDE DEF N
    <2> QED BY <1>5, ConcatProperties
  <1>7. \E S : m \in Seq([token : S, next : Nat])
    BY <1>6
  <1> HIDE DEF m
  <1>8. \A i \in 1..Len(m) : m[i].next \in 0..Len(m)
    <2> TAKE i \in 1..Len(m)
    <2>1. CASE i <= Len(l)
      BY <1>1, <1>4, <1>6, <2>1
    <2>2. CASE ~(i <= Len(l))
      <3>1. i - Len(l) \in 1..Len(s)
        BY <1>1, <1>4, <1>6, <2>2
      <3>2. m[i] = e[i - Len(l)]
        BY <1>1, <1>4, <1>6, <2>2
      <3>3. m[i].next = IF i - Len(l) = Len(s) THEN after ELSE Len(l) + 1 + (i - Len(l))
        BY <1>4, <3>1, <3>2
      <3> QED BY <1>1, <1>4, <1>6, <3>1, <3>3
    <2> QED BY <2>1, <2>2
  <1>9. Heap(m)
    BY <1>7, <1>8 DEF Heap
  <1> QED BY <1>4, <1>6, <1>9 DEF m, e

LEMMA InsertFacts ==
    ASSUME NEW l, Heap(l), NEW n \in 1..Len(l), NEW s, IsList(s)
    PROVE  /\ Heap(InsertAfter(l, n, s))
           /\ Len(InsertAfter(l, n, s)) = Len(l) + Len(s)
           /\ LastOf(l, n, s) \in 1..(Len(l) + Len(s))
  <1>1. Len(l) \in Nat /\ Len(s) \in Nat /\ l[n].next \in 0..Len(l)
    BY HeapFacts, ListFacts
  <1>2. CASE s = <<>>
    <2>1. Len(s) = 0
      BY <1>2
    <2> QED BY <1>1, <1>2, <2>1 DEF InsertAfter, LastOf
  <1>3. CASE s # <<>>
    <2>1. Len(s) # 0
      BY <1>3, EmptySeq DEF IsList
    <2> DEFINE e == Nodes(s, Len(l) + 1, l[n].next)
               m == l \o e
               p == Len(l) + 1
    <2>2. Heap(m) /\ Len(m) = Len(l) + Len(s)
      BY <1>1, NodesAdded
    <2>3. [l EXCEPT ![n].next = p] \o e = [m EXCEPT ![n].next = p]
      <3>1. PICK T : l \in Seq([token : T, next : Nat])
        BY DEF Heap
      <3>2. PICK U : e \in Seq([token : U, next : Nat])
        <4>1. Len(l) + 1 \in Nat /\ l[n].next \in Nat
          BY <1>1
        <4> QED BY <4>1, IsListNodes
      <3> DEFINE V == T \cup U
                 N == [token : V, next : Nat]
                 k == [l EXCEPT ![n].next = p]
                 w == [m EXCEPT ![n].next = p]
      <3>3. l \in Seq(N) /\ e \in Seq(N)
        <4>1. [token : T, next : Nat] \subseteq N /\ [token : U, next : Nat] \subseteq N
          OBVIOUS
        <4> HIDE DEF N, e
        <4> QED BY <3>1, <3>2, <4>1, SeqMonotonic
      <3> HIDE DEF e
      <3>4. m \in Seq(N) /\ \A i \in 1..(Len(l) + Len(e)) : m[i] = IF i <= Len(l) THEN l[i] ELSE e[i - Len(l)]
        <4> HIDE DEF N
        <4> QED BY <3>3, ConcatProperties
      <3>5. m[n] = l[n] /\ Len(m) = Len(l) + Len(e) /\ n \in 1..Len(m)
        <4> HIDE DEF N
        <4> QED BY <1>1, <3>3, <3>4, ConcatProperties
      <3>6. [l[n] EXCEPT !.next = p] \in N
        <4>1. l[n] \in N
          <5> HIDE DEF N
          <5> QED BY <3>3, ElementOfSeq
        <4> QED BY <4>1, <1>1
      <3> HIDE DEF N, m
      <3>7. k = [l EXCEPT ![n] = [l[n] EXCEPT !.next = p]] /\ w = [m EXCEPT ![n] = [l[n] EXCEPT !.next = p]]
        BY <3>5
      <3>8. /\ k \in Seq(N) /\ Len(k) = Len(l)
            /\ \A i \in 1..Len(l) : k[i] = IF i = n THEN [l[n] EXCEPT !.next = p] ELSE l[i]
        BY <3>3, <3>6, <3>7, ExceptSeq
      <3>9. /\ w \in Seq(N) /\ Len(w) = Len(m)
            /\ \A i \in 1..Len(m) : w[i] = IF i = n THEN [l[n] EXCEPT !.next = p] ELSE m[i]
        BY <3>4, <3>5, <3>6, <3>7, ExceptSeq
      <3> HIDE DEF k, w
      <3>10. /\ k \o e \in Seq(N) /\ Len(k \o e) = Len(k) + Len(e)
             /\ \A i \in 1..(Len(k) + Len(e)) : (k \o e)[i] = IF i <= Len(k) THEN k[i] ELSE e[i - Len(k)]
        BY <3>3, <3>8, ConcatProperties
      <3>11. \A i \in 1..Len(k \o e) : (k \o e)[i] = w[i]
        <4> TAKE i \in 1..Len(k \o e)
        <4>1. Len(e) \in Nat /\ i \in 1..(Len(l) + Len(e)) /\ i \in 1..Len(m) /\ (i = n => i <= Len(l))
          BY <1>1, <3>3, <3>5, <3>8, <3>10, LenProperties
        <4>2. CASE i <= Len(l)
          <5>1. i \in 1..Len(l)
            BY <4>1, <4>2
          <5> QED BY <3>4, <3>8, <3>9, <3>10, <4>1, <4>2, <5>1
        <4>3. CASE ~(i <= Len(l))
          BY <3>4, <3>8, <3>9, <3>10, <4>1, <4>3
        <4> QED BY <4>2, <4>3
      <3>12. k \o e = w
        BY <3>5, <3>8, <3>9, <3>10, <3>11, SeqEqual
      <3> QED BY <3>12 DEF k, w
    <2> HIDE DEF m
    <2>4. n \in 1..Len(m) /\ p \in 0..Len(m)
      BY <1>1, <2>1, <2>2
    <2>5. Heap([m EXCEPT ![n].next = p]) /\ Len([m EXCEPT ![n].next = p]) = Len(m)
      BY <2>2, <2>4, LinkWritten
    <2>6. InsertAfter(l, n, s) = [m EXCEPT ![n].next = p]
      BY <1>3, <2>3 DEF InsertAfter, m
    <2>7. LastOf(l, n, s) = Len(l) + Len(s)
      BY <1>3 DEF LastOf
    <2> QED BY <1>1, <2>1, <2>2, <2>5, <2>6, <2>7
  <1> QED BY <1>2, <1>3

-----------------------------------------------------------------------------
(* Walks along the list *)

Pointers(l) == (0..Len(l)) \cup {CRASH}

\* The links followed from node n; NULL and CRASH become CRASH.
IsAdvance(f, l, n, k) ==
    f = [i \in 0..k |-> IF i = 0 THEN n
                        ELSE LET p == f[i - 1] IN IF p \in {NULL, CRASH} THEN CRASH ELSE l[p].next]

LEMMA AdvanceFacts ==
    ASSUME NEW l, Heap(l), NEW n \in Pointers(l), NEW k \in Int
    PROVE  /\ Advance(l, n, k) \in Pointers(l)
           /\ n = CRASH => Advance(l, n, k) = CRASH
  <1>1. CASE k < 0
    BY <1>1 DEF Advance, Pointers
  <1>2. CASE ~(k < 0)
    <2> DEFINE S    == Pointers(l)
               step == [p \in S |-> IF p \in {NULL, CRASH} THEN CRASH ELSE l[p].next]
    <2>0. k \in Nat
      BY <1>2
    <2>1. \A p \in S : p \notin {NULL, CRASH} => p \in 1..Len(l) /\ l[p].next \in S
      BY HeapFacts DEF Pointers, NULL, CRASH
    <2>2. CRASH \in S
      BY DEF Pointers
    <2>3. step \in [S -> S]
      <3> HIDE DEF S
      <3> QED BY <2>1, <2>2
    <2>4. PICK g \in [0..k -> S] : g[0] = n /\ \A i \in 1..k : g[i] = step[g[i - 1]]
      <3> HIDE DEF S, step
      <3>1. n \in S
        BY DEF S
      <3>2. \E h \in [0..k -> S] : Iterates(h, k, n, step)
        BY <2>0, <2>3, <3>1, Iteration
      <3> QED BY <3>2 DEF Iterates
    <2> HIDE DEF S
    <2>5. \A i \in 1..k : i - 1 \in 0..k /\ g[i - 1] \in S
      BY <2>0
    <2>6. IsAdvance(g, l, n, k)
      <3>1. \A i \in 0..k : g[i] = IF i = 0 THEN n
                ELSE LET p == g[i - 1] IN IF p \in {NULL, CRASH} THEN CRASH ELSE l[p].next
        <4> TAKE i \in 0..k
        <4>1. CASE i = 0
          BY <2>4, <4>1
        <4>2. CASE i # 0
          <5>1. i \in 1..k
            BY <2>0, <4>2
          <5> QED BY <2>4, <2>5, <4>2, <5>1
        <4> QED BY <4>1, <4>2
      <3>2. g = [i \in 0..k |-> g[i]]
        BY <2>4
      <3> QED BY <3>1, <3>2 DEF IsAdvance
    <2> DEFINE f == CHOOSE h : IsAdvance(h, l, n, k)
    <2>7. IsAdvance(f, l, n, k)
      BY <2>6
    <2>8. Advance(l, n, k) = f[k]
      BY <1>2 DEF Advance, IsAdvance
    <2> HIDE DEF f
    <2>9. f[0] = n /\ \A i \in 1..k : f[i] = IF f[i - 1] \in {NULL, CRASH} THEN CRASH ELSE l[f[i - 1]].next
      <3>1. 0 \in 0..k /\ \A i \in 1..k : i \in 0..k /\ i # 0
        BY <2>0
      <3>2. \A i \in 0..k : f[i] = IF i = 0 THEN n
                ELSE LET p == f[i - 1] IN IF p \in {NULL, CRASH} THEN CRASH ELSE l[p].next
        BY <2>7 DEF IsAdvance
      <3> QED BY <3>1, <3>2
    <2>10. \A i \in 0..k : f[i] \in S
      <3>1. f[0] \in S
        BY <2>9 DEF S
      <3>2. \A i \in 1..k : f[i - 1] \in S => f[i] \in S
        BY <2>1, <2>2, <2>9
      <3>3. Keeps(f, k, S)
        BY <3>1, <3>2 DEF Keeps
      <3> QED BY <2>0, <3>3, IterationKeeps
    <2>11. n = CRASH => \A i \in 0..k : f[i] \in {CRASH}
      <3> SUFFICES ASSUME n = CRASH PROVE \A i \in 0..k : f[i] \in {CRASH}
        OBVIOUS
      <3>1. Keeps(f, k, {CRASH})
        BY <2>9 DEF Keeps
      <3> QED BY <2>0, <3>1, IterationKeeps
    <2>12. k \in 0..k
      BY <2>0
    <2> QED BY <2>8, <2>10, <2>11, <2>12 DEF S
  <1> QED BY <1>1, <1>2

IsWalk(f, l, n, k) ==
    f = [i \in 0..k |-> IF i = 0 THEN n
                        ELSE LET p == f[i - 1] IN IF p = NULL THEN NULL ELSE l[p].next]

\* Where a chain ends.
Count(f, l) == Min({Len(l) + 1} \cup {i \in 0..Len(l) : f[i] = NULL})

LEMMA ChainFacts ==
    ASSUME NEW l, Heap(l), NEW n \in 0..Len(l)
    PROVE  /\ Chain(l, n) \in Seq(1..Len(l))
           /\ n # NULL => Len(Chain(l, n)) >= 1 /\ Chain(l, n)[1] = n
  <1> DEFINE S    == 0..Len(l)
             k    == Len(l) + 1
             step == [p \in S |-> IF p = NULL THEN NULL ELSE l[p].next]
  <1>0. Len(l) \in Nat /\ k \in Nat
    BY HeapFacts
  <1>1. \A p \in S : p # NULL => p \in 1..Len(l) /\ l[p].next \in S
    BY HeapFacts DEF NULL
  <1>2. NULL \in S
    BY <1>0 DEF NULL
  <1>3. step \in [S -> S]
    <2> HIDE DEF S
    <2> QED BY <1>1, <1>2
  <1>4. PICK g \in [0..k -> S] : g[0] = n /\ \A i \in 1..k : g[i] = step[g[i - 1]]
    <2> HIDE DEF step
    <2>1. n \in S
      OBVIOUS
    <2> HIDE DEF S, k
    <2>2. \E h \in [0..k -> S] : Iterates(h, k, n, step)
      BY <1>0, <1>3, <2>1, Iteration
    <2> QED BY <2>2 DEF Iterates
  <1> HIDE DEF S, k
  <1>5. \A i \in 1..k : i - 1 \in 0..k /\ g[i - 1] \in S
    BY <1>0
  <1>6. IsWalk(g, l, n, k)
    <2>1. \A i \in 0..k : g[i] = IF i = 0 THEN n
              ELSE LET p == g[i - 1] IN IF p = NULL THEN NULL ELSE l[p].next
      <3> TAKE i \in 0..k
      <3>1. CASE i = 0
        BY <1>4, <3>1
      <3>2. CASE i # 0
        <4>1. i \in 1..k
          BY <1>0, <3>2
        <4> QED BY <1>4, <1>5, <3>2, <4>1
      <3> QED BY <3>1, <3>2
    <2>2. g = [i \in 0..k |-> g[i]]
      BY <1>4
    <2> QED BY <2>1, <2>2 DEF IsWalk
  <1> DEFINE f == CHOOSE h : IsWalk(h, l, n, k)
  <1>7. IsWalk(f, l, n, k)
    BY <1>6
  <1>8. Chain(l, n) = [i \in 1..Count(f, l) |-> f[i - 1]]
    BY DEF Chain, IsWalk, Count, k
  <1> HIDE DEF f
  <1>9. f[0] = n /\ \A i \in 1..k : f[i] = IF f[i - 1] = NULL THEN NULL ELSE l[f[i - 1]].next
    <2>1. 0 \in 0..k /\ \A i \in 1..k : i \in 0..k /\ i # 0
      BY <1>0
    <2>2. \A i \in 0..k : f[i] = IF i = 0 THEN n
              ELSE LET p == f[i - 1] IN IF p = NULL THEN NULL ELSE l[p].next
      BY <1>7 DEF IsWalk
    <2> QED BY <2>1, <2>2
  <1>10. \A i \in 0..k : f[i] \in S
    <2>1. f[0] \in S
      BY <1>9 DEF S
    <2>2. \A i \in 1..k : f[i - 1] \in S => f[i] \in S
      BY <1>1, <1>2, <1>9
    <2>3. Keeps(f, k, S)
      BY <2>1, <2>2 DEF Keeps
    <2> QED BY <1>0, <2>3, IterationKeeps
  <1> DEFINE E == {Len(l) + 1} \cup {i \in 0..Len(l) : f[i] = NULL}
             c == Count(f, l)
  <1>11. c \in E /\ \A i \in E : c <= i
    <2>1. E \subseteq Nat /\ E # {}
      BY <1>0
    <2> HIDE DEF E
    <2>2. Min(E) \in E /\ \A i \in E : Min(E) <= i
      BY <2>1, MinOfNaturals
    <2> QED BY <2>2 DEF Count, E
  <1>12. c \in Nat /\ c <= k
    BY <1>0, <1>11 DEF k
  <1> HIDE DEF c
  <1>13. \A i \in 1..c : f[i - 1] \in 1..Len(l)
    <2> TAKE i \in 1..c
    <2>1. i - 1 \in 0..Len(l) /\ i - 1 \in 0..k /\ ~(c <= i - 1)
      BY <1>0, <1>12 DEF k
    <2>2. i - 1 \notin E
      BY <1>11, <2>1
    <2>3. f[i - 1] # NULL
      BY <2>1, <2>2
    <2>4. f[i - 1] \in S
      BY <1>10, <2>1
    <2> QED BY <1>0, <2>3, <2>4 DEF S, NULL
  <1>14. Chain(l, n) = [i \in 1..c |-> f[i - 1]]
    BY <1>8 DEF c
  <1> HIDE DEF E
  <1>15. Chain(l, n) \in Seq(1..Len(l)) /\ Len(Chain(l, n)) = c
    <2>1. Chain(l, n) \in [1..c -> 1..Len(l)]
      BY <1>13, <1>14
    <2> QED BY <1>12, <2>1
  <1>16. n # NULL => c >= 1 /\ Chain(l, n)[1] = n
    <2> SUFFICES ASSUME n # NULL PROVE c >= 1 /\ Chain(l, n)[1] = n
      OBVIOUS
    <2>1. 0 \notin E
      BY <1>0, <1>9 DEF E
    <2>2. c >= 1
      BY <1>11, <1>12, <2>1
    <2>3. 1 \in 1..c
      BY <1>12, <2>2
    <2> QED BY <1>9, <1>14, <2>2, <2>3
  <1> QED BY <1>15, <1>16

LEMMA DistanceFacts ==
    ASSUME NEW l, Heap(l), NEW n \in 0..Len(l), NEW stop
    PROVE  Distance(l, n, stop) \in Nat
  <1> DEFINE c == Chain(l, n)
             E == {Len(c)} \cup {i - 1 : i \in {j \in DOMAIN c : c[j] = stop}}
  <1>1. c \in Seq(1..Len(l))
    BY ChainFacts
  <1> HIDE DEF c
  <1>2. E \subseteq Nat /\ E # {}
    <2>1. Len(c) \in Nat /\ DOMAIN c = 1..Len(c)
      BY <1>1
    <2> QED BY <2>1
  <1>3. Distance(l, n, stop) = Min(E)
    BY DEF Distance, c
  <1> HIDE DEF E
  <1> QED BY <1>2, <1>3, MinOfNaturals

-----------------------------------------------------------------------------
(* The arguments of a call *)

LEMMA FunctionIsList ==
    ASSUME NEW m \in Nat, NEW h, h = [i \in 1..m |-> h[i]]
    PROVE  IsList(h) /\ Len(h) = m
  <1> DEFINE R == {h[i] : i \in 1..m}
  <1>1. h \in [1..m -> R]
    OBVIOUS
  <1> HIDE DEF R
  <1>2. h \in Seq(R) /\ Len(h) = m
    BY <1>1
  <1> QED BY <1>2 DEF IsList

LEMMA ArgumentFacts ==
    ASSUME NEW l, Heap(l), NEW n \in Pointers(l)
    PROVE  LET a == Argument(l, n)
           IN  /\ a.after \in Pointers(l)
               /\ n = CRASH => a.after = CRASH
               /\ a.after # CRASH => IsList(a.tokens) /\ Len(a.tokens) >= 1
  <1> DEFINE a == Argument(l, n)
             c == IF n \in {NULL, CRASH} THEN <<>> ELSE Chain(l, n)
  <1>1. c \in Seq(1..Len(l)) /\ (n = CRASH => c = <<>>)
    <2>1. CASE n \in {NULL, CRASH}
      BY <2>1, EmptySeq
    <2>2. CASE n \notin {NULL, CRASH}
      <3>1. n \in 0..Len(l) /\ n # CRASH
        BY <2>2 DEF Pointers
      <3> QED BY <2>2, <3>1, ChainFacts
    <2> QED BY <2>1, <2>2
  <1>2. PICK ends : /\ ends \subseteq DOMAIN c
                    /\ ends = {} => a.after = CRASH
                    /\ ends # {} =>
                         /\ a.after = l[c[Min(ends)]].next
                         /\ \/ a.tokens = <<Blank>>
                            \/ Min(ends) # 1 /\ a.tokens = [i \in 1..(Min(ends) - 1) |-> a.tokens[i]]
    <2> DEFINE tok(i)      == l[c[i]].token
               Count1(p, i) == Cardinality({j \in 1..(i - 1) : tok(j).sub = p})
               E == {i \in DOMAIN c : tok(i).sub \in {",", ")"} /\ Count1("(", i) = Count1(")", i)}
               T == [i \in 1..(Min(E) - 1) |-> IF i = 1 THEN [tok(1) EXCEPT !.blank = FALSE] ELSE tok(i)]
    <2>1. a = IF E = {} THEN [tokens |-> <<>>, after |-> CRASH]
              ELSE [tokens |-> IF Min(E) = 1 THEN <<Blank>> ELSE T,
                    after |-> l[c[Min(E)]].next]
      BY DEF Argument
    <2>2. T = [i \in 1..(Min(E) - 1) |-> T[i]]
      <3> DEFINE D == 1..(Min(E) - 1)
      <3>1. \A i \in D : T[i] = IF i = 1 THEN [tok(1) EXCEPT !.blank = FALSE] ELSE tok(i)
        <4> HIDE DEF E, tok, Count1
        <4> QED OBVIOUS
      <3> HIDE DEF E, tok, Count1
      <3> QED BY <3>1
    <2>3. E \subseteq DOMAIN c
      <3> HIDE DEF c, tok, Count1
      <3> QED BY Zenon
    <2> HIDE DEF E, T, a, c
    <2>4. E # {} => \/ a.tokens = <<Blank>>
                    \/ Min(E) # 1 /\ a.tokens = [i \in 1..(Min(E) - 1) |-> a.tokens[i]]
      <3>1. CASE E # {} /\ Min(E) # 1
        <4>1. a.tokens = T
          BY <2>1, <3>1
        <4> QED BY <2>2, <3>1, <4>1
      <3>2. CASE E # {} /\ Min(E) = 1
        BY <2>1, <3>2
      <3> QED BY <3>1, <3>2
    <2>5. (E = {} => a.after = CRASH) /\ (E # {} => a.after = l[c[Min(E)]].next)
      BY <2>1
    <2> QED BY <2>3, <2>4, <2>5
  <1> HIDE DEF a, c
  <1>3. DOMAIN c = 1..Len(c) /\ Len(c) \in Nat
    BY <1>1
  <1>4. CASE ends = {}
    BY <1>2, <1>4 DEF Pointers, a
  <1>5. CASE ends # {}
    <2>1. Min(ends) \in ends
      <3>1. ends \subseteq Nat
        BY <1>2, <1>3
      <3> QED BY <1>5, <3>1, MinOfNaturals
    <2>2. Min(ends) \in 1..Len(c)
      BY <1>2, <1>3, <2>1
    <2>3. c[Min(ends)] \in 1..Len(l)
      BY <1>1, <2>2, ElementOfSeq
    <2>4. a.after \in Pointers(l)
      BY <1>2, <1>5, <2>3, HeapFacts DEF Pointers
    <2>5. n # CRASH
      <3>1. Len(c) # 0
        BY <1>3, <2>2
      <3> QED BY <1>1, <3>1
    <2>6. IsList(a.tokens) /\ Len(a.tokens) >= 1
      <3>1. CASE a.tokens = <<Blank>>
        <4>1. <<Blank>> \in Seq({Blank}) /\ Len(<<Blank>>) = 1
          OBVIOUS
        <4> HIDE DEF a
        <4>2. IsList(<<Blank>>)
          BY <4>1 DEF IsList
        <4> QED BY <3>1, <4>1, <4>2
      <3>2. CASE a.tokens # <<Blank>>
        <4>1. Min(ends) - 1 \in Nat /\ Min(ends) - 1 >= 1
          BY <1>2, <1>3, <1>5, <2>2, <3>2
        <4>2. a.tokens = [i \in 1..(Min(ends) - 1) |-> a.tokens[i]]
          BY <1>2, <1>5, <3>2
        <4>3. IsList(a.tokens) /\ Len(a.tokens) = Min(ends) - 1
          BY <4>1, <4>2, FunctionIsList
        <4> QED BY <4>1, <4>3
      <3> QED BY <3>1, <3>2
    <2> QED BY <2>4, <2>5, <2>6 DEF a
  <1> QED BY <1>4, <1>5

Filled(s) == IsList(s) /\ Len(s) >= 1

IsArguments(f, l, open, k) ==
    f = [i \in 0..k |-> IF i = 0 THEN [tokens |-> <<>>, after |-> open]
                        ELSE Argument(l, f[i - 1].after)]

LEMMA ArgumentsFacts ==
    ASSUME NEW l, Heap(l), NEW n \in 1..Len(l), NEW m, IsList(m.params)
    PROVE  LET a == Arguments(l, n, m)
           IN  /\ a.after \in Pointers(l)
               /\ a.after # CRASH => /\ a.tokens = [i \in 1..Len(m.params) |-> a.tokens[i]]
                                     /\ \A i \in 1..Len(m.params) : Filled(a.tokens[i])
  <1> DEFINE a    == Arguments(l, n, m)
             k    == Len(m.params)
             open == Advance(l, n, 2)
             S    == Pointers(l)
             step == [p \in S |-> Argument(l, p).after]
             f    == CHOOSE h : IsArguments(h, l, open, k)
  <1>0. k \in Nat /\ n \in S
    BY ListFacts, HeapFacts DEF Pointers
  <1>1. open \in S
    <2>1. 2 \in Int /\ n \in Pointers(l)
      BY <1>0
    <2> QED BY <2>1, AdvanceFacts
  <1>2. a = [tokens |-> [i \in 1..k |-> f[i].tokens],
             after  |-> IF k > 0 \/ open = CRASH THEN f[k].after ELSE Advance(l, open, 1)]
    BY DEF Arguments, IsArguments
  <1> HIDE DEF a, k, open, S, f
  <1>3. PICK g \in [0..k -> S] : g[0] = open /\ \A i \in 1..k : g[i] = step[g[i - 1]]
    <2>1. step \in [S -> S]
      BY ArgumentFacts DEF S
    <2> HIDE DEF step
    <2>2. \E h \in [0..k -> S] : Iterates(h, k, open, step)
      BY <1>0, <1>1, <2>1, Iteration
    <2> QED BY <2>2 DEF Iterates
  <1>4. \E h : IsArguments(h, l, open, k)
    <2> DEFINE h == [i \in 0..k |-> IF i = 0 THEN [tokens |-> <<>>, after |-> open]
                                    ELSE Argument(l, g[i - 1])]
    <2>1. \A i \in 0..k : h[i].after = g[i]
      <3> TAKE i \in 0..k
      <3>1. CASE i = 0
        BY <1>3, <3>1
      <3>2. CASE i # 0
        <4>1. i \in 1..k /\ i - 1 \in 0..k
          BY <1>0, <3>2
        <4>2. g[i] = Argument(l, g[i - 1]).after
          BY <1>3, <4>1
        <4> QED BY <3>2, <4>2
      <3> QED BY <3>1, <3>2
    <2>2. \A i \in 0..k : h[i] = IF i = 0 THEN [tokens |-> <<>>, after |-> open]
                                 ELSE Argument(l, h[i - 1].after)
      <3> TAKE i \in 0..k
      <3>1. CASE i = 0
        BY <3>1
      <3>2. CASE i # 0
        <4>1. i - 1 \in 0..k
          BY <1>0, <3>2
        <4>2. h[i] = Argument(l, g[i - 1])
          BY <3>2
        <4> HIDE DEF h
        <4> QED BY <2>1, <3>2, <4>1, <4>2
      <3> QED BY <3>1, <3>2
    <2>3. h = [i \in 0..k |-> h[i]]
      OBVIOUS
    <2> HIDE DEF h
    <2>4. IsArguments(h, l, open, k)
      BY <2>2, <2>3 DEF IsArguments
    <2> QED BY <2>4
  <1>5. IsArguments(f, l, open, k)
    BY <1>4 DEF f
  <1>6. f[0].after = open /\ \A i \in 1..k : f[i] = Argument(l, f[i - 1].after)
    <2>1. 0 \in 0..k /\ \A i \in 1..k : i \in 0..k /\ i # 0
      BY <1>0
    <2>2. \A i \in 0..k : f[i] = IF i = 0 THEN [tokens |-> <<>>, after |-> open]
                                 ELSE Argument(l, f[i - 1].after)
      BY <1>5 DEF IsArguments
    <2> QED BY <2>1, <2>2
  <1>7. \A i \in 0..k : f[i].after \in S
    <2> DEFINE p == [i \in 0..k |-> f[i].after]
    <2>1. Keeps(p, k, S)
      <3>1. p[0] \in S
        BY <1>0, <1>1, <1>6
      <3>2. ASSUME NEW i \in 1..k, p[i - 1] \in S
            PROVE  p[i] \in S
        <4>1. i \in 0..k /\ i - 1 \in 0..k
          BY <1>0
        <4>2. p[i - 1] = f[i - 1].after /\ p[i] = f[i].after
          BY <4>1
        <4> HIDE DEF p
        <4>3. f[i - 1].after \in Pointers(l)
          BY <3>2, <4>2 DEF S
        <4>4. Argument(l, f[i - 1].after).after \in S
          BY <4>3, ArgumentFacts DEF S
        <4> QED BY <1>6, <4>2, <4>4
      <3> HIDE DEF p
      <3> QED BY <3>1, <3>2 DEF Keeps
    <2> HIDE DEF p
    <2>2. \A i \in 0..k : p[i] \in S
      BY <1>0, <2>1, IterationKeeps
    <2> QED BY <2>2 DEF p
  <1>8. ASSUME NEW j \in 1..k
        PROVE  f[j].after # CRASH => Filled(f[j].tokens) /\ f[j - 1].after # CRASH
    <2>1. j - 1 \in 0..k
      BY <1>0
    <2>2. f[j - 1].after \in Pointers(l)
      BY <1>7, <2>1 DEF S
    <2> QED BY <1>6, <2>2, ArgumentFacts DEF Filled
  <1>9. \A j \in 0..k : f[j].after # CRASH => \A i \in 1..j : Filled(f[i].tokens)
    <2> DEFINE A == {j \in Nat : j <= k /\ f[j].after # CRASH => \A i \in 1..j : Filled(f[i].tokens)}
    <2>1. ASSUME NEW j \in Nat, \A i \in 0..(j - 1) : i \in A
          PROVE  j \in A
      <3> SUFFICES ASSUME j <= k, f[j].after # CRASH, NEW i \in 1..j
                   PROVE  Filled(f[i].tokens)
        OBVIOUS
      <3>1. j \in 1..k /\ j - 1 \in 0..(j - 1) /\ j - 1 <= k
        BY <1>0
      <3>2. Filled(f[j].tokens) /\ f[j - 1].after # CRASH
        BY <1>8, <3>1
      <3>3. \A h \in 1..(j - 1) : Filled(f[h].tokens)
        BY <2>1, <3>1, <3>2
      <3>4. i = j \/ i \in 1..(j - 1)
        OBVIOUS
      <3> QED BY <3>2, <3>3, <3>4
    <2> HIDE DEF A
    <2>2. Nat \subseteq A
      BY <2>1, SetInduction
    <2> QED BY <1>0, <2>2 DEF A
  <1>10. a.after \in S /\ (a.after # CRASH => f[k].after # CRASH)
    <2>1. k \in 0..k /\ 1 \in Int
      BY <1>0
    <2>2. Advance(l, open, 1) \in S
      BY <1>1, <2>1, AdvanceFacts DEF S
    <2>3. CASE k > 0 \/ open = CRASH
      BY <1>2, <1>7, <2>1, <2>3
    <2>4. CASE ~(k > 0 \/ open = CRASH)
      <3>1. k = 0
        BY <1>0, <2>4
      <3> QED BY <1>2, <1>6, <2>2, <2>4, <3>1
    <2> QED BY <2>3, <2>4
  <1>11. a.after # CRASH => \A i \in 1..k : Filled(a.tokens[i])
    <2>1. k \in 0..k
      BY <1>0
    <2> QED BY <1>2, <1>9, <1>10, <2>1
  <1>12. a.tokens = [i \in 1..k |-> a.tokens[i]]
    BY <1>2
  <1> QED BY <1>10, <1>11, <1>12 DEF a, k, S

-----------------------------------------------------------------------------
(* The macros that the lines of a program define *)

\* A list of parameters, and only the parameters are ARGUMENTs.
MacroOK(m) ==
    /\ m.is_function_like \in BOOLEAN
    /\ IsList(m.params) /\ IsList(m.replacement)
    /\ ~m.is_function_like => Len(m.params) = 0
    /\ \A i \in 1..Len(m.replacement) :
           m.replacement[i].type = "ARGUMENT" =>
               \E j \in 1..Len(m.params) : m.params[j] = m.replacement[i].text

\* What Parameters reads from each token on.
Read(ts) == [names : Seq({ts[i].text : i \in 1..Len(ts)}), after : Nat \ {0}, error : BOOLEAN]

BadParameter(ts, i) ==
    \/ ts[i].type # "IDENTIFIER" /\ ts[i].sub # "..."
    \/ ts[i].sub = "..." /\ ts[i + 1].sub # ")"

ReadEnd(ts, i) == [names |-> <<>>, after |-> i + 1, error |-> FALSE]
ReadBad(ts, i) == [names |-> <<>>, after |-> i, error |-> TRUE]
Comma(ts, i)    == ts[i].sub = ","
Closing(ts, i)  == ts[i].sub = ")"
NextParameter(ts, i) == IF Comma(ts, i + 1) THEN i + 2 ELSE i + 1
ReadMore(ts, i, r) == [r EXCEPT !.names = <<ts[i].text>> \o @]

IsReading(f, ts) ==
    f = [i \in DOMAIN ts |->
            IF Closing(ts, i) THEN ReadEnd(ts, i)
            ELSE IF BadParameter(ts, i) THEN ReadBad(ts, i)
            ELSE ReadMore(ts, i, f[NextParameter(ts, i)])]

Stops(ts, i) == Closing(ts, i) \/ BadParameter(ts, i)

LEMMA LineFacts ==
    ASSUME NEW ts, IsLine(ts)
    PROVE  /\ Len(ts) \in Nat /\ Len(ts) >= 2 /\ DOMAIN ts = 1..Len(ts)
           /\ \A i \in 1..Len(ts) : ts[i] \in AnyToken /\ ts[i].type # "ARGUMENT"
  <1>1. ts \in Seq(AnyToken) /\ Len(ts) >= 2 /\ \A i \in DOMAIN ts : ts[i].type # "ARGUMENT"
    BY Zenon DEF IsLine
  <1>2. \A i \in 1..Len(ts) : ts[i] \in AnyToken
    BY <1>1, ElementOfSeq
  <1>3. Len(ts) \in Nat /\ DOMAIN ts = 1..Len(ts)
    BY <1>1
  <1> QED BY <1>1, <1>2, <1>3

\* The NEWLINE is no parameter and no comma.
LEMMA LineEnds ==
    ASSUME NEW ts, IsLine(ts)
    PROVE  Stops(ts, Len(ts)) /\ ~Comma(ts, Len(ts)) /\ (IsFunctionLike(ts) => Len(ts) # 2)
  <1> DEFINE n == Len(ts)
  <1>1. ts[n].type = "NEWLINE" /\ ts[n].sub \notin {"(", ")", ",", "..."}
    BY Zenon DEF IsLine
  <1>2. "NEWLINE" # "IDENTIFIER"
    OBVIOUS
  <1> HIDE DEF n
  <1>3. ts[n].type # "IDENTIFIER"
    BY <1>1, <1>2, Zenon
  <1>4. ts[n].sub # "..." /\ ts[n].sub # "," /\ ts[n].sub # "("
    BY <1>1, Zenon
  <1>5. BadParameter(ts, n)
    BY <1>3, <1>4, Zenon DEF BadParameter
  <1>6. Stops(ts, n) /\ ~Comma(ts, n)
    BY <1>4, <1>5, Zenon DEF Stops, Comma
  <1>7. IsFunctionLike(ts) => n # 2
    BY <1>4, Zenon DEF IsFunctionLike
  <1> QED BY <1>6, <1>7, Zenon DEF n

LEMMA NextIsInLine ==
    ASSUME NEW ts, IsLine(ts), NEW i \in 1..Len(ts), ~Stops(ts, i)
    PROVE  NextParameter(ts, i) \in (i + 1)..Len(ts)
  <1>1. Len(ts) \in Nat
    BY LineFacts
  <1>2. i # Len(ts)
    BY LineEnds
  <1>3. Comma(ts, i + 1) => i + 1 # Len(ts)
    BY LineEnds
  <1>4. i + 1 <= Len(ts) /\ (Comma(ts, i + 1) => i + 2 <= Len(ts))
    BY <1>1, <1>2, <1>3
  <1> QED BY <1>1, <1>4 DEF NextParameter

LEMMA ReadFacts ==
    ASSUME NEW ts, IsLine(ts), NEW i \in 1..Len(ts)
    PROVE  /\ ReadEnd(ts, i) \in Read(ts) /\ ReadBad(ts, i) \in Read(ts)
           /\ \A r \in Read(ts) : ReadMore(ts, i, r) \in Read(ts)
  <1> DEFINE X == {ts[j].text : j \in 1..Len(ts)}
  <1>1. ts[i].text \in X /\ <<>> \in Seq(X)
    BY EmptySeq
  <1>2. ASSUME NEW q \in Seq(X)
        PROVE  <<ts[i].text>> \o q \in Seq(X)
    <2> HIDE DEF X
    <2>1. <<ts[i].text>> \in Seq(X)
      BY <1>1
    <2> QED BY <1>2, <2>1, ConcatProperties
  <1>3. i \in Nat \ {0} /\ i + 1 \in Nat \ {0}
    BY LineFacts
  <1>4. Read(ts) = [names : Seq(X), after : Nat \ {0}, error : BOOLEAN]
    BY DEF Read
  <1> HIDE DEF X
  <1>5. ReadEnd(ts, i) \in Read(ts) /\ ReadBad(ts, i) \in Read(ts)
    BY <1>1, <1>3, <1>4 DEF ReadEnd, ReadBad
  <1>6. ASSUME NEW r \in Read(ts)
        PROVE  ReadMore(ts, i, r) \in Read(ts)
    <2>1. r \in [names : Seq(X), after : Nat \ {0}, error : BOOLEAN] /\ r.names \in Seq(X)
      BY <1>4
    <2>2. <<ts[i].text>> \o r.names \in Seq(X)
      BY <1>2, <2>1
    <2> QED BY <1>4, <2>1, <2>2 DEF ReadMore
  <1> QED BY <1>5, <1>6

LEMMA ReadingExists ==
    ASSUME NEW ts, IsLine(ts)
    PROVE  \E f : IsReading(f, ts)
  <1> DEFINE N    == Len(ts)
             S    == Read(ts)
             B    == {n \in Nat : n >= N \/ Stops(ts, N - n)}
             last(n) == IF n >= N THEN ReadEnd(ts, 1)
                        ELSE IF Closing(ts, N - n) THEN ReadEnd(ts, N - n)
                        ELSE ReadBad(ts, N - n)
             base == [n \in B |-> last(n)]
             prev == [n \in Nat \ B |-> N - NextParameter(ts, N - n)]
             step == [p \in Nat \X S |-> IF p[1] < N THEN ReadMore(ts, N - p[1], p[2]) ELSE p[2]]
  <1>0. N \in Nat /\ N >= 2 /\ DOMAIN ts = 1..N
    BY LineFacts
  <1>1. \A n \in Nat : n < N => N - n \in 1..N
    BY <1>0
  <1>2. base \in [B -> S]
    <2>1. 1 \in 1..N
      BY <1>0
    <2>2. \A n \in Nat : last(n) \in S
      BY <1>0, <1>1, <2>1, ReadFacts
    <2> HIDE DEF last, S
    <2> QED BY <2>2
  <1>3. prev \in [Nat \ B -> Nat] /\ \A n \in Nat \ B : prev[n] < n
    <2>1. ASSUME NEW n \in Nat \ B
          PROVE  N - NextParameter(ts, N - n) \in Nat /\ N - NextParameter(ts, N - n) < n
      <3>1. n < N /\ ~Stops(ts, N - n) /\ N - n \in 1..N
        BY <1>0
      <3>2. NextParameter(ts, N - n) \in ((N - n) + 1)..N
        BY <3>1, NextIsInLine
      <3> QED BY <1>0, <3>1, <3>2
    <2> HIDE DEF B
    <2> QED BY <2>1
  <1>4. step \in [Nat \X S -> S]
    <2>1. ASSUME NEW p \in Nat \X S
          PROVE  (IF p[1] < N THEN ReadMore(ts, N - p[1], p[2]) ELSE p[2]) \in S
      <3>1. p[1] \in Nat /\ p[2] \in S
        OBVIOUS
      <3> HIDE DEF S
      <3>2. CASE p[1] < N
        <4>1. N - p[1] \in 1..N
          BY <1>1, <3>1, <3>2
        <4>2. ReadMore(ts, N - p[1], p[2]) \in S
          BY <3>1, <4>1, ReadFacts DEF S
        <4> QED BY <3>2, <4>2
      <3>3. CASE ~(p[1] < N)
        BY <3>1, <3>3
      <3> QED BY <3>2, <3>3
    <2> HIDE DEF S
    <2> QED BY <2>1
  <1>5. PICK g \in [Nat -> S] :
            \A n \in Nat : g[n] = IF n \in B THEN base[n] ELSE step[<<n, g[prev[n]]>>]
    <2> HIDE DEF S, B, base, prev, step
    <2>1. WellFounded(S, B, base, prev, step)
      BY <1>2, <1>3, <1>4 DEF WellFounded
    <2>2. PICK h \in [Nat -> S] : \A k \in Nat : Solves(h, k, B, base, prev, step)
      BY <2>1, Recursion
    <2>3. \A n \in Nat : h[n] = IF n \in B THEN base[n] ELSE step[<<n, h[prev[n]]>>]
      BY <2>2 DEF Solves
    <2> QED BY <2>3
  <1> DEFINE f == [i \in 1..N |-> g[N - i]]
  <1>6. ASSUME NEW i \in 1..N
        PROVE  f[i] = IF Closing(ts, i) THEN ReadEnd(ts, i)
                      ELSE IF BadParameter(ts, i) THEN ReadBad(ts, i)
                      ELSE ReadMore(ts, i, f[NextParameter(ts, i)])
    <2>1. N - i \in Nat /\ N - i < N /\ N - (N - i) = i
      BY <1>0
    <2>2. f[i] = g[N - i]
      OBVIOUS
    <2>3. CASE Stops(ts, i)
      <3>1. N - i \in B
        BY <2>1, <2>3
      <3>2. f[i] = last(N - i)
        BY <1>5, <2>1, <2>2, <3>1
      <3> QED BY <2>1, <2>3, <3>2 DEF Stops
    <2>4. CASE ~Stops(ts, i)
      <3>1. N - i \notin B
        BY <2>1, <2>4
      <3>2. NextParameter(ts, i) \in (i + 1)..N
        BY <2>4, NextIsInLine
      <3>3. prev[N - i] = N - NextParameter(ts, i) /\ N - NextParameter(ts, i) \in Nat
        BY <1>0, <2>1, <3>1, <3>2
      <3>4. g[N - i] = step[<<N - i, g[N - NextParameter(ts, i)]>>]
        <4> HIDE DEF S, B, base, prev, step
        <4> QED BY <1>5, <2>1, <3>1, <3>3
      <3>5. g[N - NextParameter(ts, i)] \in S
        BY <1>5, <3>3
      <3>6. \A r \in S : step[<<N - i, r>>] = ReadMore(ts, i, r)
        <4> HIDE DEF S
        <4> QED BY <2>1
      <3>7. f[NextParameter(ts, i)] = g[N - NextParameter(ts, i)]
        <4>1. NextParameter(ts, i) \in 1..N
          BY <1>0, <3>2
        <4> QED BY <4>1
      <3> HIDE DEF f, step, S, B, prev, base
      <3>8. f[i] = ReadMore(ts, i, f[NextParameter(ts, i)])
        BY <2>2, <3>4, <3>5, <3>6, <3>7
      <3> QED BY <2>4, <3>8 DEF Stops
    <2> QED BY <2>3, <2>4
  <1>7. f = [i \in 1..N |-> f[i]]
    OBVIOUS
  <1> HIDE DEF f
  <1>8. IsReading(f, ts)
    BY <1>0, <1>6, <1>7 DEF IsReading
  <1> QED BY <1>8

LEMMA ParametersFacts ==
    ASSUME NEW ts, IsLine(ts), IsFunctionLike(ts)
    PROVE  Parameters(ts) \in Read(ts)
  <1> DEFINE N == Len(ts)
             f == CHOOSE h : IsReading(h, ts)
  <1>0. N \in Nat /\ N >= 2 /\ N # 2 /\ DOMAIN ts = 1..N
    BY LineFacts, LineEnds
  <1>1. IsReading(f, ts)
    BY ReadingExists
  <1>2. Parameters(ts) = f[3]
    BY Zenon DEF Parameters, IsReading, Closing, BadParameter, Comma, NextParameter,
                 ReadEnd, ReadBad, ReadMore
  <1> HIDE DEF f
  <1>3. ASSUME NEW i \in 1..N
        PROVE  f[i] = IF Closing(ts, i) THEN ReadEnd(ts, i)
                      ELSE IF BadParameter(ts, i) THEN ReadBad(ts, i)
                      ELSE ReadMore(ts, i, f[NextParameter(ts, i)])
    BY <1>0, <1>1, Zenon DEF IsReading
  <1> DEFINE A == {n \in Nat : n < N => f[N - n] \in Read(ts)}
  <1>4. ASSUME NEW n \in Nat, \A m \in 0..(n - 1) : m \in A
        PROVE  n \in A
    <2> SUFFICES ASSUME n < N PROVE f[N - n] \in Read(ts)
      OBVIOUS
    <2> DEFINE i == N - n
    <2>1. i \in 1..N
      BY <1>0
    <2>2. CASE Stops(ts, i)
      <3>1. f[i] = ReadEnd(ts, i) \/ f[i] = ReadBad(ts, i)
        BY <1>3, <2>1, <2>2 DEF Stops
      <3> QED BY <2>1, <3>1, ReadFacts
    <2>3. CASE ~Stops(ts, i)
      <3> DEFINE j == NextParameter(ts, i)
      <3>1. j \in (i + 1)..N
        BY <2>1, <2>3, NextIsInLine
      <3>2. N - j \in 0..(n - 1) /\ N - j < N /\ N - (N - j) = j
        <4>1. i = N - n /\ n \in Nat /\ j \in Int /\ j >= i + 1 /\ j <= N
          BY <1>0, <3>1
        <4> HIDE DEF j, i, A, N
        <4> QED BY <1>0, <4>1
      <3>3. f[j] \in Read(ts)
        BY <1>4, <3>2
      <3>4. f[i] = ReadMore(ts, i, f[j])
        BY <1>3, <2>1, <2>3 DEF Stops
      <3> HIDE DEF j, i
      <3>5. f[i] \in Read(ts)
        BY <2>1, <3>3, <3>4, ReadFacts
      <3> QED BY <3>5 DEF i
    <2> QED BY <2>2, <2>3
  <1> HIDE DEF A
  <1>5. Nat \subseteq A
    BY <1>4, SetInduction
  <1>6. N - 3 \in Nat /\ N - 3 < N /\ N - (N - 3) = 3
    BY <1>0
  <1>7. f[3] \in Read(ts)
    BY <1>5, <1>6 DEF A
  <1> QED BY <1>2, <1>7

\* The replacement list of a #define.
Replaced(body, names) ==
    [i \in DOMAIN body |-> IF body[i].text \in Range(names)
                           THEN [body[i] EXCEPT !.type = "ARGUMENT"] ELSE body[i]]

LEMMA ReplacedFacts ==
    ASSUME NEW body \in Seq(AnyToken), \A i \in DOMAIN body : body[i].type # "ARGUMENT",
           NEW names, IsList(names)
    PROVE  /\ IsList(Replaced(body, names))
           /\ \A i \in 1..Len(Replaced(body, names)) :
                  Replaced(body, names)[i].type = "ARGUMENT" =>
                      \E j \in 1..Len(names) : names[j] = Replaced(body, names)[i].text
  <1> DEFINE N == Len(body)
             r == Replaced(body, names)
  <1>1. N \in Nat /\ DOMAIN body = 1..N /\ DOMAIN names = 1..Len(names)
    BY ListFacts
  <1>2. r = [i \in 1..N |-> r[i]]
    BY <1>1 DEF Replaced
  <1>3. IsList(r) /\ Len(r) = N
    <2> HIDE DEF r
    <2> QED BY <1>1, <1>2, FunctionIsList
  <1>4. ASSUME NEW i \in 1..N, r[i].type = "ARGUMENT"
        PROVE  \E j \in 1..Len(names) : names[j] = r[i].text
    <2>1. r[i] = IF body[i].text \in Range(names)
                 THEN [body[i] EXCEPT !.type = "ARGUMENT"] ELSE body[i]
      BY <1>1 DEF Replaced
    <2>2. body[i].type # "ARGUMENT"
      BY <1>1
    <2> HIDE DEF r
    <2>3. body[i].text \in Range(names)
      BY <1>4, <2>1, <2>2
    <2>4. body[i] \in AnyToken
      BY ElementOfSeq
    <2>5. r[i].text = body[i].text
      BY <2>1, <2>3, <2>4 DEF AnyToken
    <2>6. \E j \in DOMAIN names : names[j] = body[i].text
      BY <2>3 DEF Range
    <2> QED BY <1>1, <2>5, <2>6
  <1> QED BY <1>3, <1>4

LEMMA PartOfLine ==
    ASSUME NEW ts \in Seq(AnyToken), \A i \in DOMAIN ts : ts[i].type # "ARGUMENT",
           NEW m \in Nat \ {0}
    PROVE  LET body == SubSeq(ts, m, Len(ts) - 1)
           IN  body \in Seq(AnyToken) /\ \A i \in DOMAIN body : body[i].type # "ARGUMENT"
  <1> DEFINE body == SubSeq(ts, m, Len(ts) - 1)
             N    == Len(ts)
  <1>1. N \in Nat /\ \A i \in 1..N : ts[i] \in AnyToken /\ ts[i].type # "ARGUMENT"
    BY ElementOfSeq
  <1>2. CASE m <= N
    <2>1. m \in 1..(N + 1) /\ N - 1 \in (m - 1)..N
      BY <1>1, <1>2
    <2>2. /\ body \in Seq(AnyToken) /\ Len(body) = N - 1 - m + 1
          /\ \A i \in 1..(N - 1 - m + 1) : body[i] = ts[m + i - 1]
      <3> HIDE DEF N
      <3>1. N = Len(ts)
        BY DEF N
      <3> QED BY <2>1, <3>1, SubSeqProperties
    <2> HIDE DEF body
    <2>3. DOMAIN body = 1..(N - m)
      BY <1>1, <2>2
    <2>4. \A i \in 1..(N - m) : m + i - 1 \in 1..N /\ i \in 1..(N - 1 - m + 1)
      BY <1>1, <2>1
    <2> QED BY <1>1, <2>2, <2>3, <2>4
  <1>3. CASE ~(m <= N)
    <2>1. Len(body) = 0 /\ body \in Seq(AnyToken)
      BY <1>1, <1>3, SubSeqEmpty, EmptySeq
    <2> HIDE DEF body
    <2>2. DOMAIN body = {}
      BY <2>1
    <2> QED BY <2>1, <2>2
  <1> QED BY <1>2, <1>3

LEMMA DefinitionFacts ==
    ASSUME NEW ts, IsLine(ts)
    PROVE  MacroOK(Definition(ts).macro)
  <1> DEFINE p    == IF IsFunctionLike(ts) THEN Parameters(ts)
                     ELSE [names |-> <<>>, after |-> 2, error |-> FALSE]
             body == SubSeq(ts, p.after, Len(ts) - 1)
             m    == [is_function_like |-> IsFunctionLike(ts), params |-> p.names,
                      replacement |-> Replaced(body, p.names)]
  <1>1. IsList(p.names) /\ p.after \in Nat \ {0} /\ (~IsFunctionLike(ts) => Len(p.names) = 0)
    <2>1. CASE IsFunctionLike(ts)
      <3>1. Parameters(ts) \in Read(ts)
        BY <2>1, ParametersFacts
      <3>2. p.names \in Seq({ts[i].text : i \in 1..Len(ts)}) /\ p.after \in Nat \ {0}
        BY <2>1, <3>1 DEF Read
      <3> HIDE DEF p
      <3> QED BY <2>1, <3>2 DEF IsList
    <2>2. CASE ~IsFunctionLike(ts)
      <3>1. p.names = <<>> /\ p.after = 2
        BY <2>2
      <3> HIDE DEF p
      <3>2. <<>> \in Seq({}) /\ Len(<<>>) = 0
        OBVIOUS
      <3> QED BY <3>1, <3>2 DEF IsList
    <2> QED BY <2>1, <2>2
  <1>2. Definition(ts).macro = m
    BY Zenon DEF Definition, Replaced
  <1>3. IsFunctionLike(ts) \in BOOLEAN
    BY Zenon DEF IsFunctionLike
  <1> HIDE DEF p
  <1>4. ts \in Seq(AnyToken) /\ \A i \in DOMAIN ts : ts[i].type # "ARGUMENT"
    BY Zenon DEF IsLine
  <1>5. body \in Seq(AnyToken) /\ \A i \in DOMAIN body : body[i].type # "ARGUMENT"
    BY <1>1, <1>4, PartOfLine
  <1> HIDE DEF body
  <1> DEFINE r == Replaced(body, p.names)
  <1>6. IsList(r) /\ \A i \in 1..Len(r) : r[i].type = "ARGUMENT" =>
            \E j \in 1..Len(p.names) : p.names[j] = r[i].text
    BY <1>1, <1>5, ReplacedFacts
  <1>7. m.is_function_like = IsFunctionLike(ts) /\ m.params = p.names /\ m.replacement = r
    OBVIOUS
  <1> HIDE DEF m, r
  <1> QED BY <1>1, <1>2, <1>3, <1>6, <1>7 DEF MacroOK

MacrosOK(ms) == \A x \in DOMAIN ms : MacroOK(ms[x])

LEMMA DefinedFacts ==
    ASSUME NEW lines, DOMAIN lines \subseteq Nat, \A i \in DOMAIN lines : IsLine(lines[i])
    PROVE  MacrosOK(Defined(lines))
  <1> DEFINE d        == [i \in DOMAIN lines |-> Definition(lines[i])]
             valid    == {i \in DOMAIN lines : ~d[i].error}
             first(n) == CHOOSE i \in valid : d[i].name = n
                            /\ \A j \in valid : d[j].name = n => i <= j
             ms       == [n \in {d[i].name : i \in valid} |-> d[first(n)].macro]
  <1>1. Defined(lines) = ms
    BY DEF Defined
  <1>2. \A i \in valid : MacroOK(d[i].macro)
    BY DefinitionFacts
  <1>3. valid \subseteq Nat
    OBVIOUS
  <1> HIDE DEF d, valid
  <1>4. ASSUME NEW n \in {d[i].name : i \in valid}
        PROVE  first(n) \in valid
    <2> DEFINE S == {i \in valid : d[i].name = n}
    <2>1. S \subseteq Nat /\ S # {}
      BY <1>3
    <2> HIDE DEF S
    <2>2. PICK x \in S : \A y \in S : x <= y
      BY <2>1, LeastElement
    <2>3. x \in valid /\ d[x].name = n /\ \A j \in valid : d[j].name = n => x <= j
      BY <2>2 DEF S
    <2> QED BY <2>3
  <1> HIDE DEF first
  <1>5. \A n \in {d[i].name : i \in valid} : MacroOK(d[first(n)].macro)
    BY <1>2, <1>4
  <1>6. \A n \in DOMAIN ms : MacroOK(ms[n])
    BY <1>5
  <1> HIDE DEF ms
  <1> QED BY <1>1, <1>6 DEF MacrosOK

-----------------------------------------------------------------------------
(* The C stack *)

Phases == {"replace", "concatenate", "arguments", "rescan"}

\* The locals of an activation, when the list has that many nodes.
Frames(size, ms, A) ==
    [node : 1..size, macro : DOMAIN ms, rep : Nat \ {0}, new : 1..size, len : Int,
     phase : Phases, first : 0..size, seg : Int, at : 0..size, joined : BOOLEAN,
     args : A, end : 0..size]

\* An argument for each parameter, and no pointer that is used is NULL.
Activation(f, size, ms) ==
    /\ \E A : f \in Frames(size, ms, A)
    /\ f.args = [i \in 1..Len(ms[f.macro].params) |-> f.args[i]]
    /\ \A i \in 1..Len(ms[f.macro].params) : Filled(f.args[i])
    /\ f.phase = "arguments" => f.first # 0
    /\ f.phase = "concatenate" => f.rep <= Len(ms[f.macro].replacement)

\* An activation that calls another waits at a node.
StackOf(cs, size, ms) ==
    /\ IsList(cs)
    /\ \A i \in 1..Len(cs) : Activation(cs[i], size, ms)
    /\ \A i \in 1..(Len(cs) - 1) : cs[i].at # 0

LEMMA ActivationGrows ==
    ASSUME NEW f, NEW ms, NEW a \in Nat, NEW b \in Nat, a <= b, Activation(f, a, ms)
    PROVE  Activation(f, b, ms)
  <1>1. PICK A : f \in Frames(a, ms, A)
    BY DEF Activation
  <1>2. f \in Frames(b, ms, A)
    BY <1>1 DEF Frames
  <1> QED BY <1>2 DEF Activation

LEMMA StackGrows ==
    ASSUME NEW cs, NEW ms, NEW a \in Nat, NEW b \in Nat, a <= b, StackOf(cs, a, ms)
    PROVE  StackOf(cs, b, ms)
  BY ActivationGrows DEF StackOf

LEMMA StackPush ==
    ASSUME NEW cs, NEW ms, NEW n \in Nat, StackOf(cs, n, ms),
           Len(cs) # 0 => cs[Len(cs)].at # 0, NEW f, Activation(f, n, ms)
    PROVE  StackOf(Append(cs, f), n, ms) /\ Len(Append(cs, f)) = Len(cs) + 1
  <1> DEFINE e == Append(cs, f)
  <1>1. IsList(cs) /\ Len(cs) \in Nat
    BY ListFacts DEF StackOf
  <1>2. /\ IsList(e) /\ Len(e) = Len(cs) + 1
        /\ \A i \in 1..Len(cs) : e[i] = cs[i]
        /\ e[Len(cs) + 1] = f
    BY <1>1, ListAppend
  <1> HIDE DEF e
  <1>3. \A i \in 1..Len(e) : Activation(e[i], n, ms)
    <2> TAKE i \in 1..Len(e)
    <2>1. i \in 1..Len(cs) \/ i = Len(cs) + 1
      BY <1>1, <1>2
    <2> QED BY <1>2, <2>1 DEF StackOf
  <1>4. \A i \in 1..(Len(e) - 1) : e[i].at # 0
    <2> TAKE i \in 1..(Len(e) - 1)
    <2>1. i \in 1..Len(cs) /\ (i \in 1..(Len(cs) - 1) \/ i = Len(cs))
      BY <1>1, <1>2
    <2> QED BY <1>1, <1>2, <2>1 DEF StackOf
  <1>5. StackOf(e, n, ms)
    BY <1>2, <1>3, <1>4 DEF StackOf
  <1> QED BY <1>2, <1>5 DEF e

\* All activations but the running one.
LEMMA StackBelow ==
    ASSUME NEW cs, NEW ms, NEW n \in Nat, StackOf(cs, n, ms), cs # <<>>
    PROVE  LET b == SubSeq(cs, 1, Len(cs) - 1)
           IN  /\ StackOf(b, n, ms) /\ Len(b) = Len(cs) - 1 /\ Len(cs) \in Nat \ {0}
               /\ \A i \in 1..Len(b) : b[i].at # 0
  <1> DEFINE b == SubSeq(cs, 1, Len(cs) - 1)
  <1>1. PICK S : cs \in Seq(S)
    BY DEF StackOf, IsList
  <1>2. Len(cs) \in Nat \ {0}
    BY <1>1, EmptySeq
  <1>3. /\ b \in Seq(S) /\ Len(b) = Len(cs) - 1
        /\ \A i \in 1..(Len(cs) - 1) : b[i] = cs[i]
    <2>1. 1 \in 1..(Len(cs) + 1) /\ Len(cs) - 1 \in (1 - 1)..Len(cs)
      BY <1>2
    <2>2. /\ b \in Seq(S)
          /\ Len(b) = IF 1 <= Len(cs) - 1 THEN (Len(cs) - 1) - 1 + 1 ELSE 0
          /\ \A i \in 1..((Len(cs) - 1) - 1 + 1) : b[i] = cs[1 + i - 1]
      BY <1>1, <2>1, SubSeqProperties
    <2> HIDE DEF b
    <2>3. Len(b) = Len(cs) - 1 /\ (Len(cs) - 1) - 1 + 1 = Len(cs) - 1
      <3>1. Len(b) = IF 1 <= Len(cs) - 1 THEN (Len(cs) - 1) - 1 + 1 ELSE 0
        BY <2>2
      <3> DEFINE k == Len(cs)
      <3>2. k \in Nat \ {0}
        BY <1>2
      <3>3. Len(b) = IF 1 <= k - 1 THEN (k - 1) - 1 + 1 ELSE 0
        BY <3>1
      <3> HIDE DEF k
      <3>4. (1 <= k - 1 => (k - 1) - 1 + 1 = k - 1) /\ (~(1 <= k - 1) => k - 1 = 0)
        BY <3>2
      <3>5. Len(b) = k - 1
        BY <3>3, <3>4
      <3>6. (k - 1) - 1 + 1 = k - 1
        BY <3>2
      <3> QED BY <3>5, <3>6 DEF k
    <2>4. \A i \in 1..(Len(cs) - 1) : 1 + i - 1 = i
      BY <1>2
    <2> QED BY <2>2, <2>3, <2>4
  <1> HIDE DEF b
  <1>4. \A i \in 1..Len(b) : i \in 1..Len(cs) /\ i \in 1..(Len(cs) - 1)
    BY <1>2, <1>3
  <1>5. \A i \in 1..Len(b) : Activation(b[i], n, ms) /\ b[i].at # 0
    BY <1>3, <1>4 DEF StackOf
  <1>6. \A i \in 1..(Len(b) - 1) : i \in 1..Len(b)
    BY <1>2, <1>3
  <1>7. IsList(b)
    BY <1>3 DEF IsList
  <1>8. StackOf(b, n, ms)
    BY <1>5, <1>6, <1>7 DEF StackOf
  <1> QED BY <1>2, <1>3, <1>5, <1>8 DEF b

\* The running activation is written.
LEMMA StackSet ==
    ASSUME NEW cs, NEW ms, NEW a \in Nat, NEW b \in Nat, a <= b, StackOf(cs, a, ms), cs # <<>>,
           NEW f, Activation(f, b, ms)
    PROVE  LET s == Append(SubSeq(cs, 1, Len(cs) - 1), f)
           IN  StackOf(s, b, ms) /\ Len(s) = Len(cs)
  <1> DEFINE c == SubSeq(cs, 1, Len(cs) - 1)
  <1>1. StackOf(c, a, ms) /\ Len(c) = Len(cs) - 1 /\ Len(cs) \in Nat \ {0}
        /\ \A i \in 1..Len(c) : c[i].at # 0
    BY StackBelow
  <1> HIDE DEF c
  <1>2. StackOf(c, b, ms)
    BY <1>1, StackGrows
  <1>3. Len(c) # 0 => c[Len(c)].at # 0
    BY <1>1
  <1>4. StackOf(Append(c, f), b, ms) /\ Len(Append(c, f)) = Len(c) + 1
    BY <1>2, <1>3, StackPush
  <1> QED BY <1>1, <1>4 DEF c

\* The caller of the running activation is written, which returns to it.
LEMMA StackPop ==
    ASSUME NEW cs, NEW ms, NEW n \in Nat, StackOf(cs, n, ms), cs # <<>>,
           SubSeq(cs, 1, Len(cs) - 1) # <<>>, NEW g, Activation(g, n, ms)
    PROVE  LET b == SubSeq(cs, 1, Len(cs) - 1)
               s == [b EXCEPT ![Len(b)] = g]
           IN  StackOf(s, n, ms) /\ Len(s) <= Len(cs)
  <1> DEFINE b == SubSeq(cs, 1, Len(cs) - 1)
             s == [b EXCEPT ![Len(b)] = g]
  <1>1. StackOf(b, n, ms) /\ Len(b) = Len(cs) - 1 /\ Len(cs) \in Nat \ {0}
    BY StackBelow
  <1>0. b # <<>>
    OBVIOUS
  <1> HIDE DEF b
  <1>2. PICK S : b \in Seq(S)
    BY <1>1 DEF StackOf, IsList
  <1> DEFINE T == S \cup {g}
  <1>3. b \in Seq(T) /\ g \in T /\ Len(b) \in Nat \ {0}
    BY <1>0, <1>1, <1>2, SeqMonotonic, EmptySeq
  <1> HIDE DEF T
  <1>4. Len(b) \in 1..Len(b)
    BY <1>3
  <1>5. /\ s \in Seq(T) /\ Len(s) = Len(b)
        /\ \A i \in 1..Len(b) : s[i] = IF i = Len(b) THEN g ELSE b[i]
    BY <1>3, <1>4, ExceptSeq
  <1> HIDE DEF s
  <1>6. \A i \in 1..Len(s) : Activation(s[i], n, ms)
    BY <1>1, <1>5 DEF StackOf
  <1>7. \A i \in 1..(Len(s) - 1) : s[i].at # 0
    <2> TAKE i \in 1..(Len(s) - 1)
    <2>1. i \in 1..Len(b) /\ i # Len(b) /\ i \in 1..(Len(b) - 1)
      BY <1>3, <1>5
    <2> QED BY <1>1, <1>5, <2>1 DEF StackOf
  <1>8. IsList(s)
    BY <1>5 DEF IsList
  <1>9. StackOf(s, n, ms)
    BY <1>6, <1>7, <1>8 DEF StackOf
  <1>10. Len(s) <= Len(cs)
    BY <1>1, <1>3, <1>5
  <1> QED BY <1>9, <1>10 DEF s, b

-----------------------------------------------------------------------------
(* The inductive invariant *)

\* What holds of the list, the main loop's node, the stack and the macros.
Safe(l, p, cs, ms) ==
    /\ MacrosOK(ms)
    /\ Heap(l)
    /\ p \in 1..Len(l)
    /\ StackOf(cs, Len(l), ms)
    /\ Len(cs) <= STACK_FRAMES

Statuses == {"running", "expanded", "crashed", "aborted", "spinning", "out of memory"}

IInv == Safe(list, ptr, calls, macros) /\ status \in Statuses

LEMMA Stopped ==
    ASSUME IInv, UNCHANGED source, NEW why \in Statuses, Stop(why)
    PROVE  IInv'
  BY DEF IInv, Stop, source

LEMMA FrameFacts ==
    ASSUME NEW l, Heap(l), NEW n \in 1..Len(l), IsMacro(l, n), MacrosOK(macros)
    PROVE  /\ Frame(l, n).end \in Pointers(l)
           /\ Frame(l, n).end # CRASH => Activation(Frame(l, n), Len(l), macros)
  <1> DEFINE x == l[n].token.text
             m == macros[x]
             k == Len(m.params)
             a == Arguments(l, n, m)
             f == Frame(l, n)
             args == IF m.is_function_like THEN a.tokens ELSE <<>>
             end  == IF m.is_function_like THEN a.after ELSE l[n].next
  <1>1. x \in DOMAIN macros
    BY DEF IsMacro
  <1>2. MacroOK(m)
    BY <1>1 DEF MacrosOK
  <1>3. f = [node |-> n, macro |-> x, rep |-> 1, new |-> n, len |-> 0,
             phase |-> "replace", first |-> NULL, seg |-> 0, at |-> NULL, joined |-> FALSE,
             args |-> args, end |-> end]
    BY DEF Frame
  <1>4. Len(l) \in Nat /\ l[n].next \in 0..Len(l) /\ l[n].next \in Pointers(l) /\ l[n].next # CRASH
    <2>1. Len(l) \in Nat /\ l[n].next \in 0..Len(l)
      BY HeapFacts
    <2> QED BY <2>1 DEF Pointers, CRASH
  <1>5. a.after \in Pointers(l)
        /\ (a.after # CRASH => /\ a.tokens = [i \in 1..k |-> a.tokens[i]]
                               /\ \A i \in 1..k : Filled(a.tokens[i]))
    <2>1. IsList(m.params)
      BY <1>2 DEF MacroOK
    <2> QED BY <2>1, ArgumentsFacts
  <1> HIDE DEF a, m
  <1>6. end \in Pointers(l)
    BY <1>4, <1>5
  <1>7. end # CRASH => args = [i \in 1..k |-> args[i]] /\ \A i \in 1..k : Filled(args[i])
    <2>1. CASE m.is_function_like
      BY <1>5, <2>1
    <2>2. CASE ~m.is_function_like
      <3>1. k = 0
        BY <1>2, <2>2 DEF MacroOK
      <3>2. args = <<>> /\ 1..k = {}
        BY <2>2, <3>1
      <3> HIDE DEF args, k
      <3> QED BY <3>2
    <2> QED BY <2>1, <2>2
  <1> HIDE DEF args, end, f
  <1>8. end # CRASH => end \in 0..Len(l)
    BY <1>6 DEF Pointers
  <1>9. f.end = end /\ f.macro = x /\ f.args = args /\ f.phase = "replace"
    BY <1>3
  <1>10. end # CRASH => f \in Frames(Len(l), macros, {args})
    BY <1>1, <1>3, <1>4, <1>8 DEF Frames, Phases, NULL
  <1>11. end # CRASH => Activation(f, Len(l), macros)
    <2> SUFFICES ASSUME end # CRASH PROVE Activation(f, Len(l), macros)
      OBVIOUS
    <2>1. k = Len(macros[f.macro].params)
      BY <1>9 DEF m
    <2> HIDE DEF k
    <2>2. f.args = [i \in 1..k |-> f.args[i]] /\ \A i \in 1..k : Filled(f.args[i])
      BY <1>7, <1>9
    <2>3. /\ f.args = [i \in 1..Len(macros[f.macro].params) |-> f.args[i]]
          /\ \A i \in 1..Len(macros[f.macro].params) : Filled(f.args[i])
      BY <2>1, <2>2
    <2>4. f.phase # "arguments" /\ f.phase # "concatenate"
      BY <1>9
    <2>5. \E A : f \in Frames(Len(l), macros, A)
      BY <1>10
    <2> QED BY <2>3, <2>4, <2>5 DEF Activation
  <1> QED BY <1>6, <1>9, <1>11 DEF f

LEMMA EnterKeeps ==
    ASSUME IInv, UNCHANGED source, NEW n \in 1..Len(list), IsMacro(list, n),
           Len(calls) # 0 => calls[Len(calls)].at # 0, STACK_FRAMES \in Nat,
           Enter(list, n, calls)
    PROVE  IInv'
  <1> DEFINE f == Frame(list, n)
             l == [list EXCEPT ![n].next = f.end]
  <1>1. Safe(list, ptr, calls, macros) /\ macros' = macros
    BY DEF IInv, source
  <1>2. CASE f.end = CRASH \/ Len(calls) = STACK_FRAMES
    <2>1. status' = "crashed" /\ UNCHANGED <<list, calls, ptr>>
      BY <1>2 DEF Enter
    <2>2. "crashed" \in Statuses
      BY Zenon DEF Statuses
    <2> QED BY <1>1, <2>1, <2>2 DEF IInv
  <1>3. CASE ~(f.end = CRASH \/ Len(calls) = STACK_FRAMES)
    <2>1. list' = l /\ calls' = Append(calls, f) /\ UNCHANGED <<ptr, status>>
      BY <1>3 DEF Enter, Entered
    <2>2. MacrosOK(macros) /\ Heap(list) /\ StackOf(calls, Len(list), macros) /\ ptr \in 1..Len(list)
          /\ Len(calls) <= STACK_FRAMES
      BY <1>1 DEF Safe
    <2>3. f.end \in Pointers(list) /\ Activation(f, Len(list), macros)
      BY <1>3, <2>2, FrameFacts
    <2> HIDE DEF f
    <2>4. f.end \in 0..Len(list)
      BY <1>3, <2>3 DEF Pointers
    <2>5. Heap(l) /\ Len(l) = Len(list)
      BY <2>2, <2>4, LinkWritten
    <2> HIDE DEF l
    <2>6. Len(list) \in Nat /\ Len(calls) \in Nat
      BY <2>2, HeapFacts, ListFacts DEF StackOf
    <2>7. StackOf(Append(calls, f), Len(list), macros) /\ Len(Append(calls, f)) = Len(calls) + 1
      BY <2>2, <2>3, <2>6, StackPush
    <2>8. Len(calls) + 1 <= STACK_FRAMES
      BY <1>3, <2>2, <2>6
    <2>9. Safe(l, ptr, Append(calls, f), macros)
      BY <2>2, <2>5, <2>7, <2>8 DEF Safe
    <2>10. Safe(list', ptr', calls', macros')
      BY <1>1, <2>1, <2>9
    <2>11. status' \in Statuses
      BY <2>1 DEF IInv
    <2> QED BY <2>10, <2>11 DEF IInv
  <1> QED BY <1>2, <1>3

-----------------------------------------------------------------------------
(* The return to the caller *)

LEMMA ResumedFacts ==
    ASSUME NEW l, Heap(l), NEW ms, NEW g, Activation(g, Len(l), ms), g.at # 0,
           NEW m, m.is_function_like \in BOOLEAN, NEW r \in Int
    PROVE  Activation(Resumed(l, g, m, r), Len(l), ms)
  <1> DEFINE N     == Len(l)
             after == l[g.first].next
             seg   == CASE m.is_function_like -> IF after \in {NULL, g.end} THEN 0
                                                 ELSE Distance(l, after, NULL)
                        [] ~m.is_function_like /\ r > 0 -> g.seg + r - 1
                        [] OTHER -> g.seg
             count == IF m.is_function_like THEN Distance(l, g.node, g.end) ELSE g.len
             h     == Resumed(l, g, m, r)
  <1>1. PICK A : g \in Frames(N, ms, A)
    BY DEF Activation
  <1>2. /\ g.first \in 0..N /\ g.at \in 0..N /\ g.node \in 1..N /\ g.seg \in Int /\ g.len \in Int
        /\ g.phase \in Phases /\ N \in Nat
    BY <1>1, HeapFacts DEF Frames
  <1>3. l[g.at].next \in 0..N
    BY <1>2, HeapFacts
  <1>4. g.phase = "arguments" => seg \in Int
    <2> SUFFICES ASSUME g.phase = "arguments" PROVE seg \in Int
      OBVIOUS
    <2>1. after \in 0..N
      <3>1. g.first # 0
        BY DEF Activation
      <3>2. g.first \in 1..N
        BY <1>2, <3>1
      <3> QED BY <3>2, HeapFacts
    <2> HIDE DEF after
    <2>2. Distance(l, after, NULL) \in Nat
      BY <2>1, DistanceFacts
    <2>3. CASE m.is_function_like
      BY <2>2, <2>3
    <2>4. CASE ~m.is_function_like
      BY <1>2, <2>4
    <2> QED BY <2>3, <2>4
  <1>5. count \in Int
    <2>1. g.node \in 0..N
      BY <1>2
    <2>2. Distance(l, g.node, g.end) \in Nat
      BY <2>1, DistanceFacts
    <2> QED BY <1>2, <2>2
  <1>6. h = IF g.phase = "arguments"
            THEN [g EXCEPT !.seg = seg, !.len = g.len - (g.seg - seg), !.at = l[g.at].next]
            ELSE [g EXCEPT !.len = count, !.at = l[g.at].next]
    BY DEF Resumed
  <1> HIDE DEF seg, count, h
  <1>7. /\ h \in Frames(N, ms, A) /\ h.macro = g.macro /\ h.args = g.args /\ h.phase = g.phase
        /\ h.first = g.first /\ h.rep = g.rep
    <2>1. CASE g.phase = "arguments"
      <3>1. g.len - (g.seg - seg) \in Int /\ seg \in Int
        BY <1>2, <1>4, <2>1
      <3> QED BY <1>1, <1>3, <1>6, <2>1, <3>1 DEF Frames
    <2>2. CASE g.phase # "arguments"
      BY <1>1, <1>3, <1>5, <1>6, <2>2 DEF Frames
    <2> QED BY <2>1, <2>2
  <1>8. Activation(h, N, ms)
    <2> HIDE DEF N
    <2> QED BY <1>7 DEF Activation, N
  <1> QED BY <1>8 DEF h

LEMMA TopFacts ==
    ASSUME IInv, calls # <<>>
    PROVE  /\ Heap(list) /\ Len(list) \in Nat /\ ptr \in 1..Len(list)
           /\ MacrosOK(macros) /\ Len(calls) <= STACK_FRAMES
           /\ StackOf(calls, Len(list), macros) /\ Len(calls) \in Nat \ {0}
           /\ Activation(Top, Len(list), macros)
           /\ Top.macro \in DOMAIN macros /\ MacroOK(Macro(Top))
  <1>1. /\ Heap(list) /\ ptr \in 1..Len(list) /\ MacrosOK(macros) /\ Len(calls) <= STACK_FRAMES
        /\ StackOf(calls, Len(list), macros)
    BY DEF IInv, Safe
  <1>2. Len(list) \in Nat
    BY <1>1, HeapFacts
  <1>3. Len(calls) \in Nat \ {0}
    BY <1>1, <1>2, StackBelow
  <1>4. Activation(Top, Len(list), macros)
    BY <1>1, <1>3 DEF StackOf, Top
  <1>5. Top.macro \in DOMAIN macros
    BY <1>4 DEF Activation, Frames
  <1> QED BY <1>1, <1>2, <1>3, <1>4, <1>5 DEF MacrosOK, Macro

LEMMA ReturnKeeps ==
    ASSUME IInv, UNCHANGED source, calls # <<>>, STACK_FRAMES \in Nat,
           NEW l, Heap(l), Len(list) <= Len(l), NEW r \in Int, Return(l, r)
    PROVE  IInv'
  <1> DEFINE g == Last(Callers)
             p == Advance(l, ptr, r)
             b == IF r = 0 /\ g.phase = "arguments" /\ ~Macro(Top).is_function_like
                  THEN Blanked(l, g.at) ELSE l
             h == Resumed(l, g, Macro(Top), r)
             cs == [Callers EXCEPT ![Len(Callers)] = h]
  <1>0. /\ Heap(list) /\ Len(list) \in Nat /\ ptr \in 1..Len(list)
        /\ MacrosOK(macros) /\ Len(calls) <= STACK_FRAMES
        /\ StackOf(calls, Len(list), macros) /\ Len(calls) \in Nat \ {0} /\ MacroOK(Macro(Top))
    BY TopFacts
  <1>1. Len(l) \in Nat /\ ptr \in 1..Len(l)
    BY <1>0, HeapFacts
  <1>2. StackOf(calls, Len(l), macros)
    BY <1>0, <1>1, StackGrows
  <1>3. macros' = macros
    BY DEF source
  <1>4. \/ Stop("crashed") \/ Stop("spinning")
        \/ /\ Callers = <<>> /\ p \notin {NULL, CRASH}
           /\ list' = l /\ ptr' = p /\ calls' = <<>> /\ UNCHANGED status
        \/ Callers # <<>> /\ list' = b /\ calls' = cs /\ UNCHANGED <<ptr, status>>
    BY Zenon DEF Return
  <1>5. CASE Stop("crashed") \/ Stop("spinning")
    <2>1. "crashed" \in Statuses /\ "spinning" \in Statuses
      BY Zenon DEF Statuses
    <2> QED BY <1>5, <2>1, Stopped
  <1>6. CASE /\ Callers = <<>> /\ p \notin {NULL, CRASH}
             /\ list' = l /\ ptr' = p /\ calls' = <<>> /\ UNCHANGED status
    <2>1. ptr \in Pointers(l)
      BY <1>1 DEF Pointers
    <2>2. p \in Pointers(l)
      BY <2>1, AdvanceFacts
    <2> HIDE DEF p
    <2>3. p \in 1..Len(l)
      BY <1>1, <1>6, <2>2 DEF Pointers, NULL
    <2>4. StackOf(<<>>, Len(l), macros) /\ Len(<<>>) <= STACK_FRAMES
      <3>1. <<>> \in Seq({}) /\ Len(<<>>) = 0
        OBVIOUS
      <3>2. IsList(<<>>)
        BY <3>1 DEF IsList
      <3> QED BY <3>1, <3>2 DEF StackOf
    <2>5. Safe(l, p, <<>>, macros)
      BY <1>0, <2>3, <2>4 DEF Safe
    <2>6. Safe(list', ptr', calls', macros')
      BY <1>3, <1>6, <2>5
    <2>7. status' \in Statuses
      BY <1>6 DEF IInv
    <2> QED BY <2>6, <2>7 DEF IInv
  <1>7. CASE Callers # <<>> /\ list' = b /\ calls' = cs /\ UNCHANGED <<ptr, status>>
    <2>1. /\ StackOf(Callers, Len(l), macros) /\ Len(Callers) \in Nat \ {0}
          /\ \A i \in 1..Len(Callers) : Callers[i].at # 0
      <3>1. /\ StackOf(Callers, Len(l), macros)
            /\ \A i \in 1..Len(Callers) : Callers[i].at # 0
        BY <1>1, <1>2, StackBelow DEF Callers
      <3> QED BY <1>1, <1>7, <3>1, StackBelow
    <2>2. Activation(g, Len(l), macros) /\ g.at # 0
      BY <2>1 DEF StackOf, Last
    <2> HIDE DEF g
    <2>3. Macro(Top).is_function_like \in BOOLEAN
      BY <1>0 DEF MacroOK
    <2>4. Activation(h, Len(l), macros)
      BY <2>2, <2>3, ResumedFacts
    <2> HIDE DEF h
    <2>5. StackOf(cs, Len(l), macros) /\ Len(cs) <= Len(calls)
      BY <1>1, <1>2, <1>7, <2>4, StackPop DEF Callers
    <2>6. Heap(b) /\ Len(b) = Len(l)
      <3>1. g.at \in 1..Len(l)
        <4>1. g.at \in 0..Len(l)
          BY <2>2 DEF Activation, Frames
        <4> QED BY <1>1, <2>2, <4>1
      <3>2. Heap(Blanked(l, g.at)) /\ Len(Blanked(l, g.at)) = Len(l)
        BY <3>1, TokenWritten DEF Blanked
      <3> QED BY <3>2
    <2>7. Len(cs) \in Nat
      BY <2>5, ListFacts DEF StackOf
    <2> HIDE DEF b, cs
    <2>8. Len(cs) <= STACK_FRAMES
      BY <1>0, <2>5, <2>7
    <2>9. Safe(b, ptr, cs, macros)
      BY <1>0, <1>1, <2>5, <2>6, <2>8 DEF Safe
    <2>10. Safe(list', ptr', calls', macros')
      BY <1>3, <1>7, <2>9
    <2>11. status' \in Statuses
      BY <1>7 DEF IInv
    <2> QED BY <2>10, <2>11 DEF IInv
  <1> QED BY <1>4, <1>5, <1>6, <1>7

-----------------------------------------------------------------------------
(* The actions *)

LEMMA ActualFacts ==
    ASSUME NEW f, NEW size, Activation(f, size, macros), NEW t,
           \E j \in 1..Len(Macro(f).params) : Macro(f).params[j] = t.text
    PROVE  Filled(Actual(f, t))
  <1> DEFINE K   == 1..Len(Macro(f).params)
             c   == CHOOSE i \in DOMAIN f.args : Macro(f).params[i] = t.text
             arg == f.args[c]
             a   == Actual(f, t)
  <1>1. f.args = [i \in K |-> f.args[i]] /\ \A i \in K : Filled(f.args[i])
    BY DEF Activation, Macro
  <1>2. DOMAIN f.args = K
    <2> HIDE DEF K
    <2> QED BY <1>1
  <1>3. c \in K
    BY <1>2
  <1> HIDE DEF c
  <1>4. Filled(arg)
    BY <1>1, <1>3
  <1>5. IsList(arg) /\ Len(arg) >= 1 /\ Len(arg) \in Nat /\ DOMAIN arg = 1..Len(arg)
    BY <1>4, ListFacts DEF Filled
  <1>6. a = [i \in DOMAIN arg |-> [arg[i] EXCEPT !.file = TRUE]]
    BY DEF Actual, c
  <1> HIDE DEF arg, a
  <1>7. a = [i \in 1..Len(arg) |-> a[i]]
    BY <1>5, <1>6
  <1>8. IsList(a) /\ Len(a) = Len(arg)
    BY <1>5, <1>7, FunctionIsList
  <1>9. Filled(a)
    BY <1>5, <1>8 DEF Filled
  <1> QED BY <1>9 DEF a

LEMMA NodeAppended ==
    ASSUME NEW l, Heap(l), NEW n \in 1..Len(l), NEW t
    PROVE  LET m == Append([l EXCEPT ![n].next = Len(l) + 1], [token |-> t, next |-> NULL])
           IN  Heap(m) /\ Len(m) = Len(l) + 1
  <1> DEFINE p == Len(l) + 1
             y == [l[n] EXCEPT !.next = p]
             x == [token |-> t, next |-> NULL]
             k == [l EXCEPT ![n].next = p]
             m == Append(k, x)
  <1>1. PICK T : l \in Seq([token : T, next : Nat])
    BY DEF Heap
  <1>2. Len(l) \in Nat /\ p \in Nat /\ \A i \in 1..Len(l) : l[i].next \in 0..Len(l)
    BY HeapFacts
  <1> DEFINE U == T \cup {t}
             N == [token : U, next : Nat]
  <1>3. l \in Seq(N)
    <2>1. [token : T, next : Nat] \subseteq N
      OBVIOUS
    <2> HIDE DEF N
    <2> QED BY <1>1, <2>1, SeqMonotonic
  <1>4. y = [token |-> l[n].token, next |-> p]
    BY NodeShape
  <1>5. l[n] \in N
    <2> HIDE DEF N
    <2> QED BY <1>3, ElementOfSeq
  <1> HIDE DEF y
  <1>6. y \in N /\ y.next = p /\ x \in N /\ x.next = 0
    BY <1>2, <1>4, <1>5 DEF NULL
  <1>7. k = [l EXCEPT ![n] = y]
    BY DEF y
  <1> HIDE DEF N, k, x
  <1>8. k \in Seq(N) /\ Len(k) = Len(l) /\ \A i \in 1..Len(l) : k[i] = IF i = n THEN y ELSE l[i]
    BY <1>3, <1>6, <1>7, ExceptSeq
  <1>9. /\ m \in Seq(N) /\ Len(m) = Len(l) + 1
        /\ \A i \in 1..Len(l) : m[i] = k[i]
        /\ m[Len(l) + 1] = x
    BY <1>6, <1>8, AppendProperties
  <1> HIDE DEF m
  <1>10. \A i \in 1..Len(m) : m[i].next \in 0..Len(m)
    <2> TAKE i \in 1..Len(m)
    <2>1. CASE i = Len(l) + 1
      BY <1>2, <1>6, <1>9, <2>1
    <2>2. CASE i # Len(l) + 1
      <3>1. i \in 1..Len(l)
        <4>1. i \in 1..(Len(l) + 1)
          BY <1>9
        <4> QED BY <1>2, <2>2, <4>1
      <3>2. m[i] = IF i = n THEN y ELSE l[i]
        BY <1>8, <1>9, <3>1
      <3> QED BY <1>2, <1>6, <1>9, <3>1, <3>2
    <2> QED BY <2>1, <2>2
  <1>11. \E S : m \in Seq([token : S, next : Nat])
    BY <1>9 DEF N
  <1>12. Heap(m)
    BY <1>10, <1>11 DEF Heap
  <1> QED BY <1>9, <1>12 DEF m, k, x

\* What the running activation and the list become when it stays the running one.
LEMMA TopKeeps ==
    ASSUME IInv, UNCHANGED source, calls # <<>>, STACK_FRAMES \in Nat,
           NEW l, Heap(l), Len(list) <= Len(l), NEW f, Activation(f, Len(l), macros),
           list' = l, calls' = Set(f), UNCHANGED <<ptr, status>>
    PROVE  IInv'
  <1>1. /\ Heap(list) /\ Len(list) \in Nat /\ ptr \in 1..Len(list)
        /\ MacrosOK(macros) /\ Len(calls) <= STACK_FRAMES
        /\ StackOf(calls, Len(list), macros)
    BY TopFacts
  <1>2. Len(l) \in Nat
    BY HeapFacts
  <1>3. StackOf(Set(f), Len(l), macros) /\ Len(Set(f)) = Len(calls)
    BY <1>1, <1>2, StackSet DEF Set, Callers
  <1>4. ptr \in 1..Len(l)
    BY <1>1, <1>2
  <1>5. Safe(l, ptr, Set(f), macros)
    BY <1>1, <1>3, <1>4 DEF Safe
  <1>6. Safe(list', ptr', calls', macros') /\ status' \in Statuses
    BY <1>5 DEF source, IInv
  <1> QED BY <1>6 DEF IInv

LEMMA ContinuedFacts ==
    ASSUME NEW g, NEW size, NEW A, g \in Frames(size, macros, A),
           g.args = [i \in 1..Len(Macro(g).params) |-> g.args[i]],
           \A i \in 1..Len(Macro(g).params) : Filled(g.args[i])
    PROVE  Activation(Continued(g), size, macros)
  <1> DEFINE r     == Macro(g).replacement
             joins == g.rep <= Len(r) /\ r[g.rep].sub = "##"
             phase == IF joins THEN "concatenate"
                      ELSE IF g.first # NULL THEN "arguments" ELSE "replace"
             c     == Continued(g)
  <1>1. c = [g EXCEPT !.phase = phase]
    BY Zenon DEF Continued
  <1>2. joins => g.rep <= Len(r)
    BY Zenon
  <1> HIDE DEF joins, c
  <1>3. /\ phase \in Phases
        /\ phase = "concatenate" => g.rep <= Len(r)
        /\ phase = "arguments" => g.first # 0
    BY <1>2 DEF Phases, NULL
  <1> HIDE DEF phase, r
  <1>4. c \in Frames(size, macros, A) /\ c.phase = phase
        /\ c.macro = g.macro /\ c.args = g.args /\ c.first = g.first /\ c.rep = g.rep
    BY <1>1, <1>3 DEF Frames
  <1>5. macros[c.macro] = Macro(g) /\ r = macros[c.macro].replacement
    BY <1>4 DEF Macro, r
  <1>6. Activation(c, size, macros)
    BY <1>3, <1>4, <1>5 DEF Activation
  <1> QED BY <1>6 DEF c

\* The tokens put in the place of one.
LEMMA PutFacts ==
    ASSUME NEW l, Heap(l), NEW n \in 1..Len(l), NEW arg, Filled(arg)
    PROVE  LET put == InsertAfter([l EXCEPT ![n].token = arg[1]], n, Tail(arg))
           IN  /\ Heap(put) /\ Len(l) <= Len(put)
               /\ LastOf(l, n, Tail(arg)) \in 1..Len(put)
  <1> DEFINE w   == [l EXCEPT ![n].token = arg[1]]
             s   == Tail(arg)
             put == InsertAfter(w, n, s)
  <1>1. Heap(w) /\ Len(w) = Len(l)
    BY TokenWritten
  <1>2. IsList(s) /\ Len(s) \in Nat /\ Len(l) \in Nat
    <2>1. IsList(arg) /\ Len(arg) \in Nat /\ Len(arg) >= 1
      BY ListFacts DEF Filled
    <2>2. Len(arg) # 0
      BY <2>1
    <2>3. IsList(s)
      BY <2>1, <2>2, ListTail
    <2> QED BY <2>3, ListFacts, HeapFacts
  <1> HIDE DEF w, s
  <1>3. Heap(put) /\ Len(put) = Len(l) + Len(s)
    BY <1>1, <1>2, InsertFacts
  <1>4. LastOf(l, n, s) \in 1..(Len(l) + Len(s))
    BY <1>2, InsertFacts
  <1> HIDE DEF put
  <1>5. Len(l) <= Len(put)
    BY <1>2, <1>3
  <1> QED BY <1>3, <1>4, <1>5 DEF put, w, s

LEMMA ReplaceKeeps ==
    ASSUME IInv, STACK_FRAMES \in Nat, Replace
    PROVE  IInv'
  <1> DEFINE r     == Body[Top.rep]
             node  == IF Top.rep = 1 THEN Top.node ELSE Len(list) + 1
             file  == Top.rep = 1 \/ list[Top.node].token.file
             hash  == r.sub = "#"
             next  == Top.rep + IF hash THEN 2 ELSE 1
             param == hash /\ Top.rep < Len(Body) /\ Body[Top.rep + 1].type = "ARGUMENT"
             token == IF param THEN Stringify(Actual(Top, Body[Top.rep + 1]))
                      ELSE [r EXCEPT !.irr = (r.text = Top.macro), !.file = file]
             arg   == IF r.type = "ARGUMENT" THEN Actual(Top, r) ELSE <<token>>
             l     == IF Top.rep = 1 THEN list
                      ELSE Append([list EXCEPT ![Top.new].next = node], [token |-> r, next |-> NULL])
             put   == InsertAfter([l EXCEPT ![node].token = arg[1]], node, Tail(arg))
             new   == LastOf(l, node, Tail(arg))
             first == IF r.type = "ARGUMENT" THEN node ELSE NULL
             g     == [Top EXCEPT !.rep = next, !.new = new, !.len = @ + Len(arg),
                                  !.first = first, !.seg = Len(arg) - 1, !.at = node,
                                  !.joined = FALSE]
  <1>0. calls # <<>> /\ Top.rep <= Len(Body) /\ UNCHANGED source
    BY Zenon DEF Replace, In
  <1>1. \/ Return([l EXCEPT ![node].token = token], 0) \/ Return(put, 0)
        \/ Stop("aborted") \/ Stop("out of memory")
        \/ list' = put /\ calls' = Set(Continued(g)) /\ UNCHANGED <<ptr, status>>
    BY Zenon DEF Replace
  <1>2. next \in {Top.rep + 1, Top.rep + 2}
    <2> HIDE DEF hash
    <2> QED OBVIOUS
  <1> HIDE DEF r, node, hash, next, token, arg, l, put, new, first, g
  <1>3. /\ Heap(list) /\ Len(list) \in Nat /\ MacroOK(Macro(Top))
        /\ Activation(Top, Len(list), macros)
    BY <1>0, TopFacts
  <1>4. PICK A : Top \in Frames(Len(list), macros, A)
    BY <1>3 DEF Activation
  <1>5. /\ Top.rep \in Nat \ {0} /\ Top.node \in 1..Len(list) /\ Top.new \in 1..Len(list)
        /\ Top.len \in Int
    BY <1>4 DEF Frames
  <1>6. Heap(l) /\ Len(list) <= Len(l) /\ node \in 1..Len(l)
    <2>1. CASE Top.rep = 1
      BY <1>3, <1>5, <2>1 DEF l, node
    <2>2. CASE Top.rep # 1
      <3>1. node = Len(list) + 1
            /\ l = Append([list EXCEPT ![Top.new].next = Len(list) + 1], [token |-> r, next |-> NULL])
        BY <2>2 DEF l, node
      <3>2. Heap(l) /\ Len(l) = Len(list) + 1
        BY <1>3, <1>5, <3>1, NodeAppended
      <3> QED BY <1>3, <3>1, <3>2
    <2> QED BY <2>1, <2>2
  <1>7. Filled(arg)
    <2>1. CASE r.type = "ARGUMENT"
      <3>1. Top.rep \in 1..Len(Body)
        <4>1. Len(Body) \in Nat
          BY <1>3, ListFacts DEF MacroOK, Body
        <4> QED BY <1>0, <1>5, <4>1
      <3>2. \E j \in 1..Len(Macro(Top).params) : Macro(Top).params[j] = r.text
        BY <1>3, <2>1, <3>1 DEF MacroOK, Body, r
      <3>3. arg = Actual(Top, r)
        BY <2>1 DEF arg
      <3> QED BY <1>3, <3>2, <3>3, ActualFacts
    <2>2. CASE r.type # "ARGUMENT"
      <3>1. arg = <<token>>
        BY <2>2 DEF arg
      <3>2. <<token>> \in Seq({token}) /\ Len(<<token>>) = 1
        OBVIOUS
      <3>3. IsList(<<token>>)
        BY <3>2 DEF IsList
      <3> QED BY <3>1, <3>2, <3>3 DEF Filled
    <2> QED BY <2>1, <2>2
  <1>8. Heap(put) /\ Len(l) <= Len(put) /\ new \in 1..Len(put)
    BY <1>6, <1>7, PutFacts DEF put, new
  <1>9. Len(l) \in Nat /\ Len(put) \in Nat /\ Len(arg) \in Nat /\ Len(list) <= Len(put)
        /\ node \in 1..Len(put)
    <2>1. Len(l) \in Nat /\ Len(put) \in Nat /\ Len(arg) \in Nat
      BY <1>6, <1>7, <1>8, HeapFacts, ListFacts DEF Filled
    <2> QED BY <1>3, <1>6, <1>8, <2>1
  <1>10. CASE Return([l EXCEPT ![node].token = token], 0)
    <2> DEFINE w == [l EXCEPT ![node].token = token]
    <2>1. Heap(w) /\ Len(w) = Len(l)
      BY <1>6, TokenWritten
    <2>2. Return(w, 0)
      BY <1>10
    <2> HIDE DEF w
    <2>3. Len(list) <= Len(w) /\ 0 \in Int
      BY <1>6, <2>1
    <2> QED BY <1>0, <2>1, <2>2, <2>3, ReturnKeeps
  <1>11. CASE Return(put, 0)
    <2>1. 0 \in Int
      OBVIOUS
    <2> QED BY <1>0, <1>8, <1>9, <1>11, <2>1, ReturnKeeps
  <1>12. CASE Stop("aborted") \/ Stop("out of memory")
    <2>1. "aborted" \in Statuses /\ "out of memory" \in Statuses
      BY Zenon DEF Statuses
    <2> QED BY <1>0, <1>12, <2>1, Stopped, Zenon
  <1>13. CASE list' = put /\ calls' = Set(Continued(g)) /\ UNCHANGED <<ptr, status>>
    <2> DEFINE N == Len(put)
    <2>1. first \in 0..N
      BY <1>9 DEF first, NULL
    <2>2. next \in Nat \ {0}
      BY <1>2, <1>5
    <2>3. Top \in Frames(N, macros, A)
      BY <1>3, <1>4, <1>9 DEF Frames
    <2>4. Top.len + Len(arg) \in Int /\ Len(arg) - 1 \in Int /\ node \in 0..N /\ new \in 1..N
      BY <1>5, <1>8, <1>9
    <2> HIDE DEF N
    <2>5. g \in Frames(N, macros, A) /\ g.macro = Top.macro /\ g.args = Top.args
      BY <2>1, <2>2, <2>3, <2>4 DEF Frames, g
    <2>6. /\ g.args = [i \in 1..Len(Macro(g).params) |-> g.args[i]]
          /\ \A i \in 1..Len(Macro(g).params) : Filled(g.args[i])
      BY <1>3, <2>5 DEF Activation, Macro
    <2>7. Activation(Continued(g), Len(put), macros)
      BY <2>5, <2>6, ContinuedFacts DEF N
    <2> QED BY <1>0, <1>8, <1>9, <1>13, <2>7, TopKeeps
  <1> QED BY <1>1, <1>10, <1>11, <1>12, <1>13, Zenon

LEMMA ConcatenateKeeps ==
    ASSUME IInv, STACK_FRAMES \in Nat, Concatenate
    PROVE  IInv'
  <1> DEFINE right == Body[Top.rep + 1]
             arg   == IF right.type = "ARGUMENT" THEN Actual(Top, right) ELSE <<right>>
             l     == InsertAfter(list, Top.new, Tail(arg))
             new   == LastOf(list, Top.new, Tail(arg))
             left  == l[new].token
             type  == IF left.type = arg[1].type /\ left.sub = arg[1].sub THEN left.type
                      ELSE "IDENTIFIER"
             joint == [left EXCEPT !.type = type, !.text = @ \o arg[1].text]
             w     == [l EXCEPT ![new].token = joint]
             g     == [Top EXCEPT !.rep = @ + 2, !.new = new, !.joined = TRUE]
  <1>0. calls # <<>> /\ Top.phase = "concatenate" /\ UNCHANGED source
    BY Zenon DEF Concatenate, In
  <1>1. \/ Return(list, 0)
        \/ Stop("aborted") \/ Stop("out of memory")
        \/ /\ Top.rep # Len(Body)
           /\ list' = w /\ calls' = Set(Continued(g)) /\ UNCHANGED <<ptr, status>>
    BY Zenon DEF Concatenate
  <1> HIDE DEF right, arg, l, new, left, type, joint, w, g
  <1>3. /\ Heap(list) /\ Len(list) \in Nat /\ MacroOK(Macro(Top))
        /\ Activation(Top, Len(list), macros)
    BY <1>0, TopFacts
  <1>4. PICK A : Top \in Frames(Len(list), macros, A)
    BY <1>3 DEF Activation
  <1>5. /\ Top.rep \in Nat \ {0} /\ Top.new \in 1..Len(list)
        /\ Len(Body) \in Nat /\ Top.rep <= Len(Body)
    <2>1. Len(Body) \in Nat
      BY <1>3, ListFacts DEF MacroOK, Body
    <2>2. Top.rep <= Len(Body)
      BY <1>0, <1>3 DEF Activation, Body, Macro
    <2> QED BY <1>4, <2>1, <2>2 DEF Frames
  <1>6. CASE Return(list, 0)
    <2>1. 0 \in Int /\ Len(list) <= Len(list)
      BY <1>3
    <2> QED BY <1>0, <1>3, <1>6, <2>1, ReturnKeeps
  <1>7. CASE Stop("aborted") \/ Stop("out of memory")
    <2>1. "aborted" \in Statuses /\ "out of memory" \in Statuses
      BY Zenon DEF Statuses
    <2> QED BY <1>0, <1>7, <2>1, Stopped, Zenon
  <1>8. CASE /\ Top.rep # Len(Body)
             /\ list' = w /\ calls' = Set(Continued(g)) /\ UNCHANGED <<ptr, status>>
    <2>1. Filled(arg)
      <3>1. CASE right.type = "ARGUMENT"
        <4>1. Top.rep + 1 \in 1..Len(Body)
          BY <1>5, <1>8
        <4>2. \E j \in 1..Len(Macro(Top).params) : Macro(Top).params[j] = right.text
          BY <1>3, <3>1, <4>1 DEF MacroOK, Body, right
        <4>3. arg = Actual(Top, right)
          BY <3>1 DEF arg
        <4> QED BY <1>3, <4>2, <4>3, ActualFacts
      <3>2. CASE right.type # "ARGUMENT"
        <4>1. arg = <<right>>
          BY <3>2 DEF arg
        <4>2. <<right>> \in Seq({right}) /\ Len(<<right>>) = 1
          OBVIOUS
        <4>3. IsList(<<right>>)
          BY <4>2 DEF IsList
        <4> QED BY <4>1, <4>2, <4>3 DEF Filled
      <3> QED BY <3>1, <3>2
    <2>2. IsList(Tail(arg)) /\ Len(Tail(arg)) \in Nat
      <3>1. IsList(arg) /\ Len(arg) \in Nat /\ Len(arg) >= 1
        BY <2>1, ListFacts DEF Filled
      <3>2. Len(arg) # 0
        BY <3>1
      <3>3. IsList(Tail(arg))
        BY <3>1, <3>2, ListTail
      <3> QED BY <3>3, ListFacts
    <2>3. Heap(l) /\ Len(l) = Len(list) + Len(Tail(arg)) /\ new \in 1..(Len(list) + Len(Tail(arg)))
      BY <1>3, <1>5, <2>2, InsertFacts DEF l, new
    <2>4. new \in 1..Len(l) /\ Len(list) <= Len(l) /\ Len(l) \in Nat
      BY <1>3, <2>2, <2>3
    <2>5. Heap(w) /\ Len(w) = Len(l)
      BY <2>3, <2>4, TokenWritten DEF w
    <2>6. g \in Frames(Len(w), macros, A) /\ g.macro = Top.macro /\ g.args = Top.args
      <3> DEFINE N == Len(w)
      <3>1. Top \in Frames(N, macros, A)
        BY <1>3, <1>4, <2>4, <2>5 DEF Frames
      <3>2. Top.rep + 2 \in Nat \ {0} /\ new \in 1..N
        BY <1>5, <2>4, <2>5
      <3> HIDE DEF N
      <3>3. g \in Frames(N, macros, A) /\ g.macro = Top.macro /\ g.args = Top.args
        BY <3>1, <3>2 DEF Frames, g
      <3> QED BY <3>3 DEF N
    <2>7. /\ g.args = [i \in 1..Len(Macro(g).params) |-> g.args[i]]
          /\ \A i \in 1..Len(Macro(g).params) : Filled(g.args[i])
      BY <1>3, <2>6 DEF Activation, Macro
    <2>8. Activation(Continued(g), Len(w), macros)
      BY <2>6, <2>7, ContinuedFacts
    <2> QED BY <1>0, <1>8, <2>4, <2>5, <2>8, TopKeeps
  <1> QED BY <1>1, <1>6, <1>7, <1>8, Zenon

\* The running activation goes on to another node or phase.
LEMMA Moved ==
    ASSUME NEW n \in Nat, NEW ms, NEW f, Activation(f, n, ms),
           NEW g, \E A : g \in Frames(n, ms, A),
           g.macro = f.macro, g.args = f.args,
           g.phase = "arguments" => g.first # 0, g.phase # "concatenate"
    PROVE  Activation(g, n, ms)
  BY DEF Activation

LEMMA NextNode ==
    ASSUME IInv, UNCHANGED source, STACK_FRAMES \in Nat, calls # <<>>,
           Top.at # 0, Top.phase # "concatenate",
           calls' = Set([Top EXCEPT !.at = list[@].next]), UNCHANGED <<list, ptr, status>>
    PROVE  IInv'
  <1> DEFINE g == [Top EXCEPT !.at = list[Top.at].next]
  <1>1. Heap(list) /\ Len(list) \in Nat /\ Activation(Top, Len(list), macros)
    BY TopFacts
  <1>2. PICK A : Top \in Frames(Len(list), macros, A)
    BY <1>1 DEF Activation
  <1>3. list[Top.at].next \in 0..Len(list)
    <2>1. Top.at \in 0..Len(list)
      BY <1>2 DEF Frames
    <2>2. Top.at \in 1..Len(list)
      BY <1>1, <2>1
    <2> QED BY <1>1, <2>2, HeapFacts
  <1>4. /\ g \in Frames(Len(list), macros, A) /\ g.macro = Top.macro /\ g.args = Top.args
        /\ g.phase = Top.phase /\ g.first = Top.first
    BY <1>2, <1>3 DEF Frames
  <1>5. calls' = Set(g)
    OBVIOUS
  <1> HIDE DEF g
  <1>6. g.phase = "arguments" => g.first # 0
    BY <1>1, <1>4 DEF Activation
  <1>7. Activation(g, Len(list), macros)
    BY <1>1, <1>4, <1>6, Moved
  <1>8. Len(list) <= Len(list) /\ list' = list /\ UNCHANGED <<ptr, status>>
    BY <1>1
  <1> QED BY <1>1, <1>5, <1>7, <1>8, TopKeeps

LEMMA ExpandArgumentKeeps ==
    ASSUME IInv, STACK_FRAMES \in Nat, ExpandArgument \/ Rescan
    PROVE  IInv'
  <1>1. /\ calls # <<>> /\ Top.phase # "concatenate" /\ ~AtEnd /\ UNCHANGED source
        /\ \/ Expandable(list, Top.at) /\ Enter(list, Top.at, calls)
           \/ /\ calls' = Set([Top EXCEPT !.at = list[@].next])
              /\ UNCHANGED <<list, ptr, status>>
    <2>1. /\ calls # <<>> /\ (Top.phase = "arguments" \/ Top.phase = "rescan")
          /\ ~AtEnd /\ UNCHANGED source
          /\ \/ Expandable(list, Top.at) /\ Enter(list, Top.at, calls)
             \/ /\ calls' = Set([Top EXCEPT !.at = list[@].next])
                /\ UNCHANGED <<list, ptr, status>>
      BY Zenon DEF ExpandArgument, Rescan, In
    <2>2. "arguments" # "concatenate" /\ "rescan" # "concatenate"
      OBVIOUS
    <2> QED BY <2>1, <2>2, Zenon
  <1>2. /\ Len(calls) \in Nat \ {0} /\ Activation(Top, Len(list), macros)
        /\ Len(list) \in Nat
    BY <1>1, TopFacts
  <1>3. Top.at # 0 /\ Top.at \in 0..Len(list)
    BY <1>1, <1>2 DEF AtEnd, NULL, Activation, Frames
  <1>4. CASE Expandable(list, Top.at) /\ Enter(list, Top.at, calls)
    <2>1. Top.at \in 1..Len(list)
      BY <1>2, <1>3
    <2>2. IsMacro(list, Top.at)
      BY <1>4, Zenon DEF Expandable
    <2>3. calls[Len(calls)].at # 0
      BY <1>3 DEF Top
    <2> QED BY <1>1, <1>4, <2>1, <2>2, <2>3, EnterKeeps
  <1>5. CASE calls' = Set([Top EXCEPT !.at = list[@].next]) /\ UNCHANGED <<list, ptr, status>>
    BY <1>1, <1>3, <1>5, NextNode
  <1> QED BY <1>1, <1>4, <1>5

LEMMA EndArgumentKeeps ==
    ASSUME IInv, STACK_FRAMES \in Nat, EndArgument
    PROVE  IInv'
  <1> DEFINE new == Advance(list, Top.first, Top.seg)
             g   == [Top EXCEPT !.phase = "replace", !.new = new]
  <1>1. /\ calls # <<>> /\ UNCHANGED source
        /\ \/ Stop("crashed") \/ Stop("aborted")
           \/ /\ new # CRASH /\ new # NULL
              /\ calls' = Set(g) /\ UNCHANGED <<list, ptr, status>>
    BY Zenon DEF EndArgument, In
  <1>2. /\ Heap(list) /\ Len(list) \in Nat /\ Activation(Top, Len(list), macros)
    BY <1>1, TopFacts
  <1>3. CASE Stop("crashed") \/ Stop("aborted")
    <2>1. "crashed" \in Statuses /\ "aborted" \in Statuses
      BY Zenon DEF Statuses
    <2> QED BY <1>1, <1>3, <2>1, Stopped
  <1>4. CASE /\ new # CRASH /\ new # NULL
             /\ calls' = Set(g) /\ UNCHANGED <<list, ptr, status>>
    <2>1. PICK A : Top \in Frames(Len(list), macros, A)
      BY <1>2 DEF Activation
    <2>2. Top.first \in Pointers(list) /\ Top.seg \in Int
      BY <2>1 DEF Frames, Pointers
    <2>3. new \in Pointers(list)
      BY <1>2, <2>2, AdvanceFacts
    <2> HIDE DEF new
    <2>4. new \in 1..Len(list)
      BY <1>2, <1>4, <2>3 DEF Pointers, NULL
    <2>5. g \in Frames(Len(list), macros, A) /\ g.macro = Top.macro /\ g.args = Top.args
          /\ g.phase = "replace"
      BY <2>1, <2>4 DEF Frames, Phases
    <2> HIDE DEF g
    <2>6. g.phase # "arguments" /\ g.phase # "concatenate"
      BY <2>5
    <2>7. Activation(g, Len(list), macros)
      BY <1>2, <2>5, <2>6, Moved
    <2>8. Len(list) <= Len(list) /\ list' = list /\ calls' = Set(g) /\ UNCHANGED <<ptr, status>>
      BY <1>2, <1>4
    <2> QED BY <1>1, <1>2, <2>7, <2>8, TopKeeps
  <1> QED BY <1>1, <1>3, <1>4

LEMMA LinkKeeps ==
    ASSUME IInv, STACK_FRAMES \in Nat, Link
    PROVE  IInv'
  <1> DEFINE g == [Top EXCEPT !.phase = "rescan", !.at = Top.node]
             l == IF Body = <<>> THEN Blanked(list, Top.node)
                  ELSE [list EXCEPT ![Top.new].next = Top.end]
  <1>1. /\ calls # <<>> /\ UNCHANGED source
        /\ list' = l /\ calls' = Set(g) /\ UNCHANGED <<ptr, status>>
    BY DEF Link, In
  <1>2. /\ Heap(list) /\ Len(list) \in Nat /\ Activation(Top, Len(list), macros)
    BY <1>1, TopFacts
  <1>3. PICK A : Top \in Frames(Len(list), macros, A)
    BY <1>2 DEF Activation
  <1>4. Top.node \in 1..Len(list) /\ Top.new \in 1..Len(list) /\ Top.end \in 0..Len(list)
    BY <1>3 DEF Frames
  <1>5. Heap(l) /\ Len(l) = Len(list)
    <2>1. Heap(Blanked(list, Top.node)) /\ Len(Blanked(list, Top.node)) = Len(list)
      BY <1>2, <1>4, TokenWritten DEF Blanked
    <2>2. /\ Heap([list EXCEPT ![Top.new].next = Top.end])
          /\ Len([list EXCEPT ![Top.new].next = Top.end]) = Len(list)
      BY <1>2, <1>4, LinkWritten
    <2> QED BY <2>1, <2>2
  <1>6. g \in Frames(Len(list), macros, A) /\ g.macro = Top.macro /\ g.args = Top.args
        /\ g.phase = "rescan"
    <2>1. Top.node \in 0..Len(list)
      BY <1>4
    <2> QED BY <1>3, <2>1 DEF Frames, Phases
  <1> HIDE DEF g, l
  <1>7. g.phase # "arguments" /\ g.phase # "concatenate"
    BY <1>6
  <1>8. Activation(g, Len(l), macros)
    BY <1>2, <1>5, <1>6, <1>7, Moved
  <1>9. Len(list) <= Len(l)
    BY <1>2, <1>5
  <1> QED BY <1>1, <1>5, <1>8, <1>9, TopKeeps

LEMMA EndRescanKeeps ==
    ASSUME IInv, STACK_FRAMES \in Nat, EndRescan
    PROVE  IInv'
  <1>1. calls # <<>> /\ UNCHANGED source /\ Return(list, Top.len)
    BY DEF EndRescan, In
  <1>2. Heap(list) /\ Len(list) <= Len(list) /\ Activation(Top, Len(list), macros)
    BY <1>1, TopFacts
  <1>3. Top.len \in Int
    BY <1>2 DEF Activation, Frames
  <1> QED BY <1>1, <1>2, <1>3, ReturnKeeps

\* The three actions of the main loop.
LEMMA TextKeeps ==
    ASSUME IInv, STACK_FRAMES \in Nat, ExpandText \/ PassText \/ EndText
    PROVE  IInv'
  <1>0. Text /\ UNCHANGED source
    BY Zenon DEF ExpandText, PassText, EndText
  <1>1. /\ Heap(list) /\ ptr \in 1..Len(list) /\ MacrosOK(macros)
        /\ StackOf(calls, Len(list), macros) /\ Len(calls) <= STACK_FRAMES
    BY DEF IInv, Safe
  <1>2. Len(list) \in Nat /\ list[ptr].next \in 0..Len(list)
    BY <1>1, HeapFacts
  <1>3. CASE ExpandText
    <2>1. calls = <<>>
      BY <1>0 DEF Text
    <2>2. IsMacro(list, list[ptr].next) /\ Enter(list, list[ptr].next, calls)
      BY <1>3, <2>1 DEF ExpandText
    <2>3. list[ptr].next \in 1..Len(list)
      BY <1>2, <2>2 DEF IsMacro, NULL
    <2>4. Len(calls) = 0
      BY <2>1
    <2> QED BY <1>0, <2>2, <2>3, <2>4, EnterKeeps
  <1>4. CASE PassText
    <2> DEFINE c == Chain(list, ptr)
               E == {Len(c)} \cup {i \in 2..(Len(c) - 1) : IsMacro(list, c[i + 1])}
    <2>1. ptr' = c[Min(E)] /\ UNCHANGED <<list, calls, status>>
      BY <1>4 DEF PassText
    <2>2. c \in Seq(1..Len(list)) /\ Len(c) >= 1
      <3>1. ptr \in 0..Len(list) /\ ptr # NULL
        BY <1>1, <1>2 DEF NULL
      <3> QED BY <1>1, <3>1, ChainFacts
    <2> HIDE DEF c
    <2>3. Len(c) \in Nat
      BY <2>2
    <2>4. E \subseteq 1..Len(c) /\ E \subseteq Nat /\ E # {}
      <3> DEFINE k == Len(c)
      <3>1. k \in Nat /\ k >= 1
        BY <2>2, <2>3
      <3>2. \A i \in E : i = k \/ i \in 2..(k - 1)
        OBVIOUS
      <3>3. k \in E
        OBVIOUS
      <3> HIDE DEF k, E
      <3>4. \A i \in E : i \in 1..k /\ i \in Nat
        BY <3>1, <3>2
      <3> QED BY <3>3, <3>4 DEF k
    <2> HIDE DEF E
    <2>5. Min(E) \in 1..Len(c)
      BY <2>4, MinOfNaturals
    <2>6. c[Min(E)] \in 1..Len(list)
      BY <2>2, <2>5, ElementOfSeq
    <2>7. Safe(list, c[Min(E)], calls, macros)
      BY <1>1, <2>6 DEF Safe
    <2>8. Safe(list', ptr', calls', macros')
      BY <1>0, <2>1, <2>7 DEF source
    <2> QED BY <2>1, <2>8 DEF IInv
  <1>5. CASE EndText
    <2>1. "expanded" \in Statuses
      BY Zenon DEF Statuses
    <2>2. Stop("expanded")
      BY <1>5 DEF EndText
    <2> QED BY <1>0, <2>1, <2>2, Stopped
  <1> QED BY <1>3, <1>4, <1>5

LEMMA InitInv ==
    ASSUME Init, STACK_FRAMES \in Nat
    PROVE  IInv
  <1> DEFINE text == program.text
             s    == <<Blank>> \o text
  <1>0. /\ macros = Defined(program.lines) /\ ptr = 1 /\ calls = <<>> /\ status = "running"
        /\ list = Nodes(s, 1, 0) /\ program \in Programs
    BY DEF Init, NULL
  <1>1. text \in Seq(AnyToken) /\ program.lines \in Seq({ts \in Range(program.lines) : IsLine(ts)})
    BY <1>0, ProgramsAssumption
  <1>2. MacrosOK(macros)
    <2> DEFINE L == {ts \in Range(program.lines) : IsLine(ts)}
    <2>1. program.lines \in Seq(L) /\ \A ts \in L : IsLine(ts)
      BY <1>1
    <2> HIDE DEF L
    <2>2. DOMAIN program.lines \subseteq Nat /\ \A i \in DOMAIN program.lines : IsLine(program.lines[i])
      BY <2>1
    <2> QED BY <1>0, <2>2, DefinedFacts
  <1>3. IsList(s) /\ Len(s) = 1 + Len(text) /\ Len(text) \in Nat
    <2> DEFINE T == {Blank} \cup AnyToken
    <2>1. <<Blank>> \in Seq(T) /\ text \in Seq(T) /\ Len(<<Blank>>) = 1
      <3>1. Blank \in T
        OBVIOUS
      <3>2. AnyToken \subseteq T
        OBVIOUS
      <3> HIDE DEF T, text
      <3>3. text \in Seq(T)
        BY <1>1, <3>2, SeqMonotonic
      <3> QED BY <3>1, <3>3
    <2> HIDE DEF T, text
    <2>2. s \in Seq(T) /\ Len(s) = 1 + Len(text)
      BY <2>1, ConcatProperties
    <2> HIDE DEF s
    <2> QED BY <2>1, <2>2 DEF IsList
  <1> HIDE DEF s, text
  <1>4. /\ \E T : list \in Seq([token : T, next : Nat])
        /\ Len(list) = Len(s)
        /\ \A i \in 1..Len(s) : list[i].next = IF i = Len(s) THEN 0 ELSE 1 + i
    <2>1. 1 \in Nat /\ 0 \in Nat
      OBVIOUS
    <2>2. PICK T : Nodes(s, 1, 0) \in Seq([token : T, next : Nat])
      BY <1>3, <2>1, IsListNodes
    <2>3. /\ Len(Nodes(s, 1, 0)) = Len(s)
          /\ \A i \in 1..Len(s) : Nodes(s, 1, 0)[i].next = IF i = Len(s) THEN 0 ELSE 1 + i
      BY <1>3, <2>1, IsListNodes
    <2> QED BY <1>0, <2>2, <2>3
  <1>5. \A n \in 1..Len(list) : list[n].next \in 0..Len(list)
    BY <1>3, <1>4
  <1>6. Heap(list) /\ ptr \in 1..Len(list)
    <2>1. Heap(list)
      BY <1>4, <1>5 DEF Heap
    <2>2. Len(list) = 1 + Len(text)
      BY <1>3, <1>4
    <2> QED BY <1>0, <1>3, <2>1, <2>2
  <1>7. StackOf(calls, Len(list), macros) /\ Len(calls) <= STACK_FRAMES
    <2>1. <<>> \in Seq({}) /\ Len(<<>>) = 0
      OBVIOUS
    <2>2. IsList(<<>>)
      BY <2>1 DEF IsList
    <2> QED BY <1>0, <2>1, <2>2 DEF StackOf
  <1>8. status \in Statuses
    BY <1>0, Zenon DEF Statuses
  <1> QED BY <1>2, <1>6, <1>7, <1>8 DEF IInv, Safe

LEMMA InvTypeOK ==
    ASSUME IInv
    PROVE  TypeOK
  <1>1. /\ Heap(list) /\ ptr \in 1..Len(list) /\ StackOf(calls, Len(list), macros)
        /\ Len(calls) <= STACK_FRAMES
    BY DEF IInv, Safe
  <1>2. /\ DOMAIN list = 1..Len(list) /\ Len(list) \in Nat
        /\ \A n \in DOMAIN list : list[n].next \in 0..Len(list)
    BY <1>1, HeapFacts
  <1>3. ASSUME NEW i \in DOMAIN calls
        PROVE  /\ {calls[i].node, calls[i].new} \subseteq DOMAIN list
               /\ {calls[i].end, calls[i].at, calls[i].first} \subseteq 0..Len(list)
               /\ calls[i].phase = "arguments" => calls[i].first \in DOMAIN list
               /\ i < Len(calls) => calls[i].at \in DOMAIN list
    <2>1. Len(calls) \in Nat /\ DOMAIN calls = 1..Len(calls)
      BY <1>1, ListFacts DEF StackOf
    <2>2. Activation(calls[i], Len(list), macros) /\ (i < Len(calls) => calls[i].at # 0)
      <3>1. i < Len(calls) => i \in 1..(Len(calls) - 1)
        BY <2>1
      <3> QED BY <1>1, <2>1, <3>1 DEF StackOf
    <2>3. /\ calls[i].node \in 1..Len(list) /\ calls[i].new \in 1..Len(list)
          /\ calls[i].end \in 0..Len(list) /\ calls[i].at \in 0..Len(list)
          /\ calls[i].first \in 0..Len(list)
          /\ calls[i].phase = "arguments" => calls[i].first # 0
      BY <2>2 DEF Activation, Frames
    <2> QED BY <1>2, <2>2, <2>3
  <1>4. ptr \in DOMAIN list
    BY <1>1, <1>2
  <1>5. status \in {"running", "expanded", "crashed", "aborted", "spinning", "out of memory"}
    BY Zenon DEF IInv, Statuses
  <1>6. \A i \in DOMAIN calls :
           /\ {calls[i].node, calls[i].new} \subseteq DOMAIN list
           /\ {calls[i].end, calls[i].at, calls[i].first} \subseteq 0..Len(list)
           /\ calls[i].phase = "arguments" => calls[i].first \in DOMAIN list
           /\ i < Len(calls) => calls[i].at \in DOMAIN list
    BY <1>3
  <1> QED BY <1>1, <1>2, <1>4, <1>5, <1>6, Zenon DEF TypeOK

\* TypeOK is an invariant: through every removal and insertion, by however many
\* activations of expand_macro, no pointer that is followed without a test is
\* NULL or no node, and expand_macro does not exceed its stack.
THEOREM TypeCorrect == Spec => []TypeOK
  <1>0. STACK_FRAMES \in Nat
    BY BoundsAssumption
  <1>1. Init => IInv
    BY <1>0, InitInv
  <1>2. IInv /\ [Next]_vars => IInv'
    <2> SUFFICES ASSUME IInv, [Next]_vars PROVE IInv'
      OBVIOUS
    <2>1. CASE ExpandText \/ PassText \/ EndText
      BY <1>0, <2>1, TextKeeps
    <2>2. CASE Replace
      BY <1>0, <2>2, ReplaceKeeps
    <2>3. CASE Concatenate
      BY <1>0, <2>3, ConcatenateKeeps
    <2>4. CASE ExpandArgument \/ Rescan
      BY <1>0, <2>4, ExpandArgumentKeeps
    <2>5. CASE EndArgument
      BY <1>0, <2>5, EndArgumentKeeps
    <2>6. CASE Link
      BY <1>0, <2>6, LinkKeeps
    <2>7. CASE EndRescan
      BY <1>0, <2>7, EndRescanKeeps
    <2>8. CASE UNCHANGED vars
      BY <2>8 DEF IInv, vars, source
    <2> QED BY <2>1, <2>2, <2>3, <2>4, <2>5, <2>6, <2>7, <2>8, Zenon DEF Next
  <1>3. IInv => TypeOK
    BY InvTypeOK
  <1> QED BY <1>1, <1>2, <1>3, PTL DEF Spec

=============================================================================
