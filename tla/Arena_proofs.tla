---------------------------- MODULE Arena_proofs ----------------------------
EXTENDS Arena, TLAPS

LEMMA AlignedSizeFacts ==
    ASSUME NEW size \in Nat
    PROVE  /\ AlignedSize(size) \in Nat
           /\ AlignedSize(size) >= size
           /\ AlignedSize(size) < size + MAX_ALIGNMENT
           /\ AlignedSize(size) % MAX_ALIGNMENT = 0
  <1> DEFINE r == (-size) % 8
  <1>1. -size \in Int
    OBVIOUS
  <1>2. r \in 0..7
    BY <1>1
  <1>3. (size + r) % 8 = 0
    BY <1>1
  <1> HIDE DEF r
  <1>4. size + r \in Nat /\ size + r >= size /\ size + r < size + 8
    BY <1>2
  <1>5. AlignedSize(size) = size + r /\ MAX_ALIGNMENT = 8
    BY DEF AlignedSize, MAX_ALIGNMENT, r
  <1>6. (size + r) % 8 = 0
    BY <1>3 DEF r
  <1> QED BY <1>4, <1>5, <1>6

LEMMA AlignedSum ==
    ASSUME NEW a \in Nat, NEW b \in Nat,
           a % MAX_ALIGNMENT = 0, b % MAX_ALIGNMENT = 0
    PROVE  (a + b) % MAX_ALIGNMENT = 0
  BY DEF MAX_ALIGNMENT

IInv ==
    /\ TypeOK
    /\ bytes_used % MAX_ALIGNMENT = 0
    /\ BlocksInBounds
    /\ BlocksDisjoint

LEMMA InitEstablishes == Init => IInv
  <1> SUFFICES ASSUME Init PROVE IInv
    OBVIOUS
  <1>1. bytes_used = 0 /\ blocks = {}
    BY DEF Init
  <1>2. TypeOK
    <2>1. exited \in BOOLEAN
      BY Zenon DEF Init
    <2> QED BY <1>1, <2>1, ArenaAssumption DEF TypeOK
  <1>3. bytes_used % MAX_ALIGNMENT = 0
    BY <1>1 DEF MAX_ALIGNMENT
  <1>4. BlocksInBounds /\ BlocksDisjoint
    BY <1>1 DEF BlocksInBounds, BlocksDisjoint
  <1> QED BY <1>2, <1>3, <1>4 DEF IInv

\* A new block starts where the used part of the arena ended.
LEMMA AllocateKeeps ==
    ASSUME IInv, NEW size \in Sizes, Allocate(size)
    PROVE  IInv'
  <1> DEFINE new == [start |-> bytes_used, size |-> size]
  <1>1. /\ bytes_used \in Nat /\ ArenaCapacity \in Nat
        /\ size \in Nat \ {0}
        /\ blocks \subseteq [start : Nat, size : Nat \ {0}]
    BY ArenaAssumption DEF IInv, TypeOK
  <1>2. /\ AlignedSize(size) \in Nat /\ AlignedSize(size) >= size
        /\ AlignedSize(size) % MAX_ALIGNMENT = 0
    BY <1>1, AlignedSizeFacts
  <1>3. /\ bytes_used' = bytes_used + AlignedSize(size)
        /\ bytes_used' <= ArenaCapacity
        /\ blocks' = blocks \cup {new}
        /\ exited' = exited
    BY DEF Allocate, Fits
  <1>4. bytes_used' % MAX_ALIGNMENT = 0
    BY <1>1, <1>2, <1>3, AlignedSum DEF IInv
  <1>5. TypeOK'
    BY <1>1, <1>2, <1>3 DEF IInv, TypeOK
  <1>6. BlocksInBounds'
    <2>1. \A b \in blocks : b.start + b.size <= bytes_used'
      BY <1>1, <1>2, <1>3 DEF IInv, BlocksInBounds
    <2> QED BY <1>1, <1>2, <1>3, <2>1 DEF IInv, BlocksInBounds
  <1>7. BlocksDisjoint'
    BY <1>1, <1>3 DEF IInv, BlocksInBounds, BlocksDisjoint
  <1> QED BY <1>4, <1>5, <1>6, <1>7 DEF IInv

LEMMA NextKeeps == IInv /\ [Next]_arena_vars => IInv'
  <1> SUFFICES ASSUME IInv, [Next]_arena_vars PROVE IInv'
    OBVIOUS
  <1>1. CASE UNCHANGED arena_vars
    BY <1>1 DEF arena_vars, IInv, TypeOK, BlocksInBounds, BlocksDisjoint
  <1>2. ASSUME NEW size \in Sizes, OutOfMemory(size)
        PROVE  IInv'
    BY <1>2 DEF OutOfMemory, IInv, TypeOK, BlocksInBounds, BlocksDisjoint
  <1>3. ASSUME NEW size \in Sizes, Allocate(size)
        PROVE  IInv'
    BY <1>3, AllocateKeeps
  <1> QED BY <1>1, <1>2, <1>3 DEF Next

LEMMA InvariantHolds == Spec => []IInv
  <1>1. Init => IInv
    BY InitEstablishes
  <1>2. IInv /\ [Next]_arena_vars => IInv'
    BY NextKeeps
  <1> QED BY <1>1, <1>2, PTL DEF Spec

\* The arena never counts more bytes than it has, and every block is a pair of
\* numbers of which the size is positive.
THEOREM TypeCorrect == Spec => []TypeOK
  <1>1. IInv => TypeOK
    BY DEF IInv
  <1> QED BY <1>1, InvariantHolds, PTL

\* Whatever its callers ask for, every block the arena hands out is aligned and
\* inside the arena.
THEOREM InBounds == Spec => []BlocksInBounds
  <1>1. IInv => BlocksInBounds
    BY DEF IInv
  <1> QED BY <1>1, InvariantHolds, PTL

\* Whatever its callers ask for, no two blocks share a byte.
THEOREM Disjoint == Spec => []BlocksDisjoint
  <1>1. IInv => BlocksDisjoint
    BY DEF IInv
  <1> QED BY <1>1, InvariantHolds, PTL
=============================================================================
