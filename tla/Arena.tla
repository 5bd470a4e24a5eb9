-------------------------------- MODULE Arena --------------------------------
(***************************************************************************)
(* The bump allocator of src/src/memory.c that the tokens, the macros and  *)
(* the syntax tree live in.  Nothing is freed before the whole arena is.   *)
(* size_t does not wrap here: the largest request is an arena's own table. *)
(***************************************************************************)
EXTENDS Integers

CONSTANTS
    ArenaCapacity,  \* arena->capacity, in bytes
    Sizes           \* the sizes its callers ask for

MAX_ALIGNMENT == 8

ASSUME ArenaAssumption == ArenaCapacity \in Nat /\ Sizes \subseteq Nat \ {0}

VARIABLES
    bytes_used,     \* arena->bytes_used
    blocks,         \* the blocks handed out, as [start, size]
    exited          \* the program has run out of memory and called exit(1)

arena_vars == <<bytes_used, blocks, exited>>

\* Faulty: no alignment, and alignment downwards.
Unaligned(size)   == size
AlignedDown(size) == size - (size % MAX_ALIGNMENT)

\* size + (-size & (MAX_ALIGNMENT - 1))
AlignedSize(size) == size + ((-size) % MAX_ALIGNMENT)

\* Faulty: the padding is not counted.
FitsUnpadded(size) == bytes_used + size <= ArenaCapacity

Fits(size) == bytes_used + AlignedSize(size) <= ArenaCapacity

Init ==
    /\ bytes_used = 0
    /\ blocks = {}
    /\ exited = FALSE

\* The block handed out starts at the old bytes_used.
Allocate(size) ==
    /\ ~exited
    /\ Fits(size)
    /\ bytes_used' = bytes_used + AlignedSize(size)
    /\ blocks' = blocks \cup {[start |-> bytes_used, size |-> size]}
    /\ UNCHANGED exited

OutOfMemory(size) ==
    /\ ~exited
    /\ ~Fits(size)
    /\ exited' = TRUE
    /\ UNCHANGED <<bytes_used, blocks>>

Next == \E size \in Sizes : Allocate(size) \/ OutOfMemory(size)

Spec == Init /\ [][Next]_arena_vars

-----------------------------------------------------------------------------
TypeOK ==
    /\ bytes_used \in 0..ArenaCapacity
    /\ blocks \subseteq [start : Nat, size : Nat \ {0}]
    /\ exited \in BOOLEAN

\* Every block is aligned and lies inside the used part of the arena, the
\* padding of the last one included.
BlocksInBounds ==
    \A b \in blocks : /\ b.start % MAX_ALIGNMENT = 0
                      /\ b.start + b.size <= bytes_used

\* Two live blocks never share a byte: a macro, a token or a lexeme cannot be
\* overwritten by a later allocation.
BlocksDisjoint ==
    \A b, c \in blocks :
        b # c => b.start + b.size <= c.start \/ c.start + c.size <= b.start
=============================================================================
