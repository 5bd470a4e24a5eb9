----------------------------- MODULE MacroTable -----------------------------
(***************************************************************************)
(* The macro table of src/src/preprocessor.c: add_macro, remove_macro and  *)
(* macro_exists, over the hash table (hash_table.c) and the macro arena    *)
(* (memory.c), which is sized by MEMORY_ARENA_MAX_SIZE for the table and   *)
(* one macro per slot.  A macro is copied into the arena and never freed;  *)
(* the table holds its address and points at the name inside the copy.     *)
(***************************************************************************)
EXTENDS Integers, FiniteSets

CONSTANTS
    Keys,           \* macro names
    Bodies,         \* the rest of a macro: what macros_equal compares
    NULL,
    Capacity,       \* MAX_NUM_MACROS
    Hash,           \* as in HashTable
    TableSize,      \* sizeof(ht) + MAX_NUM_MACROS * sizeof(ht_entry)
    MacroSize       \* sizeof(macro)

\* The structures hold pointers: their sizes are multiples of the alignment.
ASSUME SizesAssumption ==
    /\ TableSize \in Nat \ {0} /\ TableSize % 8 = 0
    /\ MacroSize \in Nat \ {0} /\ MacroSize % 8 = 0

\* Faulty: one macro short.
ARENA_ONE_SHORT == TableSize + MacroSize * (Capacity - 1)

MEMORY_ARENA_MAX_SIZE == TableSize + MacroSize * Capacity

\* The addresses of macros in the arena.
Addresses == 0..(MEMORY_ARENA_MAX_SIZE - 1)

\* NULL is none of the things that have an address or a spelling.
ASSUME CapacityAssumption == Capacity \in Nat \ {0}
ASSUME HashAssumption     == Hash \in [Keys -> 0..(Capacity - 1)]
ASSUME NullAssumption     == NULL \notin Addresses \cup Keys \cup Bodies

VARIABLES
    \* the hash table and the call it runs
    status, entry_key, entry_value, length, pc, key, value, index,
    start_index, tombstone_index, tombstone_found, answer,
    \* the macro arena
    bytes_used, blocks, exited,
    macro_at,       \* the macro at an address: [name, body]
    job,            \* the operation in progress: "none", "define" (add_macro),
                    \* "undef" (remove_macro) or "exists" (macro_exists)
    body,           \* add_macro's new_macro, but for its name, which is key
    reported,       \* add_macro has reported "Duplicate macro"
    found           \* the body of the macro that macro_exists returned

Table == INSTANCE HashTable WITH Values <- Addresses
Mem == INSTANCE Arena WITH ArenaCapacity <- MEMORY_ARENA_MAX_SIZE,
                           Sizes <- {TableSize, MacroSize}

table_vars == <<status, entry_key, entry_value, length, pc, key, value, index,
                start_index, tombstone_index, tombstone_found, answer>>
arena_vars == <<bytes_used, blocks, exited>>
vars == <<table_vars, arena_vars, macro_at, job, body, reported, found>>

-----------------------------------------------------------------------------
\* process_preprocessing_tokens creates the arena and ht_alloc takes the
\* first block of it.
Init ==
    /\ Table!Init
    /\ value = 0
    /\ bytes_used = Mem!AlignedSize(TableSize)
    /\ blocks = {[start |-> 0, size |-> TableSize]}
    /\ exited = FALSE
    /\ macro_at = [a \in {} |-> NULL]
    /\ job = "none"
    /\ body \in Bodies
    /\ reported = FALSE
    /\ found = NULL

Idle == job = "none" /\ ~exited

Start(j, b) ==
    /\ Idle
    /\ job' = j
    /\ body' = b
    /\ reported' = FALSE
    /\ UNCHANGED <<arena_vars, macro_at, found>>

(* add_macro *)

AddMacro(n, b) ==
    /\ Start("define", b)
    /\ Table!GetCall(n)

\* Faulty: the new macro is copied before it is found to be a duplicate.
AddMacroKnownCopies ==
    /\ job = "define" /\ pc = "got" /\ ~exited
    /\ answer # NULL
    /\ Mem!Fits(MacroSize)
    /\ Mem!Allocate(MacroSize)
    /\ macro_at' = [a \in DOMAIN macro_at \cup {bytes_used} |->
                      IF a = bytes_used THEN [name |-> key, body |-> body] ELSE macro_at[a]]
    /\ reported' = (macro_at[answer].body # body)
    /\ job' = "none"
    /\ UNCHANGED <<table_vars, body, found>>

\* Faulty: a benign redefinition is reported as well.
AddMacroKnownReports ==
    /\ job = "define" /\ pc = "got" /\ ~exited
    /\ answer # NULL
    /\ reported' = TRUE
    /\ job' = "none"
    /\ UNCHANGED <<table_vars, arena_vars, macro_at, body, found>>

\* A macro of that name exists: it stays, and a different one is reported.
AddMacroKnown ==
    /\ job = "define" /\ pc = "got" /\ ~exited
    /\ answer # NULL
    /\ reported' = (macro_at[answer].body # body)
    /\ job' = "none"
    /\ UNCHANGED <<table_vars, arena_vars, macro_at, body, found>>

\* Faulty: the address is that of the end of the block.
AddMacroNewPastEnd ==
    /\ job = "define" /\ pc = "got" /\ ~exited
    /\ answer = NULL
    /\ Mem!Allocate(MacroSize)
    /\ macro_at' = [a \in DOMAIN macro_at \cup {bytes_used} |->
                      IF a = bytes_used THEN [name |-> key, body |-> body] ELSE macro_at[a]]
    /\ Table!AddCall(bytes_used')
    /\ UNCHANGED <<job, body, reported, found>>

\* allocate_from_arena, the copy of new_macro, and the call of ht_add.
AddMacroNew ==
    /\ job = "define" /\ pc = "got" /\ ~exited
    /\ answer = NULL
    /\ IF Mem!Fits(MacroSize)
       THEN /\ Mem!Allocate(MacroSize)
            /\ macro_at' = [a \in DOMAIN macro_at \cup {bytes_used} |->
                              IF a = bytes_used THEN [name |-> key, body |-> body]
                              ELSE macro_at[a]]
            /\ Table!AddCall(bytes_used)
       ELSE /\ Mem!OutOfMemory(MacroSize)
            /\ UNCHANGED <<table_vars, macro_at>>
    /\ UNCHANGED <<job, body, reported, found>>

(* remove_macro *)

RemoveMacro(n) ==
    /\ Start("undef", body)
    /\ Table!RemoveCall(n)

(* macro_exists, for a token that is an identifier *)

MacroExists(n) ==
    /\ Start("exists", body)
    /\ Table!GetCall(n)

\* Faulty: the name is taken for the replacement list.
MacroExistsReturnsName ==
    /\ job = "exists" /\ pc = "got"
    /\ found' = IF answer = NULL THEN NULL ELSE macro_at[answer].name
    /\ job' = "none"
    /\ UNCHANGED <<table_vars, arena_vars, macro_at, body, reported>>

MacroExistsReturns ==
    /\ job = "exists" /\ pc = "got"
    /\ found' = IF answer = NULL THEN NULL ELSE macro_at[answer].body
    /\ job' = "none"
    /\ UNCHANGED <<table_vars, arena_vars, macro_at, body, reported>>

\* The hash table runs the call it was given; ht_add and ht_remove end the
\* operation that made the call.
TableWorks ==
    /\ Table!Work
    /\ job' = IF pc' = "idle" THEN "none" ELSE job
    /\ UNCHANGED <<arena_vars, macro_at, body, reported, found>>

Next ==
    \/ \E n \in Keys, b \in Bodies : AddMacro(n, b)
    \/ \E n \in Keys : RemoveMacro(n) \/ MacroExists(n)
    \/ AddMacroKnown \/ AddMacroNew \/ MacroExistsReturns
    \/ TableWorks

Spec == Init /\ [][Next]_vars

-----------------------------------------------------------------------------
TypeOK ==
    /\ Table!TypeOK
    /\ Mem!TypeOK
    /\ DOMAIN macro_at \subseteq Addresses
    /\ \A a \in DOMAIN macro_at : macro_at[a] \in [name : Keys, body : Bodies]
    /\ job \in {"none", "define", "undef", "exists"}
    /\ body \in Bodies
    /\ reported \in BOOLEAN
    /\ found \in Bodies \cup {NULL}

\* The arena is never exhausted, although #undef gives nothing back to it: a
\* new macro is allocated only after a get found an EMPTY slot, each one
\* spends an EMPTY slot for good, and the arena has room for one per slot.
NeverOutOfMemory == ~exited

\* The table points into live blocks: an entry's value is the address of a
\* macro that was allocated and whose name is the entry's key, two entries
\* never share one, and the copy lies in a block of its own.
EntriesPointAtMacros ==
    \A s \in Table!Occupied :
        LET a == entry_value[s]
        IN  /\ a \in DOMAIN macro_at
            /\ macro_at[a].name = entry_key[s]
            /\ [start |-> a, size |-> MacroSize] \in blocks
            /\ \A t \in Table!Occupied : entry_value[t] = a => t = s

\* Each macro ever added has used up one slot (or is about to): this is what
\* keeps the arena from running out before the table does.
OneSlotPerMacro ==
    Cardinality(DOMAIN macro_at) =
        Cardinality({s \in Table!Slots : status[s] # "EMPTY"})
            + (IF pc = "add" THEN 1 ELSE 0)

\* #define, #undef and lookups act on the table as on a map from names to
\* definitions: the first definition stands, a different one is reported and
\* an equal one is not, and after #undef the name is free again.
Env == INSTANCE MacroEnvironment
    WITH Names <- Keys,
         name <- key,
         env <- [n \in Keys |-> IF Table!Contents[n] = NULL THEN NULL
                                ELSE macro_at[Table!Contents[n]].body]
ImplementsEnvironment == Env!Spec
=============================================================================
