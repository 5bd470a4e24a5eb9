-------------------------- MODULE MacroTable_proofs --------------------------
(***************************************************************************)
(* Proofs about the macro table, from those about its parts: the hash      *)
(* table and the arena keep their own invariants, because every step of    *)
(* the macro table is a step of each of them or leaves it alone.           *)
(***************************************************************************)
EXTENDS MacroTable, FiniteSetTheorems, TLAPS

\* The same instances, with the theorems about them.
TableP == INSTANCE HashTable_proofs WITH Values <- Addresses
MemP == INSTANCE Arena_proofs WITH ArenaCapacity <- MEMORY_ARENA_MAX_SIZE,
                                   Sizes <- {TableSize, MacroSize}

-----------------------------------------------------------------------------
(* What the constants say, and that the two instances are one *)

LEMMA ArenaSize ==
    /\ MEMORY_ARENA_MAX_SIZE \in Nat
    /\ TableSize <= MEMORY_ARENA_MAX_SIZE
    /\ 0 \in Addresses
    /\ \A n \in Nat : n < Capacity =>
          TableSize + MacroSize * n + MacroSize <= MEMORY_ARENA_MAX_SIZE
  <1>1. MacroSize * Capacity \in Nat /\ TableSize \in Nat \ {0} /\ MacroSize \in Nat
    BY SizesAssumption, CapacityAssumption
  <1>2. MEMORY_ARENA_MAX_SIZE = TableSize + MacroSize * Capacity
    BY DEF MEMORY_ARENA_MAX_SIZE
  <1>3. ASSUME NEW n \in Nat, n < Capacity
        PROVE  MacroSize * n + MacroSize <= MacroSize * Capacity
    <2>1. MacroSize * (n + 1) <= MacroSize * Capacity
      BY <1>1, <1>3, CapacityAssumption
    <2> QED BY <1>1, <2>1
  <1>4. ASSUME NEW n \in Nat, n < Capacity
        PROVE  TableSize + MacroSize * n + MacroSize <= MEMORY_ARENA_MAX_SIZE
    <2>1. MacroSize * n \in Nat
      BY <1>1
    <2> QED BY <1>1, <1>2, <1>3, <1>4, <2>1
  <1> QED BY <1>1, <1>2, <1>4 DEF Addresses

LEMMA TableAssumptions ==
    /\ Capacity \in Nat \ {0}
    /\ Hash \in [Keys -> TableP!Slots]
    /\ NULL \notin Addresses /\ NULL \notin Keys
  BY CapacityAssumption, HashAssumption, NullAssumption DEF TableP!Slots

LEMMA ArenaAssumptions ==
    MEMORY_ARENA_MAX_SIZE \in Nat /\ {TableSize, MacroSize} \subseteq Nat \ {0}
  BY ArenaSize, SizesAssumption

\* A structure's size is a multiple of the alignment: it needs no padding.
LEMMA NoPadding ==
    /\ Mem!AlignedSize(TableSize) = TableSize
    /\ MemP!AlignedSize(TableSize) = TableSize
    /\ MemP!AlignedSize(MacroSize) = MacroSize
  <1>1. ASSUME NEW n \in Nat, n % 8 = 0
        PROVE  n + ((-n) % 8) = n
    BY <1>1
  <1> QED
    BY <1>1, SizesAssumption DEF Mem!AlignedSize, Mem!MAX_ALIGNMENT,
                                 MemP!AlignedSize, MemP!MAX_ALIGNMENT

LEMMA SameTable ==
    /\ Table!Slots = TableP!Slots
    /\ Table!Occupied = TableP!Occupied /\ Table!Occupied' = TableP!Occupied'
    /\ Table!Contents = TableP!Contents /\ Table!Contents' = TableP!Contents'
    /\ Table!TypeOK <=> TableP!TypeOK
    /\ Table!Init <=> TableP!Init
    /\ Table!Work <=> TableP!Work
    /\ \A k \in Keys : /\ Table!GetCall(k) <=> TableP!GetCall(k)
                       /\ Table!RemoveCall(k) <=> TableP!RemoveCall(k)
    /\ \A v \in Addresses : Table!AddCall(v) <=> TableP!AddCall(v)
  <1>1. Table!Slots = TableP!Slots
    BY DEF Table!Slots, TableP!Slots
  <1>2. Table!Occupied = TableP!Occupied /\ Table!Occupied' = TableP!Occupied'
    BY <1>1 DEF Table!Occupied, TableP!Occupied
  <1>3. Table!Contents = TableP!Contents /\ Table!Contents' = TableP!Contents'
    BY Zenon, <1>1 DEF Table!Contents, TableP!Contents, Table!Holds, TableP!Holds
  <1>4. Table!TypeOK <=> TableP!TypeOK
    BY <1>1 DEF Table!TypeOK, TableP!TypeOK, Table!Statuses, TableP!Statuses
  <1>5. Table!Init <=> TableP!Init
    BY <1>1 DEF Table!Init, TableP!Init
  <1>6. /\ \A k \in Keys : /\ Table!GetCall(k) <=> TableP!GetCall(k)
                           /\ Table!RemoveCall(k) <=> TableP!RemoveCall(k)
        /\ \A v \in Addresses : Table!AddCall(v) <=> TableP!AddCall(v)
    BY DEF Table!GetCall, TableP!GetCall, Table!RemoveCall, TableP!RemoveCall,
           Table!AddCall, TableP!AddCall, Table!Ready, TableP!Ready,
           Table!table, TableP!table, Table!locals, TableP!locals
  <1>7. Table!Work <=> TableP!Work
    BY DEF Table!Work, TableP!Work, Table!GetStep, TableP!GetStep,
           Table!GetHit, TableP!GetHit, Table!GetMiss, TableP!GetMiss,
           Table!AddStep, TableP!AddStep, Table!AddStore, TableP!AddStore,
           Table!RemoveStep, TableP!RemoveStep, Table!RemoveStop, TableP!RemoveStop,
           Table!AddSlot, TableP!AddSlot, Table!NextSlot, TableP!NextSlot,
           Table!Holds, TableP!Holds, Table!table, TableP!table,
           Table!locals, TableP!locals
  <1> QED BY <1>1, <1>2, <1>3, <1>4, <1>5, <1>6, <1>7

LEMMA SameArena ==
    /\ Mem!TypeOK <=> MemP!TypeOK
    /\ Mem!Fits(MacroSize) <=> MemP!Fits(MacroSize)
    /\ Mem!Allocate(MacroSize) <=> MemP!Allocate(MacroSize)
    /\ Mem!OutOfMemory(MacroSize) <=> MemP!OutOfMemory(MacroSize)
  BY DEF Mem!TypeOK, MemP!TypeOK, Mem!Fits, MemP!Fits, Mem!Allocate, MemP!Allocate,
         Mem!OutOfMemory, MemP!OutOfMemory, Mem!AlignedSize, MemP!AlignedSize,
         Mem!MAX_ALIGNMENT, MemP!MAX_ALIGNMENT

-----------------------------------------------------------------------------
(* The inductive invariant *)

\* The arena holds the table and the macros, one after the other, and the macros
\* are where macro_at says.
Memory ==
    /\ IsFiniteSet(DOMAIN macro_at)
    /\ \A a \in DOMAIN macro_at :
          /\ macro_at[a] \in [name : Keys, body : Bodies]
          /\ [start |-> a, size |-> MacroSize] \in blocks
    /\ bytes_used = TableSize + MacroSize * Cardinality(DOMAIN macro_at)

\* Which call the hash table can be in during which operation.
Control ==
    /\ job \in {"none", "define", "undef", "exists"}
    /\ job = "none" => pc \in {"idle", "got"}
    /\ job = "undef" <=> pc = "remove"
    /\ job = "define" => pc \in {"get", "got", "add"}
    /\ job = "exists" => pc \in {"get", "got"}
    /\ job # "none" => reported = FALSE
    /\ body \in Bodies
    /\ reported \in BOOLEAN
    /\ found \in Bodies \cup {NULL}

\* The macro that ht_add is about to enter is in the arena, and nowhere in the
\* table.
Pending ==
    pc = "add" =>
        /\ value \in DOMAIN macro_at
        /\ macro_at[value] = [name |-> key, body |-> body]
        /\ \A s \in TableP!Occupied : entry_value[s] # value

\* The answer of a get stays true until the next call.
Answered == pc = "got" => answer = TableP!Contents[key]

IInv ==
    /\ TableP!IInv
    /\ MemP!IInv
    /\ Memory
    /\ Control
    /\ Pending
    /\ Answered
    /\ OneSlotPerMacro
    /\ EntriesPointAtMacros
    /\ NeverOutOfMemory

-----------------------------------------------------------------------------
(* The steps of the parts *)

LEMMA TableFacts ==
    ASSUME TableP!IInv
    PROVE  /\ status \in [TableP!Slots -> {"EMPTY", "TOMBSTONE", "OCCUPIED"}]
           /\ entry_key \in [TableP!Slots -> Keys \cup {NULL}]
           /\ entry_value \in [TableP!Slots -> Addresses \cup {NULL}]
           /\ pc \in {"idle", "got", "get", "add", "remove"}
           /\ key \in Keys /\ value \in Addresses /\ index \in TableP!Slots
           /\ pc = "got" /\ answer = NULL => status[index] = "EMPTY"
           /\ pc = "add" => ~tombstone_found
  BY DEF TableP!IInv, TableP!TypeOK, TableP!Statuses, TableP!NeverAborts,
         TableP!ProbeKnowledge

LEMMA TableKeeps == TableP!IInv /\ [TableP!Next]_(TableP!vars) => TableP!IInv'
  BY TableAssumptions, TableP!NextKeeps, Zenon

LEMMA ArenaKeeps == MemP!IInv /\ [MemP!Next]_(MemP!arena_vars) => MemP!IInv'
  BY ArenaAssumptions, MemP!NextKeeps, Zenon

\* A get that answered NULL has seen an EMPTY slot: there are fewer macros than
\* slots.
LEMMA RoomForMacro ==
    ASSUME IInv, pc = "got", answer = NULL
    PROVE  /\ Cardinality(DOMAIN macro_at) \in Nat
           /\ Cardinality(DOMAIN macro_at) < Capacity
           /\ MemP!Fits(MacroSize)
           /\ bytes_used \in Addresses
  <1> DEFINE Used == {s \in TableP!Slots : status[s] # "EMPTY"}
             n == Cardinality(DOMAIN macro_at)
  <1>1. index \in TableP!Slots /\ status[index] = "EMPTY"
    BY TableFacts DEF IInv
  <1>2. IsFiniteSet(TableP!Slots) /\ Cardinality(TableP!Slots) = Capacity
    BY FS_Interval, CapacityAssumption DEF TableP!Slots
  <1>3. /\ IsFiniteSet(TableP!Slots \ {index})
        /\ Cardinality(TableP!Slots \ {index}) = Capacity - 1
    BY <1>1, <1>2, FS_RemoveElement
  <1>4. Used \subseteq TableP!Slots \ {index}
    BY <1>1
  <1>5. Cardinality(Used) <= Capacity - 1 /\ IsFiniteSet(Used)
    BY <1>3, <1>4, FS_Subset
  <1>6. Cardinality(Used) \in Nat
    BY <1>5, FS_CardinalityType
  <1>7. n = Cardinality(Used)
    BY SameTable, <1>6 DEF IInv, OneSlotPerMacro
  <1>8. n \in Nat /\ n < Capacity
    BY <1>5, <1>6, <1>7, CapacityAssumption
  <1>9. TableSize + MacroSize * n + MacroSize <= MEMORY_ARENA_MAX_SIZE
    BY <1>8, ArenaSize
  <1>10. bytes_used = TableSize + MacroSize * n /\ bytes_used \in Nat
    BY DEF IInv, Memory, MemP!IInv, MemP!TypeOK
  <1>11. bytes_used + MacroSize <= MEMORY_ARENA_MAX_SIZE
    BY <1>9, <1>10
  <1> QED
    BY <1>8, <1>10, <1>11, NoPadding, SizesAssumption, ArenaSize
    DEF MemP!Fits, Addresses

LEMMA UsedSlots ==
    ASSUME NEW st
    PROVE  /\ IsFiniteSet({s \in Table!Slots : st[s] # "EMPTY"})
           /\ Cardinality({s \in Table!Slots : st[s] # "EMPTY"}) \in Nat
  <1>1. IsFiniteSet(Table!Slots)
    BY FS_Interval, CapacityAssumption DEF Table!Slots
  <1> QED BY <1>1, FS_Subset, FS_CardinalityType

LEMMA NextOfTable ==
    ASSUME IInv, [Next]_vars
    PROVE  [TableP!Next]_(TableP!vars)
  <1> USE DEF TableP!Next, TableP!Calls
  <1>1. CASE \E n \in Keys, b \in Bodies : AddMacro(n, b)
    BY <1>1, SameTable DEF AddMacro
  <1>2. CASE \E n \in Keys : RemoveMacro(n) \/ MacroExists(n)
    BY <1>2, SameTable DEF RemoveMacro, MacroExists
  <1>3. CASE AddMacroNew
    <2>1. Table!AddCall(bytes_used) /\ bytes_used \in Addresses
      BY <1>3, RoomForMacro, SameArena DEF AddMacroNew
    <2> QED BY <2>1, SameTable
  <1>4. CASE TableWorks
    BY <1>4, SameTable DEF TableWorks
  <1>5. CASE AddMacroKnown \/ MacroExistsReturns \/ UNCHANGED vars
    BY <1>5 DEF AddMacroKnown, MacroExistsReturns, vars, table_vars, TableP!vars,
                TableP!table, TableP!locals
  <1> QED BY <1>1, <1>2, <1>3, <1>4, <1>5 DEF Next

LEMMA NextOfArena ==
    ASSUME IInv, [Next]_vars
    PROVE  [MemP!Next]_(MemP!arena_vars)
  <1>1. CASE AddMacroNew
    BY <1>1, SameArena, RoomForMacro DEF AddMacroNew, MemP!Next
  <1>2. CASE ~AddMacroNew
    BY <1>2 DEF Next, AddMacro, RemoveMacro, MacroExists, Start, AddMacroKnown,
                MacroExistsReturns, TableWorks, vars, arena_vars, MemP!arena_vars
  <1> QED BY <1>1, <1>2

-----------------------------------------------------------------------------
(* The initial states *)

LEMMA InitEstablishes == Init => IInv
  <1> SUFFICES ASSUME Init PROVE IInv
    OBVIOUS
  <1>1. TableP!IInv
    <2>1. TableP!Init
      BY SameTable DEF Init
    <2> QED BY <2>1, TableAssumptions, TableP!InitEstablishes, Zenon
  <1>2. bytes_used = TableSize /\ blocks = {[start |-> 0, size |-> TableSize]}
    BY NoPadding DEF Init
  <1>3. DOMAIN macro_at = {} /\ Cardinality(DOMAIN macro_at) = 0
    BY FS_EmptySet DEF Init
  <1>4. MemP!IInv
    <2>1. exited \in BOOLEAN
      BY Zenon DEF Init
    <2>2. MemP!TypeOK
      BY <1>2, <2>1, ArenaSize, SizesAssumption DEF MemP!TypeOK
    <2>3. bytes_used % MemP!MAX_ALIGNMENT = 0
      BY <1>2, SizesAssumption DEF MemP!MAX_ALIGNMENT
    <2>4. MemP!BlocksInBounds /\ MemP!BlocksDisjoint
      BY <1>2, SizesAssumption
      DEF MemP!BlocksInBounds, MemP!BlocksDisjoint, MemP!MAX_ALIGNMENT
    <2> QED BY <2>2, <2>3, <2>4 DEF MemP!IInv
  <1>5. Memory
    <2>1. TableSize \in Int /\ MacroSize \in Int
      BY SizesAssumption
    <2>2. TableSize + MacroSize * 0 = TableSize
      BY <2>1
    <2>3. bytes_used = TableSize + MacroSize * Cardinality(DOMAIN macro_at)
      BY <1>2, <1>3, <2>2
    <2>4. IsFiniteSet(DOMAIN macro_at)
      BY <1>3, FS_EmptySet
    <2> QED BY <1>3, <2>3, <2>4 DEF Memory
  <1>6. status = [s \in Table!Slots |-> "EMPTY"] /\ pc = "idle"
    BY DEF Init, Table!Init
  <1>7. OneSlotPerMacro
    <2>1. {s \in Table!Slots : status[s] # "EMPTY"} = {}
      BY <1>6
    <2> QED BY <1>3, <1>6, <2>1, FS_EmptySet DEF OneSlotPerMacro
  <1>8. EntriesPointAtMacros
    BY <1>6 DEF EntriesPointAtMacros, Table!Occupied
  <1>9. Control /\ Pending /\ Answered
    BY <1>6 DEF Init, Control, Pending, Answered
  <1>10. NeverOutOfMemory
    BY Zenon DEF Init, NeverOutOfMemory
  <1> QED BY <1>1, <1>4, <1>5, <1>7, <1>8, <1>9, <1>10 DEF IInv

-----------------------------------------------------------------------------
(* Every step keeps the invariant *)

\* A step that leaves the arena, the macros and the entries of the table alone.
LEMMA EntriesUntouched ==
    ASSUME IInv, pc # "add", pc' # "add",
           UNCHANGED <<arena_vars, macro_at, status, entry_key, entry_value>>
    PROVE  Memory' /\ Pending' /\ OneSlotPerMacro' /\ EntriesPointAtMacros'
           /\ NeverOutOfMemory'
  <1>1. Memory' /\ Pending' /\ NeverOutOfMemory'
    BY DEF IInv, Memory, Pending, NeverOutOfMemory, arena_vars
  <1>2. OneSlotPerMacro'
    BY DEF IInv, OneSlotPerMacro
  <1>3. EntriesPointAtMacros'
    BY DEF IInv, EntriesPointAtMacros, Table!Occupied, arena_vars
  <1> QED BY <1>1, <1>2, <1>3

LEMMA StartKeeps ==
    ASSUME IInv, TableP!IInv', MemP!IInv', NEW n \in Keys, NEW b \in Bodies,
           AddMacro(n, b) \/ RemoveMacro(n) \/ MacroExists(n)
    PROVE  IInv'
  <1>1. /\ pc \in {"idle", "got"} /\ pc' \in {"get", "remove"} /\ job = "none"
        /\ pc' = "remove" <=> job' = "undef"
        /\ job' \in {"define", "undef", "exists"}
        /\ body' \in Bodies /\ reported' = FALSE
        /\ UNCHANGED <<arena_vars, macro_at, status, entry_key, entry_value, found>>
    BY DEF AddMacro, RemoveMacro, MacroExists, Start, Idle, Table!GetCall,
           Table!RemoveCall, Table!Ready, Table!table, IInv, Control
  <1>2. Memory' /\ Pending' /\ OneSlotPerMacro' /\ EntriesPointAtMacros' /\ NeverOutOfMemory'
    BY <1>1, EntriesUntouched
  <1>3. Control' /\ Answered'
    BY <1>1 DEF IInv, Control, Answered
  <1> QED BY <1>2, <1>3 DEF IInv

\* What the table answers is the address of a macro.
LEMMA ContentsAreMacros ==
    ASSUME IInv, NEW k \in Keys, TableP!Contents[k] # NULL
    PROVE  /\ TableP!Contents[k] \in DOMAIN macro_at
           /\ macro_at[TableP!Contents[k]].body \in Bodies
  <1>1. PICK s \in TableP!Slots : TableP!Holds(s, k) /\ TableP!Contents[k] = entry_value[s]
    BY Zenon DEF TableP!Contents
  <1>2. entry_value[s] \in DOMAIN macro_at
    BY <1>1, SameTable DEF TableP!Holds, Table!Occupied, IInv, EntriesPointAtMacros
  <1> QED BY <1>1, <1>2 DEF IInv, Memory

LEMMA ReturnKeeps ==
    ASSUME IInv, TableP!IInv', MemP!IInv', AddMacroKnown \/ MacroExistsReturns
    PROVE  IInv'
  <1>1. /\ pc = "got" /\ pc' = "got" /\ job' = "none"
        /\ UNCHANGED <<table_vars, arena_vars, macro_at, body>>
    BY DEF AddMacroKnown, MacroExistsReturns, table_vars
  <1>2. Memory' /\ Pending' /\ OneSlotPerMacro' /\ EntriesPointAtMacros' /\ NeverOutOfMemory'
    BY <1>1, EntriesUntouched DEF table_vars
  <1>3. TableP!Contents' = TableP!Contents
    BY <1>1 DEF table_vars, TableP!Contents, TableP!Holds
  <1>4. Answered'
    BY <1>1, <1>3 DEF IInv, Answered, table_vars
  <1>5. answer # NULL => macro_at[answer].body \in Bodies
    BY <1>1, ContentsAreMacros, TableFacts DEF IInv, Answered
  <1>6. Control'
    <2>1. reported' \in BOOLEAN
      BY DEF AddMacroKnown, MacroExistsReturns, IInv, Control
    <2>2. found' \in Bodies \cup {NULL}
      BY <1>5 DEF AddMacroKnown, MacroExistsReturns, IInv, Control
    <2> QED BY <1>1, <2>1, <2>2 DEF IInv, Control, table_vars
  <1> QED BY <1>2, <1>4, <1>6 DEF IInv

\* A new macro gets a block of its own, and no entry moves.
LEMMA AddMacroNewKeeps ==
    ASSUME IInv, TableP!IInv', MemP!IInv', AddMacroNew
    PROVE  IInv'
  <1> DEFINE new == [name |-> key, body |-> body]
             n == Cardinality(DOMAIN macro_at)
  <1>1. /\ job = "define" /\ pc = "got" /\ answer = NULL
        /\ bytes_used \in Addresses /\ n \in Nat
        /\ Mem!Fits(MacroSize)
    BY RoomForMacro, SameArena DEF AddMacroNew
  <1>2. /\ MemP!Allocate(MacroSize) /\ TableP!AddCall(bytes_used)
        /\ DOMAIN macro_at' = DOMAIN macro_at \cup {bytes_used}
        /\ \A a \in DOMAIN macro_at' :
              macro_at'[a] = IF a = bytes_used THEN new ELSE macro_at[a]
        /\ UNCHANGED <<job, body, reported, found>>
    BY <1>1, SameArena, SameTable DEF AddMacroNew
  <1>3. /\ bytes_used' = bytes_used + MacroSize
        /\ blocks' = blocks \cup {[start |-> bytes_used, size |-> MacroSize]}
        /\ UNCHANGED exited
    BY <1>2, NoPadding DEF MemP!Allocate
  <1>4. /\ pc' = "add" /\ value' = bytes_used
        /\ UNCHANGED <<status, entry_key, entry_value, key>>
    BY <1>2 DEF TableP!AddCall, TableP!table, TableP!IInv, TableP!NeverAborts
  <1>5. key \in Keys /\ body \in Bodies
    BY TableFacts DEF IInv, Control
  <1>6. bytes_used \notin DOMAIN macro_at
    <2> SUFFICES ASSUME bytes_used \in DOMAIN macro_at PROVE FALSE
      OBVIOUS
    <2>1. [start |-> bytes_used, size |-> MacroSize] \in blocks /\ bytes_used \in Nat
      BY DEF IInv, Memory, MemP!IInv, MemP!TypeOK
    <2>2. bytes_used + MacroSize <= bytes_used
      BY <2>1 DEF IInv, MemP!IInv, MemP!BlocksInBounds
    <2> QED BY <2>1, <2>2, SizesAssumption
  <1>7. /\ IsFiniteSet(DOMAIN macro_at')
        /\ Cardinality(DOMAIN macro_at') = n + 1
    BY <1>2, <1>6, FS_AddElement DEF IInv, Memory
  <1>8. Memory'
    <2>1. TableSize + MacroSize * n + MacroSize = TableSize + MacroSize * (n + 1)
      BY <1>1, SizesAssumption
    <2>2. bytes_used' = TableSize + MacroSize * Cardinality(DOMAIN macro_at')
      BY <1>3, <1>7, <2>1 DEF IInv, Memory
    <2>3. \A a \in DOMAIN macro_at' :
             /\ macro_at'[a] \in [name : Keys, body : Bodies]
             /\ [start |-> a, size |-> MacroSize] \in blocks'
      BY <1>2, <1>3, <1>5 DEF IInv, Memory
    <2> QED BY <1>7, <2>2, <2>3 DEF Memory
  <1>9. Control'
    BY <1>1, <1>2, <1>4 DEF IInv, Control
  <1>10. TableP!Occupied' = TableP!Occupied /\ Table!Occupied' = Table!Occupied
    BY <1>4, SameTable DEF TableP!Occupied
  <1>11. \A s \in Table!Occupied : entry_value[s] \in DOMAIN macro_at
    BY DEF IInv, EntriesPointAtMacros
  <1>12. Pending' /\ Answered'
    BY <1>2, <1>4, <1>6, <1>10, <1>11, SameTable DEF Pending, Answered
  <1>13. OneSlotPerMacro'
    <2> DEFINE Used == {s \in Table!Slots : status[s] # "EMPTY"}
    <2>1. {s \in Table!Slots : status'[s] # "EMPTY"} = Used
      BY <1>4
    <2>2. Cardinality(Used) \in Nat
      BY UsedSlots
    <2>3. n = Cardinality(Used) + 0
      BY <1>1 DEF IInv, OneSlotPerMacro
    <2> HIDE DEF Used
    <2> QED BY <1>4, <1>7, <2>1, <2>2, <2>3 DEF OneSlotPerMacro
  <1>14. EntriesPointAtMacros'
    BY <1>2, <1>3, <1>4, <1>6, <1>10, <1>11 DEF IInv, EntriesPointAtMacros
  <1>15. NeverOutOfMemory'
    BY <1>3 DEF IInv, NeverOutOfMemory
  <1> QED BY <1>8, <1>9, <1>12, <1>13, <1>14, <1>15 DEF IInv

\* ht_add enters the macro that is pending.
LEMMA AddStoreKeeps ==
    ASSUME IInv, TableP!IInv', MemP!IInv', TableWorks, TableP!AddStore
    PROVE  IInv'
  <1> DEFINE Used == {s \in Table!Slots : status[s] # "EMPTY"}
  <1>1. /\ pc = "add" /\ pc' = "idle" /\ job' = "none"
        /\ status[index] = "EMPTY" /\ index \in TableP!Slots
        /\ UNCHANGED <<arena_vars, macro_at, body, reported, found, key, value>>
    BY TableFacts DEF TableP!AddStore, TableWorks, IInv
  <1>2. /\ status' = [status EXCEPT ![index] = "OCCUPIED"]
        /\ entry_key' = [entry_key EXCEPT ![index] = key]
        /\ entry_value' = [entry_value EXCEPT ![index] = value]
    BY <1>1, TableFacts DEF TableP!AddStore, TableP!AddSlot, IInv
  <1>3. Memory' /\ Pending' /\ Answered' /\ NeverOutOfMemory'
    BY <1>1 DEF IInv, Memory, Pending, Answered, NeverOutOfMemory, arena_vars
  <1>4. Control'
    BY <1>1 DEF IInv, Control
  <1>5. OneSlotPerMacro'
    <2>1. {s \in Table!Slots : status'[s] # "EMPTY"} = Used \cup {index}
      BY <1>1, <1>2, TableFacts, SameTable DEF IInv
    <2>2. index \notin Used /\ IsFiniteSet(Used) /\ Cardinality(Used) \in Nat
      BY <1>1, UsedSlots
    <2>3. Cardinality(Used \cup {index}) = Cardinality(Used) + 1
      BY <2>2, FS_AddElement
    <2>4. Cardinality(DOMAIN macro_at) = Cardinality(Used) + 1
      BY <1>1 DEF IInv, OneSlotPerMacro
    <2>5. DOMAIN macro_at' = DOMAIN macro_at
      BY <1>1
    <2>6. Cardinality({s \in Table!Slots : status'[s] # "EMPTY"}) = Cardinality(Used) + 1
      BY <2>1, <2>3
    <2> HIDE DEF Used
    <2> QED BY <1>1, <2>2, <2>4, <2>5, <2>6 DEF OneSlotPerMacro
  <1>6. EntriesPointAtMacros'
    <2>1. Table!Occupied' = Table!Occupied \cup {index} /\ index \notin Table!Occupied
      BY <1>1, <1>2, TableFacts, SameTable DEF IInv, TableP!Occupied
    <2>2. Table!Occupied \subseteq TableP!Slots
      BY SameTable DEF TableP!Occupied
    <2>3. \A s \in TableP!Slots :
             /\ entry_key'[s] = IF s = index THEN key ELSE entry_key[s]
             /\ entry_value'[s] = IF s = index THEN value ELSE entry_value[s]
      BY <1>2, TableFacts DEF IInv
    <2>4. /\ value \in DOMAIN macro_at /\ macro_at[value].name = key
          /\ [start |-> value, size |-> MacroSize] \in blocks
          /\ \A s \in Table!Occupied : entry_value[s] # value
      BY <1>1, SameTable DEF IInv, Pending, Memory
    <2>5. macro_at' = macro_at /\ blocks' = blocks
      BY <1>1 DEF arena_vars
    <2> QED BY <1>1, <2>1, <2>2, <2>3, <2>4, <2>5 DEF IInv, EntriesPointAtMacros
  <1> QED BY <1>3, <1>4, <1>5, <1>6 DEF IInv

\* ht_remove makes tombstones of entries, and the macros stay where they are.
LEMMA RemoveStepKeeps ==
    ASSUME IInv, TableP!IInv', MemP!IInv', TableWorks, TableP!RemoveStep
    PROVE  IInv'
  <1>1. /\ pc = "remove" /\ pc' \in {"idle", "remove"}
        /\ job' = IF pc' = "idle" THEN "none" ELSE job
        /\ status[index] # "EMPTY" /\ index \in TableP!Slots
        /\ status' \in {status, [status EXCEPT ![index] = "TOMBSTONE"]}
        /\ UNCHANGED <<arena_vars, macro_at, body, reported, found>>
        /\ UNCHANGED <<entry_key, entry_value, key, value>>
    BY TableFacts DEF TableP!RemoveStep, TableWorks, IInv
  <1>2. Memory' /\ Pending' /\ Answered' /\ NeverOutOfMemory'
    BY <1>1 DEF IInv, Memory, Pending, Answered, NeverOutOfMemory, arena_vars
  <1>3. Control'
    BY <1>1 DEF IInv, Control
  <1>4. \A s \in Table!Slots : status'[s] # "EMPTY" <=> status[s] # "EMPTY"
    BY <1>1, TableFacts, SameTable DEF IInv
  <1>5. OneSlotPerMacro'
    <2>1. {s \in Table!Slots : status'[s] # "EMPTY"} = {s \in Table!Slots : status[s] # "EMPTY"}
      BY <1>4
    <2> QED BY <1>1, <2>1 DEF IInv, OneSlotPerMacro
  <1>6. EntriesPointAtMacros'
    <2>1. Table!Occupied' \subseteq Table!Occupied
      BY <1>1, TableFacts, SameTable DEF IInv, TableP!Occupied
    <2> QED BY <1>1, <2>1 DEF IInv, EntriesPointAtMacros, arena_vars
  <1> QED BY <1>2, <1>3, <1>5, <1>6 DEF IInv

LEMMA ProbeKeeps ==
    ASSUME IInv, TableP!IInv', MemP!IInv', TableWorks,
           \/ TableP!GetStep \/ TableP!GetHit \/ TableP!GetMiss
           \/ TableP!AddStep \/ TableP!RemoveStop
    PROVE  IInv'
  <1>1. /\ UNCHANGED <<arena_vars, macro_at, body, reported, found>>
        /\ UNCHANGED <<status, entry_key, entry_value, key, value>>
        /\ job' = IF pc' = "idle" THEN "none" ELSE job
        /\ \/ pc = "get" /\ pc' \in {"get", "got"}
           \/ pc = "add" /\ pc' = "add"
           \/ pc = "remove" /\ pc' = "idle"
    BY DEF TableWorks, TableP!GetStep, TableP!GetHit, TableP!GetMiss, TableP!AddStep,
           TableP!RemoveStop, TableP!table
  <1>2. Memory' /\ Pending' /\ NeverOutOfMemory'
    BY <1>1 DEF IInv, Memory, Pending, NeverOutOfMemory, arena_vars, TableP!Occupied
  <1>3. Control'
    BY <1>1 DEF IInv, Control
  <1>4. OneSlotPerMacro'
    BY <1>1 DEF IInv, OneSlotPerMacro
  <1>5. EntriesPointAtMacros'
    BY <1>1 DEF IInv, EntriesPointAtMacros, Table!Occupied, arena_vars
  <1>6. Answered'
    <2>1. CASE TableP!GetHit \/ TableP!GetMiss
      <3>1. TableP!Dict!AnswerGet
        BY <2>1, TableAssumptions, TableP!GetRefines DEF IInv
      <3>2. answer' = TableP!Contents[key]
        BY <3>1 DEF TableP!Dict!AnswerGet
      <3>3. TableP!Contents' = TableP!Contents
        BY <1>1 DEF TableP!Contents, TableP!Holds
      <3> QED BY <1>1, <3>2, <3>3 DEF Answered
    <2>2. CASE pc' # "got"
      BY <2>2 DEF Answered
    <2> QED
      BY <2>1, <2>2 DEF TableP!GetStep, TableP!AddStep, TableP!RemoveStop
  <1> QED BY <1>2, <1>3, <1>4, <1>5, <1>6 DEF IInv

LEMMA NextKeeps == IInv /\ [Next]_vars => IInv'
  <1> SUFFICES ASSUME IInv, [Next]_vars PROVE IInv'
    OBVIOUS
  <1>1. TableP!IInv'
    BY NextOfTable, TableKeeps DEF IInv
  <1>2. MemP!IInv'
    BY NextOfArena, ArenaKeeps DEF IInv
  <1>3. CASE \E n \in Keys, b \in Bodies : AddMacro(n, b)
    BY <1>1, <1>2, <1>3, StartKeeps
  <1>4. CASE \E n \in Keys : RemoveMacro(n) \/ MacroExists(n)
    <2>1. body \in Bodies
      BY DEF IInv, Control
    <2> QED BY <1>1, <1>2, <1>4, <2>1, StartKeeps
  <1>5. CASE AddMacroKnown \/ MacroExistsReturns
    BY <1>1, <1>2, <1>5, ReturnKeeps
  <1>6. CASE AddMacroNew
    BY <1>1, <1>2, <1>6, AddMacroNewKeeps
  <1>7. CASE TableWorks
    <2>1. TableP!Work
      BY <1>7, SameTable DEF TableWorks
    <2> QED
      BY <1>1, <1>2, <1>7, <2>1, AddStoreKeeps, RemoveStepKeeps, ProbeKeeps DEF TableP!Work
  <1>8. CASE UNCHANGED vars
    <2>1. /\ UNCHANGED <<arena_vars, macro_at, status, entry_key, entry_value>>
          /\ UNCHANGED <<pc, key, value, answer, job, body, reported, found>>
      BY <1>8 DEF vars, table_vars
    <2>2. Memory' /\ Pending' /\ NeverOutOfMemory' /\ Control'
      BY <2>1 DEF IInv, Memory, Pending, NeverOutOfMemory, Control, arena_vars, TableP!Occupied
    <2>3. OneSlotPerMacro' /\ EntriesPointAtMacros'
      BY <2>1 DEF IInv, OneSlotPerMacro, EntriesPointAtMacros, Table!Occupied, arena_vars
    <2>4. Answered'
      BY <2>1 DEF IInv, Answered, TableP!Contents, TableP!Holds
    <2> QED BY <1>1, <1>2, <2>2, <2>3, <2>4 DEF IInv
  <1> QED BY <1>3, <1>4, <1>5, <1>6, <1>7, <1>8 DEF Next

LEMMA InvariantHolds == Spec => []IInv
  <1>1. Init => IInv
    BY InitEstablishes
  <1>2. IInv /\ [Next]_vars => IInv'
    BY NextKeeps
  <1> QED BY <1>1, <1>2, PTL DEF Spec

-----------------------------------------------------------------------------
(* What the invariant gives *)

\* Every variable of the macro table, of the hash table in it and of the arena
\* under it stays in its domain.
THEOREM TypeCorrect == Spec => []TypeOK
  <1>1. IInv => TypeOK
    <2> SUFFICES ASSUME IInv PROVE TypeOK
      OBVIOUS
    <2>1. Table!TypeOK /\ Mem!TypeOK
      BY SameTable, SameArena DEF IInv, TableP!IInv, MemP!IInv
    <2>2. DOMAIN macro_at \subseteq Addresses
      <3> SUFFICES ASSUME NEW a \in DOMAIN macro_at PROVE a \in Addresses
        OBVIOUS
      <3>1. [start |-> a, size |-> MacroSize] \in blocks /\ a \in Nat
        BY DEF IInv, Memory, MemP!IInv, MemP!TypeOK
      <3>2. a + MacroSize <= bytes_used
        BY <3>1 DEF IInv, MemP!IInv, MemP!BlocksInBounds
      <3>3. bytes_used \in 0..MEMORY_ARENA_MAX_SIZE
        BY DEF IInv, MemP!IInv, MemP!TypeOK
      <3> QED BY <3>1, <3>2, <3>3, SizesAssumption, ArenaSize DEF Addresses
    <2> QED BY <2>1, <2>2 DEF IInv, Memory, Control, TypeOK
  <1> QED BY <1>1, InvariantHolds, PTL

\* The arena of macros, which nothing is ever given back to, is never exhausted
\* by any sequence of #define and #undef, whatever the number of slots and the
\* sizes of the structures: macro_exists has seen a slot that was never used.
THEOREM ArenaSuffices == Spec => []NeverOutOfMemory
  <1>1. IInv => NeverOutOfMemory
    BY DEF IInv
  <1> QED BY <1>1, InvariantHolds, PTL

\* Every entry of the table points at a macro of its name in a block of its own.
THEOREM NoDanglingEntries == Spec => []EntriesPointAtMacros
  <1>1. IInv => EntriesPointAtMacros
    BY DEF IInv
  <1> QED BY <1>1, InvariantHolds, PTL

\* The table spends exactly one slot on each macro in the arena.
THEOREM SlotsMatchMacros == Spec => []OneSlotPerMacro
  <1>1. IInv => OneSlotPerMacro
    BY DEF IInv
  <1> QED BY <1>1, InvariantHolds, PTL

-----------------------------------------------------------------------------
(* The macro table implements the environment *)

MacroEnv ==
    [n \in Keys |-> IF Table!Contents[n] = NULL THEN NULL
                    ELSE macro_at[Table!Contents[n]].body]

LEMMA InitRefines == Init => Env!Init
  <1> SUFFICES ASSUME Init PROVE Env!Init
    OBVIOUS
  <1>1. TableP!Dict!Init
    BY SameTable, TableAssumptions, TableP!InitRefines DEF Init
  <1>2. Table!Contents = [n \in Keys |-> NULL] /\ key \in Keys
    BY <1>1, SameTable DEF TableP!Dict!Init
  <1> QED BY <1>2 DEF Init, Env!Init

\* What is in the arena stays: the environment changes with the table only.
LEMMA EnvUnchanged ==
    ASSUME IInv, TableP!Contents' = TableP!Contents,
           \A a \in DOMAIN macro_at : macro_at'[a] = macro_at[a]
    PROVE  MacroEnv' = MacroEnv
  <1>1. \A n \in Keys : TableP!Contents[n] # NULL => TableP!Contents[n] \in DOMAIN macro_at
    BY ContentsAreMacros
  <1> QED BY <1>1, SameTable DEF MacroEnv

LEMMA StartRefines ==
    ASSUME IInv, NEW n \in Keys, NEW b \in Bodies,
           AddMacro(n, b) \/ RemoveMacro(n) \/ MacroExists(n)
    PROVE  \/ Env!Request("define", n, b)
           \/ Env!Request("undef", n, body)
           \/ Env!Request("exists", n, body)
  <1>1. UNCHANGED <<status, entry_key, entry_value, macro_at, found>> /\ key' = n
    BY DEF AddMacro, RemoveMacro, MacroExists, Start, Table!GetCall, Table!RemoveCall,
           Table!table
  <1>2. TableP!Contents' = TableP!Contents
    BY <1>1 DEF TableP!Contents, TableP!Holds
  <1>3. MacroEnv' = MacroEnv
    BY <1>1, <1>2, EnvUnchanged
  <1> QED
    BY <1>1, <1>3 DEF AddMacro, RemoveMacro, MacroExists, Start, Idle, Env!Request, MacroEnv

LEMMA ReturnRefines ==
    ASSUME IInv, AddMacroKnown \/ MacroExistsReturns
    PROVE  Env!Define \/ Env!Exists
  <1>1. /\ pc = "got" /\ key \in Keys
        /\ UNCHANGED <<status, entry_key, entry_value, macro_at, key>>
    BY TableFacts DEF AddMacroKnown, MacroExistsReturns, table_vars, IInv
  <1>2. TableP!Contents' = TableP!Contents
    BY <1>1 DEF TableP!Contents, TableP!Holds
  <1>3. MacroEnv' = MacroEnv
    BY <1>1, <1>2, EnvUnchanged
  <1>4. answer = TableP!Contents[key]
    BY <1>1 DEF IInv, Answered
  <1>5. MacroEnv[key] = IF answer = NULL THEN NULL ELSE macro_at[answer].body
    BY <1>1, <1>4, SameTable DEF MacroEnv
  <1>6. answer # NULL => macro_at[answer].body # NULL
    BY <1>1, <1>4, ContentsAreMacros, NullAssumption
  <1>7. CASE AddMacroKnown
    <2>1. MacroEnv[key] # NULL /\ reported' = (MacroEnv[key] \notin {NULL, body})
      BY <1>5, <1>6, <1>7 DEF AddMacroKnown
    <2>2. UNCHANGED <<key, body, found>>
      BY <1>7 DEF AddMacroKnown, table_vars
    <2> QED BY <1>3, <1>7, <2>1, <2>2 DEF AddMacroKnown, Env!Define, MacroEnv
  <1>8. CASE MacroExistsReturns
    <2>1. found' = MacroEnv[key]
      BY <1>5, <1>8 DEF MacroExistsReturns
    <2>2. UNCHANGED <<key, body, reported>>
      BY <1>8 DEF MacroExistsReturns, table_vars
    <2> QED BY <1>3, <1>8, <2>1, <2>2 DEF MacroExistsReturns, Env!Exists, MacroEnv
  <1> QED BY <1>7, <1>8

LEMMA AddMacroNewRefines ==
    ASSUME IInv, IInv', AddMacroNew
    PROVE  UNCHANGED Env!vars
  <1>1. /\ \A a \in DOMAIN macro_at' :
              a \in DOMAIN macro_at /\ a # bytes_used => macro_at'[a] = macro_at[a]
        /\ DOMAIN macro_at \subseteq DOMAIN macro_at'
        /\ UNCHANGED <<status, entry_key, entry_value, key, job, body, reported, found>>
    BY RoomForMacro, SameArena
    DEF AddMacroNew, Table!AddCall, Table!table
  <1>2. \A a \in DOMAIN macro_at : a # bytes_used
    <2> SUFFICES ASSUME bytes_used \in DOMAIN macro_at PROVE FALSE
      OBVIOUS
    <2>1. [start |-> bytes_used, size |-> MacroSize] \in blocks /\ bytes_used \in Nat
      BY DEF IInv, Memory, MemP!IInv, MemP!TypeOK
    <2>2. bytes_used + MacroSize <= bytes_used
      BY <2>1 DEF IInv, MemP!IInv, MemP!BlocksInBounds
    <2> QED BY <2>1, <2>2, SizesAssumption
  <1>3. TableP!Contents' = TableP!Contents
    BY <1>1 DEF TableP!Contents, TableP!Holds
  <1>4. MacroEnv' = MacroEnv
    BY <1>1, <1>2, <1>3, EnvUnchanged
  <1> QED BY <1>1, <1>4 DEF Env!vars, MacroEnv

\* The macro that ht_add enters is in force when ht_add returns.
LEMMA AddStoreRefines ==
    ASSUME IInv, TableWorks, TableP!AddStore
    PROVE  Env!Define
  <1>1. TableP!Dict!Add
    BY TableAssumptions, TableP!AddRefines DEF IInv
  <1>2. /\ pc = "add" /\ job = "define" /\ job' = "none" /\ reported = FALSE
        /\ key \in Keys
        /\ UNCHANGED <<macro_at, key, body, reported, found>>
    BY TableFacts DEF TableP!AddStore, TableWorks, IInv, Control
  <1>3. TableP!Contents[key] = NULL
    BY <1>2 DEF IInv, TableP!IInv, TableP!ProbeKnowledge, TableP!Absent, TableP!Contents
  <1>4. TableP!Contents' = [TableP!Contents EXCEPT ![key] = value]
    BY <1>1 DEF TableP!Dict!Add
  <1>5. value # NULL /\ macro_at[value].body = body
    BY <1>2, TableFacts, NullAssumption DEF IInv, Pending
  <1>6. MacroEnv[key] = NULL
    BY <1>2, <1>3, SameTable DEF MacroEnv
  <1>7. MacroEnv' = [MacroEnv EXCEPT ![key] = body]
    <2>1. \A n \in Keys : TableP!Contents'[n] = IF n = key THEN value ELSE TableP!Contents[n]
      BY <1>2, <1>4 DEF TableP!Contents
    <2>2. \A n \in Keys : MacroEnv'[n] = IF n = key THEN body ELSE MacroEnv[n]
      BY <1>2, <1>5, <2>1, SameTable DEF MacroEnv
    <2> QED BY <2>2 DEF MacroEnv
  <1> QED BY <1>2, <1>6, <1>7 DEF Env!Define, MacroEnv

\* A step of ht_remove that is a Remove of the dictionary undefines the name.
LEMMA RemoveRefines ==
    ASSUME IInv, IInv', TableWorks, TableP!RemoveStep \/ TableP!RemoveStop
    PROVE  Env!Undef \/ UNCHANGED Env!vars
  <1>1. /\ pc = "remove" /\ job = "undef" /\ pc' \in {"remove", "idle"}
        /\ job' = IF pc' = "idle" THEN "none" ELSE "undef"
        /\ key \in Keys
        /\ UNCHANGED <<macro_at, key, body, reported, found>>
    BY TableFacts DEF TableP!RemoveStep, TableP!RemoveStop, TableWorks, IInv, Control
  <1>2. TableP!Dict!Remove \/ UNCHANGED TableP!Dict!vars
    BY TableAssumptions, TableP!RemoveStepRefines, TableP!RemoveStopRefines DEF IInv
  <1>3. CASE TableP!Dict!Remove
    <2>1. TableP!Contents' = [TableP!Contents EXCEPT ![key] = NULL]
      BY <1>3 DEF TableP!Dict!Remove
    <2>2. \A n \in Keys : TableP!Contents'[n] = IF n = key THEN NULL ELSE TableP!Contents[n]
      BY <1>1, <2>1 DEF TableP!Contents
    <2>3. \A n \in Keys : MacroEnv'[n] = IF n = key THEN NULL ELSE MacroEnv[n]
      BY <1>1, <2>2, SameTable DEF MacroEnv
    <2>4. MacroEnv' = [MacroEnv EXCEPT ![key] = NULL]
      BY <2>3 DEF MacroEnv
    <2> QED BY <1>1, <2>4 DEF Env!Undef, MacroEnv
  <1>4. CASE UNCHANGED TableP!Dict!vars
    <2>1. TableP!Contents' = TableP!Contents
      BY <1>4 DEF TableP!Dict!vars
    <2>2. pc' = "remove"
      BY <1>1, <1>4 DEF TableP!Dict!vars, TableP!Serving, TableP!Ready
    <2>3. MacroEnv' = MacroEnv
      BY <1>1, <2>1, EnvUnchanged
    <2> QED BY <1>1, <2>2, <2>3 DEF Env!vars, MacroEnv
  <1> QED BY <1>2, <1>3, <1>4

LEMMA ProbeRefines ==
    ASSUME IInv, TableWorks,
           TableP!GetStep \/ TableP!GetHit \/ TableP!GetMiss \/ TableP!AddStep
    PROVE  UNCHANGED Env!vars
  <1>1. /\ UNCHANGED <<status, entry_key, entry_value, macro_at, key, job, body>>
        /\ UNCHANGED <<reported, found>>
    BY DEF TableWorks, TableP!GetStep, TableP!GetHit, TableP!GetMiss, TableP!AddStep,
           TableP!table
  <1>2. TableP!Contents' = TableP!Contents
    BY <1>1 DEF TableP!Contents, TableP!Holds
  <1>3. MacroEnv' = MacroEnv
    BY <1>1, <1>2, EnvUnchanged
  <1> QED BY <1>1, <1>3 DEF Env!vars, MacroEnv

LEMMA StepRefines == IInv /\ IInv' /\ [Next]_vars => [Env!Next]_(Env!vars)
  <1> SUFFICES ASSUME IInv, IInv', [Next]_vars PROVE [Env!Next]_(Env!vars)
    OBVIOUS
  <1>1. CASE \E n \in Keys, b \in Bodies : AddMacro(n, b)
    <2> PICK n \in Keys, b \in Bodies : AddMacro(n, b)
      BY <1>1
    <2> QED BY StartRefines DEF Env!Next
  <1>2. CASE \E n \in Keys : RemoveMacro(n) \/ MacroExists(n)
    <2> PICK n \in Keys : RemoveMacro(n) \/ MacroExists(n)
      BY <1>2
    <2>1. body \in Bodies
      BY DEF IInv, Control
    <2> QED BY <2>1, StartRefines DEF Env!Next
  <1>3. CASE AddMacroKnown \/ MacroExistsReturns
    BY <1>3, ReturnRefines DEF Env!Next
  <1>4. CASE AddMacroNew
    BY <1>4, AddMacroNewRefines
  <1>5. CASE TableWorks
    <2>1. TableP!Work
      BY <1>5, SameTable DEF TableWorks
    <2> QED
      BY <1>5, <2>1, AddStoreRefines, RemoveRefines, ProbeRefines DEF TableP!Work, Env!Next
  <1>6. CASE UNCHANGED vars
    <2>1. /\ UNCHANGED <<status, entry_key, entry_value, macro_at, key, job, body>>
          /\ UNCHANGED <<reported, found>>
      BY <1>6 DEF vars, table_vars
    <2>2. TableP!Contents' = TableP!Contents
      BY <2>1 DEF TableP!Contents, TableP!Holds
    <2>3. MacroEnv' = MacroEnv
      BY <2>1, <2>2, EnvUnchanged
    <2> QED BY <2>1, <2>3 DEF Env!vars, MacroEnv
  <1> QED BY <1>1, <1>2, <1>3, <1>4, <1>5, <1>6 DEF Next

\* The macro table, hash table and arena together, is a map from names to
\* definitions: the first definition of a name stands until an #undef, a
\* different one is reported and an equal one is not, and a lookup finds the
\* definition in force.
THEOREM Refinement == Spec => ImplementsEnvironment
  <1>1. Init => Env!Init
    BY InitRefines
  <1>2. IInv /\ IInv' /\ [Next]_vars => [Env!Next]_(Env!vars)
    BY StepRefines
  <1> QED BY <1>1, <1>2, InvariantHolds, PTL DEF Spec, Env!Spec, ImplementsEnvironment
=============================================================================
