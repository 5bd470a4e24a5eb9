------------------------------ MODULE HashTable ------------------------------
(***************************************************************************)
(* The open-addressing hash table of src/src/hash_table.c, one loop        *)
(* iteration per step.  ht_get, ht_add and ht_remove probe linearly from   *)
(* the hash of the key; a removed entry leaves a tombstone.  The table     *)
(* has one client, add_macro/remove_macro/macro_exists of preprocessor.c,  *)
(* which calls ht_add only right after ht_get answered NULL for the same   *)
(* key: that discipline is the guard of AddCall.                           *)
(***************************************************************************)
EXTENDS Integers, FiniteSets

CONSTANTS
    Keys,       \* strings used as keys, up to the equality of comp_func
    Values,     \* the pointers stored in the table
    NULL,       \* what ht_get returns when the key is absent
    Capacity,   \* ht.capacity: MAX_NUM_MACROS in the program
    Hash        \* ht_hash(key) % capacity, any function of the key

Slots == 0..(Capacity - 1)

ASSUME CapacityAssumption == Capacity \in Nat \ {0}
ASSUME HashAssumption     == Hash \in [Keys -> Slots]
ASSUME NullAssumption     == NULL \notin Values /\ NULL \notin Keys

VARIABLES
    status,         \* entries[i].status
    entry_key,      \* entries[i].key
    entry_value,    \* entries[i].value
    length,         \* ht.length
    pc,             \* "idle", "got" (idle, the latest call was a get), the
                    \* call being run: "get", "add", "remove", or "abort"
    key,            \* the key argument of the call
    value,          \* the entry argument of ht_add
    index,          \* the slot the loop looks at
    start_index,    \* ht_remove's first slot
    tombstone_index, tombstone_found,   \* ht_add's locals
    answer          \* what the latest ht_get returned

table  == <<status, entry_key, entry_value, length>>
locals == <<start_index, tombstone_index, tombstone_found>>
vars   == <<table, pc, key, value, index, locals, answer>>

-----------------------------------------------------------------------------
Statuses == {"EMPTY", "TOMBSTONE", "OCCUPIED"}

\* Faulty: the probe runs off the end of the entries.
NextSlotUnwrapped(i) == i + 1

NextSlot(i) == (i + 1) % Capacity

\* Faulty: the key of a tombstone still counts.
HoldsStale(s, k) == status[s] # "EMPTY" /\ entry_key[s] = k

Holds(s, k) == status[s] = "OCCUPIED" /\ entry_key[s] = k

Occupied == {s \in Slots : status[s] = "OCCUPIED"}

\* ht_alloc: the table is zeroed, so every entry is EMPTY and its key NULL.
Init ==
    /\ status = [s \in Slots |-> "EMPTY"]
    /\ entry_key = [s \in Slots |-> NULL]
    /\ entry_value = [s \in Slots |-> NULL]
    /\ length = 0
    /\ pc = "idle"
    /\ key \in Keys
    /\ value \in Values
    /\ index = 0 /\ start_index = 0
    /\ tombstone_index = 0 /\ tombstone_found = FALSE
    /\ answer = NULL

Ready == pc \in {"idle", "got"}

-----------------------------------------------------------------------------
(* ht_get *)

GetCall(k) ==
    /\ Ready
    /\ pc' = "get"
    /\ key' = k
    /\ index' = Hash[k]
    /\ UNCHANGED <<table, value, locals, answer>>

\* Faulty: the get gives up after a round and answers NULL.
GetStepGivesUp ==
    /\ pc = "get"
    /\ status[index] # "EMPTY"
    /\ ~Holds(index, key)
    /\ index' = NextSlot(index)
    /\ IF NextSlot(index) = Hash[key]
       THEN pc' = "got" /\ answer' = NULL
       ELSE UNCHANGED <<pc, answer>>
    /\ UNCHANGED <<table, key, value, locals>>

GetStep ==
    /\ pc = "get"
    /\ status[index] # "EMPTY"
    /\ ~Holds(index, key)
    /\ index' = NextSlot(index)
    /\ UNCHANGED <<table, pc, key, value, locals, answer>>

GetHit ==
    /\ pc = "get"
    /\ Holds(index, key)
    /\ answer' = entry_value[index]
    /\ pc' = "got"
    /\ UNCHANGED <<table, key, value, index, locals>>

\* Faulty: a tombstone ends the probe.
GetMissAtTombstone ==
    /\ pc = "get"
    /\ status[index] # "OCCUPIED"
    /\ answer' = NULL
    /\ pc' = "got"
    /\ UNCHANGED <<table, key, value, index, locals>>

GetMiss ==
    /\ pc = "get"
    /\ status[index] = "EMPTY"
    /\ answer' = NULL
    /\ pc' = "got"
    /\ UNCHANGED <<table, key, value, index, locals>>

-----------------------------------------------------------------------------
(* ht_add *)

\* Faulty: the caller does not look whether the key is there.
AddCallUnchecked(v) ==
    /\ pc = "got"
    /\ pc' = IF length < Capacity THEN "add" ELSE "abort"
    /\ value' = v
    /\ index' = Hash[key]
    /\ tombstone_index' = 0
    /\ tombstone_found' = FALSE
    /\ UNCHANGED <<table, key, start_index, answer>>

\* The assertion on entry stops the program when the table is full.
AddCall(v) ==
    /\ pc = "got"
    /\ answer = NULL
    /\ pc' = IF length < Capacity THEN "add" ELSE "abort"
    /\ value' = v
    /\ index' = Hash[key]
    /\ tombstone_index' = 0
    /\ tombstone_found' = FALSE
    /\ UNCHANGED <<table, key, start_index, answer>>

\* tombstone_found is tested here but the loop never sets it.
AddStep ==
    /\ pc = "add"
    /\ status[index] # "EMPTY"
    /\ tombstone_index' = IF status[index] = "TOMBSTONE" /\ ~tombstone_found
                          THEN index ELSE tombstone_index
    /\ index' = NextSlot(index)
    /\ UNCHANGED <<table, pc, key, value, start_index, tombstone_found, answer>>

AddSlot == IF tombstone_found THEN tombstone_index ELSE index

\* Faulty: the key of the entry is not set.
AddStoreNoKey ==
    /\ pc = "add"
    /\ status[index] = "EMPTY"
    /\ status' = [status EXCEPT ![AddSlot] = "OCCUPIED"]
    /\ entry_value' = [entry_value EXCEPT ![AddSlot] = value]
    /\ length' = length + 1
    /\ pc' = "idle"
    /\ UNCHANGED <<entry_key, key, value, index, locals, answer>>

AddStore ==
    /\ pc = "add"
    /\ status[index] = "EMPTY"
    /\ status' = [status EXCEPT ![AddSlot] = "OCCUPIED"]
    /\ entry_key' = [entry_key EXCEPT ![AddSlot] = key]
    /\ entry_value' = [entry_value EXCEPT ![AddSlot] = value]
    /\ length' = length + 1
    /\ pc' = "idle"
    /\ UNCHANGED <<key, value, index, locals, answer>>

-----------------------------------------------------------------------------
(* ht_remove *)

RemoveCall(k) ==
    /\ Ready
    /\ pc' = "remove"
    /\ key' = k
    /\ index' = Hash[k]
    /\ start_index' = Hash[k]
    /\ UNCHANGED <<table, value, tombstone_index, tombstone_found, answer>>

\* Faulty: the slot is made EMPTY, without a tombstone.
RemoveStepEmpties ==
    /\ pc = "remove"
    /\ status[index] # "EMPTY"
    /\ IF Holds(index, key)
       THEN /\ status' = [status EXCEPT ![index] = "EMPTY"]
            /\ length' = length - 1
       ELSE UNCHANGED <<status, length>>
    /\ index' = NextSlot(index)
    /\ pc' = IF NextSlot(index) = start_index THEN "idle" ELSE "remove"
    /\ UNCHANGED <<entry_key, entry_value, key, value, locals, answer>>

\* Faulty: the length is not counted down.
RemoveStepUncounted ==
    /\ pc = "remove"
    /\ status[index] # "EMPTY"
    /\ status' = IF Holds(index, key) THEN [status EXCEPT ![index] = "TOMBSTONE"] ELSE status
    /\ index' = NextSlot(index)
    /\ pc' = IF NextSlot(index) = start_index THEN "idle" ELSE "remove"
    /\ UNCHANGED <<entry_key, entry_value, length, key, value, locals, answer>>

\* Faulty: the loop does not notice that it is back at its start.
RemoveStepForEver ==
    /\ pc = "remove"
    /\ status[index] # "EMPTY"
    /\ IF Holds(index, key)
       THEN /\ status' = [status EXCEPT ![index] = "TOMBSTONE"]
            /\ length' = length - 1
       ELSE UNCHANGED <<status, length>>
    /\ index' = NextSlot(index)
    /\ UNCHANGED <<entry_key, entry_value, pc, key, value, locals, answer>>

\* The loop goes on after a match, and leaves when it is back at its start.
RemoveStep ==
    /\ pc = "remove"
    /\ status[index] # "EMPTY"
    /\ IF Holds(index, key)
       THEN /\ status' = [status EXCEPT ![index] = "TOMBSTONE"]
            /\ length' = length - 1
       ELSE UNCHANGED <<status, length>>
    /\ index' = NextSlot(index)
    /\ pc' = IF NextSlot(index) = start_index THEN "idle" ELSE "remove"
    /\ UNCHANGED <<entry_key, entry_value, key, value, locals, answer>>

RemoveStop ==
    /\ pc = "remove"
    /\ status[index] = "EMPTY"
    /\ pc' = "idle"
    /\ UNCHANGED <<table, key, value, index, locals, answer>>

-----------------------------------------------------------------------------
Calls ==
    \/ \E k \in Keys : GetCall(k) \/ RemoveCall(k)
    \/ \E v \in Values : AddCall(v)

\* The steps of a call that has been made.
Work ==
    \/ GetStep \/ GetHit \/ GetMiss
    \/ AddStep \/ AddStore
    \/ RemoveStep \/ RemoveStop

Next == Calls \/ Work

Spec == Init /\ [][Next]_vars

\* The program is sequential: a call that can take a step takes one.
Fairness == WF_vars(Work)
FairSpec == Spec /\ Fairness

-----------------------------------------------------------------------------
(* Safety *)

\* Every variable stays in its domain.
TypeOK ==
    /\ status \in [Slots -> Statuses]
    /\ entry_key \in [Slots -> Keys \cup {NULL}]
    /\ entry_value \in [Slots -> Values \cup {NULL}]
    /\ length \in Int
    /\ pc \in {"idle", "got", "get", "add", "remove", "abort"}
    /\ key \in Keys
    /\ value \in Values
    /\ index \in Slots
    /\ start_index \in Slots
    /\ tombstone_index \in Slots
    /\ tombstone_found \in BOOLEAN
    /\ answer \in Values \cup {NULL}

\* The slots a probe that starts at a passes before it reaches b.
Between(a, b) ==
    IF a <= b THEN a..(b - 1) ELSE (a..(Capacity - 1)) \cup (0..(b - 1))

\* No probe stops short of an entry: between the home slot of a key and the
\* slot that holds it there is no EMPTY slot, whatever was added and removed
\* in between (ht_remove leaves a tombstone for this reason).
ProbeChain ==
    \A s \in Slots : status[s] = "OCCUPIED" =>
        \A t \in Between(Hash[entry_key[s]], s) : status[t] # "EMPTY"

\* A key is held by at most one slot, so a get cannot find a stale value and
\* a remove cannot leave one behind (ht_add does not look for its key).
UniqueKeys ==
    \A s, t \in Slots :
        status[s] = "OCCUPIED" /\ status[t] = "OCCUPIED"
            /\ entry_key[s] = entry_key[t] => s = t

\* ht.length is the number of entries the table holds, in mid-call as well.
LengthCounts == length = Cardinality(Occupied)

\* An entry in use has a key and a value.
Filled ==
    \A s \in Slots : status[s] = "OCCUPIED" =>
        entry_key[s] \in Keys /\ entry_value[s] \in Values

Absent(k) == \A s \in Slots : ~Holds(s, k)

HasEmpty == \E s \in Slots : status[s] = "EMPTY"

\* What the loops have learned when they stop: every slot between the home of
\* the key and the slot looked at is in use or spent, and none holds the key.
\* So a get that met an EMPTY slot was right to answer NULL, and ht_add stores
\* only a key that is absent, in a table that has a slot for it.
ProbeKnowledge ==
    /\ pc \in {"get", "add", "remove"} =>
          \A t \in Between(Hash[key], index) :
              status[t] # "EMPTY" /\ ~Holds(t, key)
    /\ pc = "got" /\ answer = NULL => status[index] = "EMPTY" /\ Absent(key)
    /\ pc = "add" => HasEmpty /\ Absent(key) /\ ~tombstone_found
    /\ pc = "remove" => start_index = Hash[key]

\* The assertion of ht_add never fires: a get that answered NULL has seen an
\* EMPTY slot, so the table is not full when add_macro goes on to ht_add.
NeverAborts == pc # "abort"

\* A slot that was used is never EMPTY again, and no call but the one being
\* served changes what the table holds.
SlotsAreSpent ==
    [][ /\ \A s \in Slots : status[s] # "EMPTY" => status'[s] # "EMPTY"
        /\ \A s \in Slots : status'[s] # status[s] =>
              (entry_key[s] = key \/ entry_key'[s] = key) ]_vars

-----------------------------------------------------------------------------
(* The table implements a dictionary *)

Contents ==
    [k \in Keys |-> IF \E s \in Slots : Holds(s, k)
                    THEN entry_value[CHOOSE s \in Slots : Holds(s, k)]
                    ELSE NULL]

Serving == IF Ready THEN "none" ELSE pc

Dict == INSTANCE Dictionary WITH dict <- Contents, call <- Serving

\* Every get answers with the value of the latest add of its key that no
\* remove has undone, a remove returns only when its key is gone, and an add
\* is made only for an absent key and changes no other.
ImplementsDictionary == Dict!Spec

-----------------------------------------------------------------------------
(* Liveness *)

\* Every call returns as long as a slot that was never used is left;
\* ht_remove returns even when none is, because it counts the round.
CallsReturn ==
    /\ (pc = "get" /\ HasEmpty) ~> pc = "got"
    /\ pc = "add" ~> pc = "idle"
    /\ pc = "remove" ~> pc = "idle"

\* What ht_alloc's parameter max_entries and ht_add's assertion promise: a
\* table that holds fewer than its capacity of entries can be used.  It fails:
\* tombstones are never reused, and once no slot is EMPTY a get of an absent
\* key goes round for ever.
UsableBelowCapacity == (pc = "get" /\ length < Capacity) ~> pc = "got"
=============================================================================
