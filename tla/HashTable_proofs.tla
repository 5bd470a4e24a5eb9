--------------------------- MODULE HashTable_proofs ---------------------------
EXTENDS HashTable, FiniteSetTheorems, TLAPS

LEMMA NextSlotWraps ==
    \A i \in Slots : /\ NextSlot(i) \in Slots
                     /\ NextSlot(i) = IF i = Capacity - 1 THEN 0 ELSE i + 1
  BY CapacityAssumption DEF NextSlot, Slots

LEMMA BetweenTypeOK ==
    ASSUME NEW a \in Slots, NEW b \in Slots
    PROVE  Between(a, b) \subseteq Slots /\ b \notin Between(a, b)
  BY CapacityAssumption DEF Between, Slots

LEMMA BetweenGrows ==
    ASSUME NEW a \in Slots, NEW i \in Slots
    PROVE  Between(a, NextSlot(i)) =
              IF NextSlot(i) = a THEN {} ELSE Between(a, i) \cup {i}
  <1> DEFINE n == NextSlot(i)
  <1>1. n \in Slots /\ n = IF i = Capacity - 1 THEN 0 ELSE i + 1
    BY NextSlotWraps
  <1> HIDE DEF n
  <1>2. CASE n = a
    <2>1. Between(a, n) = {}
      BY <1>2, CapacityAssumption DEF Between, Slots
    <2> QED BY <1>2, <2>1 DEF n
  <1>3. CASE n # a /\ i = Capacity - 1
    <2>1. Between(a, n) = a..(Capacity - 1)
      BY <1>1, <1>3, CapacityAssumption DEF Between, Slots
    <2>2. Between(a, i) \cup {i} = a..(Capacity - 1)
      BY <1>1, <1>3, CapacityAssumption DEF Between, Slots
    <2> QED BY <1>3, <2>1, <2>2 DEF n
  <1>4. CASE n # a /\ i # Capacity - 1
    <2>1. \A t : t \in Between(a, n) <=> t \in Between(a, i) \cup {i}
      BY <1>1, <1>4, CapacityAssumption DEF Between, Slots
    <2> QED BY <1>4, <2>1 DEF n
  <1> QED BY <1>2, <1>3, <1>4

LEMMA BetweenRound ==
    ASSUME NEW a \in Slots, NEW i \in Slots, NextSlot(i) = a
    PROVE  Slots = Between(a, i) \cup {i}
  BY CapacityAssumption, NextSlotWraps DEF Between, Slots

LEMMA BetweenTrichotomy ==
    ASSUME NEW a \in Slots, NEW i \in Slots, NEW s \in Slots
    PROVE  s = i \/ s \in Between(a, i) \/ i \in Between(a, s)
  BY CapacityAssumption DEF Between, Slots

-----------------------------------------------------------------------------
(* The inductive invariant *)

IInv ==
    /\ TypeOK
    /\ Filled
    /\ ProbeChain
    /\ UniqueKeys
    /\ LengthCounts
    /\ ProbeKnowledge
    /\ NeverAborts

LEMMA SlotsFinite == IsFiniteSet(Slots) /\ Cardinality(Slots) = Capacity
  <1>1. IsFiniteSet(0..(Capacity - 1)) /\ Cardinality(0..(Capacity - 1)) = Capacity
    BY FS_Interval, CapacityAssumption
  <1> QED BY <1>1 DEF Slots

LEMMA OccupiedFinite == IsFiniteSet(Occupied)
  BY SlotsFinite, FS_Subset DEF Occupied

\* The table is not full while a slot is EMPTY.
LEMMA RoomIfEmpty ==
    ASSUME LengthCounts, NEW i \in Slots, status[i] = "EMPTY"
    PROVE  length < Capacity
  <1>1. Occupied \subseteq Slots \ {i}
    BY DEF Occupied
  <1>2. IsFiniteSet(Slots \ {i}) /\ Cardinality(Slots \ {i}) = Capacity - 1
    BY SlotsFinite, FS_RemoveElement
  <1>3. Cardinality(Occupied) <= Capacity - 1
    BY <1>1, <1>2, FS_Subset
  <1>4. Cardinality(Occupied) \in Nat
    BY OccupiedFinite, FS_CardinalityType
  <1> QED BY <1>3, <1>4, CapacityAssumption DEF LengthCounts

LEMMA InitEstablishes == Init => IInv
  <1> SUFFICES ASSUME Init PROVE IInv
    OBVIOUS
  <1> USE DEF Init
  <1>1. Occupied = {}
    BY DEF Occupied
  <1>2. LengthCounts
    BY <1>1, FS_EmptySet DEF LengthCounts
  <1>3. 0 \in Slots
    BY CapacityAssumption DEF Slots
  <1>4. TypeOK
    <2>1. status \in [Slots -> Statuses]
      BY DEF Statuses
    <2>2. entry_key \in [Slots -> Keys \cup {NULL}]
      OBVIOUS
    <2>3. entry_value \in [Slots -> Values \cup {NULL}]
      OBVIOUS
    <2>4. /\ length \in Int
          /\ pc \in {"idle", "got", "get", "add", "remove", "abort"}
          /\ key \in Keys /\ value \in Values
          /\ index \in Slots /\ start_index \in Slots
          /\ tombstone_index \in Slots
          /\ answer \in Values \cup {NULL}
      BY <1>3
    <2>5. tombstone_found \in BOOLEAN
      BY Zenon
    <2> HIDE DEF Init
    <2> QED BY <2>1, <2>2, <2>3, <2>4, <2>5 DEF TypeOK
  <1>5. Filled /\ ProbeChain /\ UniqueKeys /\ ProbeKnowledge /\ NeverAborts
    BY DEF Filled, ProbeChain, UniqueKeys, ProbeKnowledge, NeverAborts
  <1> QED BY <1>2, <1>4, <1>5 DEF IInv

\* A call or a loop step that leaves the table alone keeps the facts about it.
LEMMA TableUnchanged ==
    ASSUME Filled, ProbeChain, UniqueKeys, LengthCounts, UNCHANGED table
    PROVE  Filled' /\ ProbeChain' /\ UniqueKeys' /\ LengthCounts'
  <1> USE DEF table
  <1>1. Filled' BY DEF Filled
  <1>2. ProbeChain' BY DEF ProbeChain
  <1>3. UniqueKeys' BY DEF UniqueKeys
  <1>4. LengthCounts' BY DEF LengthCounts, Occupied
  <1> QED BY <1>1, <1>2, <1>3, <1>4

\* A probe that passes a slot without a match knows one slot more.
LEMMA ProbeAdvances ==
    ASSUME TypeOK, NEW k \in Keys,
           status[index] # "EMPTY", ~Holds(index, k),
           \A t \in Between(Hash[k], index) : status[t] # "EMPTY" /\ ~Holds(t, k)
    PROVE  \A t \in Between(Hash[k], NextSlot(index)) :
              status[t] # "EMPTY" /\ ~Holds(t, k)
  <1>1. Hash[k] \in Slots /\ index \in Slots
    BY HashAssumption DEF TypeOK
  <1>2. Between(Hash[k], NextSlot(index)) =
           IF NextSlot(index) = Hash[k] THEN {} ELSE Between(Hash[k], index) \cup {index}
    BY <1>1, BetweenGrows
  <1> QED BY <1>2

\* A probe that has come to an EMPTY slot would have met the key.
LEMMA MissMeansAbsent ==
    ASSUME TypeOK, ProbeChain, NEW k \in Keys, status[index] = "EMPTY",
           \A t \in Between(Hash[k], index) : ~Holds(t, k)
    PROVE  Absent(k)
  <1> SUFFICES ASSUME NEW s \in Slots, Holds(s, k) PROVE FALSE
    BY DEF Absent
  <1>1. Hash[k] \in Slots /\ index \in Slots
    BY HashAssumption DEF TypeOK
  <1>2. index \notin Between(Hash[k], s)
    BY DEF ProbeChain, Holds
  <1>3. s # index
    BY DEF Holds
  <1> QED BY <1>1, <1>2, <1>3, BetweenTrichotomy

-----------------------------------------------------------------------------
(* Every step keeps the invariant: one lemma per call, one step per action *)

LEMMA GetKeeps ==
    ASSUME IInv, (\E k \in Keys : GetCall(k)) \/ GetStep \/ GetHit \/ GetMiss
    PROVE  IInv'
  <1> USE DEF IInv
  <1>1. Filled' /\ ProbeChain' /\ UniqueKeys' /\ LengthCounts'
    BY TableUnchanged DEF GetCall, GetStep, GetHit, GetMiss
  <1>2. TypeOK'
    <2>1. \A k \in Keys : Hash[k] \in Slots
      BY HashAssumption
    <2>2. NextSlot(index) \in Slots
      BY NextSlotWraps DEF TypeOK
    <2> QED
      BY <2>1, <2>2 DEF TypeOK, GetCall, GetStep, GetHit, GetMiss, table, locals,
                        Holds, Filled
  <1>3. NeverAborts'
    BY DEF NeverAborts, GetCall, GetStep, GetHit, GetMiss
  <1>4. ProbeKnowledge'
    <2>1. CASE \E k \in Keys : GetCall(k)
      <3> PICK k \in Keys : GetCall(k)
        BY <2>1
      <3>1. Hash[k] \in Slots
        BY HashAssumption
      <3>2. Between(Hash[k], Hash[k]) = {}
        BY <3>1 DEF Between, Slots
      <3> QED BY <3>2 DEF GetCall, ProbeKnowledge, table
    <2>2. CASE GetStep
      <3>1. \A t \in Between(Hash[key], NextSlot(index)) :
               status[t] # "EMPTY" /\ ~Holds(t, key)
        BY <2>2, ProbeAdvances DEF GetStep, ProbeKnowledge, TypeOK
      <3> QED BY <2>2, <3>1 DEF GetStep, ProbeKnowledge, table, Holds
    <2>3. CASE GetHit
      BY <2>3, NullAssumption DEF GetHit, ProbeKnowledge, Holds, Filled, TypeOK
    <2>4. CASE GetMiss
      <3>1. Absent(key)
        BY <2>4, MissMeansAbsent DEF GetMiss, ProbeKnowledge, TypeOK
      <3> QED BY <2>4, <3>1 DEF GetMiss, ProbeKnowledge, table, Absent, Holds
    <2> QED BY <2>1, <2>2, <2>3, <2>4
  <1> QED BY <1>1, <1>2, <1>3, <1>4

LEMMA AddCallKeeps ==
    ASSUME IInv, NEW v \in Values, AddCall(v)
    PROVE  IInv'
  <1> USE DEF IInv
  <1>1. Filled' /\ ProbeChain' /\ UniqueKeys' /\ LengthCounts'
    BY TableUnchanged DEF AddCall
  <1>2. status[index] = "EMPTY" /\ Absent(key) /\ index \in Slots
    BY DEF AddCall, ProbeKnowledge, TypeOK
  <1>3. length < Capacity
    BY <1>2, RoomIfEmpty
  <1>4. Hash[key] \in Slots /\ 0 \in Slots
    BY HashAssumption, CapacityAssumption DEF TypeOK, Slots
  <1>5. TypeOK'
    BY <1>3, <1>4 DEF TypeOK, AddCall, table
  <1>6. NeverAborts'
    BY <1>3 DEF NeverAborts, AddCall
  <1>7. Between(Hash[key], Hash[key]) = {}
    BY <1>4 DEF Between, Slots
  <1>8. ProbeKnowledge'
    BY <1>2, <1>3, <1>7 DEF ProbeKnowledge, AddCall, table, HasEmpty, Absent, Holds
  <1> QED BY <1>1, <1>5, <1>6, <1>8

LEMMA AddStepKeeps ==
    ASSUME IInv, AddStep
    PROVE  IInv'
  <1> USE DEF IInv
  <1>1. Filled' /\ ProbeChain' /\ UniqueKeys' /\ LengthCounts'
    BY TableUnchanged DEF AddStep
  <1>2. TypeOK'
    <2>1. NextSlot(index) \in Slots
      BY NextSlotWraps DEF TypeOK
    <2> QED BY <2>1 DEF TypeOK, AddStep, table
  <1>3. NeverAborts'
    BY DEF NeverAborts, AddStep
  <1>4. ~Holds(index, key)
    BY DEF AddStep, ProbeKnowledge, Absent, TypeOK
  <1>5. \A t \in Between(Hash[key], NextSlot(index)) :
           status[t] # "EMPTY" /\ ~Holds(t, key)
    BY <1>4, ProbeAdvances DEF AddStep, ProbeKnowledge, TypeOK
  <1>6. ProbeKnowledge'
    BY <1>5 DEF AddStep, ProbeKnowledge, table, HasEmpty, Absent, Holds
  <1> QED BY <1>1, <1>2, <1>3, <1>6

\* ht_add stores at the EMPTY slot its probe came to: the new entry can be
\* reached from its home, and its key was absent.
LEMMA AddStoreKeeps ==
    ASSUME IInv, AddStore
    PROVE  IInv'
  <1> USE DEF IInv
  <1>1. /\ pc = "add" /\ pc' = "idle"
        /\ index \in Slots /\ key \in Keys /\ value \in Values
        /\ status[index] = "EMPTY"
    BY DEF AddStore, TypeOK
  <1>2. AddSlot = index
    BY <1>1 DEF ProbeKnowledge, AddSlot
  <1>3. /\ status' = [status EXCEPT ![index] = "OCCUPIED"]
        /\ entry_key' = [entry_key EXCEPT ![index] = key]
        /\ entry_value' = [entry_value EXCEPT ![index] = value]
        /\ length' = length + 1
    BY <1>2 DEF AddStore
  <1>4. /\ status \in [Slots -> Statuses]
        /\ entry_key \in [Slots -> Keys \cup {NULL}]
        /\ entry_value \in [Slots -> Values \cup {NULL}]
        /\ length \in Int
    BY DEF TypeOK
  <1>5. TypeOK'
    <2>1. /\ status' \in [Slots -> Statuses]
          /\ entry_key' \in [Slots -> Keys \cup {NULL}]
          /\ entry_value' \in [Slots -> Values \cup {NULL}]
          /\ length' \in Int
      BY <1>1, <1>3, <1>4 DEF Statuses
    <2> QED BY <2>1 DEF TypeOK, AddStore, locals
  <1>6. Filled'
    BY <1>1, <1>3, <1>4 DEF Filled
  <1>7. UniqueKeys'
    <2>1. \A s \in Slots : ~Holds(s, key)
      BY <1>1 DEF ProbeKnowledge, Absent
    <2> QED BY <1>1, <1>3, <1>4, <2>1 DEF UniqueKeys, Holds
  <1>8. ProbeChain'
    <2> SUFFICES ASSUME NEW s \in Slots, status'[s] = "OCCUPIED",
                        NEW t \in Between(Hash[entry_key'[s]], s)
                 PROVE  status'[t] # "EMPTY"
      BY DEF ProbeChain
    <2>1. CASE s = index
      <3>1. entry_key'[s] = key
        BY <1>1, <1>3, <1>4, <2>1
      <3>2. Hash[key] \in Slots
        BY <1>1, HashAssumption
      <3>3. t \in Slots /\ t # index
        BY <1>1, <2>1, <3>1, <3>2, BetweenTypeOK
      <3>4. status[t] # "EMPTY"
        BY <1>1, <2>1, <3>1 DEF ProbeKnowledge
      <3> QED BY <1>3, <1>4, <3>3, <3>4
    <2>2. CASE s # index
      <3>1. status[s] = "OCCUPIED" /\ entry_key'[s] = entry_key[s]
        BY <1>1, <1>3, <1>4, <2>2
      <3>2. entry_key[s] \in Keys
        BY <3>1 DEF Filled
      <3>3. Hash[entry_key[s]] \in Slots
        BY <3>2, HashAssumption
      <3>4. t \in Slots
        BY <3>1, <3>3, BetweenTypeOK
      <3>5. status[t] # "EMPTY"
        BY <3>1 DEF ProbeChain
      <3> QED BY <1>1, <1>3, <1>4, <3>4, <3>5
    <2> QED BY <2>1, <2>2
  <1>9. LengthCounts'
    <2>1. Occupied' = Occupied \cup {index}
      BY <1>1, <1>3, <1>4 DEF Occupied
    <2>2. index \notin Occupied
      BY <1>1 DEF Occupied
    <2>3. Cardinality(Occupied \cup {index}) = Cardinality(Occupied) + 1
      BY <2>2, OccupiedFinite, FS_AddElement
    <2> QED BY <1>3, <2>1, <2>3 DEF LengthCounts
  <1>10. ProbeKnowledge' /\ NeverAborts'
    BY <1>1 DEF ProbeKnowledge, NeverAborts
  <1> QED BY <1>5, <1>6, <1>7, <1>8, <1>9, <1>10

\* A tombstone is not EMPTY: removing an entry breaks no probe.
LEMMA RemoveKeeps ==
    ASSUME IInv, (\E k \in Keys : RemoveCall(k)) \/ RemoveStep \/ RemoveStop
    PROVE  IInv'
  <1> USE DEF IInv
  <1>1. CASE \E k \in Keys : RemoveCall(k)
    <2> PICK k \in Keys : RemoveCall(k)
      BY <1>1
    <2>1. Filled' /\ ProbeChain' /\ UniqueKeys' /\ LengthCounts'
      BY TableUnchanged DEF RemoveCall
    <2>2. Hash[k] \in Slots
      BY HashAssumption
    <2>3. TypeOK'
      BY <2>2 DEF TypeOK, RemoveCall, table
    <2>4. Between(Hash[k], Hash[k]) = {}
      BY <2>2 DEF Between, Slots
    <2>5. ProbeKnowledge' /\ NeverAborts'
      BY <2>4 DEF RemoveCall, ProbeKnowledge, NeverAborts
    <2> QED BY <2>1, <2>3, <2>5
  <1>2. CASE RemoveStop
    <2>1. Filled' /\ ProbeChain' /\ UniqueKeys' /\ LengthCounts'
      BY <1>2, TableUnchanged DEF RemoveStop
    <2>2. TypeOK'
      BY <1>2 DEF TypeOK, RemoveStop, table, locals
    <2>3. ProbeKnowledge' /\ NeverAborts'
      BY <1>2 DEF RemoveStop, ProbeKnowledge, NeverAborts
    <2> QED BY <2>1, <2>2, <2>3
  <1>3. CASE RemoveStep
    <2>1. /\ pc = "remove" /\ index \in Slots /\ key \in Keys
          /\ status \in [Slots -> Statuses]
          /\ length \in Int
          /\ UNCHANGED <<entry_key, entry_value, key, value, locals, answer>>
          /\ index' = NextSlot(index)
          /\ pc' \in {"idle", "remove"}
      BY <1>3 DEF RemoveStep, TypeOK
    <2>2. NextSlot(index) \in Slots
      BY <2>1, NextSlotWraps
    <2>3. CASE ~Holds(index, key)
      <3>1. UNCHANGED <<status, length>>
        BY <1>3, <2>3 DEF RemoveStep
      <3>2. Filled' /\ ProbeChain' /\ UniqueKeys' /\ LengthCounts'
        BY <2>1, <3>1, TableUnchanged DEF table
      <3>3. TypeOK'
        BY <2>1, <2>2, <3>1 DEF TypeOK, locals
      <3>4. \A t \in Between(Hash[key], NextSlot(index)) :
               status[t] # "EMPTY" /\ ~Holds(t, key)
        BY <1>3, <2>1, <2>3, ProbeAdvances DEF RemoveStep, ProbeKnowledge
      <3>5. ProbeKnowledge' /\ NeverAborts'
        BY <2>1, <3>1, <3>4 DEF ProbeKnowledge, NeverAborts, Holds, locals
      <3> QED BY <3>2, <3>3, <3>5
    <2>4. CASE Holds(index, key)
      <3>1. /\ status' = [status EXCEPT ![index] = "TOMBSTONE"]
            /\ length' = length - 1
        BY <1>3, <2>4 DEF RemoveStep
      <3>2. TypeOK'
        <4>1. status' \in [Slots -> Statuses] /\ length' \in Int
          BY <2>1, <3>1 DEF Statuses
        <4> QED BY <2>1, <2>2, <4>1 DEF TypeOK, locals
      <3>3. \A s \in Slots : /\ status'[s] = "OCCUPIED" => status[s] = "OCCUPIED"
                             /\ status[s] # "EMPTY" => status'[s] # "EMPTY"
        BY <2>1, <3>1
      <3>4. Filled' /\ UniqueKeys'
        BY <2>1, <3>3 DEF Filled, UniqueKeys
      <3>5. ProbeChain'
        <4> SUFFICES ASSUME NEW s \in Slots, status'[s] = "OCCUPIED",
                            NEW t \in Between(Hash[entry_key[s]], s)
                     PROVE  status'[t] # "EMPTY"
          BY <2>1 DEF ProbeChain
        <4>1. status[s] = "OCCUPIED" /\ Hash[entry_key[s]] \in Slots
          BY <3>3, HashAssumption DEF Filled
        <4> QED BY <3>3, <4>1, BetweenTypeOK DEF ProbeChain
      <3>6. LengthCounts'
        <4>1. Occupied' = Occupied \ {index} /\ index \in Occupied
          BY <2>1, <2>4, <3>1 DEF Occupied, Holds
        <4>2. Cardinality(Occupied \ {index}) = Cardinality(Occupied) - 1
          BY <4>1, OccupiedFinite, FS_RemoveElement
        <4> QED BY <3>1, <4>1, <4>2 DEF LengthCounts
      <3>7. \A t \in Between(Hash[key], NextSlot(index)) :
               status'[t] # "EMPTY" /\ ~Holds(t, key)'
        <4>1. Hash[key] \in Slots
          BY <2>1, HashAssumption
        <4>2. Between(Hash[key], NextSlot(index)) \subseteq Between(Hash[key], index) \cup {index}
          BY <2>1, <4>1, BetweenGrows
        <4>3. \A t \in Between(Hash[key], index) : t \in Slots /\ t # index
          BY <2>1, <4>1, BetweenTypeOK
        <4> QED
          BY <2>1, <2>4, <3>1, <3>3, <4>2, <4>3 DEF Holds, ProbeKnowledge
      <3>8. ProbeKnowledge' /\ NeverAborts'
        BY <2>1, <3>7 DEF ProbeKnowledge, NeverAborts, locals
      <3> QED BY <3>2, <3>4, <3>5, <3>6, <3>8
    <2> QED BY <2>3, <2>4
  <1> QED BY <1>1, <1>2, <1>3

LEMMA StutterKeeps == IInv /\ UNCHANGED vars => IInv'
  <1> SUFFICES ASSUME IInv, UNCHANGED vars PROVE IInv'
    OBVIOUS
  <1>1. Filled' /\ ProbeChain' /\ UniqueKeys' /\ LengthCounts'
    BY TableUnchanged DEF IInv, vars
  <1>2. TypeOK' /\ ProbeKnowledge' /\ NeverAborts'
    BY DEF IInv, vars, table, locals, TypeOK, ProbeKnowledge, NeverAborts,
           HasEmpty, Absent, Holds
  <1> QED BY <1>1, <1>2 DEF IInv

LEMMA NextKeeps == IInv /\ [Next]_vars => IInv'
  <1> SUFFICES ASSUME IInv, [Next]_vars PROVE IInv'
    OBVIOUS
  <1>1. CASE (\E k \in Keys : GetCall(k)) \/ GetStep \/ GetHit \/ GetMiss
    BY <1>1, GetKeeps
  <1>2. CASE \E v \in Values : AddCall(v)
    BY <1>2, AddCallKeeps
  <1>3. CASE AddStep
    BY <1>3, AddStepKeeps
  <1>4. CASE AddStore
    BY <1>4, AddStoreKeeps
  <1>5. CASE (\E k \in Keys : RemoveCall(k)) \/ RemoveStep \/ RemoveStop
    BY <1>5, RemoveKeeps
  <1>6. CASE UNCHANGED vars
    BY <1>6, StutterKeeps
  <1> QED BY <1>1, <1>2, <1>3, <1>4, <1>5, <1>6 DEF Next, Calls, Work

-----------------------------------------------------------------------------
(* What the invariant gives *)

LEMMA InvariantHolds == Spec => []IInv
  <1>1. Init => IInv
    BY InitEstablishes
  <1>2. IInv /\ [Next]_vars => IInv'
    BY NextKeeps
  <1> QED BY <1>1, <1>2, PTL DEF Spec

\* Every variable of the table stays in its domain.
THEOREM TypeCorrect == Spec => []TypeOK
  <1>1. IInv => TypeOK
    BY DEF IInv
  <1> QED BY <1>1, InvariantHolds, PTL

\* For every capacity and hash function: no EMPTY slot ever cuts an entry off
\* from its home slot.
THEOREM EntriesReachable == Spec => []ProbeChain
  <1>1. IInv => ProbeChain
    BY DEF IInv
  <1> QED BY <1>1, InvariantHolds, PTL

\* No key is ever held twice.
THEOREM KeysUnique == Spec => []UniqueKeys
  <1>1. IInv => UniqueKeys
    BY DEF IInv
  <1> QED BY <1>1, InvariantHolds, PTL

\* length counts the entries, in every state of every call.
THEOREM LengthCorrect == Spec => []LengthCounts
  <1>1. IInv => LengthCounts
    BY DEF IInv
  <1> QED BY <1>1, InvariantHolds, PTL

\* The assertion in ht_add (hash_table.c:76) cannot fail for a client that
\* looks its key up first, as add_macro does.
THEOREM AssertionHolds == Spec => []NeverAborts
  <1>1. IInv => NeverAborts
    BY DEF IInv
  <1> QED BY <1>1, InvariantHolds, PTL

\* An entry in use never holds the NULL key or value the zeroed table starts
\* with.
THEOREM EntriesFilled == Spec => []Filled
  <1>1. IInv => Filled
    BY DEF IInv
  <1> QED BY <1>1, InvariantHolds, PTL

\* What the three probing loops have established when they stop, for every
\* capacity: a miss is right, and ht_add has an EMPTY slot for an absent key.
THEOREM ProbesKnow == Spec => []ProbeKnowledge
  <1>1. IInv => ProbeKnowledge
    BY DEF IInv
  <1> QED BY <1>1, InvariantHolds, PTL

\* No slot returns to EMPTY, and a call touches only its own key.
THEOREM SpentForever == Spec => SlotsAreSpent
  <1> DEFINE A == /\ \A s \in Slots : status[s] # "EMPTY" => status'[s] # "EMPTY"
                  /\ \A s \in Slots : status'[s] # status[s] =>
                        (entry_key[s] = key \/ entry_key'[s] = key)
  <1>1. IInv /\ Next => A
    <2> SUFFICES ASSUME IInv, Next PROVE A
      OBVIOUS
    <2>1. /\ status \in [Slots -> Statuses] /\ index \in Slots
          /\ entry_key \in [Slots -> Keys \cup {NULL}]
      BY DEF IInv, TypeOK
    <2>2. CASE UNCHANGED table
      BY <2>2 DEF table
    <2>3. CASE AddStore
      <3>1. AddSlot = index
        BY <2>3 DEF IInv, ProbeKnowledge, AddSlot, AddStore
      <3> QED BY <2>1, <2>3, <3>1 DEF AddStore
    <2>4. CASE RemoveStep
      BY <2>1, <2>4 DEF RemoveStep, Holds
    <2> QED
      BY <2>2, <2>3, <2>4 DEF Next, Calls, Work, GetCall, GetStep, GetHit, GetMiss,
                              AddCall, AddStep, RemoveCall, RemoveStop
  <1>2. IInv /\ [Next]_vars => [A]_vars
    BY <1>1
  <1> QED BY <1>2, InvariantHolds, PTL DEF Spec, SlotsAreSpent

-----------------------------------------------------------------------------
(* The table implements the dictionary *)

LEMMA ChooseTheSlot ==
    ASSUME NEW st, NEW ek, NEW k, NEW s \in Slots,
           st[s] = "OCCUPIED" /\ ek[s] = k,
           \A t \in Slots : st[t] = "OCCUPIED" /\ ek[t] = k => t = s
    PROVE  (CHOOSE t \in Slots : st[t] = "OCCUPIED" /\ ek[t] = k) = s
  OBVIOUS

\* What Contents says of a key, given the slot that holds it or its absence.
LEMMA ContentsOfHeld ==
    ASSUME UniqueKeys, NEW k \in Keys, NEW s \in Slots, Holds(s, k)
    PROVE  Contents[k] = entry_value[s]
  <1>1. \A t \in Slots : status[t] = "OCCUPIED" /\ entry_key[t] = k => t = s
    BY DEF UniqueKeys, Holds
  <1>2. (CHOOSE t \in Slots : status[t] = "OCCUPIED" /\ entry_key[t] = k) = s
    BY <1>1, ChooseTheSlot DEF Holds
  <1> QED BY <1>2 DEF Contents, Holds

LEMMA ContentsOfAbsent ==
    ASSUME NEW k \in Keys, Absent(k)
    PROVE  Contents[k] = NULL
  BY DEF Contents, Absent

LEMMA InitRefines == Init => Dict!Init
  <1> SUFFICES ASSUME Init PROVE Dict!Init
    OBVIOUS
  <1>1. \A k \in Keys, s \in Slots : ~Holds(s, k)
    BY DEF Init, Holds
  <1>2. Contents = [k \in Keys |-> NULL]
    BY <1>1 DEF Contents
  <1> QED BY <1>2 DEF Init, Dict!Init, Serving, Ready

LEMMA AddRefines == IInv /\ AddStore => Dict!Add
  <1> SUFFICES ASSUME IInv, AddStore PROVE Dict!Add
    OBVIOUS
  <1>1. /\ pc = "add" /\ pc' = "idle"
        /\ index \in Slots /\ key \in Keys
        /\ status[index] = "EMPTY"
        /\ status \in [Slots -> Statuses]
        /\ entry_key \in [Slots -> Keys \cup {NULL}]
        /\ entry_value \in [Slots -> Values \cup {NULL}]
        /\ UNCHANGED <<key, value, answer>>
    BY DEF AddStore, IInv, TypeOK
  <1>2. AddSlot = index /\ Absent(key)
    BY <1>1 DEF IInv, ProbeKnowledge, AddSlot
  <1>3. /\ status' = [status EXCEPT ![index] = "OCCUPIED"]
        /\ entry_key' = [entry_key EXCEPT ![index] = key]
        /\ entry_value' = [entry_value EXCEPT ![index] = value]
    BY <1>2 DEF AddStore
  <1>4. \A k \in Keys, s \in Slots :
           Holds(s, k)' <=> IF s = index THEN k = key ELSE Holds(s, k)
    BY <1>1, <1>3 DEF Holds
  <1>5. \A k \in Keys : Contents'[k] = IF k = key THEN value ELSE Contents[k]
    <2> TAKE k \in Keys
    <2>1. CASE k = key
      <3>1. (CHOOSE t \in Slots : status'[t] = "OCCUPIED" /\ entry_key'[t] = k) = index
        <4>1. \A t \in Slots : status'[t] = "OCCUPIED" /\ entry_key'[t] = k => t = index
          BY <1>2, <1>4, <2>1 DEF Holds, Absent
        <4>2. status'[index] = "OCCUPIED" /\ entry_key'[index] = k
          BY <1>1, <1>3, <2>1
        <4> QED BY <1>1, <4>1, <4>2, ChooseTheSlot
      <3>2. status'[index] = "OCCUPIED" /\ entry_key'[index] = k
        BY <1>1, <1>3, <2>1
      <3>3. Contents'[k] = entry_value'[index]
        BY <1>1, <3>1, <3>2 DEF Contents, Holds
      <3> QED BY <1>1, <1>3, <2>1, <3>3
    <2>2. CASE k # key
      <3>1. \A s \in Slots : Holds(s, k)' <=> Holds(s, k)
        <4>1. ~Holds(index, k)
          BY <1>1 DEF Holds
        <4> QED BY <1>4, <2>2, <4>1
      <3>2. CASE \E s \in Slots : Holds(s, k)
        <4> PICK s \in Slots : Holds(s, k)
          BY <3>2
        <4>1. Contents[k] = entry_value[s]
          BY ContentsOfHeld DEF IInv
        <4>2. s # index
          BY <1>1 DEF Holds
        <4>3. \A t \in Slots : status'[t] = "OCCUPIED" /\ entry_key'[t] = k => t = s
          BY <3>1 DEF Holds, IInv, UniqueKeys
        <4>4. (CHOOSE t \in Slots : status'[t] = "OCCUPIED" /\ entry_key'[t] = k) = s
          BY <3>1, <4>3, ChooseTheSlot DEF Holds
        <4>5. Contents'[k] = entry_value'[s]
          BY <3>1, <4>4 DEF Contents, Holds
        <4> QED BY <1>1, <1>3, <2>2, <4>1, <4>2, <4>5
      <3>3. CASE ~\E s \in Slots : Holds(s, k)
        BY <2>2, <3>1, <3>3 DEF Contents
      <3> QED BY <3>2, <3>3
    <2> QED BY <2>1, <2>2
  <1>6. Contents' = [Contents EXCEPT ![key] = value]
    BY <1>5 DEF Contents
  <1> QED BY <1>1, <1>6 DEF Dict!Add, Serving, Ready

LEMMA RemoveStepRefines == IInv /\ RemoveStep => Dict!Remove \/ UNCHANGED Dict!vars
  <1> SUFFICES ASSUME IInv, RemoveStep PROVE Dict!Remove \/ UNCHANGED Dict!vars
    OBVIOUS
  <1>1. /\ pc = "remove" /\ index \in Slots /\ key \in Keys
        /\ status \in [Slots -> Statuses]
        /\ UNCHANGED <<entry_key, entry_value, key, value, answer>>
        /\ pc' = IF NextSlot(index) = start_index THEN "idle" ELSE "remove"
    BY DEF RemoveStep, IInv, TypeOK, locals
  <1>2. Serving = "remove" /\ Serving' \in {"remove", "none"}
    BY <1>1 DEF Serving, Ready
  <1>3. CASE Holds(index, key)
    <2>1. status' = [status EXCEPT ![index] = "TOMBSTONE"]
      BY <1>3 DEF RemoveStep
    <2>2. \A k \in Keys, s \in Slots :
             Holds(s, k)' <=> Holds(s, k) /\ s # index
      BY <1>1, <2>1 DEF Holds
    <2>3. \A k \in Keys : Contents'[k] = IF k = key THEN NULL ELSE Contents[k]
      <3> TAKE k \in Keys
      <3>1. CASE k = key
        <4>1. \A s \in Slots : ~Holds(s, k)'
          BY <1>1, <1>3, <2>2, <3>1 DEF IInv, UniqueKeys, Holds
        <4> QED BY <3>1, <4>1 DEF Contents
      <3>2. CASE k # key
        <4>1. \A s \in Slots : Holds(s, k)' <=> Holds(s, k)
          BY <1>3, <2>2, <3>2 DEF Holds
        <4>2. CASE \E s \in Slots : Holds(s, k)
          <5> PICK s \in Slots : Holds(s, k)
            BY <4>2
          <5>1. Contents[k] = entry_value[s]
            BY ContentsOfHeld DEF IInv
          <5>2. \A t \in Slots : status'[t] = "OCCUPIED" /\ entry_key'[t] = k => t = s
            BY <4>1 DEF Holds, IInv, UniqueKeys
          <5>3. (CHOOSE t \in Slots : status'[t] = "OCCUPIED" /\ entry_key'[t] = k) = s
            BY <4>1, <5>2, ChooseTheSlot DEF Holds
          <5>4. Contents'[k] = entry_value'[s]
            BY <4>1, <5>3 DEF Contents, Holds
          <5> QED BY <1>1, <3>2, <5>1, <5>4
        <4>3. CASE ~\E s \in Slots : Holds(s, k)
          BY <3>2, <4>1, <4>3 DEF Contents
        <4> QED BY <4>2, <4>3
      <3> QED BY <3>1, <3>2
    <2>4. Contents' = [Contents EXCEPT ![key] = NULL]
      BY <2>3 DEF Contents
    <2> QED BY <1>1, <1>2, <2>4 DEF Dict!Remove
  <1>4. CASE ~Holds(index, key)
    <2>1. UNCHANGED <<status, length>>
      BY <1>4 DEF RemoveStep
    <2>2. Contents' = Contents
      BY <1>1, <2>1 DEF Contents, Holds
    <2>3. CASE pc' = "remove"
      BY <1>1, <1>2, <2>2, <2>3 DEF Dict!vars, Serving, Ready
    <2>4. CASE NextSlot(index) = start_index
      <3>1. Slots = Between(Hash[key], index) \cup {index}
        BY <1>1, <2>4, HashAssumption, BetweenRound DEF IInv, ProbeKnowledge
      <3>2. Absent(key)
        BY <1>1, <1>4, <3>1 DEF IInv, ProbeKnowledge, Absent
      <3>3. Contents' = [Contents EXCEPT ![key] = NULL]
        BY <1>1, <2>2, <3>2, ContentsOfAbsent DEF Contents
      <3> QED BY <1>1, <1>2, <3>3 DEF Dict!Remove
    <2> QED BY <1>1, <2>3, <2>4
  <1> QED BY <1>3, <1>4

LEMMA RemoveStopRefines == IInv /\ RemoveStop => Dict!Remove
  <1> SUFFICES ASSUME IInv, RemoveStop PROVE Dict!Remove
    OBVIOUS
  <1>1. Absent(key) /\ key \in Keys
    BY MissMeansAbsent DEF IInv, ProbeKnowledge, RemoveStop, TypeOK
  <1>2. Contents' = Contents
    BY DEF RemoveStop, table, Contents, Holds
  <1>3. Contents' = [Contents EXCEPT ![key] = NULL]
    BY <1>1, <1>2, ContentsOfAbsent DEF Contents
  <1> QED BY <1>3 DEF RemoveStop, Dict!Remove, Serving, Ready, locals

LEMMA GetRefines ==
    IInv /\ (GetHit \/ GetMiss) => Dict!AnswerGet
  <1> SUFFICES ASSUME IInv, GetHit \/ GetMiss PROVE Dict!AnswerGet
    OBVIOUS
  <1>1. Contents' = Contents
    BY DEF GetHit, GetMiss, table, Contents, Holds
  <1>2. key \in Keys /\ index \in Slots
    BY DEF IInv, TypeOK
  <1>3. CASE GetHit
    <2>1. Contents[key] = entry_value[index]
      BY <1>2, <1>3, ContentsOfHeld DEF GetHit, IInv
    <2> QED BY <1>1, <1>3, <2>1 DEF GetHit, Dict!AnswerGet, Serving, Ready
  <1>4. CASE GetMiss
    <2>1. Absent(key)
      BY <1>2, <1>4, MissMeansAbsent DEF GetMiss, IInv, ProbeKnowledge
    <2>2. Contents[key] = NULL
      BY <1>2, <2>1, ContentsOfAbsent
    <2> QED BY <1>1, <1>4, <2>2 DEF GetMiss, Dict!AnswerGet, Serving, Ready
  <1> QED BY <1>3, <1>4

LEMMA CallRefines ==
    IInv /\ IInv' /\ Calls =>
        \/ \E k \in Keys : Dict!CallGet(k) \/ Dict!CallRemove(k)
        \/ \E k \in Keys, v \in Values : Dict!CallAdd(k, v)
  <1> SUFFICES ASSUME IInv, IInv', Calls
               PROVE  \/ \E k \in Keys : Dict!CallGet(k) \/ Dict!CallRemove(k)
                      \/ \E k \in Keys, v \in Values : Dict!CallAdd(k, v)
    OBVIOUS
  <1>1. Contents' = Contents
    BY DEF Calls, GetCall, RemoveCall, AddCall, table, Contents, Holds
  <1>2. CASE \E k \in Keys : GetCall(k) \/ RemoveCall(k)
    BY <1>1, <1>2 DEF GetCall, RemoveCall, Dict!CallGet, Dict!CallRemove, Serving, Ready
  <1>3. CASE \E v \in Values : AddCall(v)
    <2> PICK v \in Values : AddCall(v)
      BY <1>3
    <2>1. key \in Keys /\ Absent(key)
      BY DEF AddCall, IInv, ProbeKnowledge, TypeOK
    <2>2. Contents[key] = NULL
      BY <2>1, ContentsOfAbsent
    <2>3. pc' = "add"
      BY DEF AddCall, IInv, NeverAborts
    <2>4. Dict!CallAdd(key, v)
      BY <1>1, <2>2, <2>3 DEF AddCall, Dict!CallAdd, Serving, Ready
    <2> QED BY <2>1, <2>4
  <1> QED BY <1>2, <1>3 DEF Calls

LEMMA StepRefines == IInv /\ IInv' /\ [Next]_vars => [Dict!Next]_(Dict!vars)
  <1> SUFFICES ASSUME IInv, IInv', [Next]_vars PROVE [Dict!Next]_(Dict!vars)
    OBVIOUS
  <1>1. CASE Calls
    BY <1>1, CallRefines DEF Dict!Next
  <1>2. CASE GetStep \/ AddStep \/ UNCHANGED vars
    <2>1. Contents' = Contents
      BY <1>2 DEF GetStep, AddStep, vars, table, Contents, Holds
    <2> QED BY <1>2, <2>1 DEF GetStep, AddStep, vars, Dict!vars, Serving, Ready
  <1>3. CASE GetHit \/ GetMiss
    BY <1>3, GetRefines DEF Dict!Next
  <1>4. CASE AddStore
    BY <1>4, AddRefines DEF Dict!Next
  <1>5. CASE RemoveStep
    BY <1>5, RemoveStepRefines DEF Dict!Next
  <1>6. CASE RemoveStop
    BY <1>6, RemoveStopRefines DEF Dict!Next
  <1> QED BY <1>1, <1>2, <1>3, <1>4, <1>5, <1>6 DEF Next, Work

\* The hash table, for every capacity, key set and hash function, implements
\* the dictionary: a get answers the latest value added and not removed, and a
\* remove returns only when its key is gone, tombstones and wrapped probes
\* included.
THEOREM Refinement == Spec => ImplementsDictionary
  <1>1. Init => Dict!Init
    BY InitRefines
  <1>2. IInv /\ IInv' /\ [Next]_vars => [Dict!Next]_(Dict!vars)
    BY StepRefines
  <1> QED BY <1>1, <1>2, InvariantHolds, PTL DEF Spec, Dict!Spec, ImplementsDictionary
=============================================================================
