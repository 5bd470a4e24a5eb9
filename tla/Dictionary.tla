----------------------------- MODULE Dictionary -----------------------------
(***************************************************************************)
(* What a client of the hash table (src/src/hash_table.h) relies on: a     *)
(* partial map from keys to values, used through three calls that run one  *)
(* at a time.  Slots, hashing and tombstones are not visible here.         *)
(***************************************************************************)
CONSTANTS
    Keys,       \* the names that can be looked up
    Values,     \* what a name can stand for
    NULL        \* the answer of a get for a name that is absent

VARIABLES
    dict,       \* the map: dict[k] is the value of k, or NULL
    call,       \* the call being served: "none", "get", "add" or "remove"
    key,        \* the key argument of the latest call
    value,      \* the value argument of the latest add
    answer      \* what the latest get returned

vars == <<dict, call, key, value, answer>>

Init ==
    /\ dict = [k \in Keys |-> NULL]
    /\ call = "none"
    /\ key \in Keys
    /\ value \in Values
    /\ answer = NULL

CallGet(k) ==
    /\ call = "none"
    /\ call' = "get"
    /\ key' = k
    /\ UNCHANGED <<dict, value, answer>>

AnswerGet ==
    /\ call = "get"
    /\ call' = "none"
    /\ answer' = dict[key]
    /\ UNCHANGED <<dict, key, value>>

\* A client adds only a key that is absent.
CallAdd(k, v) ==
    /\ call = "none"
    /\ dict[k] = NULL
    /\ call' = "add"
    /\ key' = k
    /\ value' = v
    /\ UNCHANGED <<dict, answer>>

Add ==
    /\ call = "add"
    /\ call' = "none"
    /\ dict' = [dict EXCEPT ![key] = value]
    /\ UNCHANGED <<key, value, answer>>

CallRemove(k) ==
    /\ call = "none"
    /\ call' = "remove"
    /\ key' = k
    /\ UNCHANGED <<dict, value, answer>>

\* A remove deletes its key, and may return in the step that deletes it or
\* later, but never while the key is present.
Remove ==
    /\ call = "remove"
    /\ dict' = [dict EXCEPT ![key] = NULL]
    /\ call' \in {"remove", "none"}
    /\ UNCHANGED <<key, value, answer>>

Next ==
    \/ \E k \in Keys : CallGet(k) \/ CallRemove(k)
    \/ \E k \in Keys, v \in Values : CallAdd(k, v)
    \/ AnswerGet \/ Add \/ Remove

Spec == Init /\ [][Next]_vars
=============================================================================
