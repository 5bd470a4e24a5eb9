-------------------------- MODULE MacroEnvironment --------------------------
(***************************************************************************)
(* What the directives of a source file see of the macros: a map from      *)
(* names to definitions that #define, #undef and the lookup of a token     *)
(* act on.  The first definition of a name stands until an #undef.         *)
(***************************************************************************)
CONSTANTS
    Names,      \* macro names
    Bodies,     \* what a name can be defined as, up to macros_equal
    NULL

VARIABLES
    env,        \* env[n] is the definition of n in force, or NULL
    job,        \* the request being served: "none", "define", "undef", "exists"
    name,       \* its name
    body,       \* the definition of the latest "define"
    reported,   \* the latest "define" reported a duplicate macro
    found       \* what the latest "exists" found

vars == <<env, job, name, body, reported, found>>

Init ==
    /\ env = [n \in Names |-> NULL]
    /\ job = "none"
    /\ name \in Names
    /\ body \in Bodies
    /\ reported = FALSE
    /\ found = NULL

Request(j, n, b) ==
    /\ job = "none"
    /\ job' = j
    /\ name' = n
    /\ body' = b
    /\ reported' = FALSE
    /\ UNCHANGED <<env, found>>

Define ==
    /\ job = "define"
    /\ job' = "none"
    /\ env' = IF env[name] = NULL THEN [env EXCEPT ![name] = body] ELSE env
    /\ reported' = (env[name] \notin {NULL, body})
    /\ UNCHANGED <<name, body, found>>

\* The definition is gone at the latest when the request is served.
Undef ==
    /\ job = "undef"
    /\ job' \in {"undef", "none"}
    /\ env' = [env EXCEPT ![name] = NULL]
    /\ UNCHANGED <<name, body, reported, found>>

Exists ==
    /\ job = "exists"
    /\ job' = "none"
    /\ found' = env[name]
    /\ UNCHANGED <<env, name, body, reported>>

Next ==
    \/ \E n \in Names, b \in Bodies : Request("define", n, b)
    \/ \E n \in Names : Request("undef", n, body) \/ Request("exists", n, body)
    \/ Define \/ Undef \/ Exists

Spec == Init /\ [][Next]_vars
=============================================================================
