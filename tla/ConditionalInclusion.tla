------------------------- MODULE ConditionalInclusion -------------------------
(***************************************************************************)
(* What C makes of the directives of a file (6.10.1 and 6.10.2), a line at *)
(* a time: a text line is kept, with the value its macro has there; a      *)
(* directive goes; and at an #if all groups of the conditional are skipped *)
(* at once but the first whose condition holds.                            *)
(***************************************************************************)
EXTENDS Conditionals

CONSTANTS
    Names,      \* macro names
    Headers,    \* the files #include finds: [header name -> lines]
    Files       \* the files: sequences of lines

VARIABLES
    ahead,      \* the lines not read yet
    kept,       \* the lines kept
    env         \* the definitions of the macros

vars == <<ahead, kept, env>>

Init == ahead \in Files /\ kept = <<>> /\ env = [n \in Names |-> NoBody]

Keep(l, value) == kept' = Append(kept, [kind |-> l.kind, body |-> l.body, value |-> value])

Text(l) ==
    /\ l.kind = "text"
    /\ Keep(l, env[l.name])
    /\ ahead' = Tail(ahead) /\ UNCHANGED env

Pragma(l) ==
    /\ l.kind = "pragma"
    /\ Keep(l, NoBody)
    /\ ahead' = Tail(ahead) /\ UNCHANGED env

\* The first definition stands.
Define(l) ==
    /\ l.kind = "define"
    /\ env' = IF env[l.name] # NoBody THEN env ELSE [env EXCEPT ![l.name] = l.body]
    /\ ahead' = Tail(ahead) /\ UNCHANGED kept

Undef(l) ==
    /\ l.kind = "undef"
    /\ env' = [env EXCEPT ![l.name] = NoBody]
    /\ ahead' = Tail(ahead) /\ UNCHANGED kept

\* The header is read in place of the directive.
Include(l) ==
    /\ l.kind = "include"
    /\ ahead' = (IF l.name \in DOMAIN Headers THEN Headers[l.name] ELSE <<>>) \o Tail(ahead)
    /\ UNCHANGED <<kept, env>>

Conditional(l) ==
    /\ l.kind \in IfKinds
    /\ ahead' = Only(ahead, (2..Len(ahead)) \ Skipped(ahead, 1, FALSE, env))
    /\ UNCHANGED <<kept, env>>

\* The directives between the groups, when they are reached.
ElifElseEndif(l) ==
    /\ l.kind \in {"elif", "else", "endif"}
    /\ ahead' = Tail(ahead) /\ UNCHANGED <<kept, env>>

\* The line ahead is read.
Read(l) ==
    \/ Text(l) \/ Pragma(l) \/ Define(l) \/ Undef(l) \/ Include(l)
    \/ Conditional(l) \/ ElifElseEndif(l)

Next == ahead # <<>> /\ Read(ahead[1])

Spec == Init /\ [][Next]_vars
=============================================================================
