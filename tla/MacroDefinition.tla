-------------------------- MODULE MacroDefinition --------------------------
(***************************************************************************)
(* What handle_define_directive, src/src/preprocessor.c, makes of a        *)
(* #define: the tokens after it, which begin with a name and end with      *)
(* their NEWLINE, become a macro.                                          *)
(***************************************************************************)
EXTENDS Integers, Sequences, Functions

\* The parameters from token i on; a comma between two of them may be missing.
Parameters(ts) ==
    LET Bad(i) ==
            \/ ts[i].type # "IDENTIFIER" /\ ts[i].sub # "..."
            \/ ts[i].sub = "..." /\ ts[i + 1].sub # ")"
        from[i \in DOMAIN ts] ==
            IF ts[i].sub = ")" THEN [names |-> <<>>, after |-> i + 1, error |-> FALSE]
            ELSE IF Bad(i) THEN [names |-> <<>>, after |-> i, error |-> TRUE]
            ELSE LET rest == from[IF ts[i + 1].sub = "," THEN i + 2 ELSE i + 1]
                 IN  [rest EXCEPT !.names = <<ts[i].text>> \o @]
    IN  from[3]

IsFunctionLike(ts) == ts[2].sub = "(" /\ ~ts[2].blank

\* A list of parameters with an error in it defines nothing.
Definition(ts) ==
    LET p    == IF IsFunctionLike(ts) THEN Parameters(ts)
                ELSE [names |-> <<>>, after |-> 2, error |-> FALSE]
        body == SubSeq(ts, p.after, Len(ts) - 1)
    IN  [name  |-> ts[1].text,
         error |-> p.error,
         macro |-> [is_function_like |-> IsFunctionLike(ts),
                    params      |-> p.names,
                    replacement |-> [i \in DOMAIN body |->
                        IF body[i].text \in Range(p.names)
                        THEN [body[i] EXCEPT !.type = "ARGUMENT"] ELSE body[i]]]]

\* The macro table after some #defines: the first definition of a name stands.
Defined(lines) ==
    LET d     == [i \in DOMAIN lines |-> Definition(lines[i])]
        valid == {i \in DOMAIN lines : ~d[i].error}
        first(n) == CHOOSE i \in valid : d[i].name = n
                        /\ \A j \in valid : d[j].name = n => i <= j
    IN  [n \in {d[i].name : i \in valid} |-> d[first(n)].macro]
=============================================================================
