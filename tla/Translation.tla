----------------------------- MODULE Translation -----------------------------
(***************************************************************************)
(* The driver, src/src/main.c, from the token list on: the macros in the   *)
(* text are expanded, initialise_parser copies the list to the token       *)
(* stream, and the parser parses one expression.                           *)
(***************************************************************************)
EXTENDS MacroExpansion, Parser

VARIABLE parsed     \* what Parse returned, or NotYet

NotYet == [node |-> ERROR, s |-> [pos |-> 0, error |-> FALSE, stuck |-> "not yet"]]

\* The tokens of the list, without its head.
Tokens ==
    LET c == Chain(list, list[1].next) IN [i \in DOMAIN c |-> list[c[i]].token]

\* initialise_parser: BLANK tokens are kept.
token_stream == SelectSeq(Tokens, LAMBDA t : t.type \notin {"END", "NEWLINE"})

Ready == Init /\ parsed = NotYet

Expand == Next /\ UNCHANGED parsed

\* What the build has beyond two tables (see Parser): padding or the table of
\* assignments after the one, anything after the other.
Beyond == [op : {NONE, "="}, comma : BOOLEAN]

ParseTokens ==
    /\ status = "expanded" /\ parsed = NotYet
    /\ \E u \in Beyond : parsed' = Parse(token_stream, u)
    /\ UNCHANGED vars

\* create_ast_tree has printed the expression and exits, or the expansion went
\* wrong.
Exit ==
    /\ parsed # NotYet \/ status \notin {"running", "expanded"}
    /\ UNCHANGED <<vars, parsed>>

Translate == Expand \/ ParseTokens \/ Exit

\* The program is sequential: while it runs, it takes its next step.  This is
\* WF of Expand, as Expand is enabled in every state of status "running"; a
\* state in which it is not would be a deadlock.
Translations ==
    /\ Ready
    /\ [][Translate]_<<vars, parsed>>
    /\ []<>(status # "running") \/ []<><<Expand>>_<<vars, parsed>>

=============================================================================
