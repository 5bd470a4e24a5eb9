---------------------------- MODULE MC_Directives ----------------------------
(***************************************************************************)
(* The documents: chains of up to two #elif with every mix of conditions   *)
(* and of groups that use A, define it, or undefine and use it, after a    *)
(* prologue that leaves A defined or not; a chain inside a group of a      *)
(* chain; and includes of guarded headers that include each other.         *)
(* Meaning is what C makes of a file, in one pass with a stack of          *)
(* conditionals, and shares nothing with handle_if_directives.             *)
(***************************************************************************)
EXTENDS Directives, TLC

Use(n)       == Line("text", "A", n)
DefineA(n)   == Line("define", "A", n)
UndefA       == Line("undef", "A", 0)
IncludeH(h)  == Line("include", h, 0)
If0 == Line("if", "", 0)        If1 == Line("if", "", 1)
Elif0 == Line("elif", "", 0)    Elif1 == Line("elif", "", 1)
ElifA == Line("elif", "A", 0)     \* defined A
IfInA == Line("if", "A", 1)       \* defined(A)
ElifInA == Line("elif", "A", 1)
IfdefA == Line("ifdef", "A", 0) IfndefA == Line("ifndef", "A", 0)
Else == Line("else", "", 0)     Endif == Line("endif", "", 0)
Unterminated(l) == [l EXCEPT !.eol = FALSE]

-----------------------------------------------------------------------------
\* conditionals: one [live, taken, outer] per open #if; a line counts when all
\* of them are live.
RECURSIVE Meaning(_, _, _, _)
Meaning(lines, env, conditionals, kept) ==
    IF lines = <<>> THEN [out |-> kept, macros |-> env]
    ELSE
    LET l    == Head(lines)
        next == Tail(lines)
        top  == conditionals[Len(conditionals)]
        live == \A i \in 1..Len(conditionals) : conditionals[i].live
        pop  == SubSeq(conditionals, 1, Len(conditionals) - 1)
        holds == CASE l.kind = "ifdef"  -> env[l.name] # NoBody
                   [] l.kind = "ifndef" -> env[l.name] = NoBody
                   [] OTHER -> IF l.name = "" THEN l.body = 1 ELSE env[l.name] # NoBody
    IN  CASE l.kind \in IfKinds ->
               Meaning(next, env, Append(conditionals, [live |-> holds, taken |-> holds]), kept)
          [] l.kind = "elif" ->
               Meaning(next, env,
                       Append(pop, [live |-> ~top.taken /\ holds,
                                    taken |-> top.taken \/ holds]), kept)
          [] l.kind = "else" ->
               Meaning(next, env, Append(pop, [live |-> ~top.taken, taken |-> TRUE]), kept)
          [] l.kind = "endif" -> Meaning(next, env, pop, kept)
          [] ~live -> Meaning(next, env, conditionals, kept)
          [] l.kind = "text" ->
               Meaning(next, env, conditionals,
                       Append(kept, [kind |-> "text", body |-> l.body, value |-> env[l.name]]))
          [] l.kind = "define" ->
               Meaning(next, IF env[l.name] = NoBody THEN [env EXCEPT ![l.name] = l.body] ELSE env,
                       conditionals, kept)
          [] l.kind = "undef" ->
               Meaning(next, [env EXCEPT ![l.name] = NoBody], conditionals, kept)
          [] l.kind = "include" ->
               Meaning((IF l.name \in DOMAIN Headers THEN Headers[l.name] ELSE <<>>) \o next,
                       env, conditionals, kept)
          [] l.kind = "pragma" ->
               Meaning(next, env, conditionals,
                       Append(kept, [kind |-> "pragma", body |-> l.body, value |-> NoBody]))

\* The lines kept, the values of the macros used in them and the macros left at
\* the end are those of C.
AgreesWithC ==
    pc = "done" =>
        [out |-> out, macros |-> macros] =
            Meaning(document, [n \in Names |-> NoBody], <<>>, <<>>)

-----------------------------------------------------------------------------
Bodies(n)  == {<<Use(n)>>, <<DefineA(n)>>, <<UndefA, Use(n)>>}
LastBodies(n) == {<<Use(n)>>, <<DefineA(n)>>}
Prologues  == {<<>>, <<DefineA(9)>>}
Ifs        == {If0, If1, IfdefA, IfndefA}
Elifs      == {Elif0, Elif1, ElifA}

Cat(X, Y)  == {x \o y : x \in X, y \in Y}
One(ls)    == {<<l>> : l \in ls}
Opt(X)     == X \cup {<<>>}

IfPart     == Cat(One(Ifs), Bodies(1))
IfInPart   == Cat(One({IfInA}), Bodies(1))
ElifPart(n) == Cat(One(Elifs), Bodies(n))
LastElifPart(n) == Cat(One(Elifs), LastBodies(n))
ElsePart   == Opt(Cat({<<Else>>}, LastBodies(4)))

Chains == UNION {
    Cat(IfPart \cup IfInPart, Cat(ElsePart, {<<Endif>>})),
    Cat(IfPart \cup IfInPart, Cat(ElifPart(2), Cat(ElsePart, {<<Endif>>}))),
    Cat(IfPart, Cat(ElifPart(2), Cat(LastElifPart(3), Cat(ElsePart, {<<Endif>>})))) }

SmallChains ==
    Cat(One({If0, IfdefA}), Cat({<<Use(5)>>}, Cat(Opt({<<Elif1, DefineA(6)>>}),
        Cat(Opt({<<Else, Use(7)>>}), {<<Endif>>}))))

NestedChains ==
    Cat(One({If0, If1, IfndefA}), Cat(SmallChains,
        Cat(Opt({<<Elif1, Use(2)>>}), Cat(Opt(Cat({<<Else>>}, SmallChains)), {<<Endif>>}))))

Including ==
    {<<IncludeH("guarded"), Use(1), IncludeH("guarded"), Use(2)>>,
     <<IncludeH("ping"), Use(1)>>,
     <<IncludeH("missing"), Use(1), Line("pragma", "once", 1), Use(2)>>,
     <<IfdefA, IncludeH("guarded"), Endif, Use(1)>>,
     <<IncludeH("guarded"), IfdefA, IncludeH("ping"), Else, Use(1), Endif, Use(2)>>,
     <<If0, IncludeH("guarded"), Else, IncludeH("text"), Endif, Use(1)>>}

MCHeaders ==
    "guarded" :> <<IfndefA, DefineA(3), Use(10), Endif>> @@
    "text"    :> <<Use(11), Unterminated(Use(12))>> @@
    "ping"    :> <<Line("ifndef", "G", 0), Line("define", "G", 1), IncludeH("pong"),
                   Use(13), Endif>> @@
    "self"    :> <<Use(16), IncludeH("self")>> @@
    "pong"    :> <<IncludeH("ping"), Use(14), IncludeH("guarded"), Use(15)>>

MCEndless == {<<Use(1), IncludeH("self")>>, <<Use(1), Line("pragma", "", 0), Use(2)>>}

MCDocuments ==
    Cat(Prologues, Cat(Chains, {<<Use(8)>>}))
        \cup Cat({<<>>, <<DefineA(9)>>}, Cat(NestedChains, {<<Use(8)>>}))
        \cup Including \cup MCEndless

\* These documents and headers are files of the kind the theorems are about.
ASSUME MCFilesAreWhole ==
    Documents = MCDocuments => \A f \in Files :
            /\ Terminated(f) /\ Closed(f) /\ Short(f) /\ ElseLast(f) /\ BareElifs(f)

-----------------------------------------------------------------------------
(* Documents on which the code and its comments part *)

ThreeElifs ==
    {<<If0, Use(1), e1, Use(2), e2, Use(3), e3, Use(4), Endif, Use(5)>> :
        e1, e2, e3 \in {Elif0, Elif1}}

\* An #elif that asks for a macro with parentheses: AgreesWithC fails on these, in
\* the text kept.
AskingElifs ==
    {<<DefineA(9), If0, Use(1), ElifInA, Use(2), Else, Use(3), Endif>>,
     <<IfndefA, DefineA(9), Endif, If0, ElifInA, Use(1), Endif>>}

\* A #pragma with nothing after it, which C allows.
PragmaDocuments == {<<Line("pragma", "", 0), Use(1)>>, <<Line("pragma", "once", 0), Use(1)>>}

OpenHeaders == "open" :> <<IfndefA, DefineA(3), Unterminated(Endif)>>
OpenDocuments == {<<IncludeH("open"), Use(1), Use(2)>>, <<Use(1), IncludeH("open"), Use(2)>>}
=============================================================================
