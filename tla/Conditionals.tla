----------------------------- MODULE Conditionals -----------------------------
(***************************************************************************)
(* The conditionals of a list of lines: the level of nesting that          *)
(* handle_if_directives of src/src/preprocessor.c counts, what the         *)
(* theorems ask of a file, and the lines that C skips.                     *)
(***************************************************************************)
EXTENDS Integers, Sequences, FiniteSetsExt

NoBody == 0         \* the definition of a name that is not a macro

IfKinds == {"if", "ifdef", "ifndef"}

\* The nesting level before line i, counted from line `from`.
Level(lines, from, i) ==
    Quantify(from..(i - 1), LAMBDA j : lines[j].kind \in IfKinds)
        - Quantify(from..(i - 1), LAMBDA j : lines[j].kind = "endif")

\* Line j, of one of the kinds, is a directive of the conditional that line i begins
\* or goes on with.
InChain(lines, i, j, kinds) ==
    /\ lines[j].kind \in kinds /\ Level(lines, i + 1, j) = 0
    /\ \A k \in (i + 1)..j : Level(lines, i + 1, k) >= 0

ElifOf(lines, i, j) == InChain(lines, i, j, {"elif"})

-----------------------------------------------------------------------------
(* What the theorems ask of a file *)

\* Every directive ends in a newline.
Terminated(lines) == \A i \in DOMAIN lines : lines[i].kind # "text" => lines[i].eol

\* Every group is ended, at the latest by the #endif of its conditional.
Closed(lines) ==
    \A i \in DOMAIN lines : lines[i].kind \in IfKinds \cup {"elif", "else"} =>
        \E k \in (i + 1)..Len(lines) :
            lines[k].kind = "endif" /\ Level(lines, i + 1, k) = 0

\* No conditional has three #elifs.
Short(lines) ==
    \A i \in DOMAIN lines : lines[i].kind \in IfKinds =>
        ~ \E j, k, l \in (i + 1)..Len(lines) :
              /\ j < k /\ k < l
              /\ ElifOf(lines, i, j) /\ ElifOf(lines, i, k) /\ ElifOf(lines, i, l)

\* The name behind the `defined` of line l is in parentheses.
Parenthesised(l) == l.name # "" /\ l.body = 1

\* No #elif has parentheses behind its `defined`.
BareElifs(lines) ==
    \A i \in DOMAIN lines : lines[i].kind = "elif" => ~Parenthesised(lines[i])

\* No conditional goes on behind its #else.
ElseLast(lines) ==
    \A i \in DOMAIN lines : lines[i].kind \in IfKinds =>
        ~ \E j, k \in (i + 1)..Len(lines) :
              j < k /\ InChain(lines, i, j, {"else"}) /\ InChain(lines, i, k, {"elif", "else"})

-----------------------------------------------------------------------------
(* The lines that C skips *)

\* The condition of the group that line l begins.
Holds(l, env) ==
    CASE l.kind = "else"   -> TRUE
      [] l.kind = "endif"  -> FALSE
      [] l.kind = "ifdef"  -> env[l.name] # NoBody
      [] l.kind = "ifndef" -> env[l.name] = NoBody
      [] OTHER             -> IF l.name = "" THEN l.body # 0 ELSE env[l.name] # NoBody

\* The directives of a conditional from line a on.
Groups(lines, a) ==
    {a} \cup {i \in (a + 1)..Len(lines) : InChain(lines, a, i, {"elif", "else", "endif"})}

\* Line i is in the group that line c begins.
InGroup(groups, c, i) == c < i /\ \A g \in groups : g <= c \/ i < g

\* The first group whose condition holds.
Chosen(lines, groups, env) ==
    {c \in groups : /\ Holds(lines[c], env)
                    /\ \A b \in groups : b < c => ~Holds(lines[b], env)}

\* The lines of the other groups, and of all if one has been taken before line a.
Skipped(lines, a, taken, env) ==
    LET groups == Groups(lines, a)
        chosen == IF taken THEN {} ELSE Chosen(lines, groups, env)
    IN  {i \in ((a + 1)..Len(lines)) \ groups :
            /\ lines[a].kind # "endif"
            /\ \A c \in chosen : ~InGroup(groups, c, i)
            /\ \A k \in (a + 1)..i : Level(lines, a + 1, k) >= 0}

\* The lines whose numbers are in I.
Only(lines, I) ==
    LET first[n \in 0..Len(lines)] ==
            IF n = 0 THEN <<>>
            ELSE IF n \in I THEN Append(first[n - 1], lines[n]) ELSE first[n - 1]
    IN  first[Len(lines)]
=============================================================================
