-------------------------- MODULE MC_IfExpression --------------------------
(***************************************************************************)
(* Two kinds of lines.  The well-formed ones are built together with the   *)
(* value C gives them, level by level of the C grammar, in the part of it  *)
(* where the code's four levels of precedence are enough: the right        *)
(* operand of +, -, a comparison or an equality is a product, the left one *)
(* has no looser operator, ! is not applied to !, and a ?: is not an       *)
(* operand of another unless it is in parentheses.  The others are all     *)
(* sequences of up to three tokens, of which only the bounds are checked.  *)
(***************************************************************************)
EXTENDS IfExpression

A == Token("IDENTIFIER", "A")
B == Token("IDENTIFIER", "B")
defined == Token("IDENTIFIER", "defined")
Pun(p) == Token("PUNCTUATOR", p)
Num(n) == Constant(n)

\* An expression: its tokens and its value when A is the only macro.
E(t, v) == [t |-> t, v |-> v]

Binary(Ls, os, Rs) ==
    {E(x[1].t \o <<Pun(x[2])>> \o x[3].t, Result(x[2], x[1].v, 0, x[3].v)) :
        x \in {y \in Ls \X os \X Rs : ~(y[2] = "/" /\ y[3].v = 0)}}

Parenthesised(Xs) == {E(<<Pun("(")>> \o x.t \o <<Pun(")")>>, x.v) : x \in Xs}
Negated(Xs)       == {E(<<Pun("!")>> \o x.t, Int01(x.v = 0)) : x \in Xs}

Conditional(Cs, Xs) ==
    {E(x[1].t \o <<Pun("?")>> \o x[2].t \o <<Pun(":")>> \o x[3].t,
       IF x[1].v # 0 THEN x[2].v ELSE x[3].v) : x \in Cs \X Xs \X Xs}

Operand  == {E(<<Num(0)>>, 0), E(<<Num(2)>>, 2), E(<<B>>, 0),
             E(<<defined, A>>, 1), E(<<defined, Pun("("), B, Pun(")")>>, 0)}
Few      == {E(<<Num(2)>>, 2), E(<<defined, B>>, 0)}
Unary    == Operand \cup Negated(Operand)
Product  == Unary \cup Binary(Few, {"*", "/"}, Unary)
Sum      == Product \cup Binary(Product, {"+", "-"}, Product)
FewSums  == Binary(Few, {"-"}, Few) \cup Few
Relation == Binary(Sum, {"<"}, Few) \cup Binary(FewSums, {"<=", ">", ">="}, Product)
Equality == Binary(FewSums \cup Binary(FewSums, {">"}, Few), {"==", "!="}, Product)
FewEqs   == Binary(Few, {"=="}, Few) \cup Few
And      == Binary(FewEqs, {"&&"}, FewEqs \cup Negated(Few))
Or       == Binary(And \cup FewEqs, {"||"}, And \cup FewEqs)
Ternary  == Conditional(And \cup Binary(Few, {"||"}, Few), FewEqs)
                \cup Conditional(Few, Parenthesised(Conditional(Few, Few)))
Nested   == Binary(Few, {"*", "-", "==", "&&"}, Parenthesised(FewSums \cup And))
                \cup Negated(Parenthesised(And))
                \cup Binary(Negated(Parenthesised(FewEqs)), {"||", "*"}, Few)

WellFormed == Product \cup Sum \cup Relation \cup Equality \cup And \cup Or
                \cup Ternary \cup Nested

\* What is expected after t where a is expected.
After(t, a) ==
    CHOOSE b \in {Label(p, o) : p \in Places,
                  o \in {a.open, Append(a.open, "("), Append(a.open, "?")}
                           \cup IF a.open = <<>> THEN {} ELSE {Front(a.open)}} :
        Leads(t, a, b)

LabelsOf(s) ==
    LET label[i \in 1..(Len(s) + 1)] ==
            IF i = 1 THEN Label("operand", <<>>) ELSE After(s[i - 1], label[i - 1])
    IN  label

\* They are conditions in the sense of the theorems, too.
ASSUME MCConditions ==
    \A x \in WellFormed :
        LET label == LabelsOf(x.t)
        IN  label[1] = Label("operand", <<>>) /\ Labelled(x.t, 1, label)

Alphabet == {A, defined, Num(1), Num(0), Token("KEYWORD", ""), Token("BLANK", "")}
                \cup {Pun(p) : p \in {"(", ")", "!", "-", "/", "&", "&&", "?", ":"}}

\* `defined` needs a token after it on its line: without one handle_defined
\* runs into the next line, which this module does not have.
Line(s) == \A i \in 1..Len(s) :
    s[i] = defined =>
        /\ i < Len(s)
        /\ s[i + 1] = Pun("(") => i + 1 < Len(s)

MCSpellings == Operators \cup {"(", ")", ":", "A", "B", "defined"}

MCInputs ==
    {[tokens |-> x.t, macros |-> {"A"}, 
      expected |-> IF x.v # 0 THEN "true" ELSE "false"] : x \in WellFormed}
    \cup
    {[tokens |-> s, macros |-> {"A"}, expected |-> "any"] :
        s \in {r \in UNION {[1..n -> Alphabet] : n \in 0..3} : Line(r)}}
=============================================================================
