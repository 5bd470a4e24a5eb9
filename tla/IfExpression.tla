---------------------------- MODULE IfExpression ----------------------------
(***************************************************************************)
(* The controlling expression of #if and #elif: evaluate_if and            *)
(* handle_defined of src/src/preprocessor.c, with the precedence table of  *)
(* common.c.  The tokens of the line go through a shunting yard, one per   *)
(* step, into RPN_tokens, which is then evaluated on number_stack.         *)
(* Macros have been expanded before.  The arrays of 64 entries are         *)
(* unbounded here; StackRoom says what they need.                          *)
(***************************************************************************)
EXTENDS Integers, Sequences, SequencesExt

CONSTANTS
    Spellings,  \* of identifiers and punctuators
    Inputs      \* the lines: records [tokens, macros, expected]

\* A token has a type, the spelling of an IDENTIFIER or a PUNCTUATOR, and the
\* int of a CONSTANT.
token_type == {"KEYWORD", "IDENTIFIER", "CONSTANT", "STRING_LITERAL", "PUNCTUATOR",
               "DIRECTIVE", "HEADER_NAME", "NEWLINE", "BLANK", "ARGUMENT", "END"}

AnyToken == [type : token_type, lexeme : Spellings \cup {""}, int : Int]

ASSUME InputsAssumption == \A input \in Inputs : input.tokens \in Seq(AnyToken)

Token(type, lexeme) == [type |-> type, lexeme |-> lexeme, int |-> 0]
Constant(n)         == [type |-> "CONSTANT", lexeme |-> "", int |-> n]
IsPun(t, p)         == t.type = "PUNCTUATOR" /\ t.lexeme = p

Operators == {"!", "*", "/", "%", "+", "-", "<", ">", "<=", ">=", "==", "!=",
              "&", "&&", "||", "?"}

\* Faulty: || binds tighter than &&.
PrecedenceSwapped ==
    [o \in Operators \cup {"("} |->
        CASE o = "!"              -> 2
          [] o \in {"*", "/", "%"} -> 1
          [] o = "&&"             -> -2
          [] o = "||"             -> -1
          [] o = "?"              -> -5
          [] o = "("              -> -10
          [] OTHER                -> 0]

\* operator_precedence: every operator it does not name has 0.
Precedence ==
    [o \in Operators \cup {"("} |->
        CASE o = "!"              -> 2
          [] o \in {"*", "/", "%"} -> 1
          [] o = "&&"             -> -1
          [] o = "||"             -> -2
          [] o = "?"              -> -5
          [] o = "("              -> -10
          [] OTHER                -> 0]

VARIABLES
    tokens,         \* the tokens of the line after #if, up to its NEWLINE
    macros,         \* the names that are macros
    expected,       \* what the line is worth in C: "true", "false" or "any"
    pc,             \* "scan", "evaluate", "done", or how the program came to
                    \* grief: "underflow" (undefined behaviour), "trap"
    at,             \* the token looked at
    RPN_tokens,
    op_stack,
    number_stack,
    cond            \* the value returned

vars == <<tokens, macros, expected, pc, at, RPN_tokens, op_stack, number_stack, cond>>
line == <<tokens, macros, expected>>

Init ==
    /\ \E input \in Inputs : /\ tokens = input.tokens
                             /\ macros = input.macros
                             /\ expected = input.expected
    /\ pc = "scan"
    /\ at = 1
    /\ RPN_tokens = <<>>
    /\ op_stack = <<>>
    /\ number_stack = <<>>
    /\ cond = FALSE

-----------------------------------------------------------------------------
(* The shunting yard *)

Scanning == pc = "scan" /\ at <= Len(tokens)

\* The number of operators left on the stack when those above the topmost one
\* of which Stop holds are popped.
Left(Stop(_)) ==
    Max({0} \cup {i \in 1..Len(op_stack) : Stop(op_stack[i])})

PopTo(n) == RPN_tokens \o Reverse(SubSeq(op_stack, n + 1, Len(op_stack)))

\* handle_defined makes `defined X` or `defined ( X )` the constant 1 or 0; a
\* parenthesis that is not closed stays open.
HandleDefined ==
    LET open   == at < Len(tokens) /\ IsPun(tokens[at + 1], "(")
        x      == IF open THEN at + 2 ELSE at + 1
        closed == open /\ x < Len(tokens) /\ IsPun(tokens[x + 1], ")")
        known  == tokens[x].type = "IDENTIFIER" /\ tokens[x].lexeme \in macros
    IN  SubSeq(tokens, 1, at - 1)
            \o <<Token("BLANK", ""), Constant(IF known THEN 1 ELSE 0)>>
            \o SubSeq(tokens, IF closed THEN x + 2 ELSE x + 1, Len(tokens))

ScanDefined ==
    /\ Scanning
    /\ tokens[at].type = "IDENTIFIER" /\ tokens[at].lexeme = "defined"
    /\ tokens' = HandleDefined
    /\ at' = at + 1
    /\ UNCHANGED <<macros, expected, pc, RPN_tokens, op_stack, number_stack, cond>>

\* An identifier that is not a macro counts as 0.
ScanOperand ==
    /\ Scanning
    /\ \/ tokens[at].type = "CONSTANT"
       \/ tokens[at].type = "IDENTIFIER" /\ tokens[at].lexeme # "defined"
    /\ RPN_tokens' = Append(RPN_tokens,
                            IF tokens[at].type = "CONSTANT" THEN tokens[at]
                            ELSE Constant(0))
    /\ at' = at + 1
    /\ UNCHANGED <<line, pc, op_stack, number_stack, cond>>

ScanLeftParenthesis ==
    /\ Scanning
    /\ IsPun(tokens[at], "(")
    /\ op_stack' = Append(op_stack, tokens[at])
    /\ at' = at + 1
    /\ UNCHANGED <<line, pc, RPN_tokens, number_stack, cond>>

\* The parenthesis it stops at is dropped, and if there is none the stack
\* pointer leaves the stack.
ScanRightParenthesis ==
    /\ Scanning
    /\ IsPun(tokens[at], ")")
    /\ LET n == Left(LAMBDA o : o.lexeme = "(")
       IN  /\ RPN_tokens' = PopTo(n)
           /\ op_stack' = SubSeq(op_stack, 1, n - 1)
           /\ pc' = IF n = 0 THEN "underflow" ELSE "scan"
    /\ at' = at + 1
    /\ UNCHANGED <<line, number_stack, cond>>

\* The '?' is kept.
ScanColon ==
    /\ Scanning
    /\ IsPun(tokens[at], ":")
    /\ LET n == Left(LAMBDA o : o.lexeme = "?")
       IN  /\ RPN_tokens' = PopTo(n)
           /\ op_stack' = SubSeq(op_stack, 1, n)
    /\ at' = at + 1
    /\ UNCHANGED <<line, pc, number_stack, cond>>

\* Faulty: the operators that are output stay on the stack.
ScanOperatorUnpopped ==
    /\ Scanning
    /\ tokens[at].type = "PUNCTUATOR" /\ tokens[at].lexeme \in Operators
    /\ LET n == Left(LAMBDA o : Precedence[tokens[at].lexeme] > Precedence[o.lexeme])
       IN  /\ RPN_tokens' = PopTo(n)
           /\ op_stack' = Append(op_stack, tokens[at])
    /\ at' = at + 1
    /\ UNCHANGED <<line, pc, number_stack, cond>>

ScanOperator ==
    /\ Scanning
    /\ tokens[at].type = "PUNCTUATOR" /\ tokens[at].lexeme \in Operators
    /\ LET n == Left(LAMBDA o : Precedence[tokens[at].lexeme] > Precedence[o.lexeme])
       IN  /\ RPN_tokens' = PopTo(n)
           /\ op_stack' = Append(SubSeq(op_stack, 1, n), tokens[at])
    /\ at' = at + 1
    /\ UNCHANGED <<line, pc, number_stack, cond>>

\* Faulty: the token made by handle_defined is taken for an operand, or is not
\* passed at all.
ScanBlankAsOperand ==
    /\ Scanning
    /\ tokens[at].type = "BLANK"
    /\ RPN_tokens' = Append(RPN_tokens, tokens[at])
    /\ at' = at + 1
    /\ UNCHANGED <<line, pc, op_stack, number_stack, cond>>

ScanBlankStays ==
    /\ Scanning
    /\ tokens[at].type = "BLANK"
    /\ UNCHANGED vars

ScanBlank ==
    /\ Scanning
    /\ tokens[at].type = "BLANK"
    /\ at' = at + 1
    /\ UNCHANGED <<line, pc, RPN_tokens, op_stack, number_stack, cond>>

\* "Expected punctuator": a keyword or a string makes the condition false.
ScanOther ==
    /\ Scanning
    /\ tokens[at].type \notin {"IDENTIFIER", "CONSTANT", "PUNCTUATOR", "BLANK"}
    /\ pc' = "done"
    /\ cond' = FALSE
    /\ UNCHANGED <<line, at, RPN_tokens, op_stack, number_stack>>

ScanEnd ==
    /\ pc = "scan" /\ at = Len(tokens) + 1
    /\ RPN_tokens' = PopTo(0)
    /\ op_stack' = <<>>
    /\ at' = 1
    /\ pc' = "evaluate"
    /\ UNCHANGED <<line, number_stack, cond>>

-----------------------------------------------------------------------------
(* The evaluation of RPN_tokens *)

Evaluating == pc = "evaluate" /\ at <= Len(RPN_tokens)

EvaluateConstant ==
    /\ Evaluating
    /\ RPN_tokens[at].type = "CONSTANT"
    /\ number_stack' = Append(number_stack, RPN_tokens[at].int)
    /\ at' = at + 1
    /\ UNCHANGED <<line, pc, RPN_tokens, op_stack, cond>>

\* Faulty: ! takes two operands.
ArityOfBinary(o) == IF o = "?" THEN 3 ELSE 2

Arity(o) == CASE o = "!" -> 1 [] o = "?" -> 3 [] OTHER -> 2

Int01(b) == IF b THEN 1 ELSE 0

\* The operators the switch knows; l / r truncates towards zero.
Known == Operators \ {"%", "&"}
Result(o, l, m, r) ==
    CASE o = "+"  -> l + r
      [] o = "-"  -> l - r
      [] o = "*"  -> l * r
      [] o = "/"  -> IF (l < 0) = (r < 0)
                     THEN (IF l < 0 THEN -l ELSE l) \div (IF r < 0 THEN -r ELSE r)
                     ELSE -((IF l < 0 THEN -l ELSE l) \div (IF r < 0 THEN -r ELSE r))
      [] o = "&&" -> Int01(l # 0 /\ r # 0)
      [] o = "||" -> Int01(l # 0 \/ r # 0)
      [] o = ">"  -> Int01(l > r)
      [] o = ">=" -> Int01(l >= r)
      [] o = "<"  -> Int01(l < r)
      [] o = "<=" -> Int01(l <= r)
      [] o = "==" -> Int01(l = r)
      [] o = "!=" -> Int01(l # r)
      [] o = "!"  -> Int01(r = 0)
      [] o = "?"  -> IF l # 0 THEN m ELSE r

\* Pops below the bottom of number_stack are undefined behaviour, a division
\* by zero traps, and an operator the switch does not know ("Unknown
\* operator") makes the condition false.
EvaluateOperator ==
    /\ Evaluating
    /\ RPN_tokens[at].type = "PUNCTUATOR"
    /\ LET o     == RPN_tokens[at].lexeme
           n     == Len(number_stack)
           r     == number_stack[n]
           m     == number_stack[n - 1]
           l     == number_stack[n - Arity(o) + 1]
           trap  == o = "/" /\ r = 0
       IN  IF n < Arity(o)
           THEN pc' = "underflow" /\ UNCHANGED <<number_stack, at>>
           ELSE IF o \notin Known
           THEN pc' = "done" /\ UNCHANGED <<number_stack, at>>
           ELSE IF trap
           THEN pc' = "trap" /\ UNCHANGED <<number_stack, at>>
           ELSE /\ number_stack' =
                       Append(SubSeq(number_stack, 1, n - Arity(o)), Result(o, l, m, r))
                /\ at' = at + 1
                /\ UNCHANGED pc
    /\ UNCHANGED <<line, RPN_tokens, op_stack, cond>>

\* number_stack[0] is returned as a bool; an expression with no operand leaves
\* it uninitialized.
Return ==
    /\ pc = "evaluate" /\ at = Len(RPN_tokens) + 1
    /\ cond' \in IF number_stack = <<>> THEN BOOLEAN ELSE {number_stack[1] # 0}
    /\ pc' = "done"
    /\ UNCHANGED <<line, at, RPN_tokens, op_stack, number_stack>>

-----------------------------------------------------------------------------
Next ==
    \/ ScanDefined \/ ScanOperand \/ ScanLeftParenthesis \/ ScanRightParenthesis
    \/ ScanColon \/ ScanOperator \/ ScanBlank \/ ScanOther \/ ScanEnd
    \/ EvaluateConstant \/ EvaluateOperator \/ Return

Spec == Init /\ [][Next]_vars

\* The program is sequential.
FairSpec == Spec /\ WF_vars(Next)

-----------------------------------------------------------------------------
(* What the theorems ask of a line *)

\* What the grammar expects at a token, and the brackets that are open there,
\* of which a "?" is one until its ":".
Places == {"operand", "negated", "operator", "defined", "opened", "named"}
Labels == [place : Places, open : Seq({"(", "?"})]

Label(place, open) == [place |-> place, open |-> open]
Innermost(a, p)    == a.open # <<>> /\ Last(a.open) = p

\* Where t is what a expects, b is what is expected next.  A `!` is not applied
\* to a `!`, and a `?` is not between another `?` and its `:`.
Leads(t, a, b) ==
    \/ /\ t.type = "BLANK" /\ a.place \in {"operand", "negated", "operator"}
       /\ b = a
    \/ /\ a.place \in {"operand", "negated"}
       /\ \/ t.type = "CONSTANT" /\ b = Label("operator", a.open)
          \/ /\ t.type = "IDENTIFIER"
             /\ b = Label(IF t.lexeme = "defined" THEN "defined" ELSE "operator", a.open)
          \/ IsPun(t, "(") /\ b = Label("operand", Append(a.open, "("))
          \/ IsPun(t, "!") /\ a.place = "operand" /\ b = Label("negated", a.open)
    \/ /\ a.place = "operator"
       /\ \/ IsPun(t, ")") /\ Innermost(a, "(") /\ b = Label("operator", Front(a.open))
          \/ IsPun(t, ":") /\ Innermost(a, "?") /\ b = Label("operand", Front(a.open))
          \/ IsPun(t, "?") /\ ~Innermost(a, "?") /\ b = Label("operand", Append(a.open, "?"))
          \/ /\ t.type = "PUNCTUATOR" /\ t.lexeme \in Operators \ {"!", "?"}
             /\ b = Label("operand", a.open)
    \/ /\ a.place = "defined"
       /\ \/ t.type = "IDENTIFIER" /\ b = Label("operator", a.open)
          \/ IsPun(t, "(") /\ b = Label("opened", a.open)
    \/ /\ a.place = "opened" /\ t.type = "IDENTIFIER" /\ b = Label("named", a.open)
    \/ /\ a.place = "named" /\ IsPun(t, ")") /\ b = Label("operator", a.open)

\* From token i on, label says what is expected at each token, up to the end of
\* the condition.
Labelled(s, i, label) ==
    /\ label[Len(s) + 1] = Label("operator", <<>>)
    /\ \A j \in i..Len(s) : Leads(s[j], label[j], label[j + 1])

\* A condition by its grammar, without what its operators bind.
Condition(s) ==
    \E label \in [1..(Len(s) + 1) -> Labels] :
        label[1] = Label("operand", <<>>) /\ Labelled(s, 1, label)

-----------------------------------------------------------------------------
TypeOK ==
    /\ pc \in {"scan", "evaluate", "done", "underflow", "trap"}
    /\ at \in 1..(Len(tokens) + Len(RPN_tokens) + 1)
    /\ \A i \in 1..Len(op_stack) : op_stack[i].type = "PUNCTUATOR"
    /\ \A i \in 1..Len(RPN_tokens) : RPN_tokens[i].type \in {"CONSTANT", "PUNCTUATOR"}
    /\ \A i \in 1..Len(number_stack) : number_stack[i] \in Int
    /\ cond \in BOOLEAN

\* A condition has the value the C grammar gives it, and does not divide by 0.
AgreesWithC ==
    expected # "any" =>
        /\ pc # "trap"
        /\ pc = "done" => (cond <=> expected = "true")

\* A well-formed condition never pops an empty stack, neither the operators at
\* a parenthesis nor the operands at an operator.
NoUnderflow == expected # "any" => pc # "underflow"

\* The stacks never hold more than the tokens read: 64 entries are enough for
\* a line of 64 tokens, whatever it says.
StackRoom ==
    /\ pc = "scan" => Len(RPN_tokens) + Len(op_stack) < at
    /\ Len(RPN_tokens) <= Len(tokens)
    /\ pc = "evaluate" => Len(number_stack) < at

\* The evaluation of every line ends.
Ends == <>(pc \in {"done", "underflow", "trap"})
=============================================================================
