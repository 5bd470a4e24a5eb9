------------------------------- MODULE Parser -------------------------------
(***************************************************************************)
(* The expression parser, src/src/parser.c: one operator per production.   *)
(* A production takes the state of the parser, [pos, error, stuck], and    *)
(* returns [node, s].  pos is tk_stream_pos; error is whether ast_error    *)
(* was called; stuck is "" or how the parser got no further.               *)
(*                                                                         *)
(* A node is [op, tk, kids]; its type, which nothing reads, is left out.   *)
(* ERROR is the address of error_node.  Each operator takes u, what the    *)
(* build has beyond two tables the code reads past the end of: u.op beyond *)
(* pun_to_op, and u.comma, whether what operator_precedence has for a      *)
(* comma is at least 0.                                                    *)
(***************************************************************************)
EXTENDS Integers, Sequences

ERROR == [op |-> "error_node", tk |-> <<>>, kids |-> <<>>]
NONE  == "NONE"

\* A token is [type, sub, text]; sub is the punctuator or the keyword it is.
END_TOKEN == [type |-> "END", sub |-> "", text |-> <<>>]

assignment_ops == {"=", "*=", "/=", "%=", "+=", "-=", "<<=", ">>=", "&=", "^=", "|="}
unary_ops      == {"&", "*", "+", "-", "~", "!"}

\* binary_expressions, each with the operators of its production
binary_ops ==
    <<{"*", "/", "%"}, {"+", "-"}, {"<<", ">>"}, {"<", ">", "<=", ">="}, {"==", "!="},
      {"&"}, {"^"}, {"|"}, {"&&"}, {"||"}>>
LOGICAL_OR_EXPR == Len(binary_ops)

\* Faulty: the levels of precedence run the other way.
precedence_upwards(op) == 2 + CHOOSE i \in DOMAIN binary_ops : op \in binary_ops[i]

binary_op_precedence(op) == 13 - CHOOSE i \in DOMAIN binary_ops : op \in binary_ops[i]

Operators ==
    assignment_ops \cup unary_ops \cup UNION {binary_ops[i] : i \in DOMAIN binary_ops}
        \cup {"++", "--", ".", "->", "sizeof", "?", ","}

\* pun_to_op; the subtypes of constants are beyond the end of the table.
Operator(t, u) ==
    IF t.type = "CONSTANT" THEN u.op ELSE IF t.sub \in Operators THEN t.sub ELSE NONE

-----------------------------------------------------------------------------
(* The token stream *)

Peek(ts, s)    == IF s.pos = Len(ts) THEN END_TOKEN ELSE ts[s.pos + 1]
Consume(ts, s) == IF s.pos = Len(ts) THEN s ELSE [s EXCEPT !.pos = @ + 1]

\* ast_error at current_token, which is NULL when nothing has been consumed.
Complain(s) ==
    [s EXCEPT !.error = TRUE,
              !.stuck = IF s.pos = 0 /\ @ = "" THEN "crashed" ELSE @]

-----------------------------------------------------------------------------
(* Nodes *)

Leaf(t) == [op |-> NONE, tk |-> t.text, kids |-> <<>>]

\* create_unary_node, create_binary_node
Node(op, kids) ==
    IF ERROR \in {kids[i] : i \in DOMAIN kids} THEN ERROR
    ELSE [op |-> op, tk |-> <<>>, kids |-> kids]

-----------------------------------------------------------------------------
(* Expressions *)

RECURSIVE Expression(_, _, _)

Operand == {"IDENTIFIER", "CONSTANT", "STRING_LITERAL"}

\* create_primary_expression, and create_postfix_expression
Primary(ts, s, u) ==
    LET t      == Peek(ts, s)
        next   == Consume(ts, s)
        inside == Expression(ts, next, u)
        close  == Consume(ts, inside.s)
    IN  IF t.sub = "("
        THEN [node |-> inside.node,
              s |-> IF Peek(ts, inside.s).sub = ")" THEN close ELSE [close EXCEPT !.error = TRUE]]
        ELSE IF t.type \in Operand THEN [node |-> Leaf(t), s |-> next]
        ELSE [node |-> ERROR, s |-> Complain(next)]

\* create_unary_expression and create_cast_expression.  The node of an operator
\* of unary_ops is its operand's.
RECURSIVE Unary(_, _, _)
Unary(ts, s, u) ==
    LET t    == Peek(ts, s)
        next == Consume(ts, s)
        op   == Operator(t, u)
        rest == Unary(ts, next, u)
    IN  IF t.type \in Operand \/ t.sub = "(" THEN Primary(ts, s, u)
        ELSE IF op \in unary_ops THEN rest
        ELSE IF op \in {"++", "--", "sizeof"}
        THEN [rest EXCEPT !.node = Node(op, <<rest.node>>)]
        ELSE [node |-> ERROR, s |-> Complain(next)]

RECURSIVE Binary(_, _, _, _, _), BinaryRest(_, _, _, _, _)

\* create_binary_expression
Binary(ts, s, u, level, precedence) ==
    LET left == IF level = 1 THEN Unary(ts, s, u)
                ELSE Binary(ts, s, u, level - 1, precedence)
    IN  IF Peek(ts, left.s).type = "PUNCTUATOR" THEN BinaryRest(ts, left, u, level, precedence)
        ELSE [node |-> ERROR, s |-> IF left.node = ERROR THEN left.s ELSE Complain(left.s)]

\* Its loop.
BinaryRest(ts, left, u, level, precedence) ==
    LET op    == Operator(Peek(ts, left.s), u)
        next  == Consume(ts, left.s)
        right == IF level = 1 THEN Unary(ts, next, u)
                 ELSE Binary(ts, next, u, level - 1, binary_op_precedence(op) + 1)
    IN  IF op \in binary_ops[level] /\ binary_op_precedence(op) >= precedence
        THEN BinaryRest(ts, [node |-> Node(op, <<left.node, right.node>>), s |-> right.s],
                        u, level, precedence)
        ELSE left

\* create_conditional_expression.  The token tested for the colon is still the
\* question mark, which is not consumed.
Conditional(ts, s, u) ==
    LET left == Binary(ts, s, u, LOGICAL_OR_EXPR, 0)
        mid  == Expression(ts, left.s, u)
    IN  IF Peek(ts, left.s).sub # "?" THEN left
        ELSE [node |-> ERROR, s |-> Complain(mid.s)]

\* create_assignment_expression
RECURSIVE Assignment(_, _, _)
Assignment(ts, s, u) ==
    LET left  == Conditional(ts, s, u)
        op    == Operator(Peek(ts, left.s), u)
        right == Assignment(ts, Consume(ts, left.s), u)
    IN  IF op \in assignment_ops
        THEN [node |-> Node(op, <<left.node, right.node>>), s |-> right.s]
        ELSE left

\* create_expression.  The loop at a comma never looks at another token.
Expression(ts, s, u) ==
    LET left == Assignment(ts, s, u)
    IN  IF Peek(ts, left.s).sub = "," /\ u.comma /\ left.s.stuck = ""
        THEN [left EXCEPT !.s.stuck = "looping"]
        ELSE left

\* create_ast_tree parses one expression, prints it and exits.
Parse(ts, u) == Expression(ts, [pos |-> 0, error |-> FALSE, stuck |-> ""], u)
=============================================================================
