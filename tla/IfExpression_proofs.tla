------------------------ MODULE IfExpression_proofs ------------------------
(***************************************************************************)
(* The stacks of evaluate_if, for every line of tokens, well formed or     *)
(* not: what they hold, and that they need no more room than the line.     *)
(* Then evaluate_if on well-formed lines: it never pops an empty stack.    *)
(* While the line is scanned, every bracket that is open there has its     *)
(* operator on op_stack, in the same order, and the output leaves the      *)
(* numbers that the operators above each bracket will take, but for the    *)
(* one to come.                                                            *)
(***************************************************************************)
EXTENDS IfExpression, LeastNumber, SequenceTheorems

-----------------------------------------------------------------------------
(* The inductive invariant *)

Output   == {t \in AnyToken : t.type \in {"CONSTANT", "PUNCTUATOR"}}
Operator == {t \in AnyToken : t.type = "PUNCTUATOR"}

Stacks ==
    /\ tokens \in Seq(AnyToken)
    /\ RPN_tokens \in Seq(Output)
    /\ op_stack \in Seq(Operator)
    /\ number_stack \in Seq(Int)

\* The cursor is in the sequence that is being read, or just past it.
Position ==
    /\ pc = "scan" => at \in 1..(Len(tokens) + 1) /\ number_stack = <<>>
    /\ pc = "evaluate" => at \in 1..(Len(RPN_tokens) + 1)

IInv == TypeOK /\ Stacks /\ Position /\ StackRoom

-----------------------------------------------------------------------------
(* The operators of the model *)

LEMMA ConstantIsOutput ==
    ASSUME NEW n \in Int
    PROVE  Constant(n) \in Output
  <1>1. Constant(n) \in AnyToken
    BY DEF AnyToken, Constant, token_type
  <1>2. Constant(n).type = "CONSTANT"
    BY DEF Constant
  <1> QED BY <1>1, <1>2 DEF Output

LEMMA TopmostBound ==
    ASSUME NEW n \in Nat, NEW S, S \subseteq 1..n
    PROVE  Max({0} \cup S) \in 0..n
  <1>1. {0} \cup S \subseteq 0..n /\ {0} \cup S # {}
    OBVIOUS
  <1> QED BY <1>1, MaxOfNaturals

\* What is popped goes to the output, operator for operator.
LEMMA PopToFacts ==
    ASSUME Stacks, NEW n \in 0..Len(op_stack)
    PROVE  /\ PopTo(n) \in Seq(Output)
           /\ Len(PopTo(n)) = Len(RPN_tokens) + Len(op_stack) - n
           /\ SubSeq(op_stack, 1, n) \in Seq(Operator)
           /\ Len(SubSeq(op_stack, 1, n)) = n
  <1> DEFINE top == SubSeq(op_stack, n + 1, Len(op_stack))
  <1>1. /\ RPN_tokens \in Seq(Output) /\ op_stack \in Seq(Operator)
        /\ Operator \subseteq Output /\ n \in Nat /\ Len(op_stack) \in Nat
    BY DEF Stacks, Output, Operator
  <1>2. top \in Seq(Operator) /\ Len(top) = Len(op_stack) - n
    BY <1>1
  <1> HIDE DEF top
  <1>3. Reverse(top) \in Seq(Output) /\ Len(Reverse(top)) = Len(top)
    <2>1. \A i \in 1..Len(top) : top[(Len(top) - i) + 1] \in Output
      BY <1>1, <1>2
    <2> QED BY <1>2, <2>1 DEF Reverse
  <1>4. PopTo(n) = RPN_tokens \o Reverse(top)
    BY DEF PopTo, top
  <1>5. SubSeq(op_stack, 1, n) \in Seq(Operator) /\ Len(SubSeq(op_stack, 1, n)) = n
    BY <1>1
  <1> HIDE DEF top
  <1>6. /\ RPN_tokens \o Reverse(top) \in Seq(Output)
        /\ Len(RPN_tokens \o Reverse(top)) = Len(RPN_tokens) + Len(Reverse(top))
    BY <1>1, <1>3, ConcatProperties
  <1>7. Len(RPN_tokens) \in Nat
    BY <1>1
  <1> QED BY <1>1, <1>2, <1>3, <1>4, <1>5, <1>6, <1>7

\* The line handle_defined leaves has the two tokens it puts at its place.
LEMMA HandleDefinedFacts ==
    ASSUME Stacks, at \in 1..Len(tokens)
    PROVE  /\ HandleDefined \in Seq(AnyToken)
           /\ Len(HandleDefined) > at
  <1> DEFINE open   == at < Len(tokens) /\ IsPun(tokens[at + 1], "(")
             x      == IF open THEN at + 2 ELSE at + 1
             closed == open /\ x < Len(tokens) /\ IsPun(tokens[x + 1], ")")
             known  == tokens[x].type = "IDENTIFIER" /\ tokens[x].lexeme \in macros
             next   == IF closed THEN x + 2 ELSE x + 1
             before == SubSeq(tokens, 1, at - 1)
             made   == <<Token("BLANK", ""), Constant(IF known THEN 1 ELSE 0)>>
             after  == SubSeq(tokens, next, Len(tokens))
  <1>1. HandleDefined = before \o made \o after
    BY DEF HandleDefined
  <1>2. tokens \in Seq(AnyToken) /\ next \in Nat \ {0} /\ at \in Nat \ {0} /\ Len(tokens) \in Nat
    BY DEF Stacks
  <1>3. made \in Seq(AnyToken) /\ Len(made) = 2
    <2>1. Token("BLANK", "") \in AnyToken
      BY DEF AnyToken, Token, token_type
    <2>2. Constant(IF known THEN 1 ELSE 0) \in AnyToken
      BY ConstantIsOutput DEF Output
    <2>3. \A a, b \in AnyToken : <<a, b>> \in Seq(AnyToken) /\ Len(<<a, b>>) = 2
      OBVIOUS
    <2> HIDE DEF known
    <2> QED BY <2>1, <2>2, <2>3
  <1> HIDE DEF made, next
  <1>4. before \in Seq(AnyToken) /\ Len(before) = at - 1
    BY <1>2
  <1>5. after \in Seq(AnyToken) /\ Len(after) \in Nat
    <2>1. \A i \in next..Len(tokens) : tokens[i] \in AnyToken
      BY <1>2
    <2>2. after \in Seq(AnyToken)
      BY <1>2, <2>1, SubSeqProperties
    <2> QED BY <2>2
  <1> HIDE DEF before, after
  <1>6. before \o made \in Seq(AnyToken) /\ Len(before \o made) = at + 1
    <2>1. Len(before \o made) = Len(before) + Len(made)
      BY <1>3, <1>4, ConcatProperties
    <2>2. before \o made \in Seq(AnyToken)
      BY <1>3, <1>4, ConcatProperties
    <2> QED BY <1>2, <1>3, <1>4, <2>1, <2>2
  <1>7. /\ (before \o made) \o after \in Seq(AnyToken)
        /\ Len((before \o made) \o after) = Len(before \o made) + Len(after)
    BY <1>5, <1>6, ConcatProperties
  <1> QED BY <1>1, <1>2, <1>5, <1>6, <1>7

-----------------------------------------------------------------------------
(* A step of the shunting yard reads one token and moves or drops operators,
   so that it makes room for no more than that token. *)

LEMMA LineFacts ==
    ASSUME IInv, Scanning
    PROVE  /\ at \in 1..Len(tokens) /\ at \in Nat
           /\ Len(tokens) \in Nat /\ Len(RPN_tokens) \in Nat /\ Len(op_stack) \in Nat
           /\ tokens[at] \in AnyToken
           /\ number_stack = <<>>
           /\ Len(RPN_tokens) + Len(op_stack) < at
  <1>1. /\ tokens \in Seq(AnyToken) /\ RPN_tokens \in Seq(Output)
        /\ op_stack \in Seq(Operator)
    BY DEF IInv, Stacks
  <1>2. at \in 1..Len(tokens)
    BY DEF IInv, Position, Scanning
  <1> QED BY <1>1, <1>2 DEF IInv, Position, StackRoom, Scanning

LEMMA ElementTypes ==
    /\ \A s \in Seq(Operator) : \A i \in 1..Len(s) : s[i].type = "PUNCTUATOR"
    /\ \A s \in Seq(Output) : \A i \in 1..Len(s) : s[i].type \in {"CONSTANT", "PUNCTUATOR"}
    /\ \A s \in Seq(Int) : \A i \in 1..Len(s) : s[i] \in Int
  <1>1. \A s \in Seq(Operator) : \A i \in 1..Len(s) : s[i] \in Operator
    OBVIOUS
  <1>2. \A s \in Seq(Output) : \A i \in 1..Len(s) : s[i] \in Output
    OBVIOUS
  <1>3. \A s \in Seq(Int) : \A i \in 1..Len(s) : s[i] \in Int
    OBVIOUS
  <1>4. \A t \in Operator : t.type = "PUNCTUATOR"
    BY DEF Operator
  <1>5. \A t \in Output : t.type \in {"CONSTANT", "PUNCTUATOR"}
    BY DEF Output
  <1> QED BY <1>1, <1>2, <1>3, <1>4, <1>5

LEMMA ScanKeeps ==
    ASSUME IInv, Scanning,
           tokens' = tokens, number_stack' = number_stack, cond' = cond,
           at' = at + 1, pc' \in {"scan", "underflow"},
           RPN_tokens' \in Seq(Output), op_stack' \in Seq(Operator),
           Len(RPN_tokens') + Len(op_stack') <= at
    PROVE  IInv'
  <1>1. /\ Len(RPN_tokens') \in Nat /\ Len(op_stack') \in Nat
        /\ tokens \in Seq(AnyToken) /\ number_stack \in Seq(Int)
    BY DEF IInv, Stacks
  <1>2. Stacks'
    BY <1>1 DEF Stacks
  <1>3. Position'
    BY LineFacts DEF Position
  <1>4. StackRoom'
    BY <1>1, LineFacts DEF StackRoom
  <1>5. cond' \in BOOLEAN
    BY Zenon DEF IInv, TypeOK
  <1>6. at' \in 1..(Len(tokens') + Len(RPN_tokens') + 1)
    BY <1>1, LineFacts
  <1>7. TypeOK'
    <2>1. pc' \in {"scan", "evaluate", "done", "underflow", "trap"}
      OBVIOUS
    <2>2. number_stack' \in Seq(Int)
      BY <1>1
    <2> QED BY <1>5, <1>6, <2>1, <2>2, ElementTypes DEF TypeOK
  <1> QED BY <1>2, <1>3, <1>4, <1>7 DEF IInv

LEMMA ScanOperandKeeps ==
    ASSUME IInv, ScanOperand
    PROVE  IInv'
  <1> DEFINE t == IF tokens[at].type = "CONSTANT" THEN tokens[at] ELSE Constant(0)
  <1>1. Scanning /\ RPN_tokens' = Append(RPN_tokens, t)
    BY DEF ScanOperand
  <1>2. t \in Output
    <2>1. Constant(0) \in Output
      BY ConstantIsOutput
    <2>2. tokens[at].type = "CONSTANT" => tokens[at] \in Output
      BY <1>1, LineFacts DEF Output
    <2> QED BY <2>1, <2>2
  <1> HIDE DEF t
  <1>3. RPN_tokens' \in Seq(Output) /\ Len(RPN_tokens') = Len(RPN_tokens) + 1
    BY <1>1, <1>2, AppendProperties DEF IInv, Stacks
  <1>4. op_stack' = op_stack /\ op_stack \in Seq(Operator)
    BY DEF ScanOperand, IInv, Stacks
  <1>5. Len(RPN_tokens') + Len(op_stack') <= at
    BY <1>1, <1>3, <1>4, LineFacts
  <1>6. /\ tokens' = tokens /\ number_stack' = number_stack /\ cond' = cond
        /\ at' = at + 1 /\ pc' = "scan"
    BY <1>1 DEF ScanOperand, line, Scanning
  <1> QED BY <1>1, <1>3, <1>4, <1>5, <1>6, ScanKeeps

LEMMA ScanLeftParenthesisKeeps ==
    ASSUME IInv, ScanLeftParenthesis
    PROVE  IInv'
  <1>1. Scanning /\ tokens[at].type = "PUNCTUATOR" /\ op_stack' = Append(op_stack, tokens[at])
    BY DEF ScanLeftParenthesis, IsPun
  <1>2. tokens[at] \in Operator
    BY <1>1, LineFacts DEF Operator
  <1>3. op_stack' \in Seq(Operator) /\ Len(op_stack') = Len(op_stack) + 1
    BY <1>1, <1>2, AppendProperties DEF IInv, Stacks
  <1>4. RPN_tokens' = RPN_tokens /\ RPN_tokens \in Seq(Output)
    BY DEF ScanLeftParenthesis, IInv, Stacks
  <1>5. Len(RPN_tokens') + Len(op_stack') <= at
    BY <1>1, <1>3, <1>4, LineFacts
  <1>6. /\ tokens' = tokens /\ number_stack' = number_stack /\ cond' = cond
        /\ at' = at + 1 /\ pc' = "scan"
    BY <1>1 DEF ScanLeftParenthesis, line, Scanning
  <1> QED BY <1>1, <1>3, <1>4, <1>5, <1>6, ScanKeeps

\* The parenthesis and what is above it leave the stack.
LEMMA ScanRightParenthesisKeeps ==
    ASSUME IInv, ScanRightParenthesis
    PROVE  IInv'
  <1> DEFINE S == {i \in 1..Len(op_stack) : op_stack[i].lexeme = "("}
             n == Max({0} \cup S)
  <1>1. /\ Scanning
        /\ RPN_tokens' = PopTo(n)
        /\ op_stack' = SubSeq(op_stack, 1, n - 1)
        /\ pc' = IF n = 0 THEN "underflow" ELSE "scan"
    BY DEF ScanRightParenthesis, Left
  <1>2. S \subseteq 1..Len(op_stack) /\ op_stack \in Seq(Operator)
    BY DEF IInv, Stacks
  <1> HIDE DEF S
  <1>3. n \in 0..Len(op_stack)
    BY <1>1, <1>2, LineFacts, TopmostBound
  <1> HIDE DEF n
  <1>4. /\ RPN_tokens' \in Seq(Output)
        /\ Len(RPN_tokens') = Len(RPN_tokens) + Len(op_stack) - n
    BY <1>1, <1>3, PopToFacts DEF IInv
  <1>5. op_stack' \in Seq(Operator) /\ Len(op_stack') <= n
    BY <1>1, <1>2, <1>3
  <1>6. Len(RPN_tokens') + Len(op_stack') <= at
    BY <1>1, <1>3, <1>4, <1>5, LineFacts
  <1>7. /\ tokens' = tokens /\ number_stack' = number_stack /\ cond' = cond
        /\ at' = at + 1
    BY DEF ScanRightParenthesis, line
  <1> QED BY <1>1, <1>4, <1>5, <1>6, <1>7, ScanKeeps

LEMMA ScanColonKeeps ==
    ASSUME IInv, ScanColon
    PROVE  IInv'
  <1> DEFINE S == {i \in 1..Len(op_stack) : op_stack[i].lexeme = "?"}
             n == Max({0} \cup S)
  <1>1. /\ Scanning
        /\ RPN_tokens' = PopTo(n)
        /\ op_stack' = SubSeq(op_stack, 1, n)
    BY DEF ScanColon, Left
  <1>2. S \subseteq 1..Len(op_stack)
    OBVIOUS
  <1> HIDE DEF S
  <1>3. n \in 0..Len(op_stack)
    BY <1>1, <1>2, LineFacts, TopmostBound
  <1> HIDE DEF n
  <1>4. /\ RPN_tokens' \in Seq(Output)
        /\ Len(RPN_tokens') = Len(RPN_tokens) + Len(op_stack) - n
        /\ op_stack' \in Seq(Operator) /\ Len(op_stack') = n
    BY <1>1, <1>3, PopToFacts DEF IInv
  <1>5. Len(RPN_tokens') + Len(op_stack') <= at
    BY <1>1, <1>3, <1>4, LineFacts
  <1>6. /\ tokens' = tokens /\ number_stack' = number_stack /\ cond' = cond
        /\ at' = at + 1 /\ pc' = "scan"
    BY <1>1 DEF ScanColon, line, Scanning
  <1> QED BY <1>1, <1>4, <1>5, <1>6, ScanKeeps

LEMMA ScanOperatorKeeps ==
    ASSUME IInv, ScanOperator
    PROVE  IInv'
  <1> DEFINE S == {i \in 1..Len(op_stack) :
                      Precedence[tokens[at].lexeme] > Precedence[op_stack[i].lexeme]}
             n == Max({0} \cup S)
  <1>1. /\ Scanning /\ tokens[at].type = "PUNCTUATOR"
        /\ RPN_tokens' = PopTo(n)
        /\ op_stack' = Append(SubSeq(op_stack, 1, n), tokens[at])
    BY DEF ScanOperator, Left
  <1>2. S \subseteq 1..Len(op_stack)
    OBVIOUS
  <1> HIDE DEF S
  <1>3. n \in 0..Len(op_stack)
    BY <1>1, <1>2, LineFacts, TopmostBound
  <1> HIDE DEF n
  <1>4. tokens[at] \in Operator
    BY <1>1, LineFacts DEF Operator
  <1>5. /\ RPN_tokens' \in Seq(Output)
        /\ Len(RPN_tokens') = Len(RPN_tokens) + Len(op_stack) - n
        /\ SubSeq(op_stack, 1, n) \in Seq(Operator) /\ Len(SubSeq(op_stack, 1, n)) = n
    BY <1>1, <1>3, PopToFacts DEF IInv
  <1>6. op_stack' \in Seq(Operator) /\ Len(op_stack') = n + 1
    BY <1>1, <1>4, <1>5, AppendProperties
  <1>7. Len(RPN_tokens') + Len(op_stack') <= at
    BY <1>1, <1>3, <1>5, <1>6, LineFacts
  <1>8. /\ tokens' = tokens /\ number_stack' = number_stack /\ cond' = cond
        /\ at' = at + 1 /\ pc' = "scan"
    BY <1>1 DEF ScanOperator, line, Scanning
  <1> QED BY <1>1, <1>5, <1>6, <1>7, <1>8, ScanKeeps

LEMMA ScanBlankKeeps ==
    ASSUME IInv, ScanBlank
    PROVE  IInv'
  <1>1. /\ Scanning
        /\ RPN_tokens' = RPN_tokens /\ RPN_tokens \in Seq(Output)
        /\ op_stack' = op_stack /\ op_stack \in Seq(Operator)
    BY DEF ScanBlank, IInv, Stacks
  <1>2. Len(RPN_tokens') + Len(op_stack') <= at
    BY <1>1, LineFacts
  <1>3. /\ tokens' = tokens /\ number_stack' = number_stack /\ cond' = cond
        /\ at' = at + 1 /\ pc' = "scan"
    BY <1>1 DEF ScanBlank, line, Scanning
  <1> QED BY <1>1, <1>2, <1>3, ScanKeeps

LEMMA ScanDefinedKeeps ==
    ASSUME IInv, ScanDefined
    PROVE  IInv'
  <1>1. /\ Scanning /\ tokens' = HandleDefined /\ at' = at + 1 /\ pc' = "scan"
        /\ RPN_tokens' = RPN_tokens /\ op_stack' = op_stack
        /\ number_stack' = number_stack /\ cond' = cond
    BY DEF ScanDefined, Scanning
  <1>2. /\ tokens' \in Seq(AnyToken) /\ Len(tokens') > at /\ Len(tokens') \in Nat
        /\ RPN_tokens \in Seq(Output) /\ op_stack \in Seq(Operator)
        /\ number_stack \in Seq(Int)
    <2>1. HandleDefined \in Seq(AnyToken) /\ Len(HandleDefined) > at
      BY <1>1, LineFacts, HandleDefinedFacts DEF IInv
    <2> QED BY <1>1, <2>1 DEF IInv, Stacks
  <1>3. Stacks'
    BY <1>1, <1>2 DEF Stacks
  <1>4. Position'
    BY <1>1, <1>2, LineFacts DEF Position
  <1>5. StackRoom'
    BY <1>1, <1>2, LineFacts DEF StackRoom
  <1>6. cond' \in BOOLEAN
    BY <1>1, Zenon DEF IInv, TypeOK
  <1>7. TypeOK'
    <2>1. at' \in 1..(Len(tokens') + Len(RPN_tokens') + 1)
      BY <1>1, <1>2, LineFacts
    <2> QED BY <1>1, <1>2, <1>6, <2>1, ElementTypes DEF TypeOK
  <1> QED BY <1>3, <1>4, <1>5, <1>7 DEF IInv

\* The operators left become output, and the evaluation starts on no operand.
LEMMA ScanEndKeeps ==
    ASSUME IInv, ScanEnd
    PROVE  IInv'
  <1>1. /\ pc = "scan" /\ at = Len(tokens) + 1
        /\ RPN_tokens' = PopTo(0) /\ op_stack' = <<>> /\ at' = 1 /\ pc' = "evaluate"
        /\ tokens' = tokens /\ number_stack' = number_stack /\ cond' = cond
    BY DEF ScanEnd, line
  <1>2. /\ tokens \in Seq(AnyToken) /\ Len(tokens) \in Nat
        /\ Len(RPN_tokens) \in Nat /\ Len(op_stack) \in Nat
        /\ number_stack = <<>> /\ Len(RPN_tokens) + Len(op_stack) < at
    BY <1>1 DEF IInv, Stacks, Position, StackRoom
  <1>3. /\ RPN_tokens' \in Seq(Output)
        /\ Len(RPN_tokens') = Len(RPN_tokens) + Len(op_stack)
    BY <1>1, <1>2, PopToFacts DEF IInv
  <1>4. op_stack' \in Seq(Operator) /\ number_stack' \in Seq(Int) /\ Len(number_stack') = 0
    BY <1>1, <1>2
  <1>5. Stacks'
    BY <1>1, <1>2, <1>3, <1>4 DEF Stacks
  <1>6. Position' /\ StackRoom'
    BY <1>1, <1>2, <1>3, <1>4 DEF Position, StackRoom
  <1>7. cond' \in BOOLEAN
    BY <1>1, Zenon DEF IInv, TypeOK
  <1>8. TypeOK'
    <2>1. at' \in 1..(Len(tokens') + Len(RPN_tokens') + 1)
      BY <1>1, <1>2, <1>3
    <2> QED BY <1>1, <1>3, <1>4, <1>7, <2>1, ElementTypes DEF TypeOK
  <1> QED BY <1>5, <1>6, <1>8 DEF IInv

-----------------------------------------------------------------------------
(* A step of the evaluation reads one token and leaves one number more at
   most; a step that stops leaves the stacks as they are. *)

LEMMA EvaluateKeeps ==
    ASSUME IInv, Evaluating,
           tokens' = tokens, RPN_tokens' = RPN_tokens, op_stack' = op_stack, cond' = cond,
           at' = at + 1, pc' = "evaluate",
           number_stack' \in Seq(Int), Len(number_stack') <= Len(number_stack) + 1
    PROVE  IInv'
  <1>1. /\ tokens \in Seq(AnyToken) /\ RPN_tokens \in Seq(Output)
        /\ op_stack \in Seq(Operator)
        /\ Len(tokens) \in Nat /\ Len(RPN_tokens) \in Nat /\ Len(number_stack) \in Nat
        /\ Len(number_stack') \in Nat
    BY DEF IInv, Stacks
  <1>2. /\ at \in 1..Len(RPN_tokens) /\ Len(number_stack) < at
        /\ Len(RPN_tokens) <= Len(tokens)
    BY <1>1 DEF IInv, Position, StackRoom, Evaluating
  <1>3. Stacks'
    BY <1>1 DEF Stacks
  <1>4. Position' /\ StackRoom'
    BY <1>1, <1>2 DEF Position, StackRoom
  <1>5. cond' \in BOOLEAN
    BY Zenon DEF IInv, TypeOK
  <1>6. TypeOK'
    <2>1. at' \in 1..(Len(tokens') + Len(RPN_tokens') + 1)
      BY <1>1, <1>2
    <2> QED BY <1>1, <1>5, <2>1, ElementTypes DEF TypeOK
  <1> QED BY <1>3, <1>4, <1>6 DEF IInv

LEMMA StopKeeps ==
    ASSUME IInv, pc' \in {"done", "underflow", "trap"}, cond' \in BOOLEAN,
           tokens' = tokens, RPN_tokens' = RPN_tokens, op_stack' = op_stack,
           number_stack' = number_stack, at' = at
    PROVE  IInv'
  <1>1. /\ tokens \in Seq(AnyToken) /\ RPN_tokens \in Seq(Output)
        /\ op_stack \in Seq(Operator) /\ number_stack \in Seq(Int)
        /\ Len(RPN_tokens) <= Len(tokens)
        /\ at \in 1..(Len(tokens) + Len(RPN_tokens) + 1)
    BY DEF IInv, Stacks, StackRoom, TypeOK
  <1>2. Stacks' /\ Position' /\ StackRoom'
    BY <1>1 DEF Stacks, Position, StackRoom
  <1>3. TypeOK'
    BY <1>1, ElementTypes DEF TypeOK
  <1> QED BY <1>2, <1>3 DEF IInv

LEMMA ScanOtherKeeps ==
    ASSUME IInv, ScanOther
    PROVE  IInv'
  <1>1. cond' \in BOOLEAN
    BY Zenon DEF ScanOther
  <1> QED BY <1>1, StopKeeps DEF ScanOther, line

LEMMA ReturnKeeps ==
    ASSUME IInv, Return
    PROVE  IInv'
  <1>1. cond' \in BOOLEAN
    <2>1. (number_stack[1] # 0) \in BOOLEAN
      BY Zenon
    <2> QED BY <2>1, Zenon DEF Return
  <1> QED BY <1>1, StopKeeps DEF Return, line

LEMMA EvaluateConstantKeeps ==
    ASSUME IInv, EvaluateConstant
    PROVE  IInv'
  <1>1. /\ Evaluating /\ number_stack' = Append(number_stack, RPN_tokens[at].int)
        /\ at' = at + 1 /\ pc' = "evaluate" /\ cond' = cond
        /\ tokens' = tokens /\ RPN_tokens' = RPN_tokens /\ op_stack' = op_stack
    BY DEF EvaluateConstant, line, Evaluating
  <1>2. RPN_tokens[at] \in Output
    BY <1>1 DEF IInv, Stacks, Position, Evaluating
  <1>3. RPN_tokens[at].int \in Int
    BY <1>2 DEF Output, AnyToken
  <1>4. number_stack' \in Seq(Int) /\ Len(number_stack') = Len(number_stack) + 1
    BY <1>1, <1>3, AppendProperties DEF IInv, Stacks
  <1>5. Len(number_stack') <= Len(number_stack) + 1
    BY <1>4 DEF IInv, Stacks
  <1> QED BY <1>1, <1>4, <1>5, EvaluateKeeps

\* The operators the switch knows return an int of ints; a division by zero
\* is not one of them.
LEMMA ResultType ==
    ASSUME NEW o \in Known, NEW l \in Int, NEW m \in Int, NEW r \in Int,
           o = "/" => r # 0
    PROVE  Result(o, l, m, r) \in Int
  <1>1. \A b \in BOOLEAN : Int01(b) \in Int
    BY DEF Int01
  <1>2. CASE o = "/"
    <2> DEFINE a == IF l < 0 THEN -l ELSE l
               b == IF r < 0 THEN -r ELSE r
    <2>1. a \in Nat /\ b \in Nat \ {0}
      BY <1>2
    <2>2. Result(o, l, m, r) = IF (l < 0) = (r < 0) THEN a \div b ELSE -(a \div b)
      BY <1>2 DEF Result
    <2> HIDE DEF a, b
    <2>3. a \div b \in Int
      BY <2>1
    <2> QED BY <2>2, <2>3
  <1>3. CASE o \in {"+", "-", "*", "?"}
    BY <1>3 DEF Result
  <1>4. CASE o \in {"&&", "||", ">", ">=", "<", "<=", "==", "!=", "!"}
    BY <1>4 DEF Result, Int01
  <1> QED BY <1>2, <1>3, <1>4 DEF Known, Operators

LEMMA EvaluateOperatorKeeps ==
    ASSUME IInv, EvaluateOperator
    PROVE  IInv'
  <1> DEFINE o == RPN_tokens[at].lexeme
             n == Len(number_stack)
             r == number_stack[n]
             m == number_stack[n - 1]
             l == number_stack[n - Arity(o) + 1]
             kept == SubSeq(number_stack, 1, n - Arity(o))
  <1>1. /\ Evaluating
        /\ tokens' = tokens /\ RPN_tokens' = RPN_tokens /\ op_stack' = op_stack
        /\ cond' = cond
    BY DEF EvaluateOperator, line
  <1>2. cond' \in BOOLEAN
    BY <1>1, Zenon DEF IInv, TypeOK
  <1>3. CASE pc' \in {"underflow", "done", "trap"} /\ number_stack' = number_stack /\ at' = at
    BY <1>1, <1>2, <1>3, StopKeeps
  <1>4. CASE /\ n >= Arity(o) /\ o \in Known /\ ~(o = "/" /\ r = 0)
             /\ number_stack' = Append(kept, Result(o, l, m, r))
             /\ at' = at + 1 /\ pc' = pc
    <2>1. number_stack \in Seq(Int) /\ n \in Nat
      BY DEF IInv, Stacks
    <2>2. /\ Arity(o) \in 1..3
          /\ o = "?" => Arity(o) = 3
          /\ o # "?" => Result(o, l, m, r) = Result(o, l, 0, r)
          /\ o = "!" => Result(o, l, m, r) = Result(o, 0, 0, r)
      BY DEF Arity, Result
    <2> DEFINE a == Arity(o)
    <2> HIDE DEF o
    <2>3. a \in 1..3
      BY <2>2
    <2> HIDE DEF a
    <2>4. n >= a
      BY <1>4 DEF a
    <2>5. l = number_stack[n - a + 1] /\ kept = SubSeq(number_stack, 1, n - a)
      BY DEF a
    <2>6. r \in Int /\ l \in Int
      BY <2>1, <2>3, <2>4, <2>5
    <2>7. o = "?" => m \in Int
      BY <2>1, <2>2, <2>4 DEF a
    <2>8. Result(o, l, m, r) \in Int
      <3>1. CASE o = "?"
        BY <1>4, <2>6, <2>7, <3>1, ResultType
      <3>2. CASE o # "?"
        <4>1. Result(o, l, 0, r) \in Int
          BY <1>4, <2>6, ResultType
        <4> QED BY <2>2, <3>2, <4>1
      <3> QED BY <3>1, <3>2
    <2>9. kept \in Seq(Int) /\ Len(kept) = n - a
      <3>1. n - a \in Nat /\ n - a <= n
        BY <2>1, <2>3, <2>4
      <3> HIDE DEF a
      <3>2. \A i \in 1..(n - a) : number_stack[i] \in Int
        BY <2>1, <3>1
      <3> DEFINE k == n - a
      <3>3. \A i \in 1..k : number_stack[i] \in Int
        BY <3>2
      <3>4. kept = SubSeq(number_stack, 1, k)
        BY <2>5
      <3> HIDE DEF k, kept
      <3>5. k \in Nat
        BY <3>1 DEF k
      <3>6. /\ SubSeq(number_stack, 1, k) \in Seq(Int)
            /\ Len(SubSeq(number_stack, 1, k)) = IF 1 <= k THEN k - 1 + 1 ELSE 0
        BY <3>3, <3>5, SubSeqProperties
      <3>7. kept \in Seq(Int) /\ Len(kept) = k
        BY <3>4, <3>5, <3>6
      <3> QED BY <3>7 DEF k
    <2> HIDE DEF kept, l, m, r
    <2>10. number_stack' \in Seq(Int) /\ Len(number_stack') = n - a + 1
      BY <1>4, <2>8, <2>9, AppendProperties
    <2>11. Len(number_stack') <= Len(number_stack) + 1
      BY <2>1, <2>3, <2>10
    <2>12. pc' = "evaluate"
      BY <1>1, <1>4 DEF Evaluating
    <2> QED BY <1>1, <1>4, <2>10, <2>11, <2>12, EvaluateKeeps
  <1> HIDE DEF o, n, r, m, l, kept
  <1>5. \/ pc' \in {"underflow", "done", "trap"} /\ number_stack' = number_stack /\ at' = at
        \/ /\ n >= Arity(o) /\ o \in Known /\ ~(o = "/" /\ r = 0)
           /\ number_stack' = Append(kept, Result(o, l, m, r))
           /\ at' = at + 1 /\ pc' = pc
    <2>1. Arity(o) \in Int /\ n \in Int
      BY DEF Arity, n, IInv, Stacks
    <2>2. CASE n < Arity(o)
      BY <2>2 DEF EvaluateOperator, o, n, r, m, l, kept
    <2>3. CASE ~(n < Arity(o)) /\ o \notin Known
      BY <2>3 DEF EvaluateOperator, o, n, r, m, l, kept
    <2>4. CASE ~(n < Arity(o)) /\ o \in Known /\ o = "/" /\ r = 0
      BY <2>4 DEF EvaluateOperator, o, n, r, m, l, kept
    <2>5. CASE ~(n < Arity(o)) /\ o \in Known /\ ~(o = "/" /\ r = 0)
      BY <2>1, <2>5 DEF EvaluateOperator, o, n, r, m, l, kept
    <2> QED BY <2>2, <2>3, <2>4, <2>5
  <1> QED BY <1>3, <1>4, <1>5 

-----------------------------------------------------------------------------
LEMMA InitEstablishes == Init => IInv
  <1> SUFFICES ASSUME Init PROVE IInv
    OBVIOUS
  <1>1. /\ tokens \in Seq(AnyToken) /\ pc = "scan" /\ at = 1
        /\ RPN_tokens = <<>> /\ op_stack = <<>> /\ number_stack = <<>>
    BY InputsAssumption DEF Init
  <1>2. cond \in BOOLEAN
    BY Zenon DEF Init
  <1>3. Len(tokens) \in Nat
    BY <1>1
  <1> QED BY <1>1, <1>2, <1>3 DEF IInv, TypeOK, Stacks, Position, StackRoom

LEMMA NextKeeps ==
    ASSUME IInv, [Next]_vars
    PROVE  IInv'
  <1>1. CASE Next
    BY <1>1, ScanDefinedKeeps, ScanOperandKeeps, ScanLeftParenthesisKeeps,
       ScanRightParenthesisKeeps, ScanColonKeeps, ScanOperatorKeeps, ScanBlankKeeps,
       ScanOtherKeeps, ScanEndKeeps, EvaluateConstantKeeps, EvaluateOperatorKeeps,
       ReturnKeeps DEF Next
  <1>2. CASE UNCHANGED vars
    BY <1>2, Zenon DEF vars, IInv, TypeOK, Stacks, Position, StackRoom
  <1> QED BY <1>1, <1>2

LEMMA InvariantHolds == Spec => []IInv
  <1>1. Init => IInv
    BY InitEstablishes
  <1>2. IInv /\ [Next]_vars => IInv'
    BY NextKeeps
  <1> QED BY <1>1, <1>2, PTL DEF Spec

\* evaluate_if keeps its cursors in the sequences they walk, and its stacks
\* hold what their readers expect: operators in op_stack, constants and
\* operators in RPN_tokens, ints in number_stack.
THEOREM TypeCorrect == Spec => []TypeOK
  <1>1. IInv => TypeOK
    BY DEF IInv
  <1> QED BY <1>1, InvariantHolds, PTL

\* RPN_tokens, op_stack and number_stack of evaluate_if hold no more entries
\* than tokens were read, on any line whatsoever: the arrays of 64 are large
\* enough for 64 tokens.
THEOREM StacksSuffice == Spec => []StackRoom
  <1>1. IInv => StackRoom
    BY DEF IInv
  <1> QED BY <1>1, InvariantHolds, PTL

-----------------------------------------------------------------------------
(* What the evaluation will find *)

\* The numbers a token of RPN_tokens takes off number_stack; it leaves one.
Need(t) == IF t.type = "CONSTANT" THEN 0 ELSE Arity(t.lexeme)

\* v[i] is the height of number_stack after i tokens of s.
Runs(s, v) ==
    /\ v \in [0..Len(s) -> Nat]
    /\ v[0] = 0
    /\ \A i \in 1..Len(s) : v[i - 1] >= Need(s[i]) /\ v[i] = v[i - 1] - Need(s[i]) + 1

Height(s, h) == \E v : Runs(s, v) /\ v[Len(s)] = h

LEMMA NeedFacts == \A t : Need(t) \in 0..3
  BY DEF Need, Arity

LEMMA EmptyHeight == Height(<<>>, 0)
  <1> DEFINE v == [i \in 0..0 |-> 0]
  <1>1. Runs(<<>>, v) /\ v[0] = 0
    BY DEF Runs
  <1> HIDE DEF v
  <1> QED BY <1>1 DEF Height

LEMMA AppendHeight ==
    ASSUME NEW s \in Seq(Output), NEW t \in Output,
           NEW h \in Nat, Height(s, h), h >= Need(t)
    PROVE  Height(Append(s, t), h - Need(t) + 1)
  <1>1. PICK v : Runs(s, v) /\ v[Len(s)] = h
    BY DEF Height
  <1> DEFINE n == Len(s)
             k == Need(t)
             w == [i \in 0..(n + 1) |-> IF i <= n THEN v[i] ELSE h - k + 1]
             r == Append(s, t)
  <1>2. n \in Nat /\ k \in Nat /\ h - k + 1 \in Nat
    <2>1. k \in 0..3
      BY NeedFacts
    <2> QED BY <2>1
  <1>3. Len(r) = n + 1 /\ r[n + 1] = t /\ \A i \in 1..n : r[i] = s[i]
    BY AppendProperties
  <1>4. v \in [0..n -> Nat] /\ v[0] = 0 /\ v[n] = h
    BY <1>1 DEF Runs
  <1>5. ASSUME NEW i \in 1..n
        PROVE  v[i - 1] >= Need(s[i]) /\ v[i] = v[i - 1] - Need(s[i]) + 1
    BY <1>1, <1>5 DEF Runs
  <1> HIDE DEF n, r
  <1>6. w \in [0..Len(r) -> Nat]
    <2>1. \A i \in 0..(n + 1) : w[i] \in Nat
      <3> HIDE DEF k
      <3> QED BY <1>2, <1>4
    <2> QED BY <1>3, <2>1
  <1>7. w[0] = 0 /\ w[Len(r)] = h - k + 1
    BY <1>2, <1>3, <1>4
  <1>8. ASSUME NEW i \in 1..Len(r)
        PROVE  w[i - 1] >= Need(r[i]) /\ w[i] = w[i - 1] - Need(r[i]) + 1
    <2>1. CASE i \in 1..n
      <3>1. w[i] = v[i] /\ w[i - 1] = v[i - 1] /\ r[i] = s[i]
        BY <1>2, <1>3, <2>1
      <3> HIDE DEF w
      <3> QED BY <1>5, <2>1, <3>1
    <2>2. CASE i = n + 1
      <3>1. w[i] = h - k + 1 /\ w[i - 1] = h /\ r[i] = t
        BY <1>2, <1>3, <1>4, <2>2
      <3> HIDE DEF w
      <3> QED BY <3>1
    <2> QED BY <1>2, <1>3, <2>1, <2>2
  <1> HIDE DEF w
  <1>9. Runs(r, w)
    BY <1>6, <1>7, <1>8 DEF Runs
  <1> HIDE DEF k
  <1>10. Height(r, h - k + 1)
    BY <1>7, <1>9 DEF Height
  <1> QED BY <1>10 DEF r, k

-----------------------------------------------------------------------------
(* The operators on the stack *)

\* d[i] is the number of brackets open among the first i entries of the stack;
\* entry i is one if it is more than at i - 1.  A "?" that is none has had its
\* ":", and has no bracket "?" right below it.
Nested(ops, open, d) ==
    /\ d \in [0..Len(ops) -> 0..Len(open)]
    /\ d[0] = 0 /\ d[Len(ops)] = Len(open)
    /\ \A i, j \in 0..Len(ops) : i <= j => d[i] <= d[j]
    /\ \A i \in 1..Len(ops) :
           \/ d[i] = d[i - 1] + 1 /\ ops[i].lexeme = open[d[i]]
           \/ /\ d[i] = d[i - 1] /\ ops[i].lexeme # "("
              /\ ops[i].lexeme = "?" => d[i] = 0 \/ open[d[i]] = "("

\* u[i] is how many numbers the first i entries will take off, less those they
\* leave; a "?" that waits for its ":" has one of its three behind it.
Weight(ops, d, i) ==
    IF d[i] = d[i - 1] THEN Arity(ops[i].lexeme) - 1
    ELSE IF ops[i].lexeme = "?" THEN 1 ELSE 0

Weighed(ops, d, u) ==
    /\ u \in [0..Len(ops) -> Nat]
    /\ u[0] = 0
    /\ \A i \in 1..Len(ops) : u[i] = u[i - 1] + Weight(ops, d, i)

\* No bracket "?" is right inside another.
Alternate(open) ==
    \A i \in 1..(Len(open) - 1) : ~(open[i] = "?" /\ open[i + 1] = "?")

Yard(ops, rpn, a) ==
    /\ \A i \in 1..Len(ops) : ops[i].lexeme \in Operators \cup {"("}
    /\ Alternate(a.open)
    /\ a.place = "operand" => ops = <<>> \/ ops[Len(ops)].lexeme # "!"
    /\ \E d, u : /\ Nested(ops, a.open, d) /\ Weighed(ops, d, u)
                 /\ Height(rpn, u[Len(ops)] + IF a.place = "operator" THEN 1 ELSE 0)

LEMMA LastBracket ==
    ASSUME NEW ops \in Seq(Operator), NEW open \in Seq({"(", "?"}), NEW d,
           Nested(ops, open, d), open # <<>>
    PROVE  \E i \in 1..Len(ops) :
               /\ d[i] = Len(open) /\ d[i - 1] = Len(open) - 1
               /\ ops[i].lexeme = open[Len(open)]
  <1> DEFINE n == Len(ops)
             m == Len(open)
             E == {i \in 0..n : d[i] = m}
  <1>1. /\ n \in Nat /\ m \in Nat /\ m > 0
        /\ d \in [0..n -> 0..m] /\ d[0] = 0 /\ d[n] = m
    BY EmptySeq DEF Nested
  <1>2. \A i \in 1..n : d[i] = d[i - 1] \/ (d[i] = d[i - 1] + 1 /\ ops[i].lexeme = open[d[i]])
    BY DEF Nested
  <1> HIDE DEF n, m
  <1>3. E \subseteq Nat /\ E # {}
    <2>1. n \in E
      BY <1>1
    <2> QED BY <1>1, <2>1
  <1>4. PICK i \in E : \A j \in E : i <= j
    <2> HIDE DEF E
    <2> QED BY <1>3, LeastElement
  <1>5. i \in 1..n /\ d[i] = m
    BY <1>1, <1>4
  <1>6. d[i - 1] # m
    BY <1>4, <1>5, <1>1
  <1>7. d[i - 1] \in 0..m
    BY <1>1, <1>5
  <1>8. d[i] = d[i - 1] + 1 /\ ops[i].lexeme = open[m]
    BY <1>2, <1>5, <1>6
  <1>9. d[i - 1] = m - 1
    BY <1>1, <1>5, <1>7, <1>8
  <1> QED BY <1>5, <1>8, <1>9 DEF n, m

\* Above the last bracket there is none.
LEMMA NoneAbove ==
    ASSUME NEW ops \in Seq(Operator), NEW open \in Seq({"(", "?"}), NEW d,
           Nested(ops, open, d), NEW i \in 0..Len(ops), d[i] = Len(open)
    PROVE  \A j \in (i + 1)..Len(ops) :
               /\ d[j] = Len(open) /\ d[j - 1] = Len(open)
               /\ ops[j].lexeme # "("
               /\ ops[j].lexeme = "?" => open = <<>> \/ open[Len(open)] = "("
  <1> SUFFICES ASSUME NEW j \in (i + 1)..Len(ops)
               PROVE  /\ d[j] = Len(open) /\ d[j - 1] = Len(open)
                      /\ ops[j].lexeme # "("
                      /\ ops[j].lexeme = "?" => open = <<>> \/ open[Len(open)] = "("
    OBVIOUS
  <1>1. Len(ops) \in Nat /\ Len(open) \in Nat /\ (Len(open) = 0 => open = <<>>)
    BY EmptySeq
  <1>2. d[j] \in 0..Len(open) /\ d[j - 1] \in 0..Len(open)
    <2>1. j \in 0..Len(ops) /\ j - 1 \in 0..Len(ops)
      BY <1>1
    <2>2. d \in [0..Len(ops) -> 0..Len(open)]
      BY DEF Nested
    <2> QED BY <2>1, <2>2
  <1>3. d[i] <= d[j] /\ d[i] <= d[j - 1]
    <2>1. i \in 0..Len(ops) /\ j \in 0..Len(ops) /\ j - 1 \in 0..Len(ops) /\ i <= j /\ i <= j - 1
      BY <1>1
    <2> QED BY <2>1 DEF Nested
  <1>4. d[j] = Len(open) /\ d[j - 1] = Len(open)
    BY <1>1, <1>2, <1>3
  <1>5. j \in 1..Len(ops)
    BY <1>1
  <1>6. /\ ops[j].lexeme # "("
        /\ ops[j].lexeme = "?" => d[j] = 0 \/ open[d[j]] = "("
    <2>1. \/ d[j] = d[j - 1] + 1
          \/ /\ ops[j].lexeme # "("
             /\ ops[j].lexeme = "?" => d[j] = 0 \/ open[d[j]] = "("
      BY <1>5 DEF Nested
    <2>2. d[j] # d[j - 1] + 1
      BY <1>1, <1>4
    <2> QED BY <2>1, <2>2
  <1> QED BY <1>1, <1>4, <1>6

-----------------------------------------------------------------------------
(* Popping *)

LEMMA PopTopmost ==
    ASSUME Stacks, NEW n \in 1..Len(op_stack)
    PROVE  PopTo(n - 1) = Append(PopTo(n), op_stack[n])
  <1> DEFINE k == Len(op_stack)
             top == SubSeq(op_stack, n + 1, k)
             all == SubSeq(op_stack, n, k)
             o == op_stack[n]
  <1>1. /\ RPN_tokens \in Seq(Output) /\ op_stack \in Seq(Operator)
        /\ k \in Nat /\ n \in 1..k /\ Operator \subseteq Output
    BY DEF Stacks, Output, Operator
  <1>2. o \in Output
    BY <1>1
  <1>3. top \in Seq(Operator) /\ Len(top) = k - n /\ \A i \in 1..(k - n) : top[i] = op_stack[n + i]
    BY <1>1
  <1>4. all \in Seq(Operator) /\ Len(all) = k - n + 1 /\ \A i \in 1..(k - n + 1) : all[i] = op_stack[n - 1 + i]
    BY <1>1
  <1> HIDE DEF top, all
  <1>5. Reverse(top) \in Seq(Output) /\ Len(Reverse(top)) = k - n
        /\ \A i \in 1..(k - n) : Reverse(top)[i] = op_stack[k + 1 - i]
    <2>1. \A i \in 1..Len(top) : top[(Len(top) - i) + 1] \in Output
      BY <1>1, <1>3
    <2>2. \A i \in 1..(k - n) : top[(k - n - i) + 1] = op_stack[k + 1 - i]
      <3>1. ASSUME NEW i \in 1..(k - n) PROVE top[(k - n - i) + 1] = op_stack[k + 1 - i]
        <4>1. (k - n - i) + 1 \in 1..(k - n) /\ n + ((k - n - i) + 1) = k + 1 - i
          BY <1>1
        <4> QED BY <1>3, <4>1
      <3> QED BY <3>1
    <2> QED BY <1>1, <1>3, <2>1, <2>2 DEF Reverse
  <1>6. Reverse(all) \in Seq(Output) /\ Len(Reverse(all)) = k - n + 1
        /\ \A i \in 1..(k - n + 1) : Reverse(all)[i] = op_stack[k + 1 - i]
    <2>1. \A i \in 1..Len(all) : all[(Len(all) - i) + 1] \in Output
      BY <1>1, <1>4
    <2>2. \A i \in 1..(k - n + 1) : all[(k - n + 1 - i) + 1] = op_stack[k + 1 - i]
      <3>1. ASSUME NEW i \in 1..(k - n + 1) PROVE all[(k - n + 1 - i) + 1] = op_stack[k + 1 - i]
        <4>1. (k - n + 1 - i) + 1 \in 1..(k - n + 1) /\ n - 1 + ((k - n + 1 - i) + 1) = k + 1 - i
          BY <1>1
        <4> QED BY <1>4, <4>1
      <3> QED BY <3>1
    <2> QED BY <1>1, <1>4, <2>1, <2>2 DEF Reverse
  <1> DEFINE x == Reverse(top)
             y == Reverse(all)
  <1>7. PopTo(n) = RPN_tokens \o x /\ PopTo(n - 1) = RPN_tokens \o y
    BY <1>1 DEF PopTo, top, all
  <1>8. x \in Seq(Output) /\ Len(x) = k - n /\ \A i \in 1..(k - n) : x[i] = op_stack[k + 1 - i]
    BY <1>5
  <1>9. y \in Seq(Output) /\ Len(y) = k - n + 1 /\ \A i \in 1..(k - n + 1) : y[i] = op_stack[k + 1 - i]
    BY <1>6
  <1> HIDE DEF x, y
  <1>10. y = Append(x, o)
    <2>1. Append(x, o) \in Seq(Output) /\ Len(Append(x, o)) = k - n + 1
          /\ Append(x, o)[k - n + 1] = o /\ \A i \in 1..(k - n) : Append(x, o)[i] = x[i]
      <3> HIDE DEF o
      <3>1. x \in Seq(Output) /\ o \in Output
        BY <1>2, <1>8
      <3>2. /\ Append(x, o) \in Seq(Output) /\ Len(Append(x, o)) = Len(x) + 1
            /\ Append(x, o)[Len(x) + 1] = o /\ \A i \in 1..Len(x) : Append(x, o)[i] = x[i]
        BY ONLY <3>1, AppendProperties
      <3> HIDE DEF k
      <3> QED BY <1>8, <3>2
    <2> DEFINE z == Append(x, o)
    <2>2. z[k - n + 1] = y[k - n + 1]
      <3>1. k - n + 1 \in 1..(k - n + 1) /\ k + 1 - (k - n + 1) = n
        BY <1>1
      <3>2. y[k - n + 1] = op_stack[n]
        BY <1>9, <3>1
      <3> QED BY <2>1, <3>2
    <2>3. \A i \in 1..(k - n) : z[i] = y[i]
      <3>1. ASSUME NEW i \in 1..(k - n) PROVE z[i] = y[i]
        <4>1. z[i] = op_stack[k + 1 - i]
          BY <1>8, <2>1
        <4>2. i \in 1..(k - n + 1)
          BY <1>1
        <4>3. y[i] = op_stack[k + 1 - i]
          BY <1>9, <4>2
        <4> QED BY <4>1, <4>3
      <3> QED BY <3>1
    <2>4. z \in Seq(Output) /\ Len(z) = k - n + 1
      BY <2>1
    <2> HIDE DEF z, o, k
    <2>5. \A i \in 1..Len(z) : z[i] = y[i]
      BY <1>1, <2>2, <2>3, <2>4
    <2>6. z = y
      BY <1>9, <2>4, <2>5, SeqEqual
    <2> QED BY <2>6 DEF z
  <1>11. RPN_tokens \o Append(x, o) = Append(RPN_tokens \o x, o)
    <2> HIDE DEF o
    <2> QED BY <1>1, <1>2, <1>8
  <1> QED BY <1>7, <1>10, <1>11

LEMMA PopNone ==
    ASSUME Stacks
    PROVE  PopTo(Len(op_stack)) = RPN_tokens
  <1> DEFINE k == Len(op_stack)
             top == SubSeq(op_stack, k + 1, k)
  <1>1. op_stack \in Seq(Operator) /\ RPN_tokens \in Seq(Output) /\ k \in Nat
    BY DEF Stacks
  <1>2. top \in Seq(Operator) /\ Len(top) = 0
    BY <1>1
  <1>3. top = <<>>
    BY <1>2, EmptySeq
  <1>4. Reverse(<<>>) = <<>>
    BY DEF Reverse
  <1>5. PopTo(k) = RPN_tokens \o Reverse(top)
    BY DEF PopTo
  <1> HIDE DEF top, k
  <1>6. PopTo(k) = RPN_tokens \o <<>>
    BY <1>3, <1>4, <1>5
  <1>7. RPN_tokens \o <<>> = RPN_tokens
    BY <1>1
  <1> QED BY <1>6, <1>7 DEF k

\* An operator popped where an operand has been read finds its operands.
LEMMA PopHeight ==
    ASSUME Stacks, NEW d, NEW u, Weighed(op_stack, d, u),
           NEW m \in 0..Len(op_stack),
           \A i \in (m + 1)..Len(op_stack) : d[i] = d[i - 1],
           Height(RPN_tokens, u[Len(op_stack)] + 1)
    PROVE  Height(PopTo(m), u[m] + 1)
  <1> DEFINE n == Len(op_stack)
             S == {j \in Nat : j <= n - m => Height(PopTo(n - j), u[n - j] + 1)}
  <1>1. /\ op_stack \in Seq(Operator) /\ RPN_tokens \in Seq(Output)
        /\ n \in Nat /\ m \in 0..n
        /\ u \in [0..n -> Nat]
    BY DEF Stacks, Weighed
  <1>2. \A i \in 1..n : u[i] = u[i - 1] + Weight(op_stack, d, i)
    BY DEF Weighed
  <1>3. Height(PopTo(n), u[n] + 1)
    BY PopNone
  <1>4. \A i \in (m + 1)..n : d[i] = d[i - 1]
    OBVIOUS
  <1>5. ASSUME NEW j \in Nat, \A l \in 0..(j - 1) : l \in S
        PROVE  j \in S
    <2> SUFFICES ASSUME j <= n - m PROVE Height(PopTo(n - j), u[n - j] + 1)
      OBVIOUS
    <2>1. CASE j = 0
      <3>1. n - j = n
        BY <1>1, <2>1
      <3> HIDE DEF n
      <3> QED BY <1>3, <3>1
    <2>2. CASE j > 0
      <3> DEFINE i == n - j + 1
                 o == op_stack[i]
                 a == Arity(o.lexeme)
      <3>1. /\ i \in 1..n /\ i \in (m + 1)..n /\ n - (j - 1) = i /\ n - j = i - 1
            /\ j - 1 \in 0..(j - 1) /\ j - 1 <= n - m
        BY <1>1, <2>2
      <3>2. j - 1 \in S
        BY <1>5, <3>1
      <3> HIDE DEF n, i
      <3>3. Height(PopTo(i), u[i] + 1)
        BY <3>1, <3>2
      <3>4. o \in Operator /\ o \in Output /\ o.type = "PUNCTUATOR"
        <4>1. o \in Operator
          BY <1>1, <3>1 DEF n
        <4> QED BY <4>1 DEF Operator, Output
      <3>5. Need(o) = a /\ a \in 1..3
        BY <3>4 DEF Need, Arity
      <3>6. u[i] = u[i - 1] + a - 1
        <4>1. Weight(op_stack, d, i) = a - 1
          BY <1>4, <3>1 DEF Weight
        <4>2. u[i - 1] \in Nat
          BY <1>1, <3>1
        <4> HIDE DEF a
        <4> QED BY <1>2, <3>1, <3>5, <4>1, <4>2
      <3>7. u[i] \in Nat /\ u[i - 1] \in Nat
        BY <1>1, <3>1
      <3>8. PopTo(i) \in Seq(Output)
        BY <1>1, <3>1, PopToFacts DEF n
      <3>9. PopTo(i - 1) = Append(PopTo(i), o)
        BY <3>1, PopTopmost DEF n
      <3> DEFINE h == u[i] + 1
      <3> HIDE DEF o, a
      <3>10. h \in Nat /\ h >= Need(o) /\ h - Need(o) + 1 = u[i - 1] + 1
        BY <3>5, <3>6, <3>7
      <3>11. Height(PopTo(i), h)
        BY <3>3
      <3> HIDE DEF h
      <3> DEFINE r == PopTo(i)
      <3> HIDE DEF r
      <3>12. Height(Append(r, o), h - Need(o) + 1)
        <4>1. r \in Seq(Output) /\ Height(r, h)
          BY <3>8, <3>11 DEF r
        <4> QED BY <3>4, <3>10, <4>1, AppendHeight
      <3>13. Height(PopTo(i - 1), u[i - 1] + 1)
        BY <3>9, <3>10, <3>12 DEF r
      <3> QED BY <3>1, <3>13
    <2> QED BY <2>1, <2>2
  <1> HIDE DEF S
  <1>6. Nat \subseteq S
    BY <1>5, SetInduction
  <1>7. n - m \in S
    BY <1>1, <1>6
  <1>8. Height(PopTo(n - (n - m)), u[n - (n - m)] + 1)
    BY <1>1, <1>7 DEF S
  <1>9. n - (n - m) = m
    BY <1>1
  <1> QED BY <1>8, <1>9

-----------------------------------------------------------------------------
(* What happens to the stack *)

Bracket == {"(", "?"}

\* The first m entries, with the brackets among them.
Lower(ops, open, d, u, m) ==
    \E e, v : /\ Nested(SubSeq(ops, 1, m), SubSeq(open, 1, d[m]), e)
              /\ Weighed(SubSeq(ops, 1, m), e, v)
              /\ \A i \in 0..m : e[i] = d[i] /\ v[i] = u[i]

LEMMA Truncate ==
    ASSUME NEW ops \in Seq(Operator), NEW open \in Seq(Bracket), NEW d, NEW u,
           Nested(ops, open, d), Weighed(ops, d, u),
           NEW m \in 0..Len(ops)
    PROVE  Lower(ops, open, d, u, m)
  <1> DEFINE rest == SubSeq(ops, 1, m)
             left == SubSeq(open, 1, d[m])
             n == Len(ops)
             b == d[m]
             e == [i \in 0..m |-> d[i]]
             v == [i \in 0..m |-> u[i]]
  <1>1. /\ n \in Nat /\ m \in Nat /\ m <= n /\ Len(open) \in Nat
        /\ d \in [0..n -> 0..Len(open)] /\ d[0] = 0
        /\ u \in [0..n -> Nat] /\ u[0] = 0
    BY DEF Nested, Weighed
  <1>2. \A i, j \in 0..n : i <= j => d[i] <= d[j]
    BY DEF Nested
  <1>3. /\ Len(rest) = m /\ \A i \in 1..m : rest[i] = ops[i]
    BY <1>1
  <1> HIDE DEF rest
  <1>4. b \in 0..Len(open) /\ b \in Nat
    BY <1>1
  <1>5. Len(left) = b /\ \A i \in 1..b : left[i] = open[i]
    <2> HIDE DEF b
    <2>1. left = SubSeq(open, 1, b)
      BY DEF b
    <2> HIDE DEF left
    <2>2. \A i \in 1..b : open[i] \in Bracket
      BY <1>1, <1>4
    <2>3. /\ Len(left) = IF 1 <= b THEN b - 1 + 1 ELSE 0
          /\ \A i \in 1..(b - 1 + 1) : left[i] = open[1 + i - 1]
      BY ONLY <1>4, <2>1, <2>2, SubSeqProperties
    <2>4. Len(left) = b
      <3>1. Len(left) = IF 1 <= b THEN b - 1 + 1 ELSE 0
        BY <2>3
      <3>2. b \in Nat
        BY <1>4
      <3> QED BY ONLY <3>1, <3>2
    <2>5. ASSUME NEW i \in 1..b PROVE left[i] = open[i]
      <3>1. i \in 1..(b - 1 + 1) /\ 1 + i - 1 = i
        BY <1>4
      <3>2. left[i] = open[1 + i - 1]
        BY <2>3, <3>1
      <3> QED BY <3>1, <3>2
    <2> QED BY <2>4, <2>5
  <1> HIDE DEF left
  <1>6. \A i \in 0..m : i \in 0..n /\ d[i] <= b /\ d[i] \in 0..b
    <2> SUFFICES ASSUME NEW i \in 0..m PROVE i \in 0..n /\ d[i] <= b /\ d[i] \in 0..b
      OBVIOUS
    <2>1. i \in 0..n /\ m \in 0..n /\ i <= m
      BY <1>1
    <2>2. d[i] <= d[m] /\ d[i] \in 0..Len(open)
      BY <1>1, <1>2, <2>1
    <2> QED BY <1>4, <2>1, <2>2
  <1>7. e \in [0..Len(rest) -> 0..Len(left)]
    <2> HIDE DEF b
    <2> QED BY <1>3, <1>5, <1>6
  <1>8. /\ e[0] = 0 /\ e[m] = b /\ v[0] = 0 /\ v[m] = u[m]
        /\ \A i \in 0..m : e[i] = d[i] /\ v[i] = u[i]
    BY <1>1
  <1>9. \A i, j \in 0..m : i <= j => e[i] <= e[j]
    BY <1>2, <1>6, <1>8
  <1>10. v \in [0..Len(rest) -> Nat]
    BY <1>1, <1>3, <1>6
  <1> HIDE DEF e, v, b
  <1>11. ASSUME NEW i \in 1..m
         PROVE  /\ \/ e[i] = e[i - 1] + 1 /\ rest[i].lexeme = left[e[i]]
                   \/ /\ e[i] = e[i - 1] /\ rest[i].lexeme # "("
                      /\ rest[i].lexeme = "?" => e[i] = 0 \/ left[e[i]] = "("
                /\ v[i] = v[i - 1] + Weight(rest, e, i)
    <2>1. /\ i \in 0..m /\ i - 1 \in 0..m /\ i \in 1..n
      BY <1>1
    <2>2. /\ e[i] = d[i] /\ e[i - 1] = d[i - 1] /\ v[i] = u[i] /\ v[i - 1] = u[i - 1]
          /\ rest[i] = ops[i] /\ d[i] \in 0..b /\ d[i - 1] \in 0..b
      BY <1>3, <1>6, <1>8, <2>1
    <2>3. d[i] = 0 \/ left[d[i]] = open[d[i]]
      <3>1. d[i] = 0 \/ d[i] \in 1..b
        BY <1>4, <2>2
      <3> QED BY <1>5, <3>1
    <2>4. /\ \/ d[i] = d[i - 1] + 1 /\ ops[i].lexeme = open[d[i]]
             \/ /\ d[i] = d[i - 1] /\ ops[i].lexeme # "("
                /\ ops[i].lexeme = "?" => d[i] = 0 \/ open[d[i]] = "("
      BY <2>1 DEF Nested
    <2>5. u[i] = u[i - 1] + Weight(ops, d, i)
      BY <2>1 DEF Weighed
    <2>6. Weight(rest, e, i) = Weight(ops, d, i)
      BY <2>2 DEF Weight
    <2>7. d[i] = d[i - 1] + 1 => d[i] # 0
      BY <1>4, <2>2
    <2> QED BY <2>2, <2>3, <2>4, <2>5, <2>6, <2>7
  <1>12. Nested(rest, left, e)
    BY <1>3, <1>5, <1>7, <1>8, <1>9, <1>11 DEF Nested
  <1>13. Weighed(rest, e, v)
    BY <1>3, <1>8, <1>10, <1>11 DEF Weighed
  <1>14. \E f, w : /\ Nested(rest, left, f) /\ Weighed(rest, f, w)
                   /\ \A i \in 0..m : f[i] = d[i] /\ w[i] = u[i]
    BY <1>8, <1>12, <1>13
  <1> QED BY <1>14 DEF Lower, rest, left

\* A bracket, or an operator that is none, is pushed.
LEMMA Push ==
    ASSUME NEW ops \in Seq(Operator), NEW t \in Operator,
           NEW open \in Seq(Bracket), NEW inner \in Seq(Bracket), NEW d, NEW u,
           Nested(ops, open, d), Weighed(ops, d, u),
           IF t.lexeme \in Bracket THEN inner = Append(open, t.lexeme) ELSE inner = open
    PROVE  \E e, v : /\ Nested(Append(ops, t), inner, e) /\ Weighed(Append(ops, t), e, v)
                     /\ v[Len(ops) + 1] = u[Len(ops)]
                            + IF t.lexeme = "(" THEN 0
                              ELSE IF t.lexeme = "?" THEN 1 ELSE Arity(t.lexeme) - 1
  <1> DEFINE n == Len(ops)
             p == t.lexeme
             w == IF p = "(" THEN 0 ELSE IF p = "?" THEN 1 ELSE Arity(p) - 1
             r == Append(ops, t)
             e == [i \in 0..(n + 1) |-> IF i <= n THEN d[i] ELSE Len(inner)]
             v == [i \in 0..(n + 1) |-> IF i <= n THEN u[i] ELSE u[n] + w]
  <1>1. /\ n \in Nat /\ Len(open) \in Nat /\ Len(inner) \in Nat
        /\ d \in [0..n -> 0..Len(open)] /\ d[0] = 0 /\ d[n] = Len(open)
        /\ u \in [0..n -> Nat] /\ u[0] = 0
    BY DEF Nested, Weighed
  <1>2. \A i, j \in 0..n : i <= j => d[i] <= d[j]
    BY DEF Nested
  <1>3. Len(r) = n + 1 /\ r[n + 1] = t /\ \A i \in 1..n : r[i] = ops[i]
    BY AppendProperties
  <1>4. w \in Nat
    BY DEF Arity
  <1>5. /\ p \in Bracket => Len(inner) = Len(open) + 1 /\ inner[Len(inner)] = p
        /\ p \notin Bracket => Len(inner) = Len(open)
        /\ \A i \in 1..Len(open) : inner[i] = open[i]
    <2>1. CASE p \in Bracket
      <3>1. inner = Append(open, p)
        BY <2>1
      <3> HIDE DEF p
      <3> QED BY <2>1, <3>1, AppendProperties
    <2>2. CASE p \notin Bracket
      BY <2>2
    <2> QED BY <2>1, <2>2
  <1> HIDE DEF r, w
  <1>6. /\ e[0] = 0 /\ e[n + 1] = Len(inner) /\ v[0] = 0 /\ v[n + 1] = u[n] + w
        /\ \A i \in 0..n : e[i] = d[i] /\ v[i] = u[i]
    <2>1. 0 \in 0..(n + 1) /\ n + 1 \in 0..(n + 1) /\ ~(n + 1 <= n) /\ 0 <= n
      BY <1>1
    <2>2. \A i \in 0..n : i \in 0..(n + 1) /\ i <= n
      BY <1>1
    <2> HIDE DEF n
    <2> QED BY <1>1, <2>1, <2>2
  <1>7. Len(open) <= Len(inner)
    <2>1. Len(inner) = Len(open) + 1 \/ Len(inner) = Len(open)
      BY <1>5
    <2> QED BY <1>1, <2>1
  <1>8. e \in [0..Len(r) -> 0..Len(inner)]
    <2>1. \A i \in 0..(n + 1) : i <= n => d[i] \in 0..Len(inner)
      <3>1. 0..Len(open) \subseteq 0..Len(inner)
        BY <1>1, <1>7
      <3>2. \A i \in 0..(n + 1) : i <= n => i \in 0..n
        BY <1>1
      <3>3. \A i \in 0..n : d[i] \in 0..Len(open)
        BY <1>1
      <3> QED BY <3>1, <3>2, <3>3
    <2> HIDE DEF n
    <2> QED BY <1>1, <1>3, <2>1
  <1>9. v \in [0..Len(r) -> Nat]
    <2>1. \A i \in 0..(n + 1) : i <= n => u[i] \in Nat
      <3>1. \A i \in 0..(n + 1) : i <= n => i \in 0..n
        BY <1>1
      <3>2. \A i \in 0..n : u[i] \in Nat
        BY <1>1
      <3> QED BY <3>1, <3>2
    <2>2. u[n] + w \in Nat
      BY <1>1, <1>4
    <2> HIDE DEF n
    <2> QED BY <1>3, <2>1, <2>2
  <1> HIDE DEF e, v, n
  <1>10. ASSUME NEW i \in 0..(n + 1), NEW j \in 0..(n + 1), i <= j
         PROVE  e[i] <= e[j]
    <2>1. CASE j \in 0..n
      <3>1. i \in 0..n
        BY <1>1, <1>10, <2>1
      <3>2. d[i] <= d[j]
        BY <1>2, <1>10, <2>1, <3>1
      <3> QED BY <1>6, <2>1, <3>1, <3>2
    <2>2. CASE j = n + 1
      <3>1. e[i] \in 0..Len(inner)
        BY <1>3, <1>8
      <3> QED BY <1>1, <1>6, <2>2, <3>1
    <2> QED BY <1>1, <2>1, <2>2
  <1>11. ASSUME NEW i \in 1..(n + 1)
         PROVE  /\ \/ e[i] = e[i - 1] + 1 /\ r[i].lexeme = inner[e[i]]
                   \/ /\ e[i] = e[i - 1] /\ r[i].lexeme # "("
                      /\ r[i].lexeme = "?" => e[i] = 0 \/ inner[e[i]] = "("
                /\ v[i] = v[i - 1] + Weight(r, e, i)
    <2>1. CASE i \in 1..n
      <3>1. i \in 0..n /\ i - 1 \in 0..n
        BY <1>1, <2>1
      <3>2. /\ e[i] = d[i] /\ e[i - 1] = d[i - 1] /\ v[i] = u[i] /\ v[i - 1] = u[i - 1]
            /\ r[i] = ops[i] /\ d[i] \in 0..Len(open) /\ d[i - 1] \in 0..Len(open)
        BY <1>1, <1>3, <1>6, <2>1, <3>1
      <3>3. d[i] = 0 \/ inner[d[i]] = open[d[i]]
        <4>1. d[i] = 0 \/ d[i] \in 1..Len(open)
          BY <1>1, <3>2
        <4> QED BY <1>5, <4>1
      <3>4. \/ d[i] = d[i - 1] + 1 /\ ops[i].lexeme = open[d[i]]
            \/ /\ d[i] = d[i - 1] /\ ops[i].lexeme # "("
               /\ ops[i].lexeme = "?" => d[i] = 0 \/ open[d[i]] = "("
        BY <2>1 DEF Nested, n
      <3>5. u[i] = u[i - 1] + Weight(ops, d, i)
        BY <2>1 DEF Weighed, n
      <3>6. Weight(r, e, i) = Weight(ops, d, i)
        BY <3>2 DEF Weight
      <3>7. d[i] = d[i - 1] + 1 => d[i] # 0
        BY <1>1, <3>2
      <3> QED BY <3>2, <3>3, <3>4, <3>5, <3>6, <3>7
    <2>2. CASE i = n + 1
      <3>1. /\ e[i] = Len(inner) /\ e[i - 1] = Len(open) /\ v[i] = u[n] + w /\ v[i - 1] = u[n]
            /\ r[i] = t
        <4>1. i - 1 = n /\ n \in 0..n
          BY <1>1, <2>2
        <4> QED BY <1>1, <1>3, <1>6, <2>2, <4>1
      <3>2. CASE p \in Bracket
        <4>1. e[i] = e[i - 1] + 1 /\ r[i].lexeme = inner[e[i]]
          BY <1>5, <3>1, <3>2
        <4>2. e[i] # e[i - 1]
          BY <1>1, <3>1, <4>1
        <4>3. Weight(r, e, i) = w
          BY <3>1, <3>2, <4>2 DEF Weight, w, Bracket
        <4> QED BY <3>1, <4>1, <4>3
      <3>3. CASE p \notin Bracket
        <4>1. e[i] = e[i - 1] /\ r[i].lexeme # "(" /\ r[i].lexeme # "?"
          BY <1>5, <3>1, <3>3 DEF Bracket
        <4>2. Weight(r, e, i) = w
          BY <3>1, <4>1 DEF Weight, w
        <4> QED BY <3>1, <4>1, <4>2
      <3> QED BY <3>2, <3>3
    <2> QED BY <1>1, <2>1, <2>2
  <1>12. Nested(r, inner, e)
    BY <1>3, <1>6, <1>8, <1>10, <1>11 DEF Nested
  <1>13. Weighed(r, e, v)
    BY <1>3, <1>6, <1>9, <1>11 DEF Weighed
  <1>14. v[n + 1] = u[n] + w
    BY <1>6
  <1> HIDE DEF p
  <1>15. Nested(Append(ops, t), inner, e) /\ Weighed(Append(ops, t), e, v)
    BY <1>12, <1>13 DEF r
  <1> QED BY <1>14, <1>15 DEF n, w, p

\* The brackets and weights of a stack whose last "?" gets its ":".
Completed(ops, left, u, n) ==
    \E e, v : Nested(ops, left, e) /\ Weighed(ops, e, v) /\ v[n] = u[n] + 1

\* The "?" on top of the stack gets its ":", and is no bracket any more.
LEMMA Complete ==
    ASSUME NEW ops \in Seq(Operator), NEW open \in Seq(Bracket), NEW d, NEW u,
           Nested(ops, open, d), Weighed(ops, d, u), Alternate(open),
           NEW n \in 1..Len(ops), n = Len(ops), ops[n].lexeme = "?",
           NEW b \in Nat, Len(open) = b + 1, open[b + 1] = "?", d[n - 1] = b,
           NEW left, left = SubSeq(open, 1, b)
    PROVE  Completed(ops, left, u, n)
  <1> DEFINE e == [i \in 0..n |-> IF i = n THEN b ELSE d[i]]
             v == [i \in 0..n |-> IF i = n THEN u[n] + 1 ELSE u[i]]
  <1>1. /\ n \in Nat /\ n > 0
        /\ d \in [0..n -> 0..(b + 1)] /\ d[0] = 0 /\ d[n] = b + 1
        /\ u \in [0..n -> Nat] /\ u[0] = 0
    BY DEF Nested, Weighed
  <1>2. Len(left) = b /\ left \in Seq(Bracket) /\ \A i \in 1..b : left[i] = open[i]
    BY <1>1
  <1>3. /\ e[0] = 0 /\ e[n] = b /\ v[0] = 0 /\ v[n] = u[n] + 1
        /\ \A i \in 0..(n - 1) : e[i] = d[i] /\ v[i] = u[i]
    BY <1>1
  <1>4. \A i \in 0..(n - 1) : d[i] <= b /\ d[i] \in 0..b
    <2> SUFFICES ASSUME NEW i \in 0..(n - 1) PROVE d[i] <= b /\ d[i] \in 0..b
      OBVIOUS
    <2>1. i \in 0..n /\ n - 1 \in 0..n /\ i <= n - 1
      BY <1>1
    <2>2. d[i] <= d[n - 1]
      BY <2>1 DEF Nested
    <2>3. d[i] \in 0..(b + 1)
      BY <1>1, <2>1
    <2> QED BY <2>2, <2>3
  <1>5. e \in [0..n -> 0..b]
    <2>1. \A i \in 0..n : i # n => i \in 0..(n - 1)
      BY <1>1
    <2> QED BY <1>4, <2>1
  <1>6. v \in [0..n -> Nat]
    <2>1. \A i \in 0..n : u[i] \in Nat
      BY <1>1
    <2> QED BY <2>1
  <1> HIDE DEF e, v
  <1>7. ASSUME NEW i \in 0..n, NEW j \in 0..n, i <= j
        PROVE  e[i] <= e[j]
    <2>1. CASE j \in 0..(n - 1)
      <3>1. i \in 0..(n - 1)
        BY <1>1, <1>7, <2>1
      <3>2. d[i] <= d[j]
        BY <1>1, <1>7, <2>1, <3>1 DEF Nested
      <3> QED BY <1>3, <2>1, <3>1, <3>2
    <2>2. CASE j = n
      <3>1. e[i] \in 0..b
        BY <1>5
      <3> QED BY <1>3, <2>2, <3>1
    <2> QED BY <1>1, <2>1, <2>2
  <1>8. ASSUME NEW i \in 1..n
        PROVE  /\ \/ e[i] = e[i - 1] + 1 /\ ops[i].lexeme = left[e[i]]
                  \/ /\ e[i] = e[i - 1] /\ ops[i].lexeme # "("
                     /\ ops[i].lexeme = "?" => e[i] = 0 \/ left[e[i]] = "("
               /\ v[i] = v[i - 1] + Weight(ops, e, i)
    <2>1. CASE i \in 1..(n - 1)
      <3>1. i \in 0..(n - 1) /\ i - 1 \in 0..(n - 1) /\ i \in 1..Len(ops)
        BY <1>1, <2>1
      <3>2. /\ e[i] = d[i] /\ e[i - 1] = d[i - 1] /\ v[i] = u[i] /\ v[i - 1] = u[i - 1]
            /\ d[i] \in 0..b /\ d[i - 1] \in 0..b
        BY <1>3, <1>4, <3>1
      <3>3. d[i] = 0 \/ left[d[i]] = open[d[i]]
        <4>1. d[i] = 0 \/ d[i] \in 1..b
          BY <3>2
        <4> QED BY <1>2, <4>1
      <3>4. \/ d[i] = d[i - 1] + 1 /\ ops[i].lexeme = open[d[i]]
            \/ /\ d[i] = d[i - 1] /\ ops[i].lexeme # "("
               /\ ops[i].lexeme = "?" => d[i] = 0 \/ open[d[i]] = "("
        BY <3>1 DEF Nested
      <3>5. u[i] = u[i - 1] + Weight(ops, d, i)
        BY <3>1 DEF Weighed
      <3>6. Weight(ops, e, i) = Weight(ops, d, i)
        BY <3>2 DEF Weight
      <3>7. d[i] = d[i - 1] + 1 => d[i] # 0
        BY <3>2
      <3> QED BY <3>2, <3>3, <3>4, <3>5, <3>6, <3>7
    <2>2. CASE i = n
      <3>1. e[i] = b /\ e[i - 1] = b /\ v[i] = u[n] + 1 /\ v[i - 1] = u[n - 1]
        <4>1. n - 1 \in 0..(n - 1)
          BY <1>1
        <4> QED BY <1>3, <2>2, <4>1
      <3>2. Weight(ops, e, i) = 2
        BY <2>2, <3>1 DEF Weight, Arity
      <3>3. Weight(ops, d, n) = 1
        BY <1>1 DEF Weight
      <3>4. u[n] = u[n - 1] + 1 /\ u[n - 1] \in Nat
        <4>1. u[n] = u[n - 1] + Weight(ops, d, n)
          BY DEF Weighed
        <4>2. n - 1 \in 0..n
          BY <1>1
        <4> QED BY <1>1, <3>3, <4>1, <4>2
      <3>5. b = 0 \/ left[b] = "("
        <4> SUFFICES ASSUME b # 0 PROVE left[b] = "("
          OBVIOUS
        <4>1. b \in 1..b /\ b \in 1..(Len(open) - 1)
          OBVIOUS
        <4>2. open[b] # "?"
          BY <4>1 DEF Alternate
        <4>3. left[b] \in Bracket
          BY <1>2, <4>1
        <4> QED BY <1>2, <4>1, <4>2, <4>3 DEF Bracket
      <3>6. v[i] = v[i - 1] + Weight(ops, e, i)
        BY <3>1, <3>2, <3>4
      <3>7. ops[i].lexeme = "?"
        BY <2>2
      <3>8. /\ e[i] = e[i - 1] /\ ops[i].lexeme # "("
            /\ e[i] = 0 \/ left[e[i]] = "("
        BY <3>1, <3>5, <3>7
      <3> QED BY <3>6, <3>8
    <2>3. i \in 1..(n - 1) \/ i = n
      BY <1>1
    <2> QED BY ONLY <2>1, <2>2, <2>3, Zenon
  <1>9. Nested(ops, left, e)
    BY <1>2, <1>3, <1>5, <1>7, <1>8 DEF Nested
  <1>10. Weighed(ops, e, v)
    BY <1>3, <1>6, <1>8 DEF Weighed
  <1> QED BY <1>3, <1>9, <1>10 DEF Completed

-----------------------------------------------------------------------------
(* The steps of the shunting yard on a condition *)

LEMMA PrecedenceFacts ==
    /\ \A o \in Operators \cup {"("} : Precedence[o] \in Int /\ (o # "!" => Precedence[o] < 2)
    /\ \A o \in Operators \ {"?"} : Precedence[o] > -5
    /\ Precedence["!"] = 2 /\ Precedence["?"] = -5 /\ Precedence["("] = -10
  BY DEF Precedence, Operators

LEMMA TopmostFacts ==
    ASSUME NEW n \in Nat, NEW S, S \subseteq 1..n, NEW m, m = Max({0} \cup S)
    PROVE  /\ m \in 0..n
           /\ m = 0 \/ m \in S
           /\ \A i \in (m + 1)..n : i \notin S
  <1> DEFINE T == {0} \cup S
  <1>1. T \subseteq 0..n /\ T # {}
    OBVIOUS
  <1> HIDE DEF T
  <1>2. Max(T) \in T /\ \A y \in T : y <= Max(T)
    BY <1>1, MaxOfNaturals
  <1>3. m \in T /\ \A y \in T : y <= m
    BY <1>2 DEF T
  <1>4. m \in 0..n
    BY <1>1, <1>3
  <1>5. \A i \in (m + 1)..n : i \notin S
    <2>1. \A i \in (m + 1)..n : ~(i <= m)
      BY <1>4
    <2> QED BY <1>3, <2>1 DEF T
  <1> QED BY <1>3, <1>4, <1>5 DEF T

LEMMA LabelFacts ==
    ASSUME NEW a \in Labels
    PROVE  /\ a.open \in Seq(Bracket)
           /\ \A place \in Places, open \in Seq(Bracket) :
                  /\ Label(place, open) \in Labels
                  /\ Label(place, open).place = place /\ Label(place, open).open = open
  BY DEF Labels, Label, Bracket

\* All that is above the last bracket can be popped where an operand has been
\* read.
LEMMA PopAbove ==
    ASSUME Stacks, NEW open \in Seq(Bracket), NEW d, NEW u,
           Nested(op_stack, open, d), Weighed(op_stack, d, u),
           Height(RPN_tokens, u[Len(op_stack)] + 1),
           NEW m \in 0..Len(op_stack), d[m] = Len(open)
    PROVE  Height(PopTo(m), u[m] + 1)
  <1>1. op_stack \in Seq(Operator)
    BY DEF Stacks
  <1>2. \A j \in (m + 1)..Len(op_stack) : d[j] = Len(open) /\ d[j - 1] = Len(open)
    BY <1>1, NoneAbove DEF Bracket
  <1>3. \A j \in (m + 1)..Len(op_stack) : d[j] = d[j - 1]
    BY <1>2
  <1> QED BY <1>3, PopHeight

LEMMA OperandYard ==
    ASSUME Stacks, NEW a \in Labels, Yard(op_stack, RPN_tokens, a),
           a.place \in {"operand", "negated"},
           NEW t \in Output, t.type = "CONSTANT"
    PROVE  Yard(op_stack, Append(RPN_tokens, t), Label("operator", a.open))
  <1> DEFINE n == Len(op_stack)
             b == Label("operator", a.open)
  <1>1. PICK d, u : /\ Nested(op_stack, a.open, d) /\ Weighed(op_stack, d, u)
                    /\ Height(RPN_tokens, u[n])
    <2>1. PICK d, u : /\ Nested(op_stack, a.open, d) /\ Weighed(op_stack, d, u)
                      /\ Height(RPN_tokens, u[n] + 0)
      BY DEF Yard
    <2>2. u[n] \in Nat
      BY <2>1 DEF Weighed, Stacks
    <2>3. u[n] + 0 = u[n]
      BY <2>2
    <2> QED BY <2>1, <2>3
  <1> DEFINE h == u[n]
  <1>2. h \in Nat
    BY <1>1 DEF Weighed, Stacks
  <1>3. RPN_tokens \in Seq(Output) /\ Need(t) = 0
    BY DEF Stacks, Need
  <1>4. Height(RPN_tokens, h)
    BY <1>1
  <1> HIDE DEF h
  <1>5. Height(Append(RPN_tokens, t), h - Need(t) + 1)
    BY <1>2, <1>3, <1>4, AppendHeight
  <1>6. h - Need(t) + 1 = h + 1
    BY <1>2, <1>3
  <1>7. Height(Append(RPN_tokens, t), h + 1)
    BY <1>5, <1>6
  <1>8. b.place = "operator" /\ b.open = a.open
    BY DEF Label
  <1> HIDE DEF b
  <1>9. \E e, v : /\ Nested(op_stack, b.open, e) /\ Weighed(op_stack, e, v)
                  /\ Height(Append(RPN_tokens, t), v[n] + 1)
    BY <1>1, <1>7, <1>8 DEF h
  <1>10. /\ \A i \in 1..Len(op_stack) : op_stack[i].lexeme \in Operators \cup {"("}
         /\ Alternate(b.open)
    BY <1>8 DEF Yard
  <1> QED BY <1>8, <1>9, <1>10 DEF Yard, b

\* An operator is pushed for which the numbers are there that it takes off,
\* but for the one to come.
LEMMA PushYard ==
    ASSUME NEW ops \in Seq(Operator), NEW open \in Seq(Bracket), NEW d, NEW u,
           Nested(ops, open, d), Weighed(ops, d, u),
           \A i \in 1..Len(ops) : ops[i].lexeme \in Operators \cup {"("},
           NEW t \in Operator, t.lexeme \in Operators \cup {"("},
           NEW rpn,
           Height(rpn, u[Len(ops)] + IF t.lexeme = "(" THEN 0
                                     ELSE IF t.lexeme = "?" THEN 1 ELSE Arity(t.lexeme) - 1),
           NEW b \in Labels, b.place \in {"operand", "negated"},
           b.place = "operand" => t.lexeme # "!",
           IF t.lexeme \in Bracket THEN b.open = Append(open, t.lexeme) ELSE b.open = open,
           Alternate(b.open)
    PROVE  Yard(Append(ops, t), rpn, b)
  <1> DEFINE n == Len(ops)
             w == IF t.lexeme = "(" THEN 0 ELSE IF t.lexeme = "?" THEN 1 ELSE Arity(t.lexeme) - 1
             r == Append(ops, t)
             inner == b.open
  <1>1. n \in Nat /\ Len(r) = n + 1 /\ r[n + 1] = t /\ \A i \in 1..n : r[i] = ops[i]
    BY AppendProperties
  <1>2. inner \in Seq(Bracket)
    BY LabelFacts
  <1>3. PICK e, v : Nested(r, inner, e) /\ Weighed(r, e, v) /\ v[n + 1] = u[n] + w
    <2> HIDE DEF inner
    <2>1. IF t.lexeme \in Bracket THEN inner = Append(open, t.lexeme) ELSE inner = open
      BY DEF inner
    <2> QED BY <1>2, <2>1, Push
  <1>4. v[n + 1] \in Nat
    <2>1. v \in [0..(n + 1) -> Nat]
      BY <1>1, <1>3 DEF Weighed
    <2>2. n + 1 \in 0..(n + 1)
      BY <1>1
    <2> HIDE DEF n
    <2> QED BY <2>1, <2>2
  <1>5. Height(rpn, u[n] + w)
    OBVIOUS
  <1> HIDE DEF w, r, n, inner
  <1>6. Height(rpn, v[Len(r)] + 0)
    <2>1. v[Len(r)] + 0 = u[n] + w
      BY <1>1, <1>3, <1>4
    <2> QED BY <1>5, <2>1
  <1>7. \A i \in 1..Len(r) : r[i].lexeme \in Operators \cup {"("}
    <2>1. \A i \in 1..n : ops[i].lexeme \in Operators \cup {"("}
      BY DEF n
    <2>2. \A i \in 1..(n + 1) : i \in 1..n \/ i = n + 1
      BY <1>1
    <2> QED BY <1>1, <2>1, <2>2
  <1>8. b.place = "operand" => r = <<>> \/ r[Len(r)].lexeme # "!"
    BY <1>1
  <1>9. b.place # "operator"
    OBVIOUS
  <1>10. \E d1, u1 : /\ Nested(r, inner, d1) /\ Weighed(r, d1, u1)
                     /\ Height(rpn, u1[Len(r)] + 0)
    BY <1>3, <1>6
  <1>11. Yard(r, rpn, b)
    BY <1>7, <1>8, <1>9, <1>10 DEF Yard, inner
  <1> QED BY <1>11 DEF r

LEMMA YardFacts ==
    ASSUME Stacks, NEW a \in Labels, Yard(op_stack, RPN_tokens, a),
           a.place \in {"operand", "negated", "operator"}
    PROVE  /\ \E d, u : /\ Nested(op_stack, a.open, d) /\ Weighed(op_stack, d, u)
                        /\ Height(RPN_tokens, u[Len(op_stack)] + IF a.place = "operator" THEN 1 ELSE 0)
                        /\ a.place # "operator" => Height(RPN_tokens, u[Len(op_stack)])
           /\ op_stack \in Seq(Operator) /\ a.open \in Seq(Bracket)
           /\ Alternate(a.open)
           /\ \A i \in 1..Len(op_stack) : op_stack[i].lexeme \in Operators \cup {"("}
  <1>1. PICK d, u : /\ Nested(op_stack, a.open, d) /\ Weighed(op_stack, d, u)
                    /\ Height(RPN_tokens, u[Len(op_stack)] + IF a.place = "operator" THEN 1 ELSE 0)
    BY DEF Yard
  <1>2. op_stack \in Seq(Operator) /\ a.open \in Seq(Bracket)
    BY LabelFacts DEF Stacks
  <1>3. u[Len(op_stack)] \in Nat
    BY <1>1, <1>2 DEF Weighed
  <1>4. a.place # "operator" => Height(RPN_tokens, u[Len(op_stack)])
    <2> DEFINE h == u[Len(op_stack)]
    <2>1. h + 0 = h
      BY <1>3
    <2>2. a.place # "operator" => Height(RPN_tokens, h + 0)
      BY <1>1
    <2> HIDE DEF h
    <2>3. a.place # "operator" => Height(RPN_tokens, h)
      BY <2>1, <2>2
    <2> QED BY <2>3 DEF h
  <1> QED BY <1>1, <1>2, <1>4 DEF Yard

LEMMA AlternateFacts ==
    ASSUME NEW open \in Seq(Bracket), Alternate(open)
    PROVE  /\ Alternate(Append(open, "("))
           /\ open = <<>> \/ open[Len(open)] # "?" => Alternate(Append(open, "?"))
           /\ \A k \in 0..Len(open) : Alternate(SubSeq(open, 1, k))
  <1>1. Len(open) \in Nat /\ "(" \in Bracket /\ "?" \in Bracket
    BY DEF Bracket
  <1>2. \A p \in Bracket : /\ Len(Append(open, p)) = Len(open) + 1
                           /\ Append(open, p)[Len(open) + 1] = p
                           /\ \A i \in 1..Len(open) : Append(open, p)[i] = open[i]
    BY AppendProperties
  <1>3. ASSUME NEW p \in Bracket, p = "(" \/ open = <<>> \/ open[Len(open)] # "?"
        PROVE  Alternate(Append(open, p))
    <2> DEFINE r == Append(open, p)
    <2> SUFFICES ASSUME NEW i \in 1..(Len(r) - 1), r[i] = "?", r[i + 1] = "?" PROVE FALSE
      BY DEF Alternate
    <2>1. i \in 1..Len(open) /\ r[i] = open[i]
      BY <1>1, <1>2
    <2>2. CASE i = Len(open)
      <3>1. r[i + 1] = p /\ open # <<>>
        BY <1>1, <1>2, <2>1, <2>2
      <3> QED BY <1>3, <2>1, <2>2, <3>1
    <2>3. CASE i # Len(open)
      <3>1. i + 1 \in 1..Len(open) /\ i \in 1..(Len(open) - 1)
        BY <1>1, <2>1, <2>3
      <3>2. r[i + 1] = open[i + 1]
        BY <1>2, <3>1
      <3> QED BY <2>1, <3>1, <3>2 DEF Alternate
    <2> QED BY <2>2, <2>3
  <1>4. ASSUME NEW k \in 0..Len(open)
        PROVE  Alternate(SubSeq(open, 1, k))
    <2> DEFINE r == SubSeq(open, 1, k)
    <2>1. Len(r) = k /\ \A i \in 1..k : r[i] = open[i]
      BY <1>1
    <2> SUFFICES ASSUME NEW i \in 1..(Len(r) - 1), r[i] = "?", r[i + 1] = "?" PROVE FALSE
      BY DEF Alternate
    <2>2. i \in 1..k /\ i + 1 \in 1..k /\ i \in 1..(Len(open) - 1)
      BY <1>1, <2>1
    <2>3. open[i] = "?" /\ open[i + 1] = "?"
      BY <2>1, <2>2
    <2> QED BY <2>2, <2>3 DEF Alternate
  <1> QED BY <1>1, <1>3, <1>4

LEMMA LeftYard ==
    ASSUME Stacks, NEW a \in Labels, Yard(op_stack, RPN_tokens, a),
           a.place \in {"operand", "negated"},
           NEW t \in Operator, t.lexeme = "("
    PROVE  Yard(Append(op_stack, t), RPN_tokens, Label("operand", Append(a.open, "(")))
  <1> DEFINE b == Label("operand", Append(a.open, "("))
  <1>1. PICK d, u : /\ Nested(op_stack, a.open, d) /\ Weighed(op_stack, d, u)
                    /\ Height(RPN_tokens, u[Len(op_stack)] + 0)
    BY DEF Yard
  <1>2. a.open \in Seq(Bracket) /\ Append(a.open, "(") \in Seq(Bracket)
    BY LabelFacts DEF Bracket
  <1>3. b \in Labels /\ b.place = "operand" /\ b.open = Append(a.open, "(")
    BY <1>2, LabelFacts DEF Places
  <1>4. Alternate(a.open) /\ op_stack \in Seq(Operator)
        /\ \A i \in 1..Len(op_stack) : op_stack[i].lexeme \in Operators \cup {"("}
    BY YardFacts
  <1>5. Alternate(b.open)
    BY <1>2, <1>3, <1>4, AlternateFacts
  <1> HIDE DEF b
  <1>6. Yard(Append(op_stack, t), RPN_tokens, b)
    <2>1. t.lexeme \in Bracket /\ t.lexeme # "!" /\ t.lexeme \in Operators \cup {"("}
      BY DEF Bracket
    <2>2. IF t.lexeme \in Bracket THEN b.open = Append(a.open, t.lexeme) ELSE b.open = a.open
      BY <1>3, <2>1
    <2>3. Height(RPN_tokens, u[Len(op_stack)] + IF t.lexeme = "(" THEN 0
                                     ELSE IF t.lexeme = "?" THEN 1 ELSE Arity(t.lexeme) - 1)
      BY <1>1
    <2> QED BY <1>1, <1>2, <1>3, <1>4, <1>5, <2>1, <2>2, <2>3, PushYard
  <1> QED BY <1>6 DEF b

LEMMA NotYard ==
    ASSUME Stacks, NEW a \in Labels, Yard(op_stack, RPN_tokens, a), a.place = "operand",
           NEW t \in Operator, t.lexeme = "!",
           NEW n, n = Max({0} \cup {i \in 1..Len(op_stack) :
                                        Precedence[t.lexeme] > Precedence[op_stack[i].lexeme]})
    PROVE  Yard(Append(SubSeq(op_stack, 1, n), t), PopTo(n), Label("negated", a.open))
  <1> DEFINE k == Len(op_stack)
             S == {i \in 1..k : Precedence[t.lexeme] > Precedence[op_stack[i].lexeme]}
             b == Label("negated", a.open)
  <1>1. /\ Alternate(a.open) /\ op_stack \in Seq(Operator) /\ a.open \in Seq(Bracket)
        /\ \A i \in 1..k : op_stack[i].lexeme \in Operators \cup {"("}
    BY YardFacts
  <1>2. k \in Nat /\ S \subseteq 1..k /\ (k = 0 => op_stack = <<>>)
    BY <1>1, EmptySeq
  <1>3. k = 0 \/ k \in S
    <2> SUFFICES ASSUME k # 0 PROVE k \in S
      OBVIOUS
    <2>1. k \in 1..k /\ op_stack # <<>>
      BY <1>2
    <2>2. op_stack[k].lexeme # "!"
      BY <2>1 DEF Yard
    <2>3. op_stack[k].lexeme \in Operators \cup {"("}
      BY <1>1, <2>1
    <2>4. Precedence[op_stack[k].lexeme] \in Int /\ Precedence[op_stack[k].lexeme] < 2
      BY <2>2, <2>3, PrecedenceFacts
    <2>5. Precedence[t.lexeme] = 2
      BY PrecedenceFacts
    <2> QED BY <2>1, <2>4, <2>5
  <1>4. n = Max({0} \cup S)
    OBVIOUS
  <1> HIDE DEF S
  <1>5. n \in 0..k /\ \A i \in (n + 1)..k : i \notin S
    BY <1>2, <1>4, TopmostFacts
  <1>6. n = k
    <2>1. k # 0 => ~(k \in (n + 1)..k)
      BY <1>3, <1>5
    <2> QED BY <1>2, <1>5, <2>1
  <1>7. SubSeq(op_stack, 1, n) = op_stack /\ PopTo(n) = RPN_tokens
    <2>1. SubSeq(op_stack, 1, k) = op_stack
      BY <1>1
    <2>2. PopTo(k) = RPN_tokens
      BY PopNone
    <2> HIDE DEF k
    <2> QED BY <1>6, <2>1, <2>2
  <1>8. PICK d, u : /\ Nested(op_stack, a.open, d) /\ Weighed(op_stack, d, u)
                    /\ Height(RPN_tokens, u[Len(op_stack)] + 0)
    BY DEF Yard
  <1>9. b \in Labels /\ b.place = "negated" /\ b.open = a.open
    BY <1>1, LabelFacts DEF Places
  <1> HIDE DEF b, k
  <1>10. Yard(Append(op_stack, t), RPN_tokens, b)
    <2>1. t.lexeme \notin Bracket /\ t.lexeme \in Operators \cup {"("} /\ Arity(t.lexeme) = 1
      BY DEF Bracket, Operators, Arity
    <2>2. Height(RPN_tokens, u[Len(op_stack)] + IF t.lexeme = "(" THEN 0
                                     ELSE IF t.lexeme = "?" THEN 1 ELSE Arity(t.lexeme) - 1)
      BY <1>8, <2>1
    <2>3. IF t.lexeme \in Bracket THEN b.open = Append(a.open, t.lexeme) ELSE b.open = a.open
      BY <1>9, <2>1
    <2>4. \A i \in 1..Len(op_stack) : op_stack[i].lexeme \in Operators \cup {"("}
      BY <1>1 DEF k
    <2> QED BY <1>1, <1>8, <1>9, <2>1, <2>2, <2>3, <2>4, PushYard
  <1> QED BY <1>7, <1>10 DEF b

\* The stack below the operators popped, which are above all brackets.
LEMMA PopYard ==
    ASSUME Stacks, NEW a \in Labels, Yard(op_stack, RPN_tokens, a), a.place = "operator",
           NEW m \in 0..Len(op_stack),
           \A i \in (m + 1)..Len(op_stack) :
               /\ op_stack[i].lexeme # "("
               /\ op_stack[i].lexeme = "?" => ~Innermost(a, "?")
    PROVE  \E d, u : /\ Nested(SubSeq(op_stack, 1, m), a.open, d)
                     /\ Weighed(SubSeq(op_stack, 1, m), d, u)
                     /\ Height(PopTo(m), u[m] + 1)
  <1> DEFINE open == a.open
             k == Len(op_stack)
             low == SubSeq(op_stack, 1, m)
  <1>1. /\ Alternate(open) /\ op_stack \in Seq(Operator) /\ open \in Seq(Bracket)
    BY YardFacts
  <1>2. PICK d, u : /\ Nested(op_stack, open, d) /\ Weighed(op_stack, d, u)
                    /\ Height(RPN_tokens, u[k] + 1)
    BY DEF Yard
  <1>3. k \in Nat /\ m \in 0..k /\ Len(open) \in Nat /\ (Len(open) = 0 => open = <<>>)
    BY <1>1, EmptySeq
  <1>4. d \in [0..k -> 0..Len(open)] /\ d[0] = 0 /\ d[k] = Len(open)
    BY <1>2 DEF Nested
  <1>5. \A i, j \in 0..k : i <= j => d[i] <= d[j]
    BY <1>2 DEF Nested
  <1>6. \E i \in 0..m : d[i] = Len(open)
    <2>1. CASE open = <<>>
      <3>1. 0 \in 0..m /\ d[0] = Len(open)
        BY <1>3, <1>4, <2>1
      <3> QED BY <3>1
    <2>2. CASE open # <<>>
      <3>1. PICK i \in 1..k : d[i] = Len(open) /\ op_stack[i].lexeme = open[Len(open)]
        <4> HIDE DEF open
        <4> QED BY <1>1, <1>2, <2>2, LastBracket DEF Bracket
      <3>2. Len(open) \in 1..Len(open)
        BY <1>3, <2>2
      <3>3. op_stack[i].lexeme \in Bracket
        BY <1>1, <3>1, <3>2
      <3>4. op_stack[i].lexeme = "?" => Innermost(a, "?")
        BY <2>2, <3>1 DEF Innermost, Last
      <3>5. i \notin (m + 1)..k
        BY <3>3, <3>4 DEF Bracket
      <3>6. i \in 0..m
        BY <1>3, <3>5
      <3> QED BY <3>1, <3>6
    <2> QED BY <2>1, <2>2
  <1>7. d[m] = Len(open)
    <2>1. PICK i \in 0..m : d[i] = Len(open)
      BY <1>6
    <2>2. i \in 0..k /\ m \in 0..k /\ i <= m
      BY <1>3
    <2>3. d[i] <= d[m] /\ d[m] \in 0..Len(open)
      BY <1>4, <1>5, <2>2
    <2> QED BY <1>3, <2>1, <2>3
  <1>8. Height(PopTo(m), u[m] + 1)
    <2> HIDE DEF open
    <2> QED BY <1>1, <1>2, <1>7, PopAbove
  <1>9. SubSeq(open, 1, d[m]) = open
    BY <1>1, <1>7
  <1> HIDE DEF open, low
  <1>10. PICK e, v : Nested(low, open, e) /\ Weighed(low, e, v) /\ v[m] = u[m]
    <2>1. Lower(op_stack, open, d, u, m)
      BY <1>1, <1>2, Truncate
    <2>2. PICK e, v : /\ Nested(low, SubSeq(open, 1, d[m]), e) /\ Weighed(low, e, v)
                      /\ \A i \in 0..m : e[i] = d[i] /\ v[i] = u[i]
      BY <2>1 DEF Lower, low
    <2>3. v[m] = u[m]
      BY <1>3, <2>2
    <2>4. Nested(low, open, e)
      BY <1>9, <2>2
    <2> QED BY <2>2, <2>3, <2>4
  <1>11. Height(PopTo(m), v[m] + 1)
    BY <1>8, <1>10
  <1> QED BY <1>10, <1>11 DEF low, open

\* An operator that has its left operand, `?` included.
LEMMA OperatorYard ==
    ASSUME Stacks, NEW a \in Labels, Yard(op_stack, RPN_tokens, a), a.place = "operator",
           NEW t \in Operator, t.lexeme \in Operators \ {"!"},
           t.lexeme = "?" => ~Innermost(a, "?"),
           NEW n, n = Max({0} \cup {i \in 1..Len(op_stack) :
                                        Precedence[t.lexeme] > Precedence[op_stack[i].lexeme]}),
           NEW b \in Labels, b.place = "operand",
           b.open = IF t.lexeme = "?" THEN Append(a.open, "?") ELSE a.open
    PROVE  Yard(Append(SubSeq(op_stack, 1, n), t), PopTo(n), b)
  <1> DEFINE k == Len(op_stack)
             S == {i \in 1..k : Precedence[t.lexeme] > Precedence[op_stack[i].lexeme]}
             low == SubSeq(op_stack, 1, n)
  <1>1. /\ Alternate(a.open) /\ op_stack \in Seq(Operator) /\ a.open \in Seq(Bracket)
        /\ \A i \in 1..k : op_stack[i].lexeme \in Operators \cup {"("}
    BY YardFacts
  <1>2. k \in Nat /\ S \subseteq 1..k
    BY <1>1
  <1>3. n = Max({0} \cup S)
    OBVIOUS
  <1>4. n \in 0..k /\ \A i \in (n + 1)..k : i \notin S
    <2> HIDE DEF S, k
    <2> QED BY <1>2, <1>3, TopmostFacts
  <1>5. ASSUME NEW i \in (n + 1)..k
        PROVE  op_stack[i].lexeme # "(" /\ (op_stack[i].lexeme = "?" => ~Innermost(a, "?"))
    <2>1. i \in 1..k /\ i \notin S
      BY <1>2, <1>4
    <2>2. ~(Precedence[t.lexeme] > Precedence[op_stack[i].lexeme])
      BY <2>1
    <2>3. /\ Precedence[t.lexeme] \in Int /\ (t.lexeme # "?" => Precedence[t.lexeme] > -5)
          /\ (t.lexeme = "?" => Precedence[t.lexeme] = -5)
      BY PrecedenceFacts
    <2>4. op_stack[i].lexeme # "("
      BY <2>2, <2>3, PrecedenceFacts
    <2>5. op_stack[i].lexeme = "?" => t.lexeme = "?"
      BY <2>2, <2>3, PrecedenceFacts
    <2> QED BY <2>4, <2>5
  <1> HIDE DEF S
  <1>6. PICK d, u : /\ Nested(low, a.open, d) /\ Weighed(low, d, u)
                    /\ Height(PopTo(n), u[n] + 1)
    BY <1>2, <1>4, <1>5, PopYard
  <1>7. low \in Seq(Operator) /\ Len(low) = n
    <2>1. n \in 0..Len(op_stack)
      BY <1>4
    <2> QED BY <2>1, PopToFacts
  <1>8. \A i \in 1..Len(low) : low[i].lexeme \in Operators \cup {"("}
    <2>1. \A i \in 1..n : i \in 1..k /\ low[i] = op_stack[i]
      BY <1>1, <1>2, <1>4
    <2> HIDE DEF low, k
    <2> QED BY <1>1, <1>7, <2>1
  <1>9. Alternate(b.open)
    <2>1. CASE t.lexeme = "?"
      <3>1. a.open = <<>> \/ a.open[Len(a.open)] # "?"
        BY <2>1 DEF Innermost, Last
      <3>2. Alternate(Append(a.open, "?"))
        BY <1>1, <3>1, AlternateFacts
      <3> QED BY <2>1, <3>2
    <2>2. CASE t.lexeme # "?"
      BY <1>1, <2>2
    <2> QED BY <2>1, <2>2
  <1>10. IF t.lexeme \in Bracket THEN b.open = Append(a.open, t.lexeme) ELSE b.open = a.open
    <2>1. t.lexeme # "("
      BY DEF Operators
    <2> QED BY <2>1 DEF Bracket
  <1> HIDE DEF low
  <1>11. Height(PopTo(n), u[Len(low)] + IF t.lexeme = "(" THEN 0
                                     ELSE IF t.lexeme = "?" THEN 1 ELSE Arity(t.lexeme) - 1)
    <2>1. t.lexeme # "(" /\ (t.lexeme # "?" => Arity(t.lexeme) - 1 = 1)
      BY DEF Operators, Arity
    <2>2. (IF t.lexeme = "(" THEN 0
           ELSE IF t.lexeme = "?" THEN 1 ELSE Arity(t.lexeme) - 1) = 1
      BY <2>1
    <2> QED BY <1>6, <1>7, <2>2
  <1>12. Yard(Append(low, t), PopTo(n), b)
    <2>1. t.lexeme \in Operators \cup {"("} /\ t.lexeme # "!" /\ b.place \in {"operand", "negated"}
      OBVIOUS
    <2> QED BY <1>1, <1>6, <1>7, <1>8, <1>9, <1>10, <1>11, <2>1, PushYard
  <1> QED BY <1>12 DEF low

\* Where the innermost bracket is, and that it is the topmost of its kind.
LEMMA InnermostFacts ==
    ASSUME Stacks, NEW a \in Labels, NEW d, NEW u, NEW p \in Bracket, Innermost(a, p),
           Nested(op_stack, a.open, d),
           NEW n, n = Max({0} \cup {i \in 1..Len(op_stack) : op_stack[i].lexeme = p})
    PROVE  /\ n \in 1..Len(op_stack) /\ op_stack[n].lexeme = p
           /\ d[n] = Len(a.open) /\ d[n - 1] = Len(a.open) - 1
           /\ Len(a.open) \in Nat \ {0} /\ a.open[Len(a.open)] = p
  <1> DEFINE open == a.open
             k == Len(op_stack)
             S == {i \in 1..k : op_stack[i].lexeme = p}
  <1>1. op_stack \in Seq(Operator) /\ open \in Seq(Bracket) /\ k \in Nat /\ S \subseteq 1..k
    BY LabelFacts DEF Stacks
  <1>2. open # <<>> /\ open[Len(open)] = p /\ Len(open) \in Nat \ {0}
    BY <1>1, EmptySeq DEF Innermost, Last
  <1> HIDE DEF open
  <1>3. PICK i \in 1..k : /\ d[i] = Len(open) /\ d[i - 1] = Len(open) - 1
                          /\ op_stack[i].lexeme = p
    <2>1. Nested(op_stack, open, d)
      BY DEF open
    <2> QED BY <1>1, <1>2, <2>1, LastBracket DEF Bracket
  <1>4. i \in S
    BY <1>3
  <1>5. n = Max({0} \cup S)
    OBVIOUS
  <1>6. \A j \in S : j <= i
    <2> SUFFICES ASSUME NEW j \in S, ~(j <= i) PROVE FALSE
      OBVIOUS
    <2>1. j \in (i + 1)..k /\ i \in 0..k /\ op_stack[j].lexeme = p
      BY <1>1, <1>3
    <2>2. /\ op_stack[j].lexeme # "("
          /\ op_stack[j].lexeme = "?" => open = <<>> \/ open[Len(open)] = "("
      <3>1. Nested(op_stack, open, d)
        BY DEF open
      <3>2. open \in Seq({"(", "?"})
        BY <1>1 DEF Bracket
      <3>3. \A l \in (i + 1)..Len(op_stack) :
               /\ d[l] = Len(open) /\ d[l - 1] = Len(open)
               /\ op_stack[l].lexeme # "("
               /\ op_stack[l].lexeme = "?" => open = <<>> \/ open[Len(open)] = "("
        BY <1>1, <1>3, <2>1, <3>1, <3>2, NoneAbove
      <3> QED BY <2>1, <3>3
    <2> QED BY <1>2, <2>1, <2>2 DEF Bracket
  <1> HIDE DEF S
  <1>7. n \in 0..k /\ (n = 0 \/ n \in S) /\ \A j \in (n + 1)..k : j \notin S
    <2> HIDE DEF k
    <2> QED BY <1>1, <1>5, TopmostFacts
  <1>8. n = i
    <2>1. ~(i \in (n + 1)..k)
      BY <1>4, <1>7
    <2>2. n >= i
      BY <1>1, <1>3, <1>7, <2>1
    <2>3. n # 0
      BY <1>3, <1>7, <2>2
    <2>4. n <= i
      BY <1>6, <1>7, <2>3
    <2> QED BY <1>3, <1>7, <2>2, <2>4
  <1> QED BY <1>2, <1>3, <1>8 DEF open, k

\* What is between the parentheses leaves one number.
LEMMA RightYard ==
    ASSUME Stacks, NEW a \in Labels, Yard(op_stack, RPN_tokens, a), a.place = "operator",
           Innermost(a, "("),
           NEW n, n = Max({0} \cup {i \in 1..Len(op_stack) : op_stack[i].lexeme = "("})
    PROVE  /\ n > 0
           /\ Yard(SubSeq(op_stack, 1, n - 1), PopTo(n), Label("operator", Front(a.open)))
  <1> DEFINE k == Len(op_stack)
             open == a.open
             m == n - 1
             low == SubSeq(op_stack, 1, m)
             left == Front(open)
             b == Label("operator", left)
  <1>1. /\ Alternate(open) /\ op_stack \in Seq(Operator) /\ open \in Seq(Bracket)
        /\ \A i \in 1..k : op_stack[i].lexeme \in Operators \cup {"("}
    BY YardFacts
  <1>2. PICK d, u : /\ Nested(op_stack, open, d) /\ Weighed(op_stack, d, u)
                    /\ Height(RPN_tokens, u[k] + 1)
    BY DEF Yard
  <1>3. /\ n \in 1..k /\ op_stack[n].lexeme = "("
        /\ d[n] = Len(open) /\ d[n - 1] = Len(open) - 1
        /\ Len(open) \in Nat \ {0}
    BY <1>2, InnermostFacts DEF Bracket
  <1>4. k \in Nat /\ n \in Nat /\ m \in 0..k /\ n \in 0..k
    BY <1>1, <1>3
  <1>5. Height(PopTo(n), u[n] + 1)
    <2> HIDE DEF open, k
    <2>1. Height(RPN_tokens, u[Len(op_stack)] + 1)
      BY <1>2 DEF k
    <2>2. n \in 0..Len(op_stack)
      BY <1>4 DEF k
    <2> QED BY <1>1, <1>2, <1>3, <2>1, <2>2, PopAbove
  <1>6. u[n] = u[m]
    <2>1. u \in [0..k -> Nat] /\ u[n] = u[n - 1] + Weight(op_stack, d, n)
      BY <1>2, <1>3 DEF Weighed
    <2>2. Weight(op_stack, d, n) = 0
      BY <1>3 DEF Weight
    <2>3. u[n - 1] \in Nat
      BY <1>4, <2>1
    <2> QED BY <2>1, <2>2, <2>3
  <1>7. left = SubSeq(open, 1, d[m])
    BY <1>3 DEF Front
  <1>8. left \in Seq(Bracket) /\ Alternate(left)
    <2>1. Len(open) - 1 \in 0..Len(open)
      BY <1>3
    <2>2. left = SubSeq(open, 1, Len(open) - 1)
      BY DEF Front
    <2>3. Alternate(left)
      <3> HIDE DEF left, open
      <3> QED BY <1>1, <2>1, <2>2, AlternateFacts
    <2>4. left \in Seq(Bracket)
      BY <1>1, <1>3, <2>2
    <2> QED BY <2>3, <2>4
  <1> HIDE DEF open, low, left, m
  <1>9. PICK e, v : Nested(low, left, e) /\ Weighed(low, e, v) /\ v[m] = u[m]
    <2>1. Lower(op_stack, open, d, u, m)
      <3>1. m \in 0..Len(op_stack)
        BY <1>4
      <3> QED BY <1>1, <1>2, <3>1, Truncate
    <2>2. PICK e, v : /\ Nested(low, SubSeq(open, 1, d[m]), e) /\ Weighed(low, e, v)
                      /\ \A i \in 0..m : e[i] = d[i] /\ v[i] = u[i]
      BY <2>1 DEF Lower, low
    <2>3. v[m] = u[m]
      BY <1>4, <2>2
    <2> QED BY <1>7, <2>2, <2>3
  <1>10. low \in Seq(Operator) /\ Len(low) = m
    <2>1. m \in 0..Len(op_stack)
      BY <1>4
    <2> QED BY <2>1, PopToFacts DEF low
  <1>11. \A i \in 1..Len(low) : low[i].lexeme \in Operators \cup {"("}
    <2>1. \A i \in 1..m : i \in 1..k /\ low[i] = op_stack[i]
      BY <1>1, <1>4 DEF low
    <2> HIDE DEF k
    <2> QED BY <1>1, <1>10, <2>1
  <1>12. Height(PopTo(n), v[Len(low)] + 1)
    BY <1>5, <1>6, <1>9, <1>10
  <1>13. b.place = "operator" /\ b.open = left
    BY DEF Label
  <1> HIDE DEF b
  <1>14. Yard(low, PopTo(n), b)
    <2>1. \E d1, u1 : /\ Nested(low, b.open, d1) /\ Weighed(low, d1, u1)
                      /\ Height(PopTo(n), u1[Len(low)] + 1)
      BY <1>9, <1>12, <1>13
    <2>2. Alternate(b.open)
      BY <1>8, <1>13
    <2> QED BY <1>11, <1>13, <2>1, <2>2 DEF Yard
  <1>15. n > 0
    BY <1>3, <1>4
  <1> QED BY <1>14, <1>15 DEF low, left, m, b, open

\* What is between the ? and the : leaves one number, on the condition.
LEMMA ColonYard ==
    ASSUME Stacks, NEW a \in Labels, Yard(op_stack, RPN_tokens, a), a.place = "operator",
           Innermost(a, "?"),
           NEW n, n = Max({0} \cup {i \in 1..Len(op_stack) : op_stack[i].lexeme = "?"})
    PROVE  Yard(SubSeq(op_stack, 1, n), PopTo(n), Label("operand", Front(a.open)))
  <1> DEFINE k == Len(op_stack)
             open == a.open
             low == SubSeq(op_stack, 1, n)
             left == Front(open)
             b == Label("operand", left)
             c == Len(open) - 1
  <1>1. /\ Alternate(open) /\ op_stack \in Seq(Operator) /\ open \in Seq(Bracket)
        /\ \A i \in 1..k : op_stack[i].lexeme \in Operators \cup {"("}
    BY YardFacts
  <1>2. PICK d, u : /\ Nested(op_stack, open, d) /\ Weighed(op_stack, d, u)
                    /\ Height(RPN_tokens, u[k] + 1)
    BY DEF Yard
  <1>3. /\ n \in 1..k /\ op_stack[n].lexeme = "?"
        /\ d[n] = Len(open) /\ d[n - 1] = Len(open) - 1
        /\ Len(open) \in Nat \ {0} /\ open[Len(open)] = "?"
    BY <1>2, InnermostFacts DEF Bracket
  <1>4. /\ k \in Nat /\ n \in Nat /\ n - 1 \in 0..n /\ n \in 0..n /\ n \in 0..Len(op_stack)
        /\ c \in Nat /\ Len(open) = c + 1 /\ c \in 0..Len(open)
    BY <1>1, <1>3
  <1>5. Height(PopTo(n), u[n] + 1)
    <2> HIDE DEF open, k
    <2>1. Height(RPN_tokens, u[Len(op_stack)] + 1)
      BY <1>2 DEF k
    <2> QED BY <1>1, <1>2, <1>3, <1>4, <2>1, PopAbove
  <1>6. left = SubSeq(open, 1, c)
    BY DEF Front
  <1>7. SubSeq(open, 1, d[n]) = open
    BY <1>1, <1>3
  <1> HIDE DEF open, low, left, c
  <1>8. Alternate(left) /\ left \in Seq(Bracket)
    BY <1>1, <1>4, <1>6, AlternateFacts
  <1>9. low \in Seq(Operator) /\ Len(low) = n
    BY <1>4, PopToFacts DEF low
  <1>10. \A i \in 1..n : i \in 1..k /\ low[i] = op_stack[i]
    BY <1>1, <1>3, <1>4 DEF low
  <1>11. \A i \in 1..Len(low) : low[i].lexeme \in Operators \cup {"("}
    <2> HIDE DEF k
    <2> QED BY <1>1, <1>9, <1>10
  <1>12. low[n].lexeme = "?" /\ n \in 1..Len(low)
    BY <1>3, <1>4, <1>9, <1>10
  <1>13. PICK e, v : /\ Nested(low, open, e) /\ Weighed(low, e, v) /\ v[n] = u[n]
                     /\ e[n - 1] = c
    <2>1. Lower(op_stack, open, d, u, n)
      BY <1>1, <1>2, <1>4, Truncate
    <2>2. PICK e, v : /\ Nested(low, SubSeq(open, 1, d[n]), e) /\ Weighed(low, e, v)
                      /\ \A i \in 0..n : e[i] = d[i] /\ v[i] = u[i]
      BY ONLY <2>1 DEF Lower, low
    <2>3. v[n] = u[n] /\ e[n - 1] = d[n - 1]
      BY <1>4, <2>2
    <2>4. Nested(low, open, e)
      BY <1>7, <2>2
    <2> QED BY <1>3, <2>2, <2>3, <2>4 DEF c
  <1>14. PICK f, w : Nested(low, left, f) /\ Weighed(low, f, w) /\ w[n] = v[n] + 1
    <2>1. open[c + 1] = "?" /\ n = Len(low)
      BY <1>3, <1>4, <1>9
    <2>2. Completed(low, left, v, n)
      BY ONLY <1>1, <1>4, <1>6, <1>9, <1>12, <1>13, <2>1, Complete
    <2> QED BY ONLY <2>2 DEF Completed
  <1>15. Height(PopTo(n), w[Len(low)] + 0)
    <2>1. u[n] \in Nat
      <3>1. u \in [0..k -> Nat]
        BY <1>2 DEF Weighed
      <3> QED BY <1>4, <3>1
    <2>2. w[Len(low)] + 0 = u[n] + 1
      BY <1>9, <1>13, <1>14, <2>1
    <2> QED BY <1>5, <2>2
  <1>16. b.place = "operand" /\ b.open = left
    BY DEF Label
  <1> HIDE DEF b
  <1>17. Yard(low, PopTo(n), b)
    <2>1. \E d1, u1 : /\ Nested(low, b.open, d1) /\ Weighed(low, d1, u1)
                      /\ Height(PopTo(n), u1[Len(low)] + 0)
      BY <1>14, <1>15, <1>16
    <2>2. Alternate(b.open)
      BY <1>8, <1>16
    <2>3. low = <<>> \/ low[Len(low)].lexeme # "!"
      BY <1>9, <1>12
    <2> QED BY <1>11, <1>16, <2>1, <2>2, <2>3 DEF Yard
  <1> QED BY <1>17 DEF low, left, b, open

\* At the end of the line one number is left.
LEMMA EndYard ==
    ASSUME Stacks, Yard(op_stack, RPN_tokens, Label("operator", <<>>))
    PROVE  Height(PopTo(0), 1)
  <1> DEFINE open == <<>>
             k == Len(op_stack)
  <1>1. PICK d, u : /\ Nested(op_stack, open, d) /\ Weighed(op_stack, d, u)
                    /\ Height(RPN_tokens, u[k] + 1)
    BY DEF Yard, Label
  <1>2. op_stack \in Seq(Operator) /\ open \in Seq(Bracket) /\ Len(open) = 0
    BY DEF Stacks
  <1>3. d[0] = Len(open) /\ u[0] = 0 /\ 0 \in 0..k
    BY <1>1, <1>2 DEF Nested, Weighed
  <1>4. Height(PopTo(0), u[0] + 1)
    <2> HIDE DEF open
    <2> QED BY <1>1, <1>2, <1>3, PopAbove
  <1> QED BY <1>3, <1>4

-----------------------------------------------------------------------------
(* The line, from the token looked at on *)

Ahead(s, i, a) ==
    \E f \in [i..(Len(s) + 1) -> Labels] : f[i] = a /\ Labelled(s, i, f)

\* What is next expected, when a step of the shunting yard has been made.
Open == {"operand", "negated", "operator"}

LEMMA AheadStep ==
    ASSUME NEW s \in Seq(AnyToken), NEW i \in 1..Len(s), NEW a, Ahead(s, i, a)
    PROVE  \E b \in Labels : Leads(s[i], a, b) /\ Ahead(s, i + 1, b)
  <1> DEFINE n == Len(s)
  <1>1. PICK f \in [i..(n + 1) -> Labels] : f[i] = a /\ Labelled(s, i, f)
    BY DEF Ahead
  <1>2. n \in Nat /\ i \in Nat
    OBVIOUS
  <1> DEFINE g == [j \in (i + 1)..(n + 1) |-> f[j]]
  <1>3. /\ f[n + 1] = Label("operator", <<>>)
        /\ \A j \in i..n : Leads(s[j], f[j], f[j + 1])
    BY <1>1 DEF Labelled
  <1> HIDE DEF n
  <1>4. /\ \A j \in (i + 1)..(n + 1) : j \in i..(n + 1)
        /\ \A j \in (i + 1)..n : j \in i..n /\ j \in (i + 1)..(n + 1) /\ j + 1 \in (i + 1)..(n + 1)
        /\ i \in i..n /\ i + 1 \in (i + 1)..(n + 1) /\ n + 1 \in (i + 1)..(n + 1)
    BY <1>2 DEF n
  <1>5. g \in [(i + 1)..(n + 1) -> Labels] /\ g[i + 1] = f[i + 1]
    BY <1>4
  <1>6. Labelled(s, i + 1, g)
    BY <1>3, <1>4 DEF Labelled, n
  <1>7. Leads(s[i], a, f[i + 1]) /\ f[i + 1] \in Labels
    BY <1>1, <1>3, <1>4
  <1> HIDE DEF g
  <1>8. Ahead(s, i + 1, f[i + 1])
    BY <1>5, <1>6 DEF Ahead, n
  <1> QED BY <1>7, <1>8

LEMMA AheadBack ==
    ASSUME NEW s \in Seq(AnyToken), NEW i \in 1..Len(s), NEW a \in Labels, NEW b \in Labels,
           Leads(s[i], a, b), Ahead(s, i + 1, b)
    PROVE  Ahead(s, i, a)
  <1> DEFINE n == Len(s)
  <1>1. PICK f \in [(i + 1)..(n + 1) -> Labels] : f[i + 1] = b /\ Labelled(s, i + 1, f)
    BY DEF Ahead
  <1>2. n \in Nat /\ i \in Nat
    OBVIOUS
  <1> DEFINE g == [j \in i..(n + 1) |-> IF j = i THEN a ELSE f[j]]
  <1>3. /\ f[n + 1] = Label("operator", <<>>)
        /\ \A j \in (i + 1)..n : Leads(s[j], f[j], f[j + 1])
    BY <1>1 DEF Labelled
  <1> HIDE DEF n
  <1>4. /\ \A j \in i..(n + 1) : j = i \/ j \in (i + 1)..(n + 1)
        /\ \A j \in (i + 1)..(n + 1) : j # i /\ j \in i..(n + 1)
        /\ \A j \in i..n : j = i \/ j \in (i + 1)..n
        /\ \A j \in (i + 1)..n : j \in (i + 1)..(n + 1) /\ j + 1 \in (i + 1)..(n + 1)
        /\ i \in i..(n + 1) /\ i + 1 \in (i + 1)..(n + 1) /\ n + 1 \in (i + 1)..(n + 1)
    BY <1>2 DEF n
  <1>5. g \in [i..(n + 1) -> Labels]
    BY <1>4
  <1>6. g[i] = a /\ \A j \in (i + 1)..(n + 1) : g[j] = f[j]
    BY <1>4
  <1> HIDE DEF g
  <1>7. \A j \in i..n : Leads(s[j], g[j], g[j + 1])
    <2> SUFFICES ASSUME NEW j \in i..n PROVE Leads(s[j], g[j], g[j + 1])
      OBVIOUS
    <2>1. CASE j = i
      BY <1>1, <1>4, <1>6, <2>1
    <2>2. CASE j # i
      BY <1>3, <1>4, <1>6, <2>2
    <2> QED BY <2>1, <2>2
  <1>8. g[n + 1] = Label("operator", <<>>)
    BY <1>3, <1>4, <1>6
  <1> QED BY <1>5, <1>6, <1>7, <1>8 DEF Ahead, Labelled, n

\* Only the rest of the line matters.
LEMMA AheadShift ==
    ASSUME NEW s \in Seq(AnyToken), NEW r \in Seq(AnyToken), NEW a,
           NEW i \in 1..(Len(s) + 1), NEW k \in Nat \ {0},
           Len(r) = Len(s) + k - i,
           \A j \in i..Len(s) : r[j + k - i] = s[j],
           Ahead(s, i, a)
    PROVE  Ahead(r, k, a)
  <1> DEFINE n == Len(s)
             m == Len(r)
  <1>1. PICK f \in [i..(n + 1) -> Labels] : f[i] = a /\ Labelled(s, i, f)
    BY DEF Ahead
  <1>2. n \in Nat /\ i \in Nat /\ k \in Nat /\ m = n + k - i /\ m \in Nat
    OBVIOUS
  <1> DEFINE g == [j \in k..(m + 1) |-> f[j + i - k]]
  <1>3. /\ f[n + 1] = Label("operator", <<>>)
        /\ \A j \in i..n : Leads(s[j], f[j], f[j + 1])
    BY <1>1 DEF Labelled
  <1>4. \A j \in i..n : r[j + k - i] = s[j]
    OBVIOUS
  <1> HIDE DEF n, m
  <1>5. /\ \A j \in k..(m + 1) : j + i - k \in i..(n + 1)
        /\ \A j \in k..m : /\ j + i - k \in i..n /\ j \in k..(m + 1) /\ j + 1 \in k..(m + 1)
                           /\ (j + 1) + i - k = (j + i - k) + 1 /\ (j + i - k) + k - i = j
        /\ k \in k..(m + 1) /\ m + 1 \in k..(m + 1)
        /\ k + i - k = i /\ (m + 1) + i - k = n + 1
    BY <1>2, i <= n + 1 DEF n
  <1>6. g \in [k..(m + 1) -> Labels] /\ g[k] = a /\ g[m + 1] = Label("operator", <<>>)
    BY <1>1, <1>3, <1>5
  <1>7. \A j \in k..m : Leads(r[j], g[j], g[j + 1])
    <2> SUFFICES ASSUME NEW j \in k..m PROVE Leads(r[j], g[j], g[j + 1])
      OBVIOUS
    <2>1. g[j] = f[j + i - k] /\ g[j + 1] = f[(j + i - k) + 1] /\ r[j] = s[j + i - k]
      BY <1>4, <1>5
    <2> QED BY <1>3, <1>5, <2>1
  <1> HIDE DEF g
  <1> QED BY <1>6, <1>7 DEF Ahead, Labelled, m

LEMMA AheadEnd ==
    ASSUME NEW s \in Seq(AnyToken), NEW i \in 1..(Len(s) + 1), NEW a, Ahead(s, i, a)
    PROVE  IF i = Len(s) + 1 THEN a = Label("operator", <<>>) ELSE i \in 1..Len(s)
  BY DEF Ahead, Labelled

\* HandleDefined puts a BLANK and a constant where the tokens of `defined` were,
\* up to next.
Replaced(s, r, i, next) ==
    /\ r \in Seq(AnyToken) /\ Len(r) = Len(s) + i + 2 - next
    /\ r[i + 1].type = "CONSTANT"
    /\ \A j \in next..Len(s) : r[j + i + 2 - next] = s[j]

LEMMA DefinedReplaced ==
    ASSUME Stacks, at \in 1..Len(tokens), at + 1 \in 1..Len(tokens),
           NEW next \in Nat,
           IF IsPun(tokens[at + 1], "(")
           THEN at + 3 \in 1..Len(tokens) /\ IsPun(tokens[at + 3], ")") /\ next = at + 4
           ELSE next = at + 2
    PROVE  Replaced(tokens, HandleDefined, at, next)
  <1> DEFINE open   == at < Len(tokens) /\ IsPun(tokens[at + 1], "(")
             x      == IF open THEN at + 2 ELSE at + 1
             closed == open /\ x < Len(tokens) /\ IsPun(tokens[x + 1], ")")
             known  == tokens[x].type = "IDENTIFIER" /\ tokens[x].lexeme \in macros
             c      == Constant(IF known THEN 1 ELSE 0)
             n      == Len(tokens)
             before == SubSeq(tokens, 1, at - 1)
             made   == <<Token("BLANK", ""), c>>
             after  == SubSeq(tokens, next, n)
             r      == (before \o made) \o after
  <1>1. tokens \in Seq(AnyToken) /\ n \in Nat /\ at \in Nat \ {0} /\ at + 1 <= n
    BY DEF Stacks
  <1>2. (IF closed THEN x + 2 ELSE x + 1) = next
    <2>1. CASE IsPun(tokens[at + 1], "(")
      <3>1. open
        BY <1>1, <2>1
      <3>2. x = at + 2 /\ x + 1 = at + 3 /\ x < n
        BY <1>1, <2>1, <3>1
      <3>3. closed
        BY <2>1, <3>1, <3>2
      <3> QED BY <1>1, <2>1, <3>2, <3>3
    <2>2. CASE ~IsPun(tokens[at + 1], "(")
      BY <1>1, <2>2
    <2> QED BY <2>1, <2>2
  <1>3. HandleDefined = r
    BY <1>2 DEF HandleDefined
  <1>4. next \in 1..(n + 1) /\ next > at
    BY <1>1
  <1>5. c \in AnyToken /\ c.type = "CONSTANT" /\ Token("BLANK", "") \in AnyToken
    <2>1. c \in Output
      <3> HIDE DEF known
      <3> QED BY ConstantIsOutput
    <2>2. c.type = "CONSTANT"
      BY DEF Constant
    <2>3. Token("BLANK", "") \in AnyToken
      BY DEF AnyToken, Token, token_type
    <2>4. Output \subseteq AnyToken
      BY DEF Output
    <2> QED BY <2>1, <2>2, <2>3, <2>4
  <1> HIDE DEF c
  <1>6. made \in Seq(AnyToken) /\ Len(made) = 2 /\ made[2] = c
    <2>1. \A e, f \in AnyToken :
              <<e, f>> \in Seq(AnyToken) /\ Len(<<e, f>>) = 2 /\ <<e, f>>[2] = f
      OBVIOUS
    <2> QED BY ONLY <1>5, <2>1
  <1> HIDE DEF made
  <1>7. before \in Seq(AnyToken) /\ Len(before) = at - 1
    BY <1>1
  <1> HIDE DEF n
  <1>8. /\ after \in Seq(AnyToken) /\ Len(after) = n + 1 - next
        /\ \A j \in 1..(n + 1 - next) : after[j] = tokens[next + j - 1]
    <2>1. \A j \in next..n : tokens[j] \in AnyToken
      BY <1>1, <1>4 DEF n
    <2>2. /\ after \in Seq(AnyToken) /\ Len(after) = IF next <= n THEN n - next + 1 ELSE 0
          /\ \A j \in 1..(n - next + 1) : after[j] = tokens[next + j - 1]
      BY ONLY <1>1, <1>4, <2>1, SubSeqProperties DEF after
    <2>3. n - next + 1 = n + 1 - next /\ (~(next <= n) => n + 1 - next = 0)
      BY <1>1, <1>4
    <2> QED BY ONLY <2>2, <2>3
  <1> HIDE DEF before, after
  <1> DEFINE y == before \o made
  <1>9. y \in Seq(AnyToken) /\ Len(y) = at + 1 /\ y[at + 1] = c
    <2>1. /\ y \in Seq(AnyToken) /\ Len(y) = Len(before) + Len(made)
          /\ \A j \in 1..(Len(before) + Len(made)) :
                 y[j] = IF j <= Len(before) THEN before[j] ELSE made[j - Len(before)]
      BY <1>6, <1>7, ConcatProperties
    <2>2. /\ Len(before) + Len(made) = at + 1 /\ at + 1 \in 1..(at + 1)
          /\ ~(at + 1 <= Len(before)) /\ (at + 1) - Len(before) = 2
      BY <1>1, <1>6, <1>7
    <2> HIDE DEF y
    <2> QED BY ONLY <1>6, <2>1, <2>2
  <1>10. r = y \o after
    OBVIOUS
  <1> HIDE DEF y, r
  <1>11. /\ r \in Seq(AnyToken) /\ Len(r) = Len(y) + Len(after)
         /\ \A j \in 1..(Len(y) + Len(after)) :
                r[j] = IF j <= Len(y) THEN y[j] ELSE after[j - Len(y)]
    BY ONLY <1>8, <1>9, <1>10, ConcatProperties
  <1>12. Len(r) = n + at + 2 - next
    BY <1>1, <1>4, <1>8, <1>9, <1>11
  <1>13. r[at + 1].type = "CONSTANT"
    <2>1. at + 1 \in 1..(Len(y) + Len(after)) /\ at + 1 <= Len(y)
      BY <1>1, <1>4, <1>8, <1>9
    <2> QED BY <1>5, <1>9, <1>11, <2>1
  <1>14. ASSUME NEW j \in next..n
         PROVE  r[j + at + 2 - next] = tokens[j]
    <2> DEFINE l == j + at + 2 - next
    <2>1. /\ l \in 1..(Len(y) + Len(after)) /\ ~(l <= Len(y))
          /\ l - Len(y) = j + 1 - next /\ j + 1 - next \in 1..(n + 1 - next)
          /\ next + (j + 1 - next) - 1 = j
      BY <1>1, <1>4, <1>8, <1>9
    <2> HIDE DEF l
    <2>2. r[l] = after[j + 1 - next]
      BY <1>11, <2>1
    <2>3. after[j + 1 - next] = tokens[next + (j + 1 - next) - 1]
      BY <1>8, <2>1
    <2> QED BY <2>1, <2>2, <2>3 DEF l
  <1> QED BY <1>3, <1>11, <1>12, <1>13, <1>14 DEF Replaced, n

\* A `defined` with its name is replaced by an operand.
LEMMA DefinedAhead ==
    ASSUME Stacks, at \in 1..Len(tokens), NEW a \in Labels, a.place \in {"operand", "negated"},
           tokens[at].type = "IDENTIFIER", tokens[at].lexeme = "defined",
           Ahead(tokens, at, a)
    PROVE  HandleDefined \in Seq(AnyToken) /\ Ahead(HandleDefined, at + 1, a)
  <1> DEFINE n == Len(tokens)
             b == Label("operator", a.open)
  <1>1. tokens \in Seq(AnyToken) /\ n \in Nat /\ at \in Nat \ {0} /\ a.open \in Seq(Bracket)
    BY LabelFacts DEF Stacks
  <1>2. \A place \in Places : /\ Label(place, a.open) \in Labels
                              /\ Label(place, a.open).place = place
                              /\ Label(place, a.open).open = a.open
    BY <1>1, LabelFacts
  <1>3. PICK f \in Labels : Leads(tokens[at], a, f) /\ Ahead(tokens, at + 1, f)
    BY <1>1, AheadStep
  <1>4. f.place = "defined" /\ f.open = a.open
    <2>1. f = Label("defined", a.open)
      BY <1>3 DEF Leads, IsPun
    <2> QED BY <1>2, <2>1 DEF Places
  <1>5. at + 1 \in 1..n
    <2>1. at + 1 \in 1..(n + 1)
      BY <1>1
    <2>2. f # Label("operator", <<>>)
      BY <1>4 DEF Label
    <2> QED BY <1>1, <1>3, <2>1, <2>2, AheadEnd
  <1>6. PICK g \in Labels : Leads(tokens[at + 1], f, g) /\ Ahead(tokens, (at + 1) + 1, g)
    BY <1>1, <1>3, <1>5, AheadStep
  <1>7. PICK next \in Nat :
            /\ next \in 1..(n + 1)
            /\ IF IsPun(tokens[at + 1], "(")
               THEN at + 3 \in 1..n /\ IsPun(tokens[at + 3], ")") /\ next = at + 4
               ELSE next = at + 2
            /\ Ahead(tokens, next, b)
    <2>1. CASE ~IsPun(tokens[at + 1], "(")
      <3>1. g = b
        BY <1>4, <1>6, <2>1 DEF Leads
      <3>2. (at + 1) + 1 = at + 2 /\ at + 2 \in Nat /\ at + 2 \in 1..(n + 1)
        BY <1>1, <1>5
      <3> QED BY <1>6, <2>1, <3>1, <3>2
    <2>2. CASE IsPun(tokens[at + 1], "(")
      <3>1. g.place = "opened" /\ g.open = a.open
        <4>1. g = Label("opened", a.open)
          BY <1>4, <1>6, <2>2 DEF Leads, IsPun
        <4> QED BY <1>2, <4>1 DEF Places
      <3>2. at + 2 \in 1..n /\ Ahead(tokens, at + 2, g)
        <4>1. at + 2 \in 1..(n + 1) /\ (at + 1) + 1 = at + 2
          BY <1>1, <1>5
        <4>2. g # Label("operator", <<>>)
          BY <3>1 DEF Label
        <4> QED BY <1>1, <1>6, <4>1, <4>2, AheadEnd
      <3>3. PICK h \in Labels : Leads(tokens[at + 2], g, h) /\ Ahead(tokens, (at + 2) + 1, h)
        BY <1>1, <3>2, AheadStep
      <3>4. h.place = "named" /\ h.open = a.open
        <4>1. h = Label("named", a.open)
          BY <3>1, <3>3 DEF Leads
        <4> QED BY <1>2, <4>1 DEF Places
      <3>5. at + 3 \in 1..n /\ Ahead(tokens, at + 3, h)
        <4>1. at + 3 \in 1..(n + 1) /\ (at + 2) + 1 = at + 3
          BY <1>1, <3>2
        <4>2. h # Label("operator", <<>>)
          BY <3>4 DEF Label
        <4> QED BY <1>1, <3>3, <4>1, <4>2, AheadEnd
      <3>6. PICK e \in Labels : Leads(tokens[at + 3], h, e) /\ Ahead(tokens, (at + 3) + 1, e)
        BY <1>1, <3>5, AheadStep
      <3>7. e = b /\ IsPun(tokens[at + 3], ")")
        BY <3>4, <3>6 DEF Leads
      <3>8. (at + 3) + 1 = at + 4 /\ at + 4 \in Nat /\ at + 4 \in 1..(n + 1)
        BY <1>1, <3>5
      <3> QED BY <2>2, <3>5, <3>6, <3>7, <3>8
    <2> QED BY <2>1, <2>2
  <1> DEFINE r == HandleDefined
  <1>8. Replaced(tokens, r, at, next)
    BY <1>5, <1>7, DefinedReplaced
  <1> HIDE DEF r
  <1>9. /\ r \in Seq(AnyToken) /\ Len(r) = n + (at + 2) - next
        /\ \A j \in next..n : r[j + (at + 2) - next] = tokens[j]
        /\ r[at + 1].type = "CONSTANT"
    BY <1>1, <1>8 DEF Replaced
  <1> HIDE DEF b
  <1>10. Ahead(r, at + 2, b)
    <2>1. at + 2 \in Nat \ {0}
      BY <1>1
    <2> QED BY <1>1, <1>7, <1>9, <2>1, AheadShift
  <1>11. Leads(r[at + 1], a, b)
    BY <1>9 DEF Leads, b
  <1>12. b \in Labels
    BY <1>2 DEF b, Places
  <1>13. at + 1 \in 1..Len(r) /\ (at + 1) + 1 = at + 2
    BY <1>1, <1>7, <1>9
  <1>14. Ahead(r, at + 1, a)
    BY <1>9, <1>10, <1>11, <1>12, <1>13, AheadBack
  <1> QED BY <1>9, <1>14 DEF r

-----------------------------------------------------------------------------
(* The invariant of a condition *)

Scans(s, i, ops, rpn) ==
    \E a \in Labels : a.place \in Open /\ Ahead(s, i, a) /\ Yard(ops, rpn, a)

\* The height of number_stack is that of the tokens evaluated.
Evaluates(rpn, i, height) ==
    \E v : Runs(rpn, v) /\ v[Len(rpn)] = 1 /\ height = v[i - 1]

Founded ==
    expected # "any" =>
        /\ pc = "scan" => Scans(tokens, at, op_stack, RPN_tokens)
        /\ pc = "evaluate" => Evaluates(RPN_tokens, at, Len(number_stack))
        /\ pc # "underflow"

LEMMA Reading ==
    ASSUME IInv, Founded, expected # "any", Scanning
    PROVE  /\ Stacks /\ at \in 1..Len(tokens) /\ tokens[at] \in AnyToken
           /\ \E a, b \in Labels : /\ a.place \in Open
                                   /\ Yard(op_stack, RPN_tokens, a)
                                   /\ Ahead(tokens, at, a)
                                   /\ Leads(tokens[at], a, b)
                                   /\ Ahead(tokens, at + 1, b)
  <1>1. Stacks /\ tokens \in Seq(AnyToken) /\ at \in 1..Len(tokens) /\ tokens[at] \in AnyToken
    BY LineFacts DEF IInv, Stacks
  <1>2. PICK a \in Labels : a.place \in Open /\ Ahead(tokens, at, a) /\ Yard(op_stack, RPN_tokens, a)
    BY DEF Founded, Scans, Scanning
  <1>3. PICK b \in Labels : Leads(tokens[at], a, b) /\ Ahead(tokens, at + 1, b)
    BY <1>1, <1>2, AheadStep
  <1> QED BY <1>1, <1>2, <1>3

LEMMA Moves ==
    ASSUME pc' = "scan", at' = at + 1, Scans(tokens', at + 1, op_stack', RPN_tokens')
    PROVE  Founded'
  BY DEF Founded

LEMMA LabelParts ==
    ASSUME NEW place, NEW open
    PROVE  Label(place, open).place = place /\ Label(place, open).open = open
  BY DEF Label

LEMMA ScanOperandFounds ==
    ASSUME IInv, Founded, expected # "any", ScanOperand
    PROVE  Founded'
  <1> DEFINE t == IF tokens[at].type = "CONSTANT" THEN tokens[at] ELSE Constant(0)
  <1>1. /\ Scanning /\ RPN_tokens' = Append(RPN_tokens, t) /\ op_stack' = op_stack
        /\ tokens' = tokens /\ at' = at + 1 /\ pc' = "scan"
        /\ \/ tokens[at].type = "CONSTANT"
           \/ tokens[at].type = "IDENTIFIER" /\ tokens[at].lexeme # "defined"
    BY DEF ScanOperand, Scanning, line
  <1>2. Stacks /\ tokens[at] \in AnyToken
    BY <1>1, Reading
  <1>3. PICK a, b \in Labels : /\ a.place \in Open /\ Yard(op_stack, RPN_tokens, a)
                               /\ Leads(tokens[at], a, b) /\ Ahead(tokens, at + 1, b)
    BY <1>1, Reading
  <1>4. a.place \in {"operand", "negated"} /\ b = Label("operator", a.open)
    BY <1>1, <1>3 DEF Leads, IsPun, Open
  <1>5. t \in Output /\ t.type = "CONSTANT"
    <2>1. tokens[at].type = "CONSTANT" => tokens[at] \in Output
      BY <1>2 DEF Output
    <2>2. Constant(0) \in Output
      BY ConstantIsOutput
    <2>3. Constant(0).type = "CONSTANT"
      BY DEF Constant
    <2> QED BY <2>1, <2>2, <2>3
  <1> HIDE DEF t
  <1>6. Yard(op_stack, Append(RPN_tokens, t), b)
    BY <1>2, <1>3, <1>4, <1>5, OperandYard
  <1>7. b.place \in Open
    BY <1>4, LabelParts DEF Open
  <1> QED BY <1>1, <1>3, <1>6, <1>7, Moves DEF Scans

LEMMA ScanLeftParenthesisFounds ==
    ASSUME IInv, Founded, expected # "any", ScanLeftParenthesis
    PROVE  Founded'
  <1> DEFINE t == tokens[at]
  <1>1. /\ Scanning /\ RPN_tokens' = RPN_tokens /\ op_stack' = Append(op_stack, t)
        /\ tokens' = tokens /\ at' = at + 1 /\ pc' = "scan"
        /\ t.type = "PUNCTUATOR" /\ t.lexeme = "("
    BY DEF ScanLeftParenthesis, Scanning, line, IsPun
  <1>2. Stacks /\ t \in AnyToken
    BY <1>1, Reading
  <1>3. PICK a, b \in Labels : /\ a.place \in Open /\ Yard(op_stack, RPN_tokens, a)
                               /\ Leads(t, a, b) /\ Ahead(tokens, at + 1, b)
    BY <1>1, Reading
  <1> HIDE DEF t
  <1>4. a.place \in {"operand", "negated"} /\ b = Label("operand", Append(a.open, "("))
    BY <1>1, <1>3 DEF Leads, IsPun, Open, Operators
  <1>5. t \in Operator
    BY <1>1, <1>2 DEF Operator
  <1>6. Yard(Append(op_stack, t), RPN_tokens, b)
    BY <1>1, <1>2, <1>3, <1>4, <1>5, LeftYard
  <1>7. b.place \in Open
    BY <1>4, LabelParts DEF Open
  <1> QED BY <1>1, <1>3, <1>6, <1>7, Moves DEF Scans

LEMMA ScanRightParenthesisFounds ==
    ASSUME IInv, Founded, expected # "any", ScanRightParenthesis
    PROVE  Founded'
  <1> DEFINE t == tokens[at]
             n == Max({0} \cup {i \in 1..Len(op_stack) : op_stack[i].lexeme = "("})
  <1>1. /\ Scanning /\ RPN_tokens' = PopTo(n) /\ op_stack' = SubSeq(op_stack, 1, n - 1)
        /\ tokens' = tokens /\ at' = at + 1 /\ pc' = (IF n = 0 THEN "underflow" ELSE "scan")
        /\ t.type = "PUNCTUATOR" /\ t.lexeme = ")"
    BY DEF ScanRightParenthesis, Scanning, line, IsPun, Left
  <1>2. Stacks /\ t \in AnyToken
    BY <1>1, Reading
  <1>3. PICK a, b \in Labels : /\ a.place \in Open /\ Yard(op_stack, RPN_tokens, a)
                               /\ Leads(t, a, b) /\ Ahead(tokens, at + 1, b)
    BY <1>1, Reading
  <1> HIDE DEF t
  <1>4. a.place = "operator" /\ Innermost(a, "(") /\ b = Label("operator", Front(a.open))
    BY <1>1, <1>3 DEF Leads, IsPun, Open, Operators
  <1>5. n > 0 /\ Yard(SubSeq(op_stack, 1, n - 1), PopTo(n), b)
    BY <1>2, <1>3, <1>4, RightYard
  <1> HIDE DEF n
  <1>6. pc' = "scan"
    BY <1>1, <1>5
  <1>7. b.place \in Open
    BY <1>4, LabelParts DEF Open
  <1> QED BY <1>1, <1>3, <1>5, <1>6, <1>7, Moves DEF Scans

LEMMA ScanColonFounds ==
    ASSUME IInv, Founded, expected # "any", ScanColon
    PROVE  Founded'
  <1> DEFINE t == tokens[at]
             n == Max({0} \cup {i \in 1..Len(op_stack) : op_stack[i].lexeme = "?"})
  <1>1. /\ Scanning /\ RPN_tokens' = PopTo(n) /\ op_stack' = SubSeq(op_stack, 1, n)
        /\ tokens' = tokens /\ at' = at + 1 /\ pc' = "scan"
        /\ t.type = "PUNCTUATOR" /\ t.lexeme = ":"
    BY DEF ScanColon, Scanning, line, IsPun, Left
  <1>2. Stacks /\ t \in AnyToken
    BY <1>1, Reading
  <1>3. PICK a, b \in Labels : /\ a.place \in Open /\ Yard(op_stack, RPN_tokens, a)
                               /\ Leads(t, a, b) /\ Ahead(tokens, at + 1, b)
    BY <1>1, Reading
  <1> HIDE DEF t
  <1>4. a.place = "operator" /\ Innermost(a, "?") /\ b = Label("operand", Front(a.open))
    BY <1>1, <1>3 DEF Leads, IsPun, Open, Operators
  <1>5. Yard(SubSeq(op_stack, 1, n), PopTo(n), b)
    BY <1>2, <1>3, <1>4, ColonYard
  <1> HIDE DEF n
  <1>6. b.place \in Open
    BY <1>4, LabelParts DEF Open
  <1> QED BY <1>1, <1>3, <1>5, <1>6, Moves DEF Scans

LEMMA ScanOperatorFounds ==
    ASSUME IInv, Founded, expected # "any", ScanOperator
    PROVE  Founded'
  <1> DEFINE t == tokens[at]
             n == Max({0} \cup {i \in 1..Len(op_stack) :
                                    Precedence[t.lexeme] > Precedence[op_stack[i].lexeme]})
  <1>1. /\ Scanning /\ RPN_tokens' = PopTo(n)
        /\ op_stack' = Append(SubSeq(op_stack, 1, n), t)
        /\ tokens' = tokens /\ at' = at + 1 /\ pc' = "scan"
        /\ t.type = "PUNCTUATOR" /\ t.lexeme \in Operators
    BY DEF ScanOperator, Scanning, line, Left
  <1>2. Stacks /\ t \in AnyToken
    BY <1>1, Reading
  <1>3. PICK a, b \in Labels : /\ a.place \in Open /\ Yard(op_stack, RPN_tokens, a)
                               /\ Leads(t, a, b) /\ Ahead(tokens, at + 1, b)
    BY <1>1, Reading
  <1>4. t \in Operator
    BY <1>1, <1>2 DEF Operator
  <1>5. n = Max({0} \cup {i \in 1..Len(op_stack) :
                              Precedence[t.lexeme] > Precedence[op_stack[i].lexeme]})
    OBVIOUS
  <1> HIDE DEF t, n
  <1>6. \/ a.place = "operand" /\ t.lexeme = "!" /\ b = Label("negated", a.open)
        \/ /\ a.place = "operator" /\ t.lexeme \in Operators \ {"!"}
           /\ t.lexeme = "?" => ~Innermost(a, "?")
           /\ b = Label("operand", IF t.lexeme = "?" THEN Append(a.open, "?") ELSE a.open)
    BY <1>1, <1>3 DEF Leads, IsPun, Open, Operators
  <1>7. Yard(Append(SubSeq(op_stack, 1, n), t), PopTo(n), b)
    <2>1. CASE a.place = "operand"
      <3>1. t.lexeme = "!" /\ b = Label("negated", a.open)
        BY <1>6, <2>1
      <3> QED BY <1>2, <1>3, <1>4, <1>5, <2>1, <3>1, NotYard
    <2>2. CASE a.place # "operand"
      <3>1. /\ a.place = "operator" /\ t.lexeme \in Operators \ {"!"}
            /\ t.lexeme = "?" => ~Innermost(a, "?")
            /\ b.place = "operand"
            /\ b.open = IF t.lexeme = "?" THEN Append(a.open, "?") ELSE a.open
        BY <1>6, <2>2, LabelParts
      <3> QED BY <1>2, <1>3, <1>4, <1>5, <3>1, OperatorYard
    <2> QED BY <2>1, <2>2
  <1>8. b.place \in Open
    BY <1>6, LabelParts DEF Open
  <1> QED BY <1>1, <1>3, <1>7, <1>8, Moves DEF Scans

LEMMA ScanBlankFounds ==
    ASSUME IInv, Founded, expected # "any", ScanBlank
    PROVE  Founded'
  <1>1. /\ Scanning /\ RPN_tokens' = RPN_tokens /\ op_stack' = op_stack
        /\ tokens' = tokens /\ at' = at + 1 /\ pc' = "scan"
        /\ tokens[at].type = "BLANK"
    BY DEF ScanBlank, Scanning, line
  <1>2. PICK a, b \in Labels : /\ a.place \in Open /\ Yard(op_stack, RPN_tokens, a)
                               /\ Leads(tokens[at], a, b) /\ Ahead(tokens, at + 1, b)
    BY <1>1, Reading
  <1>3. b = a
    BY <1>1, <1>2 DEF Leads, IsPun, Open
  <1> QED BY <1>1, <1>2, <1>3, Moves DEF Scans

LEMMA ScanDefinedFounds ==
    ASSUME IInv, Founded, expected # "any", ScanDefined
    PROVE  Founded'
  <1>1. /\ Scanning /\ RPN_tokens' = RPN_tokens /\ op_stack' = op_stack
        /\ tokens' = HandleDefined /\ at' = at + 1 /\ pc' = "scan"
        /\ tokens[at].type = "IDENTIFIER" /\ tokens[at].lexeme = "defined"
    BY DEF ScanDefined, Scanning
  <1>2. Stacks /\ at \in 1..Len(tokens)
    BY <1>1, Reading
  <1>3. PICK a, b \in Labels : /\ a.place \in Open /\ Yard(op_stack, RPN_tokens, a)
                               /\ Ahead(tokens, at, a) /\ Leads(tokens[at], a, b)
    BY <1>1, Reading
  <1>4. a.place \in {"operand", "negated"}
    BY <1>1, <1>3 DEF Leads, IsPun, Open
  <1>5. Ahead(HandleDefined, at + 1, a)
    BY <1>1, <1>2, <1>3, <1>4, DefinedAhead
  <1> QED BY <1>1, <1>3, <1>5, Moves DEF Scans

\* After the last token an operand has been read, and the brackets are closed.
LEMMA ScanEndFounds ==
    ASSUME IInv, Founded, expected # "any", ScanEnd
    PROVE  Founded'
  <1>1. /\ pc = "scan" /\ at = Len(tokens) + 1
        /\ RPN_tokens' = PopTo(0) /\ at' = 1 /\ pc' = "evaluate" /\ number_stack' = number_stack
    BY DEF ScanEnd
  <1>2. /\ Stacks /\ tokens \in Seq(AnyToken) /\ at \in 1..(Len(tokens) + 1)
        /\ number_stack = <<>>
    BY <1>1 DEF IInv, Stacks, Position
  <1>3. PICK a \in Labels : Ahead(tokens, at, a) /\ Yard(op_stack, RPN_tokens, a)
    BY <1>1 DEF Founded, Scans
  <1>4. a = Label("operator", <<>>)
    BY <1>1, <1>2, <1>3, AheadEnd
  <1>5. Height(PopTo(0), 1)
    BY <1>2, <1>3, <1>4, EndYard
  <1>6. PICK v : Runs(PopTo(0), v) /\ v[Len(PopTo(0))] = 1
    BY <1>5 DEF Height
  <1>7. v[0] = 0 /\ at' - 1 = 0 /\ Len(number_stack') = 0
    BY <1>1, <1>2, <1>6 DEF Runs
  <1>8. Evaluates(RPN_tokens', at', Len(number_stack'))
    BY <1>1, <1>6, <1>7 DEF Evaluates
  <1> QED BY <1>1, <1>8 DEF Founded

\* The height of number_stack is enough for the token that is evaluated.
LEMMA EvaluateFacts ==
    ASSUME IInv, Founded, expected # "any", Evaluating
    PROVE  /\ at \in 1..Len(RPN_tokens) /\ RPN_tokens[at] \in Output
           /\ number_stack \in Seq(Int)
           /\ Len(number_stack) >= Need(RPN_tokens[at])
           /\ Evaluates(RPN_tokens, at + 1, Len(number_stack) - Need(RPN_tokens[at]) + 1)
  <1>1. /\ RPN_tokens \in Seq(Output) /\ number_stack \in Seq(Int)
        /\ at \in 1..Len(RPN_tokens)
    BY DEF IInv, Stacks, Position, Evaluating
  <1>2. PICK v : /\ Runs(RPN_tokens, v) /\ v[Len(RPN_tokens)] = 1
                 /\ Len(number_stack) = v[at - 1]
    BY DEF Founded, Evaluates, Evaluating
  <1>3. /\ v[at - 1] >= Need(RPN_tokens[at])
        /\ v[at] = v[at - 1] - Need(RPN_tokens[at]) + 1
    BY <1>1, <1>2 DEF Runs
  <1>4. (at + 1) - 1 = at
    BY <1>1
  <1>5. Evaluates(RPN_tokens, at + 1, v[at])
    BY <1>2, <1>4 DEF Evaluates
  <1> QED BY <1>1, <1>2, <1>3, <1>5

LEMMA EvaluateConstantFounds ==
    ASSUME IInv, Founded, expected # "any", EvaluateConstant
    PROVE  Founded'
  <1> DEFINE t == RPN_tokens[at]
  <1>1. /\ Evaluating /\ t.type = "CONSTANT" /\ at' = at + 1 /\ pc' = "evaluate"
        /\ RPN_tokens' = RPN_tokens /\ number_stack' = Append(number_stack, t.int)
    BY DEF EvaluateConstant, Evaluating
  <1>2. /\ t \in Output /\ number_stack \in Seq(Int)
        /\ Evaluates(RPN_tokens, at + 1, Len(number_stack) - Need(t) + 1)
    BY <1>1, EvaluateFacts
  <1> HIDE DEF t
  <1>3. Need(t) = 0 /\ t.int \in Int
    BY <1>1, <1>2 DEF Need, Output, AnyToken
  <1>4. Len(number_stack') = Len(number_stack) - Need(t) + 1
    BY <1>1, <1>2, <1>3
  <1> QED BY <1>1, <1>2, <1>4 DEF Founded

LEMMA EvaluateOperatorFounds ==
    ASSUME IInv, Founded, expected # "any", EvaluateOperator
    PROVE  Founded'
  <1> DEFINE t == RPN_tokens[at]
             o == t.lexeme
             n == Len(number_stack)
             r == number_stack[n]
             m == number_stack[n - 1]
             l == number_stack[n - Arity(o) + 1]
             kept == SubSeq(number_stack, 1, n - Arity(o))
  <1>1. /\ Evaluating /\ t.type = "PUNCTUATOR"
        /\ RPN_tokens' = RPN_tokens
        /\ \/ n < Arity(o)
           \/ pc' \in {"done", "trap"}
           \/ /\ number_stack' = Append(kept, Result(o, l, m, r))
              /\ at' = at + 1 /\ pc' = "evaluate"
    BY DEF EvaluateOperator, Evaluating
  <1>2. /\ number_stack \in Seq(Int) /\ n >= Need(t)
        /\ Evaluates(RPN_tokens, at + 1, n - Need(t) + 1)
    BY <1>1, EvaluateFacts
  <1>3. Need(t) = Arity(o) /\ Arity(o) \in 1..3 /\ n \in Nat
    BY <1>1, <1>2 DEF Need, Arity
  <1> DEFINE a == Arity(o)
             x == Result(o, l, m, r)
  <1>4. kept \in Seq(Int) /\ Len(kept) = n - a
    <2>1. n - a \in 0..n
      BY <1>2, <1>3
    <2>2. \A i \in 0..n : /\ SubSeq(number_stack, 1, i) \in Seq(Int)
                         /\ Len(SubSeq(number_stack, 1, i)) = i
      BY <1>2
    <2> DEFINE i == n - a
    <2> HIDE DEF i
    <2>3. kept = SubSeq(number_stack, 1, i)
      BY DEF i
    <2>4. i \in 0..n /\ i = n - a
      BY <2>1 DEF i
    <2> HIDE DEF n, a, kept
    <2> QED BY <2>2, <2>3, <2>4
  <1> HIDE DEF kept, x, a
  <1>5. Len(Append(kept, x)) = n - a + 1
    BY <1>4
  <1>6. n - a + 1 = n - Need(t) + 1 /\ ~(n < Arity(o))
    BY <1>2, <1>3 DEF a
  <1> HIDE DEF n, o, t
  <1>7. CASE pc' \in {"done", "trap"}
    BY <1>7 DEF Founded
  <1>8. CASE number_stack' = Append(kept, x) /\ at' = at + 1 /\ pc' = "evaluate"
    BY <1>1, <1>2, <1>5, <1>6, <1>8 DEF Founded
  <1> QED BY <1>1, <1>6, <1>7, <1>8 DEF x

-----------------------------------------------------------------------------
(* The theorem *)

\* The lines whose value is expected are conditions.
Conditions ==
    \A input \in Inputs : input.expected # "any" => Condition(input.tokens)

\* Before the first token an operand is expected, and nothing is stacked.
LEMMA InitFounds == ASSUME Conditions, Init PROVE Founded
  <1>1. /\ pc = "scan" /\ at = 1 /\ op_stack = <<>> /\ RPN_tokens = <<>>
        /\ expected # "any" => Condition(tokens)
    BY DEF Init, Conditions
  <1> SUFFICES ASSUME expected # "any" PROVE Scans(tokens, 1, <<>>, <<>>)
    BY <1>1 DEF Founded
  <1> DEFINE a == Label("operand", <<>>)
  <1>2. PICK f \in [1..(Len(tokens) + 1) -> Labels] : f[1] = a /\ Labelled(tokens, 1, f)
    BY <1>1 DEF Condition
  <1>3. Ahead(tokens, 1, a)
    BY <1>2 DEF Ahead
  <1>4. a.place = "operand" /\ a.open = <<>>
    BY LabelParts
  <1>5. a \in Labels
    BY DEF Labels, Label, Places
  <1> HIDE DEF a
  <1>6. Yard(<<>>, <<>>, a)
    <2> DEFINE z == [i \in 0..0 |-> 0]
    <2>1. z \in [0..0 -> 0..0] /\ z \in [0..0 -> Nat] /\ z[0] = 0
      OBVIOUS
    <2> HIDE DEF z
    <2>2. Nested(<<>>, <<>>, z) /\ Weighed(<<>>, z, z)
      BY <2>1 DEF Nested, Weighed
    <2>3. Height(<<>>, z[Len(<<>>)] + 0)
      BY <2>1, EmptyHeight
    <2>4. Alternate(<<>>)
      BY DEF Alternate
    <2> QED BY <1>4, <2>2, <2>3, <2>4 DEF Yard
  <1> QED BY <1>3, <1>4, <1>5, <1>6 DEF Scans, Open

LEMMA NextFounds ==
    ASSUME IInv, Founded, [Next]_vars
    PROVE  Founded'
  <1>1. CASE UNCHANGED vars
    BY <1>1, Zenon DEF vars, Founded
  <1>2. CASE Next
    <2>1. expected' = expected
      BY <1>2 DEF Next, ScanDefined, ScanOperand, ScanLeftParenthesis,
         ScanRightParenthesis, ScanColon, ScanOperator, ScanBlank, ScanOther, ScanEnd,
         EvaluateConstant, EvaluateOperator, Return, line
    <2>2. CASE expected = "any"
      BY <2>1, <2>2 DEF Founded
    <2>3. CASE expected # "any"
      <3>1. (ScanOther \/ Return) => pc' = "done"
        BY DEF ScanOther, Return
      <3>2. pc' = "done" => Founded'
        BY DEF Founded
      <3> QED BY <1>2, <2>3, <3>1, <3>2, ScanDefinedFounds, ScanOperandFounds,
             ScanLeftParenthesisFounds, ScanRightParenthesisFounds, ScanColonFounds,
             ScanOperatorFounds, ScanBlankFounds, ScanEndFounds,
             EvaluateConstantFounds, EvaluateOperatorFounds DEF Next
    <2> QED BY <2>2, <2>3
  <1> QED BY <1>1, <1>2

\* On every condition evaluate_if finds the parenthesis a `)` closes, and the
\* operands an operator takes: it never pops an empty stack.
THEOREM NeverUnderflows ==
    ASSUME Conditions
    PROVE  Spec => []NoUnderflow
  <1>1. Init => IInv /\ Founded
    BY InitEstablishes, InitFounds
  <1>2. IInv /\ Founded /\ [Next]_vars => (IInv /\ Founded)'
    BY NextKeeps, NextFounds
  <1>3. IInv /\ Founded => NoUnderflow
    BY DEF Founded, NoUnderflow
  <1> QED BY <1>1, <1>2, <1>3, PTL DEF Spec
=============================================================================
