--------------------------- MODULE MC_Translation ---------------------------
(***************************************************************************)
(* Programs: small sets of macros and a text that uses them, and plain     *)
(* expressions.  Expanded is what C makes of a text, by Prosser's          *)
(* algorithm: each token carries the set of the macros it may no longer be *)
(* replaced by.  It yields OUTSIDE where the code is known to part from C  *)
(* (README.md lists where); MCPrograms has the programs it does not.       *)
(* Tree is the tree of an expression, found by its loosest operator, and   *)
(* InGrammar names the token sequences on which the parser parts from C.   *)
(***************************************************************************)
EXTENDS Translation, TLC

Token(type, n) == [Blank EXCEPT !.type = type, !.text = <<n>>]
Id(n)    == Token("IDENTIFIER", n)
Const(n) == Token("CONSTANT", n)
Par(n)   == Token("ARGUMENT", n)
Pun(n)   == [Token("PUNCTUATOR", n) EXCEPT !.sub = n]
Sizeof   == [Token("KEYWORD", "sizeof") EXCEPT !.sub = "sizeof"]
End      == [Blank EXCEPT !.type = "END"]

Object(r)      == [is_function_like |-> FALSE, params |-> <<>>, replacement |-> r]
Function(p, r) == [is_function_like |-> TRUE, params |-> p, replacement |-> r]

-----------------------------------------------------------------------------
(* Macro replacement after C *)

OUTSIDE == <<[t |-> [Blank EXCEPT !.type = "OUTSIDE"], hide |-> {}]>>
IsOutside(ts) == \E i \in DOMAIN ts : ts[i].t.type = "OUTSIDE"

Fresh(ts) == [i \in DOMAIN ts |-> [t |-> ts[i], hide |-> {}]]
Hide(ts, names) == [i \in DOMAIN ts |-> [ts[i] EXCEPT !.hide = @ \cup names]]
From(ts, k) == SubSeq(ts, k, Len(ts))

\* Parentheses open after the first i tokens.
Open(ts, i) ==
    Cardinality({j \in 1..i : ts[j].t.sub = "("}) - Cardinality({j \in 1..i : ts[j].t.sub = ")"})

\* The tokens between the parentheses, split at their own commas.
Split(ts) ==
    LET cuts == {0, Len(ts) + 1} \cup {i \in DOMAIN ts : ts[i].t.sub = "," /\ Open(ts, i) = 0}
        s    == SetToSortSeq(cuts, <)
    IN  [k \in 1..(Len(s) - 1) |-> SubSeq(ts, s[k] + 1, s[k + 1] - 1)]

\* # of an argument, which has no white space in it.
StringOf(arg) ==
    IF \E i \in DOMAIN arg : arg[i].t.type = "STRING_LITERAL" THEN OUTSIDE
    ELSE <<[t |-> [Blank EXCEPT !.type = "STRING_LITERAL",
                                !.text = FlattenSeq([i \in DOMAIN arg |-> arg[i].t.text])],
            hide |-> {}]>>

\* l ## r, two names or a name and a number.
Paste(l, r) ==
    IF r = <<>> THEN l
    ELSE IF l = <<>> \/ Len(r) > 1 \/ Last(l).t.type # "IDENTIFIER" \/ Last(l).t.irr
            \/ r[1].t.type \notin {"IDENTIFIER", "CONSTANT"}
    THEN OUTSIDE
    ELSE Append(Front(l), [t |-> [Last(l).t EXCEPT !.text = @ \o r[1].t.text],
                           hide |-> Last(l).hide \cap r[1].hide])

RECURSIVE Replaced(_, _), Substituted(_, _, _, _, _)

Names(ms, ts) == \E i \in DOMAIN ts : ts[i].t.text \in DOMAIN ms
Calls(ms, ts) ==
    \E i \in DOMAIN ts : LET n == ts[i].t.text IN n \in DOMAIN ms /\ ms[n].is_function_like

\* A replacement list from rest on, with its arguments, after sofar.
Substituted(ms, name, args, rest, sofar) ==
    LET Arg(p)  == args[CHOOSE i \in DOMAIN args : ms[name].params[i] = p.text]
        Is(k, type) == k <= Len(rest) /\ rest[k].type = type
        Sub(k, sub) == k <= Len(rest) /\ rest[k].sub = sub
        Go(k, s) == Substituted(ms, name, args, From(rest, k), s)
        Mine(t)  == [t |-> [t EXCEPT !.irr = (t.text = name)], hide |-> {}]
        first    == sofar = <<>>
    IN  CASE rest = <<>> -> sofar
          [] Sub(1, "#") ->
                IF Is(2, "ARGUMENT") /\ ~first THEN Go(3, sofar \o StringOf(Arg(rest[2])))
                ELSE OUTSIDE
          [] Sub(1, "##") ->
                IF Len(rest) = 1 \/ first THEN OUTSIDE
                ELSE Go(3, Paste(sofar, IF Is(2, "ARGUMENT") THEN Arg(rest[2])
                                        ELSE <<Mine(rest[2])>>))
          [] Is(1, "ARGUMENT") /\ Sub(2, "##") ->
                LET arg == Arg(rest[1])
                IN  IF arg = <<>> \/ (Len(arg) > 1 /\ Names(ms, arg)) THEN OUTSIDE
                    ELSE Go(2, sofar \o arg)
          [] Is(1, "ARGUMENT") /\ ~Sub(2, "##") ->
                IF first /\ Calls(ms, Arg(rest[1])) THEN OUTSIDE
                ELSE Go(2, sofar \o Replaced(ms, Arg(rest[1])))
          [] OTHER -> Go(2, Append(sofar, Mine(rest[1])))

\* What a call is replaced by: its replacement list, replaced in its turn.
Rescanned(ms, name, args, hide) ==
    LET body == Hide(Substituted(ms, name, args, ms[name].replacement, <<>>), hide)
        new  == Replaced(ms, body)
    IN  IF Len(new) # Len(body) /\ Names(ms, new)
        THEN OUTSIDE ELSE new

Replaced(ms, ts) ==
    IF ts = <<>> THEN <<>>
    ELSE LET t     == ts[1].t
             m     == ms[t.text]
             close == {i \in 2..Len(ts) : Open(ts, i) = 0}
             c     == Min(close)
             inner == SubSeq(ts, 3, c - 1)
             args  == IF inner = <<>> /\ m.params = <<>> THEN <<>> ELSE Split(inner)
         IN  IF t.type # "IDENTIFIER" \/ t.text \notin DOMAIN ms
             THEN <<ts[1]>> \o Replaced(ms, Tail(ts))
             ELSE IF (t.text \in ts[1].hide) # t.irr THEN OUTSIDE
             ELSE IF t.irr THEN <<ts[1]>> \o Replaced(ms, Tail(ts))
             ELSE IF ~m.is_function_like
             THEN Rescanned(ms, t.text, <<>>, ts[1].hide \cup {t.text}) \o Replaced(ms, Tail(ts))
             ELSE IF Len(ts) = 1 \/ ts[2].t.sub # "(" \/ close = {} \/ Len(args) # Len(m.params)
             THEN OUTSIDE
             ELSE Rescanned(ms, t.text, args, (ts[1].hide \cap ts[c].hide) \cup {t.text})
                      \o Replaced(ms, From(ts, c + 1))

Outside(p) == IsOutside(Replaced(p.meaning, Fresh(p.text)))

Seen(ts) == [i \in DOMAIN ts |-> [type |-> ts[i].type, sub |-> ts[i].sub, text |-> ts[i].text]]

\* What the parser is to see of a program.
Expanded(p) ==
    LET ts == Replaced(p.meaning, Fresh(p.text)) IN Seen([i \in DOMAIN ts |-> ts[i].t])

-----------------------------------------------------------------------------
(* Expressions after C *)

NoTree == [op |-> "no tree", tk |-> <<>>, kids |-> <<>>]

Own(op, kids) == IF \E i \in DOMAIN kids : kids[i] = NoTree THEN NoTree ELSE Node(op, kids)

EndsOperand(t) == t.type \in Operand \/ t.sub = ")"

\* Operators with an operand before them, outside all parentheses.
Infix(ts, ops) ==
    {i \in 2..Len(ts) :
        /\ ts[i].sub \in ops
        /\ EndsOperand(ts[i - 1])
        /\ Cardinality({j \in 1..i : ts[j].sub = "("})
             = Cardinality({j \in 1..i : ts[j].sub = ")"})}

binary == UNION ToSet(binary_ops)

\* What is assigned to is a unary expression.
RECURSIVE Tree(_)
Tree(ts) ==
    LET n == Len(ts)
        split(i)  == Own(ts[i].sub, <<Tree(SubSeq(ts, 1, i - 1)), Tree(SubSeq(ts, i + 1, n))>>)
        levels    == {k \in DOMAIN binary_ops : Infix(ts, binary_ops[k]) # {}}
        assigns   == Infix(ts, assignment_ops)
        to        == SubSeq(ts, 1, Min(assigns) - 1)
    IN  CASE assigns # {} -> IF Infix(to, binary) = {} THEN split(Min(assigns)) ELSE NoTree
          [] assigns = {} /\ levels # {} ->
                split(Max(Infix(ts, binary_ops[Max(levels)])))
          [] OTHER ->
                IF n = 1 /\ ts[1].type \in Operand THEN Leaf(ts[1])
                ELSE IF n > 1 /\ ts[1].sub \in {"++", "--", "sizeof"}
                THEN Own(ts[1].sub, <<Tree(Tail(ts))>>)
                ELSE IF n > 2 /\ ts[1].sub = "(" /\ ts[n].sub = ")"
                THEN Tree(SubSeq(ts, 2, n - 1))
                ELSE NoTree

\* An assignment behind a binary operator, in the same parentheses: the left side
\* is no unary expression.
AssignsToBinary(ts) ==
    \E i \in Infix(ts, binary), j \in Infix(ts, assignment_ops) : i < j

\* The tokens between the parenthesis at i and the one that closes it, if any.
Inside(ts, i) ==
    LET opens(n)  == Cardinality({k \in i..n : ts[k].sub = "("})
        closes(n) == Cardinality({k \in i..n : ts[k].sub = ")"})
        end       == {n \in i..Len(ts) : opens(n) = closes(n)}
    IN  SubSeq(ts, i + 1, IF end = {} THEN Len(ts) ELSE Min(end) - 1)

\* Left out, see README.md: tokens left blank by an empty replacement, comma and
\* conditional expressions, the operators of unary_ops before an operand, and what
\* the parser takes for an assignment although C does not.
InGrammar(ts) ==
    /\ ~AssignsToBinary(ts)
    /\ \A i \in DOMAIN ts :
          /\ ts[i].type # "BLANK" /\ ts[i].sub \notin {",", "?"}
          /\ ts[i].sub \in unary_ops => i > 1 /\ EndsOperand(ts[i - 1])
          /\ ts[i].sub = "(" => ~AssignsToBinary(Inside(ts, i))

-----------------------------------------------------------------------------
(* Programs *)

puns == {"(", ")", "+", "-", "=", ";", "#", "##", "++", "..."} \cup binary \cup {","}
Of(n) == CASE n \in puns   -> Pun(n)
           [] n = "1"      -> Const(n)
           [] n = "sizeof" -> Sizeof
           [] OTHER        -> Id(n)
Toks(names) == [i \in DOMAIN names |-> Of(names[i])]

Obj(names) == Object(Toks(names))
Fun(params, names) ==
    Function([i \in DOMAIN params |-> <<params[i]>>],
             [i \in DOMAIN names |->
                 IF names[i] \in ToSet(params) THEN Par(names[i]) ELSE Of(names[i])])

\* The tokens of a macro's #define, with no blank before a list of parameters.
Spelled(name, m) ==
    LET body == [i \in DOMAIN m.replacement |->
                    IF m.replacement[i].type = "ARGUMENT" THEN Of(m.replacement[i].text[1])
                    ELSE m.replacement[i]]
        params == FlattenSeq([i \in DOMAIN m.params |->
                    (IF i = 1 THEN <<>> ELSE <<Pun(",")>>) \o <<Of(m.params[i][1])>>])
    IN  <<Id(name[1])>>
        \o (IF m.is_function_like THEN <<Pun("(")>> \o params \o <<Pun(")")>> ELSE <<>>)
        \o [i \in DOMAIN body |-> [body[i] EXCEPT !.blank = (i = 1)]]
        \o <<[Blank EXCEPT !.type = "NEWLINE"]>>

Program(meaning, text) ==
    [lines   |-> [i \in DOMAIN SetToSeq(DOMAIN meaning) |->
                     LET n == SetToSeq(DOMAIN meaning)[i] IN Spelled(n, meaning[n])],
     meaning |-> meaning,       \* the macros that C takes the lines for
     text    |-> text]

Alone(names)  == Append(Toks(Append(names, ";")), End)
Assign(names) == Alone(<<"z", "=">> \o names)

\* Sequences of up to n members of S.
Upto(n, S) == UNION {[1..k -> S] : k \in 0..n}

\* Two macros without arguments, which name each other and themselves.
Objects ==
    {Program(<<"A">> :> Obj(a) @@ <<"B">> :> Obj(b), Assign(t)) :
        a \in Upto(2, {"a", "A", "B"}), b \in Upto(2, {"b", "A", "B"}),
        t \in {<<"A">>, <<"A", "+", "B">>, <<"B", "A">>}}

\* A macro with an argument and one without.
Bodies ==
    {FlattenSeq(b) : b \in Upto(3, {<<"x">>, <<"#", "x">>, <<"A">>, <<"+">>})} \cup
    {<<"x", "##", "b">>, <<"a", "##", "x">>, <<"a", "##", "x", "+", "x">>,
     <<"a", "x", "##", "x">>, <<"F", "(", "x", ")">>, <<"a", "+", "F", "(", "x", ")">>,
     <<"(", "x", ")", "*", "F">>}
Calls1 ==
    {Program(<<"F">> :> Fun(<<"x">>, f) @@ <<"A">> :> Obj(a), Assign(t)) :
        f \in Bodies, a \in {<<>>, <<"A">>, <<"a", "+", "a">>, <<"F", "(", "a", ")">>},
        t \in {<<"F", "(", ")">>, <<"F", "(", "b", "+", "c", ")">>,
               <<"F", "(", "b", "*", "A", ")">>, <<"F", "(", "F", "(", "b", ")", ")">>,
               <<"A", "+", "F", "(", "(", "b", ",", "A", ")", ")">>}}

\* A macro with two arguments and one with one.
Calls2 ==
    {Program(<<"H">> :> Fun(<<"x", "y">>, h) @@ <<"G">> :> Fun(<<"x">>, g), Assign(t)) :
        h \in {<<"(", "x", "*", "y", ")">>, <<"+", "y", "x">>, <<"a", "+", "G", "(", "y", ")">>,
               <<"(", "y", "##", "x", ")">>},
        g \in {<<>>, <<"x">>, <<"(", "x", "+", "a", ")">>,
               <<"a", "+", "H", "(", "x", ",", "b", ")">>},
        t \in {<<"H", "(", "a", ",", "b", ")">>, <<"H", "(", ",", "G", "(", "b", ")", ")">>,
               <<"H", "(", "G", "(", "a", ")", ",", "H", "(", "a", ",", "b", ")", ")">>}}

\* Lines that are easily misread, with what they define: a blank before a
\* parenthesis, "..." as a parameter, a name defined twice, and lists of
\* parameters with an error, which define nothing.
Misread ==
    LET L(names) == Append(Toks(names), [Blank EXCEPT !.type = "NEWLINE"])
        apart(ts) == [ts EXCEPT ![2].blank = TRUE]
        a == Obj(<<"a">>)
        spaced == Obj(<<"(", "x", ")", "+", "x">>)
    IN  {[lines |-> d[1], meaning |-> d[2], text |-> Assign(t)] :
            d \in {<<<<L(<<"F", "(", "x", ")", "+", "x">>)>>,
                     <<"F">> :> Fun(<<"x">>, <<"+", "x">>)>>,
                   <<<<apart(L(<<"F", "(", "x", ")", "+", "x">>))>>, <<"F">> :> spaced>>,
                   <<<<L(<<"F", "(", "x", ",", "...", ")", "+", "x">>)>>,
                     <<"F">> :> Fun(<<"x", "...">>, <<"+", "x">>)>>,
                   <<<<L(<<"F", "(", ")", "a">>), L(<<"A", "b">>)>>,
                     <<"F">> :> Function(<<>>, Toks(<<"a">>)) @@ <<"A">> :> Obj(<<"b">>)>>,
                   <<<<apart(L(<<"A", "a">>)), L(<<"A", "b">>)>>, <<"A">> :> a>>,
                   <<<<L(<<"F", "(", "1", ")", "x">>)>>, <<>>>>,
                   <<<<L(<<"F", "(", "...", ",", "x", ")", "x">>)>>, <<>>>>,
                   <<<<L(<<"F", "(", "x", "+", ")", "x">>), L(<<"A", "a">>)>>, <<"A">> :> a>>},
            t \in {<<"F", "(", "b", ")">>, <<"A", "+", "F", "(", ")">>,
                   <<"F", "(", "A", ",", "b", ")">>, <<"F", "+", "A">>}}

\* No macros: an operator of each level in every order, and short token
\* sequences, most of them no expressions.
Levels == {"*", "+", "<<", "<", "==", "&", "^", "|", "&&", "||", "="}
Expressions ==
    {Program(<<>>, Alone(e)) :
        e \in {<<"a", o[1], "a", o[2], "a", o[3], "a">> : o \in [1..3 -> Levels]}
              \cup Upto(4, {"a", "1", "(", ")", "+", "<", "=", "++"})
              \cup {<<"a", "*">> \o e : e \in Upto(4, {"a", "(", ")", "-", "sizeof"})}}

MCPrograms == {p \in Objects \cup Calls1 \cup Calls2 \cup Misread \cup Expressions : ~Outside(p)}

-----------------------------------------------------------------------------
\* The expansion of a text ends well, and what it leaves for the parser is what
\* C makes of the text: arguments fully expanded before they are substituted,
\* except for # and ##, the result scanned again with what follows it out of
\* reach, and no macro replaced within its own expansion.  It crosses the list
\* surgery, the recursion and the counts of expand_macro.
AgreesWithC ==
    status # "running" =>
        /\ status = "expanded"
        /\ Seen(SelectSeq(Tokens, LAMBDA t : t.type # "BLANK")) = Expanded(program)

\* The parser, which climbs by precedence, builds the tree that C's grammar
\* gives a statement's expression and stops at its semicolon; on what is no
\* expression, but for an assignment to more than a unary one, it reports an error or stops before the semicolon.  No token is
\* lost and none is taken twice, whatever the tables hold beyond their ends.
AgreesWithGrammar ==
    LET ts   == token_stream
        n    == Len(ts)
        tree == Tree(Front(ts))
    IN  parsed # NotYet /\ InGrammar(ts) =>
            IF tree = NoTree THEN parsed.s.error \/ parsed.s.pos < n - 1
            ELSE parsed = [node |-> tree, s |-> [pos |-> n - 1, error |-> FALSE, stuck |-> ""]]

\* A call that expand_macro makes in the rescan, or in the first place of an
\* argument, uses up no token beyond the end of the expansion it is a part of:
\* end_entry of the outer activation, from which its loops and its link depend,
\* is still ahead of what the inner one removes.
EndsNest ==
    \A i \in 2..Len(calls) :
        calls[i - 1].phase = "rescan" \/ calls[i - 1].first = calls[i - 1].node =>
            calls[i - 1].end \in {NULL} \cup ToSet(Chain(list, calls[i].end))

\* The main loop advances by the length that expand_macro returns, which was
\* counted while the list changed: it never lands beyond the first token after
\* the expansion, which may be a macro.
NothingSkipped ==
    [][Len(calls) = 1 /\ calls' = <<>> =>
          calls[1].end \in {NULL} \cup ToSet(Chain(list', list'[ptr'].next))]_vars

\* Every text is expanded in the end, self-reference and all.
Ends == <>(status = "expanded")
=============================================================================
