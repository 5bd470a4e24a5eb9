--------------------------- MODULE MacroExpansion ---------------------------
(***************************************************************************)
(* Macro replacement in the text of a source file: expand_macro and what   *)
(* it calls, src/src/preprocessor.c, driven by the part of                 *)
(* process_preprocessing_tokens that handles text.  The macros are those   *)
(* in force; directives are module Directives.                             *)
(*                                                                         *)
(* The token list is a heap: a node is its number, 0 is NULL, and the      *)
(* memory of a removed node is not used again.  expand_macro recurses in   *)
(* two places; calls is the C stack with the locals of each activation.    *)
(* The text of a token is a sequence of symbols, which ## joins.           *)
(***************************************************************************)
EXTENDS MacroDefinition, SequencesExt

CONSTANTS
    Programs,       \* records that have the fields lines, the tokens of #define
                    \* directives, and text, a file's other tokens, up to its END
    STACK_FRAMES,   \* activations of expand_macro the C stack has room for
    MAX_TOKENS      \* nodes the token arena has room for

AnyToken == [type : STRING, sub : STRING, text : Seq(STRING),
             blank : BOOLEAN, irr : BOOLEAN, file : BOOLEAN]

\* A #define has a name and ends with its NEWLINE, which is no punctuator; the
\* lexer makes no ARGUMENTs.
IsLine(ts) ==
    /\ ts \in Seq(AnyToken) /\ Len(ts) >= 2
    /\ ts[Len(ts)].type = "NEWLINE" /\ ts[Len(ts)].sub \notin {"(", ")", ",", "..."}
    /\ \A i \in DOMAIN ts : ts[i].type # "ARGUMENT"

ASSUME ProgramsAssumption ==
    \A p \in Programs : /\ p.text \in Seq(AnyToken)
                         /\ p.lines \in Seq({ts \in Range(p.lines) : IsLine(ts)})

ASSUME BoundsAssumption == STACK_FRAMES \in Nat /\ MAX_TOKENS \in Nat

VARIABLES
    program,
    macros,         \* the macros in force: a function from names
    list,           \* list[n] is [token, next]; node 1 is the head
    ptr,            \* the node the main loop is at
    calls,          \* activations of expand_macro, the running one last
    status          \* "running", "expanded", or how the program went wrong

source == <<program, macros>>
vars == <<source, list, ptr, calls, status>>

NULL  == 0
CRASH == -1         \* a NULL pointer is followed

\* blank: follows_whitespace; irr: irreplaceable; file: src_filepath is not NULL.
Blank == [type |-> "BLANK", sub |-> "", text |-> <<>>,
          blank |-> FALSE, irr |-> FALSE, file |-> TRUE]

\* Faulty: a node is taken to be linked to the one after the next.
NodesAdrift(tokens, at, after) ==
    [i \in DOMAIN tokens |->
        [token |-> tokens[i], next |-> IF i = Len(tokens) THEN after ELSE at + i + 1]]

\* The nodes of some tokens, from number at on, linked to one another and to after.
Nodes(tokens, at, after) ==
    [i \in DOMAIN tokens |->
        [token |-> tokens[i], next |-> IF i = Len(tokens) THEN after ELSE at + i]]

Init ==
    /\ program \in Programs
    /\ macros = Defined(program.lines)
    /\ list = Nodes(<<Blank>> \o program.text, 1, NULL)
    /\ ptr = 1
    /\ calls = <<>>
    /\ status = "running"

-----------------------------------------------------------------------------
(* Lists *)

\* advance_list
Advance(l, n, amount) ==
    LET at[i \in 0..amount] ==
            IF i = 0 THEN n
            ELSE LET p == at[i - 1] IN IF p \in {NULL, CRASH} THEN CRASH ELSE l[p].next
    IN  IF amount < 0 THEN CRASH ELSE at[amount]

\* The nodes from n to the end of the list, or round the cycle it runs into.
Chain(l, n) ==
    LET at[i \in 0..(Len(l) + 1)] ==
            IF i = 0 THEN n ELSE LET p == at[i - 1] IN IF p = NULL THEN NULL ELSE l[p].next
        count == Min({Len(l) + 1} \cup {i \in 0..Len(l) : at[i] = NULL})
    IN  [i \in 1..count |-> at[i - 1]]

Endless(l, n) == Len(Chain(l, n)) > Len(l)

\* Faulty: stop is counted too.
DistanceInclusive(l, n, stop) ==
    LET c == Chain(l, n)
    IN  Min({Len(c)} \cup {i \in DOMAIN c : c[i] = stop})

\* The number of nodes from n up to, not including, stop.
Distance(l, n, stop) ==
    LET c == Chain(l, n)
    IN  Min({Len(c)} \cup {i - 1 : i \in {j \in DOMAIN c : c[j] = stop}})

\* macro_exists
IsMacro(l, n) ==
    n # NULL /\ l[n].token.type = "IDENTIFIER" /\ l[n].token.text \in DOMAIN macros

\* Faulty: a macro is expanded in its own expansion.
ExpandableAgain(l, n) == IsMacro(l, n)

Expandable(l, n) == IsMacro(l, n) /\ ~l[n].token.irr

-----------------------------------------------------------------------------
(* The arguments of a call *)

\* consume_argument, and the step over the comma or parenthesis after it.
Argument(l, n) ==
    LET c    == IF n \in {NULL, CRASH} THEN <<>> ELSE Chain(l, n)
        tok(i) == l[c[i]].token
        Count(p, i) == Cardinality({j \in 1..(i - 1) : tok(j).sub = p})
        ends == {i \in DOMAIN c : tok(i).sub \in {",", ")"} /\ Count("(", i) = Count(")", i)}
        k    == Min(ends)
    IN  IF ends = {} THEN [tokens |-> <<>>, after |-> CRASH]
        ELSE [tokens |-> IF k = 1 THEN <<Blank>>
                         ELSE [i \in 1..(k - 1) |->
                                  IF i = 1 THEN [tok(1) EXCEPT !.blank = FALSE] ELSE tok(i)],
              after |-> l[c[k]].next]

\* What follows the name, two tokens on, is taken for the arguments, whatever
\* it is.
Arguments(l, n, m) ==
    LET k == Len(m.params)
        open == Advance(l, n, 2)
        arg[i \in 0..k] == IF i = 0 THEN [tokens |-> <<>>, after |-> open]
                           ELSE Argument(l, arg[i - 1].after)
    IN  [tokens |-> [i \in 1..k |-> arg[i].tokens],
         after  |-> IF k > 0 \/ open = CRASH THEN arg[k].after ELSE Advance(l, open, 1)]

\* The activation of expand_macro at node n; its list is Entered's.
Frame(l, n) ==
    LET m == macros[l[n].token.text]
        a == Arguments(l, n, m)
    IN  [node |-> n, macro |-> l[n].token.text, rep |-> 1, new |-> n, len |-> 0,
         phase |-> "replace", first |-> NULL, seg |-> 0, at |-> NULL, joined |-> FALSE,
         args |-> IF m.is_function_like THEN a.tokens ELSE <<>>,
         end  |-> IF m.is_function_like THEN a.after ELSE l[n].next]

\* remove_from_list
Entered(l, n) == [l EXCEPT ![n].next = Frame(l, n).end]

Enter(l, n, stack) ==
    IF Frame(l, n).end = CRASH \/ Len(stack) = STACK_FRAMES
    THEN /\ status' = "crashed"
         /\ UNCHANGED <<list, calls, ptr>>
    ELSE /\ list' = Entered(l, n)
         /\ calls' = Append(stack, Frame(l, n))
         /\ UNCHANGED <<ptr, status>>

-----------------------------------------------------------------------------
(* One activation *)

Top    == calls[Len(calls)]
Callers == SubSeq(calls, 1, Len(calls) - 1)
Macro(f) == macros[f.macro]
Body   == Macro(Top).replacement
In(phase) == status = "running" /\ calls # <<>> /\ Top.phase = phase

Set(f) == Append(Callers, f)

\* find_parameter_index, which finds every ARGUMENT.
Actual(f, param) ==
    LET arg == f.args[CHOOSE i \in DOMAIN f.args : Macro(f).params[i] = param.text]
    IN  [i \in DOMAIN arg |-> [arg[i] EXCEPT !.file = TRUE]]

\* stringify_argument: the space is put after the token it precedes.
Stringify(arg) ==
    [Blank EXCEPT !.type = "STRING_LITERAL", !.file = FALSE,
                  !.text = FlattenSeq([i \in DOMAIN arg |->
                      arg[i].text \o IF arg[i].blank /\ i < Len(arg) THEN <<" ">> ELSE <<>>])]

\* substitute_argument and its callers: the first token is put in the place of
\* the parameter, the others in nodes after n.
InsertAfter(l, n, tokens) ==
    IF tokens = <<>> THEN l
    ELSE [l EXCEPT ![n].next = Len(l) + 1] \o Nodes(tokens, Len(l) + 1, l[n].next)

\* Faulty: new_entry stays where the parameter was.
LastOfFirst(l, n, tokens) == n

LastOf(l, n, tokens) == IF tokens = <<>> THEN n ELSE Len(l) + Len(tokens)

\* What comes after a token of the replacement list: a ## that follows it, then
\* the expansion of its argument.
Continued(f) ==
    LET r == Macro(f).replacement
    IN  [f EXCEPT !.phase = IF f.rep <= Len(r) /\ r[f.rep].sub = "##" THEN "concatenate"
                            ELSE IF f.first # NULL THEN "arguments" ELSE "replace"]

-----------------------------------------------------------------------------
(* The steps of expand_macro *)

Stop(why) ==
    /\ status' = why
    /\ UNCHANGED <<list, ptr, calls>>

\* What is replaced by nothing stays as a BLANK.
Blanked(l, n) == [l EXCEPT ![n].token = [@ EXCEPT !.type = "BLANK", !.text = <<>>]]

\* Back in the activation g, after one of macro m that returned the length r.
\* A call with arguments is counted again, another one changes the length; in
\* the rescan only the former.
Resumed(l, g, m, r) ==
    LET after == l[g.first].next
        seg   == CASE m.is_function_like -> IF after \in {NULL, g.end} THEN 0
                                            ELSE Distance(l, after, NULL)
                   [] ~m.is_function_like /\ r > 0 -> g.seg + r - 1
                   [] OTHER -> g.seg
    IN  IF g.phase = "arguments"
        THEN [g EXCEPT !.seg = seg, !.len = @ - (g.seg - seg), !.at = l[@].next]
        ELSE [g EXCEPT !.len = IF m.is_function_like THEN Distance(l, g.node, g.end) ELSE @,
                       !.at = l[@].next]

\* The list the count runs along has no end.
Spins(l, g, m) ==
    /\ m.is_function_like
    /\ IF g.phase = "arguments"
       THEN l[g.first].next \notin {NULL, g.end} /\ Endless(l, l[g.first].next)
       ELSE Endless(l, g.node) /\ g.end \notin ToSet(Chain(l, g.node))

Return(l, r) ==
    LET g == Last(Callers)
        p == Advance(l, ptr, r)
        blanked == IF r = 0 /\ g.phase = "arguments" /\ ~Macro(Top).is_function_like
                   THEN Blanked(l, g.at) ELSE l
    IN  IF r > 0 /\ Advance(l, Top.node, r - 1) = CRASH THEN Stop("crashed")
        ELSE IF Callers = <<>>
        THEN IF p \in {NULL, CRASH} THEN Stop("crashed")
             ELSE list' = l /\ ptr' = p /\ calls' = <<>> /\ UNCHANGED status
        ELSE IF Spins(l, g, Macro(Top)) THEN Stop("spinning")
        ELSE /\ list' = blanked
             /\ calls' = [Callers EXCEPT ![Len(Callers)] = Resumed(l, g, Macro(Top), r)]
             /\ UNCHANGED <<ptr, status>>

\* One token of the replacement list, with #; an error returns at once.
Replace ==
    /\ In("replace") /\ Top.rep <= Len(Body)
    /\ LET r     == Body[Top.rep]
           node  == IF Top.rep = 1 THEN Top.node ELSE Len(list) + 1
           file  == Top.rep = 1 \/ list[Top.node].token.file
           hash  == r.sub = "#"
           next  == Top.rep + IF hash THEN 2 ELSE 1
           param == hash /\ Top.rep < Len(Body) /\ Body[Top.rep + 1].type = "ARGUMENT"
           token == IF param THEN Stringify(Actual(Top, Body[Top.rep + 1]))
                    ELSE [r EXCEPT !.irr = (r.text = Top.macro), !.file = file]
           arg   == IF r.type = "ARGUMENT" THEN Actual(Top, r) ELSE <<token>>
           l     == IF Top.rep = 1 THEN list
                    ELSE Append([list EXCEPT ![Top.new].next = node], [token |-> r, next |-> NULL])
           put   == InsertAfter([l EXCEPT ![node].token = arg[1]], node, Tail(arg))
           new   == LastOf(l, node, Tail(arg))
       IN  IF hash /\ ~param
           THEN Return([l EXCEPT ![node].token = token], 0)
           ELSE IF r.type = "ARGUMENT" /\ ~file THEN Stop("aborted")
           ELSE IF put[new].token.sub = "##" THEN Return(put, 0)
           ELSE IF Len(put) > MAX_TOKENS THEN Stop("out of memory")
           ELSE /\ list' = put
                /\ calls' = Set(Continued([Top EXCEPT
                        !.rep = next, !.new = new, !.len = @ + Len(arg),
                        !.first = IF r.type = "ARGUMENT" THEN node ELSE NULL,
                        !.seg = Len(arg) - 1, !.at = node, !.joined = FALSE]))
                /\ UNCHANGED <<ptr, status>>
    /\ UNCHANGED source

\* A ## and its right operand.
Concatenate ==
    /\ In("concatenate")
    /\ LET right == Body[Top.rep + 1]
           arg   == IF right.type = "ARGUMENT" THEN Actual(Top, right) ELSE <<right>>
           l     == InsertAfter(list, Top.new, Tail(arg))
           new   == LastOf(list, Top.new, Tail(arg))
           left  == l[new].token
           type  == IF left.type = arg[1].type /\ left.sub = arg[1].sub THEN left.type
                    ELSE "IDENTIFIER"
       IN  IF Top.rep = Len(Body) THEN Return(list, 0)
           ELSE IF Len(l) > MAX_TOKENS THEN Stop("out of memory")
           ELSE IF arg[1].type # "BLANK" /\ left.text = <<>> THEN Stop("aborted")
           ELSE /\ list' = [l EXCEPT ![new].token =
                               [left EXCEPT !.type = type, !.text = @ \o arg[1].text]]
                /\ calls' = Set(Continued([Top EXCEPT !.rep = @ + 2, !.new = new,
                                                      !.joined = TRUE]))
                /\ UNCHANGED <<ptr, status>>
    /\ UNCHANGED source

\* Faulty: only the end of the list ends the loops.
AtEndOfList == Top.at = NULL

AtEnd == Top.at \in {NULL, Top.end}

\* One token of a substituted argument.
ExpandArgument ==
    /\ In("arguments") /\ ~AtEnd
    /\ IF Expandable(list, Top.at) /\ ~(Top.at = Top.first /\ Top.joined)
       THEN Enter(list, Top.at, calls)
       ELSE /\ calls' = Set([Top EXCEPT !.at = list[@].next])
            /\ UNCHANGED <<list, ptr, status>>
    /\ UNCHANGED source

\* new_entry goes to the last token of the argument, as two assertions say.
EndArgument ==
    /\ In("arguments") /\ AtEnd
    /\ LET new == Advance(list, Top.first, Top.seg)
       IN  IF new = CRASH THEN Stop("crashed")
           ELSE IF new = NULL \/ list[new].next \notin {NULL, Top.end} THEN Stop("aborted")
           ELSE /\ calls' = Set([Top EXCEPT !.phase = "replace", !.new = new])
                /\ UNCHANGED <<list, ptr, status>>
    /\ UNCHANGED source

Link ==
    /\ In("replace") /\ Top.rep > Len(Body)
    /\ list' = IF Body = <<>>
               THEN Blanked(list, Top.node)
               ELSE [list EXCEPT ![Top.new].next = Top.end]
    /\ calls' = Set([Top EXCEPT !.phase = "rescan", !.at = Top.node])
    /\ UNCHANGED <<source, ptr, status>>

Rescan ==
    /\ In("rescan") /\ ~AtEnd
    /\ IF Expandable(list, Top.at) THEN Enter(list, Top.at, calls)
       ELSE /\ calls' = Set([Top EXCEPT !.at = list[@].next])
            /\ UNCHANGED <<list, ptr, status>>
    /\ UNCHANGED source

EndRescan ==
    /\ In("rescan") /\ AtEnd
    /\ Return(list, Top.len)
    /\ UNCHANGED source

-----------------------------------------------------------------------------
(* The main loop, which looks at the token after ptr *)

Text == status = "running" /\ calls = <<>>

ExpandText ==
    /\ Text /\ IsMacro(list, list[ptr].next)
    /\ Enter(list, list[ptr].next, <<>>)
    /\ UNCHANGED source

\* Up to the next token that is a macro, or the last one.
PassText ==
    /\ Text /\ list[ptr].next # NULL /\ ~IsMacro(list, list[ptr].next)
    /\ LET c == Chain(list, ptr)
           n == Min({Len(c)} \cup {i \in 2..(Len(c) - 1) : IsMacro(list, c[i + 1])})
       IN  ptr' = c[n]
    /\ UNCHANGED <<source, list, calls, status>>

EndText ==
    /\ Text /\ list[ptr].next = NULL
    /\ Stop("expanded")
    /\ UNCHANGED source

Next ==
    \/ ExpandText \/ PassText \/ EndText
    \/ Replace \/ Concatenate \/ ExpandArgument \/ EndArgument \/ Link \/ Rescan \/ EndRescan

Spec == Init /\ [][Next]_vars

-----------------------------------------------------------------------------
\* Every pointer of the list, of the main loop and of an activation of
\* expand_macro is NULL or a node, those that are followed without a test are
\* nodes, and the recursion fits the stack.
TypeOK ==
    /\ \A n \in DOMAIN list : list[n].next \in 0..Len(list)
    /\ ptr \in DOMAIN list
    /\ Len(calls) <= STACK_FRAMES
    /\ \A i \in DOMAIN calls :
           /\ {calls[i].node, calls[i].new} \subseteq DOMAIN list
           /\ {calls[i].end, calls[i].at, calls[i].first} \subseteq 0..Len(list)
           /\ calls[i].phase = "arguments" => calls[i].first \in DOMAIN list
           /\ i < Len(calls) => calls[i].at \in DOMAIN list
    /\ status \in {"running", "expanded", "crashed", "aborted", "spinning", "out of memory"}
=============================================================================
