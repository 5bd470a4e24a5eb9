------------------------------ MODULE MC_Lexer ------------------------------
(***************************************************************************)
(* The files are all the short ones over a few alphabets, one for each     *)
(* part of the lexer.  Lex is what C makes of a file: the longest match in *)
(* the list of punctuators, and no state but the directive the line is in. *)
(* It yields OUTSIDE where C leaves the meaning open, and where the code   *)
(* is known to part from C (README.md lists those).                        *)
(***************************************************************************)
EXTENDS Lexer, SequencesExt, TLC

MCLetters    == {"a", "d", "e", "f", "i", "n", "p", "u", "x", "L"}
MCKeywords   == {<<"n">>}                   \* any keyword
MCDefine     == <<"d">>                     \* `define`
MCInclude    == <<"i">>                     \* `include`
MCCharacters == (Known \ {EOF}) \cup {"@"}
MCDirectives == {MCDefine, MCInclude, <<"e">>}

-----------------------------------------------------------------------------
(* The tokens of a file, after C *)

Punctuators ==
    {<<p>> : p \in Alone \cup {".", "-", "&", "*", "+", "!", "/", "%", "<", ">", "^",
                               "|", "=", "#"}}
    \cup {<<"-", ">">>, <<"+", "+">>, <<"-", "-">>, <<"<", "<">>, <<">", ">">>,
          <<"<", "=">>, <<">", "=">>, <<"=", "=">>, <<"!", "=">>, <<"&", "&">>,
          <<"|", "|">>, <<"*", "=">>, <<"/", "=">>, <<"%", "=">>, <<"+", "=">>,
          <<"-", "=">>, <<"&", "=">>, <<"^", "=">>, <<"|", "=">>, <<"#", "#">>,
          <<".", ".", ".">>, <<"<", "<", "=">>, <<">", ">", "=">>}

LongestMatch(s) ==
    CHOOSE p \in Punctuators :
        /\ IsPrefix(p, s)
        /\ \A q \in Punctuators : IsPrefix(q, s) => Len(q) <= Len(p)

Drop(s, n)    == SubSeq(s, n + 1, Len(s))
Newlines(s, n) == Cardinality({i \in 1..n : s[i] = "\n"})
NameChars     == MCLetters \cup Digits \cup {"_"}
NameLength(s) == Max({n \in 0..Len(s) : \A i \in 1..n : s[i] \in NameChars})
First(s, c)   == IF \E i \in 1..Len(s) : s[i] = c
                 THEN Min({i \in 1..Len(s) : s[i] = c}) ELSE 0

T(type, text, at) == [type |-> type, text |-> text, line |-> at.line, blank |-> at.blank]
OUTSIDE == <<[type |-> "OUTSIDE"]>>

\* A literal: its characters up to the quote q, and how many it takes.
RECURSIVE Literal(_, _, _, _)
Literal(s, q, n, text) ==
    IF n = Len(s) \/ s[n + 1] = "\n" THEN [n |-> 0, text |-> <<>>]
    ELSE IF s[n + 1] = q THEN [n |-> n + 1, text |-> text]
    ELSE IF s[n + 1] # "\\" THEN Literal(s, q, n + 1, Append(text, s[n + 1]))
    ELSE IF n + 2 >= Len(s) \/ (s[n + 2] = "\\" /\ s[n + 3] \in {q, "\\"})
    THEN [n |-> 0, text |-> <<>>]
    ELSE IF s[n + 2] = "\r"
    THEN IF s[n + 3] = "\n" THEN Literal(s, q, n + 3, text) ELSE [n |-> 0, text |-> <<>>]
    ELSE IF s[n + 2] = "\n" THEN Literal(s, q, n + 2, text)
    ELSE IF s[n + 2] \in Numeric THEN Literal(s, q, n + 2, text \o <<"\\", s[n + 2]>>)
    ELSE Literal(s, q, n + 2, Append(text, "\\" \o s[n + 2]))

\* A number: the longest run of what can be in one, of which the tokens of C are
\* the constants with a suffix of one letter at most.
NumberLength(s) ==
    Max({n \in 1..Len(s) : \A i \in 2..n :
            s[i] \in NameChars \cup {"."} \/ (s[i] \in {"+", "-"} /\ s[i - 1] \in {"e", "p"})})

Only(q, chars) == \A i \in DOMAIN q : q[i] \in chars
Decimal(q)     == q # <<>> /\ Only(q, Digits) /\ (q[1] = "0" => Len(q) = 1)
Octal(q)       == Len(q) > 1 /\ q[1] = "0" /\ Only(q, Digits \ {"8", "9"})
Hexadecimal(q) == Len(q) > 2 /\ q[1] = "0" /\ q[2] = "x" /\ Only(Drop(q, 2), Hexits)
Fraction(q)    == LET d == First(q, ".") IN d > 0 /\ Decimal(SubSeq(q, 1, d - 1))
                                             /\ Only(Drop(q, d), Digits)
Floating(q) ==
    LET e    == First(q, "e")
        sign == e < Len(q) /\ q[e + 1] \in {"+", "-"}
        n    == Drop(q, IF sign THEN e + 1 ELSE e)
    IN  IF e = 0 THEN Fraction(q) ELSE Fraction(SubSeq(q, 1, e - 1)) /\ n # <<>> /\ Only(n, Digits)

\* The numeral of an octal or a hexadecimal constant that fits a long.
RECURSIVE Horner(_, _)
Horner(q, base) ==
    IF q = <<>> THEN 0 ELSE Horner(Front(q), base) * base + DigitOf(Last(q))

Numeral(n) ==
    LET d == [i \in 1..3 |-> HEXITS[((n \div 10^(3 - i)) % 10) + 1]]
    IN  SubSeq(d, Min({3} \cup {i \in 1..3 : d[i] # "0"}), 3)

Suffix(q) ==
    IF Last(q) \in {"u", "L"} \/ (Last(q) = "f" /\ Floating(Front(q))) THEN <<Last(q)>> ELSE <<>>

\* Type and text of a constant; "E" for the exponent, "" if the code parts from C.
Constant(q) ==
    LET suffix == Suffix(q)
        body   == IF suffix = <<>> THEN q ELSE Front(q)
        int    == CASE suffix = <<>>    -> "CONST_INTEGER"
                    [] suffix = <<"u">> -> "CONST_UNSIGNED_INT"
                    [] suffix = <<"L">> -> "CONST_LONG"
        float  == CASE suffix = <<>>    -> "CONST_DOUBLE"
                    [] suffix = <<"f">> -> "CONST_FLOAT"
                    [] suffix = <<"L">> -> "CONST_LONG_DOUBLE"
                    [] OTHER            -> ""
        value  == CASE Hexadecimal(body) -> Horner(Drop(body, 2), 16)
                    [] Octal(body)       -> Horner(body, 8)
    IN  CASE Decimal(body)  -> [type |-> int, text |-> q]
          [] Floating(body) -> [type |-> float,
                                text |-> [i \in DOMAIN q |-> IF q[i] = "e" THEN "E" ELSE q[i]]]
          [] Hexadecimal(body) \/ Octal(body) ->
                [type |-> IF value < ULONG \div 2 THEN int ELSE "",
                 text |-> Numeral(value) \o suffix]
          [] OTHER -> [type |-> "", text |-> <<>>]

\* at: the line, whether blanks precede, the directive of the line ("" when it
\* is a line of text so far empty, "text" when it is not).
RECURSIVE Lex(_, _)
Lex(s, at) ==
    LET Token1(type, text, n, in) ==
            IF Len(text) >= MAX_LEXEME_LENGTH THEN OUTSIDE ELSE
            <<T(type, text, at)>> \o
                Lex(Drop(s, n), [line |-> at.line + Newlines(s, n), blank |-> FALSE, in |-> in])
        Rest(in) == IF in = "" THEN "text" ELSE in
        n   == NameLength(s)
        c   == IF s = <<>> THEN EOF ELSE s[1]
        two == IF Len(s) < 2 THEN EOF ELSE s[2]
        lit == Literal(Tail(s), c, 0, <<>>)
        wide == Literal(Drop(s, 2), two, 0, <<>>)
        hdr == First(Tail(s), IF c = "<" THEN ">" ELSE c)
        name == Drop(SubSeq(s, 1, hdr), 1)
        end == LET ends == {i \in 4..Len(s) : s[i - 1] = "*" /\ s[i] = "/"}
               IN  IF ends = {} THEN 0 ELSE Min(ends)
        nl  == First(s, "\n")
        skip == LET b == {i \in 2..Len(s) : s[i] \notin Blanks}
                IN  IF b = {} THEN Len(s) ELSE Min(b) - 1
        dir == Drop(s, skip)
        dirname == SubSeq(dir, 1, Max({i \in 0..Len(dir) : \A j \in 1..i : dir[j] \in MCLetters}))
    IN
    CASE c = EOF -> <<[T("END", <<>>, at) EXCEPT !.blank = FALSE]>>
      [] c = "\n" ->
            IF at.in = "include" THEN OUTSIDE
            ELSE <<[T("NEWLINE", <<"\n">>, at) EXCEPT !.blank = FALSE]>> \o
                 Lex(Tail(s), [line |-> at.line + 1, blank |-> FALSE, in |-> ""])
      [] c \in Blanks -> Lex(Tail(s), [at EXCEPT !.blank = TRUE])
      [] c = "\\" ->
            IF two = "\n" /\ at.blank THEN Lex(Drop(s, 2), [at EXCEPT !.line = @ + 1])
            ELSE OUTSIDE
      [] c = "/" /\ two = "/" -> IF nl = 0 \/ First(SubSeq(s, 1, nl), "\\") # 0 THEN OUTSIDE
                                 ELSE Lex(Drop(s, nl - 1), at)
      [] c = "/" /\ two = "*" ->
            IF end = 0 \/ s[3] = "/" \/ end = Len(s) \/ s[end + 1] \notin Blanks \cup {"\n"}
            THEN OUTSIDE
            ELSE Lex(Drop(s, end),
                     [at EXCEPT !.line = @ + Newlines(s, end)])
      [] c = "#" /\ two # "#" /\ at.in # "define" ->
            IF at.in # "" THEN OUTSIDE
            ELSE Token1("DIRECTIVE", dirname, skip + Len(dirname),
                        IF dirname = MCDefine THEN "define"
                        ELSE IF dirname = MCInclude THEN "include" ELSE "text")
      [] at.in = "include" /\ c \in {"<", "\""} ->
            IF hdr = 0 \/ (c = "<" /\ two \in {"<", "="})
                \/ \E i \in 1..(hdr - 1) : name[i] \in NotInHeader \cup {"\\"}
            THEN OUTSIDE
            ELSE Token1("HEADER_NAME", name, hdr + 1, "text")
      [] c = "\"" -> IF lit.n = 0 THEN OUTSIDE
                     ELSE Token1("STRING_LITERAL", lit.text, lit.n + 1, Rest(at.in))
      [] c = "'"  -> IF lit.n = 0 THEN OUTSIDE
                     ELSE Token1("CONST_CHAR", lit.text, lit.n + 1, Rest(at.in))
      [] c = "L" /\ two = "'" ->
            IF wide.n = 0 THEN OUTSIDE
            ELSE Token1("CONST_WIDE_CHAR", wide.text, wide.n + 2, Rest(at.in))
      [] c \in Digits ->
            LET q == SubSeq(s, 1, NumberLength(s))
                k == Constant(q)
            IN  IF k.type = "" THEN OUTSIDE ELSE Token1(k.type, k.text, Len(q), Rest(at.in))
      [] n > 0 -> Token1(IF SubSeq(s, 1, n) \in MCKeywords \cup MCDirectives
                         THEN "KEYWORD" ELSE "IDENTIFIER", SubSeq(s, 1, n), n, Rest(at.in))
      [] c \notin Known -> OUTSIDE
      [] OTHER ->
            LET p == LongestMatch(s)
            IN  IF p = <<"|", "=">> \/ (p = <<".">> /\ two \in {"."} \cup Digits) THEN OUTSIDE
                ELSE Token1("PUNCTUATOR", p, Len(p), Rest(at.in))

-----------------------------------------------------------------------------
(* The properties that compare a program with the reference *)

Expected(f) == Lex(f, [line |-> 1, blank |-> FALSE, in |-> ""])

\* Whether blanks precede a NEWLINE makes no difference.
Plain(t) == IF t.type = "NEWLINE" THEN [t EXCEPT !.blank = FALSE] ELSE t

Order == Reverse(program.files) \o program.headers

\* The tokens are those of each file by itself, the topmost first: with the
\* type, text, line and blanks of C, whatever was scanned before.
AgreesWithC ==
    Done => LET expected == FlattenSeq([i \in DOMAIN Order |-> Expected(Order[i])])
            IN  \/ \E i \in DOMAIN expected : expected[i].type = "OUTSIDE"
                \/ [i \in DOMAIN tokens |-> Plain(tokens[i])] = expected

OpenComment(f) ==
    \E i \in 2..Len(f) :
        /\ f[i - 1] = "/" /\ f[i] = "*"
        /\ \A j \in (i + 2)..Len(f) : ~(f[j - 1] = "*" /\ f[j] = "/")

\* A file is read to its end, if its comments are closed; or a constant that is
\* too long fails an assertion.
Ends == (\A i \in DOMAIN Order : ~OpenComment(Order[i])) ~> Done \/ mode = "aborted"

-----------------------------------------------------------------------------
(* The programs *)

Over(alphabet, n) == UNION {[1..k -> alphabet] : k \in 0..n}
Lines(fs) == {f \o <<"\n">> : f \in fs}

Punctuated ==
    Over({"-", "&", "+", "!", "/", "%", "<", ">", "^", "|", "=", "*", ".", "a", " "}, 3)
        \cup Over({"<", "=", ">", "."}, 4)
        \cup Over(Alone \cup {"a", " "}, 2)
Commented  == Over({"/", "*", "a", " ", "\n"}, 5)
Literals   == Over({"\"", "\\", "x", "\n", "'"}, 5) \cup Over({"'", "\\", "L", "n", "\r"}, 4)
Directed   == Over({"#", "d", "e", " ", "a", "\n"}, 5)
Including  == {<<"#", "i">> \o f : f \in Over({"<", ">", "\"", "a", " ", "=", "\n"}, 4)}
Named      == Over({"a", "n", "_", "@"}, 5)
Spliced    == Over({"a", " ", "\\", "\n", "\r"}, 4)

Numbered ==
    Over({"0", "1", ".", "e", "x", "u", "L"}, 4) \cup Over({"1", ".", "e", "+", "f"}, 5)
        \cup {<<"0", "x">> \o f : f \in Over({"1", "a", "9", "f", ".", "p", "u"}, 3)}
        \cup {<<"0">> \o f : f \in Over({"1", "7", "8", "."}, 3)}

Some ==
    {<<"#", "d", " ", "a", "#", "a">>, <<"#", "e">>, <<"#", "i", "<", "a", ">">>,
     <<"#", "i", " ", "\"", "a", "\"">>, <<"a", " ", "\\", "\n", "a">>, <<"\"", "\\", "n", "\"">>,
     <<"#", "\n", "a", "<", "n">>, <<"/", "*", "\n", "*", "/">>}

One(f) == [files |-> <<f>>, headers |-> <<>>]

MCPrograms ==
    {One(f) : f \in Lines(Punctuated \cup Commented \cup Literals \cup Directed
                              \cup Including \cup Named \cup Spliced \cup Numbered)}
    \cup {[files |-> <<f, g>>, headers |-> <<>>] : f, g \in Lines(Some)}
    \cup {[files |-> <<f>>, headers |-> <<g, h>>] : f, g, h \in Lines(Some)}

\* "\\" and a character after it: strings that end in an escaped backslash.
Backslashes == {One(f) : f \in Lines({<<"\"", "\\", "\\", "\"", "a", "\"">>,
                                       <<"\"", "\\", "n", "\"", "a">>})}
=============================================================================
