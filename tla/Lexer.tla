------------------------------- MODULE Lexer -------------------------------
(***************************************************************************)
(* The lexer, src/src/lexer.c: scan_and_insert_tokens turns the files of   *)
(* the stack into tokens, one scan_token each.  A step consumes what the   *)
(* next character decides alone; names, numbers, literals, headers and     *)
(* comments, which build_lexme and the comment loops read, take a step per *)
(* character.                                                              *)
(*                                                                         *)
(* A character is a string of length one.  An escaped character in a       *)
(* literal, which the code marks with bit 7, is "\\" \o c.                  *)
(***************************************************************************)
EXTENDS NumericConstant

CONSTANTS
    Characters,         \* what a file may hold
    Letters,            \* the letters
    Keywords,           \* the names that are in subtype_strings ...
    Directives,         \* ... and those of the directives among them
    DIRECTIVE_INCLUDE, DIRECTIVE_DEFINE,    \* two of the latter
    Programs,           \* records [files, headers]: the stack main leaves, and
                        \* the headers the preprocessor includes later
    MAX_LEXEME_LENGTH

ASSUME ProgramsAssumption ==
    \A p \in Programs : /\ p.files \in Seq(Seq(Characters))
                        /\ p.headers \in Seq(Seq(Characters))

\* The numeral of every long fits a lexeme, with its sign.
ASSUME NumeralsFit ==
    /\ MAX_LEXEME_LENGTH \in Nat
    /\ Len(numeral[ULONG - ULONG \div 2]) < MAX_LEXEME_LENGTH - 1

EOF == "EOF"

VARIABLES
    program,            \* the program chosen
    files,              \* the stack of files: FILES_TOP is the last
    headers,            \* the headers still to be included
    cursor,             \* [pos, line, escaped]: FILES_TOP's pos and
                        \* current_line, and the global escaped
    mode,               \* "scan" in scan_token, "line comment", "block comment",
                        \* the kind of lexeme build_lexme is at, or
                        \* "aborted": an assertion of string_cat_c failed
    new_token,          \* [type, text, line, blank]; blank: follows_whitespace
    in_define, in_include,
    tokens

vars == <<program, files, headers, cursor, mode, new_token, in_define, in_include, tokens>>

NoToken == [type |-> "NONE", text |-> <<>>, line |-> -1, blank |-> FALSE]
\* Faulty: the lines are counted from 0.
StartAtZero == [pos |-> 0, line |-> 0, escaped |-> FALSE]

Start   == [pos |-> 0, line |-> 1, escaped |-> FALSE]

Init ==
    /\ program \in Programs
    /\ files = program.files
    /\ headers = program.headers
    /\ cursor = Start
    /\ mode = "scan"
    /\ new_token = NoToken
    /\ in_define = FALSE /\ in_include = FALSE
    /\ tokens = <<>>

-----------------------------------------------------------------------------
(* The characters of FILES_TOP *)

Text == files[Len(files)]

Peek(cur)         == IF cur.pos = Len(Text) THEN EOF ELSE Text[cur.pos + 1]
PeekAhead(cur, n) == IF cur.pos + n > Len(Text) THEN EOF ELSE Text[cur.pos + n]

\* consume_next_char
Consume(cur) ==
    IF cur.pos = Len(Text) THEN cur
    ELSE LET c == Peek(cur)
         IN  [pos     |-> cur.pos + 1,
              line    |-> cur.line + (IF c = "\n" THEN 1 ELSE 0),
              escaped |-> ~cur.escaped /\ c = "\\"]

ConsumeIf(cur, c) == IF Peek(cur) = c THEN Consume(cur) ELSE cur

Blanks == {" ", "\t", "\r"}

\* consume_whitespace
SkipBlanks(cur) ==
    LET stop == Min({i \in (cur.pos + 1)..(Len(Text) + 1) :
                        i > Len(Text) \/ Text[i] \notin Blanks})
    IN  [cur EXCEPT !.pos = stop - 1,
                    !.escaped = @ /\ stop = cur.pos + 1]

-----------------------------------------------------------------------------
(* build_lexme *)

\* (and the back quote, which no file has)
NotInHeader == {"@", "$", "\n", EOF} \cup Blanks

\* The compare function of each kind of lexeme.
Accepts(m, cur) ==
    LET c == Peek(cur)
    IN  CASE m = "name"      -> c \in Letters \cup Digits \cup {"_"}
          [] m \in {"directive", "suffix", "cut suffix"} -> c \in Letters
      [] m \in {"decimal", "octal", "fraction", "exponent", "binary exponent"} -> c \in Digits
      [] m \in {"hex", "hex fraction"} -> c \in Hexits
          [] m = "string"    -> cur.escaped \/ c \notin {"\"", EOF}
          [] m = "char"      -> cur.escaped \/ c \notin {"'", EOF}
          [] m = "h header"  -> c \notin NotInHeader \cup {">"}
          [] m = "q header"  -> c \notin NotInHeader \cup {"\""}

\* What a backslash has for its next character is left for the next round:
\* \x and octal escapes.
Numeric == ({"x"} \cup Digits) \ {"8", "9"}

\* Faulty: no room is left for the terminating NUL.
GrowToTheEnd(text, c) == IF Len(text) = MAX_LEXEME_LENGTH THEN text ELSE Append(text, c)

\* A lexeme of the longest length grows no further.
Grow(text, c) == IF Len(text) = MAX_LEXEME_LENGTH - 1 THEN text ELSE Append(text, c)

\* One round of the loop: the cursor and the lexeme after it.
Round(cur, text) ==
    LET c     == Peek(cur)
        first == Consume(cur)
        next  == ConsumeIf(first, "\r")
        after == [next EXCEPT !.escaped = FALSE]
    IN  IF ~first.escaped
        THEN [cursor |-> first, text |-> Grow(text, c)]
        ELSE IF Peek(next) = "\n"
        THEN [cursor |-> Consume(next), text |-> text]
        ELSE IF Peek(next) \in Numeric
        THEN [cursor |-> next, text |-> Grow(text, c)]
        ELSE [cursor |-> Consume(after), text |-> Grow(text, "\\" \o Peek(next))]

-----------------------------------------------------------------------------
(* scan_token *)

\* The token is complete, and scan_and_insert_tokens inserts it.
Emit(t) ==
    /\ tokens' = Append(tokens, t)
    /\ new_token' = NoToken
    /\ mode' = "scan"

Continue(m, t) ==
    /\ mode' = m
    /\ new_token' = t
    /\ UNCHANGED tokens

Token(type, text, line) ==
    [type |-> type, text |-> text, line |-> line, blank |-> new_token.blank]

Scanning(chars) == files # <<>> /\ mode = "scan" /\ Peek(cursor) \in chars

Next1 == PeekAhead(cursor, 2)       \* what peek_next_char gives after the
Next2 == PeekAhead(cursor, 3)       \* first character, and peek_ahead_char(2)

Alone == {"[", "]", "(", ")", "{", "}", "~", "?", ":", ";", ","}

\* What may follow the first character of a punctuator of two characters.
Followers ==
    [c \in {"-", "&", "*", "+", "!", "/", "%", "<", ">", "^", "|", "=", "#"} |->
        CASE c = "-" -> {">", "-", "="}
          [] c = "#" -> {"#"}
          [] c \in {"&", "+", "<", ">", "|"} -> {c, "="}
          [] OTHER -> {"="}]

Long == Next1 = Peek(cursor) /\ Next1 \in {"<", ">"} /\ Next2 = "="

PunctuatorLength ==
    IF Peek(cursor) \in Alone \/ Next1 \notin Followers[Peek(cursor)] THEN 1
    ELSE IF Long THEN 3 ELSE 2

\* `|=` is given the subtype, and with it the lexeme, of `^=`.
Spelling(text) == IF text = <<"|", "=">> THEN <<"^", "=">> ELSE text

IsComment   == Peek(cursor) = "/" /\ Next1 \in {"/", "*"}
IsDirective == Peek(cursor) = "#" /\ Next1 # "#" /\ ~in_define
IsHHeader   == Peek(cursor) = "<" /\ Next1 \notin {"<", "="} /\ in_include

ScanPunctuator ==
    /\ Scanning(Alone \cup DOMAIN Followers)
    /\ ~IsComment /\ ~IsDirective /\ ~IsHHeader
    /\ LET n == PunctuatorLength
       IN  /\ Emit(Token("PUNCTUATOR",
                         Spelling(SubSeq(Text, cursor.pos + 1, cursor.pos + n)), cursor.line))
           /\ cursor' = [cursor EXCEPT !.pos = @ + n, !.escaped = FALSE]
    /\ UNCHANGED <<program, files, headers, in_define, in_include>>

\* A second dot is consumed whether or not there is a third.
ScanDot ==
    /\ Scanning({"."})
    /\ LET n == IF Next1 # "." THEN 1 ELSE IF Next2 # "." THEN 2 ELSE 3
       IN  /\ IF n = 2 THEN UNCHANGED <<tokens, mode, new_token>>
              ELSE Emit(Token("PUNCTUATOR", [i \in 1..n |-> "."], cursor.line))
           /\ cursor' = [cursor EXCEPT !.pos = @ + n, !.escaped = FALSE]
    /\ UNCHANGED <<program, files, headers, in_define, in_include>>

\* Faulty: the end of the line does not end a #define.
NewlineInDefine(line) ==
    /\ Emit(Token("NEWLINE", <<"\n">>, line))
    /\ UNCHANGED in_define

Newline(line) ==
    /\ Emit(Token("NEWLINE", <<"\n">>, line))
    /\ in_define' = FALSE

ScanNewline ==
    /\ Scanning({"\n"})
    /\ cursor' = Consume(cursor)
    /\ Newline(cursor.line)
    /\ UNCHANGED <<program, files, headers, in_include>>

ScanBlanks ==
    /\ Scanning(Blanks)
    /\ cursor' = SkipBlanks(cursor)
    /\ Continue("scan", [new_token EXCEPT !.blank = TRUE])
    /\ UNCHANGED <<program, files, headers, in_define, in_include>>

\* A backslash, the newline it precedes, and any other character, which is an
\* error, leave no token.
ScanBackslash ==
    /\ Scanning({"\\"})
    /\ cursor' = ConsumeIf(ConsumeIf(Consume(cursor), "\r"), "\n")
    /\ UNCHANGED <<program, files, headers, mode, new_token, in_define, in_include, tokens>>

Known == Letters \cup Digits \cup Blanks \cup Alone \cup DOMAIN Followers
            \cup {"_", ".", "\n", "\\", "\"", "'", EOF}

ScanUnknown ==
    /\ files # <<>> /\ mode = "scan" /\ Peek(cursor) \notin Known
    /\ cursor' = Consume(cursor)
    /\ UNCHANGED <<program, files, headers, mode, new_token, in_define, in_include, tokens>>

StartComment ==
    /\ Scanning({"/"}) /\ IsComment
    /\ cursor' = Consume(cursor)
    /\ Continue(IF Next1 = "/" THEN "line comment" ELSE "block comment", new_token)
    /\ UNCHANGED <<program, files, headers, in_define, in_include>>

LineComment ==
    /\ mode = "line comment"
    /\ cursor' = Consume(cursor)
    /\ IF Peek(cursor) = "\n" THEN Newline(cursor.line)
       ELSE UNCHANGED <<mode, new_token, in_define, tokens>>
    /\ UNCHANGED <<program, files, headers, in_include>>

\* Faulty: what follows an asterisk is consumed with it.
BlockCommentSkips ==
    /\ mode = "block comment"
    /\ LET next == Consume(cursor)
           ends == Peek(cursor) = "*" /\ Peek(next) = "/"
       IN  /\ cursor' = IF Peek(cursor) = "*" THEN Consume(next) ELSE next
           /\ mode' = IF ends THEN "scan" ELSE mode
    /\ UNCHANGED <<program, files, headers, new_token, in_define, in_include, tokens>>

BlockComment ==
    /\ mode = "block comment"
    /\ LET next == Consume(cursor)
           ends == Peek(cursor) = "*" /\ Peek(next) = "/"
       IN  /\ cursor' = IF ends THEN Consume(next) ELSE next
           /\ mode' = IF ends THEN "scan" ELSE mode
    /\ UNCHANGED <<program, files, headers, new_token, in_define, in_include, tokens>>

\* build_lexme is entered with the first character consumed, which is part of
\* the lexeme of a name only.
StartLexeme(m, cur, text, type) ==
    /\ cursor' = cur
    /\ Continue(m, Token(type, text, cur.line))
    /\ UNCHANGED <<program, files, headers, in_define, in_include>>

IsWideChar == Peek(cursor) = "L" /\ Next1 = "'"

StartName ==
    /\ Scanning(Letters \cup {"_"}) /\ ~IsWideChar
    /\ StartLexeme("name", Consume(cursor), <<Peek(cursor)>>, "IDENTIFIER")

StartChar ==
    \/ /\ Scanning({"'"})
       /\ StartLexeme("char", Consume(cursor), <<>>, "CONST_CHAR")
    \/ /\ Scanning({"L"}) /\ IsWideChar
       /\ StartLexeme("char", Consume(Consume(cursor)), <<>>, "CONST_WIDE_CHAR")

StartQuote ==
    /\ Scanning({"\""})
    /\ IF in_include
       THEN StartLexeme("q header", SkipBlanks(Consume(cursor)), <<>>, "HEADER_NAME")
       ELSE StartLexeme("string", Consume(cursor), <<>>, "STRING_LITERAL")

StartHHeader ==
    /\ Scanning({"<"}) /\ IsHHeader
    /\ StartLexeme("h header", SkipBlanks(Consume(cursor)), <<>>, "HEADER_NAME")

StartDirective ==
    /\ Scanning({"#"}) /\ IsDirective
    /\ StartLexeme("directive", SkipBlanks(Consume(cursor)), <<>>, "DIRECTIVE")

Lexemes == {"name", "directive", "string", "char", "h header", "q header"}
Parts   == {"decimal", "octal", "hex", "fraction", "hex fraction", "exponent",
            "binary exponent"}
SuffixModes == {"suffix", "cut suffix"}

BuildLexeme ==
    /\ mode \in Lexemes \cup Parts \cup SuffixModes
    /\ Accepts(mode, cursor)
    /\ LET r   == Round(cursor, new_token.text)
           cut == mode = "suffix" /\ r.text = new_token.text
       IN  /\ cursor' = r.cursor
           /\ new_token' = [new_token EXCEPT !.text = r.text]
           /\ mode' = IF cut THEN "cut suffix" ELSE mode
    /\ UNCHANGED <<program, files, headers, in_define, in_include, tokens>>

\* What is consumed after the lexeme: its closing quote or bracket, or whatever
\* is found in its place.
Closed ==
    CASE mode \in {"name", "directive"} -> cursor
      [] mode = "h header"              -> Consume(SkipBlanks(cursor))
      [] OTHER                          -> Consume(cursor)

\* create_identifier_or_keyword_token looks the name up among all spellings.
Classified ==
    IF mode = "name" /\ new_token.text \in Keywords \cup Directives
    THEN [new_token EXCEPT !.type = "KEYWORD"]
    ELSE new_token

EndLexeme ==
    /\ mode \in Lexemes
    /\ ~Accepts(mode, cursor)
    /\ cursor' = Closed
    /\ Emit(Classified)
    /\ CASE mode = "directive" /\ new_token.text \in Directives \cup {<<>>} ->
              /\ in_include' = (new_token.text = DIRECTIVE_INCLUDE)
              /\ in_define' = (new_token.text = DIRECTIVE_DEFINE)
         [] mode \in {"h header", "q header"} ->
              in_include' = FALSE /\ UNCHANGED in_define
         [] OTHER -> UNCHANGED <<in_define, in_include>>
    /\ UNCHANGED <<program, files, headers>>

\* create_constant_token.  The first digit is consumed; that of an octal or a
\* hexadecimal constant is no part of the lexeme.
StartNumber ==
    /\ Scanning(Digits)
    /\ LET based == Peek(cursor) = "0"
       IN  IF based /\ Next1 \in {"x", "X"}
           THEN StartLexeme("hex", Consume(Consume(cursor)), <<>>, "CONST_INTEGER")
           ELSE IF based /\ Next1 \in Digits
           THEN StartLexeme("octal", Consume(cursor), <<>>, "CONST_INTEGER")
           ELSE StartLexeme("decimal", Consume(cursor), <<Peek(cursor)>>, "CONST_INTEGER")

\* string_cat_c of some characters, and the step to the next part.
Extend(m, t, chars) ==
    IF Len(t.text) + Len(chars) >= MAX_LEXEME_LENGTH
    THEN mode' = "aborted" /\ UNCHANGED <<cursor, new_token, tokens>>
    ELSE /\ cursor' = [cursor EXCEPT !.pos = @ + Len(chars)]
         /\ Continue(m, [t EXCEPT !.text = @ \o chars])

\* An error returns the token without its lexeme.
Reject(t, cur) == cursor' = cur /\ Emit([t EXCEPT !.text = <<>>])

Exponent == <<"E">> \o IF Next1 \in {"+", "-"} THEN <<Next1>> ELSE <<>>

\* A part of a constant ends; the next character decides what follows.
EndPart ==
    /\ mode \in Parts
    /\ ~Accepts(mode, cursor)
    /\ LET c == Peek(cursor)
           t == CASE mode = "hex"   -> [new_token EXCEPT !.text = to_base_10(16, @)]
                  [] mode = "octal" -> [new_token EXCEPT !.text = to_base_10(8, @)]
                  [] OTHER          -> new_token
           is_p == c \in {"p", "P"} /\ mode \in {"fraction", "hex fraction"}
           is_e == c \in {"e", "E"} /\ mode \in {"decimal", "octal", "fraction"}
           double == [t EXCEPT !.type = "CONST_DOUBLE"]
       IN  CASE c = "." /\ mode = "decimal" -> Extend("fraction", double, <<".">>)
             [] c = "." /\ mode = "hex" -> Extend("hex fraction", double, <<".">>)
             [] c = "." /\ mode = "octal" -> Reject(double, Consume(cursor))
             [] is_p /\ mode = "fraction" -> Reject(t, cursor)
             [] is_p /\ mode = "hex fraction" -> Extend("binary exponent", t, <<"P">>)
             [] is_e -> Extend("exponent", t, Exponent)
             [] c \in Letters /\ ~is_p /\ ~is_e -> Extend("suffix", t, <<>>)
             [] OTHER -> cursor' = cursor /\ Emit(t)
    /\ UNCHANGED <<program, files, headers, in_define, in_include>>

\* After the last letter of a lexeme that the suffix outgrew, the array has another
\* one, and no NUL.
EndSuffix ==
    /\ mode \in SuffixModes
    /\ ~Accepts(mode, cursor)
    /\ LET t == new_token
           type == Suffixed(t.type, t.text[Len(t.text)])
           cut == {t.type} \cup IF type \in {"CONST_UNSIGNED_INT", "CONST_LONG"}
                                THEN {"CONST_UNSIGNED_LONG"} ELSE {}
       IN  \E any \in {type} \cup IF mode = "cut suffix" THEN cut ELSE {} :
               Emit([t EXCEPT !.type = any])
    /\ UNCHANGED <<program, files, headers, cursor, in_define, in_include>>

\* The globals keep their values from one file to the next.
EndOfFile ==
    /\ Scanning({EOF})
    /\ Emit([NoToken EXCEPT !.type = "END", !.line = cursor.line])
    /\ files' = SubSeq(files, 1, Len(files) - 1)
    /\ cursor' = [Start EXCEPT !.escaped = cursor.escaped]
    /\ UNCHANGED <<program, headers, in_define, in_include>>

\* add_file, called for an #include once the stack is empty.  A #define that the
\* preprocessor has handled since then has cleared in_define (one with a malformed
\* parameter list, which would set it, is left out).
AddFile ==
    /\ files = <<>> /\ headers # <<>>
    /\ files' = <<Head(headers)>>
    /\ headers' = Tail(headers)
    /\ in_define' \in {in_define, FALSE}
    /\ UNCHANGED <<program, cursor, mode, new_token, in_include, tokens>>

-----------------------------------------------------------------------------
Done == files = <<>> /\ headers = <<>>

Next ==
    \/ ScanPunctuator \/ ScanDot \/ ScanNewline \/ ScanBlanks \/ ScanBackslash
    \/ ScanUnknown \/ StartComment \/ LineComment \/ BlockComment
    \/ StartName \/ StartChar \/ StartQuote \/ StartHHeader \/ StartDirective
    \/ StartNumber \/ EndPart \/ EndSuffix
    \/ BuildLexeme \/ EndLexeme \/ EndOfFile \/ AddFile

Spec == Init /\ [][Next]_vars

\* The program is sequential.
FairSpec == Spec /\ WF_vars(Next)

-----------------------------------------------------------------------------
TypeOK ==
    /\ cursor.pos \in Nat /\ cursor.line \in Nat /\ cursor.escaped \in BOOLEAN
    /\ mode \in Lexemes \cup Parts \cup SuffixModes
                 \cup {"scan", "line comment", "block comment", "aborted"}
    /\ in_define \in BOOLEAN /\ in_include \in BOOLEAN
    /\ \A i \in DOMAIN tokens : tokens[i].line \in Nat \ {0}

\* No character is read past the end of the buffer and no lexeme outgrows the
\* local array it is built in, whatever the file holds.
InBounds ==
    /\ files # <<>> => cursor.pos <= Len(Text)
    /\ Len(new_token.text) < MAX_LEXEME_LENGTH

\* "Consume the ending \"": a string literal has no quote in it that is not
\* escaped.
StringsEndAtTheirQuote ==
    \A i \in DOMAIN tokens : tokens[i].type = "STRING_LITERAL" =>
        \A j \in DOMAIN tokens[i].text : tokens[i].text[j] # "\""
=============================================================================
