---------------------------- MODULE Lexer_proofs ----------------------------
(***************************************************************************)
(* The bounds of the lexer, for every file: the position in the buffer and *)
(* the length of the lexeme.  The second rests on what convert_to_base_10  *)
(* prints, which is a numeral of a long for every text of digits.          *)
(***************************************************************************)
EXTENDS Lexer, LeastNumber, SequenceTheorems

-----------------------------------------------------------------------------
(* The numerals of NumericConstant.  HEXITS has 22 characters. *)

LEMMA HexitsFacts ==
    /\ DOMAIN HEXITS = 1..22
    /\ "\\" \notin Hexits
    /\ Digits \subseteq Hexits
    /\ \A c \in Hexits : DigitOf(c) \in Nat
  <1>1. DOMAIN HEXITS = 1..22
    BY DEF HEXITS
  <1>2. "\\" \notin Hexits
    BY <1>1 DEF HEXITS, Hexits
  <1>3. Digits \subseteq Hexits
    BY <1>1 DEF Digits, Hexits
  <1>4. ASSUME NEW c \in Hexits PROVE DigitOf(c) \in Nat
    <2> DEFINE i == CHOOSE j \in DOMAIN HEXITS : HEXITS[j] = c
    <2>1. \E j \in DOMAIN HEXITS : HEXITS[j] = c
      BY <1>4 DEF Hexits
    <2>2. i \in 1..22
      BY <1>1, <2>1
    <2>3. DigitOf(c) = IF i > 16 THEN i - 7 ELSE i - 1
      BY DEF DigitOf
    <2> HIDE DEF i
    <2> QED BY <2>2, <2>3
  <1> QED BY <1>1, <1>2, <1>3, <1>4

\* The function numeral is the one its definition describes.
LEMMA NumeralDefined ==
    /\ numeral \in [Nat -> Seq(Digits)]
    /\ \A n \in Nat : numeral[n] = IF n < 10 THEN <<HEXITS[n + 1]>>
                                   ELSE Append(numeral[n \div 10], HEXITS[(n % 10) + 1])
  <1> DEFINE S    == Seq(Digits)
             B    == 0..9
             base == [n \in B |-> <<HEXITS[n + 1]>>]
             prev == [n \in Nat \ B |-> n \div 10]
             step == [p \in Nat \X S |-> Append(p[2], HEXITS[(p[1] % 10) + 1])]
             F(f) == [n \in Nat |-> IF n < 10 THEN <<HEXITS[n + 1]>>
                                    ELSE Append(f[n \div 10], HEXITS[(n % 10) + 1])]
  <1>1. \A n \in Nat : HEXITS[(n % 10) + 1] \in Digits /\ (n < 10 => HEXITS[n + 1] \in Digits)
    <2> TAKE n \in Nat
    <2>1. (n % 10) + 1 \in 1..10 /\ (n < 10 => n + 1 \in 1..10)
      OBVIOUS
    <2> QED BY <2>1 DEF Digits
  <1>2. base \in [B -> S]
    <2>1. \A n \in B : n \in Nat /\ n < 10
      OBVIOUS
    <2>2. \A d \in Digits : <<d>> \in S
      OBVIOUS
    <2> QED BY <1>1, <2>1, <2>2
  <1>3. prev \in [Nat \ B -> Nat] /\ \A n \in Nat \ B : prev[n] < n
    <2>1. \A n \in Nat \ B : n \div 10 \in Nat /\ n \div 10 < n
      OBVIOUS
    <2> QED BY <2>1
  <1>4. step \in [Nat \X S -> S]
    <2>1. \A p \in Nat \X S : p[1] \in Nat /\ p[2] \in S
      OBVIOUS
    <2>2. \A s \in S, d \in Digits : Append(s, d) \in S
      BY AppendProperties
    <2> QED BY <1>1, <2>1, <2>2
  <1>5. PICK f \in [Nat -> S] :
            \A n \in Nat : f[n] = IF n \in B THEN base[n] ELSE step[<<n, f[prev[n]]>>]
    <2> HIDE DEF S, B, base, prev, step
    <2>1. WellFounded(S, B, base, prev, step)
      BY <1>2, <1>3, <1>4 DEF WellFounded
    <2>2. PICK g \in [Nat -> S] : \A k \in Nat : Solves(g, k, B, base, prev, step)
      BY <2>1, Recursion
    <2>3. \A n \in Nat : g[n] = IF n \in B THEN base[n] ELSE step[<<n, g[prev[n]]>>]
      BY <2>2 DEF Solves
    <2> QED BY <2>3
  <1>6. f = F(f)
    <2>1. ASSUME NEW n \in Nat PROVE f[n] = F(f)[n]
      <3>1. CASE n < 10
        <4>1. n \in B
          BY <3>1
        <4> QED BY <1>5, <3>1, <4>1
      <3>2. CASE ~(n < 10)
        <4>1. n \in Nat \ B /\ n \div 10 \in Nat
          BY <3>2
        <4>2. f[n] = step[<<n, f[prev[n]]>>] /\ prev[n] = n \div 10
          BY <1>5, <4>1
        <4>3. f[n \div 10] \in S
          BY <1>5, <4>1
        <4>4. \A s \in S : step[<<n, s>>] = Append(s, HEXITS[(n % 10) + 1])
          <5> HIDE DEF S
          <5> QED OBVIOUS
        <4>5. f[n] = Append(f[n \div 10], HEXITS[(n % 10) + 1])
          <5> HIDE DEF S, step
          <5> QED BY <4>2, <4>3, <4>4
        <4> QED BY <3>2, <4>5
      <3> QED BY <3>1, <3>2
    <2> HIDE DEF S
    <2> QED BY <1>5, <2>1
  <1>7. numeral = F(numeral)
    BY <1>6 DEF numeral
  <1>8. \A n \in Nat : numeral[n] \in S
    <2> DEFINE A == {n \in Nat : numeral[n] \in S}
    <2>1. ASSUME NEW n \in Nat, \A m \in 0..(n - 1) : m \in A
          PROVE  n \in A
      <3>1. CASE n < 10
        BY <1>1, <1>7, <3>1
      <3>2. CASE ~(n < 10)
        <4>1. n \div 10 \in 0..(n - 1)
          BY <3>2
        <4>2. numeral[n \div 10] \in S
          BY <2>1, <4>1
        <4>3. numeral[n] = Append(numeral[n \div 10], HEXITS[(n % 10) + 1])
          BY <1>7, <3>2
        <4>4. numeral[n] \in S
          BY <1>1, <4>2, <4>3, AppendProperties
        <4> QED BY <4>4
      <3> QED BY <3>1, <3>2
    <2> HIDE DEF A
    <2>2. Nat \subseteq A
      BY <2>1, SetInduction
    <2> QED BY <2>2 DEF A
  <1> QED BY <1>7, <1>8

\* A greater number has no shorter numeral.
LEMMA NumeralMonotonic ==
    ASSUME NEW m \in Nat, NEW n \in Nat, m <= n
    PROVE  Len(numeral[m]) <= Len(numeral[n])
  <1> DEFINE A == {k \in Nat : \A j \in 0..k : Len(numeral[j]) <= Len(numeral[k])}
  <1>1. \A k \in Nat : /\ Len(numeral[k]) \in Nat \ {0}
                       /\ k < 10 => Len(numeral[k]) = 1
                       /\ k >= 10 => Len(numeral[k]) = Len(numeral[k \div 10]) + 1
    <2> TAKE k \in Nat
    <2>1. CASE k < 10
      <3>1. numeral[k] = <<HEXITS[k + 1]>>
        BY <2>1, NumeralDefined
      <3>2. Len(numeral[k]) = 1
        BY <3>1
      <3> QED BY <2>1, <3>2
    <2>2. CASE k >= 10
      <3>0. k \div 10 \in Nat /\ ~(k < 10)
        BY <2>2
      <3>1. /\ numeral[k] = Append(numeral[k \div 10], HEXITS[(k % 10) + 1])
            /\ numeral[k \div 10] \in Seq(Digits)
        BY <3>0, NumeralDefined
      <3>2. (k % 10) + 1 \in 1..10
        OBVIOUS
      <3>3. HEXITS[(k % 10) + 1] \in Digits
        BY <3>2 DEF Digits
      <3>4. Len(numeral[k]) = Len(numeral[k \div 10]) + 1 /\ Len(numeral[k \div 10]) \in Nat
        BY <3>1, <3>3, AppendProperties
      <3> QED BY <2>2, <3>4
    <2> QED BY <2>1, <2>2
  <1>2. ASSUME NEW k \in Nat, \A i \in 0..(k - 1) : i \in A
        PROVE  k \in A
    <2> SUFFICES ASSUME NEW j \in 0..k PROVE Len(numeral[j]) <= Len(numeral[k])
      OBVIOUS
    <2>1. CASE j < 10
      <3>1. Len(numeral[j]) = 1 /\ Len(numeral[k]) \in Nat \ {0}
        BY <1>1, <2>1
      <3> QED BY <3>1
    <2>2. CASE j >= 10
      <3>1. k \div 10 \in 0..(k - 1) /\ j \div 10 \in 0..(k \div 10)
        BY <2>2
      <3>2. Len(numeral[j \div 10]) <= Len(numeral[k \div 10])
        BY <1>2, <3>1
      <3>3. /\ Len(numeral[j]) = Len(numeral[j \div 10]) + 1
            /\ Len(numeral[k]) = Len(numeral[k \div 10]) + 1
            /\ Len(numeral[j \div 10]) \in Nat /\ Len(numeral[k \div 10]) \in Nat
        BY <1>1, <2>2, <3>1
      <3> QED BY <3>2, <3>3
    <2> QED BY <2>1, <2>2
  <1> HIDE DEF A
  <1>3. Nat \subseteq A
    BY <1>2, SetInduction
  <1> QED BY <1>3 DEF A

\* The loop of convert_to_base_10 leaves a size_t, whatever the length of the
\* text it reads.
LEMMA ValueIsWord ==
    ASSUME NEW base \in Nat, NEW text \in Seq(Hexits)
    PROVE  Value(base, text) \in 0..(ULONG - 1)
  <1> DEFINE n == Len(text)
             S == [result : 0..(ULONG - 1), position_power : Nat]
             first == [result |-> 0, position_power |-> 1]
             next(p, i) ==
                 [result |-> (p.result + DigitOf(text[n - i + 1]) * p.position_power) % ULONG,
                  position_power |-> (p.position_power * base) % ULONG]
             F(f) == [i \in 0..n |-> IF i = 0 THEN first ELSE next(f[i - 1], i)]
             loop == CHOOSE f : f = F(f)
             step == [p \in Nat \X S |-> IF p[1] \in 1..n THEN next(p[2], p[1]) ELSE p[2]]
             prev == [i \in Nat \ {0} |-> i - 1]
             base0 == [i \in {0} |-> first]
  <1>1. Value(base, text) = loop[n].result
    BY DEF Value
  <1>2. n \in Nat /\ ULONG \in Nat \ {0} /\ first \in S
    BY WidthAssumption
  <1>3. ASSUME NEW p \in S, NEW i \in 1..n
        PROVE  next(p, i) \in S
    <2>1. n - i + 1 \in 1..n
      BY <1>2
    <2>2. text[n - i + 1] \in Hexits
      BY <2>1
    <2>3. DigitOf(text[n - i + 1]) \in Nat /\ p.result \in Nat /\ p.position_power \in Nat
      BY <2>2, HexitsFacts
    <2>4. \A a, b, c \in Nat : (a + b * c) % ULONG \in 0..(ULONG - 1) /\ (b * c) % ULONG \in Nat
      BY <1>2
    <2> QED BY <2>3, <2>4
  <1> HIDE DEF next, first
  <1>4. step \in [Nat \X S -> S]
    <2>1. \A p \in Nat \X S : p[1] \in Nat /\ p[2] \in S
      OBVIOUS
    <2> HIDE DEF S, n
    <2> QED BY <1>3, <2>1
  <1>5. /\ base0 \in [{0} -> S] /\ prev \in [Nat \ {0} -> Nat]
        /\ \A i \in Nat \ {0} : prev[i] < i
    BY <1>2
  <1>6. PICK f \in [Nat -> S] :
            \A i \in Nat : f[i] = IF i \in {0} THEN base0[i] ELSE step[<<i, f[prev[i]]>>]
    <2> HIDE DEF S, base0, prev, step
    <2>1. WellFounded(S, {0}, base0, prev, step)
      BY <1>4, <1>5 DEF WellFounded
    <2>2. PICK s \in [Nat -> S] : \A k \in Nat : Solves(s, k, {0}, base0, prev, step)
      BY <2>1, Recursion
    <2>3. \A i \in Nat : s[i] = IF i \in {0} THEN base0[i] ELSE step[<<i, s[prev[i]]>>]
      BY <2>2 DEF Solves
    <2> QED BY <2>3
  <1> DEFINE g == [i \in 0..n |-> f[i]]
  <1>7. g = F(g)
    <2>1. ASSUME NEW i \in 0..n PROVE g[i] = F(g)[i]
      <3>1. CASE i = 0
        BY <1>6, <3>1
      <3>2. CASE i # 0
        <4>1. i \in Nat \ {0} /\ i \in 1..n /\ i - 1 \in 0..n
          BY <1>2, <3>2
        <4>2. f[i] = step[<<i, f[i - 1]>>] /\ f[i - 1] \in S
          <5>1. prev[i] = i - 1 /\ i - 1 \in Nat
            BY <4>1
          <5> HIDE DEF S, step, prev
          <5> QED BY <1>6, <4>1, <5>1
        <4>3. step[<<i, f[i - 1]>>] = next(f[i - 1], i)
          <5> HIDE DEF S, n
          <5> QED BY <4>1, <4>2
        <4> QED BY <3>2, <4>1, <4>2, <4>3
      <3> QED BY <3>1, <3>2
    <2> QED BY <2>1
  <1>8. loop = F(loop)
    <2> HIDE DEF g, F
    <2> QED BY <1>7
  <1> HIDE DEF loop
  <1> DEFINE A == {i \in Nat : i <= n => loop[i] \in S}
  <1>9. ASSUME NEW i \in Nat, \A m \in 0..(i - 1) : m \in A
        PROVE  i \in A
    <2> HIDE DEF S
    <2> SUFFICES ASSUME i <= n PROVE loop[i] \in S
      OBVIOUS
    <2>1. CASE i = 0
      BY <1>2, <1>8, <2>1
    <2>2. CASE i # 0
      <3>1. i \in 1..n /\ i - 1 \in 0..(i - 1) /\ i - 1 <= n
        BY <1>2, <2>2
      <3>2. loop[i - 1] \in S
        BY <1>9, <3>1
      <3>3. loop[i] = next(loop[i - 1], i)
        BY <1>8, <2>2, <3>1
      <3> QED BY <1>3, <3>1, <3>2, <3>3
    <2> QED BY <2>1, <2>2
  <1> HIDE DEF A
  <1>10. Nat \subseteq A
    BY <1>9, SetInduction
  <1>11. loop[n] \in S
    BY <1>2, <1>10 DEF A
  <1> QED BY <1>1, <1>11

\* What convert_to_base_10 prints fits the lexeme it is put into.
LEMMA ToBase10Fits ==
    ASSUME NEW base \in Nat, NEW text \in Seq(Hexits)
    PROVE  /\ to_base_10(base, text) \in Seq(Digits \cup {"-"})
           /\ Len(to_base_10(base, text)) < MAX_LEXEME_LENGTH
  <1> DEFINE v == Value(base, text)
             h == ULONG - ULONG \div 2
             k == IF v < ULONG \div 2 THEN v ELSE ULONG - v
  <1>1. v \in 0..(ULONG - 1) /\ ULONG \in Nat \ {0}
    BY ValueIsWord, WidthAssumption
  <1>2. to_base_10(base, text) = IF v < ULONG \div 2 THEN numeral[k] ELSE <<"-">> \o numeral[k]
    BY DEF to_base_10
  <1> HIDE DEF v
  <1>3. k \in Nat /\ h \in Nat /\ k <= h
    BY <1>1
  <1> HIDE DEF k, h
  <1>4. /\ numeral[k] \in Seq(Digits)
        /\ Len(numeral[k]) <= Len(numeral[h]) /\ Len(numeral[h]) < MAX_LEXEME_LENGTH - 1
        /\ Len(numeral[h]) \in Nat /\ MAX_LEXEME_LENGTH \in Nat
    <2>1. numeral[k] \in Seq(Digits) /\ numeral[h] \in Seq(Digits)
      BY <1>3, NumeralDefined
    <2>2. Len(numeral[k]) <= Len(numeral[h])
      BY <1>3, NumeralMonotonic
    <2>3. Len(numeral[h]) < MAX_LEXEME_LENGTH - 1 /\ MAX_LEXEME_LENGTH \in Nat
      BY NumeralsFit DEF h
    <2> QED BY <2>1, <2>2, <2>3
  <1> DEFINE T == Digits \cup {"-"}
  <1>5. numeral[k] \in Seq(T) /\ <<"-">> \in Seq(T) /\ Len(<<"-">>) = 1 /\ Len(numeral[k]) \in Nat
    <2>1. Digits \subseteq T /\ "-" \in T
      OBVIOUS
    <2> HIDE DEF T
    <2>2. numeral[k] \in Seq(T)
      BY <1>4, <2>1, SeqMonotonic
    <2> QED BY <2>1, <2>2
  <1>6. <<"-">> \o numeral[k] \in Seq(T) /\ Len(<<"-">> \o numeral[k]) = 1 + Len(numeral[k])
    <2> HIDE DEF T
    <2> QED BY <1>5, ConcatProperties
  <1> HIDE DEF T
  <1>7. to_base_10(base, text) \in Seq(T) /\ Len(to_base_10(base, text)) < MAX_LEXEME_LENGTH
    BY <1>2, <1>4, <1>5, <1>6
  <1> QED BY <1>7 DEF T

-----------------------------------------------------------------------------
(* The inductive invariant *)

TokenTypes ==
    {"NONE", "END", "NEWLINE", "PUNCTUATOR", "DIRECTIVE", "HEADER_NAME", "IDENTIFIER",
     "KEYWORD", "STRING_LITERAL", "CONST_CHAR", "CONST_WIDE_CHAR", "CONST_INTEGER",
     "CONST_UNSIGNED_INT", "CONST_LONG", "CONST_UNSIGNED_LONG", "CONST_FLOAT",
     "CONST_DOUBLE", "CONST_LONG_DOUBLE"}

LexemeCharacters ==
    Characters \cup Digits \cup {EOF, ".", "E", "P", "+", "-", "^", "=", "\n"}
        \cup {"\\" \o c : c \in Characters \cup {EOF}}

AnyToken == [type : TokenTypes, text : Seq(LexemeCharacters), line : Int, blank : BOOLEAN]
Inserted == {t \in AnyToken : t.line \in Nat \ {0}}
Cursors  == [pos : Nat, line : Nat \ {0}, escaped : BOOLEAN]

InText(cur) == cur \in Cursors /\ cur.pos <= Len(Text)

Building == Lexemes \cup Parts \cup SuffixModes
Modes    == Building \cup {"scan", "line comment", "block comment", "aborted"}

\* A token that is being built, at its mode m: it has a line, and the text of an
\* octal or a hexadecimal constant is one that convert_to_base_10 can read.
Partial(t, m) ==
    /\ t \in AnyToken
    /\ Len(t.text) < MAX_LEXEME_LENGTH
    /\ m \in Building => t.line \in Nat \ {0}
    /\ m \in {"hex", "octal"} => t.text \in Seq(Hexits)

Stack ==
    /\ files \in Seq(Seq(Characters))
    /\ headers \in Seq(Seq(Characters))
    /\ cursor \in Cursors
    /\ files # <<>> => cursor.pos <= Len(Text)
    /\ files = <<>> => cursor.pos = 0 /\ mode = "scan"

IInv ==
    /\ Stack
    /\ mode \in Modes
    /\ Partial(new_token, mode)
    /\ tokens \in Seq(Inserted)
    /\ in_define \in BOOLEAN /\ in_include \in BOOLEAN

-----------------------------------------------------------------------------
(* The cursor stays in the text *)

LEMMA TextFacts ==
    ASSUME Stack, files # <<>>
    PROVE  Text \in Seq(Characters) /\ Len(Text) \in Nat /\ InText(cursor)
  <1>1. files \in Seq(Seq(Characters)) /\ Len(files) \in 1..Len(files)
    BY EmptySeq DEF Stack
  <1>2. Text \in Seq(Characters)
    BY <1>1, ElementOfSeq DEF Text
  <1>3. Len(Text) \in Nat
    BY <1>2
  <1> QED BY <1>2, <1>3 DEF Stack, InText

LEMMA PeekFacts ==
    ASSUME Stack, files # <<>>, NEW cur, InText(cur)
    PROVE  /\ Peek(cur) \in Characters \cup {EOF}
           /\ Peek(cur) # EOF => cur.pos < Len(Text)
  <1>1. Text \in Seq(Characters) /\ Len(Text) \in Nat /\ cur.pos \in Nat /\ cur.pos <= Len(Text)
    BY TextFacts DEF InText, Cursors
  <1>2. cur.pos # Len(Text) => cur.pos + 1 \in 1..Len(Text)
    BY <1>1
  <1>3. cur.pos # Len(Text) => Text[cur.pos + 1] \in Characters
    BY <1>1, <1>2, ElementOfSeq
  <1> QED BY <1>1, <1>3 DEF Peek

LEMMA PeekAheadFacts ==
    ASSUME Stack, files # <<>>, NEW cur, InText(cur), NEW n \in Nat \ {0}
    PROVE  /\ PeekAhead(cur, n) \in Characters \cup {EOF}
           /\ PeekAhead(cur, n) # EOF => cur.pos + n <= Len(Text)
  <1>1. Text \in Seq(Characters) /\ Len(Text) \in Nat /\ cur.pos \in Nat
    BY TextFacts DEF InText, Cursors
  <1>2. ~(cur.pos + n > Len(Text)) => cur.pos + n \in 1..Len(Text)
    BY <1>1
  <1>3. ~(cur.pos + n > Len(Text)) => Text[cur.pos + n] \in Characters
    BY <1>1, <1>2, ElementOfSeq
  <1> QED BY <1>1, <1>3 DEF PeekAhead

LEMMA ConsumeFacts ==
    ASSUME Stack, files # <<>>, NEW cur, InText(cur)
    PROVE  /\ InText(Consume(cur))
           /\ Peek(cur) \notin {"\\", EOF} => ~Consume(cur).escaped
  <1>1. /\ cur \in Cursors /\ cur.pos <= Len(Text) /\ Len(Text) \in Nat
        /\ cur.pos \in Nat /\ cur.line \in Nat \ {0}
    BY TextFacts DEF InText, Cursors
  <1>2. CASE cur.pos = Len(Text)
    BY <1>1, <1>2 DEF Consume, InText, Peek
  <1>3. CASE cur.pos # Len(Text)
    <2> DEFINE more == IF Peek(cur) = "\n" THEN 1 ELSE 0
               esc  == ~cur.escaped /\ Peek(cur) = "\\"
    <2>1. Consume(cur) = [pos |-> cur.pos + 1, line |-> cur.line + more, escaped |-> esc]
      BY <1>3 DEF Consume
    <2>2. esc \in BOOLEAN
      BY Zenon
    <2>3. cur.pos + 1 \in Nat /\ cur.line + more \in Nat \ {0} /\ cur.pos + 1 <= Len(Text)
      BY <1>1, <1>3
    <2>4. Peek(cur) # "\\" => esc = FALSE
      BY Zenon
    <2> HIDE DEF esc, more
    <2>5. Consume(cur) \in Cursors /\ Consume(cur).pos = cur.pos + 1 /\ Consume(cur).escaped = esc
      BY <2>1, <2>2, <2>3 DEF Cursors
    <2> QED BY <2>3, <2>4, <2>5 DEF InText
  <1> QED BY <1>2, <1>3

LEMMA ConsumeIfKeeps ==
    ASSUME Stack, files # <<>>, NEW cur, InText(cur), NEW c
    PROVE  InText(ConsumeIf(cur, c))
  BY ConsumeFacts DEF ConsumeIf

LEMMA SkipBlanksKeeps ==
    ASSUME Stack, files # <<>>, NEW cur, InText(cur)
    PROVE  InText(SkipBlanks(cur))
  <1> DEFINE S == {i \in (cur.pos + 1)..(Len(Text) + 1) :
                      i > Len(Text) \/ Text[i] \notin Blanks}
             stop == Min(S)
             esc == cur.escaped /\ stop = cur.pos + 1
  <1>1. /\ cur \in Cursors /\ cur.pos <= Len(Text) /\ Len(Text) \in Nat
        /\ cur.pos \in Nat
    BY TextFacts DEF InText, Cursors
  <1>2. S \subseteq Nat /\ Len(Text) + 1 \in S
    BY <1>1
  <1>3. stop \in S
    <2> HIDE DEF S
    <2> QED BY <1>2, MinOfNaturals
  <1>4. stop - 1 \in Nat /\ stop - 1 <= Len(Text)
    <2> HIDE DEF stop
    <2> QED BY <1>1, <1>3
  <1>5. SkipBlanks(cur) = [cur EXCEPT !.pos = stop - 1, !.escaped = esc]
    BY DEF SkipBlanks
  <1>6. esc \in BOOLEAN
    BY Zenon
  <1> HIDE DEF stop, esc
  <1>7. SkipBlanks(cur) \in Cursors /\ SkipBlanks(cur).pos = stop - 1
    BY <1>1, <1>4, <1>5, <1>6 DEF Cursors
  <1> QED BY <1>4, <1>7 DEF InText

\* A step over n characters that were seen.
LEMMA AdvanceKeeps ==
    ASSUME Stack, files # <<>>, NEW n \in Nat, cursor.pos + n <= Len(Text)
    PROVE  /\ InText([cursor EXCEPT !.pos = @ + n, !.escaped = FALSE])
           /\ InText([cursor EXCEPT !.pos = @ + n])
  <1>1. cursor \in Cursors /\ cursor.pos + n \in Nat
    BY DEF Stack, Cursors
  <1>2. FALSE \in BOOLEAN
    BY Zenon
  <1>3. /\ [cursor EXCEPT !.pos = @ + n, !.escaped = FALSE] \in Cursors
        /\ [cursor EXCEPT !.pos = @ + n] \in Cursors
    BY <1>1, <1>2 DEF Cursors
  <1>4. /\ [cursor EXCEPT !.pos = @ + n, !.escaped = FALSE].pos = cursor.pos + n
        /\ [cursor EXCEPT !.pos = @ + n].pos = cursor.pos + n
    BY <1>1 DEF Cursors
  <1> QED BY <1>3, <1>4 DEF InText

-----------------------------------------------------------------------------
(* The steps that complete a token, and those that go on with one *)

Frame ==
    /\ files # <<>> /\ files' = files /\ headers' = headers
    /\ in_define' \in BOOLEAN /\ in_include' \in BOOLEAN

LEMMA StackKeeps ==
    ASSUME IInv, Frame, InText(cursor')
    PROVE  Stack'
  <1>1. Text' = Text
    BY DEF Frame, Text
  <1>2. cursor' \in Cursors /\ cursor'.pos <= Len(Text)
    BY DEF InText
  <1> QED BY <1>1, <1>2 DEF Frame, IInv, Stack

LEMMA LexemeBound == MAX_LEXEME_LENGTH \in Nat /\ MAX_LEXEME_LENGTH > 2
  <1> DEFINE h == ULONG - ULONG \div 2
  <1>1. h \in Nat
    BY WidthAssumption
  <1> HIDE DEF h
  <1>2. Len(numeral[h]) \in Nat \ {0}
    <2>1. numeral[h] = <<HEXITS[h + 1]>> \/ numeral[h] = Append(numeral[h \div 10], HEXITS[(h % 10) + 1])
      BY <1>1, NumeralDefined
    <2>2. numeral[h] \in Seq(Digits) /\ numeral[0] \in Seq(Digits)
      BY <1>1, NumeralDefined
    <2>3. numeral[0] = <<HEXITS[0 + 1]>>
      BY NumeralDefined
    <2>4. Len(numeral[0]) <= Len(numeral[h])
      BY <1>1, NumeralMonotonic
    <2>5. Len(numeral[0]) = 1
      BY <2>3
    <2> QED BY <2>2, <2>4, <2>5
  <1>3. MAX_LEXEME_LENGTH \in Nat /\ Len(numeral[h]) < MAX_LEXEME_LENGTH - 1
    BY NumeralsFit DEF h
  <1> QED BY <1>2, <1>3

LEMMA NoTokenFacts ==
    /\ NoToken \in AnyToken
    /\ Partial(NoToken, "scan")
  <1>1. FALSE \in BOOLEAN
    BY Zenon
  <1>2. <<>> \in Seq(LexemeCharacters) /\ "NONE" \in TokenTypes /\ -1 \in Int
    BY EmptySeq DEF TokenTypes
  <1>3. NoToken \in AnyToken /\ NoToken.text = <<>>
    BY <1>1, <1>2 DEF NoToken, AnyToken
  <1>4. Len(NoToken.text) < MAX_LEXEME_LENGTH
    BY <1>3, LexemeBound
  <1> QED BY <1>3, <1>4 DEF Partial, Building, Lexemes, Parts, SuffixModes

LEMMA EmitKeeps ==
    ASSUME IInv, Frame, InText(cursor'), NEW t \in Inserted, Emit(t)
    PROVE  IInv'
  <1>1. tokens' \in Seq(Inserted)
    BY AppendProperties DEF Emit, IInv
  <1>2. new_token' = NoToken /\ mode' = "scan"
    BY DEF Emit
  <1>3. Partial(new_token', mode') /\ mode' \in Modes
    BY <1>2, NoTokenFacts DEF Modes
  <1>4. Stack'
    BY StackKeeps
  <1>5. in_define' \in BOOLEAN /\ in_include' \in BOOLEAN
    BY Zenon DEF Frame
  <1> QED BY <1>1, <1>3, <1>4, <1>5 DEF IInv, Partial, Inserted, AnyToken

LEMMA ContinueKeeps ==
    ASSUME IInv, Frame, InText(cursor'), NEW m \in Modes, NEW t, Partial(t, m),
           mode' = m, new_token' = t, tokens' = tokens
    PROVE  IInv'
  <1>1. Stack'
    BY StackKeeps
  <1>2. in_define' \in BOOLEAN /\ in_include' \in BOOLEAN
    BY Zenon DEF Frame
  <1>3. tokens \in Seq(Inserted)
    BY DEF IInv
  <1>4. Partial(new_token', mode')
    OBVIOUS
  <1> QED BY <1>1, <1>2, <1>3, <1>4 DEF IInv, Partial

LEMMA TokenFacts ==
    ASSUME IInv, NEW type \in TokenTypes, NEW text \in Seq(LexemeCharacters),
           NEW n \in Int
    PROVE  /\ Token(type, text, n) \in AnyToken
           /\ Token(type, text, n).text = text
           /\ Token(type, text, n).line = n
  <1>1. new_token.blank \in BOOLEAN
    BY DEF IInv, Partial, AnyToken
  <1> QED BY <1>1 DEF Token, AnyToken

LEMMA FrameFacts ==
    ASSUME IInv, files # <<>>, UNCHANGED <<files, headers, in_define, in_include>>
    PROVE  Frame
  BY Zenon DEF IInv, Frame

LEMMA ScanningFacts ==
    ASSUME IInv, NEW chars, Scanning(chars)
    PROVE  /\ Stack /\ files # <<>> /\ mode = "scan" /\ InText(cursor)
           /\ cursor.line \in Nat \ {0} /\ cursor.pos \in Nat
           /\ Len(Text) \in Nat
           /\ EOF \notin chars => cursor.pos + 1 <= Len(Text)
  <1>1. Stack /\ files # <<>> /\ mode = "scan" /\ Peek(cursor) \in chars
    BY DEF IInv, Scanning
  <1>2. InText(cursor) /\ Len(Text) \in Nat
    BY <1>1, TextFacts
  <1>3. cursor.line \in Nat \ {0} /\ cursor.pos \in Nat
    BY <1>2 DEF InText, Cursors
  <1>4. Peek(cursor) # EOF => cursor.pos < Len(Text)
    BY <1>1, <1>2, PeekFacts
  <1> QED BY <1>1, <1>2, <1>3, <1>4

\* What is in the text is in a lexeme.
LEMMA LexemeCharacterFacts ==
    /\ Characters \subseteq LexemeCharacters /\ Digits \subseteq LexemeCharacters
    /\ {EOF, ".", "E", "P", "+", "-", "^", "=", "\n"} \subseteq LexemeCharacters
    /\ \A c \in Characters \cup {EOF} : "\\" \o c \in LexemeCharacters
  BY DEF LexemeCharacters

LEMMA OneCharacter ==
    ASSUME NEW c \in LexemeCharacters
    PROVE  <<c>> \in Seq(LexemeCharacters) /\ Len(<<c>>) = 1
  OBVIOUS

-----------------------------------------------------------------------------
(* scan_token *)

LEMMA FollowersFacts ==
    /\ EOF \notin Alone \cup DOMAIN Followers
    /\ \A c \in DOMAIN Followers : EOF \notin Followers[c]
  <1>1. DOMAIN Followers =
            {"-", "&", "*", "+", "!", "/", "%", "<", ">", "^", "|", "=", "#"}
    BY DEF Followers
  <1>2. EOF \notin Alone \cup DOMAIN Followers
    BY <1>1 DEF EOF, Alone
  <1>3. ASSUME NEW c \in DOMAIN Followers PROVE EOF \notin Followers[c]
    <2>1. Followers[c] \subseteq {">", "-", "=", "#", "&", "+", "<", "|"}
      BY <1>1 DEF Followers
    <2> QED BY <2>1 DEF EOF
  <1> QED BY <1>2, <1>3

LEMMA PunctuatorLengthFacts ==
    ASSUME IInv, Scanning(Alone \cup DOMAIN Followers)
    PROVE  PunctuatorLength \in 1..3 /\ cursor.pos + PunctuatorLength <= Len(Text)
  <1>1. /\ Stack /\ files # <<>> /\ InText(cursor) /\ cursor.pos \in Nat /\ Len(Text) \in Nat
        /\ cursor.pos + 1 <= Len(Text)
    BY ScanningFacts, FollowersFacts
  <1>2. Next1 # EOF => cursor.pos + 2 <= Len(Text)
    BY <1>1, PeekAheadFacts DEF Next1
  <1>3. Next2 # EOF => cursor.pos + 3 <= Len(Text)
    BY <1>1, PeekAheadFacts DEF Next2
  <1>4. CASE Peek(cursor) \in Alone \/ Next1 \notin Followers[Peek(cursor)]
    BY <1>1, <1>4 DEF PunctuatorLength
  <1>5. CASE ~(Peek(cursor) \in Alone \/ Next1 \notin Followers[Peek(cursor)])
    <2>1. Next1 # EOF
      BY <1>5, FollowersFacts DEF Scanning
    <2>2. Long => Next2 # EOF
      BY DEF Long, EOF
    <2> QED BY <1>1, <1>2, <1>3, <1>5, <2>1, <2>2 DEF PunctuatorLength
  <1> QED BY <1>4, <1>5

\* The characters of the text from one position on.
LEMMA SliceFacts ==
    ASSUME Stack, files # <<>>, NEW i \in Nat, NEW n \in Nat, i + n <= Len(Text)
    PROVE  SubSeq(Text, i + 1, i + n) \in Seq(LexemeCharacters)
  <1>1. Text \in Seq(Characters) /\ Len(Text) \in Nat
    BY TextFacts
  <1>2. \A j \in (i + 1)..(i + n) : j \in 1..Len(Text)
    BY <1>1
  <1>3. \A j \in (i + 1)..(i + n) : Text[j] \in LexemeCharacters
    BY <1>1, <1>2, LexemeCharacterFacts, ElementOfSeq
  <1> QED BY <1>3, SubSeqProperties

LEMMA ScanPunctuatorKeeps ==
    ASSUME IInv, ScanPunctuator
    PROVE  IInv'
  <1> DEFINE n == PunctuatorLength
             text == SubSeq(Text, cursor.pos + 1, cursor.pos + n)
             t == Token("PUNCTUATOR", Spelling(text), cursor.line)
  <1>1. /\ Scanning(Alone \cup DOMAIN Followers) /\ Emit(t)
        /\ cursor' = [cursor EXCEPT !.pos = @ + n, !.escaped = FALSE]
        /\ UNCHANGED <<files, headers, in_define, in_include>>
    BY DEF ScanPunctuator
  <1>2. n \in Nat /\ cursor.pos + n <= Len(Text)
    BY <1>1, PunctuatorLengthFacts
  <1> HIDE DEF n
  <1>3. /\ Stack /\ files # <<>> /\ cursor.line \in Nat \ {0} /\ cursor.pos \in Nat
    BY <1>1, ScanningFacts
  <1>4. text \in Seq(LexemeCharacters)
    BY <1>2, <1>3, SliceFacts
  <1>5. Spelling(text) \in Seq(LexemeCharacters)
    <2>1. "^" \in LexemeCharacters /\ "=" \in LexemeCharacters
      BY LexemeCharacterFacts
    <2>2. <<"^", "=">> \in Seq(LexemeCharacters)
      BY <2>1
    <2> HIDE DEF text
    <2> QED BY <1>4, <2>2 DEF Spelling
  <1> HIDE DEF text
  <1>6. t \in Inserted
    <2>1. "PUNCTUATOR" \in TokenTypes
      BY DEF TokenTypes
    <2> QED BY <1>3, <1>5, <2>1, TokenFacts DEF Inserted
  <1> HIDE DEF t
  <1>7. InText([cursor EXCEPT !.pos = @ + n, !.escaped = FALSE])
    BY <1>2, <1>3, AdvanceKeeps
  <1>8. InText(cursor')
    BY <1>1, <1>7, <1>3 DEF InText, Text
  <1>9. Frame
    BY <1>1, <1>3, FrameFacts
  <1> QED BY <1>1, <1>6, <1>8, <1>9, EmitKeeps

LEMMA BusyFacts ==
    ASSUME IInv, mode # "scan"
    PROVE  /\ Stack /\ files # <<>> /\ InText(cursor)
           /\ cursor.line \in Nat \ {0} /\ cursor.pos \in Nat /\ Len(Text) \in Nat
  <1>1. Stack /\ files # <<>>
    BY DEF IInv, Stack
  <1>2. InText(cursor) /\ Len(Text) \in Nat
    BY <1>1, TextFacts
  <1> QED BY <1>1, <1>2 DEF InText, Cursors

\* A step that changes the cursor alone.
LEMMA CursorMoves ==
    ASSUME IInv, files # <<>>, InText(cursor'),
           UNCHANGED <<files, headers, mode, new_token, in_define, in_include, tokens>>
    PROVE  IInv'
  <1>1. Frame
    BY FrameFacts
  <1>2. Partial(new_token, mode) /\ mode \in Modes
    BY DEF IInv
  <1> QED BY <1>1, <1>2, ContinueKeeps

LEMMA ScanDotKeeps ==
    ASSUME IInv, ScanDot
    PROVE  IInv'
  <1> DEFINE n == IF Next1 # "." THEN 1 ELSE IF Next2 # "." THEN 2 ELSE 3
             text == [i \in 1..n |-> "."]
             t == Token("PUNCTUATOR", text, cursor.line)
  <1>1. /\ Scanning({"."})
        /\ IF n = 2 THEN UNCHANGED <<tokens, mode, new_token>> ELSE Emit(t)
        /\ cursor' = [cursor EXCEPT !.pos = @ + n, !.escaped = FALSE]
        /\ UNCHANGED <<files, headers, in_define, in_include>>
    BY DEF ScanDot
  <1>2. /\ Stack /\ files # <<>> /\ cursor.line \in Nat \ {0} /\ cursor.pos \in Nat
        /\ InText(cursor) /\ Len(Text) \in Nat /\ cursor.pos + 1 <= Len(Text)
    <2>1. EOF \notin {"."}
      BY DEF EOF
    <2> QED BY <1>1, <2>1, ScanningFacts
  <1>3. n \in 1..3 /\ cursor.pos + n <= Len(Text)
    <2>1. Next1 # EOF => cursor.pos + 2 <= Len(Text)
      BY <1>2, PeekAheadFacts DEF Next1
    <2>2. Next2 # EOF => cursor.pos + 3 <= Len(Text)
      BY <1>2, PeekAheadFacts DEF Next2
    <2> QED BY <1>2, <2>1, <2>2 DEF EOF
  <1> HIDE DEF n
  <1>4. text \in Seq(LexemeCharacters)
    <2>1. "." \in LexemeCharacters /\ n \in Nat
      BY <1>3, LexemeCharacterFacts
    <2> QED BY <2>1
  <1> HIDE DEF text
  <1>5. t \in Inserted
    <2>1. "PUNCTUATOR" \in TokenTypes
      BY DEF TokenTypes
    <2> QED BY <1>2, <1>4, <2>1, TokenFacts DEF Inserted
  <1> HIDE DEF t
  <1>6. InText([cursor EXCEPT !.pos = @ + n, !.escaped = FALSE])
    <2>1. n \in Nat /\ cursor.pos + n <= Len(Text)
      BY <1>3
    <2> QED BY <1>2, <2>1, AdvanceKeeps
  <1>7. InText(cursor')
    BY <1>1, <1>6 DEF InText
  <1>8. Frame
    BY <1>1, <1>2, FrameFacts
  <1>9. CASE n = 2
    BY <1>1, <1>2, <1>7, <1>9, CursorMoves
  <1>10. CASE n # 2
    BY <1>1, <1>5, <1>7, <1>8, <1>10, EmitKeeps
  <1> QED BY <1>9, <1>10

\* The NEWLINE token, which ends a #define.
LEMMA NewlineKeeps ==
    ASSUME IInv, files # <<>>, Newline(cursor.line), InText(cursor'),
           UNCHANGED <<files, headers, in_include>>
    PROVE  IInv'
  <1>1. cursor.line \in Nat \ {0}
    BY DEF IInv, Stack, Cursors
  <1>2. Token("NEWLINE", <<"\n">>, cursor.line) \in Inserted
    <2> DEFINE text == <<"\n">>
    <2>1. "NEWLINE" \in TokenTypes
      BY DEF TokenTypes
    <2>2. text \in Seq(LexemeCharacters)
      BY LexemeCharacterFacts, OneCharacter
    <2> HIDE DEF text
    <2>3. Token("NEWLINE", text, cursor.line) \in Inserted
      BY <1>1, <2>1, <2>2, TokenFacts DEF Inserted
    <2> QED BY <2>3 DEF text
  <1>3. Frame
    BY Zenon DEF Newline, IInv, Frame
  <1>4. Emit(Token("NEWLINE", <<"\n">>, cursor.line))
    BY DEF Newline
  <1> QED BY <1>2, <1>3, <1>4, EmitKeeps

LEMMA ScanNewlineKeeps ==
    ASSUME IInv, ScanNewline
    PROVE  IInv'
  <1>1. /\ Scanning({"\n"}) /\ cursor' = Consume(cursor) /\ Newline(cursor.line)
        /\ UNCHANGED <<files, headers, in_include>>
    BY DEF ScanNewline
  <1>2. Stack /\ files # <<>> /\ InText(cursor)
    BY <1>1, ScanningFacts
  <1>3. InText(Consume(cursor))
    BY <1>2, ConsumeFacts
  <1>4. InText(cursor')
    BY <1>1, <1>3 DEF InText
  <1> QED BY <1>1, <1>2, <1>4, NewlineKeeps

LEMMA ScanBlanksKeeps ==
    ASSUME IInv, ScanBlanks
    PROVE  IInv'
  <1> DEFINE t == [new_token EXCEPT !.blank = TRUE]
  <1>1. /\ Scanning(Blanks) /\ cursor' = SkipBlanks(cursor)
        /\ mode' = "scan" /\ new_token' = t /\ tokens' = tokens
        /\ UNCHANGED <<files, headers, in_define, in_include>>
    BY DEF ScanBlanks, Continue
  <1>2. Stack /\ files # <<>> /\ InText(cursor)
    BY <1>1, ScanningFacts
  <1>3. InText(SkipBlanks(cursor))
    BY <1>2, SkipBlanksKeeps
  <1>4. InText(cursor')
    BY <1>1, <1>3 DEF InText
  <1>5. Partial(t, "scan")
    <2>1. TRUE \in BOOLEAN
      BY Zenon
    <2>2. new_token \in AnyToken /\ Len(new_token.text) < MAX_LEXEME_LENGTH
      BY DEF IInv, Partial
    <2>3. t \in AnyToken /\ t.text = new_token.text
      BY <2>1, <2>2 DEF AnyToken
    <2> HIDE DEF t
    <2> QED BY <2>2, <2>3 DEF Partial, Building, Lexemes, Parts, SuffixModes
  <1> HIDE DEF t
  <1>6. "scan" \in Modes
    BY DEF Modes
  <1>7. Frame
    BY <1>1, <1>2, FrameFacts
  <1> QED BY <1>1, <1>4, <1>5, <1>6, <1>7, ContinueKeeps

LEMMA ScanBackslashKeeps ==
    ASSUME IInv, ScanBackslash
    PROVE  IInv'
  <1> DEFINE next == ConsumeIf(ConsumeIf(Consume(cursor), "\r"), "\n")
  <1>1. /\ Scanning({"\\"}) /\ cursor' = next
        /\ UNCHANGED <<files, headers, mode, new_token, in_define, in_include, tokens>>
    BY DEF ScanBackslash
  <1>2. Stack /\ files # <<>> /\ InText(cursor)
    BY <1>1, ScanningFacts
  <1>3. InText(Consume(cursor))
    BY <1>2, ConsumeFacts
  <1>4. InText(ConsumeIf(Consume(cursor), "\r"))
    BY <1>2, <1>3, ConsumeIfKeeps
  <1>5. InText(next)
    BY <1>2, <1>4, ConsumeIfKeeps
  <1>6. InText(cursor')
    BY <1>1, <1>5 DEF InText
  <1> QED BY <1>1, <1>2, <1>6, CursorMoves

LEMMA ScanUnknownKeeps ==
    ASSUME IInv, ScanUnknown
    PROVE  IInv'
  <1>1. /\ files # <<>> /\ cursor' = Consume(cursor) /\ Stack
        /\ UNCHANGED <<files, headers, mode, new_token, in_define, in_include, tokens>>
    BY DEF ScanUnknown, IInv
  <1>2. InText(cursor)
    BY <1>1, TextFacts
  <1>3. InText(Consume(cursor))
    BY <1>1, <1>2, ConsumeFacts
  <1>4. InText(cursor')
    BY <1>1, <1>3 DEF InText
  <1> QED BY <1>1, <1>4, CursorMoves

LEMMA StartCommentKeeps ==
    ASSUME IInv, StartComment
    PROVE  IInv'
  <1> DEFINE m == IF Next1 = "/" THEN "line comment" ELSE "block comment"
  <1>1. /\ Scanning({"/"}) /\ cursor' = Consume(cursor)
        /\ mode' = m /\ new_token' = new_token /\ tokens' = tokens
        /\ UNCHANGED <<files, headers, in_define, in_include>>
    BY DEF StartComment, Continue
  <1>2. Stack /\ files # <<>> /\ InText(cursor) /\ mode = "scan"
    BY <1>1, ScanningFacts
  <1>3. InText(Consume(cursor))
    BY <1>2, ConsumeFacts
  <1>4. InText(cursor')
    BY <1>1, <1>3 DEF InText
  <1>5. m \in Modes /\ m \notin Building
    BY DEF Modes, Building, Lexemes, Parts, SuffixModes
  <1>6. Partial(new_token, m)
    BY <1>5 DEF IInv, Partial, Building, Lexemes, Parts, SuffixModes
  <1> HIDE DEF m
  <1>7. Frame
    BY <1>1, <1>2, FrameFacts
  <1> QED BY <1>1, <1>4, <1>5, <1>6, <1>7, ContinueKeeps

LEMMA LineCommentKeeps ==
    ASSUME IInv, LineComment
    PROVE  IInv'
  <1>1. /\ mode = "line comment" /\ cursor' = Consume(cursor)
        /\ UNCHANGED <<files, headers, in_include>>
        /\ IF Peek(cursor) = "\n" THEN Newline(cursor.line)
           ELSE UNCHANGED <<mode, new_token, in_define, tokens>>
    BY DEF LineComment
  <1>2. Stack /\ files # <<>> /\ InText(cursor)
    BY <1>1, BusyFacts
  <1>3. InText(Consume(cursor))
    BY <1>2, ConsumeFacts
  <1>4. InText(cursor')
    BY <1>1, <1>3 DEF InText
  <1>5. CASE Peek(cursor) = "\n"
    BY <1>1, <1>2, <1>4, <1>5, NewlineKeeps
  <1>6. CASE Peek(cursor) # "\n"
    BY <1>1, <1>2, <1>4, <1>6, CursorMoves
  <1> QED BY <1>5, <1>6

LEMMA BlockCommentKeeps ==
    ASSUME IInv, BlockComment
    PROVE  IInv'
  <1> DEFINE next == Consume(cursor)
             ends == Peek(cursor) = "*" /\ Peek(next) = "/"
             m == IF ends THEN "scan" ELSE mode
  <1>1. /\ mode = "block comment" /\ mode' = m
        /\ cursor' = IF ends THEN Consume(next) ELSE next
        /\ new_token' = new_token /\ tokens' = tokens
        /\ UNCHANGED <<files, headers, in_define, in_include>>
    BY DEF BlockComment
  <1>2. Stack /\ files # <<>> /\ InText(cursor)
    BY <1>1, BusyFacts
  <1>3. InText(next)
    BY <1>2, ConsumeFacts
  <1>4. InText(Consume(next))
    BY <1>2, <1>3, ConsumeFacts
  <1>5. InText(cursor')
    <2> HIDE DEF next, ends
    <2> QED BY <1>1, <1>3, <1>4 DEF InText
  <1>6. m \in Modes /\ m \notin Building
    <2> HIDE DEF ends
    <2> QED BY <1>1 DEF Modes, Building, Lexemes, Parts, SuffixModes
  <1>7. Partial(new_token, m)
    <2> HIDE DEF m
    <2> QED BY <1>6 DEF IInv, Partial, Building, Lexemes, Parts, SuffixModes
  <1> HIDE DEF m
  <1>8. Frame
    BY <1>1, <1>2, FrameFacts
  <1> QED BY <1>1, <1>5, <1>6, <1>7, <1>8, ContinueKeeps

\* build_lexme starts with one character or none.
LEMMA StartLexemeKeeps ==
    ASSUME IInv, files # <<>>, NEW m \in Lexemes \cup Parts, NEW cur \in Cursors, InText(cur),
           NEW text \in Seq(LexemeCharacters), Len(text) <= 1,
           m \in {"hex", "octal"} => text = <<>>,
           NEW type \in TokenTypes, StartLexeme(m, cur, text, type)
    PROVE  IInv'
  <1> DEFINE t == Token(type, text, cur.line)
  <1>1. /\ cursor' = cur /\ mode' = m /\ new_token' = t /\ tokens' = tokens
        /\ UNCHANGED <<files, headers, in_define, in_include>>
    BY DEF StartLexeme, Continue
  <1>2. cur.line \in Nat \ {0}
    BY DEF Cursors
  <1>3. t \in AnyToken /\ t.text = text /\ t.line = cur.line
    BY <1>2, TokenFacts
  <1> HIDE DEF t
  <1>4. Partial(t, m)
    <2>1. Len(t.text) < MAX_LEXEME_LENGTH
      BY <1>3, LexemeBound
    <2>2. m \in {"hex", "octal"} => t.text \in Seq(Hexits)
      BY <1>3, EmptySeq
    <2> QED BY <1>2, <1>3, <2>1, <2>2 DEF Partial
  <1>5. m \in Modes
    BY DEF Modes, Building
  <1>6. InText(cursor')
    BY <1>1 DEF InText
  <1>7. Frame
    BY <1>1, FrameFacts
  <1> QED BY <1>1, <1>4, <1>5, <1>6, <1>7, ContinueKeeps

LEMMA AfterFirst ==
    ASSUME IInv, NEW chars, Scanning(chars)
    PROVE  /\ files # <<>>
           /\ InText(Consume(cursor))
           /\ InText(SkipBlanks(Consume(cursor)))
           /\ InText(Consume(Consume(cursor)))
  <1>1. Stack /\ files # <<>> /\ InText(cursor)
    BY ScanningFacts
  <1>2. InText(Consume(cursor))
    BY <1>1, ConsumeFacts
  <1> QED BY <1>1, <1>2, ConsumeFacts, SkipBlanksKeeps

LEMMA StartNameKeeps ==
    ASSUME IInv, StartName
    PROVE  IInv'
  <1> DEFINE text == <<Peek(cursor)>>
  <1>1. /\ Scanning(Letters \cup {"_"})
        /\ StartLexeme("name", Consume(cursor), text, "IDENTIFIER")
    BY DEF StartName
  <1>2. Stack /\ files # <<>> /\ InText(cursor)
    BY <1>1, ScanningFacts
  <1>3. Consume(cursor) \in Cursors /\ InText(Consume(cursor))
    BY <1>2, ConsumeFacts DEF InText
  <1>4. text \in Seq(LexemeCharacters) /\ Len(text) <= 1
    BY <1>2, PeekFacts, LexemeCharacterFacts, OneCharacter
  <1>5. "name" \in Lexemes \cup Parts /\ "IDENTIFIER" \in TokenTypes
        /\ "name" \notin {"hex", "octal"}
    BY DEF Lexemes, TokenTypes
  <1> HIDE DEF text
  <1> QED BY <1>1, <1>2, <1>3, <1>4, <1>5, StartLexemeKeeps

LEMMA StartEmptyLexeme ==
    ASSUME IInv, files # <<>>, NEW m \in Lexemes \cup Parts, NEW cur, InText(cur),
           NEW type \in TokenTypes, StartLexeme(m, cur, <<>>, type)
    PROVE  IInv'
  <1>1. cur \in Cursors
    BY DEF InText
  <1>2. <<>> \in Seq(LexemeCharacters) /\ Len(<<>>) <= 1
    BY EmptySeq
  <1> QED BY <1>1, <1>2, StartLexemeKeeps

LEMMA StartCharKeeps ==
    ASSUME IInv, StartChar
    PROVE  IInv'
  <1>1. "char" \in Lexemes \cup Parts /\ {"CONST_CHAR", "CONST_WIDE_CHAR"} \subseteq TokenTypes
    BY DEF Lexemes, TokenTypes
  <1>3. CASE Scanning({"'"}) /\ StartLexeme("char", Consume(cursor), <<>>, "CONST_CHAR")
    BY <1>1, <1>3, AfterFirst, StartEmptyLexeme
  <1>4. CASE /\ Scanning({"L"})
             /\ StartLexeme("char", Consume(Consume(cursor)), <<>>, "CONST_WIDE_CHAR")
    BY <1>1, <1>4, AfterFirst, StartEmptyLexeme
  <1> QED BY <1>3, <1>4 DEF StartChar

LEMMA StartQuoteKeeps ==
    ASSUME IInv, StartQuote
    PROVE  IInv'
  <1>1. {"q header", "string"} \subseteq Lexemes \cup Parts
        /\ {"HEADER_NAME", "STRING_LITERAL"} \subseteq TokenTypes
    BY DEF Lexemes, TokenTypes
  <1>2. Scanning({"\""})
    BY DEF StartQuote
  <1>3. CASE StartLexeme("q header", SkipBlanks(Consume(cursor)), <<>>, "HEADER_NAME")
    BY <1>1, <1>2, <1>3, AfterFirst, StartEmptyLexeme
  <1>4. CASE StartLexeme("string", Consume(cursor), <<>>, "STRING_LITERAL")
    BY <1>1, <1>2, <1>4, AfterFirst, StartEmptyLexeme
  <1> QED BY <1>3, <1>4 DEF StartQuote

LEMMA StartHHeaderKeeps ==
    ASSUME IInv, StartHHeader
    PROVE  IInv'
  <1>1. "h header" \in Lexemes \cup Parts /\ "HEADER_NAME" \in TokenTypes
    BY DEF Lexemes, TokenTypes
  <1>2. /\ Scanning({"<"})
        /\ StartLexeme("h header", SkipBlanks(Consume(cursor)), <<>>, "HEADER_NAME")
    BY DEF StartHHeader
  <1> QED BY <1>1, <1>2, AfterFirst, StartEmptyLexeme

LEMMA StartDirectiveKeeps ==
    ASSUME IInv, StartDirective
    PROVE  IInv'
  <1>1. "directive" \in Lexemes \cup Parts /\ "DIRECTIVE" \in TokenTypes
    BY DEF Lexemes, TokenTypes
  <1>2. /\ Scanning({"#"})
        /\ StartLexeme("directive", SkipBlanks(Consume(cursor)), <<>>, "DIRECTIVE")
    BY DEF StartDirective
  <1> QED BY <1>1, <1>2, AfterFirst, StartEmptyLexeme

LEMMA StartNumberKeeps ==
    ASSUME IInv, StartNumber
    PROVE  IInv'
  <1> DEFINE text == <<Peek(cursor)>>
  <1>1. {"hex", "octal", "decimal"} \subseteq Lexemes \cup Parts /\ "CONST_INTEGER" \in TokenTypes
        /\ "decimal" \notin {"hex", "octal"}
    BY DEF Parts, TokenTypes
  <1>2. Scanning(Digits)
    BY DEF StartNumber
  <1>3. Stack /\ files # <<>> /\ InText(cursor)
    BY <1>2, ScanningFacts
  <1>4. InText(Consume(cursor)) /\ InText(Consume(Consume(cursor)))
    BY <1>2, AfterFirst
  <1>5. text \in Seq(LexemeCharacters) /\ Len(text) <= 1
    BY <1>3, PeekFacts, LexemeCharacterFacts, OneCharacter
  <1>6. Consume(cursor) \in Cursors
    BY <1>4 DEF InText
  <1>7. \/ StartLexeme("hex", Consume(Consume(cursor)), <<>>, "CONST_INTEGER")
        \/ StartLexeme("octal", Consume(cursor), <<>>, "CONST_INTEGER")
        \/ StartLexeme("decimal", Consume(cursor), text, "CONST_INTEGER")
    BY DEF StartNumber
  <1> HIDE DEF text
  <1>8. CASE StartLexeme("hex", Consume(Consume(cursor)), <<>>, "CONST_INTEGER")
    BY <1>1, <1>3, <1>4, <1>8, StartEmptyLexeme
  <1>9. CASE StartLexeme("octal", Consume(cursor), <<>>, "CONST_INTEGER")
    BY <1>1, <1>3, <1>4, <1>9, StartEmptyLexeme
  <1>10. CASE StartLexeme("decimal", Consume(cursor), text, "CONST_INTEGER")
    BY <1>1, <1>3, <1>4, <1>5, <1>6, <1>10, StartLexemeKeeps
  <1> QED BY <1>7, <1>8, <1>9, <1>10

-----------------------------------------------------------------------------
(* build_lexme *)

LEMMA GrowFacts ==
    ASSUME NEW S, NEW text \in Seq(S), Len(text) < MAX_LEXEME_LENGTH, NEW c \in S
    PROVE  Grow(text, c) \in Seq(S) /\ Len(Grow(text, c)) < MAX_LEXEME_LENGTH
  <1>1. Len(text) \in Nat /\ MAX_LEXEME_LENGTH \in Nat
    BY LexemeBound
  <1>2. Append(text, c) \in Seq(S) /\ Len(Append(text, c)) = Len(text) + 1
    BY AppendProperties
  <1> QED BY <1>1, <1>2 DEF Grow

LEMMA RoundFacts ==
    ASSUME Stack, files # <<>>, InText(cursor), 
           NEW text \in Seq(LexemeCharacters), Len(text) < MAX_LEXEME_LENGTH
    PROVE  /\ InText(Round(cursor, text).cursor)
           /\ Round(cursor, text).text \in Seq(LexemeCharacters)
           /\ Len(Round(cursor, text).text) < MAX_LEXEME_LENGTH
  <1> DEFINE c     == Peek(cursor)
             first == Consume(cursor)
             next  == ConsumeIf(first, "\r")
             after == [next EXCEPT !.escaped = FALSE]
             plain   == [cursor |-> first, text |-> Grow(text, c)]
             spliced == [cursor |-> Consume(next), text |-> text]
             numeric == [cursor |-> next, text |-> Grow(text, c)]
             escaped == [cursor |-> Consume(after), text |-> Grow(text, "\\" \o Peek(next))]
             r     == Round(cursor, text)
  <1>1. r = plain \/ r = spliced \/ r = numeric \/ r = escaped
    BY DEF Round
  <1>2. InText(first)
    BY ConsumeFacts
  <1>3. InText(next)
    BY <1>2, ConsumeIfKeeps
  <1>4. InText(after)
    <2>1. FALSE \in BOOLEAN
      BY Zenon
    <2> HIDE DEF next
    <2>2. after \in Cursors /\ after.pos = next.pos
      BY <1>3, <2>1 DEF InText, Cursors
    <2> QED BY <1>3, <2>2 DEF InText
  <1>5. InText(Consume(next)) /\ InText(Consume(after))
    <2> HIDE DEF next, after
    <2> QED BY <1>3, <1>4, ConsumeFacts
  <1>6. c \in LexemeCharacters /\ ("\\" \o Peek(next)) \in LexemeCharacters
    <2>1. Peek(next) \in Characters \cup {EOF}
      <3> HIDE DEF next
      <3> QED BY <1>3, PeekFacts
    <2> HIDE DEF next
    <2> QED BY <2>1, PeekFacts, LexemeCharacterFacts
  <1>7. /\ Grow(text, c) \in Seq(LexemeCharacters) /\ Len(Grow(text, c)) < MAX_LEXEME_LENGTH
        /\ Grow(text, "\\" \o Peek(next)) \in Seq(LexemeCharacters)
        /\ Len(Grow(text, "\\" \o Peek(next))) < MAX_LEXEME_LENGTH
    <2> HIDE DEF c, next
    <2> QED BY <1>6, GrowFacts
  <1> HIDE DEF c, first, next, after, r
  <1> QED BY <1>1, <1>2, <1>3, <1>5, <1>7 DEF r

\* The digits of an octal or a hexadecimal constant are taken as they are.
LEMMA RoundOfDigits ==
    ASSUME Stack, files # <<>>, InText(cursor), NEW text \in Seq(Hexits),
           Len(text) < MAX_LEXEME_LENGTH, NEW m \in {"hex", "octal"}, Accepts(m, cursor)
    PROVE  Round(cursor, text).text \in Seq(Hexits)
  <1>1. Peek(cursor) \in Hexits
    <2>1. CASE m = "hex"
      BY <2>1 DEF Accepts
    <2>2. CASE m = "octal"
      <3>1. Peek(cursor) \in Digits
        BY <2>2 DEF Accepts
      <3> QED BY <3>1, HexitsFacts
    <2> QED BY <2>1, <2>2
  <1>2. EOF \notin Hexits
    BY HexitsFacts DEF EOF, HEXITS, Hexits
  <1>3. ~Consume(cursor).escaped
    BY <1>1, <1>2, ConsumeFacts, HexitsFacts
  <1>4. Round(cursor, text).text = Grow(text, Peek(cursor))
    BY <1>3 DEF Round
  <1> QED BY <1>1, <1>4, GrowFacts

LEMMA BuildLexemeKeeps ==
    ASSUME IInv, BuildLexeme
    PROVE  IInv'
  <1> DEFINE r == Round(cursor, new_token.text)
             cut == mode = "suffix" /\ r.text = new_token.text
             m == IF cut THEN "cut suffix" ELSE mode
             t == [new_token EXCEPT !.text = r.text]
  <1>1. /\ mode \in Building /\ Accepts(mode, cursor)
        /\ cursor' = r.cursor /\ new_token' = t /\ mode' = m /\ tokens' = tokens
        /\ UNCHANGED <<files, headers, in_define, in_include>>
    BY DEF BuildLexeme, Building
  <1>2. mode # "scan"
    BY <1>1 DEF Building, Lexemes, Parts, SuffixModes
  <1>3. Stack /\ files # <<>> /\ InText(cursor)
    BY <1>2, BusyFacts
  <1>4. /\ new_token \in AnyToken /\ new_token.text \in Seq(LexemeCharacters)
        /\ Len(new_token.text) < MAX_LEXEME_LENGTH /\ new_token.line \in Nat \ {0}
        /\ mode \in {"hex", "octal"} => new_token.text \in Seq(Hexits)
    BY <1>1 DEF IInv, Partial, AnyToken
  <1>5. /\ InText(r.cursor) /\ r.text \in Seq(LexemeCharacters)
        /\ Len(r.text) < MAX_LEXEME_LENGTH
    BY <1>3, <1>4, RoundFacts
  <1>6. mode \in {"hex", "octal"} => r.text \in Seq(Hexits)
    BY <1>1, <1>3, <1>4, RoundOfDigits
  <1> HIDE DEF r
  <1>7. t \in AnyToken /\ t.text = r.text /\ t.line = new_token.line
    BY <1>4, <1>5 DEF AnyToken
  <1>8. m \in Modes /\ (m \in {"hex", "octal"} => m = mode)
    <2> HIDE DEF cut
    <2> QED BY <1>1 DEF Modes, Building, SuffixModes
  <1> HIDE DEF t, m
  <1>9. Partial(t, m)
    BY <1>4, <1>5, <1>6, <1>7, <1>8 DEF Partial
  <1>10. InText(cursor')
    BY <1>1, <1>5 DEF InText
  <1>11. Frame
    BY <1>1, <1>3, FrameFacts
  <1> QED BY <1>1, <1>8, <1>9, <1>10, <1>11, ContinueKeeps

LEMMA EndLexemeKeeps ==
    ASSUME IInv, EndLexeme
    PROVE  IInv'
  <1> DEFINE cur == Closed
             t == Classified
  <1>1. /\ mode \in Lexemes /\ cursor' = cur /\ Emit(t)
        /\ UNCHANGED <<files, headers>>
    BY DEF EndLexeme
  <1>2. mode # "scan" /\ mode \in Building
    BY <1>1 DEF Building, Lexemes
  <1>3. Stack /\ files # <<>> /\ InText(cursor)
    BY <1>2, BusyFacts
  <1>4. InText(cur)
    <2>1. InText(Consume(cursor))
      BY <1>3, ConsumeFacts
    <2>2. InText(Consume(SkipBlanks(cursor)))
      BY <1>3, SkipBlanksKeeps, ConsumeFacts
    <2> QED BY <1>3, <2>1, <2>2 DEF Closed
  <1>5. InText(cursor')
    BY <1>1, <1>4 DEF InText
  <1>6. t \in Inserted
    <2>1. new_token \in AnyToken /\ new_token.line \in Nat \ {0} /\ "KEYWORD" \in TokenTypes
      BY <1>2 DEF IInv, Partial, TokenTypes
    <2>2. /\ [new_token EXCEPT !.type = "KEYWORD"] \in AnyToken
          /\ [new_token EXCEPT !.type = "KEYWORD"].line = new_token.line
      BY <2>1 DEF AnyToken
    <2> QED BY <2>1, <2>2 DEF Classified, Inserted
  <1>7. in_define' \in BOOLEAN /\ in_include' \in BOOLEAN
    <2>1. in_define \in BOOLEAN /\ in_include \in BOOLEAN
      BY Zenon DEF IInv
    <2>2. CASE mode = "directive" /\ new_token.text \in Directives \cup {<<>>}
      <3>1. /\ in_include' = (new_token.text = DIRECTIVE_INCLUDE)
            /\ in_define' = (new_token.text = DIRECTIVE_DEFINE)
        BY <2>2 DEF EndLexeme
      <3> QED BY Zenon, <3>1
    <2>3. CASE /\ ~(mode = "directive" /\ new_token.text \in Directives \cup {<<>>})
               /\ mode \in {"h header", "q header"}
      <3>1. in_include' = FALSE /\ in_define' = in_define
        BY <2>3 DEF EndLexeme
      <3> QED BY Zenon, <2>1, <3>1
    <2>4. CASE /\ ~(mode = "directive" /\ new_token.text \in Directives \cup {<<>>})
               /\ mode \notin {"h header", "q header"}
      <3>1. in_include' = in_include /\ in_define' = in_define
        BY <2>4 DEF EndLexeme
      <3> QED BY Zenon, <2>1, <3>1
    <2> QED BY <2>2, <2>3, <2>4
  <1>8. Frame
    BY <1>1, <1>3, <1>7 DEF Frame
  <1> HIDE DEF t
  <1> QED BY <1>1, <1>5, <1>6, <1>8, EmitKeeps

-----------------------------------------------------------------------------
(* The parts and the suffix of a constant *)

\* string_cat_c: the lexeme has room for the characters, or the program aborts.
LEMMA ExtendKeeps ==
    ASSUME IInv, mode \in Parts, NEW t \in AnyToken, Len(t.text) < MAX_LEXEME_LENGTH,
           t.line \in Nat \ {0}, NEW m \in (Parts \cup SuffixModes) \ {"hex", "octal"},
           NEW chars \in Seq(LexemeCharacters), cursor.pos + Len(chars) <= Len(Text),
           Extend(m, t, chars), UNCHANGED <<files, headers, in_define, in_include>>
    PROVE  IInv'
  <1>1. mode # "scan"
    BY DEF Parts
  <1>2. Stack /\ files # <<>> /\ InText(cursor)
    BY <1>1, BusyFacts
  <1>3. Frame
    BY <1>2, FrameFacts
  <1>4. Len(t.text) \in Nat /\ t.text \in Seq(LexemeCharacters) /\ Len(chars) \in Nat
    BY DEF AnyToken
  <1>5. CASE Len(t.text) + Len(chars) >= MAX_LEXEME_LENGTH
    <2>1. mode' = "aborted" /\ cursor' = cursor /\ new_token' = new_token /\ tokens' = tokens
      BY <1>5 DEF Extend
    <2>2. "aborted" \in Modes /\ "aborted" \notin Building
      BY DEF Modes, Building, Lexemes, Parts, SuffixModes
    <2>3. Partial(new_token, "aborted")
      BY <2>2 DEF IInv, Partial
    <2>4. InText(cursor')
      BY <1>2, <2>1 DEF InText
    <2> QED BY <1>3, <2>1, <2>2, <2>3, <2>4, ContinueKeeps
  <1>6. CASE ~(Len(t.text) + Len(chars) >= MAX_LEXEME_LENGTH)
    <2> DEFINE n == Len(chars)
               u == [t EXCEPT !.text = @ \o chars]
    <2>1. /\ cursor' = [cursor EXCEPT !.pos = @ + n]
          /\ mode' = m /\ new_token' = u /\ tokens' = tokens
      BY <1>6 DEF Extend, Continue
    <2>2. InText([cursor EXCEPT !.pos = @ + n])
      <3> HIDE DEF n
      <3>1. n \in Nat /\ cursor.pos + n <= Len(Text)
        BY <1>4 DEF n
      <3> QED BY <1>2, <3>1, AdvanceKeeps
    <2>3. InText(cursor')
      BY <2>1, <2>2 DEF InText
    <2>4. /\ t.text \o chars \in Seq(LexemeCharacters)
          /\ Len(t.text \o chars) = Len(t.text) + Len(chars)
      BY <1>4, ConcatProperties
    <2>5. u \in AnyToken /\ u.text = t.text \o chars /\ u.line = t.line
      BY <2>4 DEF AnyToken
    <2>6. Len(u.text) < MAX_LEXEME_LENGTH
      BY <1>4, <1>6, <2>4, <2>5, LexemeBound
    <2> HIDE DEF u
    <2>7. Partial(u, m) /\ m \in Modes
      BY <2>5, <2>6 DEF Partial, Modes, Building
    <2> QED BY <1>3, <2>1, <2>3, <2>7, ContinueKeeps
  <1> QED BY <1>5, <1>6

\* An error of a constant inserts it without its lexeme.
LEMMA RejectKeeps ==
    ASSUME IInv, Frame, NEW t \in Inserted, NEW cur, InText(cur), Reject(t, cur)
    PROVE  IInv'
  <1> DEFINE u == [t EXCEPT !.text = <<>>]
  <1>1. cursor' = cur /\ Emit(u)
    BY DEF Reject
  <1>2. u \in Inserted
    BY EmptySeq DEF Inserted, AnyToken
  <1>3. InText(cursor')
    BY <1>1 DEF InText, Frame, Text
  <1> HIDE DEF u
  <1> QED BY <1>1, <1>2, <1>3, EmitKeeps

\* The token of a constant after one of its parts: a hexadecimal or octal lexeme
\* is put to base 10.
LEMMA ConvertedFacts ==
    ASSUME IInv, mode \in Parts,
           NEW base \in Nat, NEW t,
           \/ mode \in {"hex", "octal"} /\ t = [new_token EXCEPT !.text = to_base_10(base, @)]
           \/ t = new_token
    PROVE  t \in Inserted /\ Len(t.text) < MAX_LEXEME_LENGTH
  <1>1. new_token \in Inserted /\ Len(new_token.text) < MAX_LEXEME_LENGTH
    BY DEF IInv, Partial, Building, Inserted
  <1>2. ASSUME mode \in {"hex", "octal"}
        PROVE  /\ [new_token EXCEPT !.text = to_base_10(base, @)] \in Inserted
               /\ Len([new_token EXCEPT !.text = to_base_10(base, @)].text) < MAX_LEXEME_LENGTH
    <2> DEFINE text == to_base_10(base, new_token.text)
               u    == [new_token EXCEPT !.text = text]
    <2>1. new_token.text \in Seq(Hexits)
      BY <1>2 DEF IInv, Partial
    <2>2. text \in Seq(Digits \cup {"-"}) /\ Len(text) < MAX_LEXEME_LENGTH
      BY <2>1, ToBase10Fits
    <2>3. Digits \cup {"-"} \subseteq LexemeCharacters
      BY LexemeCharacterFacts
    <2> HIDE DEF text
    <2>4. text \in Seq(LexemeCharacters)
      BY <2>2, <2>3, SeqMonotonic
    <2>5. u \in Inserted /\ u.text = text
      BY <1>1, <2>4 DEF Inserted, AnyToken
    <2> QED BY <2>2, <2>5 DEF text
  <1> QED BY <1>1, <1>2

LEMMA EndPartKeeps ==
    ASSUME IInv, EndPart
    PROVE  IInv'
  <1> DEFINE c == Peek(cursor)
             t == CASE mode = "hex"   -> [new_token EXCEPT !.text = to_base_10(16, @)]
                    [] mode = "octal" -> [new_token EXCEPT !.text = to_base_10(8, @)]
                    [] OTHER          -> new_token
             is_p == c \in {"p", "P"} /\ mode \in {"fraction", "hex fraction"}
             is_e == c \in {"e", "E"} /\ mode \in {"decimal", "octal", "fraction"}
             double == [t EXCEPT !.type = "CONST_DOUBLE"]
  <1>1. /\ mode \in Parts
        /\ UNCHANGED <<files, headers, in_define, in_include>>
    BY DEF EndPart
  <1>2. \/ c = "." /\ (Extend("fraction", double, <<".">>) \/ Extend("hex fraction", double, <<".">>))
        \/ Reject(double, Consume(cursor))
        \/ Reject(t, cursor)
        \/ is_p /\ Extend("binary exponent", t, <<"P">>)
        \/ is_e /\ Extend("exponent", t, Exponent)
        \/ Extend("suffix", t, <<>>)
        \/ cursor' = cursor /\ Emit(t)
    BY DEF EndPart
  <1>3. mode # "scan"
    BY <1>1 DEF Parts
  <1>4. /\ Stack /\ files # <<>> /\ InText(cursor) /\ cursor.pos \in Nat /\ Len(Text) \in Nat
    BY <1>3, BusyFacts
  <1>5. t \in Inserted /\ Len(t.text) < MAX_LEXEME_LENGTH
    <2>1. CASE mode = "hex"
      BY <1>1, <2>1, ConvertedFacts
    <2>2. CASE mode = "octal"
      BY <1>1, <2>2, ConvertedFacts
    <2>3. CASE mode \notin {"hex", "octal"}
      <3>1. t = new_token
        BY <2>3
      <3> QED BY <1>1, <3>1, ConvertedFacts
    <2> QED BY <2>1, <2>2, <2>3
  <1> HIDE DEF t
  <1>6. double \in Inserted /\ double.text = t.text
    <2>1. "CONST_DOUBLE" \in TokenTypes
      BY DEF TokenTypes
    <2> QED BY <1>5, <2>1 DEF Inserted, AnyToken
  <1> HIDE DEF double
  <1>7. Frame
    BY <1>1, <1>4, FrameFacts
  <1>8. c # EOF => cursor.pos + 1 <= Len(Text)
    BY <1>4, PeekFacts
  <1>9. /\ <<".">> \in Seq(LexemeCharacters) /\ Len(<<".">>) = 1
        /\ <<"P">> \in Seq(LexemeCharacters) /\ Len(<<"P">>) = 1
    BY LexemeCharacterFacts
  <1>10. /\ t \in AnyToken /\ t.line \in Nat \ {0}
         /\ double \in AnyToken /\ double.line \in Nat \ {0}
    BY <1>5, <1>6 DEF Inserted
  <1>11. {"fraction", "hex fraction", "binary exponent", "exponent", "suffix"}
            \subseteq (Parts \cup SuffixModes) \ {"hex", "octal"}
    BY DEF Parts, SuffixModes
  <1>12. CASE /\ c = "."
              /\ (Extend("fraction", double, <<".">>) \/ Extend("hex fraction", double, <<".">>))
    <2> DEFINE chars == <<".">>
    <2>1. chars \in Seq(LexemeCharacters) /\ Len(chars) = 1
      BY <1>9
    <2>2. cursor.pos + Len(chars) <= Len(Text)
      BY <1>8, <1>12, <2>1 DEF EOF
    <2>3. Extend("fraction", double, chars) \/ Extend("hex fraction", double, chars)
      BY <1>12
    <2>4. Len(double.text) < MAX_LEXEME_LENGTH
      BY <1>5, <1>6
    <2> HIDE DEF chars
    <2> QED BY <1>1, <1>10, <1>11, <2>1, <2>2, <2>3, <2>4, ExtendKeeps
  <1>13. CASE Reject(double, Consume(cursor))
    <2>1. InText(Consume(cursor))
      BY <1>4, ConsumeFacts
    <2> QED BY <1>6, <1>7, <1>13, <2>1, RejectKeeps
  <1>14. CASE Reject(t, cursor)
    BY <1>4, <1>5, <1>7, <1>14, RejectKeeps
  <1>15. CASE is_p /\ Extend("binary exponent", t, <<"P">>)
    <2> DEFINE chars == <<"P">>
    <2>1. chars \in Seq(LexemeCharacters) /\ Len(chars) = 1
      BY <1>9
    <2>2. cursor.pos + Len(chars) <= Len(Text)
      BY <1>8, <1>15, <2>1 DEF EOF
    <2>3. Extend("binary exponent", t, chars)
      BY <1>15
    <2> HIDE DEF chars
    <2> QED BY <1>1, <1>5, <1>10, <1>11, <2>1, <2>2, <2>3, ExtendKeeps
  <1>16. CASE is_e /\ Extend("exponent", t, Exponent)
    <2>1. cursor.pos + 1 <= Len(Text)
      BY <1>8, <1>16 DEF EOF
    <2>2. Next1 # EOF => cursor.pos + 2 <= Len(Text)
      BY <1>4, PeekAheadFacts DEF Next1
    <2>3. {"E", "+", "-"} \subseteq LexemeCharacters
      BY LexemeCharacterFacts
    <2> DEFINE sign == IF Next1 \in {"+", "-"} THEN <<Next1>> ELSE <<>>
               E    == <<"E">>
    <2>4. E \in Seq(LexemeCharacters) /\ Len(E) = 1 /\ Exponent = E \o sign
      BY <2>3 DEF Exponent
    <2>5. CASE Next1 \in {"+", "-"}
      <3>1. sign \in Seq(LexemeCharacters) /\ Len(sign) = 1
        BY <2>3, <2>5
      <3> HIDE DEF sign, E
      <3>2. Exponent \in Seq(LexemeCharacters) /\ Len(Exponent) = 2
        BY <2>4, <3>1, ConcatProperties
      <3>3. cursor.pos + Len(Exponent) <= Len(Text)
        BY <2>2, <2>5, <3>2 DEF EOF
      <3> QED BY <1>1, <1>5, <1>10, <1>11, <1>16, <3>2, <3>3, ExtendKeeps
    <2>6. CASE Next1 \notin {"+", "-"}
      <3>1. sign \in Seq(LexemeCharacters) /\ Len(sign) = 0
        BY <2>6, EmptySeq
      <3> HIDE DEF sign, E
      <3>2. Exponent \in Seq(LexemeCharacters) /\ Len(Exponent) = 1
        BY <2>4, <3>1, ConcatProperties
      <3> QED BY <1>1, <1>5, <1>10, <1>11, <1>16, <2>1, <3>2, ExtendKeeps
    <2> QED BY <2>5, <2>6
  <1>17. CASE Extend("suffix", t, <<>>)
    <2>1. <<>> \in Seq(LexemeCharacters) /\ Len(<<>>) = 0
      BY EmptySeq
    <2>2. cursor.pos + Len(<<>>) <= Len(Text)
      BY <1>4, <2>1 DEF InText
    <2> QED BY <1>1, <1>5, <1>10, <1>11, <1>17, <2>1, <2>2, ExtendKeeps
  <1>18. CASE cursor' = cursor /\ Emit(t)
    <2>1. InText(cursor')
      BY <1>4, <1>18 DEF InText, Text, Frame
    <2> QED BY <1>5, <1>7, <1>18, <2>1, EmitKeeps
  <1> QED BY <1>2, <1>12, <1>13, <1>14, <1>15, <1>16, <1>17, <1>18

LEMMA EndSuffixKeeps ==
    ASSUME IInv, EndSuffix
    PROVE  IInv'
  <1> DEFINE t == new_token
             type == Suffixed(t.type, t.text[Len(t.text)])
             cut == {t.type} \cup IF type \in {"CONST_UNSIGNED_INT", "CONST_LONG"}
                                  THEN {"CONST_UNSIGNED_LONG"} ELSE {}
  <1>1. /\ mode \in SuffixModes /\ UNCHANGED <<files, headers, cursor, in_define, in_include>>
    BY DEF EndSuffix
  <1>2. PICK any \in {type} \cup IF mode = "cut suffix" THEN cut ELSE {} :
            Emit([t EXCEPT !.type = any])
    BY DEF EndSuffix
  <1>3. mode # "scan" /\ mode \in Building
    BY <1>1 DEF SuffixModes, Building
  <1>4. Stack /\ files # <<>> /\ InText(cursor)
    BY <1>3, BusyFacts
  <1>5. t \in Inserted
    BY <1>3 DEF IInv, Partial, Inserted
  <1>6. t.type \in TokenTypes
    BY <1>5 DEF Inserted, AnyToken
  <1>7. type \in TokenTypes
    <2>1. {"CONST_FLOAT", "CONST_LONG", "CONST_LONG_DOUBLE", "CONST_UNSIGNED_INT"} \subseteq TokenTypes
      BY DEF TokenTypes
    <2>2. type \in {"CONST_FLOAT", "CONST_LONG", "CONST_LONG_DOUBLE", "CONST_UNSIGNED_INT", t.type}
      BY DEF Suffixed
    <2> QED BY <1>6, <2>1, <2>2
  <1> HIDE DEF type
  <1>8. any \in TokenTypes
    <2>1. "CONST_UNSIGNED_LONG" \in TokenTypes
      BY DEF TokenTypes
    <2> QED BY <1>2, <1>6, <1>7, <2>1
  <1>9. [t EXCEPT !.type = any] \in Inserted
    BY <1>5, <1>8 DEF Inserted, AnyToken
  <1>10. InText(cursor')
    BY <1>1, <1>4 DEF InText, Text
  <1>11. Frame
    BY <1>1, <1>4, FrameFacts
  <1> QED BY <1>2, <1>9, <1>10, <1>11, EmitKeeps

-----------------------------------------------------------------------------
(* The stack of files *)

\* A file that ends leaves the cursor at the start of the one below it.
LEMMA EndOfFileKeeps ==
    ASSUME IInv, EndOfFile
    PROVE  IInv'
  <1> DEFINE t == [NoToken EXCEPT !.type = "END", !.line = cursor.line]
             esc == cursor.escaped
             cur == [Start EXCEPT !.escaped = esc]
             S == Seq(Characters)
  <1>1. /\ Scanning({EOF}) /\ Emit(t) /\ cursor' = cur
        /\ files' = SubSeq(files, 1, Len(files) - 1)
        /\ UNCHANGED <<headers, in_define, in_include>>
    BY DEF EndOfFile
  <1>2. /\ Stack /\ files # <<>> /\ cursor.line \in Nat \ {0} /\ InText(cursor)
    BY <1>1, ScanningFacts
  <1>3. files \in Seq(S) /\ files' \in Seq(S)
    <2>1. files \in Seq(S)
      BY <1>2 DEF Stack
    <2> HIDE DEF S
    <2>2. \A i \in 1..(Len(files) - 1) : i \in 1..Len(files)
      BY <2>1
    <2>3. \A i \in 1..(Len(files) - 1) : files[i] \in S
      BY <2>1, <2>2, ElementOfSeq
    <2>4. SubSeq(files, 1, Len(files) - 1) \in Seq(S)
      BY <2>1, <2>3, SubSeqProperties
    <2> QED BY <1>1, <2>1, <2>4
  <1>4. t \in Inserted
    <2>1. "END" \in TokenTypes
      BY DEF TokenTypes
    <2> DEFINE n == cursor.line
    <2>2. n \in Nat \ {0} /\ NoToken \in AnyToken
      BY <1>2, NoTokenFacts
    <2> HIDE DEF n
    <2>3. n \in Int
      BY <2>2
    <2>4. [NoToken EXCEPT !.type = "END", !.line = n] \in AnyToken
      BY <2>1, <2>2, <2>3 DEF AnyToken
    <2>5. [NoToken EXCEPT !.type = "END", !.line = n].line = n
      BY <2>2 DEF AnyToken
    <2>6. [NoToken EXCEPT !.type = "END", !.line = n] \in Inserted
      BY <2>2, <2>4, <2>5 DEF Inserted
    <2> QED BY <2>6 DEF n
  <1> HIDE DEF t
  <1>5. cursor' \in Cursors /\ cursor'.pos = 0
    <2>1. esc \in BOOLEAN
      BY <1>2 DEF InText, Cursors
    <2> HIDE DEF esc
    <2> QED BY <1>1, <2>1 DEF Start, Cursors
  <1>6. files' # <<>> => cursor'.pos <= Len(Text')
    <2>1. ASSUME files' # <<>> PROVE Len(files') \in 1..Len(files')
      BY <1>3, <2>1, EmptySeq
    <2>2. ASSUME files' # <<>> PROVE Text' \in S
      <3> HIDE DEF S
      <3> QED BY <1>3, <2>1, <2>2, ElementOfSeq DEF Text
    <2>3. ASSUME files' # <<>> PROVE Len(Text') \in Nat
      BY <2>2, <2>3
    <2> QED BY <1>5, <2>3
  <1>7. mode' = "scan" /\ new_token' = NoToken /\ tokens' = Append(tokens, t)
    BY <1>1 DEF Emit
  <1>8. Stack'
    BY <1>1, <1>2, <1>3, <1>5, <1>6, <1>7 DEF Stack
  <1>9. tokens' \in Seq(Inserted)
    BY <1>4, <1>7, AppendProperties DEF IInv
  <1>10. in_define' \in BOOLEAN /\ in_include' \in BOOLEAN
    BY Zenon, <1>1 DEF IInv
  <1>11. Partial(new_token', mode') /\ mode' \in Modes
    BY <1>7, NoTokenFacts DEF Modes
  <1> QED BY <1>8, <1>9, <1>10, <1>11 DEF IInv, Partial, Inserted, AnyToken

LEMMA AddFileKeeps ==
    ASSUME IInv, AddFile
    PROVE  IInv'
  <1> DEFINE S == Seq(Characters)
             h == Head(headers)
  <1>1. /\ files = <<>> /\ headers # <<>> /\ files' = <<h>>
        /\ headers' = Tail(headers) /\ in_define' \in {in_define, FALSE}
        /\ UNCHANGED <<cursor, mode, new_token, in_include, tokens>>
    BY DEF AddFile
  <1>2. headers \in Seq(S) /\ cursor \in Cursors /\ cursor.pos = 0
    BY <1>1 DEF IInv, Stack
  <1>3. h \in S /\ headers' \in Seq(S)
    <2> HIDE DEF S
    <2> QED BY <1>1, <1>2, HeadTailProperties
  <1>4. files' \in Seq(S) /\ Text' = h /\ files' # <<>>
    <2> HIDE DEF S, h
    <2>1. <<h>> \in Seq(S) /\ Len(<<h>>) = 1 /\ <<h>>[1] = h
      BY <1>3
    <2> QED BY <1>1, <2>1, EmptySeq DEF Text
  <1>5. cursor'.pos <= Len(Text')
    <2>1. Len(h) \in Nat
      BY <1>3
    <2> QED BY <1>1, <1>2, <1>4, <2>1
  <1>6. Stack'
    BY <1>1, <1>2, <1>3, <1>4, <1>5 DEF Stack
  <1>7. in_define' \in BOOLEAN /\ in_include' \in BOOLEAN
    BY Zenon, <1>1 DEF IInv
  <1> QED BY <1>1, <1>6, <1>7 DEF IInv, Partial, Inserted, AnyToken

-----------------------------------------------------------------------------
LEMMA InitEstablishes == Init => IInv
  <1> SUFFICES ASSUME Init PROVE IInv
    OBVIOUS
  <1>1. files \in Seq(Seq(Characters)) /\ headers \in Seq(Seq(Characters))
    BY ProgramsAssumption DEF Init
  <1>2. cursor \in Cursors /\ cursor.pos = 0
    <2>1. FALSE \in BOOLEAN
      BY Zenon
    <2> QED BY <2>1 DEF Init, Start, Cursors
  <1>3. files # <<>> => cursor.pos <= Len(Text)
    <2>1. ASSUME files # <<>> PROVE Text \in Seq(Characters)
      <3>1. Len(files) \in 1..Len(files)
        BY <1>1, <2>1, EmptySeq
      <3> QED BY <1>1, <3>1, ElementOfSeq DEF Text
    <2>2. ASSUME files # <<>> PROVE Len(Text) \in Nat
      BY <2>1, <2>2
    <2> QED BY <1>2, <2>2
  <1>4. mode = "scan" /\ new_token = NoToken /\ tokens = <<>>
    BY DEF Init
  <1>5. in_define \in BOOLEAN /\ in_include \in BOOLEAN
    BY Zenon DEF Init
  <1>6. tokens \in Seq(Inserted)
    BY <1>4, EmptySeq
  <1>7. Partial(new_token, mode) /\ mode \in Modes
    BY <1>4, NoTokenFacts DEF Modes
  <1>8. Stack
    BY <1>1, <1>2, <1>3, <1>4 DEF Stack
  <1> QED BY <1>5, <1>6, <1>7, <1>8 DEF IInv

LEMMA StutterKeeps ==
    ASSUME IInv, UNCHANGED vars
    PROVE  IInv'
  BY DEF IInv, vars, Stack, Text, Partial, AnyToken, Inserted

LEMMA NextKeeps ==
    ASSUME IInv, Next
    PROVE  IInv'
  <1>1. CASE ScanPunctuator BY <1>1, ScanPunctuatorKeeps
  <1>2. CASE ScanDot BY <1>2, ScanDotKeeps
  <1>3. CASE ScanNewline BY <1>3, ScanNewlineKeeps
  <1>4. CASE ScanBlanks BY <1>4, ScanBlanksKeeps
  <1>5. CASE ScanBackslash BY <1>5, ScanBackslashKeeps
  <1>6. CASE ScanUnknown BY <1>6, ScanUnknownKeeps
  <1>7. CASE StartComment BY <1>7, StartCommentKeeps
  <1>8. CASE LineComment BY <1>8, LineCommentKeeps
  <1>9. CASE BlockComment BY <1>9, BlockCommentKeeps
  <1>10. CASE StartName BY <1>10, StartNameKeeps
  <1>11. CASE StartChar BY <1>11, StartCharKeeps
  <1>12. CASE StartQuote BY <1>12, StartQuoteKeeps
  <1>13. CASE StartHHeader BY <1>13, StartHHeaderKeeps
  <1>14. CASE StartDirective BY <1>14, StartDirectiveKeeps
  <1>15. CASE StartNumber BY <1>15, StartNumberKeeps
  <1>16. CASE EndPart BY <1>16, EndPartKeeps
  <1>17. CASE EndSuffix BY <1>17, EndSuffixKeeps
  <1>18. CASE BuildLexeme BY <1>18, BuildLexemeKeeps
  <1>19. CASE EndLexeme BY <1>19, EndLexemeKeeps
  <1>20. CASE EndOfFile BY <1>20, EndOfFileKeeps
  <1>21. CASE AddFile BY <1>21, AddFileKeeps
  <1> QED BY <1>1, <1>2, <1>3, <1>4, <1>5, <1>6, <1>7, <1>8, <1>9, <1>10, <1>11, <1>12,
             <1>13, <1>14, <1>15, <1>16, <1>17, <1>18, <1>19, <1>20, <1>21 DEF Next

\* The invariant holds at every step, for every stack of files and every sequence
\* of headers that the preprocessor includes later.
THEOREM InvariantHolds == Spec => []IInv
  <1>1. IInv /\ [Next]_vars => IInv'
    BY NextKeeps, StutterKeeps
  <1> QED BY <1>1, InitEstablishes, PTL DEF Spec

\* scan_token's state has its type: the mode is one of those that a character can
\* lead to, and every token of the list has a line of a file, which the messages of
\* the compiler print.
THEOREM TypeCorrect == Spec => []TypeOK
  <1>1. IInv => TypeOK
    <2> SUFFICES ASSUME IInv PROVE TypeOK
      OBVIOUS
    <2>1. cursor.pos \in Nat /\ cursor.line \in Nat /\ cursor.escaped \in BOOLEAN
      BY DEF IInv, Stack, Cursors
    <2>2. in_define \in BOOLEAN /\ in_include \in BOOLEAN
      BY Zenon DEF IInv
    <2>3. \A i \in DOMAIN tokens : tokens[i].line \in Nat \ {0}
      <3> TAKE i \in DOMAIN tokens
      <3>1. tokens \in Seq(Inserted)
        BY DEF IInv
      <3>2. tokens[i] \in Inserted
        BY <3>1, ElementOfSeq
      <3> QED BY <3>2 DEF Inserted
    <2>4. mode \in Lexemes \cup Parts \cup SuffixModes
                    \cup {"scan", "line comment", "block comment", "aborted"}
      BY DEF IInv, Modes, Building
    <2> QED BY <2>1, <2>2, <2>3, <2>4 DEF TypeOK
  <1> QED BY <1>1, InvariantHolds, PTL

\* consume_next_char, peek_next_char and the two-character lookahead never read
\* past the end of the buffer of a file, and a lexeme with its NUL never outgrows
\* the local array it is built in: build_lexme cuts it, string_cat_c asserts, and
\* what convert_to_base_10 prints of a size_t is short enough, however many digits
\* the constant has.
THEOREM StaysInBounds == Spec => []InBounds
  <1>1. IInv => InBounds
    BY DEF IInv, Stack, Partial, InBounds
  <1> QED BY <1>1, InvariantHolds, PTL
=============================================================================
