-------------------------- MODULE NumericConstant --------------------------
(***************************************************************************)
(* What create_constant_token, src/src/lexer.c, computes of the characters *)
(* of a constant: the decimal numeral of an octal or a hexadecimal         *)
(* constant, and the type its suffix gives it.  The scanning is in Lexer.  *)
(***************************************************************************)
EXTENDS Integers, Sequences, FiniteSetsExt

CONSTANT ULONG      \* 2^w, for a size_t and a long of w bits

ASSUME WidthAssumption == ULONG \in Nat \ {0}

HEXITS ==
    <<"0", "1", "2", "3", "4", "5", "6", "7", "8", "9", "a", "b", "c", "d", "e", "f",
      "A", "B", "C", "D", "E", "F">>

Digits == {HEXITS[i] : i \in 1..10}
Hexits == {HEXITS[i] : i \in DOMAIN HEXITS}

DigitOf(c) == LET i == CHOOSE j \in DOMAIN HEXITS : HEXITS[j] = c
              IN  IF i > 16 THEN i - 7 ELSE i - 1

numeral[n \in Nat] ==
    IF n < 10 THEN <<HEXITS[n + 1]>> ELSE Append(numeral[n \div 10], HEXITS[(n % 10) + 1])

\* The loop of convert_to_base_10, from the last character to the first.
Value(base, text) ==
    LET loop[i \in 0..Len(text)] ==
            IF i = 0 THEN [result |-> 0, position_power |-> 1]
            ELSE LET p == loop[i - 1]
                     digit == DigitOf(text[Len(text) - i + 1])
                 IN  [result |-> (p.result + digit * p.position_power) % ULONG,
                      position_power |-> (p.position_power * base) % ULONG]
    IN  loop[Len(text)].result

\* convert_to_base_10, which prints its size_t as a long.
to_base_10(base, text) ==
    LET v == Value(base, text)
    IN  IF v < ULONG \div 2 THEN numeral[v] ELSE <<"-">> \o numeral[ULONG - v]

\* The letters of the suffix are upper-cased one by one, from the last one on.
Suffixed(type, letter) ==
    CASE letter \in {"f", "F"} -> "CONST_FLOAT"
      [] letter \in {"l", "L"} -> IF type = "CONST_INTEGER" THEN "CONST_LONG"
                                  ELSE "CONST_LONG_DOUBLE"
      [] letter \in {"u", "U"} /\ type = "CONST_INTEGER" -> "CONST_UNSIGNED_INT"
      [] OTHER -> type
=============================================================================
