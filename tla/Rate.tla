--------------------------------- MODULE Rate ---------------------------------
(***************************************************************************)
(* The exact decimal rate (internal/entity/rate.go) on its way from the    *)
(* provider's text through the NUMERIC column of the tables and back to    *)
(* the text a client reads.  Strings are sequences of characters.          *)
(***************************************************************************)
EXTENDS Integers, Sequences, FiniteSetsExt

CONSTANTS
  Precision,    \* 15 in the code: digits before the point, and after it
  Characters,   \* the characters of the inputs
  MaxLength     \* the length of the longest input

ASSUME RateAssumption == Precision \in Nat \ {0} /\ MaxLength \in Nat

VARIABLES
  pc,           \* "raw", "parsed", "stored", "read" or "refused"
  value,        \* the text the provider sent
  rate,         \* the entity.Rate: its decimal text
  column        \* the NUMERIC column, in units of 10^-Precision

vars == <<pc, value, rate, column>>

-----------------------------------------------------------------------------
(***************************************************************************)
(* Strings and numerals.                                                   *)
(***************************************************************************)
DigitChars == <<"0", "1", "2", "3", "4", "5", "6", "7", "8", "9">>
Digits == {DigitChars[i] : i \in 1..10}

ERROR == <<"error">>

\* What is left of s without the characters of C at its start, or its end.
TrimLeft(s, C) ==
  SubSeq(s, Min({i \in 1..Len(s) : s[i] \notin C} \cup {Len(s) + 1}), Len(s))

TrimRight(s, C) == SubSeq(s, 1, Max({i \in 1..Len(s) : s[i] \notin C} \cup {0}))

\* strings.TrimSpace; " " stands for every white space of Unicode.
TrimSpace(s) == TrimLeft(TrimRight(s, {" "}), {" "})

allDigits(s) == s # << >> /\ \A i \in 1..Len(s) : s[i] \in Digits

DigitOf(c) == (CHOOSE d \in 1..10 : DigitChars[d] = c) - 1

TenTo[n \in Nat] == IF n = 0 THEN 1 ELSE 10 * TenTo[n - 1]

\* The number a string of digits stands for.
Numeral(s) ==
  LET upTo[i \in 0..Len(s)] ==
        IF i = 0 THEN 0 ELSE 10 * upTo[i - 1] + DigitOf(s[i])
  IN  upTo[Len(s)]

\* The n digits of a number, leading zeros included.
Spell(x, n) == [i \in 1..n |-> DigitChars[1 + ((x \div TenTo[n - i]) % 10)]]

-----------------------------------------------------------------------------
(***************************************************************************)
(* ParseRate.                                                              *)
(***************************************************************************)
Points(s) == {i \in 1..Len(s) : s[i] = "."}

\* strings.SplitN(value, ".", 2), an empty integer part read as "0".
IntegerOf(s) ==
  LET whole == IF Points(s) = {} THEN s ELSE SubSeq(s, 1, Min(Points(s)) - 1)
  IN  IF whole = << >> THEN <<"0">> ELSE whole

FractionOf(s) == IF Points(s) = {} THEN << >> ELSE SubSeq(s, Min(Points(s)) + 1, Len(s))

IsPlain(s) ==
  /\ s # << >>
  /\ \A i \in 1..Len(s) : s[i] \notin {"e", "E", "+", "-"}
  /\ Cardinality(Points(s)) <= 1
  /\ allDigits(IntegerOf(s))
  /\ FractionOf(s) # << >> => allDigits(FractionOf(s))

\* Mutant: a longer fraction is let through.
FitsInteger(s) == Len(IntegerOf(s)) <= Precision

Fits(s) == Len(IntegerOf(s)) <= Precision /\ Len(FractionOf(s)) <= Precision

\* Mutant: the zeros at the end of the fraction stay.
CanonicalKeepsFraction(s) ==
  LET integer == TrimLeft(IntegerOf(s), {"0"})
      whole == IF integer = << >> THEN <<"0">> ELSE integer
  IN  IF FractionOf(s) = << >> THEN whole ELSE whole \o <<".">> \o FractionOf(s)

\* Leading zeros of the integer and trailing zeros of the fraction go.
Canonical(s) ==
  LET integer == TrimLeft(IntegerOf(s), {"0"})
      fraction == TrimRight(FractionOf(s), {"0"})
      whole == IF integer = << >> THEN <<"0">> ELSE integer
  IN  IF fraction = << >> THEN whole ELSE whole \o <<".">> \o fraction

IsZero(s) == \A i \in 1..Len(s) : s[i] \in {"0", "."}

ParseRate(raw) ==
  LET s == TrimSpace(raw) IN
  IF IsPlain(s) /\ Fits(s) /\ ~IsZero(s) THEN Canonical(s) ELSE ERROR

-----------------------------------------------------------------------------
(***************************************************************************)
(* The column NUMERIC(2 * Precision, Precision): a longer fraction is      *)
(* rounded half up; rate::text prints every fractional digit.              *)
(***************************************************************************)
Numeric(s) ==
  LET f == FractionOf(s)
      scaled == Numeral(IntegerOf(s)) * TenTo[Precision]
  IN  IF Len(f) <= Precision
      THEN scaled + Numeral(f) * TenTo[Precision - Len(f)]
      ELSE scaled + Numeral(SubSeq(f, 1, Precision))
             + (IF Numeral(<<f[Precision + 1]>>) >= 5 THEN 1 ELSE 0)

NumericText(x) ==
  LET whole == TrimLeft(Spell(x \div TenTo[Precision], Precision), {"0"})
  IN  (IF whole = << >> THEN <<"0">> ELSE whole)
        \o <<".">> \o Spell(x % TenTo[Precision], Precision)

-----------------------------------------------------------------------------
Inputs == UNION {[1..n -> Characters] : n \in 0..MaxLength}

Init ==
  /\ pc = "raw"
  /\ value \in Inputs
  /\ rate = << >>
  /\ column = 0

\* decodeQuote parses the provider's number.
Parse ==
  /\ pc = "raw"
  /\ rate' = ParseRate(value)
  /\ pc' = IF rate' = ERROR THEN "refused" ELSE "parsed"
  /\ UNCHANGED <<value, column>>

\* Complete writes it.
Store ==
  /\ pc = "parsed"
  /\ column' = Numeric(rate)
  /\ pc' = "stored"
  /\ UNCHANGED <<value, rate>>

\* scanUpdate and GetLatest read it back.
Load ==
  /\ pc = "stored"
  /\ rate' = ParseRate(NumericText(column))
  /\ pc' = "read"
  /\ UNCHANGED <<value, column>>

Next == Parse \/ Store \/ Load

Spec == Init /\ [][Next]_vars

-----------------------------------------------------------------------------
(***************************************************************************)
(* What a rate promises.                                                   *)
(***************************************************************************)

\* The ways to read a text as digits, a point and digits, each part within
\* the precision.
Readings ==
  LET parts == UNION {[1..n -> Digits \cap Characters] : n \in 0..Precision} IN
  {r \in parts \X parts :
     \/ TrimSpace(value) = r[1] /\ r[2] = << >>
     \/ TrimSpace(value) = r[1] \o <<".">> \o r[2]}

Amount(i, f) == Numeral(i) * TenTo[Precision] + Numeral(f) * TenTo[Precision - Len(f)]

\* ParseRate accepts exactly the plain positive decimals of at most Precision
\* digits on each side of the point, and the rate has the value that was sent,
\* still after the column and the second ParseRate: nothing is rounded,
\* truncated or misread, and what was stored is never refused.
AcceptsExactValues ==
  /\ pc = "refused" => \A r \in Readings : Amount(r[1], r[2]) = 0
  /\ pc \in {"parsed", "stored", "read"} =>
       /\ rate # ERROR
       /\ \E r \in Readings : Amount(r[1], r[2]) = Numeric(rate) /\ Numeric(rate) > 0

\* Every text a client can be shown matches the pattern of the schema Rate in
\* api/openapi.yaml, so that equal rates have equal texts.
CanonicalText ==
  pc \in {"parsed", "stored", "read"} =>
    LET i == IntegerOf(rate)
        f == FractionOf(rate)
    IN  /\ rate = IF f = << >> THEN i ELSE i \o <<".">> \o f
        /\ allDigits(i) /\ Len(i) <= Precision
        /\ i[1] = "0" => Len(i) = 1 /\ f # << >>
        /\ f # << >> => allDigits(f) /\ Len(f) <= Precision /\ f[Len(f)] # "0"
===============================================================================
