------------------------------ MODULE RateProofs ------------------------------
(***************************************************************************)
(* Proofs about Rate, for texts of every length and characters, and every  *)
(* precision.  The induction over texts is an induction over sets of       *)
(* numbers: their well-founded order has a theorem of the library.         *)
(***************************************************************************)
EXTENDS Rate, FiniteSetTheorems, SequenceTheorems, WellFoundedInduction, TLAPS

-----------------------------------------------------------------------------
(***************************************************************************)
(* Numbers.                                                                *)
(***************************************************************************)

\* A set of numbers that is not empty has a least one.
LEMMA LeastNumber ==
  ASSUME NEW D, D \subseteq Nat, D # {}
  PROVE  \E x \in D : \A y \in D : x <= y
<1> DEFINE R == OpToRel(<, Nat)
<1>1. IsWellFoundedOn(R, Nat)
  BY NatLessThanWellFounded
<1> HIDE DEF R
<1>2. PICK x \in D : \A y \in D : <<y, x>> \notin R
  BY <1>1, WFMin
<1>3. ASSUME NEW y \in D PROVE x <= y
  <2>1. y < x => <<y, x>> \in R
    BY DEF R, OpToRel
  <2> QED
    BY <1>2, <2>1
<1> QED
  BY <1>3

\* ... and if it is bounded a greatest one.
LEMMA GreatestNumber ==
  ASSUME NEW n \in Nat, NEW D, D \subseteq 0..n, D # {}
  PROVE  \E x \in D : \A y \in D : y <= x
<1> DEFINE E == {i \in Nat : n - i \in D}
<1>1. E # {}
  <2>1. PICK y \in D : TRUE
    OBVIOUS
  <2> QED
    BY <2>1, n - y \in E
<1>2. PICK i \in E : \A j \in E : i <= j
  BY <1>1, LeastNumber
<1>3. \A y \in D : n - y \in E
  OBVIOUS
<1> QED
  BY <1>2, <1>3

\* Induction: a set with 0 and the successors of its elements is Nat.
LEMMA Induction ==
  ASSUME NEW T, 0 \in T, \A n \in Nat : n \in T => n + 1 \in T
  PROVE  Nat \subseteq T
<1> DEFINE D == Nat \ T
<1>1. ASSUME D # {} PROVE FALSE
  <2>1. PICK x \in D : \A y \in D : x <= y
    BY <1>1, LeastNumber
  <2>2. x # 0 /\ x - 1 \in Nat /\ x - 1 \notin D
    BY <2>1
  <2> QED
    BY <2>1, <2>2
<1> QED
  BY <1>1

\* g[i] is what Horner's scheme has computed from a and the first i digits.
Iterates(g, n, a, d) ==
  /\ g \in [0..n -> Nat]
  /\ g[0] = a
  /\ \A i \in 1..n : g[i] = 10 * g[i - 1] + d[i]

\* Two such functions agree as far as both go ...
LEMMA IteratesUnique ==
  ASSUME NEW n \in Nat, NEW m \in Nat, m <= n, NEW a, NEW d, NEW g, NEW h,
         Iterates(g, n, a, d), Iterates(h, m, a, d)
  PROVE  \A i \in 0..m : g[i] = h[i]
<1> DEFINE T == {i \in Nat : i <= m => g[i] = h[i]}
<1>1. 0 \in T
  BY DEF Iterates
<1>2. \A i \in Nat : i \in T => i + 1 \in T
  <2> TAKE i \in Nat
  <2> SUFFICES ASSUME i \in T, i + 1 <= m PROVE g[i + 1] = h[i + 1]
    OBVIOUS
  <2>1. i + 1 \in 1..m /\ i + 1 \in 1..n /\ (i + 1) - 1 = i /\ g[i] = h[i]
    OBVIOUS
  <2> QED
    BY <2>1 DEF Iterates
<1> HIDE DEF T
<1>3. Nat \subseteq T
  BY <1>1, <1>2, Induction
<1> QED
  BY <1>3 DEF T

\* ... and there is one.
LEMMA IteratesExists ==
  ASSUME NEW n \in Nat, NEW a \in Nat, NEW d, \A i \in 1..n : d[i] \in Nat
  PROVE  \E g : Iterates(g, n, a, d)
<1> DEFINE T == {m \in Nat : m <= n => \E g : Iterates(g, m, a, d)}
<1>1. 0 \in T
  <2>1. Iterates([i \in 0..0 |-> a], 0, a, d)
    BY DEF Iterates
  <2> QED
    BY <2>1
<1>2. \A m \in Nat : m \in T => m + 1 \in T
  <2> TAKE m \in Nat
  <2> SUFFICES ASSUME m \in T, m + 1 <= n PROVE \E g : Iterates(g, m + 1, a, d)
    OBVIOUS
  <2>1. PICK g : Iterates(g, m, a, d)
    OBVIOUS
  <2> DEFINE h == [i \in 0..(m + 1) |-> IF i = m + 1 THEN 10 * g[m] + d[m + 1] ELSE g[i]]
  <2>2. g \in [0..m -> Nat] /\ g[m] \in Nat /\ d[m + 1] \in Nat
    BY <2>1 DEF Iterates
  <2>3. h \in [0..(m + 1) -> Nat] /\ h[0] = a
    BY <2>1, <2>2 DEF Iterates
  <2>4. ASSUME NEW i \in 1..(m + 1) PROVE h[i] = 10 * h[i - 1] + d[i]
    <3>1. CASE i = m + 1
      BY <3>1
    <3>2. CASE i \in 1..m
      BY <3>2, <2>1 DEF Iterates
    <3> QED
      BY <3>1, <3>2
  <2> HIDE DEF h
  <2>5. Iterates(h, m + 1, a, d)
    BY <2>3, <2>4 DEF Iterates
  <2> QED
    BY <2>5
<1> HIDE DEF T
<1>3. Nat \subseteq T
  BY <1>1, <1>2, Induction
<1> QED
  BY <1>3 DEF T

\* The powers of ten.
LEMMA TenToIs ==
  /\ TenTo \in [Nat -> Nat]
  /\ TenTo[0] = 1
  /\ \A n \in Nat : TenTo[n + 1] = 10 * TenTo[n]
<1> DEFINE d == [i \in Nat |-> 0]
<1> DEFINE G(n) == CHOOSE g : Iterates(g, n, 1, d)
<1> DEFINE f == [n \in Nat |-> G(n)[n]]
<1>1. \A n \in Nat : Iterates(G(n), n, 1, d)
  <2> TAKE n \in Nat
  <2>1. \E g : Iterates(g, n, 1, d)
    BY IteratesExists
  <2> QED
    BY <2>1
<1> HIDE DEF G
<1>2. f \in [Nat -> Nat] /\ f[0] = 1
  BY <1>1 DEF Iterates
<1>3. ASSUME NEW n \in Nat PROVE f[n + 1] = 10 * f[n]
  <2>1. G(n + 1)[n] = G(n)[n]
    BY <1>1, IteratesUnique, n \in 0..n
  <2>2. G(n + 1)[n + 1] = 10 * G(n + 1)[n] + d[n + 1]
    BY <1>1, n + 1 \in 1..(n + 1), (n + 1) - 1 = n DEF Iterates
  <2> QED
    BY <2>1, <2>2, <1>2
<1>4. f = [n \in Nat |-> IF n = 0 THEN 1 ELSE 10 * f[n - 1]]
  <2>1. \A n \in Nat : f[n] = IF n = 0 THEN 1 ELSE 10 * f[n - 1]
    <3> TAKE n \in Nat
    <3>1. CASE n = 0
      BY <3>1, <1>2
    <3>2. CASE n # 0
      BY <3>2, <1>3, n - 1 \in Nat, (n - 1) + 1 = n
    <3> QED
      BY <3>1, <3>2
  <2> HIDE DEF f
  <2> QED
    BY <1>2, <2>1
<1> HIDE DEF f
<1>5. TenTo = [n \in Nat |-> IF n = 0 THEN 1 ELSE 10 * TenTo[n - 1]]
  BY <1>4 DEF TenTo
<1>6. \A n \in Nat : TenTo[n + 1] = 10 * TenTo[n]
  BY <1>5
<1>7. TenTo[0] = 1
  BY <1>5
<1> DEFINE T == {n \in Nat : TenTo[n] \in Nat}
<1>8. Nat \subseteq T
  <2>1. 0 \in T /\ \A n \in Nat : n \in T => n + 1 \in T
    BY <1>6, <1>7
  <2> HIDE DEF T
  <2> QED
    BY <2>1, Induction
<1> QED
  BY <1>5, <1>6, <1>7, <1>8

\* ... are positive.
LEMMA TenToPositive == \A n \in Nat : TenTo[n] \in Nat /\ TenTo[n] > 0
<1> DEFINE T == {n \in Nat : TenTo[n] > 0}
<1>1. 0 \in T /\ \A n \in Nat : n \in T => n + 1 \in T
  BY TenToIs
<1> HIDE DEF T
<1>2. Nat \subseteq T
  BY <1>1, Induction
<1> QED
  BY <1>2, TenToIs DEF T

\* Powers multiply by adding the exponents.
LEMMA TenToAdds == \A m, n \in Nat : TenTo[m + n] = TenTo[m] * TenTo[n]
<1> TAKE m \in Nat
<1> DEFINE T == {n \in Nat : TenTo[m + n] = TenTo[m] * TenTo[n]}
<1>1. 0 \in T
  BY TenToIs
<1>2. \A n \in Nat : n \in T => n + 1 \in T
  <2> TAKE n \in Nat
  <2> SUFFICES ASSUME n \in T PROVE TenTo[m + (n + 1)] = TenTo[m] * TenTo[n + 1]
    OBVIOUS
  <2>1. TenTo[m + (n + 1)] = 10 * TenTo[m + n]
    BY TenToIs, m + n \in Nat, m + (n + 1) = (m + n) + 1
  <2>2. TenTo[n + 1] = 10 * TenTo[n] /\ TenTo[m] \in Nat /\ TenTo[n] \in Nat
    BY TenToIs
  <2> QED
    BY <2>1, <2>2
<1> HIDE DEF T
<1>3. Nat \subseteq T
  BY <1>1, <1>2, Induction
<1> QED
  BY <1>3 DEF T

\* Quotient and remainder.
LEMMA Division ==
  ASSUME NEW a \in Nat, NEW b \in Nat, NEW r \in 0..(b - 1)
  PROVE  (a * b + r) \div b = a /\ (a * b + r) % b = r
OBVIOUS

-----------------------------------------------------------------------------
(***************************************************************************)
(* Strings of digits and the numbers they stand for.                       *)
(***************************************************************************)

\* No digit is written in two ways.
LEMMA DigitCharsDiffer == \A i, j \in 1..10 : DigitChars[i] = DigitChars[j] => i = j
BY DEF DigitChars

\* DigitOf and DigitChars are each other's inverse.
LEMMA DigitOfIs ==
  /\ \A c \in Digits : DigitOf(c) \in 0..9 /\ DigitChars[1 + DigitOf(c)] = c
  /\ \A d \in 0..9 : DigitChars[1 + d] \in Digits /\ DigitOf(DigitChars[1 + d]) = d
BY DigitCharsDiffer DEF Digits, DigitOf

\* The digit 0 is the character 0.
LEMMA ZeroIs ==
  /\ "0" \in Digits /\ DigitOf("0") = 0
  /\ \A c \in Digits : DigitOf(c) = 0 => c = "0"
<1>1. DigitChars[1] = "0"
  BY DEF DigitChars
<1> QED
  BY <1>1, DigitOfIs

\* Characters that are no digits.
LEMMA NoDigits ==
  "." \notin Digits /\ " " \notin Digits
    /\ "e" \notin Digits /\ "E" \notin Digits /\ "+" \notin Digits /\ "-" \notin Digits
    /\ "error" \notin Digits
<1>1. Digits \subseteq {"0", "1", "2", "3", "4", "5", "6", "7", "8", "9"}
  <2>1. \A i \in 1..10 : DigitChars[i] \in {"0", "1", "2", "3", "4", "5", "6", "7", "8", "9"}
    BY DEF DigitChars
  <2> QED
    BY <2>1 DEF Digits
<1> QED
  BY <1>1

\* g[i] is the number of the first i digits of s.
DigitValues(s) == [i \in 1..Len(s) |-> DigitOf(s[i])]
Reads(g, s) == Iterates(g, Len(s), 0, DigitValues(s))

\* What it is at the start and at each digit.
LEMMA ReadsIs ==
  ASSUME NEW s \in Seq(Digits), NEW g
  PROVE  Reads(g, s) <=>
           /\ g \in [0..Len(s) -> Nat] /\ g[0] = 0
           /\ \A i \in 1..Len(s) : g[i] = 10 * g[i - 1] + DigitOf(s[i])
BY DEF Reads, Iterates, DigitValues

\* Numeral reads the whole string, and only one function does.
LEMMA NumeralReads ==
  ASSUME NEW s \in Seq(Digits)
  PROVE  /\ \E g : Reads(g, s)
         /\ \A g : Reads(g, s) => Numeral(s) = g[Len(s)]
<1>1. \E g : Reads(g, s)
  <2>1. Len(s) \in Nat /\ \A i \in 1..Len(s) : DigitValues(s)[i] \in Nat
    BY DigitOfIs DEF DigitValues
  <2> HIDE DEF DigitValues
  <2>2. \E g : Iterates(g, Len(s), 0, DigitValues(s))
    BY <2>1, IteratesExists
  <2> QED
    BY <2>2 DEF Reads
<1> DEFINE Step(h) == [i \in 0..Len(s) |-> IF i = 0 THEN 0 ELSE 10 * h[i - 1] + DigitOf(s[i])]
<1> DEFINE u == CHOOSE h : h = Step(h)
<1>2. \A g : Reads(g, s) => g = Step(g)
  <2> SUFFICES ASSUME NEW g, Reads(g, s) PROVE g = Step(g)
    OBVIOUS
  <2>1. \A i \in 0..Len(s) : g[i] = IF i = 0 THEN 0 ELSE 10 * g[i - 1] + DigitOf(s[i])
    BY ReadsIs
  <2>2. g \in [0..Len(s) -> Nat]
    BY ReadsIs
  <2> QED
    BY <2>1, <2>2
<1>3. u = Step(u)
  BY <1>1, <1>2
<1>4. Numeral(s) = u[Len(s)]
  BY DEF Numeral
<1> HIDE DEF u
<1>5. /\ u[0] = 0
      /\ \A i \in 1..Len(s) : u[i] = 10 * u[i - 1] + DigitOf(s[i])
  BY <1>3
<1>6. ASSUME NEW g, Reads(g, s) PROVE Numeral(s) = g[Len(s)]
  <2> DEFINE T == {i \in Nat : i <= Len(s) => u[i] = g[i]}
  <2>1. 0 \in T
    BY <1>5, <1>6, ReadsIs
  <2>2. ASSUME NEW i \in Nat, i \in T, i + 1 <= Len(s) PROVE u[i + 1] = g[i + 1]
    BY <2>2, <1>5, <1>6, ReadsIs, i + 1 \in 1..Len(s), (i + 1) - 1 = i
  <2>3. \A i \in Nat : i \in T => i + 1 \in T
    BY <2>2
  <2> HIDE DEF T
  <2>4. Nat \subseteq T
    BY <2>1, <2>3, Induction
  <2> QED
    BY <2>4, <1>4, Len(s) \in Nat DEF T
<1> QED
  BY <1>1, <1>6

\* The number of a prefix is on the way to that of the whole.
LEMMA PrefixReads ==
  ASSUME NEW s \in Seq(Digits), NEW t \in Seq(Digits), NEW g, Reads(g, s \o t)
  PROVE  Numeral(s) = g[Len(s)]
<1>1. /\ s \o t \in Seq(Digits) /\ Len(s \o t) = Len(s) + Len(t)
      /\ \A i \in 1..Len(s) : (s \o t)[i] = s[i]
  OBVIOUS
<1> DEFINE h == [i \in 0..Len(s) |-> g[i]]
<1>2. Reads(h, s)
  BY <1>1, ReadsIs
<1> QED
  BY <1>2, NumeralReads

\* A digit more shifts the front and the back.
LEMMA Shift ==
  ASSUME NEW a \in Nat, NEW p \in Nat, NEW b \in Nat, NEW d \in Nat
  PROVE  10 * (a * p + b) + d = a * (10 * p) + (10 * b + d)
OBVIOUS

\* The number of a concatenation: the front is shifted by the length of the
\* back.
LEMMA NumeralConcat ==
  ASSUME NEW s \in Seq(Digits), NEW t \in Seq(Digits)
  PROVE  /\ Numeral(s) \in Nat
         /\ Numeral(s \o t) = Numeral(s) * TenTo[Len(t)] + Numeral(t)
<1>1. /\ s \o t \in Seq(Digits) /\ Len(s \o t) = Len(s) + Len(t)
      /\ \A j \in 1..Len(t) : (s \o t)[Len(s) + j] = t[j]
  OBVIOUS
<1>2. PICK g : Reads(g, s \o t)
  BY <1>1, NumeralReads
<1>3. PICK h : Reads(h, t)
  BY NumeralReads
<1>4. Numeral(s) = g[Len(s)] /\ Numeral(s \o t) = g[Len(s) + Len(t)] /\ Numeral(t) = h[Len(t)]
  BY <1>1, <1>2, <1>3, PrefixReads, NumeralReads
<1>5. g \in [0..(Len(s) + Len(t)) -> Nat] /\ h \in [0..Len(t) -> Nat] /\ Numeral(s) \in Nat
  <2>1. g \in [0..Len(s \o t) -> Nat]
    BY <1>1, <1>2, ReadsIs
  <2>2. h \in [0..Len(t) -> Nat]
    BY <1>3, ReadsIs
  <2>3. Len(s) \in 0..(Len(s) + Len(t))
    OBVIOUS
  <2> QED
    BY <1>1, <1>4, <2>1, <2>2, <2>3
<1> DEFINE T == {j \in Nat : j <= Len(t) => g[Len(s) + j] = Numeral(s) * TenTo[j] + h[j]}
<1>6. 0 \in T
  <2>1. h[0] = 0
    BY <1>3, ReadsIs
  <2>2. TenTo[0] = 1 /\ Len(s) + 0 = Len(s)
    BY TenToIs
  <2> QED
    BY <1>4, <1>5, <2>1, <2>2
<1>7. ASSUME NEW j \in Nat, j \in T, j + 1 <= Len(t)
      PROVE  g[Len(s) + (j + 1)] = Numeral(s) * TenTo[j + 1] + h[j + 1]
  <2>1. h[j + 1] = 10 * h[j] + DigitOf(t[j + 1])
    BY <1>3, <1>7, ReadsIs, j + 1 \in 1..Len(t), (j + 1) - 1 = j
  <2>2. g[Len(s) + (j + 1)] = 10 * g[Len(s) + j] + DigitOf(t[j + 1])
    <3>1. \A i \in 1..Len(s \o t) : g[i] = 10 * g[i - 1] + DigitOf((s \o t)[i])
      BY <1>1, <1>2, ReadsIs
    <3>2. Len(s) + (j + 1) \in 1..Len(s \o t) /\ (Len(s) + (j + 1)) - 1 = Len(s) + j
          /\ j + 1 \in 1..Len(t)
      BY <1>1, <1>7
    <3> QED
      BY <1>1, <3>1, <3>2
  <2>3. g[Len(s) + j] = Numeral(s) * TenTo[j] + h[j]
    BY <1>7
  <2>4. DigitOf(t[j + 1]) \in Nat /\ h[j] \in Nat /\ TenTo[j] \in Nat
    <3>1. t[j + 1] \in Digits /\ j \in 0..Len(t)
      BY <1>7
    <3>2. DigitOf(t[j + 1]) \in 0..9
      BY <3>1, DigitOfIs
    <3>3. TenTo[j] \in Nat
      BY TenToIs
    <3>4. h[j] \in Nat
      BY <1>5, <3>1
    <3> QED
      BY <3>2, <3>3, <3>4
  <2>5. TenTo[j + 1] = 10 * TenTo[j]
    BY TenToIs
  <2>6. 10 * (Numeral(s) * TenTo[j] + h[j]) + DigitOf(t[j + 1])
          = Numeral(s) * (10 * TenTo[j]) + (10 * h[j] + DigitOf(t[j + 1]))
    BY <1>5, <2>4, Shift
  <2> HIDE DEF T
  <2> QED
    BY <2>1, <2>2, <2>3, <2>5, <2>6
<1>8. \A j \in Nat : j \in T => j + 1 \in T
  BY <1>7
<1> HIDE DEF T
<1>9. Nat \subseteq T
  BY <1>6, <1>8, Induction
<1> QED
  BY <1>4, <1>5, <1>9, Len(t) \in Nat DEF T

\* The characters of a concatenation ...
Joins(s, a, b, S) ==
  /\ s \in Seq(S) /\ Len(s) = Len(a) + Len(b)
  /\ \A j \in 1..Len(a) : s[j] = a[j]
  /\ \A j \in 1..Len(b) : s[Len(a) + j] = b[j]

\* ... are those of the two.
LEMMA Joined ==
  ASSUME NEW S, NEW a \in Seq(S), NEW b \in Seq(S)
  PROVE  Joins(a \o b, a, b, S)
BY DEF Joins

\* A string is its first k characters and the rest.
LEMMA Cut ==
  ASSUME NEW S, NEW s \in Seq(S), NEW k \in 0..Len(s), NEW n, n = k + 1
  PROVE  /\ SubSeq(s, 1, k) \in Seq(S) /\ SubSeq(s, n, Len(s)) \in Seq(S)
         /\ s = SubSeq(s, 1, k) \o SubSeq(s, n, Len(s))
<1> DEFINE a == SubSeq(s, 1, k)
           b == SubSeq(s, k + 1, Len(s))
<1>1. /\ a \in Seq(S) /\ Len(a) = k
      /\ \A i \in 1..k : a[i] = s[i]
  OBVIOUS
<1>2. b \in Seq(S)
  OBVIOUS
<1>3. Len(b) = Len(s) - k
  OBVIOUS
<1>4. ASSUME NEW i \in 1..(Len(s) - k) PROVE b[i] = s[k + i]
  <2>1. b[i] = s[(k + 1) + i - 1]
    OBVIOUS
  <2>2. (k + 1) + i - 1 = k + i
    OBVIOUS
  <2> QED
    BY <2>1, <2>2
<1>5. a = SubSeq(s, 1, k) /\ b = SubSeq(s, n, Len(s))
  OBVIOUS
<1> HIDE DEF a, b
<1>6. Joins(a \o b, a, b, S)
  BY <1>1, <1>2, Joined, Zenon
<1> DEFINE q == a \o b
<1> HIDE DEF q
<1>7. Joins(q, a, b, S)
  BY <1>6 DEF q
<1>8. q \in Seq(S) /\ Len(q) = Len(s)
  BY <1>1, <1>3, <1>7 DEF Joins
<1>9. ASSUME NEW i \in 1..Len(s) PROVE q[i] = s[i]
  <2>1. CASE i <= k
    BY <1>1, <1>7, <2>1 DEF Joins
  <2>2. CASE i > k
    <3>1. i - k \in 1..(Len(s) - k) /\ k + (i - k) = i
      BY <2>2
    <3>2. q[k + (i - k)] = b[i - k]
      BY <1>1, <1>3, <1>7, <3>1 DEF Joins
    <3> QED
      BY <1>4, <3>1, <3>2
  <2> QED
    BY <2>1, <2>2
<1>10. s = q
  BY <1>8, <1>9, SeqEqual
<1>11. s = a \o b
  BY <1>10 DEF q
<1> QED
  BY <1>1, <1>2, <1>5, <1>11

\* A number has no more digits than its string.
LEMMA NumeralBound ==
  ASSUME NEW s \in Seq(Digits)
  PROVE  Numeral(s) \in Nat /\ Numeral(s) < TenTo[Len(s)]
<1>1. PICK g : Reads(g, s)
  BY NumeralReads
<1>2. g \in [0..Len(s) -> Nat] /\ g[Len(s)] = Numeral(s) /\ g[0] = 0
  BY <1>1, NumeralReads, ReadsIs
<1> DEFINE T == {i \in Nat : i <= Len(s) => g[i] < TenTo[i]}
<1>3. 0 \in T
  BY <1>2, TenToIs
<1>4. ASSUME NEW i \in Nat, i \in T, i + 1 <= Len(s) PROVE g[i + 1] < TenTo[i + 1]
  <2>1. g[i + 1] = 10 * g[i] + DigitOf(s[i + 1])
    BY <1>1, <1>4, ReadsIs, i + 1 \in 1..Len(s), (i + 1) - 1 = i
  <2>2. DigitOf(s[i + 1]) \in 0..9 /\ g[i] < TenTo[i] /\ g[i] \in Nat
    <3>1. i \in 0..Len(s) /\ i + 1 \in 1..Len(s)
      BY <1>4
    <3>2. s[i + 1] \in Digits /\ g[i] \in Nat
      BY <1>2, <3>1
    <3>3. DigitOf(s[i + 1]) \in 0..9
      BY <3>2, DigitOfIs
    <3>4. g[i] < TenTo[i]
      BY <1>4
    <3> QED
      BY <3>2, <3>3, <3>4
  <2>3. TenTo[i] \in Nat /\ TenTo[i + 1] = 10 * TenTo[i]
    BY TenToIs
  <2>4. ASSUME NEW x \in Nat, NEW y \in Nat, x < y, NEW d \in 0..9
        PROVE  10 * x + d < 10 * y
    BY <2>4
  <2>5. 10 * g[i] + DigitOf(s[i + 1]) < 10 * TenTo[i]
    BY <2>2, <2>3, <2>4
  <2> HIDE DEF T
  <2> QED
    BY <2>1, <2>3, <2>5
<1>5. \A i \in Nat : i \in T => i + 1 \in T
  BY <1>4
<1> HIDE DEF T
<1>6. Nat \subseteq T
  BY <1>3, <1>5, Induction
<1> QED
  BY <1>2, <1>6, Len(s) \in Nat DEF T

\* Only strings of zeros are zero.
AllZero(s) == \A i \in 1..Len(s) : s[i] = "0"

\* The number is 0 only then.
LEMMA NumeralZero ==
  ASSUME NEW s \in Seq(Digits)
  PROVE  Numeral(s) = 0 <=> AllZero(s)
<1>1. PICK g : Reads(g, s)
  BY NumeralReads
<1>2. g \in [0..Len(s) -> Nat] /\ g[Len(s)] = Numeral(s) /\ g[0] = 0
  BY <1>1, NumeralReads, ReadsIs
<1>3. ASSUME NEW i \in 1..Len(s) PROVE g[i] = 10 * g[i - 1] + DigitOf(s[i])
  BY <1>1, ReadsIs
<1>4. ASSUME AllZero(s) PROVE Numeral(s) = 0
  <2> DEFINE T == {i \in Nat : i <= Len(s) => g[i] = 0}
  <2>1. ASSUME NEW i \in Nat, i \in T, i + 1 <= Len(s) PROVE g[i + 1] = 0
    BY <1>3, <1>4, <2>1, ZeroIs, i + 1 \in 1..Len(s), (i + 1) - 1 = i DEF AllZero
  <2>2. 0 \in T /\ \A i \in Nat : i \in T => i + 1 \in T
    BY <1>2, <2>1
  <2> HIDE DEF T
  <2>3. Nat \subseteq T
    BY <2>2, Induction
  <2> QED
    BY <1>2, <2>3, Len(s) \in Nat DEF T
<1>5. ASSUME NEW k \in 1..Len(s), s[k] # "0" PROVE Numeral(s) > 0
  <2> DEFINE T == {i \in Nat : i >= k /\ i <= Len(s) => g[i] > 0}
  <2>1. ASSUME NEW i \in Nat, i \in T, i + 1 >= k, i + 1 <= Len(s) PROVE g[i + 1] > 0
    <3>1. i + 1 \in 1..Len(s) /\ g[i + 1] = 10 * g[i] + DigitOf(s[i + 1]) /\ g[i] \in Nat
          /\ DigitOf(s[i + 1]) \in Nat
      <4>1. i + 1 \in 1..Len(s) /\ (i + 1) - 1 = i /\ i \in 0..Len(s)
        BY <2>1
      <4>2. s[i + 1] \in Digits
        BY <4>1
      <4>3. DigitOf(s[i + 1]) \in 0..9
        BY <4>2, DigitOfIs
      <4>4. g[i + 1] = 10 * g[(i + 1) - 1] + DigitOf(s[i + 1])
        BY <4>1, <1>3
      <4> QED
        BY <4>1, <4>3, <4>4, <1>2
    <3>2. CASE i >= k
      BY <2>1, <3>1, <3>2
    <3>3. CASE i + 1 = k
      <4>1. DigitOf(s[i + 1]) # 0
        BY <1>5, <3>3, ZeroIs
      <4> QED
        BY <3>1, <4>1
    <3> QED
      BY <2>1, <3>2, <3>3
  <2>2. 0 \in T /\ \A i \in Nat : i \in T => i + 1 \in T
    BY <2>1
  <2> HIDE DEF T
  <2>3. Nat \subseteq T
    BY <2>2, Induction
  <2> QED
    BY <1>2, <2>3, Len(s) \in Nat DEF T
<1> QED
  BY <1>2, <1>4, <1>5 DEF AllZero

\* Zeros in front change nothing.
LEMMA LeadingZeros ==
  ASSUME NEW z \in Seq(Digits), AllZero(z), NEW s \in Seq(Digits)
  PROVE  Numeral(z \o s) = Numeral(s)
<1>1. Numeral(z) = 0
  BY NumeralZero
<1>2. Numeral(z \o s) = Numeral(z) * TenTo[Len(s)] + Numeral(s)
  BY NumeralConcat
<1>3. TenTo[Len(s)] \in Nat /\ Numeral(s) \in Nat
  BY TenToIs, NumeralBound, Len(s) \in Nat
<1> QED
  BY <1>1, <1>2, <1>3

\* Zeros behind count as a power.
LEMMA TrailingZeros ==
  ASSUME NEW s \in Seq(Digits), NEW z \in Seq(Digits), AllZero(z)
  PROVE  Numeral(s \o z) = Numeral(s) * TenTo[Len(z)]
<1>1. Numeral(z) = 0
  BY NumeralZero
<1> QED
  BY <1>1, NumeralConcat, NumeralBound, TenToIs

\* Spell gives back what Numeral read.
LEMMA SpellIs ==
  ASSUME NEW s \in Seq(Digits)
  PROVE  Spell(Numeral(s), Len(s)) = s
<1>1. PICK g : Reads(g, s)
  BY NumeralReads
<1>2. ASSUME NEW i \in 1..Len(s)
      PROVE  DigitChars[1 + ((Numeral(s) \div TenTo[Len(s) - i]) % 10)] = s[i]
  <2> DEFINE a == SubSeq(s, 1, i)
             b == SubSeq(s, i + 1, Len(s))
  <2>1. a \in Seq(Digits) /\ b \in Seq(Digits) /\ Len(a) = i /\ Len(b) = Len(s) - i
    OBVIOUS
  <2>2. s = a \o b
    BY <2>1
  <2> HIDE DEF a, b
  <2>3. Numeral(a) = g[i]
    BY <1>1, <2>1, <2>2, PrefixReads
  <2>4. g[i] = g[i - 1] * 10 + DigitOf(s[i]) /\ g[i - 1] \in Nat
    BY <1>1, ReadsIs
  <2>5. DigitOf(s[i]) \in 0..9 /\ DigitChars[1 + DigitOf(s[i])] = s[i]
    BY DigitOfIs
  <2>6. Numeral(s) = Numeral(a) * TenTo[Len(s) - i] + Numeral(b)
    BY <2>1, <2>2, NumeralConcat
  <2>7. Numeral(b) \in 0..(TenTo[Len(s) - i] - 1) /\ TenTo[Len(s) - i] \in Nat
    <3>1. Len(s) - i \in Nat
      OBVIOUS
    <3>2. Numeral(b) \in Nat /\ Numeral(b) < TenTo[Len(s) - i]
      BY <2>1, NumeralBound
    <3>3. TenTo[Len(s) - i] \in Nat
      BY <3>1, TenToIs
    <3> QED
      BY <3>2, <3>3
  <2>8. Numeral(s) \div TenTo[Len(s) - i] = Numeral(a)
    <3>1. Numeral(a) \in Nat
      BY <2>1, NumeralBound
    <3>2. (Numeral(a) * TenTo[Len(s) - i] + Numeral(b)) \div TenTo[Len(s) - i] = Numeral(a)
      BY <3>1, <2>7, Division
    <3> QED
      BY <3>2, <2>6
  <2>9. Numeral(a) % 10 = DigitOf(s[i])
    <3>1. (g[i - 1] * 10 + DigitOf(s[i])) % 10 = DigitOf(s[i])
      BY <2>4, <2>5
    <3> QED
      BY <3>1, <2>3, <2>4
  <2> QED
    BY <2>5, <2>8, <2>9
<1> QED
  BY <1>2 DEF Spell

-----------------------------------------------------------------------------
(***************************************************************************)
(* Trimming.                                                               *)
(***************************************************************************)
AllIn(s, C) == \A i \in 1..Len(s) : s[i] \in C
StartsIn(s, C) == s # << >> /\ s[1] \in C
EndsIn(s, C) == s # << >> /\ s[Len(s)] \in C

\* Min and Max of what TrimLeft and TrimRight look at.
LEMMA MinIs ==
  ASSUME NEW D, D \subseteq Nat, NEW m \in D, \A y \in D : m <= y
  PROVE  Min(D) = m
<1>1. ASSUME NEW x \in D, \A y \in D : x <= y PROVE x = m
  BY <1>1
<1> QED
  BY <1>1 DEF Min

\* The same for the greatest.
LEMMA MaxIs ==
  ASSUME NEW D, D \subseteq Nat, NEW m \in D, \A y \in D : y <= m
  PROVE  Max(D) = m
<1>1. ASSUME NEW x \in D, \A y \in D : x >= y PROVE x = m
  BY <1>1
<1> QED
  BY <1>1 DEF Max

\* What is trimmed on the left goes ...
LEMMA TrimLeftOf ==
  ASSUME NEW S, NEW C, NEW z \in Seq(S), AllIn(z, C), NEW t \in Seq(S), ~StartsIn(t, C)
  PROVE  TrimLeft(z \o t, C) = t
<1> DEFINE s == z \o t
           D == {i \in 1..Len(s) : s[i] \notin C} \cup {Len(s) + 1}
<1>1. /\ s \in Seq(S) /\ Len(s) = Len(z) + Len(t)
      /\ \A i \in 1..Len(z) : s[i] = z[i]
      /\ \A i \in 1..Len(t) : s[Len(z) + i] = t[i]
  OBVIOUS
<1>2. Len(z) + 1 \in D
  <2>1. CASE t = << >>
    BY <1>1, <2>1
  <2>2. CASE t # << >>
    <3>1. 1 \in 1..Len(t)
      BY <2>2
    <3> QED
      BY <1>1, <2>2, <3>1 DEF StartsIn
  <2> QED
    BY <2>1, <2>2
<1>3. \A y \in D : Len(z) + 1 <= y
  BY <1>1 DEF AllIn
<1>4. D \subseteq Nat
  BY <1>1
<1>5. TrimLeft(s, C) = SubSeq(s, Min(D), Len(s))
  BY DEF TrimLeft
<1> HIDE DEF D
<1>6. Min(D) = Len(z) + 1
  BY <1>2, <1>3, <1>4, MinIs
<1>7. SubSeq(s, Len(z) + 1, Len(s)) = t
  BY <1>1
<1> QED
  BY <1>5, <1>6, <1>7

\* ... and what is left starts with something else.
LEMMA TrimLeftSplits ==
  ASSUME NEW S, NEW C, NEW s \in Seq(S)
  PROVE  \E z \in Seq(S), t \in Seq(S) :
           s = z \o t /\ AllIn(z, C) /\ ~StartsIn(t, C) /\ TrimLeft(s, C) = t
<1> DEFINE D == {i \in 1..Len(s) : s[i] \notin C} \cup {Len(s) + 1}
<1>1. PICK m \in D : \A y \in D : m <= y
  BY LeastNumber, D \subseteq Nat, D # {}
<1>2. m \in 1..(Len(s) + 1)
  OBVIOUS
<1> DEFINE z == SubSeq(s, 1, m - 1)
           t == SubSeq(s, m, Len(s))
<1>3. z \in Seq(S) /\ t \in Seq(S) /\ s = z \o t
  <2>1. m - 1 \in 0..Len(s) /\ m = (m - 1) + 1
    BY <1>2
  <2> QED
    BY <2>1, Cut, Zenon
<1>4. AllIn(z, C)
  <2>1. ASSUME NEW i \in 1..Len(z) PROVE z[i] \in C
    <3>1. i \in 1..Len(s) /\ i < m /\ z[i] = s[i]
      BY <1>2
    <3> QED
      BY <1>1, <3>1
  <2> QED
    BY <2>1 DEF AllIn
<1>5. ~StartsIn(t, C)
  <2>1. ASSUME t # << >> PROVE t[1] \notin C
    <3>1. m \in 1..Len(s) /\ t[1] = s[m]
      BY <1>2, <2>1
    <3> QED
      BY <3>1
  <2> QED
    BY <2>1 DEF StartsIn
<1> HIDE DEF z, t
<1> QED
  BY <1>3, <1>4, <1>5, TrimLeftOf

\* The same on the right.
LEMMA TrimRightOf ==
  ASSUME NEW S, NEW C, NEW t \in Seq(S), ~EndsIn(t, C), NEW z \in Seq(S), AllIn(z, C)
  PROVE  TrimRight(t \o z, C) = t
<1> DEFINE s == t \o z
           D == {i \in 1..Len(s) : s[i] \notin C} \cup {0}
<1>1. /\ s \in Seq(S) /\ Len(s) = Len(t) + Len(z)
      /\ \A i \in 1..Len(t) : s[i] = t[i]
      /\ \A i \in 1..Len(z) : s[Len(t) + i] = z[i]
  OBVIOUS
<1>2. Len(t) \in D
  <2>1. CASE t = << >>
    BY <1>1, <2>1
  <2>2. CASE t # << >>
    <3>1. Len(t) \in 1..Len(t)
      BY <2>2
    <3> QED
      BY <1>1, <2>2, <3>1 DEF EndsIn
  <2> QED
    BY <2>1, <2>2
<1>3. ASSUME NEW y \in D PROVE y <= Len(t)
  <2>1. CASE y > Len(t)
    <3>1. y - Len(t) \in 1..Len(z) /\ s[Len(t) + (y - Len(t))] = z[y - Len(t)]
      BY <1>1, <2>1
    <3> QED
      BY <2>1, <3>1 DEF AllIn
  <2> QED
    BY <2>1
<1>4. D \subseteq Nat
  BY <1>1
<1>5. TrimRight(s, C) = SubSeq(s, 1, Max(D))
  BY DEF TrimRight
<1> HIDE DEF D
<1>6. Max(D) = Len(t)
  BY <1>2, <1>3, <1>4, MaxIs
<1>7. SubSeq(s, 1, Len(t)) = t
  BY <1>1
<1> QED
  BY <1>5, <1>6, <1>7

\* ... and what is left ends with something else.
LEMMA TrimRightSplits ==
  ASSUME NEW S, NEW C, NEW s \in Seq(S)
  PROVE  \E t \in Seq(S), z \in Seq(S) :
           s = t \o z /\ AllIn(z, C) /\ ~EndsIn(t, C) /\ TrimRight(s, C) = t
<1> DEFINE D == {i \in 1..Len(s) : s[i] \notin C} \cup {0}
<1>1. PICK m \in D : \A y \in D : y <= m
  <2>1. D \subseteq 0..Len(s) /\ D # {} /\ Len(s) \in Nat
    OBVIOUS
  <2> HIDE DEF D
  <2> QED
    BY <2>1, GreatestNumber
<1>2. m \in 0..Len(s)
  OBVIOUS
<1> DEFINE t == SubSeq(s, 1, m)
           z == SubSeq(s, m + 1, Len(s))
<1>3. t \in Seq(S) /\ z \in Seq(S) /\ s = t \o z
  BY <1>2, Cut, Zenon
<1>4. AllIn(z, C)
  <2>1. ASSUME NEW i \in 1..Len(z) PROVE z[i] \in C
    <3>1. m + i \in 1..Len(s) /\ z[i] = s[m + i]
      BY <1>2
    <3> QED
      BY <1>1, <1>2, <3>1
  <2> QED
    BY <2>1 DEF AllIn
<1>5. ~EndsIn(t, C)
  <2>1. ASSUME t # << >> PROVE t[Len(t)] \notin C
    <3>1. m \in 1..Len(s) /\ t[Len(t)] = s[m]
      BY <1>2, <2>1
    <3> QED
      BY <3>1
  <2> QED
    BY <2>1 DEF EndsIn
<1> HIDE DEF z, t
<1> QED
  BY <1>3, <1>4, <1>5, TrimRightOf

-----------------------------------------------------------------------------
(***************************************************************************)
(* Texts of digits, a point and digits.                                    *)
(***************************************************************************)
\* s is read as the digits i, a point and the digits f.
Reading(s, i, f) ==
  /\ i \in Seq(Digits) /\ f \in Seq(Digits)
  /\ (s = i /\ f = << >>) \/ s = i \o <<".">> \o f

\* The characters of a concatenation with a point.
LEMMA JoinedAtPoint ==
  ASSUME NEW S, NEW a \in Seq(S), NEW b \in Seq(S), NEW p \in Seq(S), Len(p) = 1,
         NEW s, s = a \o p \o b
  PROVE  /\ s \in Seq(S) /\ Len(s) = Len(a) + 1 + Len(b)
         /\ \A j \in 1..Len(a) : s[j] = a[j]
         /\ s[Len(a) + 1] = p[1]
         /\ \A j \in 1..Len(b) : s[Len(a) + 1 + j] = b[j]
<1>1. Joins(a \o p, a, p, S)
  BY Joined
<1>2. a \o p \in Seq(S)
  BY <1>1 DEF Joins
<1>3. Joins(a \o p \o b, a \o p, b, S)
  BY <1>2, Joined, Zenon
<1>4. PICK h : h = a \o p
  OBVIOUS
<1>5. Joins(h, a, p, S) /\ Joins(s, h, b, S)
  BY <1>1, <1>3, <1>4, Zenon
<1> QED
  BY <1>5 DEF Joins

\* The characters of such a text.
LEMMA PointedText ==
  ASSUME NEW i \in Seq(Digits), NEW f \in Seq(Digits), NEW s, s = i \o <<".">> \o f
  PROVE  /\ s \in Seq(Digits \cup {"."}) /\ Len(s) = Len(i) + 1 + Len(f)
         /\ \A j \in 1..Len(i) : s[j] = i[j]
         /\ s[Len(i) + 1] = "."
         /\ \A j \in 1..Len(f) : s[Len(i) + 1 + j] = f[j]
<1> DEFINE S == Digits \cup {"."}
           p == <<".">>
<1>1. i \in Seq(S) /\ f \in Seq(S) /\ p \in Seq(S) /\ Len(p) = 1 /\ p[1] = "."
  OBVIOUS
<1> HIDE DEF S, p
<1>2. s = i \o p \o f
  BY DEF p
<1>3. /\ s \in Seq(S) /\ Len(s) = Len(i) + 1 + Len(f)
      /\ \A j \in 1..Len(i) : s[j] = i[j]
      /\ s[Len(i) + 1] = p[1]
      /\ \A j \in 1..Len(f) : s[Len(i) + 1 + j] = f[j]
  BY <1>1, <1>2, JoinedAtPoint
<1> QED
  BY <1>1, <1>3 DEF S

\* Where its points are ...
LEMMA PointsAre ==
  ASSUME NEW i \in Seq(Digits), NEW f \in Seq(Digits)
  PROVE  /\ Points(i) = {}
         /\ \A s : s = i \o <<".">> \o f =>
              Points(s) = {Len(i) + 1} /\ Min(Points(s)) = Len(i) + 1
<1>1. Points(i) = {}
  <2>1. \A j \in 1..Len(i) : i[j] \in Digits
    OBVIOUS
  <2> QED
    BY <2>1, NoDigits DEF Points
<1>2. ASSUME NEW s, s = i \o <<".">> \o f
      PROVE  Points(s) = {Len(i) + 1} /\ Min(Points(s)) = Len(i) + 1
  <2>1. /\ Len(s) = Len(i) + 1 + Len(f)
        /\ \A j \in 1..Len(i) : s[j] = i[j]
        /\ s[Len(i) + 1] = "."
        /\ \A j \in 1..Len(f) : s[Len(i) + 1 + j] = f[j]
    BY <1>2, PointedText
  <2>2. ASSUME NEW j \in 1..Len(s), j # Len(i) + 1 PROVE s[j] \in Digits
    <3>1. CASE j \in 1..Len(i)
      BY <2>1, <3>1
    <3>2. CASE j > Len(i) + 1
      <4>1. j - (Len(i) + 1) \in 1..Len(f) /\ Len(i) + 1 + (j - (Len(i) + 1)) = j
        BY <2>1, <3>2
      <4>2. s[j] = f[j - (Len(i) + 1)]
        BY <2>1, <4>1
      <4> QED
        BY <4>1, <4>2
    <3> QED
      BY <2>2, <3>1, <3>2
  <2>3. Len(i) + 1 \in 1..Len(s)
    BY <2>1
  <2>4. Points(s) = {Len(i) + 1}
    BY <2>1, <2>2, <2>3, NoDigits DEF Points
  <2> DEFINE D == {Len(i) + 1}
  <2>5. D \subseteq Nat /\ Len(i) + 1 \in D /\ \A y \in D : Len(i) + 1 <= y
    OBVIOUS
  <2>6. Points(s) = D
    BY <2>4
  <2> HIDE DEF D
  <2>7. Min(D) = Len(i) + 1
    BY <2>5, MinIs
  <2> QED
    BY <2>4, <2>6, <2>7
<1> QED
  BY <1>1, <1>2

\* ... and its parts.
LEMMA PartsAre ==
  ASSUME NEW s, NEW i, NEW f, Reading(s, i, f)
  PROVE  /\ IntegerOf(s) = (IF i = << >> THEN <<"0">> ELSE i)
         /\ FractionOf(s) = f
<1>1. i \in Seq(Digits) /\ f \in Seq(Digits)
  BY DEF Reading
<1>2. CASE s = i /\ f = << >>
  BY <1>1, <1>2, PointsAre DEF IntegerOf, FractionOf
<1>3. CASE s = i \o <<".">> \o f
  <2>1. /\ Len(s) = Len(i) + 1 + Len(f) /\ s \in Seq(Digits \cup {"."})
        /\ \A j \in 1..Len(i) : s[j] = i[j]
        /\ \A j \in 1..Len(f) : s[Len(i) + 1 + j] = f[j]
    BY <1>1, <1>3, PointedText
  <2>2. Points(s) # {} /\ Min(Points(s)) = Len(i) + 1
    <3>1. Points(s) = {Len(i) + 1} /\ Min(Points(s)) = Len(i) + 1
      BY <1>1, <1>3, PointsAre
    <3> QED
      BY <3>1
  <2>3. SubSeq(s, 1, Len(i)) = i
    <3> DEFINE a == SubSeq(s, 1, Len(i))
    <3>1. a \in Seq(Digits \cup {"."}) /\ Len(a) = Len(i) /\ \A j \in 1..Len(i) : a[j] = i[j]
      BY <1>1, <2>1
    <3> HIDE DEF a
    <3>2. a = i
      BY <1>1, <3>1, SeqEqual
    <3> QED
      BY <3>2 DEF a
  <2>4. SubSeq(s, Len(i) + 2, Len(s)) = f
    <3> DEFINE b == SubSeq(s, Len(i) + 2, Len(s))
    <3>1. b \in Seq(Digits \cup {"."}) /\ Len(b) = Len(f)
      BY <1>1, <2>1
    <3>2. ASSUME NEW j \in 1..Len(f) PROVE b[j] = f[j]
      <4>1. b[j] = s[(Len(i) + 2) + j - 1] /\ (Len(i) + 2) + j - 1 = Len(i) + 1 + j
        BY <1>1, <2>1
      <4> QED
        BY <2>1, <4>1
    <3> HIDE DEF b
    <3>3. b = f
      BY <1>1, <3>1, <3>2, SeqEqual
    <3> QED
      BY <3>3 DEF b
  <2>5. (Len(i) + 1) - 1 = Len(i) /\ (Len(i) + 1) + 1 = Len(i) + 2
    BY <1>1
  <2> QED
    BY <2>2, <2>3, <2>4, <2>5 DEF IntegerOf, FractionOf
<1> QED
  BY <1>2, <1>3 DEF Reading

\* The text of a reading.
LEMMA ReadingText ==
  ASSUME NEW s, NEW i, NEW f, Reading(s, i, f)
  PROVE  /\ i \in Seq(Digits) /\ f \in Seq(Digits)
         /\ s \in Seq(Digits \cup {"."})
         /\ \A j \in 1..Len(i) : j \in 1..Len(s) /\ s[j] = i[j]
         /\ \A j \in 1..Len(f) : \E k \in 1..Len(s) : s[k] = f[j]
         /\ \A j \in 1..Len(s) :
              \/ s[j] = "."
              \/ \E k \in 1..Len(i) : s[j] = i[k]
              \/ \E k \in 1..Len(f) : s[j] = f[k]
<1>1. i \in Seq(Digits) /\ f \in Seq(Digits)
  BY DEF Reading
<1>2. CASE s = i /\ f = << >>
  <2>1. s \in Seq(Digits \cup {"."})
    BY <1>1, <1>2
  <2>2. Len(f) = 0
    BY <1>2
  <2> QED
    BY <1>1, <1>2, <2>1, <2>2
<1>3. CASE s = i \o <<".">> \o f
  <2>1. /\ Len(s) = Len(i) + 1 + Len(f) /\ s \in Seq(Digits \cup {"."})
        /\ \A j \in 1..Len(i) : s[j] = i[j]
        /\ s[Len(i) + 1] = "."
        /\ \A j \in 1..Len(f) : s[Len(i) + 1 + j] = f[j]
    BY <1>1, <1>3, PointedText
  <2>2. Len(i) \in Nat /\ Len(f) \in Nat
    BY <1>1
  <2>3. ASSUME NEW j \in 1..Len(f) PROVE \E k \in 1..Len(s) : s[k] = f[j]
    <3>1. Len(i) + 1 + j \in 1..Len(s)
      BY <2>1, <2>2
    <3> QED
      BY <2>1, <3>1
  <2>4. ASSUME NEW j \in 1..Len(s), j > Len(i) + 1 PROVE \E k \in 1..Len(f) : s[j] = f[k]
    <3>1. j - (Len(i) + 1) \in 1..Len(f) /\ Len(i) + 1 + (j - (Len(i) + 1)) = j
      BY <2>1, <2>2, <2>4
    <3> QED
      BY <2>1, <3>1
  <2>5. ASSUME NEW j \in 1..Len(s), j < Len(i) + 1 PROVE \E k \in 1..Len(i) : s[j] = i[k]
    <3>1. j \in 1..Len(i)
      BY <2>2, <2>5
    <3> QED
      BY <2>1, <3>1
  <2>6. \A j \in 1..Len(i) : j \in 1..Len(s)
    BY <2>1, <2>2
  <2>7. ASSUME NEW j \in 1..Len(s)
        PROVE  \/ s[j] = "."
               \/ \E k \in 1..Len(i) : s[j] = i[k]
               \/ \E k \in 1..Len(f) : s[j] = f[k]
    BY <2>1, <2>2, <2>4, <2>5
  <2> QED
    BY <1>1, <2>1, <2>3, <2>6, <2>7
<1> QED
  BY <1>2, <1>3 DEF Reading

\* A plain text has a reading ...
LEMMA PlainReads ==
  ASSUME NEW S, NEW s \in Seq(S), IsPlain(s)
  PROVE  \E i, f : Reading(s, i, f)
<1>1. CASE Points(s) = {}
  <2>1. s \in Seq(Digits)
    <3>1. allDigits(s)
      BY <1>1 DEF IsPlain, IntegerOf
    <3> QED
      BY <3>1 DEF allDigits
  <2>2. Reading(s, s, << >>)
    BY <2>1 DEF Reading
  <2> QED
    BY <2>2
<1>2. CASE Points(s) # {}
  <2> DEFINE D == Points(s)
  <2>1. D \subseteq Nat /\ D # {} /\ D \subseteq 1..Len(s)
    BY <1>2 DEF Points
  <2> HIDE DEF D
  <2>2. PICK p \in D : \A y \in D : p <= y
    BY <2>1, LeastNumber
  <2>3. Min(D) = p
    BY <2>1, <2>2, MinIs
  <2>4. p \in 1..Len(s) /\ s[p] = "."
    BY <2>1, <2>2 DEF D, Points
  <2> DEFINE i == SubSeq(s, 1, p - 1)
             r == SubSeq(s, p, Len(s))
             f == SubSeq(s, p + 1, Len(s))
  <2>5. s = i \o r /\ i \in Seq(S) /\ r \in Seq(S)
    <3>1. p - 1 \in 0..Len(s) /\ p = (p - 1) + 1
      BY <2>4
    <3> QED
      BY <3>1, Cut, Zenon
  <2>6. f \in Seq(S) /\ Len(f) = Len(s) - p /\ \A j \in 1..(Len(s) - p) : f[j] = s[p + j]
    <3>1. f \in Seq(S)
      BY <2>4
    <3>2. Len(f) = Len(s) - p
      BY <2>4
    <3>3. ASSUME NEW j \in 1..(Len(s) - p) PROVE f[j] = s[p + j]
      <4>1. f[j] = s[(p + 1) + j - 1] /\ (p + 1) + j - 1 = p + j
        BY <2>4
      <4> QED
        BY <4>1
    <3> QED
      BY <3>1, <3>2, <3>3
  <2>7. r = <<".">> \o f
    <3>1. Len(r) = Len(s) - p + 1 /\ \A j \in 1..(Len(s) - p + 1) : r[j] = s[p - 1 + j]
      BY <2>4
    <3>2. \A j \in 1..(Len(s) - p) : r[1 + j] = f[j]
      BY <2>4, <2>6, <3>1
    <3>3. r[1] = "."
      BY <2>4, <3>1
    <3> DEFINE q == <<".">>
    <3>4. q \in Seq(S) /\ Len(q) = 1 /\ q[1] = "."
      BY <2>4
    <3> HIDE DEF q, r, f
    <3>5. Joins(q \o f, q, f, S)
      BY <2>6, <3>4, Joined, Zenon
    <3> DEFINE t == q \o f
    <3> HIDE DEF t
    <3>6. Joins(t, q, f, S)
      BY <3>5 DEF t
    <3>7. Len(t) = Len(r) /\ t \in Seq(S)
      BY <2>4, <2>6, <3>1, <3>4, <3>6 DEF Joins
    <3>8. ASSUME NEW j \in 1..Len(r) PROVE t[j] = r[j]
      <4>1. CASE j = 1
        BY <3>3, <3>4, <3>6, <4>1 DEF Joins
      <4>2. CASE j # 1
        <5>1. j - 1 \in 1..Len(f) /\ j - 1 \in 1..(Len(s) - p) /\ 1 + (j - 1) = j
          BY <2>4, <2>6, <3>1, <4>2
        <5>2. t[1 + (j - 1)] = f[j - 1]
          BY <3>4, <3>6, <5>1 DEF Joins
        <5> QED
          BY <3>2, <5>1, <5>2
      <4> QED
        BY <4>1, <4>2
    <3>9. t = r
      BY <2>5, <3>7, <3>8, SeqEqual
    <3> QED
      BY <3>9 DEF t, q
  <2>8. i \in Seq(Digits)
    <3> HIDE DEF i
    <3>1. CASE i = << >>
      BY <3>1
    <3>2. CASE i # << >>
      <4>1. IntegerOf(s) = i
        BY <1>2, <2>3, <3>2 DEF IntegerOf, D, i
      <4>2. \A j \in 1..Len(i) : i[j] \in Digits
        BY <4>1 DEF IsPlain, allDigits
      <4> QED
        BY <2>5, <4>2
    <3> QED
      BY <3>1, <3>2
  <2>9. f \in Seq(Digits)
    <3> HIDE DEF f
    <3>1. CASE f = << >>
      BY <3>1
    <3>2. CASE f # << >>
      <4>1. FractionOf(s) = f
        BY <1>2, <2>3 DEF FractionOf, D, f
      <4>2. \A j \in 1..Len(f) : f[j] \in Digits
        BY <3>2, <4>1 DEF IsPlain, allDigits
      <4> QED
        BY <2>6, <4>2
    <3> QED
      BY <3>1, <3>2
  <2> HIDE DEF i, f, r
  <2>10. s = i \o <<".">> \o f
    <3> DEFINE q == <<".">>
    <3>1. s = i \o (q \o f)
      BY <2>5, <2>7
    <3>2. i \in Seq(S) /\ f \in Seq(S) /\ q \in Seq(S)
      BY <2>4, <2>5, <2>6
    <3> HIDE DEF q
    <3>3. (i \o q) \o f = i \o (q \o f)
      BY <3>2, ConcatAssociative
    <3>4. s = i \o q \o f
      BY <3>1, <3>3, Zenon
    <3> QED
      BY <3>4, Zenon DEF q
  <2> QED
    BY <2>8, <2>9, <2>10 DEF Reading
<1> QED
  BY <1>1, <1>2

\* ... and a text with a reading is plain unless it is empty.
LEMMA ReadsPlain ==
  ASSUME NEW s, NEW i, NEW f, Reading(s, i, f), s # << >>
  PROVE  IsPlain(s)
<1>1. /\ i \in Seq(Digits) /\ f \in Seq(Digits) /\ s \in Seq(Digits \cup {"."})
  BY ReadingText
<1>2. \A j \in 1..Len(s) : s[j] \notin {"e", "E", "+", "-"}
  <2>1. \A j \in 1..Len(s) : s[j] \in Digits \cup {"."}
    BY <1>1
  <2> QED
    BY <2>1, NoDigits
<1>3. Cardinality(Points(s)) <= 1
  <2>1. CASE s = i
    <3>1. Points(s) = {}
      BY <1>1, <2>1, PointsAre
    <3> QED
      BY <3>1, FS_EmptySet
  <2>2. CASE s = i \o <<".">> \o f
    <3>1. Points(s) = {Len(i) + 1}
      BY <1>1, <2>2, PointsAre
    <3>2. Cardinality({Len(i) + 1}) = 1
      BY FS_Singleton
    <3> QED
      BY <3>1, <3>2
  <2> QED
    BY <2>1, <2>2 DEF Reading
<1>4. IntegerOf(s) = (IF i = << >> THEN <<"0">> ELSE i) /\ FractionOf(s) = f
  BY PartsAre
<1>5. allDigits(IntegerOf(s))
  <2>1. CASE i = << >>
    BY <1>4, <2>1, ZeroIs DEF allDigits
  <2>2. CASE i # << >>
    BY <1>1, <1>4, <2>2 DEF allDigits
  <2> QED
    BY <2>1, <2>2
<1>6. FractionOf(s) # << >> => allDigits(FractionOf(s))
  BY <1>1, <1>4 DEF allDigits
<1> QED
  BY <1>2, <1>3, <1>5, <1>6 DEF IsPlain

\* Zero is zero on both sides of the point.
LEMMA IsZeroIs ==
  ASSUME NEW s, NEW i, NEW f, Reading(s, i, f)
  PROVE  IsZero(s) <=> AllZero(i) /\ AllZero(f)
<1>1. /\ i \in Seq(Digits) /\ f \in Seq(Digits)
      /\ \A j \in 1..Len(i) : j \in 1..Len(s) /\ s[j] = i[j]
      /\ \A j \in 1..Len(f) : \E k \in 1..Len(s) : s[k] = f[j]
      /\ \A j \in 1..Len(s) :
              \/ s[j] = "."
              \/ \E k \in 1..Len(i) : s[j] = i[k]
              \/ \E k \in 1..Len(f) : s[j] = f[k]
  <2>1. i \in Seq(Digits) /\ f \in Seq(Digits)
    BY DEF Reading
  <2>2. \A j \in 1..Len(i) : j \in 1..Len(s) /\ s[j] = i[j]
    BY ReadingText
  <2>3. \A j \in 1..Len(f) : \E k \in 1..Len(s) : s[k] = f[j]
    BY ReadingText
  <2>4. \A j \in 1..Len(s) : \/ s[j] = "."
                             \/ \E k \in 1..Len(i) : s[j] = i[k]
                             \/ \E k \in 1..Len(f) : s[j] = f[k]
    BY ReadingText
  <2> QED
    BY <2>1, <2>2, <2>3, <2>4, Zenon
<1>2. ASSUME IsZero(s) PROVE AllZero(i) /\ AllZero(f)
  <2>1. ASSUME NEW j \in 1..Len(i) PROVE i[j] = "0"
    <3>1. i[j] \in {"0", "."} /\ i[j] \in Digits
      BY <1>1, <1>2 DEF IsZero
    <3> QED
      BY <3>1, NoDigits
  <2>2. ASSUME NEW j \in 1..Len(f) PROVE f[j] = "0"
    <3>1. f[j] \in {"0", "."} /\ f[j] \in Digits
      BY <1>1, <1>2 DEF IsZero
    <3> QED
      BY <3>1, NoDigits
  <2> QED
    BY <2>1, <2>2 DEF AllZero
<1>3. ASSUME AllZero(i), AllZero(f) PROVE IsZero(s)
  BY <1>1, <1>3 DEF AllZero, IsZero
<1> QED
  BY <1>2, <1>3

\* The amount of a reading is 0 exactly then.
LEMMA AmountIs ==
  ASSUME NEW i \in Seq(Digits), NEW f \in Seq(Digits), Len(f) <= Precision
  PROVE  /\ Amount(i, f) \in Nat
         /\ Amount(i, f) = 0 <=> AllZero(i) /\ AllZero(f)
<1>1. Precision \in Nat /\ Precision - Len(f) \in Nat
  BY RateAssumption
<1>2. /\ TenTo[Precision] \in Nat /\ TenTo[Precision] > 0
      /\ TenTo[Precision - Len(f)] \in Nat /\ TenTo[Precision - Len(f)] > 0
  BY <1>1, TenToPositive
<1>3. Numeral(i) \in Nat /\ Numeral(f) \in Nat
  BY NumeralBound
<1>4. (Numeral(i) = 0 <=> AllZero(i)) /\ (Numeral(f) = 0 <=> AllZero(f))
  BY NumeralZero
<1>5. ASSUME NEW a \in Nat, NEW b \in Nat, NEW c \in Nat \ {0}, NEW d \in Nat \ {0}
      PROVE  a * c + b * d \in Nat /\ (a * c + b * d = 0 <=> a = 0 /\ b = 0)
  OBVIOUS
<1>6. PICK a, b, c, d : /\ a = Numeral(i) /\ b = Numeral(f)
                        /\ c = TenTo[Precision] /\ d = TenTo[Precision - Len(f)]
  OBVIOUS
<1>7. Amount(i, f) = a * c + b * d
  BY <1>6 DEF Amount
<1>8. a \in Nat /\ b \in Nat /\ c \in Nat \ {0} /\ d \in Nat \ {0}
  BY <1>2, <1>3, <1>6
<1>9. a * c + b * d \in Nat /\ (a * c + b * d = 0 <=> a = 0 /\ b = 0)
  BY <1>5, <1>8
<1> QED
  BY <1>4, <1>6, <1>7, <1>9

-----------------------------------------------------------------------------
(***************************************************************************)
(* The canonical text.                                                     *)
(***************************************************************************)
\* The text of an integer part and a fraction, and those that are canonical.
Write(w, f) == IF f = << >> THEN w ELSE w \o <<".">> \o f

IsCanonical(w, f) ==
  /\ w \in Seq(Digits) /\ f \in Seq(Digits)
  /\ w # << >> /\ Len(w) <= Precision /\ Len(f) <= Precision
  /\ w = <<"0">> \/ w[1] # "0"
  /\ w = <<"0">> => f # << >>
  /\ ~EndsIn(f, {"0"})

\* Its reading, its parts and its amount.
LEMMA CanonicalReads ==
  ASSUME NEW w, NEW f, IsCanonical(w, f)
  PROVE  /\ Reading(Write(w, f), w, f)
         /\ IntegerOf(Write(w, f)) = w /\ FractionOf(Write(w, f)) = f
         /\ Numeric(Write(w, f)) = Amount(w, f)
         /\ Amount(w, f) \in Nat /\ Amount(w, f) > 0
         /\ Write(w, f) # ERROR
<1>1. Reading(Write(w, f), w, f)
  BY DEF Write, Reading, IsCanonical
<1>2. IntegerOf(Write(w, f)) = w /\ FractionOf(Write(w, f)) = f
  BY <1>1, PartsAre DEF IsCanonical
<1>3. Numeric(Write(w, f)) = Amount(w, f)
  BY <1>2 DEF Numeric, Amount, IsCanonical
<1>4. ~(AllZero(w) /\ AllZero(f))
  <2>1. CASE w = <<"0">>
    <3>1. f \in Seq(Digits) /\ f # << >> /\ f[Len(f)] # "0"
      BY <2>1 DEF IsCanonical, EndsIn
    <3> QED
      BY <3>1, Len(f) \in 1..Len(f) DEF AllZero
  <2>2. CASE w # <<"0">>
    <3>1. w \in Seq(Digits) /\ w # << >> /\ w[1] # "0"
      BY <2>2 DEF IsCanonical
    <3> QED
      BY <3>1, 1 \in 1..Len(w) DEF AllZero
  <2> QED
    BY <2>1, <2>2
<1>5. Amount(w, f) \in Nat /\ Amount(w, f) > 0
  <2>1. w \in Seq(Digits) /\ f \in Seq(Digits) /\ Len(f) <= Precision
    BY DEF IsCanonical
  <2>2. Amount(w, f) \in Nat /\ (Amount(w, f) = 0 <=> AllZero(w) /\ AllZero(f))
    BY <2>1, AmountIs
  <2> QED
    BY <1>4, <2>2
<1>6. Write(w, f) # ERROR
  <2>1. Write(w, f) \in Seq(Digits \cup {"."})
    BY <1>1, ReadingText
  <2>2. "error" \notin Digits \cup {"."}
    BY NoDigits
  <2>3. Len(ERROR) = 1 /\ ERROR[1] = "error"
    BY DEF ERROR
  <2> QED
    BY <2>1, <2>2, <2>3
<1> QED
  BY <1>1, <1>2, <1>3, <1>5, <1>6

\* Zeros in front of an integer part go, but one.
LEMMA WholeIs ==
  ASSUME NEW z \in Seq({"0"}), NEW w \in Seq(Digits), w # << >>,
         w = <<"0">> \/ w[1] # "0"
  PROVE  LET t == TrimLeft(z \o w, {"0"}) IN (IF t = << >> THEN <<"0">> ELSE t) = w
<1> DEFINE t == TrimLeft(z \o w, {"0"})
<1>1. z \in Seq(Digits) /\ AllIn(z, {"0"})
  BY ZeroIs DEF AllIn
<1>2. CASE w[1] # "0"
  <2>1. ~StartsIn(w, {"0"})
    BY <1>2 DEF StartsIn
  <2>2. t = w
    BY <1>1, <2>1, TrimLeftOf
  <2> HIDE DEF t
  <2> QED
    BY <2>2 DEF t
<1>3. CASE w = <<"0">>
  <2>1. << >> \in Seq(Digits) /\ ~StartsIn(<< >>, {"0"})
    BY DEF StartsIn
  <2> DEFINE y == z \o w
  <2>2. y \in Seq(Digits) /\ AllIn(y, {"0"}) /\ y \o << >> = y
    <3>1. Joins(z \o w, z, w, Digits)
      BY <1>1, Joined
    <3>2. y \in Seq(Digits) /\ Len(y) = Len(z) + 1
      BY <1>3, <3>1 DEF Joins
    <3>3. ASSUME NEW j \in 1..Len(y) PROVE y[j] = "0"
      <4>1. CASE j \in 1..Len(z)
        BY <1>1, <3>1, <4>1 DEF Joins, AllIn
      <4>2. CASE j = Len(z) + 1
        BY <1>3, <3>1, <4>2 DEF Joins
      <4> QED
        BY <1>1, <3>2, <4>1, <4>2
    <3> HIDE DEF y
    <3>4. y \o << >> = y
      BY <3>2, ConcatEmptySeq
    <3> QED
      BY <3>2, <3>3, <3>4 DEF AllIn
  <2> HIDE DEF y
  <2>3. TrimLeft(y \o << >>, {"0"}) = << >>
    BY <2>1, <2>2, TrimLeftOf, Zenon
  <2>4. t = << >>
    BY <2>2, <2>3 DEF y
  <2> HIDE DEF t
  <2> QED
    BY <1>3, <2>4 DEF t
<1> QED
  BY <1>2, <1>3

\* Canonical writes the canonical text of the amount it is given.
LEMMA CanonicalIs ==
  ASSUME NEW s, NEW i, NEW f, Reading(s, i, f), s # << >>, Fits(s), ~IsZero(s)
  PROVE  \E w, g : /\ IsCanonical(w, g) /\ Canonical(s) = Write(w, g)
                   /\ Amount(w, g) = Amount(i, f)
<1>1. PICK n : n = (IF i = << >> THEN <<"0">> ELSE i)
  OBVIOUS
<1>2. /\ i \in Seq(Digits) /\ f \in Seq(Digits) /\ n \in Seq(Digits) /\ n # << >>
      /\ IntegerOf(s) = n /\ FractionOf(s) = f
      /\ Len(n) <= Precision /\ Len(f) <= Precision
  <2>1. IntegerOf(s) = n /\ FractionOf(s) = f
    BY <1>1, PartsAre
  <2>2. i \in Seq(Digits) /\ f \in Seq(Digits)
    BY DEF Reading
  <2>3. n \in Seq(Digits) /\ n # << >>
    BY <1>1, <2>2, ZeroIs
  <2> QED
    BY <2>1, <2>2, <2>3 DEF Fits
<1>3. Numeral(n) = Numeral(i)
  <2>1. CASE i = << >>
    <3>1. n \in Seq(Digits) /\ AllZero(n) /\ AllZero(i)
      BY <1>1, <1>2, <2>1 DEF AllZero
    <3>2. Numeral(n) = 0 /\ Numeral(i) = 0
      BY <1>2, <3>1, NumeralZero
    <3> QED
      BY <3>2
  <2>2. CASE i # << >>
    BY <1>1, <2>2
  <2> QED
    BY <2>1, <2>2
<1>4. PICK z \in Seq(Digits), t \in Seq(Digits) :
        n = z \o t /\ AllIn(z, {"0"}) /\ ~StartsIn(t, {"0"}) /\ TrimLeft(n, {"0"}) = t
  BY <1>2, TrimLeftSplits
<1>5. PICK g \in Seq(Digits), y \in Seq(Digits) :
        f = g \o y /\ AllIn(y, {"0"}) /\ ~EndsIn(g, {"0"}) /\ TrimRight(f, {"0"}) = g
  BY <1>2, TrimRightSplits
<1>6. PICK w : w = (IF t = << >> THEN <<"0">> ELSE t)
  OBVIOUS
<1>7. Canonical(s) = Write(w, g)
  BY <1>2, <1>4, <1>5, <1>6 DEF Canonical, Write
<1>8. w \in Seq(Digits) /\ w # << >> /\ (w = <<"0">> \/ w[1] # "0") /\ Len(w) <= Len(n)
  <2>1. Len(n) = Len(z) + Len(t) /\ Len(n) >= 1
    BY <1>2, <1>4
  <2>2. CASE t = << >>
    BY <1>6, <2>1, <2>2, ZeroIs
  <2>3. CASE t # << >>
    BY <1>4, <1>6, <2>1, <2>3 DEF StartsIn
  <2> QED
    BY <2>2, <2>3
<1>9. Len(f) = Len(g) + Len(y) /\ Len(g) \in Nat /\ Len(y) \in Nat
  BY <1>5
<1>10. Numeral(w) = Numeral(n)
  <2>1. AllZero(z)
    BY <1>4 DEF AllIn, AllZero
  <2>2. Numeral(n) = Numeral(t)
    BY <1>4, <2>1, LeadingZeros
  <2>3. CASE t = << >>
    <3>1. AllZero(w) /\ AllZero(t)
      BY <1>6, <2>3 DEF AllZero
    <3>2. Numeral(w) = 0 /\ Numeral(t) = 0
      BY <1>4, <1>8, <3>1, NumeralZero
    <3> QED
      BY <2>2, <3>2
  <2>4. CASE t # << >>
    BY <1>6, <2>2, <2>4
  <2> QED
    BY <2>3, <2>4
<1>11. Numeral(f) = Numeral(g) * TenTo[Len(y)]
  BY <1>5, TrailingZeros DEF AllIn, AllZero
<1>12. Amount(w, g) = Amount(i, f)
  <2>1. Precision - Len(f) \in Nat /\ Precision - Len(g) = Len(y) + (Precision - Len(f))
    BY <1>2, <1>9, RateAssumption
  <2>2. TenTo[Precision - Len(g)] = TenTo[Len(y)] * TenTo[Precision - Len(f)]
    BY <1>9, <2>1, TenToAdds
  <2>3. TenTo[Len(y)] \in Nat /\ TenTo[Precision - Len(f)] \in Nat /\ Numeral(g) \in Nat
    BY <1>5, <1>9, <2>1, TenToIs, NumeralBound
  <2>4. Numeral(f) * TenTo[Precision - Len(f)] = Numeral(g) * TenTo[Precision - Len(g)]
    BY <1>11, <2>2, <2>3
  <2> QED
    BY <1>3, <1>10, <2>4 DEF Amount
<1>13. Len(w) <= Precision /\ Len(g) <= Precision
  <2>1. /\ Len(w) \in Nat /\ Len(n) \in Nat /\ Precision \in Nat
        /\ Len(w) <= Len(n) /\ Len(n) <= Precision /\ Len(f) <= Precision
    BY <1>2, <1>8, RateAssumption
  <2> HIDE RateAssumption
  <2> QED
    BY <1>9, <2>1
<1>14. w = <<"0">> => g # << >>
  <2>1. ASSUME w = <<"0">>, g = << >> PROVE FALSE
    <3>1. AllZero(w) /\ AllZero(g)
      BY <2>1 DEF AllZero
    <3>2. Amount(w, g) = 0
      BY <1>8, <1>13, <3>1, AmountIs
    <3>3. AllZero(i) /\ AllZero(f)
      BY <1>2, <1>12, <3>2, AmountIs
    <3> QED
      BY <3>3, IsZeroIs
  <2> QED
    BY <2>1
<1>15. IsCanonical(w, g)
  BY <1>5, <1>8, <1>13, <1>14 DEF IsCanonical
<1> QED
  BY <1>7, <1>12, <1>15

\* A string of k zeros.
LEMMA Zeros ==
  ASSUME NEW k \in Nat
  PROVE  \E z \in Seq({"0"}) : z \in Seq(Digits) /\ Len(z) = k /\ AllZero(z) /\ AllIn(z, {"0"})
<1> DEFINE z == [j \in 1..k |-> "0"]
<1>1. z \in Seq({"0"}) /\ Len(z) = k /\ \A j \in 1..k : z[j] = "0"
  OBVIOUS
<1> HIDE DEF z
<1>2. z \in Seq(Digits)
  BY <1>1, ZeroIs
<1> QED
  BY <1>1, <1>2 DEF AllZero, AllIn

\* What the column's text is: the canonical digits, the fraction filled up
\* with zeros.
LEMMA NumericTextIs ==
  ASSUME NEW w, NEW f, IsCanonical(w, f)
  PROVE  \E z \in Seq({"0"}) :
           /\ Len(f \o z) = Precision /\ f \o z \in Seq(Digits) /\ AllIn(z, {"0"})
           /\ NumericText(Amount(w, f)) = w \o <<".">> \o (f \o z)
<1>1. /\ w \in Seq(Digits) /\ f \in Seq(Digits) /\ Len(w) \in Nat /\ Len(f) \in Nat
      /\ Len(w) <= Precision /\ Len(f) <= Precision /\ Precision \in Nat
      /\ w # << >> /\ (w = <<"0">> \/ w[1] # "0")
  BY RateAssumption DEF IsCanonical
<1>2. PICK z \in Seq({"0"}) :
        z \in Seq(Digits) /\ Len(z) = Precision - Len(f) /\ AllZero(z) /\ AllIn(z, {"0"})
  <2>1. Precision - Len(f) \in Nat
    BY <1>1
  <2> QED
    BY <2>1, Zeros
<1>3. PICK y \in Seq({"0"}) :
        y \in Seq(Digits) /\ Len(y) = Precision - Len(w) /\ AllZero(y) /\ AllIn(y, {"0"})
  <2>1. Precision - Len(w) \in Nat
    BY <1>1
  <2> QED
    BY <2>1, Zeros
<1>4. PICK g : g = f \o z
  OBVIOUS
<1>5. g \in Seq(Digits) /\ Len(g) = Precision
  <2>1. Joins(f \o z, f, z, Digits)
    BY <1>1, <1>2, Joined
  <2>2. Joins(g, f, z, Digits)
    BY <1>4, <2>1
  <2> QED
    BY <1>1, <1>2, <2>2 DEF Joins
<1>6. PICK v : v = y \o w
  OBVIOUS
<1>7. v \in Seq(Digits) /\ Len(v) = Precision
  <2>1. Joins(y \o w, y, w, Digits)
    BY <1>1, <1>3, Joined
  <2>2. Joins(v, y, w, Digits)
    BY <1>6, <2>1
  <2> QED
    BY <1>1, <1>3, <2>2 DEF Joins
<1>8. Numeral(g) = Numeral(f) * TenTo[Precision - Len(f)]
  BY <1>1, <1>2, <1>4, TrailingZeros
<1>9. Numeral(v) = Numeral(w)
  BY <1>1, <1>3, <1>6, LeadingZeros
<1>10. PICK m : m = TenTo[Precision]
  OBVIOUS
<1>11. /\ m \in Nat /\ Numeral(w) \in Nat /\ Numeral(g) \in Nat /\ Numeral(g) < m
       /\ Amount(w, f) = Numeral(w) * m + Numeral(g)
  <2>1. m \in Nat
    BY <1>1, <1>10, TenToPositive
  <2>2. Numeral(w) \in Nat
    BY <1>1, NumeralBound
  <2>3. Numeral(g) \in Nat /\ Numeral(g) < m
    BY <1>5, <1>10, NumeralBound
  <2>4. Amount(w, f) = Numeral(w) * m + Numeral(g)
    BY <1>8, <1>10 DEF Amount
  <2> QED
    BY <2>1, <2>2, <2>3, <2>4
<1>12. Amount(w, f) \div m = Numeral(w) /\ Amount(w, f) % m = Numeral(g)
  <2>1. Numeral(g) \in 0..(m - 1)
    BY <1>11
  <2>2. /\ (Numeral(w) * m + Numeral(g)) \div m = Numeral(w)
        /\ (Numeral(w) * m + Numeral(g)) % m = Numeral(g)
    BY <1>11, <2>1, Division
  <2> QED
    BY <1>11, <2>2
<1>13. Spell(Numeral(w), Precision) = y \o w
  <2>1. Spell(Numeral(v), Len(v)) = v
    BY <1>7, SpellIs
  <2> QED
    BY <1>6, <1>7, <1>9, <2>1
<1>14. Spell(Numeral(g), Precision) = g
  <2>1. Spell(Numeral(g), Len(g)) = g
    BY <1>5, SpellIs
  <2> QED
    BY <1>5, <2>1
<1>15. (IF TrimLeft(y \o w, {"0"}) = << >> THEN <<"0">> ELSE TrimLeft(y \o w, {"0"})) = w
  BY <1>1, WholeIs
<1>16. NumericText(Amount(w, f)) = w \o <<".">> \o g
  BY <1>10, <1>12, <1>13, <1>14, <1>15 DEF NumericText
<1> QED
  BY <1>2, <1>4, <1>5, <1>16

\* A text of digits and points has no spaces to lose.
LEMMA TrimSpaceIs ==
  ASSUME NEW s \in Seq(Digits \cup {"."})
  PROVE  TrimSpace(s) = s
<1>1. \A j \in 1..Len(s) : s[j] # " "
  <2>1. \A j \in 1..Len(s) : s[j] \in Digits \cup {"."}
    OBVIOUS
  <2> QED
    BY <2>1, NoDigits
<1>2. ~StartsIn(s, {" "}) /\ ~EndsIn(s, {" "})
  <2>1. s # << >> => 1 \in 1..Len(s) /\ Len(s) \in 1..Len(s)
    OBVIOUS
  <2> QED
    BY <1>1, <2>1 DEF StartsIn, EndsIn
<1>3. PICK S : S = Digits \cup {"."}
  OBVIOUS
<1>4. s \in Seq(S) /\ << >> \in Seq(S) /\ AllIn(<< >>, {" "})
  BY <1>3 DEF AllIn
<1>5. << >> \o s = s /\ s \o << >> = s
  BY <1>4, ConcatEmptySeq
<1>6. TrimRight(s \o << >>, {" "}) = s
  BY <1>2, <1>4, TrimRightOf
<1>7. TrimLeft(<< >> \o s, {" "}) = s
  BY <1>2, <1>4, TrimLeftOf
<1> QED
  BY <1>5, <1>6, <1>7 DEF TrimSpace

\* What the column's text is read as: the text that was stored.
LEMMA RoundTrip ==
  ASSUME NEW w, NEW f, IsCanonical(w, f)
  PROVE  ParseRate(NumericText(Amount(w, f))) = Write(w, f)
<1>1. PICK z \in Seq({"0"}) :
        /\ Len(f \o z) = Precision /\ f \o z \in Seq(Digits) /\ AllIn(z, {"0"})
        /\ NumericText(Amount(w, f)) = w \o <<".">> \o (f \o z)
  BY NumericTextIs
<1>2. PICK s : s = NumericText(Amount(w, f))
  OBVIOUS
<1>3. PICK g : g = f \o z
  OBVIOUS
<1>4. /\ w \in Seq(Digits) /\ f \in Seq(Digits) /\ z \in Seq(Digits)
      /\ w # << >> /\ Len(w) <= Precision /\ (w = <<"0">> \/ w[1] # "0")
      /\ ~EndsIn(f, {"0"})
  BY <1>1, ZeroIs DEF IsCanonical
<1>5. Reading(s, w, g)
  BY <1>1, <1>2, <1>3, <1>4 DEF Reading
<1>6. s # << >> /\ s \in Seq(Digits \cup {"."})
  <2>1. s \in Seq(Digits \cup {"."}) /\ \A j \in 1..Len(w) : j \in 1..Len(s)
    BY <1>5, ReadingText
  <2> QED
    BY <1>4, <2>1, 1 \in 1..Len(w)
<1>7. TrimSpace(s) = s
  BY <1>6, TrimSpaceIs
<1>8. IntegerOf(s) = w /\ FractionOf(s) = g
  BY <1>4, <1>5, PartsAre
<1>9. IsPlain(s)
  BY <1>5, <1>6, ReadsPlain
<1>10. Fits(s)
  BY <1>1, <1>3, <1>4, <1>8, RateAssumption DEF Fits
<1>11. ~IsZero(s)
  <2>1. SUFFICES ASSUME AllZero(w), AllZero(g) PROVE FALSE
    BY <1>5, IsZeroIs
  <2>2. AllZero(f)
    <3>1. Joins(f \o z, f, z, Digits)
      BY <1>4, Joined
    <3>2. Joins(g, f, z, Digits)
      BY <1>3, <3>1
    <3>3. ASSUME NEW j \in 1..Len(f) PROVE f[j] = "0"
      <4>1. j \in 1..Len(g) /\ g[j] = f[j]
        BY <1>4, <3>2 DEF Joins
      <4> QED
        BY <2>1, <4>1 DEF AllZero
    <3> QED
      BY <3>3 DEF AllZero
  <2>3. Amount(w, f) = 0
    <3>1. Len(f) <= Precision
      BY DEF IsCanonical
    <3> QED
      BY <1>4, <2>1, <2>2, <3>1, AmountIs
  <2> QED
    BY <2>3, CanonicalReads
<1>12. TrimRight(g, {"0"}) = f
  BY <1>1, <1>3, <1>4, TrimRightOf
<1>13. (IF TrimLeft(w, {"0"}) = << >> THEN <<"0">> ELSE TrimLeft(w, {"0"})) = w
  <2>1. << >> \o w = w
    BY <1>4, ConcatEmptySeq
  <2>2. (IF TrimLeft(<< >> \o w, {"0"}) = << >> THEN <<"0">> ELSE TrimLeft(<< >> \o w, {"0"})) = w
    BY <1>4, WholeIs, << >> \in Seq({"0"})
  <2> QED
    BY <2>1, <2>2
<1>14. Canonical(s) = Write(w, f)
  BY <1>8, <1>12, <1>13 DEF Canonical, Write
<1> QED
  BY <1>2, <1>7, <1>9, <1>10, <1>11, <1>14 DEF ParseRate

-----------------------------------------------------------------------------
(***************************************************************************)
(* The invariant: what has been accepted is the canonical text of the      *)
(* amount that was sent, and the column holds that amount.                 *)
(***************************************************************************)
RateInv ==
  /\ value \in Inputs
  /\ pc \in {"raw", "parsed", "stored", "read", "refused"}
  /\ pc = "refused" => \A r \in Readings : Amount(r[1], r[2]) = 0
  /\ pc \in {"parsed", "stored", "read"} =>
       /\ IsCanonical(IntegerOf(rate), FractionOf(rate))
       /\ rate = Write(IntegerOf(rate), FractionOf(rate))
       /\ \E r \in Readings : Amount(r[1], r[2]) = Numeric(rate)
  /\ pc \in {"stored", "read"} => column = Numeric(rate)

\* The readings of the text that was sent are those within the precision.
LEMMA ReadingsAre ==
  ASSUME value \in Inputs
  PROVE  /\ TrimSpace(value) \in Seq(Characters)
         /\ \A r \in Readings : /\ Reading(TrimSpace(value), r[1], r[2])
                                /\ Len(r[1]) <= Precision /\ Len(r[2]) <= Precision
         /\ \A i, f : /\ Reading(TrimSpace(value), i, f)
                      /\ Len(i) <= Precision /\ Len(f) <= Precision
                      => \E r \in Readings : r[1] = i /\ r[2] = f
<1>1. value \in Seq(Characters)
  BY DEF Inputs
<1>2. PICK s : s = TrimSpace(value)
  OBVIOUS
<1>3. s \in Seq(Characters)
  <2>1. TrimRight(value, {" "}) \in Seq(Characters)
    BY <1>1, TrimRightSplits
  <2>2. TrimLeft(TrimRight(value, {" "}), {" "}) \in Seq(Characters)
    BY <2>1, TrimLeftSplits
  <2> QED
    BY <1>2, <2>2 DEF TrimSpace
<1> DEFINE parts == UNION {[1..n -> Digits \cap Characters] : n \in 0..Precision}
<1>4. \A x \in parts : x \in Seq(Digits) /\ Len(x) <= Precision
  <2> TAKE x \in parts
  <2>1. PICK n \in 0..Precision : x \in [1..n -> Digits \cap Characters]
    OBVIOUS
  <2>2. n \in Nat /\ n <= Precision
    BY <2>1, RateAssumption
  <2>3. x \in [1..n -> Digits]
    BY <2>1
  <2> QED
    BY <2>2, <2>3
<1>5. ASSUME NEW x \in Seq(Digits), Len(x) <= Precision, \A j \in 1..Len(x) : x[j] \in Characters
      PROVE  x \in parts
  <2>1. Len(x) \in 0..Precision
    BY <1>5, RateAssumption
  <2>2. x \in [1..Len(x) -> Digits \cap Characters]
    BY <1>5
  <2> QED
    BY <2>1, <2>2
<1>6. Readings = {r \in parts \X parts :
                    (s = r[1] /\ r[2] = << >>) \/ s = r[1] \o <<".">> \o r[2]}
  BY <1>2 DEF Readings
<1> HIDE DEF parts
<1>7. ASSUME NEW r \in Readings
      PROVE  Reading(s, r[1], r[2]) /\ Len(r[1]) <= Precision /\ Len(r[2]) <= Precision
  <2>1. r[1] \in parts /\ r[2] \in parts
        /\ ((s = r[1] /\ r[2] = << >>) \/ s = r[1] \o <<".">> \o r[2])
    BY <1>6
  <2> QED
    BY <1>4, <2>1 DEF Reading
<1>8. ASSUME NEW i, NEW f, Reading(s, i, f), Len(i) <= Precision, Len(f) <= Precision
      PROVE  \E r \in Readings : r[1] = i /\ r[2] = f
  <2>1. /\ i \in Seq(Digits) /\ f \in Seq(Digits)
        /\ \A j \in 1..Len(i) : j \in 1..Len(s) /\ s[j] = i[j]
        /\ \A j \in 1..Len(f) : \E k \in 1..Len(s) : s[k] = f[j]
    BY <1>8, ReadingText
  <2>2. \A j \in 1..Len(s) : s[j] \in Characters
    BY <1>3
  <2>3. i \in parts /\ f \in parts
    BY <1>5, <1>8, <2>1, <2>2
  <2>4. (s = i /\ f = << >>) \/ s = i \o <<".">> \o f
    BY <1>8 DEF Reading
  <2> DEFINE q == <<i, f>>
  <2>5. q \in parts \X parts /\ q[1] = i /\ q[2] = f
    BY <2>3
  <2> HIDE DEF q
  <2>6. q \in Readings
    BY <1>6, <2>4, <2>5
  <2> QED
    BY <2>5, <2>6
<1> QED
  BY <1>2, <1>3, <1>7, <1>8

\* What ParseRate makes of the text that was sent.
LEMMA ParseIs ==
  ASSUME value \in Inputs
  PROVE  \/ /\ ParseRate(value) = ERROR
            /\ \A r \in Readings : Amount(r[1], r[2]) = 0
         \/ /\ \E w, g : /\ IsCanonical(w, g) /\ ParseRate(value) = Write(w, g)
                         /\ \E r \in Readings : Amount(r[1], r[2]) = Amount(w, g)
<1>1. PICK s : s = TrimSpace(value)
  OBVIOUS
<1>2. s \in Seq(Characters)
  BY <1>1, ReadingsAre
<1>3. CASE IsPlain(s) /\ Fits(s) /\ ~IsZero(s)
  <2>1. PICK i, f : Reading(s, i, f)
    BY <1>2, <1>3, PlainReads
  <2>2. s # << >>
    BY <1>3 DEF IsPlain
  <2>3. PICK w, g : /\ IsCanonical(w, g) /\ Canonical(s) = Write(w, g)
                    /\ Amount(w, g) = Amount(i, f)
    BY <1>3, <2>1, <2>2, CanonicalIs
  <2>4. Len(i) <= Precision /\ Len(f) <= Precision
    <3>1. IntegerOf(s) = (IF i = << >> THEN <<"0">> ELSE i) /\ FractionOf(s) = f
      BY <2>1, PartsAre
    <3> QED
      BY <1>3, <3>1, RateAssumption DEF Fits
  <2>5. PICK r \in Readings : r[1] = i /\ r[2] = f
    BY <1>1, <2>1, <2>4, ReadingsAre
  <2>6. ParseRate(value) = Write(w, g)
    BY <1>1, <1>3, <2>3 DEF ParseRate
  <2> QED
    BY <2>3, <2>5, <2>6
<1>4. CASE ~(IsPlain(s) /\ Fits(s) /\ ~IsZero(s))
  <2>1. ParseRate(value) = ERROR
    BY <1>1, <1>4 DEF ParseRate
  <2>2. ASSUME NEW r \in Readings PROVE Amount(r[1], r[2]) = 0
    <3>1. /\ Reading(s, r[1], r[2]) /\ Len(r[1]) <= Precision /\ Len(r[2]) <= Precision
          /\ r[1] \in Seq(Digits) /\ r[2] \in Seq(Digits)
      BY <1>1, ReadingsAre DEF Reading
    <3>2. CASE s = << >>
      <4>1. PICK i, f : i = r[1] /\ f = r[2]
        OBVIOUS
      <4>2. Reading(s, i, f)
        BY <3>1, <4>1
      <4>3. \A j \in 1..Len(i) : j \in 1..Len(s)
        BY <4>2, ReadingText
      <4>4. \A j \in 1..Len(f) : \E k \in 1..Len(s) : s[k] = f[j]
        BY <4>2, ReadingText
      <4>5. 1..Len(s) = {}
        BY <3>2
      <4>6. AllZero(i) /\ AllZero(f)
        BY <4>3, <4>4, <4>5 DEF AllZero
      <4> QED
        BY <3>1, <4>1, <4>6, AmountIs
    <3>3. CASE s # << >>
      <4>1. IsPlain(s)
        BY <3>1, <3>3, ReadsPlain
      <4>2. IntegerOf(s) = (IF r[1] = << >> THEN <<"0">> ELSE r[1]) /\ FractionOf(s) = r[2]
        BY <3>1, PartsAre
      <4>3. Fits(s)
        BY <3>1, <4>2, RateAssumption, Len(<<"0">>) = 1 DEF Fits
      <4>4. IsZero(s)
        BY <1>4, <4>1, <4>3
      <4>5. AllZero(r[1]) /\ AllZero(r[2])
        BY <3>1, <4>4, IsZeroIs
      <4> QED
        BY <3>1, <4>5, AmountIs
    <3> QED
      BY <3>2, <3>3
  <2> QED
    BY <2>1, <2>2
<1> QED
  BY <1>3, <1>4

\* Readings are read from the value alone.
LEMMA ReadingsStay == value' = value => Readings' = Readings
BY DEF Readings

\* What RateInv says of an accepted text.
LEMMA AcceptedIs ==
  ASSUME NEW w, NEW g, IsCanonical(w, g), NEW r, r = Write(w, g)
  PROVE  /\ IsCanonical(IntegerOf(r), FractionOf(r))
         /\ r = Write(IntegerOf(r), FractionOf(r))
         /\ Numeric(r) = Amount(w, g)
BY CanonicalReads

\* RateInv holds at the start ...
LEMMA InitRate == Init => RateInv
BY DEF Init, RateInv

\* ... and every step keeps it.
LEMMA NextRate == RateInv /\ [Next]_vars => RateInv'
<1> SUFFICES ASSUME RateInv, [Next]_vars PROVE RateInv'
  OBVIOUS
<1>1. CASE Parse
  <2>1. value \in Inputs /\ value' = value /\ value' \in Inputs /\ Readings' = Readings
    BY <1>1, ReadingsStay DEF Parse, RateInv
  <2>2. CASE /\ ParseRate(value) = ERROR
             /\ \A r \in Readings : Amount(r[1], r[2]) = 0
    <3>1. pc' = "refused"
      BY <1>1, <2>2 DEF Parse
    <3> QED
      BY <2>1, <2>2, <3>1 DEF RateInv
  <2>3. CASE \E w, g : /\ IsCanonical(w, g) /\ ParseRate(value) = Write(w, g)
                       /\ \E r \in Readings : Amount(r[1], r[2]) = Amount(w, g)
    <3>1. PICK w, g : /\ IsCanonical(w, g) /\ ParseRate(value) = Write(w, g)
                      /\ \E r \in Readings : Amount(r[1], r[2]) = Amount(w, g)
      BY <2>3
    <3>2. rate' = Write(w, g) /\ rate' # ERROR /\ pc' = "parsed"
      BY <1>1, <3>1, CanonicalReads DEF Parse
    <3>3. /\ IsCanonical(IntegerOf(rate'), FractionOf(rate'))
          /\ rate' = Write(IntegerOf(rate'), FractionOf(rate'))
          /\ Numeric(rate') = Amount(w, g)
      BY <3>1, <3>2, AcceptedIs
    <3> QED
      BY <2>1, <3>1, <3>2, <3>3 DEF RateInv
  <2> QED
    BY <2>1, <2>2, <2>3, ParseIs
<1>2. CASE Store
  <2>1. value' = value /\ rate' = rate /\ pc = "parsed" /\ pc' = "stored"
        /\ column' = Numeric(rate) /\ Readings' = Readings
    BY <1>2, ReadingsStay DEF Store
  <2> QED
    BY <2>1 DEF RateInv
<1>3. CASE Load
  <2>1. value' = value /\ column' = column /\ pc = "stored" /\ pc' = "read"
        /\ rate' = ParseRate(NumericText(column)) /\ Readings' = Readings
    BY <1>3, ReadingsStay DEF Load
  <2>2. PICK w, g : w = IntegerOf(rate) /\ g = FractionOf(rate)
    OBVIOUS
  <2>3. IsCanonical(w, g) /\ rate = Write(w, g) /\ column = Numeric(rate)
    BY <2>1, <2>2 DEF RateInv
  <2>4. column = Amount(w, g)
    BY <2>3, CanonicalReads
  <2>5. rate' = rate
    BY <2>1, <2>3, <2>4, RoundTrip
  <2> QED
    BY <2>1, <2>5 DEF RateInv
<1>4. CASE UNCHANGED vars
  <2>1. /\ pc' = pc /\ value' = value /\ rate' = rate /\ column' = column
        /\ Readings' = Readings
    BY <1>4, ReadingsStay DEF vars
  <2> QED
    BY <2>1 DEF RateInv
<1> QED
  BY <1>1, <1>2, <1>3, <1>4 DEF Next

\* What has been accepted is the canonical text of the amount that was sent,
\* and the column holds that amount.
THEOREM RateInvariance == Spec => []RateInv
<1> QED
  BY InitRate, NextRate, PTL DEF Spec

\* ParseRate accepts exactly the plain positive decimals that fit the
\* precision, and the column and the second ParseRate keep their value: for
\* every text over every set of characters, and every precision.
THEOREM AcceptsExactValuesHolds == Spec => []AcceptsExactValues
<1>1. RateInv => AcceptsExactValues
  <2>1. ASSUME RateInv, pc \in {"parsed", "stored", "read"}
        PROVE  /\ rate # ERROR
               /\ \E r \in Readings : Amount(r[1], r[2]) = Numeric(rate) /\ Numeric(rate) > 0
    <3>1. PICK w, g : w = IntegerOf(rate) /\ g = FractionOf(rate)
      OBVIOUS
    <3>2. IsCanonical(w, g) /\ rate = Write(w, g)
          /\ \E r \in Readings : Amount(r[1], r[2]) = Numeric(rate)
      BY <2>1, <3>1 DEF RateInv
    <3>3. rate # ERROR /\ Numeric(rate) > 0
      BY <3>2, CanonicalReads
    <3> QED
      BY <3>2, <3>3
  <2> QED
    BY <2>1 DEF RateInv, AcceptsExactValues
<1> QED
  BY <1>1, RateInvariance, PTL

\* Every text a client can be shown is canonical.
THEOREM CanonicalTextHolds == Spec => []CanonicalText
<1>1. RateInv => CanonicalText
  <2>1. ASSUME RateInv, pc \in {"parsed", "stored", "read"}, NEW i, NEW f,
               i = IntegerOf(rate), f = FractionOf(rate)
        PROVE  /\ rate = IF f = << >> THEN i ELSE i \o <<".">> \o f
               /\ allDigits(i) /\ Len(i) <= Precision
               /\ i[1] = "0" => Len(i) = 1 /\ f # << >>
               /\ f # << >> => allDigits(f) /\ Len(f) <= Precision /\ f[Len(f)] # "0"
    <3>1. IsCanonical(i, f) /\ rate = Write(i, f)
      BY <2>1 DEF RateInv
    <3>2. allDigits(i) /\ (f # << >> => allDigits(f))
      BY <3>1 DEF IsCanonical, allDigits
    <3>3. i[1] = "0" => Len(i) = 1 /\ f # << >>
      BY <3>1 DEF IsCanonical
    <3> QED
      BY <3>1, <3>2, <3>3 DEF IsCanonical, Write, EndsIn
  <2> QED
    BY <2>1 DEF CanonicalText
<1> QED
  BY <1>1, RateInvariance, PTL
===============================================================================
