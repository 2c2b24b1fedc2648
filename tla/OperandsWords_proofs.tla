-------------------------- MODULE OperandsWords_proofs --------------------------
(***************************************************************************)
(* What the words of an expression are, whatever the width and the         *)
(* instances: the instructions chosen compute what the expression means.   *)
(* From the powers of two to words as signed numbers and operations on     *)
(* their bits, then the texts of numbers, the instructions, and the        *)
(* invariant of the values on the stack.                                   *)
(***************************************************************************)
EXTENDS Operands_proofs, WellFoundedInduction

-------------------------------------------------------------------------------
(* Induction and recursion over a range of naturals, for the tables and the    *)
(* words of Literals.                                                           *)

LEMMA LeastNatural ==
    ASSUME NEW S \in SUBSET Nat, S # {}
    PROVE  \E m \in S : \A k \in S : m <= k
<1>1. PICK m \in S : \A k \in S : <<k, m>> \notin OpToRel(<, Nat)
  BY WFMin, NatLessThanWellFounded, Zenon
<1>2. \A k \in S : ~(k < m)
  BY <1>1, Zenon DEF OpToRel
<1>3. \A k \in S : m <= k
  BY <1>2
<1> QED
  BY <1>3

\* A set that has 0, and with each number below n the next one, has all up to n.
LEMMA Induction ==
    ASSUME NEW n \in Nat, NEW T, 0 \in T, \A i \in 0 .. n - 1 : i \in T => i + 1 \in T
    PROVE  \A i \in 0 .. n : i \in T
<1> DEFINE Out == {i \in 0 .. n : i \notin T}
<1>1. SUFFICES ASSUME Out # {} PROVE FALSE
  OBVIOUS
<1>2. Out \in SUBSET Nat
  OBVIOUS
<1>3. PICK m \in Out : \A k \in Out : m <= k
  BY <1>1, <1>2, LeastNatural
<1>4. m # 0 /\ m \in 0 .. n
  OBVIOUS
<1>5. m - 1 \in 0 .. n - 1 /\ m - 1 \in 0 .. n /\ (m - 1) + 1 = m /\ ~(m <= m - 1)
  BY <1>4
<1>6. m - 1 \in T
  BY <1>3, <1>5
<1> QED
  BY <1>3, <1>5, <1>6

\* What starts with c and goes on by the table s.
Iterates(f, c, s, n) == f[0] = c /\ \A i \in 1 .. n : f[i] = s[<<f[i - 1], i>>]

LEMMA Iteration ==
    ASSUME NEW n \in Nat, NEW S, NEW c \in S, NEW s \in [S \X (1 .. n) -> S]
    PROVE  \E f \in [0 .. n -> S] : Iterates(f, c, s, n)
<1> DEFINE T == {m \in 0 .. n : \E f \in [0 .. m -> S] : Iterates(f, c, s, m)}
<1>1. 0 \in T
  <2> DEFINE f == [i \in 0 .. 0 |-> c]
  <2>1. f \in [0 .. 0 -> S] /\ f[0] = c
    OBVIOUS
  <2>2. 1 .. 0 = {}
    OBVIOUS
  <2>3. Iterates(f, c, s, 0)
    BY <2>1, <2>2 DEF Iterates
  <2> QED
    BY <2>1, <2>3
<1>2. ASSUME NEW m \in 0 .. n - 1, m \in T PROVE m + 1 \in T
  <2>1. PICK f \in [0 .. m -> S] : Iterates(f, c, s, m)
    BY <1>2
  <2>2. m \in Nat /\ m \in 0 .. m /\ m + 1 \in 1 .. n /\ m + 1 \in 0 .. n
    BY <1>2
  <2> DEFINE e == s[<<f[m], m + 1>>]
             g == [i \in 0 .. m + 1 |-> IF i <= m THEN f[i] ELSE e]
  <2>3. f[m] \in S
    BY <2>2
  <2>4. e \in S
    BY <2>2, <2>3
  <2> HIDE DEF e
  <2>5. g \in [0 .. m + 1 -> S]
    <3>1. \A i \in 0 .. m + 1 : i <= m => i \in 0 .. m
      BY <2>2
    <3> QED
      BY <2>4, <3>1
  <2>6. (\A i \in 0 .. m : g[i] = f[i]) /\ g[m + 1] = e
    BY <2>2
  <2> HIDE DEF g
  <2>7. g[0] = c
    <3>1. 0 \in 0 .. m /\ f[0] = c
      BY <2>1, <2>2 DEF Iterates
    <3> QED
      BY <2>6, <3>1
  <2>8. ASSUME NEW i \in 1 .. m + 1 PROVE g[i] = s[<<g[i - 1], i>>]
    <3>1. CASE i = m + 1
      <4>1. i - 1 = m
        BY <2>2, <3>1
      <4>2. g[i - 1] = f[m]
        BY <2>2, <2>6, <4>1
      <4> QED
        BY <2>6, <3>1, <4>2 DEF e
    <3>2. CASE i # m + 1
      <4>1. i \in 1 .. m /\ i \in 0 .. m /\ i - 1 \in 0 .. m
        BY <2>2, <3>2
      <4>2. f[i] = s[<<f[i - 1], i>>]
        BY <2>1, <4>1 DEF Iterates
      <4> QED
        BY <2>6, <4>1, <4>2
    <3> QED
      BY <3>1, <3>2
  <2>9. Iterates(g, c, s, m + 1)
    BY <2>7, <2>8 DEF Iterates
  <2> QED
    BY <2>2, <2>5, <2>9
<1>3. \A i \in 0 .. n : i \in T
  <2> HIDE DEF T
  <2> QED
    BY <1>1, <1>2, Induction
<1>4. n \in 0 .. n
  OBVIOUS
<1> QED
  BY <1>3, <1>4

-------------------------------------------------------------------------------
(* The powers of two. *)

Wide == 2 * WordBits

\* The equation of Pow has a solution, and so Pow solves it.
LEMMA PowIs ==
    Pow = [i \in 0 .. Wide |-> IF i = 0 THEN 1 ELSE 2 * Pow[i - 1]]
<1>1. Wide \in Nat
  BY WordBitsAssumption DEF Wide
<1> DEFINE s == [p \in Int \X (1 .. Wide) |-> 2 * p[1]]
           P(f) == f = [i \in 0 .. Wide |-> IF i = 0 THEN 1 ELSE 2 * f[i - 1]]
<1>2. s \in [Int \X (1 .. Wide) -> Int]
  OBVIOUS
<1>3. PICK f \in [0 .. Wide -> Int] : Iterates(f, 1, s, Wide)
  <2>1. 1 \in Int
    OBVIOUS
  <2> HIDE DEF s
  <2> QED
    BY <1>1, <1>2, <2>1, Iteration
<1>4. P(f)
  <2>1. ASSUME NEW i \in 0 .. Wide PROVE f[i] = IF i = 0 THEN 1 ELSE 2 * f[i - 1]
    <3>1. CASE i = 0
      BY <1>3, <3>1 DEF Iterates
    <3>2. CASE i # 0
      <4>1. i \in 1 .. Wide /\ i - 1 \in 0 .. Wide
        BY <1>1, <3>2
      <4>2. f[i] = s[<<f[i - 1], i>>]
        BY <1>3, <4>1 DEF Iterates
      <4>3. <<f[i - 1], i>> \in Int \X (1 .. Wide)
        BY <4>1
      <4> QED
        BY <3>2, <4>2, <4>3
    <3> QED
      BY <3>1, <3>2
  <2> QED
    BY <2>1
<1>5. Pow = CHOOSE g : P(g)
  BY DEF Pow, Wide
<1>6. P(Pow)
  <2> HIDE DEF P
  <2> QED
    BY <1>4, <1>5
<1> QED
  BY <1>6

LEMMA PowStep ==
    /\ Wide \in Nat /\ Pow[0] = 1
    /\ \A i \in 0 .. Wide - 1 : Pow[i + 1] = 2 * Pow[i]
<1>1. Wide \in Nat
  BY WordBitsAssumption DEF Wide
<1>2. \A i \in 0 .. Wide : Pow[i] = IF i = 0 THEN 1 ELSE 2 * Pow[i - 1]
  BY PowIs
<1>3. 0 \in 0 .. Wide
  BY <1>1
<1>4. ASSUME NEW i \in 0 .. Wide - 1 PROVE Pow[i + 1] = 2 * Pow[i]
  <2>1. i + 1 \in 0 .. Wide /\ i + 1 # 0 /\ (i + 1) - 1 = i
    BY <1>1
  <2> QED
    BY <1>2, <2>1
<1> QED
  BY <1>1, <1>2, <1>3, <1>4

LEMMA PowPositive == \A i \in 0 .. Wide : Pow[i] \in Nat \ {0}
<1> DEFINE T == {i \in Nat : Pow[i] \in Nat \ {0}}
<1>1. 0 \in T
  BY PowStep
<1>2. ASSUME NEW i \in 0 .. Wide - 1, i \in T PROVE i + 1 \in T
  BY <1>2, PowStep
<1> HIDE DEF T
<1>3. \A i \in 0 .. Wide : i \in T
  BY <1>1, <1>2, PowStep, Induction
<1> QED
  BY <1>3 DEF T

\* The powers of two: a larger one is a multiple of a smaller one.
LEMMA PowAdds ==
    ASSUME NEW i \in Nat, NEW m \in Nat, i + m <= Wide
    PROVE  Pow[i + m] = Pow[m] * Pow[i]
<1> DEFINE T == {j \in Nat : Pow[i + j] = Pow[j] * Pow[i]}
<1>1. Wide \in Nat /\ i \in 0 .. Wide /\ i + 0 = i
  BY PowStep
<1>2. 0 \in T
  BY <1>1, PowStep, PowPositive
<1>3. ASSUME NEW j \in 0 .. m - 1, j \in T PROVE j + 1 \in T
  <2>1. j \in 0 .. Wide - 1 /\ i + j \in 0 .. Wide - 1 /\ (i + j) + 1 = i + (j + 1) /\ j \in 0 .. Wide
    BY <1>1
  <2>2. Pow[j + 1] = 2 * Pow[j] /\ Pow[i + (j + 1)] = 2 * Pow[i + j]
    BY <2>1, PowStep
  <2>3. Pow[i + j] = Pow[j] * Pow[i]
    BY <1>3
  <2>4. Pow[i] \in Int /\ Pow[j] \in Int
    BY <1>1, <2>1, PowPositive
  <2>5. 2 * (Pow[j] * Pow[i]) = (2 * Pow[j]) * Pow[i]
    BY <2>4
  <2> QED
    BY <2>2, <2>3, <2>5
<1> HIDE DEF T
<1>4. \A j \in 0 .. m : j \in T
  BY <1>2, <1>3, Induction
<1>5. m \in 0 .. m
  OBVIOUS
<1> QED
  BY <1>4, <1>5 DEF T

-------------------------------------------------------------------------------
(* Remainders by a number p > 0: what a word of p values keeps.                 *)

LEMMA ModRange ==
    ASSUME NEW i \in Int, NEW p \in Nat \ {0}
    PROVE  i % p \in 0 .. p - 1 /\ i = (i \div p) * p + (i % p) /\ i \div p \in Int
OBVIOUS

LEMMA Multiple ==
    ASSUME NEW d \in Int, NEW p \in Nat \ {0}, d * p < p, -p < d * p
    PROVE  d = 0
<1>1. d >= 1 => d * p >= p
  OBVIOUS
<1>2. d <= -1 => d * p <= -p
  OBVIOUS
<1> QED
  BY <1>1, <1>2

\* The remainder is what is left of a multiple of p.
LEMMA ModUnique ==
    ASSUME NEW i \in Int, NEW p \in Nat \ {0}, NEW q \in Int, NEW r \in 0 .. p - 1, i = q * p + r
    PROVE  i % p = r /\ i \div p = q
<1> DEFINE e == i \div p
           m == i % p
<1>1. m \in 0 .. p - 1 /\ i = e * p + m /\ e \in Int
  BY ModRange
<1> HIDE DEF e, m
<1>2. (e - q) * p = r - m
  BY <1>1
<1>3. r - m < p /\ -p < r - m
  BY <1>1
<1> DEFINE d == e - q
<1>4. d \in Int /\ d * p < p /\ -p < d * p
  BY <1>1, <1>2, <1>3
<1> HIDE DEF d
<1>5. d = 0
  BY <1>4, Multiple
<1>6. e = q
  BY <1>1, <1>5 DEF d
<1>7. m = r
  BY <1>1, <1>6
<1> QED
  BY <1>6, <1>7 DEF e, m

\* Numbers that differ by a multiple of p have one remainder.
LEMMA ModSame ==
    ASSUME NEW i \in Int, NEW j \in Int, NEW p \in Nat \ {0}, NEW d \in Int, i = j + d * p
    PROVE  i % p = j % p
<1> DEFINE e == j \div p
           m == j % p
<1>1. m \in 0 .. p - 1 /\ j = e * p + m /\ e \in Int
  BY ModRange
<1> HIDE DEF e, m
<1>2. i = (e + d) * p + m /\ e + d \in Int
  BY <1>1
<1>3. i % p = m
  BY <1>1, <1>2, ModUnique
<1> QED
  BY <1>3 DEF m

\* One more bit of a number.
LEMMA ModDouble ==
    ASSUME NEW a \in Nat, NEW p \in Nat \ {0}
    PROVE  /\ (a \div p) % 2 \in {0, 1}
           /\ a % (2 * p) = (a % p) + p * ((a \div p) % 2)
<1> DEFINE q == a \div p
           r == a % p
           h == q \div 2
           b == q % 2
<1>1. r \in 0 .. p - 1 /\ a = q * p + r /\ q \in Int
  BY ModRange
<1> HIDE DEF q, r
<1>2. b \in 0 .. 1 /\ q = h * 2 + b /\ h \in Int
  BY <1>1, ModRange
<1> HIDE DEF h, b
<1>3. 2 * p \in Nat \ {0} /\ p * b + r \in 0 .. 2 * p - 1
  <2>1. b = 0 \/ b = 1
    BY <1>2
  <2>2. CASE b = 0
    BY <1>1, <2>2
  <2>3. CASE b = 1
    BY <1>1, <2>3
  <2> QED
    BY <2>1, <2>2, <2>3
<1>4. a = h * (2 * p) + (p * b + r)
  BY <1>1, <1>2
<1>5. a % (2 * p) = p * b + r
  <2> DEFINE pp == 2 * p
             rr == p * b + r
  <2>1. pp \in Nat \ {0} /\ rr \in 0 .. pp - 1 /\ a = h * pp + rr
    BY <1>3, <1>4
  <2> HIDE DEF pp, rr
  <2>2. a % pp = rr
    BY <1>2, <2>1, ModUnique
  <2> QED
    BY <2>2 DEF pp, rr
<1>6. p * b \in Int /\ r \in Int
  BY <1>1, <1>2
<1>7. a % (2 * p) = r + p * b
  BY <1>5, <1>6
<1>8. b \in {0, 1}
  BY <1>2
<1> QED
  BY <1>7, <1>8 DEF q, r, b

-------------------------------------------------------------------------------
(* Words of n bits as signed numbers. *)

LEMMA Halves ==
    ASSUME NEW n \in 1 .. Wide
    PROVE  /\ Pow[n] \in Nat \ {0} /\ Pow[n - 1] \in Nat \ {0}
           /\ Pow[n] = 2 * Pow[n - 1]
<1>1. Wide \in Nat /\ n \in 0 .. Wide /\ n - 1 \in 0 .. Wide - 1 /\ n - 1 \in 0 .. Wide /\ (n - 1) + 1 = n
  BY PowStep
<1>2. Pow[(n - 1) + 1] = 2 * Pow[n - 1]
  BY <1>1, PowStep
<1> QED
  BY <1>1, <1>2, PowPositive

LEMMA WordType ==
    ASSUME NEW i \in Int, NEW n \in 0 .. Wide
    PROVE  Word(i, n) \in 0 .. Pow[n] - 1
<1>1. Pow[n] \in Nat \ {0}
  BY PowPositive
<1> QED
  BY <1>1, ModRange DEF Word

LEMMA WordUnique ==
    ASSUME NEW i \in Int, NEW n \in 0 .. Wide, NEW q \in Int, NEW r \in 0 .. Pow[n] - 1,
           i = q * Pow[n] + r
    PROVE  Word(i, n) = r
<1>1. Pow[n] \in Nat \ {0}
  BY PowPositive
<1> QED
  BY <1>1, ModUnique DEF Word

\* A number that fits is the signed value of its word.
LEMMA SignedWord ==
    ASSUME NEW n \in 1 .. Wide, NEW i \in Int, Fits(i, n)
    PROVE  Signed(Word(i, n), n) = i
<1> DEFINE p == Pow[n]
           h == Pow[n - 1]
<1>1. p \in Nat \ {0} /\ h \in Nat \ {0} /\ p = 2 * h /\ n \in 0 .. Wide
  BY Halves
<1>2. -h <= i /\ i < h
  BY DEF Fits
<1> HIDE DEF p, h
<1>3. CASE i >= 0
  <2>1. i \in 0 .. p - 1 /\ i = 0 * p + i
    BY <1>1, <1>2, <1>3
  <2>2. Word(i, n) = i
    BY <1>1, <2>1, WordUnique DEF p
  <2> QED
    BY <1>1, <1>2, <2>2 DEF Signed, p, h
<1>4. CASE i < 0
  <2>1. i + p \in 0 .. p - 1 /\ i = (-1) * p + (i + p) /\ -1 \in Int
    BY <1>1, <1>2, <1>4
  <2>2. Word(i, n) = i + p
    BY <1>1, <2>1, WordUnique DEF p
  <2>3. i + p >= h /\ (i + p) - p = i
    BY <1>1, <1>2
  <2> QED
    BY <2>2, <2>3 DEF Signed, p, h
<1> QED
  BY <1>3, <1>4

\* A word is the word of its signed value, which fits.
LEMMA SignedType ==
    ASSUME NEW n \in 1 .. Wide, NEW a \in 0 .. Pow[n] - 1
    PROVE  /\ Signed(a, n) \in Int /\ Fits(Signed(a, n), n)
           /\ \E e \in {0, 1} : Signed(a, n) = a - e * Pow[n]
           /\ Word(Signed(a, n), n) = a
           /\ Signed(a, n) >= 0 => Signed(a, n) = a
<1> DEFINE p == Pow[n]
           h == Pow[n - 1]
           s == Signed(a, n)
<1>1. p \in Nat \ {0} /\ h \in Nat \ {0} /\ p = 2 * h /\ n \in 0 .. Wide /\ a \in 0 .. p - 1
  BY Halves
<1>2. s = IF a >= h THEN a - p ELSE a
  BY DEF Signed
<1>3. Fits(s, n) <=> -h <= s /\ s < h
  BY DEF Fits
<1> HIDE DEF p, h, s
<1>4. s \in Int /\ -h <= s /\ s < h /\ (s >= 0 => s = a)
  BY <1>1, <1>2
<1>5. PICK e \in {0, 1} : s = a - e * p
  <2>1. s = a - 0 * p \/ s = a - 1 * p
    BY <1>1, <1>2
  <2> QED
    BY <2>1
<1>6. Word(s, n) = a
  <2>1. -e \in Int /\ s = (-e) * p + a
    BY <1>1, <1>5
  <2> QED
    BY <1>1, <1>4, <2>1, WordUnique DEF p
<1> QED
  BY <1>3, <1>4, <1>5, <1>6 DEF p, s

LEMMA WordSame ==
    ASSUME NEW n \in 0 .. Wide, NEW i \in Int, NEW j \in Int, NEW d \in Int, i = j + d * Pow[n]
    PROVE  Word(i, n) = Word(j, n)
<1>1. Pow[n] \in Nat \ {0}
  BY PowPositive
<1> QED
  BY <1>1, ModSame DEF Word

-------------------------------------------------------------------------------
(* Operations on bits. *)

BitTable == [Bits2 -> {0, 1}]

\* The bits of a below the i-th, as a number.
LEMMA LowBits ==
    ASSUME NEW a \in Nat, NEW i \in 0 .. Wide - 1
    PROVE  /\ Bit(a, i) \in {0, 1}
           /\ Word(a, i + 1) = Word(a, i) + Pow[i] * Bit(a, i)
<1>1. i \in 0 .. Wide /\ Pow[i] \in Nat \ {0} /\ Pow[i + 1] = 2 * Pow[i]
  BY PowStep, PowPositive
<1> QED
  BY <1>1, ModDouble DEF Bit, Word

\* The word of a bit operation, bit by bit.
LEMMA BitwiseIs ==
    ASSUME NEW op \in BitTable, NEW a \in Nat, NEW b \in Nat, NEW n \in 0 .. Wide
    PROVE  \E f \in [0 .. n -> Int] :
              /\ f[0] = 0
              /\ \A i \in 0 .. n - 1 : f[i + 1] = f[i] + Pow[i] * op[<<Bit(a, i), Bit(b, i)>>]
              /\ Bitwise(op, a, b, n) = f[n]
<1>1. n \in Nat /\ Wide \in Nat
  BY PowStep
<1> DEFINE e(i) == Pow[i - 1] * op[<<Bit(a, i - 1), Bit(b, i - 1)>>]
           s == [p \in Int \X (1 .. n) |-> p[1] + e(p[2])]
           P(f) == f = [i \in 0 .. n |-> IF i = 0 THEN 0 ELSE f[i - 1] + e(i)]
<1>2. \A i \in 1 .. n : e(i) \in Int
  <2> SUFFICES ASSUME NEW i \in 1 .. n PROVE e(i) \in Int
    OBVIOUS
  <2>1. i - 1 \in 0 .. Wide - 1 /\ i - 1 \in 0 .. Wide
    BY <1>1
  <2>2. <<Bit(a, i - 1), Bit(b, i - 1)>> \in Bits2
    BY <2>1, LowBits DEF Bits2
  <2>3. op[<<Bit(a, i - 1), Bit(b, i - 1)>>] \in Int
    BY <2>2 DEF BitTable
  <2> QED
    BY <2>1, <2>3, PowPositive
<1>3. Bitwise(op, a, b, n) = (CHOOSE f : P(f))[n]
  BY DEF Bitwise
<1> HIDE DEF e
<1>4. s \in [Int \X (1 .. n) -> Int]
  BY <1>2
<1>5. PICK f \in [0 .. n -> Int] : Iterates(f, 0, s, n)
  <2>1. 0 \in Int
    OBVIOUS
  <2> HIDE DEF s
  <2> QED
    BY <1>1, <1>4, <2>1, Iteration
<1>6. P(f)
  <2>1. ASSUME NEW i \in 0 .. n PROVE f[i] = IF i = 0 THEN 0 ELSE f[i - 1] + e(i)
    <3>1. CASE i = 0
      BY <1>5, <3>1 DEF Iterates
    <3>2. CASE i # 0
      <4>1. i \in 1 .. n /\ i - 1 \in 0 .. n
        BY <1>1, <3>2
      <4>2. f[i] = s[<<f[i - 1], i>>]
        BY <1>5, <4>1 DEF Iterates
      <4>3. <<f[i - 1], i>> \in Int \X (1 .. n)
        BY <4>1
      <4> QED
        BY <3>2, <4>2, <4>3
    <3> QED
      BY <3>1, <3>2
  <2> QED
    BY <2>1
<1> DEFINE g == CHOOSE h : P(h)
<1>7. P(g)
  <2> HIDE DEF P
  <2> QED
    BY <1>6
<1>8. Bitwise(op, a, b, n) = g[n]
  BY <1>3
<1> HIDE DEF g
<1>9. g[0] = 0
  <2>1. 0 \in 0 .. n
    BY <1>1
  <2> QED
    BY <1>7, <2>1
<1>10. ASSUME NEW i \in 0 .. n - 1 PROVE g[i + 1] = g[i] + Pow[i] * op[<<Bit(a, i), Bit(b, i)>>]
  <2>1. i + 1 \in 0 .. n /\ i + 1 # 0 /\ (i + 1) - 1 = i
    BY <1>1
  <2>2. g[i + 1] = g[i] + e(i + 1)
    BY <1>7, <2>1
  <2>3. e(i + 1) = Pow[i] * op[<<Bit(a, i), Bit(b, i)>>]
    BY <2>1 DEF e
  <2> QED
    BY <2>2, <2>3
<1>11. g \in [0 .. n -> Int]
  <2> DEFINE T == {i \in Nat : g[i] \in Int}
  <2>1. 0 \in T
    BY <1>9
  <2>2. ASSUME NEW i \in 0 .. n - 1, i \in T PROVE i + 1 \in T
    <3>1. i + 1 \in 1 .. n /\ i + 1 \in 0 .. n /\ i + 1 # 0 /\ (i + 1) - 1 = i
      BY <1>1
    <3>2. g[i + 1] = g[i] + e(i + 1)
      BY <1>7, <3>1
    <3> QED
      BY <1>2, <2>2, <3>1, <3>2
  <2> HIDE DEF T
  <2>3. \A i \in 0 .. n : i \in T
    BY <1>1, <2>1, <2>2, Induction
  <2>4. DOMAIN g = 0 .. n /\ g = [i \in 0 .. n |-> g[i]]
    BY <1>7
  <2> QED
    BY <2>3, <2>4 DEF T
<1> QED
  BY <1>8, <1>9, <1>10, <1>11

AndOp == [p \in Bits2 |-> p[1] * p[2]]
OrOp == [p \in Bits2 |-> p[1] + p[2] - p[1] * p[2]]
XorOp == [p \in Bits2 |-> (p[1] + p[2]) % 2]

LEMMA Tables ==
    /\ {AndOp, OrOp, XorOp} \subseteq BitTable
    /\ AndOp[<<0, 0>>] = 0 /\ AndOp[<<0, 1>>] = 0 /\ AndOp[<<1, 0>>] = 0 /\ AndOp[<<1, 1>>] = 1
    /\ OrOp[<<0, 0>>] = 0 /\ OrOp[<<0, 1>>] = 1 /\ OrOp[<<1, 0>>] = 1 /\ OrOp[<<1, 1>>] = 1
    /\ XorOp[<<0, 0>>] = 0 /\ XorOp[<<0, 1>>] = 1 /\ XorOp[<<1, 0>>] = 1 /\ XorOp[<<1, 1>>] = 0
    /\ \A a, b, n : /\ And(a, b, n) = Bitwise(AndOp, a, b, n)
                   /\ Or(a, b, n) = Bitwise(OrOp, a, b, n)
                   /\ Xor(a, b, n) = Bitwise(XorOp, a, b, n)
<1>1. Bits2 = {<<0, 0>>, <<0, 1>>, <<1, 0>>, <<1, 1>>}
  BY DEF Bits2
<1>2. \A p \in Bits2 : AndOp[p] = p[1] * p[2] /\ OrOp[p] = p[1] + p[2] - p[1] * p[2]
                       /\ XorOp[p] = (p[1] + p[2]) % 2
  BY DEF AndOp, OrOp, XorOp
<1>3. /\ AndOp[<<0, 0>>] = 0 /\ AndOp[<<0, 1>>] = 0 /\ AndOp[<<1, 0>>] = 0 /\ AndOp[<<1, 1>>] = 1
      /\ OrOp[<<0, 0>>] = 0 /\ OrOp[<<0, 1>>] = 1 /\ OrOp[<<1, 0>>] = 1 /\ OrOp[<<1, 1>>] = 1
  BY <1>1, <1>2
<1>4. XorOp[<<0, 0>>] = 0 /\ XorOp[<<0, 1>>] = 1 /\ XorOp[<<1, 0>>] = 1 /\ XorOp[<<1, 1>>] = 0
  BY <1>1, <1>2
<1>5. {AndOp, OrOp, XorOp} \subseteq BitTable
  <2>1. AndOp = [p \in Bits2 |-> AndOp[p]] /\ OrOp = [p \in Bits2 |-> OrOp[p]]
        /\ XorOp = [p \in Bits2 |-> XorOp[p]]
    BY DEF AndOp, OrOp, XorOp
  <2>2. \A p \in Bits2 : {AndOp[p], OrOp[p], XorOp[p]} \subseteq {0, 1}
    BY <1>1, <1>3, <1>4
  <2> QED
    BY <2>1, <2>2 DEF BitTable
<1>6. \A a, b, n : /\ And(a, b, n) = Bitwise(AndOp, a, b, n)
                   /\ Or(a, b, n) = Bitwise(OrOp, a, b, n)
                   /\ Xor(a, b, n) = Bitwise(XorOp, a, b, n)
  BY DEF And, Or, Xor, AndOp, OrOp, XorOp
<1> QED
  BY <1>3, <1>4, <1>5, <1>6

\* A bit operation on words makes a word.
LEMMA BitwiseType ==
    ASSUME NEW op \in BitTable, NEW a \in Nat, NEW b \in Nat, NEW n \in 0 .. Wide
    PROVE  Bitwise(op, a, b, n) \in 0 .. Pow[n] - 1
<1>1. PICK f \in [0 .. n -> Int] :
         /\ f[0] = 0
         /\ \A i \in 0 .. n - 1 : f[i + 1] = f[i] + Pow[i] * op[<<Bit(a, i), Bit(b, i)>>]
         /\ Bitwise(op, a, b, n) = f[n]
  BY BitwiseIs
<1> DEFINE T == {i \in Nat : f[i] \in 0 .. Pow[i] - 1}
<1>2. n \in Nat /\ Wide \in Nat /\ n \in 0 .. n
  BY PowStep
<1>3. 0 \in T
  BY <1>1, PowStep
<1>4. ASSUME NEW i \in 0 .. n - 1, i \in T PROVE i + 1 \in T
  <2>1. i \in 0 .. Wide - 1 /\ i \in 0 .. Wide /\ i + 1 \in Nat
    BY <1>2
  <2>2. <<Bit(a, i), Bit(b, i)>> \in Bits2
    BY <2>1, LowBits DEF Bits2
  <2> DEFINE bit == op[<<Bit(a, i), Bit(b, i)>>]
  <2>3. bit \in {0, 1}
    BY <2>2 DEF BitTable
  <2>4. f[i + 1] = f[i] + Pow[i] * bit
    BY <1>1
  <2>5. Pow[i] \in Nat \ {0} /\ Pow[i + 1] = 2 * Pow[i]
    BY <2>1, PowStep, PowPositive
  <2>6. f[i] \in 0 .. Pow[i] - 1
    BY <1>4
  <2> HIDE DEF bit
  <2>7. f[i + 1] \in 0 .. Pow[i + 1] - 1
    <3>1. CASE bit = 0
      BY <2>4, <2>5, <2>6, <3>1
    <3>2. CASE bit = 1
      BY <2>4, <2>5, <2>6, <3>2
    <3> QED
      BY <2>3, <3>1, <3>2
  <2> QED
    BY <2>1, <2>7
<1> HIDE DEF T
<1>5. \A i \in 0 .. n : i \in T
  BY <1>2, <1>3, <1>4, Induction
<1> QED
  BY <1>1, <1>2, <1>5 DEF T

\* The word of no bits, and those of the numbers that are words.
LEMMA WordEnds ==
    /\ \A a \in Int : Word(a, 0) = 0
    /\ \A n \in 0 .. Wide : \A a \in 0 .. Pow[n] - 1 : Word(a, n) = a
<1>1. ASSUME NEW a \in Int PROVE Word(a, 0) = 0
  <2>1. 0 \in 0 .. Wide /\ Pow[0] = 1
    BY PowStep
  <2>2. Word(a, 0) \in 0 .. Pow[0] - 1
    BY <2>1, WordType
  <2> QED
    BY <2>1, <2>2
<1>2. ASSUME NEW n \in 0 .. Wide, NEW a \in 0 .. Pow[n] - 1 PROVE Word(a, n) = a
  <2>1. Pow[n] \in Nat \ {0}
    BY PowPositive
  <2>2. 0 \in Int /\ a \in Int /\ a = 0 * Pow[n] + a
    BY <2>1
  <2> QED
    BY <2>2, WordUnique
<1> QED
  BY <1>1, <1>2

\* All the bits of the largest word are ones.
LEMMA AllOnes ==
    ASSUME NEW n \in 0 .. Wide, NEW i \in 0 .. n - 1
    PROVE  Bit(Pow[n] - 1, i) = 1
<1>1. /\ n \in Nat /\ Wide \in Nat /\ i \in 0 .. Wide - 1 /\ Pow[n] - 1 \in Nat
  BY PowStep, PowPositive
<1>2. ASSUME NEW j \in 0 .. n PROVE Word(Pow[n] - 1, j) = Pow[j] - 1
  <2>1. j \in Nat /\ j \in 0 .. Wide /\ n - j \in Nat /\ n - j \in 0 .. Wide /\ j + (n - j) = n
    BY <1>1
  <2>2. Pow[j + (n - j)] = Pow[n - j] * Pow[j]
    BY <2>1, PowAdds
  <2>3. Pow[n - j] \in Nat \ {0} /\ Pow[j] \in Nat \ {0} /\ Pow[n] = Pow[n - j] * Pow[j]
    BY <2>1, <2>2, PowPositive
  <2> DEFINE q == Pow[n - j] - 1
             r == Pow[j] - 1
             m == Pow[n] - 1
  <2>4. q \in Int /\ r \in 0 .. Pow[j] - 1 /\ m = q * Pow[j] + r /\ m \in Int
    BY <1>1, <2>3
  <2> HIDE DEF q, r, m
  <2>5. Word(m, j) = r
    BY <2>1, <2>4, WordUnique
  <2> QED
    BY <2>5 DEF m, r
<1>3. i \in 0 .. n /\ i + 1 \in 0 .. n /\ i \in 0 .. Wide
  BY <1>1
<1>4. Word(Pow[n] - 1, i) = Pow[i] - 1 /\ Word(Pow[n] - 1, i + 1) = Pow[i + 1] - 1
  BY <1>2, <1>3
<1>5. Pow[i] \in Nat \ {0} /\ Pow[i + 1] = 2 * Pow[i]
  BY <1>1, <1>3, PowStep, PowPositive
<1> DEFINE bit == Bit(Pow[n] - 1, i)
<1>6. bit \in {0, 1} /\ Pow[i + 1] - 1 = (Pow[i] - 1) + Pow[i] * bit
  BY <1>1, <1>4, LowBits
<1> HIDE DEF bit
<1>7. bit # 0
  BY <1>5, <1>6
<1> QED
  BY <1>6, <1>7 DEF bit

\* b_flip's exclusive or with ones takes the word from the largest one.
LEMMA FlipIs ==
    ASSUME NEW n \in 0 .. Wide, NEW a \in 0 .. Pow[n] - 1
    PROVE  Xor(a, Pow[n] - 1, n) = Pow[n] - 1 - a
<1>1. n \in Nat /\ Wide \in Nat /\ n \in 0 .. n /\ Pow[n] \in Nat \ {0} /\ Pow[n] - 1 \in Nat /\ a \in Nat
  BY PowStep, PowPositive
<1>2. PICK f \in [0 .. n -> Int] :
         /\ f[0] = 0
         /\ \A i \in 0 .. n - 1 : f[i + 1] = f[i] + Pow[i] * XorOp[<<Bit(a, i), Bit(Pow[n] - 1, i)>>]
         /\ Bitwise(XorOp, a, Pow[n] - 1, n) = f[n]
  <2> DEFINE m == Pow[n] - 1
  <2>1. XorOp \in BitTable /\ m \in Nat /\ a \in Nat
    BY <1>1, Tables
  <2> HIDE DEF m
  <2>2. \E f \in [0 .. n -> Int] :
           /\ f[0] = 0
           /\ \A i \in 0 .. n - 1 : f[i + 1] = f[i] + Pow[i] * XorOp[<<Bit(a, i), Bit(m, i)>>]
           /\ Bitwise(XorOp, a, m, n) = f[n]
    BY <2>1, BitwiseIs
  <2> QED
    BY <2>2 DEF m
<1> DEFINE T == {i \in Nat : f[i] = Pow[i] - 1 - Word(a, i)}
<1>3. 0 \in T
  <2>1. Word(a, 0) = 0
    BY <1>1, WordEnds
  <2> QED
    BY <1>2, <2>1, PowStep
<1>4. ASSUME NEW i \in 0 .. n - 1, i \in T PROVE i + 1 \in T
  <2>1. i \in 0 .. Wide - 1 /\ i \in 0 .. Wide /\ i + 1 \in Nat
    BY <1>1
  <2> DEFINE bit == Bit(a, i)
             w == Word(a, i)
             v == Word(a, i + 1)
  <2>2. bit \in {0, 1} /\ v = w + Pow[i] * bit
    BY <1>1, <2>1, LowBits
  <2>3. w \in Int
    BY <1>1, <2>1, WordType
  <2>4. f[i + 1] = f[i] + Pow[i] * XorOp[<<bit, 1>>]
    BY <1>2, AllOnes
  <2>5. Pow[i] \in Nat \ {0} /\ Pow[i + 1] = 2 * Pow[i]
    BY <2>1, PowStep, PowPositive
  <2>6. f[i] = Pow[i] - 1 - w
    BY <1>4
  <2> DEFINE p == Pow[i]
             pp == Pow[i + 1]
             g == f[i]
             gg == f[i + 1]
             b == XorOp[<<bit, 1>>]
  <2> HIDE DEF bit, w, v
  <2>7. gg = g + p * b /\ v = w + p * bit /\ p \in Nat /\ pp = 2 * p /\ g = p - 1 - w
    BY <2>2, <2>4, <2>5, <2>6
  <2> HIDE DEF p, pp, g, gg, b
  <2>8. gg = pp - 1 - v
    <3>1. CASE bit = 0
      <4>1. b = 1
        BY <3>1, Tables DEF b
      <4>2. gg = g + p /\ v = w /\ g = p - 1 - w /\ p \in Nat /\ pp = 2 * p
        BY <2>3, <2>7, <3>1, <4>1
      <4> QED
        BY <2>3, <4>2
    <3>2. CASE bit = 1
      <4>1. b = 0
        BY <3>2, Tables DEF b
      <4>2. gg = g /\ v = w + p /\ g = p - 1 - w /\ p \in Nat /\ pp = 2 * p
        BY <2>3, <2>7, <3>2, <4>1
      <4> QED
        BY <2>3, <4>2
    <3> QED
      BY <2>2, <3>1, <3>2
  <2> QED
    BY <2>1, <2>8 DEF v, gg, pp
<1>5. \A i \in 0 .. n : i \in T
  <2> HIDE DEF T
  <2> QED
    BY <1>1, <1>3, <1>4, Induction
<1>6. Word(a, n) = a
  BY WordEnds
<1>7. f[n] = Pow[n] - 1 - a
  BY <1>1, <1>5, <1>6
<1> QED
  BY <1>2, <1>7, Tables

\* Or adds up numbers with no bits in common: below the k-th, U has none, and
\* from there on, c.
LEMMA OrDisjoint ==
    ASSUME NEW n \in 0 .. Wide, NEW k \in 0 .. n, NEW U \in Nat, NEW c \in Nat,
           \A j \in 0 .. k : Word(U, j) = 0,
           \A j \in k .. n : Word(c, j) = c,
           U + c < Pow[n]
    PROVE  Or(U, c, n) = U + c
<1>1. /\ n \in Nat /\ k \in Nat /\ Wide \in Nat /\ n \in 0 .. n /\ k \in 0 .. Wide
      /\ Pow[n] \in Nat \ {0} /\ Pow[k] \in Nat \ {0}
  BY PowStep, PowPositive
<1>2. U \in Nat /\ c \in Nat /\ U + c < Pow[n] /\ c < Pow[k]
  <2>1. k \in k .. n
    BY <1>1
  <2>2. Word(c, k) = c
    BY <2>1
  <2>3. c \in Int
    OBVIOUS
  <2>4. Word(c, k) \in 0 .. Pow[k] - 1
    BY <1>1, <2>3, WordType
  <2> QED
    BY <1>1, <2>2, <2>4
<1>3. \A j \in 0 .. k : Word(U, j) = 0
  OBVIOUS
<1>4. \A j \in k .. n : Word(c, j) = c
  OBVIOUS
<1>5. PICK f \in [0 .. n -> Int] :
         /\ f[0] = 0
         /\ \A i \in 0 .. n - 1 : f[i + 1] = f[i] + Pow[i] * OrOp[<<Bit(U, i), Bit(c, i)>>]
         /\ Bitwise(OrOp, U, c, n) = f[n]
  <2>1. OrOp \in BitTable
    BY Tables
  <2>2. \E f \in [0 .. n -> Int] :
           /\ f[0] = 0
           /\ \A i \in 0 .. n - 1 : f[i + 1] = f[i] + Pow[i] * OrOp[<<Bit(U, i), Bit(c, i)>>]
           /\ Bitwise(OrOp, U, c, n) = f[n]
    BY <2>1, BitwiseIs
  <2> QED
    BY <2>2
<1> DEFINE T == {i \in Nat : f[i] = Word(U, i) + Word(c, i)}
<1>6. 0 \in T
  <2>1. Word(U, 0) = 0 /\ Word(c, 0) = 0
    BY <1>2, WordEnds
  <2> QED
    BY <1>5, <2>1
<1>7. ASSUME NEW i \in 0 .. n - 1, i \in T PROVE i + 1 \in T
  <2>1. i \in 0 .. Wide - 1 /\ i \in 0 .. Wide /\ i + 1 \in Nat
    BY <1>1
  <2> DEFINE xx == Bit(U, i)
             y == Bit(c, i)
             p == Pow[i]
             uu == Word(U, i)
             vv == Word(U, i + 1)
             cc == Word(c, i)
             dd == Word(c, i + 1)
  <2>2. xx \in {0, 1} /\ y \in {0, 1} /\ vv = uu + p * xx /\ dd = cc + p * y
    BY <1>1, <2>1, LowBits
  <2>3. uu \in Int /\ cc \in Int /\ p \in Nat \ {0}
    <3>1. U \in Int /\ c \in Int
      BY <1>2
    <3>2. uu \in 0 .. Pow[i] - 1 /\ cc \in 0 .. Pow[i] - 1
      BY <2>1, <3>1, WordType
    <3> QED
      BY <2>1, <3>2, PowPositive
  <2>4. f[i + 1] = f[i] + p * OrOp[<<xx, y>>] /\ f[i] = uu + cc
    BY <1>5, <1>7
  <2>5. i < k => uu = 0 /\ vv = 0
    <3> SUFFICES ASSUME i < k PROVE uu = 0 /\ vv = 0
      OBVIOUS
    <3>1. i \in 0 .. k /\ i + 1 \in 0 .. k
      BY <1>1
    <3> QED
      BY <1>3, <3>1
  <2>6. i >= k => cc = c /\ dd = c
    <3> SUFFICES ASSUME i >= k PROVE cc = c /\ dd = c
      OBVIOUS
    <3>1. i \in k .. n /\ i + 1 \in k .. n
      BY <1>1
    <3> QED
      BY <1>4, <3>1
  <2> HIDE DEF xx, y, p, uu, vv, cc, dd
  <2>7. xx = 0 \/ y = 0
    <3>1. CASE i < k
      <4>1. xx # 1
        BY <2>2, <2>3, <2>5, <3>1
      <4> QED
        BY <2>2, <4>1
    <3>2. CASE i >= k
      <4>1. y # 1
        BY <1>2, <2>2, <2>3, <2>6, <3>2
      <4> QED
        BY <2>2, <4>1
    <3> QED
      BY <1>1, <3>1, <3>2
  <2>8. OrOp[<<xx, y>>] = xx + y
    <3>1. CASE xx = 0 /\ y = 0
      BY <3>1, Tables
    <3>2. CASE xx = 0 /\ y = 1
      BY <3>2, Tables
    <3>3. CASE xx = 1 /\ y = 0
      BY <3>3, Tables
    <3> QED
      BY <2>2, <2>7, <3>1, <3>2, <3>3
  <2>9. f[i + 1] = vv + dd
    <3>1. f[i + 1] = (uu + cc) + p * (xx + y)
      BY <2>4, <2>8
    <3>2. (uu + cc) + p * (xx + y) = (uu + p * xx) + (cc + p * y)
      <4>1. xx \in Int /\ y \in Int /\ p \in Int /\ p * xx \in Int /\ p * y \in Int
        BY <2>2, <2>3
      <4>2. p * (xx + y) = p * xx + p * y
        BY <4>1
      <4> DEFINE px == p * xx
                 py == p * y
                 pxy == p * (xx + y)
      <4>3. px \in Int /\ py \in Int /\ pxy = px + py
        BY <4>1, <4>2
      <4> HIDE DEF px, py, pxy
      <4>4. (uu + cc) + pxy = (uu + px) + (cc + py)
        BY <2>3, <4>3
      <4> QED
        BY <4>4 DEF px, py, pxy
    <3> QED
      BY <2>2, <3>1, <3>2
  <2> QED
    BY <2>1, <2>9 DEF vv, dd
<1>8. \A i \in 0 .. n : i \in T
  <2> HIDE DEF T
  <2> QED
    BY <1>1, <1>6, <1>7, Induction
<1>9. Word(U, n) = U /\ Word(c, n) = c
  <2>1. U \in 0 .. Pow[n] - 1 /\ c \in 0 .. Pow[n] - 1
    BY <1>1, <1>2
  <2> QED
    BY <2>1, WordEnds
<1>10. f[n] = U + c
  BY <1>1, <1>8, <1>9
<1> QED
  BY <1>5, <1>10, Tables

\* Or with the digits of a number behind it appends them.
LEMMA OrAdds ==
    ASSUME NEW n \in 0 .. Wide, NEW k \in 0 .. n, NEW u \in Nat, NEW c \in 0 .. Pow[k] - 1,
           u * Pow[k] + c < Pow[n]
    PROVE  Or(u * Pow[k], c, n) = u * Pow[k] + c
<1> DEFINE U == u * Pow[k]
<1>1. /\ n \in Nat /\ k \in Nat /\ Wide \in Nat /\ n \in 0 .. n /\ k \in 0 .. Wide
      /\ Pow[n] \in Nat \ {0} /\ Pow[k] \in Nat \ {0}
  BY PowStep, PowPositive
<1>2. U \in Nat /\ c \in Nat /\ U + c < Pow[n] /\ c < Pow[k]
  BY <1>1
<1>3. ASSUME NEW j \in 0 .. k PROVE Word(U, j) = 0
  <2>1. j \in Nat /\ j \in 0 .. Wide /\ k - j \in Nat /\ k - j \in 0 .. Wide /\ j + (k - j) = k
    BY <1>1
  <2>2. Pow[j + (k - j)] = Pow[k - j] * Pow[j]
    BY <1>1, <2>1, PowAdds
  <2>3. Pow[k - j] \in Nat \ {0} /\ Pow[j] \in Nat \ {0} /\ Pow[k] = Pow[k - j] * Pow[j]
    BY <2>1, <2>2, PowPositive
  <2> DEFINE q == u * Pow[k - j]
  <2>4. U = u * (Pow[k - j] * Pow[j])
    BY <2>3
  <2>5. q \in Int /\ U = q * Pow[j] + 0 /\ 0 \in 0 .. Pow[j] - 1 /\ U \in Int
    BY <1>2, <2>3, <2>4
  <2> HIDE DEF q, U
  <2> QED
    BY <2>1, <2>5, WordUnique
<1>4. ASSUME NEW j \in k .. n PROVE Word(c, j) = c
  <2>1. k \in Nat /\ j - k \in Nat /\ j \in 0 .. Wide /\ j - k \in 0 .. Wide /\ k + (j - k) = j
    BY <1>1
  <2>2. Pow[j] = Pow[j - k] * Pow[k]
    BY <1>1, <2>1, PowAdds
  <2>3. Pow[j - k] \in Nat \ {0} /\ Pow[j] \in Nat
    BY <2>1, PowPositive
  <2>4. Pow[j - k] * Pow[k] >= Pow[k]
    <3> DEFINE d == Pow[j - k]
               p == Pow[k]
    <3>1. d \in Nat /\ d >= 1 /\ p \in Nat
      BY <1>1, <2>3
    <3> HIDE DEF d, p
    <3>2. d * p >= p
      BY <3>1
    <3> QED
      BY <3>2 DEF d, p
  <2>5. c \in 0 .. Pow[j] - 1
    BY <1>1, <1>2, <2>2, <2>3, <2>4
  <2> QED
    BY <2>1, <2>5, WordEnds
<1> HIDE DEF U
<1>5. \A j \in 0 .. k : Word(U, j) = 0
  BY <1>3
<1>6. \A j \in k .. n : Word(c, j) = c
  BY <1>4
<1>7. Or(U, c, n) = U + c
  BY <1>2, <1>5, <1>6, OrDisjoint
<1> QED
  BY <1>7 DEF U

-------------------------------------------------------------------------------
(* The texts of numbers. *)

LEMMA PowMonotone ==
    ASSUME NEW j \in 0 .. Wide, NEW i \in 0 .. j
    PROVE  Pow[i] <= Pow[j]
<1>1. Wide \in Nat /\ i \in Nat /\ i \in 0 .. Wide /\ j - i \in Nat /\ j - i \in 0 .. Wide /\ i + (j - i) = j
  BY PowStep
<1>2. Pow[j] = Pow[j - i] * Pow[i]
  BY <1>1, PowAdds
<1>3. Pow[i] \in Nat \ {0} /\ Pow[j - i] \in Nat \ {0}
  BY <1>1, PowPositive
<1> DEFINE d == Pow[j - i]
           p == Pow[i]
<1>4. d \in Nat /\ d >= 1 /\ p \in Nat
  BY <1>3
<1> HIDE DEF d, p
<1>5. p <= d * p
  BY <1>4
<1> QED
  BY <1>2, <1>5 DEF d, p

\* One digit takes one bit in base 2 and four in base 16.
DigitBits(b) == IF b = 2 THEN 1 ELSE 4

LEMMA PowDigits ==
    /\ WordBits \in Nat /\ 4 <= WordBits /\ WordBits <= Wide /\ Wide \in Nat
    /\ \A b \in {2, 16} : Pow[DigitBits(b)] = b
<1>1. WordBits \in Nat /\ 4 <= WordBits /\ WordBits <= Wide /\ Wide \in Nat
  BY WordBitsAssumption DEF Wide
<1>2. {0, 1, 2, 3} \subseteq 0 .. Wide - 1
  BY <1>1
<1>3. Pow[0 + 1] = 2 * Pow[0] /\ Pow[1 + 1] = 2 * Pow[1] /\ Pow[2 + 1] = 2 * Pow[2] /\ Pow[3 + 1] = 2 * Pow[3]
  BY <1>2, PowStep
<1>4. Pow[0] = 1
  BY PowStep
<1>5. Pow[1] = 2 /\ Pow[2] = 4 /\ Pow[3] = 8 /\ Pow[4] = 16
  BY <1>3, <1>4
<1> QED
  BY <1>1, <1>5 DEF DigitBits

\* The value of a text, digit by digit.
LEMMA NumberIs ==
    ASSUME NEW b \in Nat, NEW ds \in Seq(Nat)
    PROVE  \E f \in [0 .. Len(ds) -> Nat] :
              /\ f[0] = 0
              /\ \A i \in 1 .. Len(ds) : f[i] = f[i - 1] * b + ds[i]
              /\ Number(ds, b) = f[Len(ds)]
<1> DEFINE n == Len(ds)
           s == [p \in Nat \X (1 .. n) |-> p[1] * b + ds[p[2]]]
           P(f) == f = [i \in 0 .. n |-> IF i = 0 THEN 0 ELSE f[i - 1] * b + ds[i]]
<1>1. n \in Nat /\ \A i \in 1 .. n : ds[i] \in Nat
  OBVIOUS
<1>2. Number(ds, b) = (CHOOSE f : P(f))[n]
  BY DEF Number
<1> HIDE DEF n
<1>3. s \in [Nat \X (1 .. n) -> Nat]
  BY <1>1
<1>4. PICK f \in [0 .. n -> Nat] : Iterates(f, 0, s, n)
  <2>1. 0 \in Nat
    OBVIOUS
  <2> HIDE DEF s
  <2> QED
    BY <1>1, <1>3, <2>1, Iteration
<1>5. P(f)
  <2>1. ASSUME NEW i \in 0 .. n PROVE f[i] = IF i = 0 THEN 0 ELSE f[i - 1] * b + ds[i]
    <3>1. CASE i = 0
      BY <1>4, <3>1 DEF Iterates
    <3>2. CASE i # 0
      <4>1. i \in 1 .. n /\ i - 1 \in 0 .. n
        BY <1>1, <3>2
      <4>2. f[i] = s[<<f[i - 1], i>>]
        BY <1>4, <4>1 DEF Iterates
      <4>3. <<f[i - 1], i>> \in Nat \X (1 .. n)
        BY <4>1
      <4> QED
        BY <3>2, <4>2, <4>3
    <3> QED
      BY <3>1, <3>2
  <2> QED
    BY <2>1
<1> DEFINE g == CHOOSE h : P(h)
<1>6. P(g)
  <2> HIDE DEF P
  <2> QED
    BY <1>5
<1>7. Number(ds, b) = g[n]
  BY <1>2
<1> HIDE DEF g
<1>8. g[0] = 0
  <2>1. 0 \in 0 .. n
    BY <1>1
  <2> QED
    BY <1>6, <2>1
<1>9. \A i \in 1 .. n : g[i] = g[i - 1] * b + ds[i]
  <2>1. \A i \in 1 .. n : i \in 0 .. n /\ i # 0
    BY <1>1
  <2> QED
    BY <1>6, <2>1
<1>10. g \in [0 .. n -> Nat]
  <2> DEFINE T == {i \in Nat : g[i] \in Nat}
  <2>1. 0 \in T
    BY <1>8
  <2>2. ASSUME NEW i \in 0 .. n - 1, i \in T PROVE i + 1 \in T
    <3>1. i + 1 \in 1 .. n /\ i + 1 \in Nat /\ (i + 1) - 1 = i /\ g[i] \in Nat
      BY <1>1, <2>2
    <3>2. g[i + 1] = g[i] * b + ds[i + 1] /\ ds[i + 1] \in Nat
      BY <1>1, <1>9, <3>1
    <3> DEFINE v == g[i]
               d == ds[i + 1]
    <3>3. v \in Nat /\ d \in Nat
      BY <3>1, <3>2
    <3> HIDE DEF v, d
    <3>4. v * b + d \in Nat
      BY <3>3
    <3>5. g[i + 1] \in Nat
      BY <3>2, <3>4 DEF v, d
    <3> QED
      BY <3>1, <3>5
  <2> HIDE DEF T
  <2>3. \A i \in 0 .. n : i \in T
    BY <1>1, <2>1, <2>2, Induction
  <2>4. DOMAIN g = 0 .. n /\ g = [i \in 0 .. n |-> g[i]]
    BY <1>6
  <2> QED
    BY <2>3, <2>4 DEF T
<1> QED
  BY <1>7, <1>8, <1>9, <1>10 DEF n

\* The same for the bits gathered from a text.
LEMMA GatheredIs ==
    ASSUME NEW k \in 0 .. Wide, NEW cs \in Seq(Nat)
    PROVE  \E f \in [0 .. Len(cs) -> Nat] :
              /\ f[0] = 0
              /\ \A i \in 1 .. Len(cs) : f[i] = Or(f[i - 1] * Pow[k], cs[i], Wide)
              /\ Gathered(cs, k) = f[Len(cs)]
<1> DEFINE n == Len(cs)
           s == [p \in Nat \X (1 .. n) |-> Or(p[1] * Pow[k], cs[p[2]], Wide)]
           P(f) == f = [i \in 0 .. n |-> IF i = 0 THEN 0 ELSE Or(f[i - 1] * Pow[k], cs[i], Wide)]
<1>1. n \in Nat /\ \A i \in 1 .. n : cs[i] \in Nat
  OBVIOUS
<1>2. Gathered(cs, k) = (CHOOSE f : P(f))[n]
  BY DEF Gathered, Wide
<1> HIDE DEF n
<1>3. \A u \in Nat : \A i \in 1 .. n : Or(u * Pow[k], cs[i], Wide) \in Nat
  <2> SUFFICES ASSUME NEW u \in Nat, NEW i \in 1 .. n PROVE Or(u * Pow[k], cs[i], Wide) \in Nat
    OBVIOUS
  <2> DEFINE U == u * Pow[k]
             c == cs[i]
  <2>1. U \in Nat /\ c \in Nat /\ OrOp \in BitTable /\ Wide \in 0 .. Wide /\ Pow[Wide] \in Nat \ {0}
    <3>1. Pow[k] \in Nat /\ Wide \in 0 .. Wide
      BY PowStep, PowPositive
    <3>2. U \in Nat
      BY <3>1
    <3> QED
      BY <1>1, <3>1, <3>2, Tables, PowPositive
  <2> HIDE DEF U, c
  <2>2. Bitwise(OrOp, U, c, Wide) \in 0 .. Pow[Wide] - 1
    BY <2>1, BitwiseType
  <2>3. Or(U, c, Wide) \in Nat
    BY <2>1, <2>2, Tables
  <2> QED
    BY <2>3 DEF U, c
<1>4. s \in [Nat \X (1 .. n) -> Nat]
  BY <1>3
<1>5. PICK f \in [0 .. n -> Nat] : Iterates(f, 0, s, n)
  <2>1. 0 \in Nat
    OBVIOUS
  <2> HIDE DEF s
  <2> QED
    BY <1>1, <1>4, <2>1, Iteration
<1>6. P(f)
  <2>1. ASSUME NEW i \in 0 .. n PROVE f[i] = IF i = 0 THEN 0 ELSE Or(f[i - 1] * Pow[k], cs[i], Wide)
    <3>1. CASE i = 0
      BY <1>5, <3>1 DEF Iterates
    <3>2. CASE i # 0
      <4>1. i \in 1 .. n /\ i - 1 \in 0 .. n
        BY <1>1, <3>2
      <4>2. f[i] = s[<<f[i - 1], i>>]
        BY <1>5, <4>1 DEF Iterates
      <4>3. <<f[i - 1], i>> \in Nat \X (1 .. n)
        BY <4>1
      <4> QED
        BY <3>2, <4>2, <4>3
    <3> QED
      BY <3>1, <3>2
  <2> QED
    BY <2>1
<1> DEFINE g == CHOOSE h : P(h)
<1>7. P(g)
  <2> HIDE DEF P
  <2> QED
    BY <1>6
<1>8. Gathered(cs, k) = g[n]
  BY <1>2
<1> HIDE DEF g
<1>9. g[0] = 0
  <2>1. 0 \in 0 .. n
    BY <1>1
  <2> QED
    BY <1>7, <2>1
<1>10. \A i \in 1 .. n : g[i] = Or(g[i - 1] * Pow[k], cs[i], Wide)
  <2>1. \A i \in 1 .. n : i \in 0 .. n /\ i # 0
    BY <1>1
  <2> QED
    BY <1>7, <2>1
<1>11. g \in [0 .. n -> Nat]
  <2> DEFINE T == {i \in Nat : g[i] \in Nat}
  <2>1. 0 \in T
    BY <1>9
  <2>2. ASSUME NEW i \in 0 .. n - 1, i \in T PROVE i + 1 \in T
    <3>1. i + 1 \in 1 .. n /\ i + 1 \in Nat /\ (i + 1) - 1 = i /\ g[i] \in Nat
      BY <1>1, <2>2
    <3>2. g[i + 1] = Or(g[i] * Pow[k], cs[i + 1], Wide)
      BY <1>10, <3>1
    <3> QED
      BY <1>3, <3>1, <3>2
  <2> HIDE DEF T
  <2>3. \A i \in 0 .. n : i \in T
    BY <1>1, <2>1, <2>2, Induction
  <2>4. DOMAIN g = 0 .. n /\ g = [i \in 0 .. n |-> g[i]]
    BY <1>7
  <2> QED
    BY <2>3, <2>4 DEF T
<1> QED
  BY <1>8, <1>9, <1>10, <1>11 DEF n

\* One more digit is one more place of k bits.
LEMMA Appended ==
    ASSUME NEW b \in Nat, NEW v \in Nat, NEW p \in Nat, NEW d \in 0 .. b - 1, v < p
    PROVE  v * b + d \in Nat /\ v * b + d < p * b
<1>1. (v + 1) * b <= p * b
  <2>1. p - (v + 1) \in Nat
    OBVIOUS
  <2> DEFINE e == p - (v + 1)
  <2>2. e \in Nat /\ p = (v + 1) + e
    BY <2>1
  <2> HIDE DEF e
  <2>3. p * b = (v + 1) * b + e * b /\ e * b >= 0
    BY <2>2
  <2>4. (v + 1) * b \in Int /\ e * b \in Int
    BY <2>2
  <2> DEFINE xx == (v + 1) * b
             y == e * b
             z == p * b
  <2>5. z = xx + y /\ y >= 0 /\ xx \in Int /\ y \in Int
    BY <2>3, <2>4
  <2> HIDE DEF xx, y, z
  <2>6. xx <= z
    BY <2>5
  <2> QED
    BY <2>6 DEF xx, z
<1>2. (v + 1) * b = v * b + b
  OBVIOUS
<1> DEFINE xx == v * b
           z == p * b
<1>3. xx \in Nat /\ z \in Nat /\ xx + b <= z /\ d \in Nat /\ d < b
  BY <1>1, <1>2
<1> HIDE DEF xx, z
<1>4. xx + d \in Nat /\ xx + d < z
  BY <1>3
<1> QED
  BY <1>4 DEF xx, z

\* binstrToValue and hexstrToValue read the number that the digits denote, as
\* long as there are no more of them than the type has room for.
LEMMA GatheredNumber ==
    ASSUME NEW b \in {2, 16}, NEW ds \in Seq(0 .. b - 1), Len(ds) * DigitBits(b) <= WordBits
    PROVE  Gathered(ds, DigitBits(b)) = Number(ds, b) /\ Number(ds, b) \in Nat
<1> DEFINE k == DigitBits(b)
           n == Len(ds)
<1>1. /\ k \in 1 .. 4 /\ k \in 0 .. Wide /\ Wide \in Nat /\ WordBits <= Wide /\ WordBits \in Nat
      /\ Pow[k] = b /\ b \in Nat /\ n \in Nat /\ n * k <= WordBits
  BY PowDigits DEF DigitBits
<1>2. ds \in Seq(Nat) /\ \A i \in 1 .. n : ds[i] \in 0 .. b - 1
  <2>1. 0 .. b - 1 \subseteq Nat
    OBVIOUS
  <2>2. ds \in Seq(Nat)
    BY <2>1, SeqWider
  <2> QED
    BY <2>2
<1>3. PICK f \in [0 .. n -> Nat] :
         /\ f[0] = 0
         /\ \A i \in 1 .. n : f[i] = f[i - 1] * b + ds[i]
         /\ Number(ds, b) = f[n]
  BY <1>1, <1>2, NumberIs
<1>4. PICK g \in [0 .. n -> Nat] :
         /\ g[0] = 0
         /\ \A i \in 1 .. n : g[i] = Or(g[i - 1] * Pow[k], ds[i], Wide)
         /\ Gathered(ds, k) = g[n]
  BY <1>1, <1>2, GatheredIs
<1> HIDE DEF k, n
<1> DEFINE T == {i \in Nat : i * k \in 0 .. WordBits /\ g[i] = f[i] /\ f[i] < Pow[i * k]}
<1>5. 0 \in T
  <2>1. 0 * k = 0
    BY <1>1
  <2>2. 0 \in 0 .. WordBits /\ 0 < Pow[0]
    BY <1>1, PowStep
  <2> QED
    BY <1>3, <1>4, <2>1, <2>2
<1>6. ASSUME NEW i \in 0 .. n - 1, i \in T PROVE i + 1 \in T
  <2>1. i + 1 \in 1 .. n /\ i \in 0 .. n /\ (i + 1) - 1 = i /\ i + 1 \in Nat /\ i \in Nat
    BY <1>1
  <2> DEFINE v == f[i]
             d == ds[i + 1]
             m == i * k
  <2>2. v \in Nat /\ d \in 0 .. b - 1 /\ v < Pow[m] /\ m \in 0 .. WordBits /\ g[i] = v
    BY <1>2, <1>3, <1>6, <2>1
  <2>3. f[i + 1] = v * b + d /\ g[i + 1] = Or(v * Pow[k], d, Wide)
    BY <1>3, <1>4, <2>1, <2>2
  <2>4. (i + 1) * k = m + k /\ m + k <= WordBits
    <3>1. (i + 1) * k = i * k + k
      BY <1>1, <2>1
    <3>2. (i + 1) * k <= n * k
      <4>1. n - (i + 1) \in Nat
        BY <1>1, <2>1
      <4> DEFINE e == n - (i + 1)
      <4>2. e \in Nat /\ n = (i + 1) + e
        BY <1>1, <2>1, <4>1
      <4> HIDE DEF e
      <4>3. n * k = (i + 1) * k + e * k /\ e * k \in Nat /\ (i + 1) * k \in Nat
        BY <1>1, <2>1, <4>2
      <4> DEFINE y == e * k
                 z == (i + 1) * k
                 w == n * k
      <4>4. w = z + y /\ y \in Nat /\ z \in Nat
        BY <4>3
      <4> HIDE DEF y, z, w
      <4>5. z <= w
        BY <4>4
      <4> QED
        BY <4>5 DEF z, w
    <3>3. n * k \in Int /\ (i + 1) * k \in Int
      BY <1>1, <2>1
    <3> DEFINE z == (i + 1) * k
               w == n * k
    <3>4. z = m + k /\ z <= w /\ w <= WordBits /\ w \in Int /\ z \in Int
      BY <1>1, <3>1, <3>2, <3>3
    <3> HIDE DEF z, w, m
    <3>5. m + k <= WordBits
      BY <1>1, <3>4
    <3> QED
      BY <3>4, <3>5 DEF z
  <2> HIDE DEF v, d, m
  <2>5. m + k \in 0 .. WordBits /\ m + k \in 0 .. Wide /\ m \in 0 .. Wide /\ m \in Nat /\ k \in Nat
    BY <1>1, <2>2, <2>4
  <2>6. Pow[m + k] = Pow[m] * b
    <3>1. Pow[k + m] = Pow[m] * Pow[k]
      BY <2>5, PowAdds
    <3>2. k + m = m + k
      BY <2>5
    <3> QED
      BY <1>1, <3>1, <3>2
  <2>7. v * b + d \in Nat /\ v * b + d < Pow[m + k]
    <3>1. Pow[m] \in Nat
      BY <2>5, PowPositive
    <3>2. v * b + d \in Nat /\ v * b + d < Pow[m] * b
      BY <1>1, <2>2, <3>1, Appended
    <3> QED
      BY <2>6, <3>2
  <2>8. Or(v * Pow[k], d, Wide) = v * b + d
    <3>1. Wide \in 0 .. Wide /\ m + k \in 0 .. Wide
      BY <1>1, <2>5
    <3>2. Pow[m + k] <= Pow[Wide] /\ Pow[m + k] \in Nat /\ Pow[Wide] \in Nat
      BY <3>1, PowMonotone, PowPositive
    <3> DEFINE s == v * Pow[k] + d
    <3>3. s \in Nat /\ s < Pow[m + k]
      BY <1>1, <2>7
    <3> HIDE DEF s
    <3>4. s < Pow[Wide]
      BY <3>2, <3>3
    <3>5. Or(v * Pow[k], d, Wide) = v * Pow[k] + d
      <4>1. v * Pow[k] + d < Pow[Wide]
        BY <3>4 DEF s
      <4>2. d \in 0 .. Pow[k] - 1
        BY <1>1, <2>2
      <4> QED
        BY <1>1, <2>2, <3>1, <4>1, <4>2, OrAdds
    <3> QED
      BY <1>1, <3>5
  <2> QED
    BY <2>1, <2>3, <2>4, <2>5, <2>7, <2>8
<1>7. \A i \in 0 .. n : i \in T
  <2> HIDE DEF T
  <2> QED
    BY <1>1, <1>5, <1>6, Induction
<1>8. n \in 0 .. n /\ g[n] = f[n] /\ f[n] \in Nat
  BY <1>1, <1>3, <1>7
<1> QED
  BY <1>3, <1>4, <1>8 DEF k

\* The numbers that digits and nodes stand for.
LEMMA NumberType ==
    ASSUME NEW b \in Nat, NEW ds \in Seq(Nat)
    PROVE  Number(ds, b) \in Nat
<1>1. PICK f \in [0 .. Len(ds) -> Nat] : Number(ds, b) = f[Len(ds)]
  BY NumberIs
<1>2. Len(ds) \in 0 .. Len(ds)
  OBVIOUS
<1> QED
  BY <1>1, <1>2

LEMMA GatheredType ==
    ASSUME NEW k \in 0 .. Wide, NEW cs \in Seq(Nat)
    PROVE  Gathered(cs, k) \in Nat
<1>1. PICK f \in [0 .. Len(cs) -> Nat] : Gathered(cs, k) = f[Len(cs)]
  BY GatheredIs
<1>2. Len(cs) \in 0 .. Len(cs)
  OBVIOUS
<1> QED
  BY <1>1, <1>2

\* The texts as the lemmas take them.
LEMMA LiteralDigits ==
    ASSUME NEW l, IsLiteral(l)
    PROVE  /\ l.base \in {2, 10, 16} /\ l.base \in Nat
           /\ l.digits \in Seq(0 .. l.base - 1) /\ l.digits \in Seq(Nat)
           /\ Counted(l) \in Seq(Nat)
<1>1. l.base \in {2, 10, 16} /\ l.base \in Nat /\ l.first \in Nat /\ l.digits \in Seq(0 .. l.base - 1)
  BY DEF IsLiteral
<1>2. 0 .. l.base - 1 \subseteq Nat
  OBVIOUS
<1>3. l.digits \in Seq(Nat)
  BY <1>1, <1>2, SeqWider
<1> DEFINE letter == IF l.base = 2 THEN 50 ELSE 0
<1>4. letter \in Nat
  OBVIOUS
<1> HIDE DEF letter
<1>5. <<l.first, letter>> \in Seq(Nat)
  BY <1>1, <1>4
<1>6. <<l.first, letter>> \o l.digits \in Seq(Nat)
  BY <1>3, <1>5
<1>7. Counted(l) \in Seq(Nat)
  BY <1>3, <1>6 DEF Counted, letter
<1> QED
  BY <1>1, <1>3, <1>7

LEMMA PatternType ==
    ASSUME NEW l, IsLiteral(l)
    PROVE  Pattern(l) \in Nat
<1> DEFINE k == IF l.base = 2 THEN 1 ELSE 4
<1>1. k \in 0 .. Wide
  BY PowDigits
<1> HIDE DEF k
<1>2. Gathered(Counted(l), k) \in Nat
  BY <1>1, LiteralDigits, GatheredType
<1> QED
  BY <1>2 DEF Pattern, k

\* A number that fits a word fits the wide one.
LEMMA FitsWide ==
    ASSUME NEW i \in Int, Fits(i, WordBits)
    PROVE  Fits(i, Wide)
<1>1. WordBits - 1 \in 0 .. Wide - 1 /\ Wide - 1 \in 0 .. Wide /\ WordBits - 1 \in 0 .. Wide
  BY PowDigits
<1>2. Pow[WordBits - 1] <= Pow[Wide - 1] /\ Pow[WordBits - 1] \in Nat /\ Pow[Wide - 1] \in Nat
  BY <1>1, PowMonotone, PowPositive
<1> QED
  BY <1>2 DEF Fits

\* What the node of a text holds is an i32, and the constant takes it whole.
LEMMA NodeType ==
    ASSUME NEW l, IsLiteral(l)
    PROVE  /\ NodeValue(l) \in Int /\ Fits(NodeValue(l), WordBits)
           /\ ConstantBits(l) \in {WordBits, Wide}
           /\ LET n == ConstantBits(l)
              IN  /\ Word(NodeValue(l), n) \in 0 .. Pow[n] - 1
                  /\ Signed(Word(NodeValue(l), n), n) = NodeValue(l)
<1>1. WordBits \in 1 .. Wide /\ Wide \in 1 .. Wide /\ WordBits \in 0 .. Wide
  BY PowDigits
<1>2. NodeValue(l) \in Int /\ Fits(NodeValue(l), WordBits)
  <2>1. CASE l.base = 10
    <3> DEFINE m == Number(l.digits, 10)
    <3>1. m \in Nat
      BY LiteralDigits, NumberType
    <3> HIDE DEF m
    <3>2. Pow[WordBits - 1] \in Nat \ {0}
      BY <1>1, Halves
    <3>3. Saturated(m) \in Int /\ Fits(Saturated(m), WordBits)
      BY <3>1, <3>2 DEF Saturated, Fits
    <3> QED
      BY <2>1, <3>3 DEF NodeValue, m
  <2>2. CASE l.base # 10
    <3> DEFINE w == Word(Pattern(l), WordBits)
    <3>1. Pattern(l) \in Int
      BY PatternType
    <3>2. w \in 0 .. Pow[WordBits] - 1
      BY <1>1, <3>1, WordType
    <3> HIDE DEF w
    <3>3. Signed(w, WordBits) \in Int /\ Fits(Signed(w, WordBits), WordBits)
      BY <1>1, <3>2, SignedType
    <3> QED
      BY <2>2, <3>3 DEF NodeValue, w
  <2> QED
    BY <2>1, <2>2
<1>3. ConstantBits(l) \in {WordBits, Wide}
  BY DEF ConstantBits, Wide
<1> DEFINE n == ConstantBits(l)
           i == NodeValue(l)
<1>4. n \in 1 .. Wide /\ n \in 0 .. Wide /\ i \in Int /\ Fits(i, n)
  <2>1. n \in 1 .. Wide /\ n \in 0 .. Wide
    BY <1>1, <1>3
  <2>2. Fits(i, n)
    BY <1>2, <1>3, FitsWide
  <2> QED
    BY <1>2, <2>1, <2>2
<1> HIDE DEF n, i
<1>5. Word(i, n) \in 0 .. Pow[n] - 1 /\ Signed(Word(i, n), n) = i
  BY <1>4, WordType, SignedWord
<1> QED
  BY <1>2, <1>3, <1>5 DEF n, i

\* encode_expr_int and the conversions of the parser: a decimal number that
\* fits, and a pattern of bits that does, is what the text means.
LEMMA SoundLiteral ==
    ASSUME NEW l, IsLiteral(l), Sound(l)
    PROVE  NodeValue(l) = Meant(l)
<1>1. CASE l.base = 10
  <2>1. Fits(Number(l.digits, 10), WordBits)
    BY <1>1 DEF Sound
  <2> QED
    BY <1>1, <2>1 DEF NodeValue, Saturated, Meant
<1>2. CASE l.base # 10
  <2> DEFINE b == l.base
             ds == l.digits
             k == DigitBits(b)
  <2>1. b \in {2, 16} /\ ds \in Seq(0 .. b - 1)
    BY <1>2, LiteralDigits
  <2>2. k = IF l.base = 2 THEN 1 ELSE 4
    BY DEF DigitBits
  <2>3. l.first = 0 /\ Len(ds) * k <= WordBits
    BY <1>2, <2>2 DEF Sound
  <2>4. Counted(l) = ds
    BY <2>3 DEF Counted
  <2>5. Gathered(ds, k) = Number(ds, b)
    BY <2>1, <2>3, GatheredNumber
  <2>6. Len(ds) * k \in Int
    <3>1. Len(ds) \in Nat
      BY <2>1
    <3> QED
      BY <2>2, <3>1
  <2>7. ~ (Len(ds) * k > WordBits)
    BY <2>3, <2>6, PowDigits
  <2>8. Pattern(l) = Number(ds, b)
    BY <2>2, <2>4, <2>5, <2>7 DEF Pattern
  <2> QED
    BY <1>2, <2>8 DEF NodeValue, Meant
<1> QED
  BY <1>1, <1>2

-------------------------------------------------------------------------------
(* Instructions. *)

LEMMA BitsOf ==
    /\ Bits("i1") = 1 /\ Bits("i32") = WordBits /\ Bits("i64") = Wide
    /\ \A t \in Integer : Bits(t) \in 1 .. Wide /\ Bits(t) \in 0 .. Wide
    /\ Pow[0] = 1 /\ Pow[1] = 2
<1>1. Bits("i1") = 1 /\ Bits("i32") = WordBits /\ Bits("i64") = Wide
  BY DEF Bits, Wide
<1>2. 1 \in 1 .. Wide /\ WordBits \in 1 .. Wide /\ Wide \in 1 .. Wide
  BY PowDigits
<1>3. \A t \in Integer : Bits(t) \in 1 .. Wide
  BY <1>1, <1>2 DEF Integer
<1>4. \A m \in 1 .. Wide : m \in 0 .. Wide
  OBVIOUS
<1>5. Pow[0] = 1 /\ Pow[1] = 2
  <2>1. 0 \in 0 .. Wide - 1
    BY PowDigits
  <2>2. Pow[0 + 1] = 2 * Pow[0]
    BY <2>1, PowStep
  <2> QED
    BY <2>2, PowStep
<1> QED
  BY <1>1, <1>3, <1>4, <1>5

\* Quotients are integers, and of a negative number by -1 the number without sign.
LEMMA QuotientType ==
    ASSUME NEW i \in Int, NEW j \in Int, j # 0
    PROVE  Quotient(i, j) \in Int /\ Remainder(i, j) \in Int /\ (i < 0 /\ j = -1 => Quotient(i, j) = -i)
<1> DEFINE a == IF i < 0 THEN -i ELSE i
           b == IF j < 0 THEN -j ELSE j
           q == a \div b
<1>1. a \in Nat /\ b \in Nat \ {0}
  OBVIOUS
<1>2. i < 0 /\ j = -1 => a = -i /\ b = 1 /\ ((i < 0) = (j < 0))
  <2>1. (i < 0 => a = -i) /\ (j = -1 => b = 1) /\ (j = -1 => j < 0)
    <3>1. i < 0 => a = -i
      OBVIOUS
    <3>2. j = -1 => j < 0
      OBVIOUS
    <3>3. j = -1 => -j = 1
      <4>1. j = -1 => j + 1 = 0
        OBVIOUS
      <4>2. j + 1 = 0 => -j = 1
        OBVIOUS
      <4> QED
        BY <4>1, <4>2
    <3>4. j = -1 => b = 1
      BY <3>2, <3>3
    <3> QED
      BY <3>1, <3>2, <3>4
  <2>2. i < 0 /\ j < 0 => ((i < 0) = (j < 0))
    <3> DEFINE s == i < 0
               t == j < 0
    <3>1. s \in BOOLEAN /\ t \in BOOLEAN
      OBVIOUS
    <3> HIDE DEF s, t
    <3>2. s /\ t => (s = t)
      BY <3>1, Zenon
    <3> QED
      BY <3>2, Zenon DEF s, t
  <2> QED
    BY <2>1, <2>2
<1>3. Quotient(i, j) = IF (i < 0) = (j < 0) THEN q ELSE -q
  BY DEF Quotient
<1> HIDE DEF a, b
<1>4. q \in Int /\ (b = 1 => q = a)
  BY <1>1
<1> HIDE DEF q
<1>5. Quotient(i, j) \in Int /\ (i < 0 /\ j = -1 => Quotient(i, j) = -i)
  BY <1>2, <1>3, <1>4
<1> DEFINE r == Quotient(i, j)
<1>6. Remainder(i, j) = i - j * r /\ r \in Int
  BY <1>5 DEF Remainder
<1> HIDE DEF r
<1>7. Remainder(i, j) \in Int
  BY <1>6
<1> QED
  BY <1>5, <1>7

\* What a shift to the right leaves of a word is one.
LEMMA ShiftedType ==
    ASSUME NEW a \in Nat, NEW p \in Nat \ {0}
    PROVE  a \div p \in 0 .. a
<1> DEFINE q == a \div p
           r == a % p
<1>1. q \in Int /\ r \in 0 .. p - 1 /\ a = q * p + r
  BY ModRange
<1> HIDE DEF q, r
<1>2. q >= 0
  <2>1. q <= -1 => q * p <= -p
    BY <1>1
  <2> DEFINE y == q * p
  <2>2. y \in Int /\ a = y + r /\ (q <= -1 => y <= -p)
    BY <1>1, <2>1
  <2> HIDE DEF y
  <2> QED
    BY <1>1, <2>2
<1>3. q * p >= q
  <2>1. p - 1 \in Nat
    OBVIOUS
  <2> DEFINE e == p - 1
  <2>2. e \in Nat /\ p = e + 1
    BY <2>1
  <2> HIDE DEF e
  <2>3. q * p = q * e + q /\ q * e >= 0 /\ q * e \in Int
    BY <1>1, <1>2, <2>2
  <2> DEFINE xx == q * e
             y == q * p
  <2>4. y = xx + q /\ xx >= 0 /\ xx \in Int
    BY <2>3
  <2> HIDE DEF xx, y
  <2>5. y >= q
    BY <1>1, <2>4
  <2> QED
    BY <2>5 DEF y
<1> DEFINE y == q * p
<1>4. y \in Int /\ a = y + r /\ y >= q
  BY <1>1, <1>3
<1> HIDE DEF y
<1>5. q \in 0 .. a
  BY <1>1, <1>2, <1>4
<1> QED
  BY <1>5 DEF q

\* An instruction makes a word of the width of its operands, or leaves it open.
LEMMA InstructionType ==
    ASSUME NEW op \in Binary, NEW n \in 1 .. Wide, NEW a \in 0 .. Pow[n] - 1, NEW b \in 0 .. Pow[n] - 1
    PROVE  \/ InstructionWord(op, a, b, n) = Undef
           \/ op \in Compare /\ InstructionWord(op, a, b, n) \in {0, 1}
           \/ op \notin Compare /\ InstructionWord(op, a, b, n) \in 0 .. Pow[n] - 1
<1> DEFINE i == Signed(a, n)
           j == Signed(b, n)
           w == InstructionWord(op, a, b, n)
<1>1. n \in 0 .. Wide /\ Pow[n] \in Nat \ {0} /\ a \in Nat /\ b \in Nat /\ a \in Int /\ b \in Int
      /\ i \in Int /\ j \in Int /\ Wide \in Nat
  BY PowPositive, SignedType, PowStep
<1>2. CASE op \in Arith
  <2>1. w = ArithWord(op, a, b, n) /\ op \notin Compare
    BY <1>2 DEF InstructionWord, Arith, Compare, Logic, BitOper
  <2> HIDE DEF w
  <2>2. CASE op = "ADD"
    <3>1. w = Word(i + j, n) /\ i + j \in Int
      BY <1>1, <2>1, <2>2 DEF ArithWord
    <3> QED
      BY <1>1, <2>1, <3>1, WordType DEF w
  <2>3. CASE op = "SUB"
    <3>1. w = Word(i - j, n) /\ i - j \in Int
      BY <1>1, <2>1, <2>3 DEF ArithWord
    <3> QED
      BY <1>1, <2>1, <3>1, WordType DEF w
  <2>4. CASE op = "MUL"
    <3>1. w = Word(i * j, n) /\ i * j \in Int
      BY <1>1, <2>1, <2>4 DEF ArithWord
    <3> QED
      BY <1>1, <2>1, <3>1, WordType DEF w
  <2>5. CASE op = "DIV"
    <3>1. w = Undef \/ (w = Word(Quotient(i, j), n) /\ j # 0)
      BY <2>1, <2>5 DEF ArithWord
    <3>2. j # 0 => Quotient(i, j) \in Int
      BY <1>1, QuotientType
    <3> QED
      BY <1>1, <2>1, <3>1, <3>2, WordType DEF w
  <2>6. CASE op = "MOD"
    <3>1. w = Undef \/ (w = Word(Remainder(i, j), n) /\ j # 0)
      BY <2>1, <2>6 DEF ArithWord
    <3>2. j # 0 => Remainder(i, j) \in Int
      BY <1>1, QuotientType
    <3> QED
      BY <1>1, <2>1, <3>1, <3>2, WordType DEF w
  <2> QED
    BY <1>2, <2>2, <2>3, <2>4, <2>5, <2>6 DEF Arith
<1>3. CASE op \in Compare
  <2>1. w = CompareWord(op, a, b, n)
    BY <1>3 DEF InstructionWord, Arith, Compare, Logic, BitOper
  <2> QED
    BY <1>3, <2>1 DEF CompareWord, Compared, Truth
<1>4. CASE op \in Logic \union BitOper
  <2>1. w = BitWord(op, a, b, n) /\ op \notin Compare
    BY <1>4 DEF InstructionWord, Arith, Compare, Logic, BitOper
  <2>2. /\ And(a, b, n) \in 0 .. Pow[n] - 1
        /\ Or(a, b, n) \in 0 .. Pow[n] - 1
        /\ Xor(a, b, n) \in 0 .. Pow[n] - 1
    <3>1. \A o \in {AndOp, OrOp, XorOp} : Bitwise(o, a, b, n) \in 0 .. Pow[n] - 1
      BY <1>1, BitwiseType, Tables
    <3> QED
      BY <3>1, Tables
  <2> HIDE DEF w
  <2>3. CASE op \in {"AND", "OR", "BIT_AND", "BIT_OR", "BIT_XOR"}
    BY <2>1, <2>2, <2>3 DEF BitWord, w
  <2>4. CASE op = "SHIFT_L"
    <3>1. w = Undef \/ (w = Word(a * Pow[b], n) /\ b < n)
      BY <1>1, <2>1, <2>4 DEF BitWord
    <3>2. b < n => b \in 0 .. Wide
      BY <1>1
    <3>3. b < n => a * Pow[b] \in Int
      BY <1>1, <3>2, PowPositive
    <3> QED
      BY <1>1, <2>1, <3>1, <3>3, WordType DEF w
  <2>5. CASE op = "SHIFT_R"
    <3>1. w = Undef \/ (w = a \div Pow[b] /\ b < n)
      BY <1>1, <2>1, <2>5 DEF BitWord
    <3>2. b < n => b \in 0 .. Wide
      BY <1>1
    <3>3. b < n => a \div Pow[b] \in 0 .. a
      BY <1>1, <3>2, PowPositive, ShiftedType
    <3> QED
      BY <1>1, <2>1, <3>1, <3>3 DEF w
  <2> QED
    BY <1>4, <2>3, <2>4, <2>5 DEF Logic, BitOper
<1> QED
  BY <1>2, <1>3, <1>4 DEF Binary

-------------------------------------------------------------------------------
(* What instructions make is what the operators mean. *)

\* A number that fits, and the word an instruction makes of it.
LEMMA FittingWord ==
    ASSUME NEW n \in 1 .. Wide, NEW i \in Int, Fitting(i, n) # NoMeaning
    PROVE  /\ Fits(i, n) /\ Fitting(i, n) = i
           /\ Word(i, n) \in 0 .. Pow[n] - 1 /\ Signed(Word(i, n), n) = i
<1>1. Fits(i, n) /\ Fitting(i, n) = i
  BY DEF Fitting
<1>2. n \in 0 .. Wide
  OBVIOUS
<1> QED
  BY <1>1, <1>2, WordType, SignedWord

\* CreateAdd, CreateSub, CreateMul, CreateSDiv and CreateSRem, on the words of
\* signed numbers.
LEMMA ArithMeans ==
    ASSUME NEW op \in Arith, NEW n \in 1 .. Wide, NEW a \in 0 .. Pow[n] - 1, NEW b \in 0 .. Pow[n] - 1,
           Fitting(MeantArith(op, Signed(a, n), Signed(b, n)), n) # NoMeaning,
           ~ (op = "MOD" /\ Signed(b, n) = -1 /\ ~ Fits(-Signed(a, n), n))
    PROVE  /\ ArithWord(op, a, b, n) \in 0 .. Pow[n] - 1
           /\ Signed(ArithWord(op, a, b, n), n) = Fitting(MeantArith(op, Signed(a, n), Signed(b, n)), n)
<1> DEFINE i == Signed(a, n)
           j == Signed(b, n)
           m == MeantArith(op, i, j)
           w == ArithWord(op, a, b, n)
           h == Pow[n - 1]
<1>1. i \in Int /\ j \in Int /\ h \in Nat \ {0}
  BY SignedType, Halves
<1>2. Fitting(m, n) # NoMeaning /\ ~ (op = "MOD" /\ j = -1 /\ ~ Fits(-i, n))
  OBVIOUS
<1>3. i = -h /\ j = -1 => i < 0 /\ -i = h /\ ~ Fits(-i, n)
  <2>1. i = -h => i < 0 /\ -i = h
    BY <1>1
  <2>2. -i = h => ~ Fits(-i, n)
    <3>1. ~ (h < h)
      BY <1>1
    <3> QED
      BY <3>1 DEF Fits
  <2> QED
    BY <2>1, <2>2
<1>4. CASE op = "ADD"
  <2>1. m = i + j /\ w = Word(i + j, n) /\ i + j \in Int
    BY <1>1, <1>4 DEF MeantArith, ArithWord
  <2> HIDE DEF m, w, i, j
  <2> QED
    BY <1>2, <2>1, FittingWord DEF m, w, i, j
<1>5. CASE op = "SUB"
  <2>1. m = i - j /\ w = Word(i - j, n) /\ i - j \in Int
    BY <1>1, <1>5 DEF MeantArith, ArithWord
  <2> HIDE DEF m, w, i, j
  <2> QED
    BY <1>2, <2>1, FittingWord DEF m, w, i, j
<1>6. CASE op = "MUL"
  <2>1. m = i * j /\ w = Word(i * j, n) /\ i * j \in Int
    BY <1>1, <1>6 DEF MeantArith, ArithWord
  <2> HIDE DEF m, w, i, j
  <2> QED
    BY <1>2, <2>1, FittingWord DEF m, w, i, j
<1>7. CASE op = "DIV"
  <2>1. m = IF j = 0 THEN NoMeaning ELSE Quotient(i, j)
    BY <1>7 DEF MeantArith
  <2>2. w = IF j = 0 \/ (i = -h /\ j = -1) THEN Undef ELSE Word(Quotient(i, j), n)
    BY <1>7 DEF ArithWord
  <2> HIDE DEF m, w, i, j, h
  <2>3. j # 0
    BY <1>2, <2>1 DEF Fitting
  <2>4. m = Quotient(i, j) /\ m \in Int /\ (i < 0 /\ j = -1 => m = -i)
    BY <1>1, <2>1, <2>3, QuotientType
  <2>5. Fits(m, n)
    BY <1>2, <2>4 DEF Fitting
  <2>6. w = Word(m, n)
    BY <1>3, <2>2, <2>3, <2>4, <2>5
  <2> QED
    BY <1>2, <2>4, <2>6, FittingWord DEF m, w, i, j
<1>8. CASE op = "MOD"
  <2>1. m = IF j = 0 THEN NoMeaning ELSE Remainder(i, j)
    BY <1>8 DEF MeantArith
  <2>2. w = IF j = 0 \/ (i = -h /\ j = -1) THEN Undef ELSE Word(Remainder(i, j), n)
    BY <1>8 DEF ArithWord
  <2> HIDE DEF m, w, i, j, h
  <2>3. j # 0
    BY <1>2, <2>1 DEF Fitting
  <2>4. m = Remainder(i, j) /\ m \in Int
    BY <1>1, <2>1, <2>3, QuotientType
  <2>5. w = Word(m, n)
    BY <1>2, <1>3, <1>8, <2>2, <2>3, <2>4
  <2> QED
    BY <1>2, <2>4, <2>5, FittingWord DEF m, w, i, j
<1> QED
  BY <1>4, <1>5, <1>6, <1>7, <1>8 DEF Arith

\* The bit operations, CreateShl and CreateLShr.
LEMMA BitsMeans ==
    ASSUME NEW op \in BitOper, NEW n \in 1 .. Wide, NEW a \in 0 .. Pow[n] - 1, NEW b \in 0 .. Pow[n] - 1,
           Fitting(MeantBits(op, Signed(a, n), Signed(b, n), n), n) # NoMeaning
    PROVE  /\ BitWord(op, a, b, n) \in 0 .. Pow[n] - 1
           /\ Signed(BitWord(op, a, b, n), n) = Fitting(MeantBits(op, Signed(a, n), Signed(b, n), n), n)
<1> DEFINE i == Signed(a, n)
           j == Signed(b, n)
           m == MeantBits(op, i, j, n)
           w == BitWord(op, a, b, n)
<1>1. /\ i \in Int /\ j \in Int /\ Word(i, n) = a /\ Word(j, n) = b /\ (j >= 0 => j = b)
      /\ \E e \in {0, 1} : i = a - e * Pow[n]
      /\ n \in 0 .. Wide /\ n \in Nat /\ Wide \in Nat /\ Pow[n] \in Nat \ {0} /\ a \in Nat /\ b \in Nat
  BY SignedType, PowPositive, PowStep
<1>2. Fitting(m, n) # NoMeaning
  OBVIOUS
<1>3. InstructionWord(op, a, b, n) = w /\ op \in Binary /\ op \notin Compare
  BY DEF InstructionWord, Arith, Compare, Logic, BitOper, Binary
<1>4. w = Undef \/ w \in 0 .. Pow[n] - 1
  BY <1>3, InstructionType
<1>5. ASSUME m = Signed(w, n), w \in 0 .. Pow[n] - 1
      PROVE  w \in 0 .. Pow[n] - 1 /\ Signed(w, n) = Fitting(m, n)
  BY <1>2, <1>5 DEF Fitting
<1>6. CASE op \in {"BIT_AND", "BIT_OR", "BIT_XOR"}
  <2>1. m = Signed(BitWord(op, Word(i, n), Word(j, n), n), n)
    BY <1>6 DEF MeantBits
  <2>2. BitWord(op, Word(i, n), Word(j, n), n) = w
    BY <1>1
  <2>3. w \in 0 .. Pow[n] - 1
    <3>1. \A o \in {AndOp, OrOp, XorOp} : Bitwise(o, a, b, n) \in 0 .. Pow[n] - 1
      BY <1>1, BitwiseType, Tables
    <3>2. w \in {And(a, b, n), Or(a, b, n), Xor(a, b, n)}
      BY <1>6 DEF BitWord
    <3> QED
      BY <3>1, <3>2, Tables
  <2> QED
    BY <1>5, <2>1, <2>2, <2>3
<1>7. CASE op = "SHIFT_L"
  <2>1. m = IF j \in 0 .. n - 1 THEN i * Pow[j] ELSE NoMeaning
    BY <1>7 DEF MeantBits
  <2>2. w = IF b >= n THEN Undef ELSE Word(a * Pow[b], n)
    BY <1>7 DEF BitWord
  <2>3. PICK e \in {0, 1} : i = a - e * Pow[n]
    BY <1>1
  <2> HIDE DEF m, w, i, j
  <2>4. j \in 0 .. n - 1
    BY <1>2, <2>1 DEF Fitting
  <2>5. j = b /\ b < n /\ b \in 0 .. Wide
    BY <1>1, <2>4
  <2> DEFINE p == Pow[n]
             s == Pow[b]
             d == e * s
  <2>6. p \in Nat /\ s \in Nat
    BY <1>1, <2>5, PowPositive
  <2>7. m = i * s /\ w = Word(a * s, n)
    BY <1>1, <2>1, <2>2, <2>4, <2>5
  <2> HIDE DEF p, s
  <2>8. d \in Int /\ a * s \in Int /\ i * s \in Int
    BY <1>1, <2>6
  <2>9. a * s = i * s + d * p
    <3>1. CASE e = 0
      <4>1. i = a /\ d = 0
        BY <1>1, <2>3, <2>6, <3>1
      <4>2. d * p = 0
        BY <2>6, <4>1
      <4> QED
        BY <2>8, <4>1, <4>2
    <3>2. CASE e = 1
      <4>1. i = a - p /\ d = s
        BY <1>1, <2>3, <2>6, <3>2 DEF p
      <4>2. (a - p) * s = a * s - s * p
        BY <1>1, <2>6
      <4>3. d * p = s * p /\ s * p \in Int
        BY <2>6, <4>1
      <4> DEFINE xx == a * s
                 y == s * p
                 z == (a - p) * s
      <4>4. z = xx - y /\ xx \in Int /\ y \in Int
        BY <2>8, <4>2, <4>3
      <4> HIDE DEF xx, y, z
      <4>5. xx = z + y
        BY <4>4
      <4> QED
        BY <4>1, <4>3, <4>5 DEF xx, y, z
    <3> QED
      BY <3>1, <3>2
  <2> DEFINE u == a * s
             v == i * s
  <2> HIDE DEF d
  <2>10. u \in Int /\ v \in Int /\ d \in Int /\ u = v + d * Pow[n]
    BY <2>8, <2>9 DEF p
  <2> HIDE DEF u, v
  <2>11. Word(u, n) = Word(v, n)
    BY <1>1, <2>10, WordSame
  <2>12. m = v /\ w = Word(v, n)
    BY <2>7, <2>11 DEF u, v
  <2> QED
    BY <1>2, <2>10, <2>12, FittingWord DEF m, w, i, j
<1>8. CASE op = "SHIFT_R"
  <2>1. m = IF j \in 0 .. n - 1 THEN Signed(Word(i, n) \div Pow[j], n) ELSE NoMeaning
    BY <1>8 DEF MeantBits
  <2>2. w = IF b >= n THEN Undef ELSE a \div Pow[b]
    BY <1>8 DEF BitWord
  <2> HIDE DEF m, w, i, j
  <2>3. j \in 0 .. n - 1
    BY <1>2, <2>1 DEF Fitting
  <2>4. j = b /\ b < n /\ b \in 0 .. Wide
    BY <1>1, <2>3
  <2>5. m = Signed(w, n) /\ w = a \div Pow[b]
    BY <1>1, <2>1, <2>2, <2>3, <2>4
  <2>6. a \div Pow[b] \in 0 .. a
    BY <1>1, <2>4, PowPositive, ShiftedType
  <2>7. w \in 0 .. Pow[n] - 1
    BY <1>1, <2>5, <2>6
  <2> QED
    BY <1>5, <2>5, <2>7 DEF m, w, i, j
<1> QED
  BY <1>6, <1>7, <1>8 DEF BitOper

\* ICMP on signed numbers, and for equality on truth values as well: they are
\* the same if their words, 0 and -1, are.
LEMMA CompareMeans ==
    ASSUME NEW op \in Compare, NEW a \in 0 .. 1, NEW b \in 0 .. 1, op \in {"EQ", "NE"}
    PROVE  CompareWord(op, a, b, 1) = Compared(op, a, b)
<1>1. Signed(a, 1) = (IF a >= 1 THEN a - 2 ELSE a) /\ Signed(b, 1) = (IF b >= 1 THEN b - 2 ELSE b)
  BY BitsOf DEF Signed
<1>2. a \in {0, 1} /\ b \in {0, 1}
  OBVIOUS
<1>3. Signed(a, 1) = Signed(b, 1) <=> a = b
  BY <1>1, <1>2
<1> QED
  BY <1>3 DEF CompareWord, Compared, Truth

\* And and Or of truth values.
LEMMA LogicMeans ==
    ASSUME NEW op \in Logic, NEW a \in 0 .. 1, NEW b \in 0 .. 1
    PROVE  InstructionWord(op, a, b, 1) = IF Decides(op, a) THEN a ELSE b
<1>1. /\ 1 \in 0 .. Wide /\ 0 \in 0 .. 1 - 1 /\ 1 \in 1 .. Wide /\ 0 \in 0 .. Wide - 1
      /\ Pow[0] = 1 /\ Pow[1] = 2 /\ a \in Nat /\ b \in Nat /\ a \in {0, 1} /\ b \in {0, 1}
      /\ 0 + 1 = 1
  BY PowDigits, BitsOf
<1>2. \A c \in {0, 1} : Bit(c, 0) = c
  <2> SUFFICES ASSUME NEW c \in {0, 1} PROVE Bit(c, 0) = c
    OBVIOUS
  <2>1. c \in Nat /\ c \in Int /\ c \in 0 .. Pow[1] - 1
    BY <1>1
  <2>2. Bit(c, 0) \in {0, 1} /\ Word(c, 0 + 1) = Word(c, 0) + Pow[0] * Bit(c, 0)
    BY <1>1, <2>1, LowBits
  <2>3. Word(c, 0) = 0 /\ Word(c, 1) = c
    BY <1>1, <2>1, WordEnds
  <2> QED
    BY <1>1, <2>2, <2>3
<1>3. ASSUME NEW o \in BitTable PROVE Bitwise(o, a, b, 1) = o[<<a, b>>]
  <2> DEFINE k == 1
  <2>1. k \in 0 .. Wide /\ 0 \in 0 .. k - 1
    BY <1>1
  <2> HIDE DEF k
  <2>2. PICK f \in [0 .. k -> Int] :
           /\ f[0] = 0
           /\ \A i \in 0 .. k - 1 : f[i + 1] = f[i] + Pow[i] * o[<<Bit(a, i), Bit(b, i)>>]
           /\ Bitwise(o, a, b, k) = f[k]
    BY <1>1, <2>1, BitwiseIs
  <2>3. f[0 + 1] = f[0] + Pow[0] * o[<<Bit(a, 0), Bit(b, 0)>>]
    BY <2>1, <2>2
  <2>4. <<a, b>> \in Bits2
    BY <1>1 DEF Bits2
  <2>5. o[<<a, b>>] \in Int
    BY <2>4 DEF BitTable
  <2>6. f[1] = o[<<a, b>>]
    BY <1>1, <1>2, <2>2, <2>3, <2>5
  <2> QED
    BY <2>2, <2>6 DEF k
<1>4. And(a, b, 1) = AndOp[<<a, b>>] /\ Or(a, b, 1) = OrOp[<<a, b>>]
  BY <1>3, Tables
<1>5. InstructionWord(op, a, b, 1) = IF op = "AND" THEN And(a, b, 1) ELSE Or(a, b, 1)
  BY DEF InstructionWord, BitWord, Arith, Compare, Logic, BitOper
<1>6. CASE op = "AND"
  BY <1>1, <1>4, <1>5, <1>6, Tables DEF Decides
<1>7. CASE op = "OR"
  BY <1>1, <1>4, <1>5, <1>7, Tables DEF Decides
<1> QED
  BY <1>6, <1>7 DEF Logic

-------------------------------------------------------------------------------
(* Values. *)

NoWord == {Undef, Trap, Real}

LEMMA Outside ==
    /\ Undef \notin Int /\ Trap \notin Int /\ Real \notin Int /\ NoMeaning \notin Int
    /\ Undef # Trap /\ Real # Undef /\ Real # Trap /\ Real # NoMeaning
BY OutOfWords

\* The word of v is what v means, unless something is said against it.
Kept(v) ==
    v.type # "null" /\ v.doubts = {} =>
        \/ v.word = Real /\ v.exact = Real
        \/ v.word \notin NoWord /\ v.exact = Value(v)

\* v has a word of its type, doubts of the kinds there are, and keeps its meaning.
Stands(v) ==
    /\ v.const \in BOOLEAN
    /\ IsWord(v.word, v.type)
    /\ v.doubts \subseteq Doubt
    /\ Kept(v)

\* The words of a value.
LEMMA Words ==
    ASSUME NEW v, IsWord(v.word, v.type), v.word \notin NoWord
    PROVE  /\ v.type \in Integer /\ Bits(v.type) \in 1 .. Wide /\ Bits(v.type) \in 0 .. Wide
           /\ v.word \in 0 .. Pow[Bits(v.type)] - 1
           /\ Signed(v.word, Bits(v.type)) \in Int /\ v.word \in Int /\ Value(v) \in Int
<1>1. v.type \in Integer /\ v.word \in 0 .. Pow[Bits(v.type)] - 1
  BY DEF IsWord, NoWord
<1> DEFINE n == Bits(v.type)
           a == v.word
<1>2. n \in 1 .. Wide /\ n \in 0 .. Wide
  BY <1>1, BitsOf
<1>3. Pow[n] \in Nat \ {0} /\ a \in 0 .. Pow[n] - 1
  BY <1>1, <1>2, PowPositive
<1> HIDE DEF n, a
<1>4. Signed(a, n) \in Int /\ a \in Int
  BY <1>2, <1>3, SignedType
<1>5. Value(v) = IF v.type = "i1" THEN a ELSE Signed(a, n)
  BY DEF Value, a, n
<1> QED
  BY <1>1, <1>2, <1>4, <1>5 DEF n, a

\* What a kept value means.
LEMMA KeptMeans ==
    ASSUME NEW v, Stands(v), v.type # "null", v.doubts = {}
    PROVE  \/ v.word = Real /\ v.exact = Real
           \/ v.word \notin NoWord /\ v.exact = Value(v) /\ v.exact \in Int
<1>1. IsWord(v.word, v.type) /\ Kept(v)
  BY DEF Stands
<1>2. v.word \notin NoWord => Value(v) \in Int
  BY <1>1, Words
<1> QED
  BY <1>1, <1>2 DEF Kept

\* The cases of Computed.
LEMMA ComputedIs ==
    ASSUME NEW op, NEW l, NEW r
    PROVE  /\ {l.word, r.word} \intersect NoWord # {} => Computed(op, l, r) \in NoWord
           /\ Real \in {l.word, r.word} /\ {l.word, r.word} \intersect {Undef, Trap} = {} => Computed(op, l, r) = Real
           /\ {l.word, r.word} \intersect NoWord = {} =>
                 LET w == InstructionWord(op, l.word, r.word, Bits(l.type))
                 IN  /\ w # Undef => Computed(op, l, r) = w
                     /\ w = Undef => Computed(op, l, r) \in NoWord
<1> DEFINE words == {l.word, r.word}
           w == InstructionWord(op, l.word, r.word, Bits(l.type))
           c == Computed(op, l, r)
<1>1. Trap \in words => c = Trap
  BY Outside DEF Computed
<1>2. Undef \in words /\ Trap \notin words => c = Undef
  BY Outside DEF Computed
<1>3. Real \in words /\ words \intersect {Trap, Undef} = {} => c = Real
  BY Outside DEF Computed
<1>4. words \intersect {Trap, Undef, Real} = {} =>
         c = IF w = Undef /\ op \in {"DIV", "MOD"} /\ ~ (l.const /\ r.const) THEN Trap ELSE w
  BY Outside DEF Computed
<1> HIDE DEF c, w
<1>5. /\ words \intersect NoWord # {} => c \in NoWord
      /\ Real \in words /\ words \intersect {Undef, Trap} = {} => c = Real
  BY <1>1, <1>2, <1>3 DEF NoWord
<1>6. words \intersect NoWord = {} => (w # Undef => c = w) /\ (w = Undef => c \in NoWord)
  BY <1>4 DEF NoWord
<1> QED
  BY <1>5, <1>6 DEF c, w

\* Two operands that are words have one type, for the instruction chosen.
LEMMA OneType ==
    ASSUME NEW op \in Binary, NEW l, NEW r, IsWord(l.word, l.type), IsWord(r.word, r.type),
           l.word \notin NoWord, r.word \notin NoWord,
           ~ Mismatched(op, l.type, r.type), BinaryType(op, l.type, r.type) # "null"
    PROVE  /\ l.type \in Integer /\ r.type = l.type
           /\ BinaryType(op, l.type, r.type) = IF op \in Compare THEN "i1" ELSE l.type
           /\ op \in Logic => l.type = "i1"
<1>1. l.type \in Integer /\ r.type \in Integer
  BY DEF IsWord, NoWord
<1>2. "f64" \notin Integer
  BY DEF Integer
<1>3. CASE op \in Logic
  BY <1>1, <1>3 DEF BinaryType, Logic, Arith, Compare, BitOper
<1>4. CASE op \notin Logic
  BY <1>1, <1>2, <1>4 DEF BinaryType, Mismatched, Arith, Compare, Binary, BitOper, Logic
<1> QED
  BY <1>1, <1>3, <1>4

\* An operator on words makes a word.
LEMMA BinaryWord ==
    ASSUME NEW op \in Binary, NEW l, NEW r, IsWord(l.word, l.type), IsWord(r.word, r.type),
           ~ Mismatched(op, l.type, r.type), BinaryType(op, l.type, r.type) # "null"
    PROVE  IsWord(Computed(op, l, r), BinaryType(op, l.type, r.type))
<1>1. CASE {l.word, r.word} \intersect NoWord # {}
  BY <1>1, ComputedIs DEF IsWord, NoWord
<1>2. CASE {l.word, r.word} \intersect NoWord = {}
  <2> DEFINE n == Bits(l.type)
             w == InstructionWord(op, l.word, r.word, n)
             t == BinaryType(op, l.type, r.type)
             c == Computed(op, l, r)
  <2>1. l.word \notin NoWord /\ r.word \notin NoWord
    BY <1>2
  <2>2. l.type \in Integer /\ r.type = l.type /\ t = IF op \in Compare THEN "i1" ELSE l.type
    BY <2>1, OneType
  <2>3. n \in 1 .. Wide /\ l.word \in 0 .. Pow[n] - 1 /\ r.word \in 0 .. Pow[n] - 1
    BY <2>1, <2>2, Words
  <2>4. c = w \/ c \in NoWord
    BY <1>2, ComputedIs
  <2> HIDE DEF n
  <2>5. \/ w = Undef
        \/ op \in Compare /\ w \in {0, 1}
        \/ op \notin Compare /\ w \in 0 .. Pow[n] - 1
    BY <2>3, InstructionType
  <2> HIDE DEF w, t, c
  <2>6. CASE c \in NoWord \/ w = Undef
    BY <2>4, <2>6 DEF IsWord, NoWord, c, t
  <2>7. CASE c = w /\ op \in Compare /\ w \in {0, 1}
    <3>1. t = "i1" /\ t \in Integer /\ c \in 0 .. Pow[Bits(t)] - 1
      BY <2>2, <2>7, BitsOf DEF Integer
    <3> QED
      BY <3>1 DEF IsWord, c, t
  <2>8. CASE c = w /\ op \notin Compare /\ w \in 0 .. Pow[n] - 1
    <3>1. t = l.type /\ t \in Integer /\ c \in 0 .. Pow[Bits(t)] - 1
      BY <2>2, <2>8 DEF n
    <3> QED
      BY <3>1 DEF IsWord, c, t
  <2> QED
    BY <2>4, <2>5, <2>6, <2>7, <2>8
<1> QED
  BY <1>1, <1>2

\* The cases of Means, once the left operand does not decide.
LEMMA MeansIs ==
    ASSUME NEW op \in Binary, NEW l, NEW r, ~ Decides(op, l.exact)
    PROVE  /\ l.exact = Real /\ r.exact \in Int \union {Real} => Means(op, l, r) = Real
           /\ r.exact = Real /\ l.exact \in Int \union {Real} => Means(op, l, r) = Real
           /\ l.exact \in Int /\ r.exact \in Int =>
                 /\ op \in Logic => Means(op, l, r) = r.exact
                 /\ op \in Compare => Means(op, l, r) = Compared(op, l.exact, r.exact)
                 /\ op \in Arith =>
                       Means(op, l, r) = Fitting(MeantArith(op, l.exact, r.exact), Bits(l.type))
                 /\ op \in BitOper =>
                       Means(op, l, r) = Fitting(MeantBits(op, l.exact, r.exact, Bits(l.type)), Bits(l.type))
<1> DEFINE i == l.exact
           j == r.exact
           m == Means(op, l, r)
           n == Bits(l.type)
           ma == Fitting(MeantArith(op, i, j), n)
           mb == Fitting(MeantBits(op, i, j, n), n)
           mc == Compared(op, i, j)
           d == Decides(op, i)
<1>1. ~ d
  OBVIOUS
<1>2. m = CASE d -> i
            [] NoMeaning \in {i, j} /\ ~ d -> NoMeaning
            [] {i, j} \subseteq Int \union {Real} /\ Real \in {i, j} /\ ~ d -> Real
            [] {i, j} \subseteq Int /\ ~ d ->
                  IF op \in Logic THEN j ELSE IF op \in Compare THEN mc ELSE IF op \in Arith THEN ma ELSE mb
  BY DEF Means
<1> HIDE DEF i, j, m, n, ma, mb, mc, d
<1>3. i \in Int \union {Real} /\ j \in Int \union {Real} => NoMeaning \notin {i, j}
  BY Outside
<1>4. {i, j} \subseteq Int \union {Real} /\ Real \in {i, j} => m = Real
  <2>1. Real \in {i, j} => ~ ({i, j} \subseteq Int)
    BY Outside
  <2> QED
    BY <1>1, <1>2, <1>3, <2>1
<1>5. {i, j} \subseteq Int =>
        m = IF op \in Logic THEN j ELSE IF op \in Compare THEN mc ELSE IF op \in Arith THEN ma ELSE mb
  <2>1. {i, j} \subseteq Int => NoMeaning \notin {i, j} /\ Real \notin {i, j}
    BY Outside
  <2> QED
    BY <1>1, <1>2, <2>1
<1>6. /\ op \in Compare => op \notin Logic
      /\ op \in Arith => op \notin Logic \union Compare
      /\ op \in BitOper => op \notin Logic \union Compare \union Arith
  BY DEF Logic, Compare, Arith, BitOper
<1>7. i \in Int /\ j \in Int =>
         /\ op \in Logic => m = j
         /\ op \in Compare => m = mc
         /\ op \in Arith => m = ma
         /\ op \in BitOper => m = mb
  BY <1>5, <1>6
<1>8. /\ i = Real /\ j \in Int \union {Real} => m = Real
      /\ j = Real /\ i \in Int \union {Real} => m = Real
  BY <1>4
<1> QED
  BY <1>7, <1>8 DEF i, j, m, n, ma, mb, mc

\* If nothing is said against the value of an operator, nothing is against its
\* operands, but for the right one of a left one that decides.
LEMMA NoDoubts ==
    ASSUME NEW op \in Binary, NEW l, NEW r, DoubtsOf(op, l, r) = {}
    PROVE  /\ l.doubts = {} /\ Means(op, l, r) # NoMeaning /\ ~ QuotientLost(op, l, r)
           /\ "i1" \in {l.type, r.type} => HasBinary(op, l.type, r.type)
           /\ Decides(op, l.exact) => r.word \notin NoWord
           /\ ~ Decides(op, l.exact) => r.doubts = {}
BY DEF DoubtsOf, NoWord

LEMMA DoubtsType ==
    ASSUME NEW op, NEW l, NEW r, l.doubts \subseteq Doubt, r.doubts \subseteq Doubt
    PROVE  DoubtsOf(op, l, r) \subseteq Doubt
BY DEF DoubtsOf, Doubt

\* An operator on words that keep their meaning keeps it.
LEMMA BinaryKept ==
    ASSUME NEW op \in Binary, NEW l, NEW r, Stands(l), Stands(r),
           l.type # "null", r.type # "null",
           ~ Mismatched(op, l.type, r.type), BinaryType(op, l.type, r.type) # "null",
           DoubtsOf(op, l, r) = {},
           NEW v, v.type = BinaryType(op, l.type, r.type), v.word = Computed(op, l, r),
           v.exact = Means(op, l, r)
    PROVE  \/ v.word = Real /\ v.exact = Real
           \/ v.word \notin NoWord /\ v.exact = Value(v)
<1> DEFINE n == Bits(l.type)
           a == l.word
           b == r.word
           w == InstructionWord(op, a, b, n)
<1>1. /\ l.doubts = {} /\ Means(op, l, r) # NoMeaning /\ ~ QuotientLost(op, l, r)
      /\ "i1" \in {l.type, r.type} => HasBinary(op, l.type, r.type)
      /\ Decides(op, l.exact) => r.word \notin NoWord
      /\ ~ Decides(op, l.exact) => r.doubts = {}
  BY NoDoubts
<1>2. \/ l.word = Real /\ l.exact = Real
      \/ l.word \notin NoWord /\ l.exact = Value(l) /\ l.exact \in Int
  BY <1>1, KeptMeans
<1>3. IsWord(l.word, l.type) /\ IsWord(r.word, r.type)
  BY DEF Stands
<1>4. ASSUME a \notin NoWord, b \notin NoWord
      PROVE  /\ l.type \in Integer /\ r.type = l.type
             /\ v.type = IF op \in Compare THEN "i1" ELSE l.type
             /\ op \in Logic => l.type = "i1"
             /\ n \in 1 .. Wide /\ a \in 0 .. Pow[n] - 1 /\ b \in 0 .. Pow[n] - 1
             /\ l.type = "i1" => n = 1 /\ a \in 0 .. 1 /\ b \in 0 .. 1
             /\ w \in Int => v.word = w /\ v.word \notin NoWord
  <2>1. /\ l.type \in Integer /\ r.type = l.type
        /\ v.type = IF op \in Compare THEN "i1" ELSE l.type
        /\ op \in Logic => l.type = "i1"
    BY <1>3, <1>4, OneType
  <2>2. n \in 1 .. Wide /\ a \in 0 .. Pow[n] - 1 /\ b \in 0 .. Pow[n] - 1
    BY <1>3, <1>4, <2>1, Words
  <2>3. l.type = "i1" => n = 1 /\ Pow[n] - 1 = 1
    BY BitsOf
  <2>4. w # Undef => v.word = w
    BY <1>4, ComputedIs
  <2> HIDE DEF w, a, b, n
  <2>5. w \in Int => w \notin NoWord
    BY Outside DEF NoWord
  <2>6. w \in Int => v.word = w /\ v.word \notin NoWord
    BY <2>4, <2>5, Outside
  <2> QED
    BY <2>1, <2>2, <2>3, <2>6
<1>5. CASE Decides(op, l.exact)
  <2>1. op \in Logic /\ l.exact \in {0, 1} /\ b \notin NoWord
    BY <1>1, <1>5 DEF Decides, Logic
  <2>2. l.exact # Real
    BY <2>1, Outside
  <2>3. a \notin NoWord /\ l.exact = Value(l)
    BY <1>2, <2>2
  <2>4. l.type = "i1" /\ n = 1 /\ a \in 0 .. 1 /\ b \in 0 .. 1 /\ op \notin Compare /\ v.type = "i1"
    BY <1>4, <2>1, <2>3 DEF Logic, Compare
  <2>5. l.exact = a
    BY <2>3, <2>4 DEF Value
  <2>6. w = a
    <3>1. InstructionWord(op, a, b, 1) = IF Decides(op, a) THEN a ELSE b
      BY <2>1, <2>4, LogicMeans
    <3> QED
      BY <1>5, <2>4, <2>5, <3>1
  <2>7. w \in Int
    BY <2>4, <2>6
  <2>8. v.word = a /\ v.word \notin NoWord
    BY <1>4, <2>1, <2>3, <2>6, <2>7
  <2>9. v.exact = l.exact
    BY <1>5 DEF Means
  <2> QED
    BY <2>4, <2>5, <2>8, <2>9 DEF Value
<1>6. CASE ~ Decides(op, l.exact)
  <2>1. \/ r.word = Real /\ r.exact = Real
        \/ r.word \notin NoWord /\ r.exact = Value(r) /\ r.exact \in Int
    BY <1>1, <1>6, KeptMeans
  <2>2. CASE l.word = Real \/ r.word = Real
    <3>1. \/ l.exact = Real /\ r.exact \in Int \union {Real}
          \/ r.exact = Real /\ l.exact \in Int \union {Real}
      BY <1>2, <2>1, <2>2 DEF NoWord
    <3>2. v.exact = Real
      BY <1>6, <3>1, MeansIs
    <3>3. Real \in {l.word, r.word} /\ {l.word, r.word} \intersect {Undef, Trap} = {}
      BY <1>2, <2>1, <2>2, Outside DEF NoWord
    <3>4. v.word = Real
      BY <3>3, ComputedIs
    <3> QED
      BY <3>2, <3>4
  <2>3. CASE l.word # Real /\ r.word # Real
    <3>1. /\ a \notin NoWord /\ l.exact = Value(l) /\ l.exact \in Int
          /\ b \notin NoWord /\ r.exact = Value(r) /\ r.exact \in Int
      BY <1>2, <2>1, <2>3
    <3>2. /\ l.type \in Integer /\ r.type = l.type
          /\ v.type = IF op \in Compare THEN "i1" ELSE l.type
          /\ op \in Logic => l.type = "i1"
          /\ n \in 1 .. Wide /\ a \in 0 .. Pow[n] - 1 /\ b \in 0 .. Pow[n] - 1
          /\ l.type = "i1" => n = 1 /\ a \in 0 .. 1 /\ b \in 0 .. 1
          /\ w \in Int => v.word = w /\ v.word \notin NoWord
      BY <1>4, <3>1
    <3>3. /\ l.type = "i1" => l.exact = a /\ r.exact = b
          /\ l.type # "i1" => l.exact = Signed(a, n) /\ r.exact = Signed(b, n)
      BY <3>1, <3>2 DEF Value
    <3>4. l.type = "i1" => op \in Logic \union {"EQ", "NE"}
      <4>1. l.type = "i1" => HasBinary(op, "i1", "i1")
        BY <1>1, <3>2
      <4> QED
        BY <4>1 DEF HasBinary, Arith, Compare, BitOper, Logic
    <3>5. /\ op \in Logic => v.exact = r.exact
          /\ op \in Compare => v.exact = Compared(op, l.exact, r.exact)
          /\ op \in Arith => v.exact = Fitting(MeantArith(op, l.exact, r.exact), n)
          /\ op \in BitOper => v.exact = Fitting(MeantBits(op, l.exact, r.exact, n), n)
      BY <1>6, <3>1, MeansIs
    <3>6. v.exact # NoMeaning
      BY <1>1
    <3>7. /\ op \in Logic => w = InstructionWord(op, a, b, n)
          /\ op \in Compare => w = CompareWord(op, a, b, n)
          /\ op \in Arith => w = ArithWord(op, a, b, n)
          /\ op \in BitOper => w = BitWord(op, a, b, n)
      BY DEF InstructionWord, Arith, Compare, Logic, BitOper
    <3>8. Arith \intersect Compare = {} /\ Logic \intersect Compare = {} /\ BitOper \intersect Compare = {}
          /\ Arith \intersect (Logic \union {"EQ", "NE"}) = {} /\ BitOper \intersect (Logic \union {"EQ", "NE"}) = {}
      BY DEF Arith, Compare, Logic, BitOper
    <3>9. CASE op \in Logic
      <4>1. InstructionWord(op, a, b, 1) = IF Decides(op, a) THEN a ELSE b
        BY <3>2, <3>9, LogicMeans
      <4>2. w = b /\ w \in Int
        BY <1>6, <3>2, <3>3, <3>9, <4>1
      <4> QED
        BY <3>2, <3>3, <3>5, <3>8, <3>9, <4>2 DEF Value
    <3>10. CASE op \in Compare
      <4>1. w = Compared(op, l.exact, r.exact)
        <5>1. CASE l.type = "i1"
          <6>1. op \in {"EQ", "NE"}
            BY <3>4, <3>8, <3>10, <5>1
          <6>2. CompareWord(op, a, b, 1) = Compared(op, a, b)
            BY <3>2, <3>10, <5>1, <6>1, CompareMeans
          <6> QED
            BY <3>2, <3>3, <3>7, <3>10, <5>1, <6>2
        <5>2. CASE l.type # "i1"
          BY <3>3, <3>7, <3>10, <5>2 DEF CompareWord
        <5> QED
          BY <5>1, <5>2
      <4>2. Compared(op, l.exact, r.exact) \in Int
        BY DEF Compared, Truth
      <4> QED
        BY <3>2, <3>5, <3>10, <4>1, <4>2 DEF Value
    <3>11. CASE op \in Arith
      <4>1. l.type # "i1" /\ v.type = l.type
        BY <3>2, <3>4, <3>8, <3>11
      <4>2. /\ l.exact = Signed(a, n) /\ r.exact = Signed(b, n)
            /\ Fitting(MeantArith(op, Signed(a, n), Signed(b, n)), n) # NoMeaning
        BY <3>3, <3>5, <3>6, <3>11, <4>1
      <4>3. ~ (op = "MOD" /\ Signed(b, n) = -1 /\ ~ Fits(-Signed(a, n), n))
        BY <1>1, <3>1, <4>2 DEF QuotientLost
      <4>4. /\ ArithWord(op, a, b, n) \in 0 .. Pow[n] - 1
            /\ Signed(ArithWord(op, a, b, n), n) = Fitting(MeantArith(op, Signed(a, n), Signed(b, n)), n)
        <5> HIDE DEF a, b, n
        <5> QED
          BY <3>2, <3>11, <4>2, <4>3, ArithMeans
      <4>5. v.word = ArithWord(op, a, b, n) /\ v.word \notin NoWord
        BY <3>2, <3>7, <3>11, <4>4
      <4> QED
        BY <3>5, <3>11, <4>1, <4>2, <4>4, <4>5 DEF Value
    <3>12. CASE op \in BitOper
      <4>1. l.type # "i1" /\ v.type = l.type
        BY <3>2, <3>4, <3>8, <3>12
      <4>2. /\ l.exact = Signed(a, n) /\ r.exact = Signed(b, n)
            /\ Fitting(MeantBits(op, Signed(a, n), Signed(b, n), n), n) # NoMeaning
        BY <3>3, <3>5, <3>6, <3>12, <4>1
      <4>3. /\ BitWord(op, a, b, n) \in 0 .. Pow[n] - 1
            /\ Signed(BitWord(op, a, b, n), n) = Fitting(MeantBits(op, Signed(a, n), Signed(b, n), n), n)
        <5> HIDE DEF a, b, n
        <5> QED
          BY <3>2, <3>12, <4>2, BitsMeans
      <4>4. v.word = BitWord(op, a, b, n) /\ v.word \notin NoWord
        BY <3>2, <3>7, <3>12, <4>3
      <4> QED
        BY <3>5, <3>12, <4>1, <4>2, <4>3, <4>4 DEF Value
    <3> QED
      BY <3>9, <3>10, <3>11, <3>12 DEF Binary
  <2> QED
    BY <2>2, <2>3
<1> QED
  BY <1>5, <1>6

LEMMA BinaryStands ==
    ASSUME NEW op \in Binary, NEW l, NEW r, Stands(l), Stands(r),
           l.type # "null", r.type # "null", ~ Mismatched(op, l.type, r.type)
    PROVE  Stands(BinaryValue(op, l, r)) /\ (BinaryValue(op, l, r).type = "null" => BinaryValue(op, l, r) = Null)
<1> DEFINE v == BinaryValue(op, l, r)
           t == BinaryType(op, l.type, r.type)
<1>1. CASE t = "null"
  <2>1. v = Null
    BY <1>1 DEF BinaryValue
  <2> QED
    BY <2>1 DEF Null, Stands, Kept, IsWord
<1>2. CASE t # "null"
  <2>1. /\ v.type = t /\ v.word = Computed(op, l, r) /\ v.exact = Means(op, l, r)
        /\ v.doubts = DoubtsOf(op, l, r) /\ v.const = (l.const /\ r.const)
    BY <1>2 DEF BinaryValue
  <2> HIDE DEF v
  <2>2. v.const \in BOOLEAN
    BY <2>1 DEF Stands
  <2>3. IsWord(v.word, v.type)
    BY <1>2, <2>1, BinaryWord DEF Stands
  <2>4. v.doubts \subseteq Doubt
    BY <2>1, DoubtsType DEF Stands
  <2>5. Kept(v)
    <3>1. SUFFICES ASSUME v.doubts = {}
                   PROVE  \/ v.word = Real /\ v.exact = Real
                          \/ v.word \notin NoWord /\ v.exact = Value(v)
      BY DEF Kept
    <3> QED
      BY <1>2, <2>1, <3>1, BinaryKept
  <2> QED
    BY <1>2, <2>1, <2>2, <2>3, <2>4, <2>5 DEF Stands, v
<1> QED
  BY <1>1, <1>2

-------------------------------------------------------------------------------
(* The operators of one operand. *)

\* The mask of b_flip, at each width of an operand, is a word of that width.
LEMMA UnaryWordType ==
    ASSUME NEW op \in Unary, NEW t \in Integer, NEW w \in 0 .. Pow[Bits(t)] - 1, UnaryType(op, t) # "null"
    PROVE  UnaryWord(op, w, Bits(t)) \in 0 .. Pow[Bits(t)] - 1
<1> DEFINE n == Bits(t)
<1>1. n \in 1 .. Wide /\ n \in 0 .. Wide /\ WordBits \in 0 .. Wide
  BY BitsOf, PowDigits
<1>2. Pow[n] \in Nat \ {0} /\ Pow[WordBits] \in Nat \ {0} /\ w \in Nat /\ w \in 0 .. Pow[n] - 1
  BY <1>1, PowPositive
<1>3. CASE op = "POS"
  BY <1>3 DEF UnaryWord
<1>4. CASE op = "NEG"
  <2>1. -w \in Int
    BY <1>2
  <2> HIDE DEF n
  <2>2. Word(-w, n) \in 0 .. Pow[n] - 1
    BY <1>1, <2>1, WordType
  <2> QED
    BY <1>4, <2>2 DEF UnaryWord, n
<1>5. CASE op = "NOT"
  <2>1. t = "i1"
    BY <1>5 DEF UnaryType
  <2>2. n = 1 /\ Pow[n] - 1 = 1
    BY <2>1, BitsOf
  <2>3. 1 - w \in 0 .. 1
    BY <1>2, <2>2
  <2> QED
    BY <1>5, <2>2, <2>3 DEF UnaryWord
<1>6. CASE op = "FLIP"
  <2> DEFINE m == Word(Pow[WordBits] - 1, n)
  <2>1. Pow[WordBits] - 1 \in Int
    BY <1>2
  <2>2. m \in 0 .. Pow[n] - 1
    BY <1>1, <2>1, WordType
  <2>3. m \in Nat
    BY <1>2, <2>2
  <2> HIDE DEF m, n
  <2>4. Bitwise(XorOp, w, m, n) \in 0 .. Pow[n] - 1
    BY <1>1, <1>2, <2>3, BitwiseType, Tables
  <2>5. Xor(w, m, n) \in 0 .. Pow[n] - 1
    BY <2>4, Tables
  <2> QED
    BY <1>6, <2>5 DEF UnaryWord, m, n
<1> QED
  BY <1>3, <1>4, <1>5, <1>6 DEF Unary

\* The negative of a word and its complement, as signed numbers.
LEMMA UnaryMeans ==
    ASSUME NEW n \in 1 .. Wide, NEW a \in 0 .. Pow[n] - 1
    PROVE  /\ Fits(-Signed(a, n), n) => Signed(Word(-a, n), n) = -Signed(a, n)
           /\ Signed(Xor(a, Pow[n] - 1, n), n) = -Signed(a, n) - 1
<1> DEFINE i == Signed(a, n)
           p == Pow[n]
           h == Pow[n - 1]
<1>1. /\ i \in Int /\ Fits(i, n) /\ n \in 0 .. Wide /\ p \in Nat \ {0} /\ h \in Nat \ {0} /\ p = 2 * h
      /\ a \in Int /\ a \in 0 .. p - 1
  BY SignedType, Halves
<1>2. PICK e \in {0, 1} : i = a - e * p
  BY SignedType
<1> HIDE DEF i, p, h
<1>3. -a = -i + (-e) * p /\ -e \in Int /\ -a \in Int /\ -i \in Int
  <2>1. CASE e = 0
    BY <1>1, <1>2, <2>1
  <2>2. CASE e = 1
    BY <1>1, <1>2, <2>2
  <2> QED
    BY <2>1, <2>2
<1>4. Fits(-i, n) => Signed(Word(-a, n), n) = -i
  <2> DEFINE u == -a
             v == -i
             d == -e
  <2>1. u \in Int /\ v \in Int /\ d \in Int /\ u = v + d * Pow[n]
    BY <1>3 DEF p
  <2> HIDE DEF u, v, d
  <2>2. Word(u, n) = Word(v, n)
    BY <1>1, <2>1, WordSame
  <2>3. Fits(v, n) => Signed(Word(v, n), n) = v
    BY <2>1, SignedWord
  <2> QED
    BY <2>2, <2>3 DEF u, v
<1>5. Signed(Xor(a, p - 1, n), n) = -i - 1
  <2> DEFINE u == p - 1 - a
             v == -i - 1
             d == 1 - e
  <2>1. u \in Int /\ v \in Int /\ d \in Int /\ u = v + d * Pow[n]
    <3>1. CASE e = 0
      BY <1>1, <1>2, <3>1 DEF p
    <3>2. CASE e = 1
      BY <1>1, <1>2, <3>2 DEF p
    <3> QED
      BY <3>1, <3>2
  <2>2. Fits(v, n)
    <3>1. -h <= i /\ i < h
      BY <1>1 DEF Fits, h
    <3>2. -h <= v /\ v < h
      BY <1>1, <3>1
    <3> QED
      BY <3>2 DEF Fits, h
  <2>3. Xor(a, p - 1, n) = u
    BY <1>1, FlipIs DEF p
  <2>4. u \in 0 .. Pow[n] - 1
    BY <1>1 DEF p
  <2> HIDE DEF u, v, d
  <2>5. Word(u, n) = u
    BY <1>1, <2>4, WordEnds
  <2>6. Word(u, n) = Word(v, n)
    BY <1>1, <2>1, WordSame
  <2>7. Signed(Word(v, n), n) = v
    BY <2>1, <2>2, SignedWord
  <2> QED
    BY <2>3, <2>5, <2>6, <2>7 DEF v
<1> QED
  BY <1>4, <1>5 DEF i, p

LEMMA UnaryKept ==
    ASSUME NEW op \in Unary, NEW u, Stands(u), u.type # "null",
           UnaryType(op, u.type) # "null", UnaryDoubts(op, u) = {},
           NEW v, v.type = UnaryType(op, u.type),
           v.word = IF u.word \in {Undef, Trap, Real} THEN u.word ELSE UnaryWord(op, u.word, Bits(u.type)),
           v.exact = IF u.exact \in {NoMeaning, Real} THEN u.exact ELSE MeantUnary(op, u.exact, Bits(u.type))
    PROVE  \/ v.word = Real /\ v.exact = Real
           \/ v.word \notin NoWord /\ v.exact = Value(v)
<1> DEFINE n == Bits(u.type)
           a == u.word
           i == u.exact
<1>1. /\ u.doubts = {} /\ (u.type = "i1" => HasUnary(op, u.type))
      /\ ~ (op = "FLIP" /\ u.type = "i64")
      /\ op = "NEG" /\ i \in Int => Fits(-i, n)
  BY DEF UnaryDoubts
<1>2. v.type = u.type
  BY DEF UnaryType
<1>3. \/ u.word = Real /\ u.exact = Real
      \/ u.word \notin NoWord /\ u.exact = Value(u) /\ u.exact \in Int
  BY <1>1, KeptMeans
<1>4. CASE u.word = Real /\ u.exact = Real
  BY <1>4
<1>5. CASE u.word \notin NoWord /\ u.exact = Value(u) /\ u.exact \in Int
  <2>1. /\ u.type \in Integer /\ n \in 1 .. Wide /\ n \in 0 .. Wide /\ a \in 0 .. Pow[n] - 1 /\ a \in Int
    BY <1>5, Words DEF Stands
  <2>2. v.word = UnaryWord(op, a, n) /\ v.exact = MeantUnary(op, i, n)
    BY <1>5, Outside DEF NoWord
  <2>3. UnaryWord(op, a, n) \in 0 .. Pow[n] - 1
    BY <2>1, UnaryWordType
  <2>4. v.word \notin NoWord
    <3>1. v.word \in Int
      BY <2>1, <2>2, <2>3, PowPositive
    <3> QED
      BY <3>1, Outside DEF NoWord
  <2>5. v.exact = Value(v)
    <3>1. CASE u.type = "i1"
      <4>1. op = "NOT"
        BY <1>1, <3>1 DEF HasUnary
      <4>2. v.exact = 1 - i /\ v.word = 1 - a /\ i = a
        BY <1>5, <2>2, <3>1, <4>1 DEF MeantUnary, UnaryWord, Value
      <4> QED
        BY <1>2, <3>1, <4>2 DEF Value
    <3>2. CASE u.type # "i1"
      <4>1. i = Signed(a, n) /\ i \in Int /\ Value(v) = Signed(v.word, n)
        BY <1>2, <1>5, <3>2 DEF Value
      <4>2. op # "NOT"
        BY <3>2 DEF UnaryType
      <4> HIDE DEF n, a, i
      <4>3. /\ Fits(-i, n) => Signed(Word(-a, n), n) = -i
            /\ Signed(Xor(a, Pow[n] - 1, n), n) = -i - 1
        BY <2>1, <4>1, UnaryMeans
      <4>4. CASE op = "POS"
        BY <2>2, <4>1, <4>4 DEF MeantUnary, UnaryWord
      <4>5. CASE op = "NEG"
        <5>1. Fits(-i, n)
          BY <1>1, <4>1, <4>5
        <5>2. v.exact = -i /\ v.word = Word(-a, n)
          <6>1. -i \in Int
            BY <4>1
          <6>2. -i # NoMeaning
            BY <6>1, Outside
          <6> QED
            BY <2>2, <4>5, <5>1, <6>2 DEF MeantUnary, UnaryWord, Fitting
        <5> QED
          BY <4>1, <4>3, <5>1, <5>2
      <4>6. CASE op = "FLIP"
        <5>1. n = WordBits
          <6>1. u.type = "i32"
            BY <1>1, <2>1, <3>2, <4>6 DEF Integer
          <6> QED
            BY <6>1, BitsOf DEF n
        <5>2. Word(Pow[n] - 1, n) = Pow[n] - 1
          <6>1. Pow[n] - 1 \in 0 .. Pow[n] - 1
            BY <2>1, PowPositive
          <6> QED
            BY <2>1, <6>1, WordEnds
        <5>3. v.exact = -i - 1 /\ v.word = Xor(a, Word(Pow[WordBits] - 1, n), n)
          BY <2>2, <4>6 DEF MeantUnary, UnaryWord
        <5> QED
          BY <4>1, <4>3, <5>1, <5>2, <5>3
      <4> QED
        BY <4>2, <4>4, <4>5, <4>6 DEF Unary
    <3> QED
      BY <3>1, <3>2
  <2> QED
    BY <2>4, <2>5
<1> QED
  BY <1>3, <1>4, <1>5

LEMMA UnaryStands ==
    ASSUME NEW op \in Unary, NEW u, Stands(u), u.type # "null"
    PROVE  Stands(UnaryValue(op, u)) /\ (UnaryValue(op, u).type = "null" => UnaryValue(op, u) = Null)
<1> DEFINE v == UnaryValue(op, u)
           t == UnaryType(op, u.type)
<1>1. CASE t = "null"
  <2>1. v = Null
    BY <1>1 DEF UnaryValue
  <2> QED
    BY <2>1 DEF Null, Stands, Kept, IsWord
<1>2. CASE t # "null"
  <2>1. /\ v.type = t /\ v.doubts = UnaryDoubts(op, u) /\ v.const = u.const
        /\ v.word = IF u.word \in {Undef, Trap, Real} THEN u.word ELSE UnaryWord(op, u.word, Bits(u.type))
        /\ v.exact = IF u.exact \in {NoMeaning, Real} THEN u.exact ELSE MeantUnary(op, u.exact, Bits(u.type))
    BY <1>2 DEF UnaryValue
  <2> HIDE DEF v
  <2>2. v.const \in BOOLEAN
    BY <2>1 DEF Stands
  <2>3. IsWord(v.word, v.type)
    <3>1. v.type = u.type
      BY <1>2, <2>1 DEF UnaryType
    <3>2. CASE u.word \in NoWord
      BY <2>1, <3>2 DEF IsWord, NoWord
    <3>3. CASE u.word \notin NoWord
      <4>1. u.type \in Integer /\ u.word \in 0 .. Pow[Bits(u.type)] - 1
        BY <3>3, Words DEF Stands
      <4>2. UnaryWord(op, u.word, Bits(u.type)) \in 0 .. Pow[Bits(u.type)] - 1
        BY <1>2, <4>1, UnaryWordType
      <4> QED
        BY <2>1, <3>1, <3>3, <4>1, <4>2 DEF IsWord, NoWord
    <3> QED
      BY <3>2, <3>3
  <2>4. v.doubts \subseteq Doubt
    BY <2>1 DEF Stands, UnaryDoubts, Doubt
  <2>5. Kept(v)
    <3>1. SUFFICES ASSUME v.doubts = {}
                   PROVE  \/ v.word = Real /\ v.exact = Real
                          \/ v.word \notin NoWord /\ v.exact = Value(v)
      BY DEF Kept
    <3> QED
      BY <1>2, <2>1, <3>1, UnaryKept
  <2> QED
    BY <1>2, <2>1, <2>2, <2>3, <2>4, <2>5 DEF Stands, v
<1> QED
  BY <1>1, <1>2

-------------------------------------------------------------------------------
(* The invariant of the words, beside that of the types. *)

Held(v) == Stands(v) /\ (v.type = "null" => v = Null)

Counts ==
    /\ family \in DOMAIN Family
    /\ x \in Family[family].words
    /\ nodes \in 0 .. Family[family].nodes
    /\ status \in {"run", "failed", "crashed", "malformed"}

AllHeld == \A k \in DOMAIN stack : Held(stack[k])

WordInv == Counts /\ AllHeld

LEMMA InitWords == Init => WordInv
<1> SUFFICES ASSUME Init PROVE WordInv
  OBVIOUS
<1>1. stack = <<>> /\ nodes = 0 /\ status = "run" /\ family \in DOMAIN Family /\ x \in Family[family].words
  BY DEF Init
<1>2. DOMAIN stack = {}
  BY <1>1
<1>3. nodes \in 0 .. Family[family].nodes
  <2>1. Family[family].nodes \in Nat
    BY <1>1, FamilyAssumption
  <2> QED
    BY <1>1, <2>1
<1> QED
  BY <1>1, <1>2, <1>3 DEF WordInv, Counts, AllHeld

\* A node more, where there is room for it: a leaf, or an operator of k operands.
LEMMA OneMore ==
    ASSUME Inv, Counts, NEW k \in {-1, 0, 1}, Room(k), Len(stack) + k >= 1,
           nodes' = nodes + 1, UNCHANGED <<family, x>>,
           status' \in {"run", "failed", "crashed", "malformed"}
    PROVE  Counts'
<1>1. Len(stack) \in Nat
  BY StackFacts
<1> DEFINE n == Len(stack)
           m == Family[family].nodes
<1>2. nodes \in 0 .. m /\ m \in Nat /\ nodes + n + k <= m /\ n \in Nat /\ n + k >= 1
  BY <1>1, FamilyAssumption DEF Counts, Room
<1> HIDE DEF n, m
<1>3. nodes + 1 \in 0 .. m
  BY <1>2
<1> QED
  BY <1>3 DEF Counts, m

LEMMA StackGrows ==
    ASSUME Inv, AllHeld, NEW k \in 0 .. Len(stack), NEW v, stack' = Append(Below(k), v), Held(v)
    PROVE  AllHeld'
<1>1. PICK S : stack \in Seq(S)
  BY StackFacts
<1> DEFINE n == Len(stack) - k
<1>2. /\ DOMAIN stack' = 1 .. n + 1 /\ stack'[n + 1] = v /\ n \in 0 .. Len(stack)
      /\ \A i \in 1 .. n : i \in DOMAIN stack /\ stack'[i] = stack[i]
  BY <1>1, GrowStack DEF Below
<1>3. Len(stack) \in Nat
  BY StackFacts
<1> HIDE DEF n
<1>4. \A i \in DOMAIN stack' : i = n + 1 \/ i \in 1 .. n
  BY <1>2, <1>3
<1>5. \A i \in DOMAIN stack' : stack'[i] = v \/ \E j \in DOMAIN stack : stack'[i] = stack[j]
  BY <1>2, <1>4
<1>6. \A i \in DOMAIN stack' : Held(stack'[i])
  <2>1. \A j \in DOMAIN stack : Held(stack[j])
    BY DEF AllHeld
  <2> QED
    BY <1>5, <2>1, Zenon
<1> QED
  BY <1>6 DEF AllHeld, Held, Stands, Kept, IsWord, Value, Null

LEMMA StackShrinks ==
    ASSUME Inv, AllHeld, NEW k \in 0 .. Len(stack), stack' = Below(k)
    PROVE  AllHeld'
<1>1. PICK S : stack \in Seq(S)
  BY StackFacts
<1>2. \A i \in DOMAIN stack' : i \in DOMAIN stack /\ stack'[i] = stack[i]
  BY <1>1, CutStack DEF Below
<1> QED
  BY <1>2 DEF AllHeld, Held, Stands, Kept, IsWord, Value, Null

LEMMA LeafGrows ==
    ASSUME Inv, AllHeld, NEW v, stack' = Append(stack, v), Held(v)
    PROVE  AllHeld'
<1>1. PICK S : stack \in Seq(S)
  BY StackFacts
<1>2. SubSeq(stack, 1, Len(stack) - 0) = stack /\ 0 \in 0 .. Len(stack)
  BY <1>1, StackFacts, SubSeqFull
<1>3. stack' = Append(Below(0), v)
  BY <1>2 DEF Below
<1> QED
  BY <1>2, <1>3, StackGrows

\* What is loaded from a cell, or from a value, is what is there.
LEMMA TopHeld ==
    ASSUME Inv, AllHeld, NEW k \in 1 .. Len(stack)
    PROVE  LET v == Loaded(FromEnd(k))
           IN  Stands(v) /\ v.type \in Types
<1> DEFINE u == FromEnd(k)
           v == Loaded(u)
<1>1. PICK i \in DOMAIN stack : u = stack[i]
  BY StackFacts DEF FromEnd
<1>2. Stands(u) /\ u.type \in Types
  BY <1>1 DEF AllHeld, Held, Inv, Agrees
<1> HIDE DEF u
<1>3. /\ v.type = u.type /\ v.doubts = u.doubts /\ v.word = u.word /\ v.exact = u.exact
      /\ v.const \in {u.const, FALSE}
  BY DEF Loaded
<1> HIDE DEF v
<1>4. Value(v) = Value(u)
  BY <1>3 DEF Value
<1>5. Stands(v)
  BY <1>2, <1>3, <1>4 DEF Stands, Kept
<1> QED
  BY <1>2, <1>3, <1>5 DEF u, v

-------------------------------------------------------------------------------
(* The invariant is inductive. *)

LEMMA IntWords ==
    ASSUME Inv, WordInv, IntLiteral
    PROVE  WordInv'
<1>1. PICK l \in Family[family].literals :
        LET n == ConstantBits(l)
            type == IF n = WordBits THEN "i32" ELSE "i64"
        IN  stack' = Append(stack, Constant(type, Word(NodeValue(l), n), Meant(l),
                                            IF Sound(l) THEN {} ELSE {"literal"}))
  BY DEF IntLiteral, Encoded
<1> DEFINE n == ConstantBits(l)
           type == IF n = WordBits THEN "i32" ELSE "i64"
           w == Word(NodeValue(l), n)
           v == Constant(type, w, Meant(l), IF Sound(l) THEN {} ELSE {"literal"})
<1>2. IsLiteral(l)
  BY FamilyAssumption DEF WordInv, Counts
<1>3. n \in {WordBits, Wide} /\ w \in 0 .. Pow[n] - 1 /\ Signed(w, n) = NodeValue(l)
  BY <1>2, NodeType
<1>4. type \in {"i32", "i64"} /\ type \in Integer /\ Bits(type) = n
  BY <1>3, BitsOf DEF Integer
<1>5. v.type = type /\ v.word = w /\ v.exact = Meant(l) /\ v.const = TRUE
      /\ v.doubts = IF Sound(l) THEN {} ELSE {"literal"}
  BY DEF Constant
<1>6. stack' = Append(stack, v)
  BY <1>1
<1> HIDE DEF v, type, n
<1>7. IsWord(v.word, v.type)
  BY <1>3, <1>4, <1>5 DEF IsWord
<1>8. v.doubts \subseteq Doubt
  BY <1>5 DEF Doubt
<1>9. v.word \notin NoWord
  <2>1. Pow[n] \in Nat
    BY <1>4, BitsOf, PowPositive
  <2>2. w \in Int
    BY <1>3, <2>1
  <2> QED
    BY <1>5, <2>2, Outside DEF NoWord
<1>10. v.doubts = {} => v.exact = Value(v)
  <2>1. v.doubts = {} => Sound(l)
    BY <1>5
  <2>2. Sound(l) => NodeValue(l) = Meant(l)
    BY <1>2, SoundLiteral
  <2>3. Value(v) = Signed(w, n)
    BY <1>4, <1>5 DEF Value
  <2> QED
    BY <1>3, <1>5, <2>1, <2>2, <2>3
<1>11. Held(v)
  <2>1. v.type # "null"
    BY <1>4, <1>5
  <2> QED
    BY <1>5, <1>7, <1>8, <1>9, <1>10, <2>1 DEF Held, Stands, Kept
<1>12. AllHeld'
  BY <1>6, <1>11, LeafGrows DEF WordInv
<1>13. Counts'
  <2>1. Len(stack) + 1 >= 1 /\ 1 \in {-1, 0, 1}
    BY StackFacts
  <2> QED
    BY <2>1, OneMore DEF WordInv, IntLiteral, Encoded, Counts
<1> QED
  BY <1>12, <1>13 DEF WordInv

LEMMA LeafWords ==
    ASSUME Inv, WordInv, BoolLiteral \/ FloatLiteral \/ SymbolRef \/ NoLeaf
    PROVE  WordInv'
<1>1. Counts'
  <2>1. Len(stack) + 1 >= 1 /\ 1 \in {-1, 0, 1}
    BY StackFacts
  <2>2. Room(1) /\ nodes' = nodes + 1 /\ UNCHANGED <<family, x>> /\ status' \in {status, "failed"}
    BY DEF BoolLiteral, FloatLiteral, SymbolRef, NoLeaf, Encoded
  <2>3. status' \in {"run", "failed", "crashed", "malformed"}
    BY <2>2 DEF WordInv, Counts
  <2> QED
    BY <2>1, <2>2, <2>3, OneMore DEF WordInv
<1>2. CASE BoolLiteral
  <2>1. PICK b \in {0, 1} : stack' = Append(stack, Constant("i1", b, b, {}))
    BY <1>2 DEF BoolLiteral, Encoded
  <2> DEFINE v == Constant("i1", b, b, {})
  <2>2. v.type = "i1" /\ v.word = b /\ v.exact = b /\ v.const = TRUE /\ v.doubts = {}
    BY DEF Constant
  <2>3. stack' = Append(stack, v)
    BY <2>1
  <2> HIDE DEF v
  <2>4. IsWord(v.word, v.type)
    <3>1. Pow[Bits("i1")] = 2 /\ "i1" \in Integer
      BY BitsOf DEF Integer
    <3> QED
      BY <2>2, <3>1 DEF IsWord
  <2>5. v.word \notin NoWord /\ v.exact = Value(v)
    BY <2>2, Outside DEF NoWord, Value
  <2>6. Held(v)
    BY <2>2, <2>4, <2>5 DEF Held, Stands, Kept
  <2> QED
    BY <1>1, <2>3, <2>6, LeafGrows DEF WordInv
<1>3. CASE FloatLiteral
  <2> DEFINE v == Constant("f64", Real, Real, {})
  <2>1. v.type = "f64" /\ v.word = Real /\ v.exact = Real /\ v.const = TRUE /\ v.doubts = {}
    BY DEF Constant
  <2>2. stack' = Append(stack, v)
    BY <1>3 DEF FloatLiteral, Encoded
  <2> HIDE DEF v
  <2>3. Held(v)
    BY <2>1 DEF Held, Stands, Kept, IsWord
  <2> QED
    BY <1>1, <2>2, <2>3, LeafGrows DEF WordInv
<1>4. CASE SymbolRef
  <2> DEFINE v == [type |-> "i32", wrapper |-> "ptr", pointer |-> TRUE, const |-> FALSE,
                   word |-> x, exact |-> Signed(x, WordBits), doubts |-> {}]
  <2>1. v.type = "i32" /\ v.word = x /\ v.exact = Signed(x, WordBits) /\ v.const = FALSE /\ v.doubts = {}
    OBVIOUS
  <2>2. stack' = Append(stack, v)
    BY <1>4 DEF SymbolRef, Encoded
  <2> HIDE DEF v
  <2>3. x \in 0 .. Pow[WordBits] - 1 /\ "i32" \in Integer /\ Bits("i32") = WordBits
    BY FamilyAssumption, BitsOf DEF WordInv, Counts, Integer
  <2>4. v.word \notin NoWord
    <3>1. Pow[WordBits] \in Nat
      BY PowDigits, PowPositive
    <3>2. x \in Int
      BY <2>3, <3>1
    <3> QED
      BY <2>1, <3>2, Outside DEF NoWord
  <2>5. IsWord(v.word, v.type) /\ v.exact = Value(v)
    BY <2>1, <2>3 DEF IsWord, Value
  <2>6. Held(v)
    BY <2>1, <2>4, <2>5 DEF Held, Stands, Kept
  <2> QED
    BY <1>1, <2>2, <2>6, LeafGrows DEF WordInv
<1>5. CASE NoLeaf
  <2>1. stack' = stack
    BY <1>5 DEF NoLeaf, Encoded
  <2>2. AllHeld'
    BY <2>1 DEF WordInv, AllHeld, Held, Stands, Kept, IsWord, Value, Null
  <2> QED
    BY <1>1, <2>2 DEF WordInv
<1> QED
  BY <1>2, <1>3, <1>4, <1>5

LEMMA UnaryWords ==
    ASSUME Inv, WordInv, UnaryNode
    PROVE  WordInv'
<1>1. Len(stack) \in Nat /\ Len(stack) >= 1 /\ Room(0)
  BY StackFacts DEF UnaryNode
<1>2. 1 \in 1 .. Len(stack) /\ 1 \in 0 .. Len(stack)
  BY <1>1
<1> DEFINE u == Loaded(FromEnd(1))
<1>3. PICK op \in Unary :
         \/ stack' = Below(1) /\ status' = "crashed"
         \/ u.type # "null" /\ stack' = Append(Below(1), UnaryValue(op, u)) /\ status' = status
  BY DEF UnaryNode, Encoded
<1>4. Stands(u)
  BY <1>2, TopHeld DEF WordInv
<1> HIDE DEF u
<1>5. Counts'
  <2>1. Len(stack) + 0 >= 1 /\ 0 \in {-1, 0, 1}
    BY <1>1
  <2>2. nodes' = nodes + 1 /\ UNCHANGED <<family, x>>
    BY DEF UnaryNode, Encoded
  <2>3. status' \in {"run", "failed", "crashed", "malformed"}
    BY <1>3 DEF WordInv, Counts
  <2> QED
    BY <1>1, <2>1, <2>2, <2>3, OneMore DEF WordInv
<1>6. CASE stack' = Below(1)
  BY <1>2, <1>5, <1>6, StackShrinks DEF WordInv
<1>7. CASE u.type # "null" /\ stack' = Append(Below(1), UnaryValue(op, u))
  <2> DEFINE v == UnaryValue(op, u)
  <2>1. Held(v)
    BY <1>4, <1>7, UnaryStands DEF Held
  <2>2. stack' = Append(Below(1), v)
    BY <1>7
  <2> HIDE DEF v
  <2> QED
    BY <1>2, <1>5, <2>1, <2>2, StackGrows DEF WordInv
<1> QED
  BY <1>3, <1>6, <1>7

LEMMA BinaryWords ==
    ASSUME Inv, WordInv, BinaryNode
    PROVE  WordInv'
<1>1. Len(stack) \in Nat /\ Len(stack) >= 2 /\ Room(-1)
  BY StackFacts DEF BinaryNode
<1>2. 1 \in 1 .. Len(stack) /\ 2 \in 1 .. Len(stack) /\ 2 \in 0 .. Len(stack)
  BY <1>1
<1> DEFINE l == Loaded(FromEnd(2))
           r == Loaded(FromEnd(1))
<1>3. PICK op \in Binary :
         \/ stack' = Below(2) /\ status' \in {"crashed", "malformed"}
         \/ /\ "null" \notin {l.type, r.type} /\ ~ Mismatched(op, l.type, r.type)
            /\ stack' = Append(Below(2), BinaryValue(op, l, r)) /\ status' = status
  BY DEF BinaryNode, Encoded
<1>4. Stands(l) /\ Stands(r)
  BY <1>2, TopHeld DEF WordInv
<1> HIDE DEF l, r
<1>5. Counts'
  <2> DEFINE k == -1
  <2>1. Len(stack) + k >= 1 /\ k \in {-1, 0, 1} /\ Room(k)
    BY <1>1
  <2>2. nodes' = nodes + 1 /\ UNCHANGED <<family, x>>
    BY DEF BinaryNode, Encoded
  <2>3. status' \in {"run", "failed", "crashed", "malformed"}
    BY <1>3 DEF WordInv, Counts
  <2> HIDE DEF k
  <2> QED
    BY <2>1, <2>2, <2>3, OneMore DEF WordInv
<1>6. CASE stack' = Below(2)
  BY <1>2, <1>5, <1>6, StackShrinks DEF WordInv
<1>7. CASE /\ "null" \notin {l.type, r.type} /\ ~ Mismatched(op, l.type, r.type)
           /\ stack' = Append(Below(2), BinaryValue(op, l, r))
  <2> DEFINE v == BinaryValue(op, l, r)
  <2>1. Held(v)
    BY <1>4, <1>7, BinaryStands DEF Held
  <2>2. stack' = Append(Below(2), v)
    BY <1>7
  <2> HIDE DEF v
  <2> QED
    BY <1>2, <1>5, <2>1, <2>2, StackGrows DEF WordInv
<1> QED
  BY <1>3, <1>6, <1>7

LEMMA NextWords == Inv /\ WordInv /\ [Next]_vars => WordInv'
<1> SUFFICES ASSUME Inv, WordInv, [Next]_vars PROVE WordInv'
  OBVIOUS
<1>1. CASE IntLiteral
  BY <1>1, IntWords
<1>2. CASE BoolLiteral \/ FloatLiteral \/ SymbolRef \/ NoLeaf
  BY <1>2, LeafWords
<1>3. CASE UnaryNode
  BY <1>3, UnaryWords
<1>4. CASE BinaryNode
  BY <1>4, BinaryWords
<1>5. CASE UNCHANGED vars
  <2>1. AllHeld'
    BY <1>5 DEF vars, WordInv, AllHeld, Held, Stands, Kept, IsWord, Value, Null
  <2>2. Counts'
    BY <1>5 DEF vars, WordInv, Counts
  <2> QED
    BY <2>1, <2>2 DEF WordInv
<1> QED
  BY <1>1, <1>2, <1>3, <1>4, <1>5 DEF Next

LEMMA WordInvHolds == Spec => []WordInv
<1>1. Init => WordInv
  BY InitWords
<1>2. Inv /\ WordInv /\ [Next]_vars => WordInv'
  BY NextWords
<1> QED
  BY <1>1, <1>2, InvHolds, PTL DEF Spec

-------------------------------------------------------------------------------
(* The properties. *)

\* Every expression, whatever the width of a word, has on its stack only words
\* of their types (the values of encode_expr_*), and its variables range over
\* what TypeOK says.
THEOREM WordsAreTyped == Spec => []TypeOK
<1>1. Inv /\ WordInv => TypeOK
  <2> SUFFICES ASSUME Inv, WordInv PROVE TypeOK
    OBVIOUS
  <2>1. ASSUME NEW k \in DOMAIN stack
        PROVE  /\ stack[k].type \in Integer \union {"f64", "null"}
               /\ stack[k].wrapper \in Integer \union {"f64", "ptr", "none"}
               /\ stack[k].pointer \in BOOLEAN /\ stack[k].const \in BOOLEAN
               /\ IsWord(stack[k].word, stack[k].type)
               /\ stack[k].doubts \subseteq Doubt
    <3> DEFINE v == stack[k]
    <3>1. Agrees(v) /\ Held(v)
      BY DEF Inv, WordInv, AllHeld
    <3> HIDE DEF v
    <3>2. Types = Integer \union {"f64", "null"}
      BY DEF Types, Integer
    <3>3. v.type = "null" => v.wrapper = "none"
      BY <3>1 DEF Held, Null
    <3>4. v.type # "null" => v.wrapper \in Integer \union {"f64", "ptr"}
      BY <3>1, <3>2 DEF Agrees
    <3> QED
      BY <3>1, <3>2, <3>3, <3>4 DEF Agrees, Held, Stands, v
  <2> QED
    BY <2>1 DEF Inv, WordInv, Counts, TypeOK
<1> QED
  BY <1>1, InvHolds, WordInvHolds, PTL

\* The instructions arith, cmp and the bit operations choose, the widths of
\* encode_expr_int and the conversions of the parser compute what the
\* expression means, for every width, every text of a number and every
\* expression, but for the doubts that MeaningKept names.
THEOREM MeaningIsKept == Spec => []MeaningKept
<1>1. WordInv => MeaningKept
  BY DEF WordInv, AllHeld, Held, Stands, Kept, NoWord, MeaningKept
<1> QED
  BY <1>1, WordInvHolds, PTL

===============================================================================
