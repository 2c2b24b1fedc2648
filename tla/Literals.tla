------------------------------- MODULE Literals -------------------------------
(***************************************************************************)
(* How the text of a number becomes the word of a constant                 *)
(* (parser_t::parse_literal_int, String::stringToValue, binstrToValue and  *)
(* hexstrToValue of the base library, encode_expr_int), with WordBits      *)
(* standing for the 32 bits of an i32, and twice that for an i64.           *)
(*                                                                         *)
(* A literal is its first digit, its base, and the digits the value is     *)
(* meant to have.  For the bases 2 and 16 the first digit and a letter     *)
(* stand before the others; the scanner takes any digit for a 0.            *)
(***************************************************************************)
EXTENDS Integers, Sequences

CONSTANT WordBits

ASSUME WordBitsAssumption == WordBits \in Nat \ {0} /\ WordBits % 4 = 0

\* The texts the scanner makes integers of: the digits are those of the base.
IsLiteral(l) ==
    /\ l.base \in {2, 10, 16}
    /\ l.first \in 0 .. 9
    /\ l.digits \in Seq(0 .. l.base - 1)

(* The powers of two, up to the wide words. *)
Pow[i \in 0 .. 2 * WordBits] == IF i = 0 THEN 1 ELSE 2 * Pow[i - 1]

(* Words: the natural numbers below Pow[n], and what they mean as signed ones. *)
Word(i, n) == i % Pow[n]

Signed(w, n) == IF w >= Pow[n - 1] THEN w - Pow[n] ELSE w

Fits(i, n) == -Pow[n - 1] <= i /\ i < Pow[n - 1]

Bit(w, i) == (w \div Pow[i]) % 2

\* The word whose bits the table op gives for those of a and b.
Bitwise(op, a, b, n) ==
    LET low[i \in 0 .. n] ==
          IF i = 0 THEN 0 ELSE low[i - 1] + Pow[i - 1] * op[<<Bit(a, i - 1), Bit(b, i - 1)>>]
    IN  low[n]

Bits2 == {0, 1} \X {0, 1}
And(a, b, n) == Bitwise([p \in Bits2 |-> p[1] * p[2]], a, b, n)
Or(a, b, n) == Bitwise([p \in Bits2 |-> p[1] + p[2] - p[1] * p[2]], a, b, n)
Xor(a, b, n) == Bitwise([p \in Bits2 |-> (p[1] + p[2]) % 2], a, b, n)

-------------------------------------------------------------------------------
(* What the code does. *)

\* The number that the digits ds denote in base b.
Number(ds, b) ==
    LET upto[i \in 0 .. Len(ds)] == IF i = 0 THEN 0 ELSE upto[i - 1] * b + ds[i]
    IN  upto[Len(ds)]

\* result |= bit << ..., over the values of the characters cs, k bits apiece.
Gathered(cs, k) ==
    LET upto[i \in 0 .. Len(cs)] == IF i = 0 THEN 0 ELSE Or(upto[i - 1] * Pow[k], cs[i], 2 * WordBits)
    IN  upto[Len(cs)]

\* The characters that count: a prefix is skipped only if it begins with 0, and
\* of another the letter counts as a digit, b as 'b' - '0' and x as 0.
Counted(l) ==
    IF l.first = 0 THEN l.digits
    ELSE <<l.first, IF l.base = 2 THEN 50 ELSE 0>> \o l.digits

\* binstrToValue, hexstrToValue: 0 for more characters than the type has room for.
Pattern(l) ==
    LET k == IF l.base = 2 THEN 1 ELSE 4
    IN  IF Len(Counted(l)) * k > WordBits THEN 0 ELSE Gathered(Counted(l), k)

\* A stream that reads an i32 stops at its largest value.
Saturated(i) == IF Fits(i, WordBits) THEN i ELSE Pow[WordBits - 1] - 1

\* What the node of l holds: an i32, whatever its text.
NodeValue(l) ==
    IF l.base = 10 THEN Saturated(Number(l.digits, 10))
    ELSE Signed(Word(Pattern(l), WordBits), WordBits)

\* Faulty: the i32 is widened as an unsigned number.
ConstantBitsUnsigned(l) == WordBits

\* encode_expr_int looks at the i64 the node holds as an unsigned one: a
\* negative i32, which only a pattern of all its bits is, takes 64 bits.
ConstantBits(l) == IF NodeValue(l) < 0 THEN 2 * WordBits ELSE WordBits

-------------------------------------------------------------------------------
(* What is meant: a decimal number, or a pattern of at most WordBits bits.   *)

Sound(l) ==
    /\ l.base # 10 => l.first = 0 /\ Number(l.digits, l.base) < Pow[WordBits]
                      /\ Len(l.digits) * (IF l.base = 2 THEN 1 ELSE 4) <= WordBits
    /\ l.base = 10 => Fits(Number(l.digits, 10), WordBits)

Meant(l) ==
    IF l.base = 10 THEN Number(l.digits, 10)
    ELSE Signed(Word(Number(l.digits, l.base), WordBits), WordBits)

===============================================================================
