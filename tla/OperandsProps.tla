----------------------------- MODULE OperandsProps -----------------------------
(***************************************************************************)
(* What the encoding of expressions promises, and what the manual says of   *)
(* it.                                                                      *)
(***************************************************************************)
EXTENDS Operands

Doubt == {"literal", "open", "quotient", "eager", "bool", "mask"}

\* A word of a value of this type.
IsWord(w, type) == w \in {Undef, Trap, Real} \/ (type \in Integer /\ w \in 0 .. Pow[Bits(type)] - 1)

\* The states the variables range over; a null wrapper is no value at all.
TypeOK ==
    /\ family \in DOMAIN Family
    /\ x \in Family[family].words
    /\ nodes \in 0 .. Family[family].nodes
    /\ \A k \in DOMAIN stack :
          /\ stack[k].type \in Integer \union {"f64", "null"}
          /\ stack[k].wrapper \in Integer \union {"f64", "ptr", "none"}
          /\ stack[k].pointer \in BOOLEAN /\ stack[k].const \in BOOLEAN
          /\ IsWord(stack[k].word, stack[k].type)
          /\ stack[k].doubts \subseteq Doubt
    /\ status \in {"run", "failed", "crashed", "malformed"}
    /\ typed \in BOOLEAN /\ wide \in BOOLEAN

\* The integer or truth value a word stands for.
Value(v) == IF v.type = "i1" THEN v.word ELSE Signed(v.word, Bits(v.type))

\* The instructions chosen by arith, cmp and the bit operations, the widths
\* chosen by encode_expr_int and the conversions of the parser compute what the
\* expression means: signed numbers, shifts to the right that fill in zeros.
\* The exceptions are those named: literals without a meaning, results the
\* operators leave open (an overflow, a division by zero, a shift too wide), the
\* remainder of the smallest number by -1, truth values as numbers, and the
\* complement of a number of 64 bits.
MeaningKept ==
    \A k \in DOMAIN stack :
        stack[k].type # "null" /\ stack[k].doubts = {} =>
            \/ stack[k].word = Real /\ stack[k].exact = Real
            \/ stack[k].word \notin {Undef, Trap, Real} /\ stack[k].exact = Value(stack[k])

\* The type that omis_module_t notes in a wrapper, which conditions, returns and
\* definitions are checked by, is the type of the LLVM value.
WrapperAgrees ==
    \A k \in DOMAIN stack :
        stack[k].type # "null" => stack[k].wrapper = IF stack[k].pointer THEN "ptr" ELSE stack[k].type

\* Operands the language has the operator for are never too much for the bridge:
\* arith and cmp take every pair of numbers, as long as no literal is so wide
\* that it meets an integer of another width.
WellTypedIsEncoded ==
    typed /\ ~ wide =>
        /\ status \in {"run", "failed"}
        /\ \A k \in DOMAIN stack : stack[k].type # "null"

\* Other operands are stopped: the encoder ends, if not the way it should, or
\* has a null value that ends it at the next use.  Only truth values slip
\* through as numbers of one bit.
IllTypedIsStopped ==
    ~ typed /\ status = "run" =>
        \E k \in DOMAIN stack : stack[k].type = "null" \/ "bool" \in stack[k].doubts

\* The manual (eokas-language-manual-zh.md:113): if a is true, a || b returns a
\* directly.  So an expression that has a meaning, and only operands that the
\* language has its operators for, does not end the program.
MeaningfulIsSafe ==
    typed => \A k \in DOMAIN stack : stack[k].word = Trap => stack[k].exact = NoMeaning

===============================================================================
