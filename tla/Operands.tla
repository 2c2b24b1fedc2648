------------------------------- MODULE Operands -------------------------------
(***************************************************************************)
(* The encoding of expressions: literals, variables, and the operators     *)
(* (omis_module_coder_t::encode_expr_*, the arithmetic of omis_module_t,   *)
(* and the choice of an LLVM instruction by llvm_bridge_t).                *)
(*                                                                         *)
(* encode_expr visits the left operand, the right one, and then the        *)
(* operator, so that an expression is encoded in the order of its postfix  *)
(* form.  The model encodes every expression at once: each step is the     *)
(* next node, and stack has the values of those whose parent is to come.   *)
(* Trinaries, which emit blocks, are in Codegen.                            *)
(*                                                                         *)
(* A value is its LLVM type, the type of its omis_value_t wrapper, whether *)
(* it is a pointer to be loaded and whether it is a constant, the word the *)
(* encoded program computes, and, to compare with, what the manual says it *)
(* means (exact) and why the two may differ (doubts).                       *)
(***************************************************************************)
EXTENDS Literals

CONSTANTS
    Family,     \* the instances, a sequence: their literals, the words of the variable x, the number of nodes
    Undef,      \* in place of a word: LLVM leaves the value open
    Trap,       \* in place of a word: the program dies
    Real,       \* in place of a word or a meaning: it takes a floating point number to know
    NoMeaning   \* an expression that the manual gives no meaning

ASSUME FamilyAssumption ==
    \A f \in DOMAIN Family :
        /\ \A l \in Family[f].literals : IsLiteral(l)
        /\ Family[f].words \subseteq 0 .. Pow[WordBits] - 1
        /\ Family[f].nodes \in Nat
ASSUME OutOfWords ==
    /\ {Undef, Trap, Real, NoMeaning} \intersect Int = {}
    /\ Undef # Trap /\ Real \notin {Undef, Trap, NoMeaning}

Arith == {"ADD", "SUB", "MUL", "DIV", "MOD"}
Compare == {"EQ", "NE", "LE", "GE", "LT", "GT"}
Logic == {"AND", "OR"}
BitOper == {"BIT_AND", "BIT_OR", "BIT_XOR", "SHIFT_L", "SHIFT_R"}
Binary == Arith \union Compare \union Logic \union BitOper
Unary == {"POS", "NEG", "NOT", "FLIP"}

Integer == {"i1", "i32", "i64"}
Bits(type) == CASE type = "i1" -> 1 [] type = "i32" -> WordBits [] type = "i64" -> 2 * WordBits

VARIABLES
    family,  \* which instance
    x,       \* the word stored in the i32 variable x
    nodes,   \* how many nodes were encoded
    stack,   \* the values waiting for their operator
    status,  \* "run", "failed" (a null value), "crashed", "malformed" (an instruction LLVM does not have)
    typed,   \* the operators met only operands the language has them for
    wide     \* a literal took 64 bits

vars == <<family, x, nodes, stack, status, typed, wide>>

Init ==
    /\ family \in DOMAIN Family
    /\ x \in Family[family].words
    /\ nodes = 0
    /\ stack = <<>>
    /\ status = "run"
    /\ typed = TRUE
    /\ wide = FALSE

-------------------------------------------------------------------------------
(* Leaves. *)

Constant(type, word, exact, doubts) ==
    [type |-> type, wrapper |-> type, pointer |-> FALSE, const |-> TRUE,
     word |-> word, exact |-> exact, doubts |-> doubts]

\* One more node, which makes the stack k longer, few enough for an expression
\* of at most that many nodes: all but one of the values take an operator yet.
Room(k) == status = "run" /\ nodes + Len(stack) + k <= Family[family].nodes

Encoded(s) ==
    /\ nodes' = nodes + 1
    /\ stack' = s
    /\ UNCHANGED <<family, x>>

IntLiteral ==
    /\ Room(1)
    /\ \E l \in Family[family].literals :
          LET n == ConstantBits(l)
              type == IF n = WordBits THEN "i32" ELSE "i64"
          IN  /\ Encoded(Append(stack, Constant(type, Word(NodeValue(l), n), Meant(l),
                                               IF Sound(l) THEN {} ELSE {"literal"})))
              /\ wide' = (wide \/ type = "i64")
    /\ UNCHANGED <<status, typed>>

BoolLiteral ==
    /\ Room(1)
    /\ \E b \in {0, 1} : Encoded(Append(stack, Constant("i1", b, b, {})))
    /\ UNCHANGED <<status, typed, wide>>

\* Floating point numbers are kept apart from others, but not from one another.
FloatLiteral ==
    /\ Room(1)
    /\ Encoded(Append(stack, Constant("f64", Real, Real, {})))
    /\ UNCHANGED <<status, typed, wide>>

\* encode_expr_string returns null, and so does a name that has no symbol.
NoLeaf ==
    /\ Room(1)
    /\ Encoded(stack)
    /\ status' = "failed"
    /\ UNCHANGED <<typed, wide>>

\* A variable is the pointer to its cell; operators load from it.
SymbolRef ==
    /\ Room(1)
    /\ Encoded(Append(stack, [type |-> "i32", wrapper |-> "ptr", pointer |-> TRUE, const |-> FALSE,
                              word |-> x, exact |-> Signed(x, WordBits), doubts |-> {}]))
    /\ UNCHANGED <<status, typed, wide>>

-------------------------------------------------------------------------------
(* Instructions on words of n bits. *)

\* Division cuts off towards zero.
Quotient(i, j) ==
    LET q == (IF i < 0 THEN -i ELSE i) \div (IF j < 0 THEN -j ELSE j)
    IN  IF (i < 0) = (j < 0) THEN q ELSE -q

Remainder(i, j) == i - j * Quotient(i, j)

\* Faulty: words are divided as unsigned numbers.
ArithWordUnsigned(op, a, b, n) ==
    CASE op = "ADD" -> Word(a + b, n)
      [] op = "SUB" -> Word(a - b, n)
      [] op = "MUL" -> Word(Signed(a, n) * Signed(b, n), n)
      [] op = "DIV" -> IF b = 0 THEN Undef ELSE a \div b
      [] op = "MOD" -> IF b = 0 THEN Undef ELSE a % b

\* CreateAdd, CreateSub, CreateMul, CreateSDiv, CreateSRem.
ArithWord(op, a, b, n) ==
    LET i == Signed(a, n)
        j == Signed(b, n)
        open == j = 0 \/ (i = -Pow[n - 1] /\ j = -1)
    IN  CASE op = "ADD" -> Word(i + j, n)
          [] op = "SUB" -> Word(i - j, n)
          [] op = "MUL" -> Word(i * j, n)
          [] op = "DIV" -> IF open THEN Undef ELSE Word(Quotient(i, j), n)
          [] op = "MOD" -> IF open THEN Undef ELSE Word(Remainder(i, j), n)

Truth(p) == IF p THEN 1 ELSE 0

Compared(op, i, j) ==
    Truth(CASE op = "EQ" -> i = j [] op = "NE" -> i # j [] op = "LE" -> i <= j
            [] op = "GE" -> i >= j [] op = "LT" -> i < j [] op = "GT" -> i > j)

\* ICMP with the signed predicates, for i1 as well: true is -1.
CompareWord(op, a, b, n) == Compared(op, Signed(a, n), Signed(b, n))

\* CreateAnd, CreateOr, CreateXor, CreateShl, and CreateLShr.
BitWord(op, a, b, n) ==
    CASE op \in {"BIT_AND", "AND"} -> And(a, b, n)
      [] op \in {"BIT_OR", "OR"} -> Or(a, b, n)
      [] op = "BIT_XOR" -> Xor(a, b, n)
      [] op = "SHIFT_L" -> IF b >= n THEN Undef ELSE Word(a * Pow[b], n)
      [] op = "SHIFT_R" -> IF b >= n THEN Undef ELSE a \div Pow[b]

InstructionWord(op, a, b, n) ==
    CASE op \in Arith -> ArithWord(op, a, b, n)
      [] op \in Compare -> CompareWord(op, a, b, n)
      [] op \in Logic \union BitOper -> BitWord(op, a, b, n)

\* What the program computes.  An operand that is no word is none of the
\* result's business; a division by zero of two constants is left open by the
\* folder, and any other one kills the program.
Computed(op, l, r) ==
    LET words == {l.word, r.word}
    IN  CASE Trap \in words -> Trap
          [] Undef \in words /\ Trap \notin words -> Undef
          [] Real \in words /\ words \intersect {Trap, Undef} = {} -> Real
          [] words \intersect {Trap, Undef, Real} = {} ->
                LET w == InstructionWord(op, l.word, r.word, Bits(l.type))
                IN  IF w = Undef /\ op \in {"DIV", "MOD"} /\ ~ (l.const /\ r.const) THEN Trap ELSE w

-------------------------------------------------------------------------------
(* What the manual says an operator means, for integers and truth values.    *)

\* The language has the operator for operands of these types.
HasBinary(op, s, t) ==
    \/ op \in Arith \union Compare /\ {s, t} \subseteq {"i32", "i64", "f64"}
    \/ op \in {"EQ", "NE"} \union Logic /\ {s, t} = {"i1"}
    \/ op \in BitOper /\ {s, t} \subseteq {"i32", "i64"}

HasUnary(op, t) ==
    \/ op \in {"POS", "NEG"} /\ t \in {"i32", "i64", "f64"}
    \/ op = "NOT" /\ t = "i1"
    \/ op = "FLIP" /\ t \in {"i32", "i64"}

\* The left operand alone decides: a || b is a if a is true, a && b if it is not.
Decides(op, i) == (op = "OR" /\ i = 1) \/ (op = "AND" /\ i = 0)

MeantArith(op, i, j) ==
    CASE op = "ADD" -> i + j
      [] op = "SUB" -> i - j
      [] op = "MUL" -> i * j
      [] op = "DIV" -> IF j = 0 THEN NoMeaning ELSE Quotient(i, j)
      [] op = "MOD" -> IF j = 0 THEN NoMeaning ELSE Remainder(i, j)

MeantBits(op, i, j, n) ==
    CASE op = "SHIFT_L" -> IF j \in 0 .. n - 1 THEN i * Pow[j] ELSE NoMeaning
      [] op = "SHIFT_R" -> IF j \in 0 .. n - 1 THEN Signed(Word(i, n) \div Pow[j], n) ELSE NoMeaning
      [] op \in {"BIT_AND", "BIT_OR", "BIT_XOR"} -> Signed(BitWord(op, Word(i, n), Word(j, n), n), n)

\* An integer result has to fit.
Fitting(i, n) == IF i # NoMeaning /\ Fits(i, n) THEN i ELSE NoMeaning

Means(op, l, r) ==
    LET i == l.exact
        j == r.exact
    IN  CASE Decides(op, i) -> i
          [] NoMeaning \in {i, j} /\ ~ Decides(op, i) -> NoMeaning
          [] {i, j} \subseteq Int \union {Real} /\ Real \in {i, j} /\ ~ Decides(op, i) -> Real
          [] {i, j} \subseteq Int /\ ~ Decides(op, i) ->
                IF op \in Logic THEN j
                ELSE IF op \in Compare THEN Compared(op, i, j)
                ELSE IF op \in Arith THEN Fitting(MeantArith(op, i, j), Bits(l.type))
                ELSE Fitting(MeantBits(op, i, j, Bits(l.type)), Bits(l.type))

\* The smallest number by -1: a remainder of 0, but of a quotient that does not
\* fit, with which LLVM leaves the remainder open, too.
QuotientLost(op, l, r) ==
    op = "MOD" /\ l.exact \in Int /\ r.exact = -1 /\ ~ Fits(-l.exact, Bits(l.type))

\* Why the word may differ from the meaning: "open" if the operator leaves it
\* open, "quotient" as above, "eager" if it waits for an operand it does not
\* need, "bool" if it takes a truth value for a number.
DoubtsOf(op, l, r) ==
    LET new == (IF Means(op, l, r) = NoMeaning THEN {"open"} ELSE {})
               \union (IF QuotientLost(op, l, r) THEN {"quotient"} ELSE {})
               \union (IF "i1" \in {l.type, r.type} /\ ~ HasBinary(op, l.type, r.type) THEN {"bool"} ELSE {})
    IN  IF Decides(op, l.exact)
        THEN l.doubts \union new \union (r.doubts \intersect {"bool"})
             \union (IF r.word \in {Undef, Trap, Real} THEN {"eager"} ELSE {})
        ELSE l.doubts \union r.doubts \union new

-------------------------------------------------------------------------------
(* Operators. *)

\* A wrapper whose handle is null: value(type, nullptr) makes one, where the
\* bridge has printed an error.  The next use of it follows the null pointer.
Null == [type |-> "null", wrapper |-> "none", pointer |-> FALSE, const |-> FALSE,
         word |-> Undef, exact |-> NoMeaning, doubts |-> {}]

\* get_ptr_val, and the wrapper value(handle) makes for what it returns.
Loaded(v) ==
    IF v.pointer
    THEN [type |-> v.type, wrapper |-> v.type, pointer |-> FALSE, const |-> FALSE,
          word |-> v.word, exact |-> v.exact, doubts |-> v.doubts]
    ELSE v

\* Faulty: l_and and l_or take integers of any width.
BinaryTypeUnchecked(op, s, t) ==
    IF op \in Arith THEN IF "f64" \in {s, t} THEN "f64" ELSE s
    ELSE IF op \in Compare THEN "i1"
    ELSE IF {s, t} \subseteq Integer THEN s ELSE "null"

\* Faulty: arith has no case for an integer and a floating point number.
BinaryTypeUnmixed(op, s, t) ==
    IF op \in Arith THEN IF s = t THEN s ELSE "null"
    ELSE IF op \in Compare THEN "i1"
    ELSE IF {s, t} \subseteq (IF op \in Logic THEN {"i1"} ELSE Integer) THEN s ELSE "null"

\* The type of the instruction the bridge chooses, or "null" for none.
BinaryType(op, s, t) ==
    IF op \in Arith THEN IF "f64" \in {s, t} THEN "f64" ELSE s
    ELSE IF op \in Compare THEN "i1"
    ELSE IF {s, t} \subseteq (IF op \in Logic THEN {"i1"} ELSE Integer) THEN s ELSE "null"

\* Faulty: the result of a comparison has the type of its operand.
BinaryWrapperOfOperand(op, l, r) == l.wrapper

\* The type omis_module_t gives the wrapper: its own idea, except for arithmetic.
BinaryWrapper(op, l, r) ==
    IF op \in Arith THEN BinaryType(op, l.type, r.type)
    ELSE IF op \in Compare \union Logic THEN "i1"
    ELSE l.wrapper

\* Two integer types of different width: no check, and no such instruction.
Mismatched(op, s, t) == s # t /\ {s, t} \subseteq Integer /\ op \notin Logic

BinaryValue(op, l, r) ==
    IF BinaryType(op, l.type, r.type) = "null" THEN Null
    ELSE [type |-> BinaryType(op, l.type, r.type),
          wrapper |-> BinaryWrapper(op, l, r),
          pointer |-> FALSE,
          const |-> l.const /\ r.const,
          word |-> Computed(op, l, r),
          exact |-> Means(op, l, r),
          doubts |-> DoubtsOf(op, l, r)]

\* Faulty: the mask of b_flip is not cut to the width of the operand.
UnaryWordUncut(op, w, n) ==
    CASE op = "POS" -> w
      [] op = "NEG" -> Word(-w, n)
      [] op = "NOT" -> 1 - w
      [] op = "FLIP" -> Xor(w, Pow[WordBits] - 1, IF n < WordBits THEN WordBits ELSE n)

UnaryWord(op, w, n) ==
    CASE op = "POS" -> w
      [] op = "NEG" -> Word(-w, n)
      [] op = "NOT" -> 1 - w
      [] op = "FLIP" -> Xor(w, Word(Pow[WordBits] - 1, n), n)

MeantUnary(op, i, n) ==
    CASE op = "POS" -> i [] op = "NEG" -> Fitting(-i, n) [] op = "NOT" -> 1 - i [] op = "FLIP" -> -i - 1

UnaryType(op, t) ==
    IF \/ op \in {"POS", "NEG"}
       \/ op = "NOT" /\ t = "i1"
       \/ op = "FLIP" /\ t \in Integer
    THEN t ELSE "null"

\* The mask of b_flip has WordBits ones, whatever the width of the operand.
UnaryDoubts(op, v) ==
    v.doubts \union (IF v.type = "i1" /\ ~ HasUnary(op, v.type) THEN {"bool"} ELSE {})
             \union (IF op = "FLIP" /\ v.type = "i64" THEN {"mask"} ELSE {})
             \union (IF op = "NEG" /\ v.exact \in Int /\ ~ Fits(-v.exact, Bits(v.type)) THEN {"open"} ELSE {})

UnaryValue(op, v) ==
    IF UnaryType(op, v.type) = "null" THEN Null
    ELSE [type |-> UnaryType(op, v.type),
          wrapper |-> IF op = "NOT" THEN "i1" ELSE v.wrapper,
          pointer |-> FALSE,
          const |-> v.const,
          word |-> IF v.word \in {Undef, Trap, Real} THEN v.word ELSE UnaryWord(op, v.word, Bits(v.type)),
          exact |-> IF v.exact \in {NoMeaning, Real} THEN v.exact ELSE MeantUnary(op, v.exact, Bits(v.type)),
          doubts |-> UnaryDoubts(op, v)]

\* The stack without its last k values, and the k-th of those from the end.
Below(k) == SubSeq(stack, 1, Len(stack) - k)
FromEnd(k) == stack[Len(stack) - k + 1]

\* Both operands are loaded when both are encoded.
BinaryNode ==
    /\ Room(-1)
    /\ Len(stack) >= 2
    /\ UNCHANGED wide
    /\ \E op \in Binary :
          LET l == Loaded(FromEnd(2))
              r == Loaded(FromEnd(1))
          IN  \/ /\ "null" \in {l.type, r.type}
                 /\ Encoded(Below(2))
                 /\ status' = "crashed"
                 /\ UNCHANGED typed
              \/ /\ "null" \notin {l.type, r.type}
                 /\ Mismatched(op, l.type, r.type)
                 /\ Encoded(Below(2))
                 /\ status' = "malformed"
                 /\ typed' = (typed /\ HasBinary(op, l.type, r.type))
              \/ /\ "null" \notin {l.type, r.type}
                 /\ ~ Mismatched(op, l.type, r.type)
                 /\ Encoded(Append(Below(2), BinaryValue(op, l, r)))
                 /\ typed' = (typed /\ HasBinary(op, l.type, r.type))
                 /\ UNCHANGED status

UnaryNode ==
    /\ Room(0)
    /\ Len(stack) >= 1
    /\ UNCHANGED wide
    /\ \E op \in Unary :
          LET v == Loaded(FromEnd(1))
          IN  \/ /\ v.type = "null"
                 /\ Encoded(Below(1))
                 /\ status' = "crashed"
                 /\ UNCHANGED typed
              \/ /\ v.type # "null"
                 /\ Encoded(Append(Below(1), UnaryValue(op, v)))
                 /\ typed' = (typed /\ HasUnary(op, v.type))
                 /\ UNCHANGED status

Next ==
    \/ IntLiteral \/ BoolLiteral \/ FloatLiteral \/ NoLeaf \/ SymbolRef
    \/ UnaryNode \/ BinaryNode

Spec == Init /\ [][Next]_vars
===============================================================================
