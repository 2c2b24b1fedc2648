---------------------------- MODULE Operands_proofs ----------------------------
(***************************************************************************)
(* What holds of the types of every expression, whatever the instances:    *)
(* wrappers and LLVM values agree, operands the language has operators for *)
(* are encoded, and others are stopped.  What the words are is in            *)
(* OperandsWords_proofs.                                                    *)
(***************************************************************************)
EXTENDS OperandsProps, SequenceTheorems, TLAPS

IsSeq(s) == \E S : s \in Seq(S)

Types == {"i1", "i32", "i64", "f64", "null"}

\* The wrapper of v fits, if v is a value at all.
Agrees(v) ==
    /\ v.type \in Types
    /\ v.pointer \in BOOLEAN
    /\ v.type # "null" => v.wrapper = IF v.pointer THEN "ptr" ELSE v.type

\* v ends the encoder, or stands for a truth value taken for a number.
Marked(v) == v.type = "null" \/ "bool" \in v.doubts

\* The inductive invariant: the three properties, and that only wide literals
\* make wide values.
Inv ==
    /\ IsSeq(stack)
    /\ typed \in BOOLEAN /\ wide \in BOOLEAN
    /\ \A k \in DOMAIN stack : Agrees(stack[k])
    /\ ~ wide => \A k \in DOMAIN stack : stack[k].type # "i64"
    /\ typed => \A k \in DOMAIN stack : stack[k].type # "null"
    /\ typed /\ ~ wide => status \in {"run", "failed"}
    /\ ~ typed /\ status = "run" => \E k \in DOMAIN stack : Marked(stack[k])

-------------------------------------------------------------------------------
(* Stacks. *)

LEMMA SeqWider ==
    ASSUME NEW S, NEW T, NEW s \in Seq(S), S \subseteq T
    PROVE  s \in Seq(T)
OBVIOUS

\* The stack s without its last k values.
LEMMA CutStack ==
    ASSUME NEW S, NEW s \in Seq(S), NEW k \in 0 .. Len(s)
    PROVE  LET t == SubSeq(s, 1, Len(s) - k)
           IN  /\ t \in Seq(S)
               /\ DOMAIN t = 1 .. Len(s) - k
               /\ Len(t) = Len(s) - k
               /\ \A i \in DOMAIN t : i \in DOMAIN s /\ t[i] = s[i]
<1> DEFINE t == SubSeq(s, 1, Len(s) - k)
<1>1. Len(s) \in Nat /\ DOMAIN s = 1 .. Len(s) /\ \A i \in DOMAIN s : s[i] \in S
  OBVIOUS
<1>2. \A i \in 1 .. Len(s) - k : i \in DOMAIN s /\ s[i] \in S
  BY <1>1
<1>3. /\ t \in Seq(S)
      /\ Len(t) = IF 1 <= Len(s) - k THEN Len(s) - k - 1 + 1 ELSE 0
      /\ \A i \in 1 .. Len(s) - k - 1 + 1 : t[i] = s[1 + i - 1]
  BY <1>1, <1>2, SubSeqProperties
<1> HIDE DEF t
<1>4. Len(s) - k \in Nat
  BY <1>1
<1>5. Len(t) = Len(s) - k
  <2> DEFINE n == Len(s) - k
  <2>1. Len(t) = IF 1 <= n THEN n - 1 + 1 ELSE 0
    BY <1>3
  <2> HIDE DEF n
  <2> QED
    BY <1>4, <2>1 DEF n
<1>6. DOMAIN t = 1 .. Len(s) - k
  BY <1>3, <1>5, LenProperties
<1>7. ASSUME NEW i \in 1 .. Len(s) - k PROVE t[i] = s[i]
  <2>1. i \in 1 .. Len(s) - k - 1 + 1 /\ 1 + i - 1 = i
    BY <1>4
  <2> QED
    BY <1>3, <2>1
<1> QED
  BY <1>2, <1>3, <1>5, <1>6, <1>7 DEF t

\* The same with a value v on top.
LEMMA GrowStack ==
    ASSUME NEW S, NEW s \in Seq(S), NEW k \in 0 .. Len(s), NEW v
    PROVE  LET t == Append(SubSeq(s, 1, Len(s) - k), v)
               n == Len(s) - k
           IN  /\ IsSeq(t)
               /\ n \in 0 .. Len(s)
               /\ DOMAIN t = 1 .. n + 1
               /\ t[n + 1] = v
               /\ \A i \in 1 .. n : i \in DOMAIN s /\ t[i] = s[i]
<1> DEFINE b == SubSeq(s, 1, Len(s) - k)
<1>1. b \in Seq(S) /\ DOMAIN b = 1 .. Len(s) - k /\ Len(b) = Len(s) - k
        /\ \A i \in DOMAIN b : i \in DOMAIN s /\ b[i] = s[i]
  BY CutStack
<1> HIDE DEF b
<1>2. b \in Seq(S \union {v})
  BY <1>1, SeqWider
<1>3. Append(b, v) \in Seq(S \union {v}) /\ Len(Append(b, v)) = Len(b) + 1
        /\ Append(b, v)[Len(b) + 1] = v /\ \A i \in 1 .. Len(b) : Append(b, v)[i] = b[i]
  BY <1>2
<1>4. DOMAIN Append(b, v) = 1 .. Len(s) - k + 1
  BY <1>1, <1>3
<1>5. IsSeq(Append(b, v))
  BY <1>3 DEF IsSeq
<1>6. Len(s) - k \in 0 .. Len(s)
  OBVIOUS
<1> QED
  BY <1>1, <1>3, <1>4, <1>5, <1>6 DEF b

-------------------------------------------------------------------------------
(* Operators. *)

\* A loaded value is no pointer any more, and its wrapper still fits.
LEMMA LoadedFits ==
    ASSUME NEW v, Agrees(v)
    PROVE  LET w == Loaded(v)
           IN  /\ w.type = v.type /\ w.doubts = v.doubts
               /\ w.type \in Types
               /\ w.type # "null" => w.wrapper = w.type
BY DEF Loaded, Agrees

\* The types of the operators: a value of a type of its own or of an operand,
\* which the language's operators never lack, and that others lack unless a
\* truth value is among the operands.
LEMMA BinaryTypes ==
    ASSUME NEW op \in Binary, NEW s \in Types \ {"null"}, NEW t \in Types \ {"null"},
           ~ Mismatched(op, s, t)
    PROVE  /\ BinaryType(op, s, t) \in Types
           /\ BinaryType(op, s, t) = "i64" => s = "i64"
           /\ HasBinary(op, s, t) => BinaryType(op, s, t) # "null"
           /\ ~ HasBinary(op, s, t) => BinaryType(op, s, t) = "null" \/ "i1" \in {s, t}
<1>1. CASE op \in Arith
  BY <1>1 DEF Arith, Compare, Logic, BitOper, Types, Integer, HasBinary, BinaryType, Mismatched
<1>2. CASE op \in Compare
  BY <1>2 DEF Arith, Compare, Logic, BitOper, Types, Integer, HasBinary, BinaryType, Mismatched
<1>3. CASE op \in Logic
  BY <1>3 DEF Arith, Compare, Logic, BitOper, Types, Integer, HasBinary, BinaryType, Mismatched
<1>4. CASE op \in BitOper
  BY <1>4 DEF Arith, Compare, Logic, BitOper, Types, Integer, HasBinary, BinaryType, Mismatched
<1> QED
  BY <1>1, <1>2, <1>3, <1>4 DEF Binary

LEMMA BinaryWrappers ==
    ASSUME NEW op \in Binary, NEW l, NEW r,
           l.type \in Types \ {"null"}, r.type \in Types \ {"null"},
           l.wrapper = l.type, BinaryType(op, l.type, r.type) # "null"
    PROVE  BinaryWrapper(op, l, r) = BinaryType(op, l.type, r.type)
<1>1. CASE op \in Arith
  BY <1>1 DEF Arith, Compare, Logic, BitOper, BinaryWrapper
<1>2. CASE op \in Compare
  BY <1>2 DEF Arith, Compare, Logic, BitOper, BinaryWrapper, BinaryType
<1>3. CASE op \in Logic
  BY <1>3 DEF Arith, Compare, Logic, BitOper, BinaryWrapper, BinaryType
<1>4. CASE op \in BitOper
  BY <1>4 DEF Arith, Compare, Logic, BitOper, BinaryWrapper, BinaryType
<1> QED
  BY <1>1, <1>2, <1>3, <1>4 DEF Binary

\* A truth value taken for a number is not forgotten, even by an operator that
\* does not need it.
LEMMA BoolDoubts ==
    ASSUME NEW op, NEW l, NEW r,
           \/ "bool" \in l.doubts
           \/ "bool" \in r.doubts
           \/ "i1" \in {l.type, r.type} /\ ~ HasBinary(op, l.type, r.type)
    PROVE  "bool" \in DoubtsOf(op, l, r)
BY DEF DoubtsOf

LEMMA BinaryFits ==
    ASSUME NEW op \in Binary, NEW l, NEW r,
           l.type \in Types \ {"null"}, r.type \in Types \ {"null"},
           l.wrapper = l.type, ~ Mismatched(op, l.type, r.type)
    PROVE  LET v == BinaryValue(op, l, r)
           IN  /\ Agrees(v)
               /\ v.type = "i64" => l.type = "i64"
               /\ HasBinary(op, l.type, r.type) => v.type # "null"
               /\ Marked(l) \/ Marked(r) \/ ~ HasBinary(op, l.type, r.type) => Marked(v)
<1> DEFINE type == BinaryType(op, l.type, r.type)
           v == BinaryValue(op, l, r)
<1>1. /\ type \in Types
      /\ type = "i64" => l.type = "i64"
      /\ HasBinary(op, l.type, r.type) => type # "null"
      /\ ~ HasBinary(op, l.type, r.type) => type = "null" \/ "i1" \in {l.type, r.type}
  BY BinaryTypes
<1>2. CASE type = "null"
  BY <1>1, <1>2 DEF BinaryValue, Null, Agrees, Marked, Types
<1>3. CASE type # "null"
  <2>1. /\ v.type = type /\ v.wrapper = BinaryWrapper(op, l, r)
        /\ v.pointer = FALSE /\ v.doubts = DoubtsOf(op, l, r)
    BY <1>3 DEF BinaryValue
  <2>2. v.wrapper = type
    BY <1>3, <2>1, BinaryWrappers
  <2>3. Marked(l) \/ Marked(r) \/ ~ HasBinary(op, l.type, r.type) => Marked(v)
    BY <1>1, <1>3, <2>1, BoolDoubts DEF Marked
  <2> HIDE DEF v, type
  <2> QED
    BY <1>1, <1>3, <2>1, <2>2, <2>3 DEF Agrees, v
<1> QED
  BY <1>2, <1>3

LEMMA UnaryFits ==
    ASSUME NEW op \in Unary, NEW v, v.type \in Types \ {"null"}, v.wrapper = v.type
    PROVE  LET w == UnaryValue(op, v)
           IN  /\ Agrees(w)
               /\ w.type = "i64" => v.type = "i64"
               /\ HasUnary(op, v.type) => w.type # "null"
               /\ Marked(v) \/ ~ HasUnary(op, v.type) => Marked(w)
<1> DEFINE type == UnaryType(op, v.type)
           w == UnaryValue(op, v)
<1>1. /\ type \in {v.type, "null"}
      /\ op = "NOT" /\ type # "null" => type = "i1"
      /\ HasUnary(op, v.type) => type # "null"
      /\ ~ HasUnary(op, v.type) => type = "null" \/ v.type = "i1"
  BY DEF Unary, UnaryType, HasUnary, Types, Integer
<1>2. CASE type = "null"
  BY <1>1, <1>2 DEF UnaryValue, Null, Agrees, Marked, Types
<1>3. CASE type # "null"
  <2>1. /\ w.type = type /\ w.wrapper = IF op = "NOT" THEN "i1" ELSE v.wrapper
        /\ w.pointer = FALSE /\ w.doubts = UnaryDoubts(op, v)
    BY <1>3 DEF UnaryValue
  <2>2. w.wrapper = type
    BY <1>1, <1>3, <2>1
  <2>3. Marked(v) \/ ~ HasUnary(op, v.type) => "bool" \in UnaryDoubts(op, v)
    BY <1>1, <1>3 DEF Marked, UnaryDoubts
  <2> HIDE DEF w, type
  <2> QED
    BY <1>1, <1>3, <2>1, <2>2, <2>3 DEF Agrees, Marked, w
<1> QED
  BY <1>2, <1>3

-------------------------------------------------------------------------------
(* The invariant is inductive. *)

LEMMA InitInv == Init => Inv
<1> SUFFICES ASSUME Init PROVE Inv
  OBVIOUS
<1>1. stack = <<>> /\ typed = TRUE /\ wide = FALSE /\ status = "run"
  BY DEF Init
<1>2. stack \in Seq({}) /\ DOMAIN stack = {}
  BY <1>1
<1>3. IsSeq(stack)
  BY <1>2 DEF IsSeq
<1> QED
  BY <1>1, <1>2, <1>3 DEF Inv

\* The indices of the stack, and those that remain under an operator.
LEMMA StackFacts ==
    ASSUME Inv
    PROVE  /\ Len(stack) \in Nat
           /\ DOMAIN stack = 1 .. Len(stack)
           /\ \E S : stack \in Seq(S)
BY DEF Inv, IsSeq

\* A leaf that is a value with a wrapper that fits.
LEMMA LeafStep ==
    ASSUME Inv, NEW v, stack' = Append(stack, v),
           Agrees(v), v.type # "null", v.type = "i64" => wide',
           wide' \in BOOLEAN, wide => wide', typed' = typed, status' = status
    PROVE  Inv'
<1>1. PICK S : stack \in Seq(S)
  BY StackFacts
<1> DEFINE n == Len(stack)
<1>2. /\ IsSeq(stack') /\ DOMAIN stack' = 1 .. n + 1 /\ stack'[n + 1] = v
      /\ \A i \in 1 .. n : i \in DOMAIN stack /\ stack'[i] = stack[i]
  <2>1. SubSeq(stack, 1, n - 0) = stack
    BY <1>1, StackFacts, SubSeqFull
  <2>2. 0 \in 0 .. n /\ n - 0 = n
    BY StackFacts
  <2>3. stack' = Append(SubSeq(stack, 1, n - 0), v)
    BY <2>1
  <2> QED
    BY <1>1, <2>2, <2>3, GrowStack
<1>3. n \in Nat /\ DOMAIN stack = 1 .. n
  BY StackFacts
<1>4. \A k \in DOMAIN stack' : k = n + 1 \/ (k \in DOMAIN stack /\ stack'[k] = stack[k])
  BY <1>2, <1>3
<1>5. \A k \in DOMAIN stack : k \in DOMAIN stack' /\ stack'[k] = stack[k]
  BY <1>2, <1>3
<1> HIDE DEF n
<1>6. \A k \in DOMAIN stack' : Agrees(stack'[k])
  BY <1>2, <1>4 DEF Inv
<1>7. ~ wide' => \A k \in DOMAIN stack' : stack'[k].type # "i64"
  BY <1>2, <1>4 DEF Inv
<1>8. typed' => \A k \in DOMAIN stack' : stack'[k].type # "null"
  BY <1>2, <1>4 DEF Inv
<1>9. ~ typed' /\ status' = "run" => \E k \in DOMAIN stack' : Marked(stack'[k])
  BY <1>5 DEF Inv
<1>10. typed' /\ ~ wide' => status' \in {"run", "failed"}
  BY DEF Inv
<1> QED
  BY <1>2, <1>6, <1>7, <1>8, <1>9, <1>10 DEF Inv, Agrees, Marked

\* An operator of k operands that leaves the value v.
LEMMA OperatorStep ==
    ASSUME Inv, NEW k \in 0 .. Len(stack), NEW v, NEW ok \in BOOLEAN,
           stack' = Append(Below(k), v), status = "run", status' = status,
           wide' = wide, typed' = (typed /\ ok),
           Agrees(v), ok => v.type # "null" \/ ~ typed,
           ~ wide => v.type # "i64",
           ~ ok => Marked(v),
           (\E i \in Len(stack) - k + 1 .. Len(stack) : Marked(stack[i])) => Marked(v)
    PROVE  Inv'
<1>1. PICK S : stack \in Seq(S)
  BY StackFacts
<1> DEFINE n == Len(stack) - k
<1>2. /\ IsSeq(stack') /\ DOMAIN stack' = 1 .. n + 1 /\ stack'[n + 1] = v
      /\ \A i \in 1 .. n : i \in DOMAIN stack /\ stack'[i] = stack[i]
  BY <1>1, GrowStack DEF Below
<1>3. n \in Nat /\ DOMAIN stack = 1 .. Len(stack) /\ Len(stack) \in Nat
  BY StackFacts
<1>4. (\E j \in n + 1 .. Len(stack) : Marked(stack[j])) => Marked(v)
  OBVIOUS
<1> HIDE DEF n
<1>5. \A j \in DOMAIN stack' : j = n + 1 \/ (j \in DOMAIN stack /\ stack'[j] = stack[j])
  BY <1>2, <1>3
<1>6. \A j \in DOMAIN stack : \/ j \in DOMAIN stack' /\ stack'[j] = stack[j]
                              \/ j \in n + 1 .. Len(stack)
  BY <1>2, <1>3
<1>7. n + 1 \in DOMAIN stack'
  BY <1>2, <1>3
<1>8. \A j \in DOMAIN stack' : Agrees(stack'[j])
  BY <1>2, <1>5 DEF Inv
<1>9. ~ wide' => \A j \in DOMAIN stack' : stack'[j].type # "i64"
  BY <1>2, <1>5 DEF Inv
<1>10. typed' => \A j \in DOMAIN stack' : stack'[j].type # "null"
  BY <1>2, <1>5 DEF Inv
<1>11. ~ typed' => \E j \in DOMAIN stack' : Marked(stack'[j])
  <2>1. CASE ~ ok
    BY <1>2, <1>7, <2>1
  <2>2. CASE ~ typed
    <3>1. PICK j \in DOMAIN stack : Marked(stack[j])
      BY <2>2 DEF Inv
    <3> QED
      BY <1>2, <1>6, <1>7, <1>4, <3>1
  <2> QED
    BY <2>1, <2>2
<1>12. typed' /\ ~ wide' => status' \in {"run", "failed"}
  OBVIOUS
<1>13. typed' \in BOOLEAN /\ wide' \in BOOLEAN
  BY DEF Inv
<1> QED
  BY <1>2, <1>8, <1>9, <1>10, <1>11, <1>12, <1>13 DEF Inv, Agrees, Marked

\* A step that ends the encoder, on a stack without some of its values.
LEMMA StopStep ==
    ASSUME Inv, NEW k \in 0 .. Len(stack), stack' = Below(k), status' # "run",
           wide' = wide, typed' \in BOOLEAN, typed' => typed,
           typed' /\ ~ wide' => status' \in {"run", "failed"}
    PROVE  Inv'
<1>1. PICK S : stack \in Seq(S)
  BY StackFacts
<1>2. /\ stack' \in Seq(S)
      /\ \A i \in DOMAIN stack' : i \in DOMAIN stack /\ stack'[i] = stack[i]
  BY <1>1, CutStack DEF Below
<1>3. IsSeq(stack')
  BY <1>2 DEF IsSeq
<1> QED
  BY <1>2, <1>3 DEF Inv, Agrees, Marked

\* What stands on top of the stack, once it is loaded.
LEMMA TopFits ==
    ASSUME Inv, NEW k \in 1 .. Len(stack)
    PROVE  LET v == Loaded(FromEnd(k))
           IN  /\ v.type \in Types
               /\ v.type # "null" => v.wrapper = v.type
               /\ ~ wide => v.type # "i64"
               /\ Marked(FromEnd(k)) <=> Marked(v)
<1> DEFINE u == FromEnd(k)
           v == Loaded(u)
<1>1. PICK i \in DOMAIN stack : u = stack[i]
  BY StackFacts DEF FromEnd
<1>2. Agrees(u) /\ (~ wide => u.type # "i64")
  BY <1>1 DEF Inv
<1> HIDE DEF u
<1>3. /\ v.type = u.type /\ v.doubts = u.doubts
      /\ v.type \in Types
      /\ v.type # "null" => v.wrapper = v.type
  BY <1>2, LoadedFits
<1> HIDE DEF v
<1> QED
  BY <1>2, <1>3 DEF Marked, u, v

LEMMA LeafInv ==
    ASSUME Inv, IntLiteral \/ BoolLiteral \/ FloatLiteral \/ SymbolRef
    PROVE  Inv'
<1>1. CASE IntLiteral
  <2>1. PICK l \in Family[family].literals :
          LET n == ConstantBits(l)
              type == IF n = WordBits THEN "i32" ELSE "i64"
          IN  /\ stack' = Append(stack, Constant(type, Word(NodeValue(l), n), Meant(l),
                                                IF Sound(l) THEN {} ELSE {"literal"}))
              /\ wide' = (wide \/ type = "i64")
    BY <1>1 DEF IntLiteral, Encoded
  <2> DEFINE n == ConstantBits(l)
             type == IF n = WordBits THEN "i32" ELSE "i64"
             v == Constant(type, Word(NodeValue(l), n), Meant(l), IF Sound(l) THEN {} ELSE {"literal"})
  <2>2. v.type = type /\ v.wrapper = type /\ v.pointer = FALSE /\ type \in {"i32", "i64"}
    BY DEF Constant
  <2>3. stack' = Append(stack, v) /\ wide' = (wide \/ type = "i64")
    BY <2>1
  <2> HIDE DEF v, type
  <2>4. Agrees(v) /\ v.type # "null"
    BY <2>2 DEF Agrees, Types
  <2>5. typed' = typed /\ status' = status
    BY <1>1 DEF IntLiteral
  <2>6. wide' \in BOOLEAN /\ (wide => wide') /\ (v.type = "i64" => wide')
    BY <2>2, <2>3 DEF Inv
  <2> QED
    BY <2>3, <2>4, <2>5, <2>6, LeafStep
<1>2. CASE BoolLiteral
  <2>1. PICK b \in {0, 1} : stack' = Append(stack, Constant("i1", b, b, {}))
    BY <1>2 DEF BoolLiteral, Encoded
  <2> DEFINE v == Constant("i1", b, b, {})
  <2>2. Agrees(v) /\ v.type = "i1"
    BY DEF Constant, Agrees, Types
  <2> HIDE DEF v
  <2> QED
    BY <1>2, <2>1, <2>2, LeafStep DEF v, BoolLiteral, Inv
<1>3. CASE FloatLiteral
  <2> DEFINE v == Constant("f64", Real, Real, {})
  <2>1. stack' = Append(stack, v)
    BY <1>3 DEF FloatLiteral, Encoded
  <2>2. Agrees(v) /\ v.type = "f64"
    BY DEF Constant, Agrees, Types
  <2> HIDE DEF v
  <2> QED
    BY <1>3, <2>1, <2>2, LeafStep DEF FloatLiteral, Inv
<1>4. CASE SymbolRef
  <2> DEFINE v == [type |-> "i32", wrapper |-> "ptr", pointer |-> TRUE, const |-> FALSE,
                   word |-> x, exact |-> Signed(x, WordBits), doubts |-> {}]
  <2>1. stack' = Append(stack, v)
    BY <1>4 DEF SymbolRef, Encoded
  <2>2. Agrees(v) /\ v.type = "i32"
    BY DEF Agrees, Types
  <2> HIDE DEF v
  <2> QED
    BY <1>4, <2>1, <2>2, LeafStep DEF SymbolRef, Inv
<1> QED
  BY <1>1, <1>2, <1>3, <1>4

LEMMA NoLeafInv ==
    ASSUME Inv, NoLeaf
    PROVE  Inv'
BY DEF Inv, NoLeaf, Encoded, Agrees, Marked

LEMMA UnaryInv ==
    ASSUME Inv, UnaryNode
    PROVE  Inv'
<1>1. Len(stack) \in Nat /\ Len(stack) >= 1 /\ wide' = wide /\ status = "run"
  BY StackFacts DEF UnaryNode, Room
<1> DEFINE v == Loaded(FromEnd(1))
<1>2. PICK op \in Unary :
         \/ v.type = "null" /\ stack' = Below(1) /\ status' = "crashed" /\ typed' = typed
         \/ /\ v.type # "null"
            /\ stack' = Append(Below(1), UnaryValue(op, v))
            /\ typed' = (typed /\ HasUnary(op, v.type))
            /\ status' = status
  BY DEF UnaryNode, Encoded
<1>3. 1 \in 1 .. Len(stack) /\ 1 \in 0 .. Len(stack)
  BY <1>1
<1>4. /\ v.type \in Types
      /\ v.type # "null" => v.wrapper = v.type
      /\ ~ wide => v.type # "i64"
      /\ Marked(FromEnd(1)) <=> Marked(v)
  BY <1>3, TopFits
<1> HIDE DEF v
<1>5. CASE v.type = "null"
  <2>1. stack' = Below(1) /\ status' = "crashed" /\ typed' = typed
    BY <1>2, <1>5
  <2>2. ~ typed \/ wide
    <3>1. FromEnd(1).type = "null"
      BY <1>5 DEF v, Loaded
    <3>2. FromEnd(1) = stack[Len(stack)] /\ Len(stack) \in DOMAIN stack
      BY <1>1, StackFacts DEF FromEnd
    <3> QED
      BY <3>1, <3>2 DEF Inv
  <2> QED
    BY <1>1, <1>3, <2>1, <2>2, StopStep DEF Inv
<1>6. CASE v.type # "null"
  <2> DEFINE w == UnaryValue(op, v)
             ok == HasUnary(op, v.type)
  <2>1. stack' = Append(Below(1), w) /\ typed' = (typed /\ ok) /\ status' = status
    BY <1>2, <1>6
  <2>2. /\ Agrees(w)
        /\ w.type = "i64" => v.type = "i64"
        /\ ok => w.type # "null"
        /\ Marked(v) \/ ~ ok => Marked(w)
    BY <1>4, <1>6, UnaryFits
  <2>3. ok \in BOOLEAN
    BY DEF HasUnary
  <2>4. \A i \in Len(stack) - 1 + 1 .. Len(stack) : stack[i] = FromEnd(1)
    BY <1>1 DEF FromEnd
  <2>5. (\E i \in Len(stack) - 1 + 1 .. Len(stack) : Marked(stack[i])) => Marked(w)
    BY <1>4, <2>2, <2>4
  <2> HIDE DEF w, ok
  <2> QED
    BY <1>1, <1>3, <1>4, <2>1, <2>2, <2>3, <2>5, OperatorStep
<1> QED
  BY <1>5, <1>6

\* Numbers of two widths do not meet unless a literal was wide, but a truth
\* value meets a number only under an operator the language lacks for them.
LEMMA WidthsMeet ==
    ASSUME NEW op \in Binary, NEW s \in Types \ {"null"}, NEW t \in Types \ {"null"},
           Mismatched(op, s, t), s # "i64", t # "i64"
    PROVE  ~ HasBinary(op, s, t)
BY DEF Mismatched, HasBinary, Types, Integer, Binary, Arith, Compare, Logic, BitOper

LEMMA BinaryInv ==
    ASSUME Inv, BinaryNode
    PROVE  Inv'
<1>1. Len(stack) \in Nat /\ Len(stack) >= 2 /\ wide' = wide /\ status = "run"
  BY StackFacts DEF BinaryNode, Room
<1> DEFINE l == Loaded(FromEnd(2))
           r == Loaded(FromEnd(1))
<1>2. PICK op \in Binary :
         \/ /\ "null" \in {l.type, r.type}
            /\ stack' = Below(2) /\ status' = "crashed" /\ typed' = typed
         \/ /\ "null" \notin {l.type, r.type} /\ Mismatched(op, l.type, r.type)
            /\ stack' = Below(2) /\ status' = "malformed"
            /\ typed' = (typed /\ HasBinary(op, l.type, r.type))
         \/ /\ "null" \notin {l.type, r.type} /\ ~ Mismatched(op, l.type, r.type)
            /\ stack' = Append(Below(2), BinaryValue(op, l, r))
            /\ typed' = (typed /\ HasBinary(op, l.type, r.type))
            /\ status' = status
  BY DEF BinaryNode, Encoded
<1>3. {1, 2} \subseteq 1 .. Len(stack) /\ 2 \in 0 .. Len(stack)
  BY <1>1
<1>4. /\ l.type \in Types /\ r.type \in Types
      /\ l.type # "null" => l.wrapper = l.type
      /\ r.type # "null" => r.wrapper = r.type
      /\ ~ wide => l.type # "i64" /\ r.type # "i64"
      /\ Marked(FromEnd(2)) <=> Marked(l)
      /\ Marked(FromEnd(1)) <=> Marked(r)
  BY <1>3, TopFits
<1>5. typed => l.type # "null" /\ r.type # "null"
  <2>1. l.type = FromEnd(2).type /\ r.type = FromEnd(1).type
    BY DEF Loaded
  <2>2. FromEnd(2) = stack[Len(stack) - 1] /\ FromEnd(1) = stack[Len(stack)]
    BY <1>1 DEF FromEnd
  <2>3. Len(stack) - 1 \in DOMAIN stack /\ Len(stack) \in DOMAIN stack
    BY <1>1, StackFacts
  <2> QED
    BY <2>1, <2>2, <2>3 DEF Inv
<1> HIDE DEF l, r
<1> DEFINE ok == HasBinary(op, l.type, r.type)
<1>6. ok \in BOOLEAN
  BY DEF HasBinary
<1>7. CASE "null" \in {l.type, r.type}
  <2>1. stack' = Below(2) /\ status' = "crashed" /\ typed' = typed /\ ~ typed
    BY <1>2, <1>5, <1>7
  <2> QED
    BY <1>1, <1>3, <2>1, StopStep DEF Inv
<1>8. CASE "null" \notin {l.type, r.type} /\ Mismatched(op, l.type, r.type)
  <2>1. stack' = Below(2) /\ status' = "malformed" /\ typed' = (typed /\ ok)
    BY <1>2, <1>8
  <2>2. ~ ok \/ wide
    BY <1>4, <1>8, WidthsMeet
  <2> HIDE DEF ok
  <2> QED
    BY <1>1, <1>3, <1>6, <2>1, <2>2, StopStep DEF Inv
<1>9. CASE "null" \notin {l.type, r.type} /\ ~ Mismatched(op, l.type, r.type)
  <2> DEFINE w == BinaryValue(op, l, r)
  <2>1. stack' = Append(Below(2), w) /\ typed' = (typed /\ ok) /\ status' = status
    BY <1>2, <1>9
  <2>2. /\ Agrees(w)
        /\ w.type = "i64" => l.type = "i64"
        /\ ok => w.type # "null"
        /\ Marked(l) \/ Marked(r) \/ ~ ok => Marked(w)
    BY <1>4, <1>9, BinaryFits
  <2>3. \A i \in Len(stack) - 2 + 1 .. Len(stack) : stack[i] \in {FromEnd(1), FromEnd(2)}
    BY <1>1 DEF FromEnd
  <2>4. (\E i \in Len(stack) - 2 + 1 .. Len(stack) : Marked(stack[i])) => Marked(w)
    BY <1>4, <2>2, <2>3
  <2> HIDE DEF w, ok
  <2> QED
    BY <1>1, <1>3, <1>4, <1>6, <2>1, <2>2, <2>4, OperatorStep
<1> QED
  BY <1>7, <1>8, <1>9

LEMMA NextInv == Inv /\ [Next]_vars => Inv'
<1> SUFFICES ASSUME Inv, [Next]_vars PROVE Inv'
  OBVIOUS
<1>1. CASE IntLiteral \/ BoolLiteral \/ FloatLiteral \/ SymbolRef
  BY <1>1, LeafInv
<1>2. CASE NoLeaf
  BY <1>2, NoLeafInv
<1>3. CASE UnaryNode
  BY <1>3, UnaryInv
<1>4. CASE BinaryNode
  BY <1>4, BinaryInv
<1>5. CASE UNCHANGED vars
  BY <1>5 DEF vars, Inv, Agrees, Marked
<1> QED
  BY <1>1, <1>2, <1>3, <1>4, <1>5 DEF Next

LEMMA InvHolds == Spec => []Inv
BY InitInv, NextInv, PTL DEF Spec

-------------------------------------------------------------------------------
(* The properties. *)

\* In every expression, the type noted in a wrapper is the type of its value
\* (omis_module_t's operators and llvm_bridge_t's).
THEOREM WrappersAgree == Spec => []WrapperAgrees
<1>1. Inv => WrapperAgrees
  BY DEF Inv, Agrees, WrapperAgrees
<1> QED
  BY <1>1, InvHolds, PTL

\* Every expression of operands the language has its operators for, and no
\* wide literal, is encoded (arith, cmp, and the bit operations of the bridge).
THEOREM WellTypedEncoded == Spec => []WellTypedIsEncoded
<1>1. Inv => WellTypedIsEncoded
  BY DEF Inv, WellTypedIsEncoded
<1> QED
  BY <1>1, InvHolds, PTL

\* In every other expression, the encoder ends or is about to, or a truth value
\* was taken for a number (the checks of l_and, l_or, l_not and b_flip).
THEOREM IllTypedStopped == Spec => []IllTypedIsStopped
<1>1. Inv => IllTypedIsStopped
  BY DEF Inv, Marked, IllTypedIsStopped
<1> QED
  BY <1>1, InvHolds, PTL

================================================================================
