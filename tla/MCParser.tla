------------------------------- MODULE MCParser -------------------------------
(***************************************************************************)
(* Bounded texts and trees for the parser.                                 *)
(***************************************************************************)
EXTENDS ParserProps

CONSTANTS x, y, T,      \* names
          Shape,        \* which programs and texts a configuration takes
          MaxExprPieces, MaxFieldPieces, MaxStmtPieces     \* how many pieces a text is made of

MCNameOrder == <<T, x, y>>

------------------------------------------------------------------------------
(* Trees. *)

Ref(name) == [kind |-> "ref", name |-> name]
One == [kind |-> "literal", type |-> "INT_D", value |-> 1]
Bin(op, a, b) == [kind |-> "binary", op |-> op, left |-> a, right |-> b]
Un(op, a) == [kind |-> "unary", op |-> op, right |-> a]
Cond(a, b, c) == [kind |-> "trinary", cond |-> a, yes |-> b, no |-> c]
Member(a, k) == [kind |-> "member", obj |-> a, key |-> k]
Index(a, b) == [kind |-> "index", obj |-> a, key |-> b]
Call(f, args) == [kind |-> "call", func |-> f, args |-> args]
Array(elements) == [kind |-> "array", elements |-> elements]
Plain(name) == [kind |-> "type", name |-> name, args |-> <<>>]
Generic == [kind |-> "type", name |-> T, args |-> <<Plain(T), Plain(x)>>]
Object(value) ==
    [kind |-> "object", type |-> Plain(T), fields |-> x :> value @@ y :> One]
Func(stmts) ==
    [kind |-> "func", args |-> <<[name |-> x, type |-> Generic], [name |-> y, type |-> Plain(T)]>>,
     rtype |-> Plain(T), body |-> stmts]

Def(value) == [kind |-> "def", variable |-> TRUE, name |-> x, type |-> None, value |-> value]
Typed(value) == [kind |-> "def", variable |-> FALSE, name |-> y, type |-> Generic, value |-> value]
Assign(a, b) == [kind |-> "assign", left |-> a, right |-> b]
Invoke(call) == [kind |-> "invoke", call |-> call]
Ret(value) == [kind |-> "return", value |-> value]
If2(c, a, b) == [kind |-> "if", cond |-> c, yes |-> a, no |-> b]
LoopOf(c, step, s) ==
    [kind |-> "loop", init |-> Def(One), cond |-> c, step |-> step, body |-> s]
BlockOf(stmts) == [kind |-> "block", body |-> stmts]
Break == [kind |-> "break"]
Continue == [kind |-> "continue"]
Proc == [kind |-> "proc", name |-> x, args |-> x :> Generic @@ y :> Plain(T), type |-> Plain(T)]
EnumOf(a, b) == [kind |-> "enum", name |-> T, members |-> x :> a @@ y :> b]

\* Every kind of expression, and one operator of every level (two of one).
Ops == {"OR2", "AND2", "LT", "ADD", "SUB", "MUL", "SHIFT_L"}
Inner ==
    {Ref(x), One, Cond(Ref(x), Ref(y), One), Un("SUB", Ref(x)), Member(Ref(x), y),
     Index(Ref(x), One), Call(Ref(x), <<>>), Array(<<Ref(y), One>>), Func(<<>>)}
    \union {Bin(op, Ref(x), One) : op \in Ops}
Outer(inner) ==
    {Bin(op, a, b) : op \in Ops, a \in inner, b \in inner}
    \union {Cond(a, b, One) : a \in inner, b \in inner}
    \union {Cond(One, a, b) : a \in inner, b \in inner}
    \union {Call(a, <<b, One>>) : a \in inner, b \in inner}
    \union {Index(a, b) : a \in inner, b \in inner}
    \union {Un("NOT", a) : a \in inner} \union {Member(a, x) : a \in inner}
    \union {Array(<<a>>) : a \in inner} \union {Object(a) : a \in inner}

Act == Invoke(Call(Ref(x), <<>>))
Simplest ==
    {Act, Def(One), Typed(Ref(x)), Ret(None), Ret(Ref(y)), Break, Continue, Proc,
     EnumOf(0, 1), EnumOf(5, 6), EnumOf(1, 0), Assign(Member(Ref(x), y), Ref(y))}
\* An else belongs to the nearest if: a branch before an else must not end in
\* an if without one.
Nested ==
    {If2(Ref(x), Act, None), If2(Ref(x), Act, Break), LoopOf(Ref(x), Act, Act),
     LoopOf(Ref(x), Def(Ref(y)), If2(One, Break, None)), BlockOf(<<>>), BlockOf(<<Act, Break>>)}
RECURSIVE EndsOpen(_)
EndsOpen(s) ==
    \/ s.kind = "if" /\ (s.no = None \/ EndsOpen(s.no))
    \/ s.kind = "loop" /\ EndsOpen(s.body)
Compound(some) ==
    {<<a, b>> : a \in some, b \in some}
    \union {<<If2(Ref(x), a, b)>> : a \in {s \in some : ~EndsOpen(s)}, b \in some}
    \union {<<LoopOf(Ref(x), Act, If2(One, a, None)), b>> : a \in some, b \in some}
    \union {<<BlockOf(<<a, b>>)>> : a \in some, b \in some}
    \union {<<Def(Func(<<a, b>>)), Act>> : a \in some, b \in some}

MCProgram ==
    IF Shape = "right" THEN {<<Def(e)>> : e \in Outer(Inner)} \union Compound(Simplest \union Nested)
    ELSE {}

------------------------------------------------------------------------------
(* Texts. *)

Ident == Id(x)
MarkAll(types) == FlattenSeq([i \in DOMAIN types |-> Mark(types[i])])
Assigned == Id(x) \o Mark("ASSIGN")
Invoked == Id(x) \o MarkAll(<<"LRB", "RRB", "SEMICOLON">>)

\* All ways to put up to n of the pieces one after the other.
Pieced(n, piece) == {FlattenSeq(s) : s \in BoundedSeq(piece, n)}

ExprPiece ==
    {Ident, Word("INT_D", 1)} \union {Mark(type) : type \in
        {"ADD", "MUL", "QUESTION", "COLON", "LRB", "RRB", "LSB", "RSB", "COMMA"}}

\* x = e; for what may stand in e.
ExprTexts ==
    {Assigned \o a \o e \o Mark("SEMICOLON") :
        a \in {<<>>, Ident}, e \in Pieced(MaxExprPieces, ExprPiece)}

\* x = make T { f }; for what may stand in f: fields that are repeated or out of
\* order among them, and objects in a field.
FieldPiece ==
    {Assigned \o Word("INT_D", 1), Id(y) \o Mark("ASSIGN") \o Ident,
     Ident \o Mark("COLON") \o Id(y), Mark("COMMA"),
     Id(y) \o MarkAll(<<"COLON", "MAKE">>) \o Id(T) \o Mark("LCB"), Mark("RCB")}
FieldTexts ==
    {Assigned \o Mark("MAKE") \o Id(T) \o Mark("LCB") \o f \o MarkAll(<<"RCB", "SEMICOLON">>) :
        f \in Pieced(MaxFieldPieces, FieldPiece)}

StmtPiece ==
    {Invoked, Mark("IF") \o Mark("LRB") \o Ident \o Mark("RRB"), Mark("ELSE"), Mark("LCB"),
     Mark("RCB"), Mark("SEMICOLON"), Mark("RETURN"), Mark("EXPORT") \o Ident,
     Mark("IMPORT") \o Ident, Mark("COLON"), Word("STRING", x),
     Mark("LOOP") \o Mark("LRB") \o DefText(Def(One)) \o Mark("SEMICOLON") \o Ident
        \o Mark("SEMICOLON") \o Assigned \o Ident \o Mark("RRB"),
     Mark("ENUM") \o Ident \o Mark("LCB"), Id(y), Ident \o Mark("COMMA"),
     Mark("MAKE") \o Id(T) \o Mark("LCB"), Assigned}
\* x = -(1;
HalfOperand == {Assigned \o Mark("SUB") \o Mark("LRB") \o Word("INT_D", 1) \o Mark("SEMICOLON")}

\* import my.math;  import x = my.math;
ManualImport ==
    LET target == Id(y) \o Mark("DOT") \o Id(x) \o Mark("SEMICOLON")
    IN  {Mark("IMPORT") \o target, Mark("IMPORT") \o Assigned \o target}

\* export val x = 1;
ManualExport == {MarkAll(<<"EXPORT", "VAL">>) \o Assigned \o Word("INT_D", 1) \o Mark("SEMICOLON")}

\* struct T { val x: y = 1; };
ManualStruct ==
    {Mark("STRUCT") \o Id(T) \o MarkAll(<<"LCB", "VAL">>) \o Ident \o Mark("COLON") \o Id(y)
        \o Mark("ASSIGN") \o Word("INT_D", 1) \o MarkAll(<<"SEMICOLON", "RCB", "SEMICOLON">>)}

\* enum T { x };
CommentEnum ==
    {Mark("ENUM") \o Id(T) \o Mark("LCB") \o Ident \o MarkAll(<<"RCB", "SEMICOLON">>)}

MCInputs ==
    CASE Shape = "right" -> {{w.text : w \in Written}, ExprTexts, FieldTexts, Pieced(MaxStmtPieces, StmtPiece)}
      [] Shape = "half operand" -> {HalfOperand}
      [] Shape = "documented" -> {ManualImport, ManualExport, ManualStruct, CommentEnum}

=============================================================================
