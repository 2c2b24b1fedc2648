------------------------------ MODULE MCCodegen ------------------------------
(***************************************************************************)
(* Small programs for the encoder: every nesting, two deep, of loops, ifs  *)
(* and blocks around the simple statements, between a definition of x and  *)
(* a return, with and without a statement after the outer one.             *)
(***************************************************************************)
EXTENDS CodegenSem

MCName == {"x", "y"}

Flag == [kind |-> "calc", type |-> "bool", reads |-> <<>>]
Number == [kind |-> "calc", type |-> "i32", reads |-> <<>>]
Reading(n) == [kind |-> "calc", type |-> "i32", reads |-> <<n>>]
Ref(n) == [kind |-> "ref", name |-> n]
Trinary(c, t, f) == [kind |-> "trinary", cond |-> c, yes |-> t, no |-> f]
Unsupported == [kind |-> "unsupported"]
Absent == [kind |-> "absent"]   \* no expression: a bare return

None == [kind |-> "none"]
Def(n, e) == [kind |-> "def", name |-> n, variable |-> TRUE, typed |-> FALSE, value |-> e]
Val(n, e) == [Def(n, e) EXCEPT !.variable = FALSE]
Typed(def) == [def EXCEPT !.typed = TRUE]
Assign(n, e) == [kind |-> "assign", left |-> Ref(n), right |-> e]
Return_(e) == [kind |-> "return", value |-> e]
Break == [kind |-> "break"]
Continue == [kind |-> "continue"]
BlockOf(body) == [kind |-> "block", body |-> body]
If(c, t, f) == [kind |-> "if", cond |-> c, yes |-> t, no |-> f]
LoopOf(i, c, s, b) == [kind |-> "loop", init |-> i, cond |-> c, step |-> s, body |-> b]

Choice == Trinary(Flag, Reading("x"), Ref("x"))
Comparison == [kind |-> "calc", type |-> "bool", reads |-> <<"x">>]
ChoiceFlag == Trinary(Flag, Comparison, Flag)

Jumps == {Break, Continue, Return_(Reading("x"))}
Plain == {Assign("x", Reading("x")), Assign("x", Trinary(ChoiceFlag, Choice.yes, Number))}
Shadow == BlockOf(<<Def("x", Reading("x")), Assign("x", Number)>>)

\* What may stand in a branch or a loop body at the innermost level.
Leaf == Jumps \union Plain \union {Shadow, BlockOf(<<>>)}
          \union {BlockOf(<<p, j>>) : p \in {Def("y", Ref("x"))}, j \in Jumps}

Count == LoopOf(Def("y", Number), Flag, Assign("y", Reading("y")), None)
Inner == {If(c, t, f) : c \in {Flag, ChoiceFlag}, t \in Leaf, f \in Leaf \union {None}}
          \union {[Count EXCEPT !.body = b] : b \in Leaf}

Outer(inner) == {[Count EXCEPT !.body = b] : b \in inner}
                  \union {If(Flag, BlockOf(<<i>>), None) : i \in inner}

\* The inner statement alone, or followed by an assignment, in a block.
Bodies == Inner \union {BlockOf(<<i, Assign("x", Number)>>) : i \in Inner}

Framed(s) == <<Def("x", Number), s, Return_(Ref("x"))>>

\* Trinaries whose arms differ in type or whose parts are null, are trinaries,
\* or are both constants.
Odd == {Assign("x", Trinary(Flag, t, f)) : t \in {Number, Choice}, f \in {Number, Choice}} \union {Assign("x", Trinary(c, t, f)) :
          c \in {Flag, Number, Unsupported}, t \in {Number, Unsupported}, f \in {Flag, Unsupported, Ref("x")}}

Live == {Framed(s) : s \in Outer(Bodies) \union Inner \union Odd}

-------------------------------------------------------------------------------
(* Programs right and wrong.  Each statement below is wrong in some contexts *)
(* or in all of them; dead code is allowed here.  There is no trinary, and    *)
(* every program ends in a simple statement.                                  *)

Wrong == {Def("x", Number), Def("y", Reading("y")), Def("y", Unsupported),
          Assign("y", Number), Assign("x", Reading("y")),
          [Assign("x", Number) EXCEPT !.left = Number],
          [Assign("x", Number) EXCEPT !.left = Unsupported],
          Return_(Flag), Return_(Unsupported), Return_(Absent), [kind |-> "refused"]}

Simple == Wrong \union {Break, Continue, Return_(Reading("x")),
                       Assign("x", Reading("x")), Def("y", Flag), Def("y", Number),
                       Val("y", Number), Typed(Def("y", Number))}

Pairs == {BlockOf(<<s, t>>) : s, t \in Simple}
Braced == {If(c, BlockOf(<<s>>), t) : c \in {Flag, Number, Ref("y")},
                                     s \in Simple, t \in {None, Break}}
            \union {LoopOf(Def("y", Number), c, u, BlockOf(<<s>>)) :
                       c \in {Flag, Number, Ref("y"), Unsupported}, s \in Simple,
                       u \in {Assign("y", Reading("x")), Def("y", Number)}}
Nested == {[Count EXCEPT !.body = BlockOf(<<b, s>>)] : b \in Braced, s \in {Break, Return_(Ref("y"))}}

\* Definitions that are an arm or a loop body without braces, and what follows.
Unbraced == {If(Flag, s, t) : s \in {Def("y", Number), Def("x", Flag)},
                              t \in {None, Def("y", Flag), If(Flag, Def("y", Number), None)}}
              \union {[Count EXCEPT !.body = s] : s \in {Def("y", Flag), Val("x", Number)}}
Followed == {BlockOf(<<u, s>>) : u \in Unbraced, s \in Simple}

Mixed == UNION {{Framed(s) : s \in Pairs}, {Framed(s) : s \in Braced},
                {Framed(s) : s \in Nested}, {Framed(s) : s \in Followed},
                {<<s, t>> : s, t \in Simple}}

-------------------------------------------------------------------------------
(* Programs the manual or the samples speak of.                               *)

\* An annotated definition, a definition of a string, a proc.
Documented == {Typed(Def("x", Number)), Val("y", Unsupported), [kind |-> "refused"]}

Annotated == {<<s, Return_(Number)>> : s \in Documented}
EndsInLoop == {<<Def("x", Number), [Count EXCEPT !.body = BlockOf(<<Assign("x", Number)>>)]>>}
LoneJump == {<<Def("x", Number), s, Return_(Ref("x"))>> : s \in {Break, Continue}}

-------------------------------------------------------------------------------
(* The nodes of all these programs. *)

Basic == {Flag, Number, Unsupported, Absent} \union {Reading(n) : n \in MCName}
           \union {Ref(n) : n \in MCName}
Operands ==
    Basic \union {Choice, ChoiceFlag, Comparison}
          \union {s.right : s \in Odd \union Plain}

Nodes ==
    UNION {{None, Def("x", Number), Def("x", Reading("x")), Def("y", Number),
            Def("y", Ref("x")), Assign("x", Number), Assign("y", Reading("x")),
            Assign("y", Reading("y")), Return_(Ref("x")), Return_(Ref("y"))},
           Leaf, Inner, Bodies, Outer(Bodies), {BlockOf(<<i>>) : i \in Bodies}, Odd,
           Simple, {BlockOf(<<s>>) : s \in Simple}, Pairs, Braced, Nested, {s.body : s \in Nested},
           Documented, Followed, Unbraced, UNION {{s.yes, s.no} : s \in {u \in Unbraced : u.kind = "if"}},
           {s.body : s \in {u \in Unbraced : u.kind = "loop"}}, {Return_(Number)},
           UNION {{p[i] : i \in DOMAIN p} : p \in EndsInLoop},
           {BlockOf(<<Assign("x", Number)>>)}}

MCStatement == Nodes

-------------------------------------------------------------------------------
(* The programs of Live have no dead code, as SealedIsFinal asks.             *)

PartsOf(s) ==
    CASE s.kind = "block" -> {s.body[i] : i \in DOMAIN s.body}
      [] s.kind = "if" -> {s.yes, s.no}
      [] s.kind = "loop" -> {s.init, s.step, s.body}
      [] OTHER -> {}
WithParts(nodes) == nodes \union UNION {PartsOf(s) : s \in nodes}
TopNodes == UNION {{p[i] : i \in DOMAIN p} : p \in Live}
\* Statements are nested six deep at most: a block in a branch in a block ...
LiveNodes == WithParts(WithParts(WithParts(WithParts(WithParts(WithParts(TopNodes))))))
EndsInJump[s \in Statement] ==
    \/ s.kind \in {"return", "break", "continue"}
    \/ s.kind = "block" /\ s.body # <<>> /\ EndsInJump[s.body[Len(s.body)]]

LiveEnds == {s \in LiveNodes : EndsInJump[s]}

ASSUME LiveIsAlive == NoDeadCode(Live, LiveNodes, LiveEnds)

MCExpression == Operands

=============================================================================
