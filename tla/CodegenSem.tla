------------------------------ MODULE CodegenSem ------------------------------
(***************************************************************************)
(* What a program means, and what the emitted blocks do: the encoder is    *)
(* right when the two agree.                                               *)
(*                                                                         *)
(* The meaning is that of the language manual: a block, a loop and each    *)
(* branch of an if are scopes, a name means its innermost definition, break *)
(* and continue concern the innermost loop, a trinary evaluates one arm.   *)
(* Data is abstract.  A write stores its own position in the trace, so that *)
(* a read tells which write it sees; the outcomes of the conditions come   *)
(* from an oracle, and both executions stop when it is used up.            *)
(***************************************************************************)
EXTENDS CodegenProps, TLC

CONSTANT OracleLen   \* how many conditions an execution may decide

Oracles == [1 .. OracleLen -> BOOLEAN]

(* An execution: the trace so far, the memory (a function from cells), how   *)
(* many conditions were decided, and where control goes next.                *)
Start == [trace |-> <<>>, mem |-> <<>>, tests |-> 0, flow |-> "next", env |-> << <<>> >>]

Event(x, e) == [x EXCEPT !.trace = Append(@, e)]
Halt(x, how) == [x EXCEPT !.flow = how]
Read(x, c) ==
    Event(x, <<"load", IF c \in DOMAIN x.mem THEN x.mem[c] ELSE "undefined">>)
Write(x, c) ==
    Event([x EXCEPT !.mem = (c :> Len(x.trace) + 1) @@ @], <<"store">>)
Test(x) == Event([x EXCEPT !.tests = @ + 1], <<"test">>)
Decided(x, oracle) == oracle[x.tests]
Exhausted(x) == x.tests = OracleLen

-------------------------------------------------------------------------------
(* The source program.  env is the stack of scopes, each a function from the *)
(* names defined in it to cells; a cell is named by the write that began it. *)

Enter(x) == [x EXCEPT !.env = << <<>> >> \o @]
Leave(x) == [x EXCEPT !.env = Tail(@)]
Binding(x, n) == {k \in DOMAIN x.env : n \in DOMAIN x.env[k]}
Innermost(x, n) == x.env[CHOOSE k \in Binding(x, n) : \A j \in Binding(x, n) : k <= j][n]

ReadName(x, n) ==
    IF Binding(x, n) = {} THEN Halt(Event(x, <<"unbound", n>>), "stop")
    ELSE Read(x, Innermost(x, n))

RECURSIVE ReadAll(_, _)
ReadAll(x, names) ==
    IF names = <<>> \/ x.flow # "next" THEN x
    ELSE ReadAll(ReadName(x, Head(names)), Tail(names))

RECURSIVE EvalExpr(_, _, _)
EvalExpr(e, x, oracle) ==
    IF x.flow # "next" THEN x ELSE
    CASE e.kind = "calc" -> ReadAll(x, e.reads)
      [] e.kind = "ref" -> ReadName(x, e.name)
      [] e.kind = "trinary" ->
           LET c == EvalExpr(e.cond, x, oracle)
           IN  IF c.flow # "next" THEN c
               ELSE IF Exhausted(c) THEN Halt(c, "stop")
               ELSE LET t == Test(c)
                    IN  EvalExpr(IF Decided(t, oracle) THEN e.yes ELSE e.no, t, oracle)
      [] OTHER -> Halt(x, "stop")

RECURSIVE RunStmt(_, _, _), RunSeq(_, _, _), RunLoop(_, _, _)
RunSeq(body, x, oracle) ==
    IF body = <<>> \/ x.flow # "next" THEN x
    ELSE RunSeq(Tail(body), RunStmt(Head(body), x, oracle), oracle)

\* One round of a loop whose scope is open, and the rounds after it.
RunLoop(s, x, oracle) ==
    LET c == EvalExpr(s.cond, x, oracle)
    IN  IF c.flow # "next" THEN c
        ELSE IF Exhausted(c) THEN Halt(c, "stop")
        ELSE LET t == Test(c)
             IN  IF ~Decided(t, oracle) THEN t
                 ELSE LET b == RunStmt(s.body, Enter(t), oracle)
                      IN  CASE b.flow \in {"next", "continue"} ->
                                 RunLoop(s, RunStmt(s.step, [b EXCEPT !.flow = "next", !.env = t.env],
                                                    oracle), oracle)
                            [] b.flow = "break" -> [b EXCEPT !.flow = "next", !.env = t.env]
                            [] OTHER -> b

RunStmt(s, x, oracle) ==
    IF x.flow # "next" THEN x ELSE
    CASE s.kind = "none" -> x
      [] s.kind = "def" ->
           LET v == EvalExpr(s.value, x, oracle)
               c == Len(v.trace) + 1
           IN  IF v.flow # "next" THEN v
               ELSE [Write(v, c) EXCEPT !.env[1] = (s.name :> c) @@ @]
      [] s.kind = "assign" ->
           LET v == EvalExpr(s.right, x, oracle)
           IN  IF v.flow # "next" THEN v
               ELSE IF Binding(v, s.left.name) = {}
               THEN Halt(Event(v, <<"unbound", s.left.name>>), "stop")
               ELSE Write(v, Innermost(v, s.left.name))
      [] s.kind = "return" ->
           LET v == EvalExpr(s.value, x, oracle)
           IN  IF v.flow # "next" THEN v ELSE Halt(Event(v, <<"ret">>), "stop")
      [] s.kind \in {"break", "continue"} -> Halt(x, s.kind)
      [] s.kind = "block" ->
           [RunSeq(s.body, Enter(x), oracle) EXCEPT !.env = x.env]
      [] s.kind = "if" ->
           LET c == EvalExpr(s.cond, x, oracle)
           IN  IF c.flow # "next" THEN c
               ELSE IF Exhausted(c) THEN Halt(c, "stop")
               ELSE LET t == Test(c)
                    IN  [RunStmt(IF Decided(t, oracle) THEN s.yes ELSE s.no, Enter(t), oracle)
                            EXCEPT !.env = x.env]
      [] s.kind = "loop" ->
           [RunLoop(s, RunStmt(s.init, Enter(x), oracle), oracle) EXCEPT !.env = x.env]
      [] OTHER -> Halt(x, "stop")

SourceTrace(p, oracle) ==
    LET x == RunSeq(p, Start, oracle)
    IN  IF x.flow = "next" THEN Append(x.trace, <<"ret">>) ELSE x.trace

-------------------------------------------------------------------------------
(* The emitted function, from instruction i of block b, which was entered    *)
(* from block p.  A phi has a value only if p is one of its incoming blocks.  *)

RECURSIVE RunFrom(_, _, _, _, _)
RunFrom(p, b, i, x, oracle) ==
    IF i > Len(blocks[b]) THEN Event(x, <<"fell off">>)
    ELSE LET ins == blocks[b][i]
         IN  CASE ins.op = "alloca" -> RunFrom(p, b, i + 1, x, oracle)
               [] ins.op = "phi" ->
                    IF p \in {ins.yes, ins.no} THEN RunFrom(p, b, i + 1, x, oracle)
                    ELSE Event(x, <<"no entry">>)
               [] ins.op = "load" -> RunFrom(p, b, i + 1, Read(x, ins.cell), oracle)
               [] ins.op = "store" -> RunFrom(p, b, i + 1, Write(x, ins.cell), oracle)
               [] ins.op = "br" -> RunFrom(b, ins.to, 1, x, oracle)
               [] ins.op = "condbr" ->
                    IF Exhausted(x) THEN x
                    ELSE LET t == Test(x)
                         IN  RunFrom(b, IF Decided(t, oracle) THEN ins.yes ELSE ins.no, 1, t, oracle)
               [] ins.op = "ret" -> Event(x, <<"ret">>)
               [] ins.op = "illstore" -> Event(x, <<"undefined">>)

CodeTrace(oracle) == RunFrom(NoBlock, 1, 1, Start, oracle).trace

(* The nodes of a statement or an expression. *)
RECURSIVE NodesIn(_)
NodesIn(s) ==
    {s} \union
    CASE s.kind \in {"def", "return"} -> NodesIn(s.value)
      [] s.kind = "assign" -> NodesIn(s.left) \union NodesIn(s.right)
      [] s.kind = "block" -> UNION {NodesIn(s.body[i]) : i \in DOMAIN s.body}
      [] s.kind \in {"if", "trinary"} ->
           NodesIn(s.cond) \union NodesIn(s.yes) \union NodesIn(s.no)
      [] s.kind = "loop" -> NodesIn(s.init) \union NodesIn(s.cond)
                            \union NodesIn(s.step) \union NodesIn(s.body)
      [] OTHER -> {}

NodesOf(p) == UNION {NodesIn(p[i]) : i \in DOMAIN p}
Trinaries(p) == {n \in NodesOf(p) : n.kind = "trinary"}

(* A trinary whose phi gets an entry for each of its predecessors: each arm   *)
(* ends in the block it began in, and the two are not one constant.           *)
Joins(t) ==
    /\ "trinary" \notin {t.yes.kind, t.no.kind}
    /\ ~ (IsConstant(t.yes) /\ IsConstant(t.no))

(* The emitted blocks do what the program means: the same reads, of the same *)
(* writes, the same conditions and the same return, whatever the conditions  *)
(* evaluate to (all of encode_module, x-module-coder.cpp 10-36), and a phi    *)
(* has a value where control comes from.  Trinaries within arms of trinaries, *)
(* and those with two constants, are left out: there it has none.             *)
MeaningPreserved ==
    status = "done" /\ (\A t \in Trinaries(prog) : Joins(t)) =>
        \A o \in Oracles : CodeTrace(o) = SourceTrace(prog, o)

-------------------------------------------------------------------------------
(* The static rules of the language.  env is the stack of scopes, each a      *)
(* function from names to the type and the kind (var or val) of a definition. *)
(* Three rules may be switched off, because the encoder does not know them:   *)
(*   constants: a val is not assigned (manual, line 44);                      *)
(*   branches:  each arm of an if and the body of a loop is a scope, also     *)
(*              when it is a definition without braces (line 69);             *)
(*   stores:    an assignment goes to a variable of the type of the value     *)
(*              (which the store at src/src/omis/model.cpp:876 relies on).    *)

Rules == {"constants", "branches", "stores"}
Illegal == "illegal"

KnownAs(env, n) ==
    LET K == {k \in DOMAIN env : n \in DOMAIN env[k]}
    IN  IF K = {} THEN [type |-> Illegal, variable |-> FALSE]
        ELSE env[CHOOSE k \in K : \A j \in K : k <= j][n]

\* "other" stands for the types of strings, arrays, objects and functions,
\* which the manual has (lines 25, 35, 149, 160 and 219 to 232).
RECURSIVE TypeOf(_, _)
TypeOf(e, env) ==
    CASE e.kind = "calc" ->
           IF \E i \in DOMAIN e.reads : KnownAs(env, e.reads[i]).type \notin Type
           THEN Illegal ELSE e.type
      [] e.kind = "ref" -> KnownAs(env, e.name).type
      [] e.kind = "trinary" ->
           IF TypeOf(e.cond, env) = "bool" /\ TypeOf(e.yes, env) = TypeOf(e.no, env)
           THEN TypeOf(e.yes, env) ELSE Illegal
      [] e.kind = "unsupported" -> "other"
      [] OTHER -> Illegal

Inside(env) == << <<>> >> \o env

\* The scopes an arm or a loop body is in.
ArmOf(env, rules) == IF "branches" \in rules THEN Inside(env) ELSE env

(* What s defines in the scope it stands in. *)
RECURSIVE After(_, _, _)
After(s, env, rules) ==
    CASE s.kind = "def" ->
           [env EXCEPT ![1] = (s.name :> [type |-> TypeOf(s.value, env),
                                          variable |-> s.variable]) @@ @]
      [] s.kind = "if" /\ "branches" \notin rules ->
           After(s.no, After(s.yes, env, rules), rules)
      [] OTHER -> env

(* An element or a field, an "unsupported" left side, takes any legal value.  *)
Assignable(s, env, rules) ==
    /\ Illegal \notin {TypeOf(s.left, env), TypeOf(s.right, env)}
    /\ "stores" \in rules =>
          \/ s.left.kind = "ref" /\ TypeOf(s.left, env) = TypeOf(s.right, env)
          \/ s.left.kind = "unsupported"
    /\ "constants" \in rules /\ s.left.kind = "ref" => KnownAs(env, s.left.name).variable

(* s may stand here.  The manual's proc, struct, enum and call statements,    *)
(* "refused" here, may stand anywhere.                                        *)
RECURSIVE Legal(_, _, _, _), LegalSeq(_, _, _, _)
LegalSeq(body, env, inLoop, rules) ==
    \/ body = <<>>
    \/ /\ Legal(Head(body), env, inLoop, rules)
       /\ LegalSeq(Tail(body), After(Head(body), env, rules), inLoop, rules)

Legal(s, env, inLoop, rules) ==
    CASE s.kind \in {"none", "refused"} -> TRUE
      [] s.kind = "def" -> /\ s.name \notin DOMAIN env[1]
                           /\ TypeOf(s.value, env) # Illegal
      [] s.kind = "assign" -> Assignable(s, env, rules)
      [] s.kind = "return" -> TypeOf(s.value, env) = "i32"
      [] s.kind \in {"break", "continue"} -> inLoop
      [] s.kind = "block" -> LegalSeq(s.body, Inside(env), inLoop, rules)
      [] s.kind = "if" ->
           LET arm == ArmOf(env, rules)
               other == IF "branches" \in rules THEN arm ELSE After(s.yes, env, rules)
           IN  /\ TypeOf(s.cond, env) = "bool"
               /\ Legal(s.yes, arm, inLoop, rules)
               /\ Legal(s.no, other, inLoop, rules)
      [] s.kind = "loop" ->
           LET round == After(s.init, Inside(env), rules)
               body == ArmOf(round, rules)
               step == IF "branches" \in rules THEN round ELSE After(s.body, round, rules)
           IN  /\ Legal(s.init, Inside(env), inLoop, rules)
               /\ TypeOf(s.cond, round) = "bool"
               /\ Legal(s.body, body, TRUE, rules)
               /\ Legal(s.step, step, TRUE, rules)
      [] OTHER -> FALSE

Follows(p, rules) == LegalSeq(p, << <<>> >>, FALSE, rules)
WellFormed(p) == Follows(p, Rules)

\* Allowed, and its names mean the same when the arms are no scopes.
Plainly(p) == WellFormed(p) /\ Follows(p, Rules \ {"branches"})

\* Nothing in p is of a form the encoder has no code for.
Encodable(p) ==
    \A n \in NodesOf(p) : /\ n.kind \notin {"unsupported", "refused"}
                          /\ n.kind = "def" => ~n.typed

(* encode_module returns true only for programs that follow the rules it     *)
(* knows: a name is defined once in a scope, used after its definition and   *)
(* in that scope, conditions are bool, a return gives an i32, break and      *)
(* continue stand in a loop.  It does not know the three Rules: that a val   *)
(* is never assigned, that an arm without braces is a scope, and that a      *)
(* store fits its variable; programs that break these do end in true.        *)
DoneIsWellFormed == status = "done" => Follows(prog, {})

(* encode_module returns false only for programs that are not allowed, or     *)
(* that the encoder has no code for (annotated definitions, strings, arrays,  *)
(* objects, functions, proc, struct, enum and call statements: see            *)
(* AllowedIsEncoded), or that define a name in an arm without braces and      *)
(* again in its surroundings.                                                 *)
FailedIsIllFormed == status = "failed" /\ Encodable(prog) => ~Plainly(prog)

(* encode_module returns false only for programs the manual does not allow.   *)
AllowedIsEncoded == status = "failed" => ~WellFormed(prog)

(* The compiler survives every program that is allowed and whose names do not *)
(* depend on the scope of an arm without braces.                              *)
CrashedIsIllFormed == status = "crashed" => ~Plainly(prog)

=============================================================================
