------------------------------- MODULE Codegen -------------------------------
(***************************************************************************)
(* The statement encoder of the compiler: omis_module_coder_t walks the    *)
(* syntax tree and calls the stmt_* / expr_branch operations of            *)
(* omis_module_t, which emit instructions into basic blocks through the    *)
(* bridge (src/src/omis/x-module-coder.cpp, model.cpp, llvm/llvm.cxx).     *)
(*                                                                         *)
(* The C++ code is a recursive descent with lambdas; here the pending      *)
(* calls are an explicit stack of tasks, todo, whose head is the next      *)
(* piece of code to run.  One action is the code between two recursive     *)
(* calls: everything a handler does before it enters a lambda, or after    *)
(* the lambda returned.  Every "return false" or "return nullptr" of a     *)
(* statement is propagated by all its callers up to encode_module without  *)
(* any clean-up, so a failure is one step to status "failed".              *)
(***************************************************************************)
EXTENDS Naturals, Sequences

CONSTANTS Name,       \* names a program may declare
          Expression, \* the expression nodes of the syntax trees
          Statement,  \* the statement nodes of the syntax trees
          Program,    \* the programs the parser may hand over: sequences of statements
          Uninit,     \* what the never initialised break_point / continue_point may hold
          NoSymbol,   \* a name without a symbol in a scope
          NoValue,    \* the null omis_value_t* of a failed expression
          NoCell,     \* the storage of a value that is not a variable
          NoBlock,    \* a null block pointer
          Garbage     \* a pointer that points to no block

Type == {"i32", "bool"}
Cell == (Nat \ {0}) \X (Nat \ {0})   \* an alloca, named by its block and position
Symbol == [type : Type, cell : Cell]
Value == [type : Type, cell : Cell \union {NoCell}]

(* What the parser builds: the nodes reachable from a statement or an        *)
(* expression are statements and expressions too.                           *)
ASSUME SyntaxAssumption ==
    /\ Program \subseteq Seq(Statement)
    /\ \A e \in Expression :
          /\ e.kind = "calc" => e.reads \in Seq(Name) /\ e.type \in Type
          /\ e.kind = "ref" => e.name \in Name
          /\ e.kind = "trinary" => {e.cond, e.yes, e.no} \subseteq Expression
    /\ \A s \in Statement :
          /\ s.kind = "def" => s.name \in Name /\ s.value \in Expression
          /\ s.kind = "assign" => {s.left, s.right} \subseteq Expression
          /\ s.kind = "return" => s.value \in Expression
          /\ s.kind = "block" => s.body \in Seq(Statement)
          /\ s.kind = "if" => s.cond \in Expression /\ {s.yes, s.no} \subseteq Statement
          /\ s.kind = "loop" => /\ s.cond \in Expression
                               /\ {s.init, s.step, s.body} \subseteq Statement
ASSUME PointerAssumption ==
    /\ Uninit \subseteq {NoBlock, Garbage}
    /\ Uninit # {}
    /\ {NoBlock, Garbage} \intersect Nat = {}
    /\ NoBlock # Garbage
ASSUME NullAssumption ==
    /\ NoCell \notin Cell
    /\ NoSymbol \notin Value
    /\ NoValue \notin Value

VARIABLES
    prog,           \* the module's statements
    status,         \* "run", then "done" (true), "failed" (false) or "crashed"
    todo,           \* the calls in progress, innermost first
    val,            \* what the last encode_expr returned
    scope,          \* omis_module_t::scope as the chain up to root, innermost first
    blocks,         \* the function's basic blocks: sequences of instructions
    activeBlock,    \* the insertion point of the bridge's IR builder
    breakPoint, continuePoint

points == <<breakPoint, continuePoint>>
emission == <<blocks, activeBlock>>
vars == <<prog, status, todo, val, scope, blocks, activeBlock, breakPoint, continuePoint>>

------------------------------------------------------------------------------
(* Instructions.  Pure operations on registers are left out: no property    *)
(* depends on them, and the builder folds constants anyway.                 *)

Alloca == [op |-> "alloca"]
Load(c) == [op |-> "load", cell |-> c]
Store(c) == [op |-> "store", cell |-> c]
IllStore == [op |-> "illstore"]   \* of a value of another type than the cell's, or into no cell
Br(b) == [op |-> "br", to |-> b]
CondBr(t, f) == [op |-> "condbr", yes |-> t, no |-> f]
Ret == [op |-> "ret"]
Phi(t, f) == [op |-> "phi", yes |-> t, no |-> f]

IsTerminator(i) == i.op \in {"br", "condbr", "ret"}

\* The tail of a block exists and is a terminator.
Terminated(block) == block # <<>> /\ IsTerminator(block[Len(block)])

\* The blocks bl after the builder, standing in block b, emitted ins.
Emitted(bl, b, ins) == [bl EXCEPT ![b] = @ \o ins]

\* k calls of create_block: empty blocks at the end of the function.
Created(bl, k) == bl \o [i \in 1 .. k |-> <<>>]

\* What get_ptr_val emits for a value: variables are loaded, others are not.
Loads(v) == IF v.cell = NoCell THEN <<>> ELSE <<Load(v.cell)>>

\* What store emits for a value and the left side it goes into.
StoreOf(v, left) ==
    IF left.cell # NoCell /\ left.type = v.type THEN Store(left.cell) ELSE IllStore

\* Faulty: only the block the branch began in is looked at.
JoinedFirstOnly(bl, b, target) ==
    IF Terminated(bl[b]) THEN bl ELSE Emitted(bl, activeBlock, <<Br(target)>>)

\* Faulty: the jump is added whatever the branch ended with.
JoinedAlways(bl, b, target) == Emitted(bl, activeBlock, <<Br(target)>>)

\* After the statement of a branch or a loop body that began in block b:
\* the two guarded jumps of stmt_branch and stmt_loop.  The second guard
\* hands a null tail to is_terminator_ins, which then asks the active block.
Joined(bl, b, target) ==
    LET jump == <<Br(target)>>
        bl1 == IF activeBlock # b /\ ~Terminated(bl[activeBlock])
               THEN Emitted(bl, activeBlock, jump) ELSE bl
        probe == IF bl1[b] = <<>> THEN activeBlock ELSE b
    IN  IF Terminated(bl1[probe]) THEN bl1 ELSE Emitted(bl1, activeBlock, jump)

------------------------------------------------------------------------------
(* Scopes. *)

EmptyScope == [n \in Name |-> NoSymbol]

PushScope == scope' = <<EmptyScope>> \o scope
\* Faulty: the root test is off by one.
PoppedAboveTwo == IF Len(scope) <= 2 THEN scope ELSE Tail(scope)
PoppedScope == IF Len(scope) = 1 THEN scope ELSE Tail(scope)

\* The scopes of the chain that define n.
Defining(n) == {i \in 1 .. Len(scope) : scope[i][n] # NoSymbol}

\* Faulty: the chain is searched from root.
LookupOutermost(n) ==
    IF Defining(n) = {} THEN NoSymbol
    ELSE scope[CHOOSE i \in Defining(n) : \A j \in Defining(n) : j <= i][n]

\* get_value_symbol(n, true): the innermost definition on the chain.
Lookup(n) ==
    IF Defining(n) = {} THEN NoSymbol
    ELSE scope[CHOOSE i \in Defining(n) : \A j \in Defining(n) : i <= j][n]

------------------------------------------------------------------------------
(* Tasks. *)

Stmt(s) == [do |-> "stmt", node |-> s]
Expr(e) == [do |-> "expr", node |-> e]

Is(tag) == status = "run" /\ todo # <<>> /\ Head(todo).do = tag
IsStmt(kind) == Is("stmt") /\ Head(todo).node.kind = kind
IsExpr(kind) == Is("expr") /\ Head(todo).node.kind = kind
Node == Head(todo).node

\* The running task is replaced by the tasks next.
Then(next) == todo' = next \o Tail(todo)

\* A handler returned false: every caller does too.
Fail == /\ status' = "failed"
        /\ UNCHANGED <<prog, todo, val, points, scope, emission>>

\* The compiler itself dies on undefined behaviour.
Crash == /\ status' = "crashed"
         /\ UNCHANGED <<prog, todo, val, points, scope, emission>>

------------------------------------------------------------------------------
(* Expressions. *)

Return(v) == val' = v /\ Then(<<>>)

\* A literal, or operators over variables: the operands are looked up, loaded
\* and combined.  An undefined operand makes the whole expression null.
EncodeCalc ==
    /\ IsExpr("calc")
    /\ LET syms == [i \in DOMAIN Node.reads |-> Lookup(Node.reads[i])]
       IN  IF \E i \in DOMAIN syms : syms[i] = NoSymbol
           THEN Return(NoValue) /\ UNCHANGED blocks
           ELSE /\ Return([type |-> Node.type, cell |-> NoCell])
                /\ blocks' = Emitted(blocks, activeBlock,
                                 [i \in DOMAIN syms |-> Load(syms[i].cell)])
    /\ UNCHANGED <<prog, status, points, scope, activeBlock>>

\* A symbol reference is its variable: nothing is emitted yet.
EncodeSymbolRef ==
    /\ IsExpr("ref")
    /\ LET s == Lookup(Node.name)
       IN  Return(IF s = NoSymbol THEN NoValue ELSE s)
    /\ UNCHANGED <<prog, status, points, scope, emission>>

\* The expressions the encoder does not support (strings, arrays, objects,
\* functions with parameter or result types) are null.
EncodeUnsupported ==
    /\ IsExpr("unsupported")
    /\ Return(NoValue)
    /\ UNCHANGED <<prog, status, points, scope, emission>>

\* expr_branch up to its lambda_cond.
EncodeTrinary ==
    /\ IsExpr("trinary")
    /\ LET n == Len(blocks)
       IN  /\ blocks' = Emitted(Created(blocks, 4), activeBlock, <<Br(n + 1)>>)
           /\ activeBlock' = n + 1
           /\ Then(<<Expr(Node.cond),
                     [do |-> "trinaryCond", node |-> Node,
                      yes |-> n + 2, no |-> n + 3, end |-> n + 4]>>)
    /\ UNCHANGED <<prog, status, val, points, scope>>

TrinaryCond ==
    /\ Is("trinaryCond")
    /\ IF val = NoValue
       THEN Return(NoValue) /\ UNCHANGED emission
       ELSE LET t == Head(todo)
                bl == Emitted(blocks, activeBlock, Loads(val))
            IN  IF val.type # "bool"
                THEN Return(NoValue) /\ blocks' = bl /\ UNCHANGED activeBlock
                ELSE /\ blocks' = Emitted(bl, activeBlock, <<CondBr(t.yes, t.no)>>)
                     /\ activeBlock' = t.yes
                     /\ Then(<<Expr(t.node.yes), [t EXCEPT !.do = "trinaryTrue"]>>)
                     /\ UNCHANGED val
    /\ UNCHANGED <<prog, status, points, scope>>

TrinaryTrue ==
    /\ Is("trinaryTrue")
    /\ LET t == Head(todo)
       IN  IF val = NoValue
           THEN Return(NoValue) /\ UNCHANGED emission
           ELSE /\ blocks' = Emitted(blocks, activeBlock, Loads(val) \o <<Br(t.end)>>)
                /\ activeBlock' = t.no
                /\ Then(<<Expr(t.node.no),
                          [do |-> "trinaryFalse", node |-> t.node, yes |-> t.yes,
                           no |-> t.no, end |-> t.end, type |-> val.type]>>)
                /\ UNCHANGED val
    /\ UNCHANGED <<prog, status, points, scope>>

\* A literal, or operators over literals only, which the IR builder folds.
IsConstant(e) == e.kind = "calc" /\ e.reads = <<>>

\* Faulty: both entries name the block the true arm began in.
IncomingsFirst(t) == {Phi(t.yes, t.yes)}

\* The incoming blocks of the phi: those the arms began in, as the values of a
\* map whose keys are the incoming values.  Constants are unique in LLVM, so
\* that two arms with the same one have a single entry, that of the first.
Incomings(t) ==
    {Phi(t.yes, t.no)}
      \union IF IsConstant(t.node.yes) /\ IsConstant(t.node.no) THEN {Phi(t.yes, t.yes)} ELSE {}

\* The bridge's phi has no return statement, so what the encoder goes on with
\* is either a usable value or anything else, which kills it.
TrinaryFalse ==
    /\ Is("trinaryFalse")
    /\ LET t == Head(todo)
           bl == Emitted(blocks, activeBlock, Loads(val) \o <<Br(t.end)>>)
       IN  \/ /\ val = NoValue
              /\ Return(NoValue)
              /\ UNCHANGED <<prog, status, points, scope, emission>>
           \/ /\ val # NoValue
              /\ val.type # t.type
              /\ Return(NoValue)
              /\ blocks' = bl
              /\ activeBlock' = t.end
              /\ UNCHANGED <<prog, status, points, scope>>
           \/ /\ val # NoValue
              /\ val.type = t.type
              /\ Return([type |-> t.type, cell |-> NoCell])
              /\ \E phi \in Incomings(t) : blocks' = Emitted(bl, t.end, <<phi>>)
              /\ activeBlock' = t.end
              /\ UNCHANGED <<prog, status, points, scope>>
           \/ /\ val # NoValue
              /\ val.type = t.type
              /\ Crash

------------------------------------------------------------------------------
(* Simple statements. *)

\* Faulty: an absent branch stays the next thing to encode.
EncodeNothingAgain ==
    /\ IsStmt("none")
    /\ UNCHANGED vars

\* An absent else branch, and the other statement nodes encode_stmt refuses.
EncodeNothing ==
    /\ IsStmt("none")
    /\ Then(<<>>)
    /\ UNCHANGED <<prog, status, val, points, scope, emission>>

EncodeRefused == IsStmt("refused") /\ Fail

\* Faulty: a name may be defined twice in a scope.
EncodeSymbolDefTwice ==
    /\ IsStmt("def")
    /\ IF Node.typed
       THEN Fail
       ELSE /\ Then(<<Expr(Node.value), [do |-> "define", name |-> Node.name]>>)
            /\ UNCHANGED <<prog, status, val, points, scope, emission>>

\* Faulty: an outer definition counts as a redefinition.
EncodeSymbolDefNoShadow ==
    /\ IsStmt("def")
    /\ IF Lookup(Node.name) # NoSymbol \/ Node.typed
       THEN Fail
       ELSE /\ Then(<<Expr(Node.value), [do |-> "define", name |-> Node.name]>>)
            /\ UNCHANGED <<prog, status, val, points, scope, emission>>

\* stmt_symbol_def: a redefinition in the same scope is refused, and so is
\* a type annotation, because no type symbol is ever registered.
EncodeSymbolDef ==
    /\ IsStmt("def")
    /\ IF scope[1][Node.name] # NoSymbol \/ Node.typed
       THEN Fail
       ELSE /\ Then(<<Expr(Node.value), [do |-> "define", name |-> Node.name]>>)
            /\ UNCHANGED <<prog, status, val, points, scope, emission>>

DefineSymbol ==
    /\ Is("define")
    /\ IF val = NoValue
       THEN Fail
       ELSE LET bl == Emitted(blocks, activeBlock, Loads(val) \o <<Alloca>>)
                cell == <<activeBlock, Len(bl[activeBlock])>>
            IN  /\ blocks' = Emitted(bl, activeBlock, <<Store(cell)>>)
                /\ scope' = [scope EXCEPT ![1][Head(todo).name] =
                                 [type |-> val.type, cell |-> cell]]
                /\ Then(<<>>)
                /\ UNCHANGED <<prog, status, val, points, activeBlock>>

EncodeAssign ==
    /\ IsStmt("assign")
    /\ Then(<<Expr(Node.left), [do |-> "assignRight", node |-> Node.right]>>)
    /\ UNCHANGED <<prog, status, val, points, scope, emission>>

\* The right side is encoded even when the left one failed.
AssignRight ==
    /\ Is("assignRight")
    /\ Then(<<Expr(Node), [do |-> "assignStore", left |-> val]>>)
    /\ UNCHANGED <<prog, status, val, points, scope, emission>>

\* No types are compared, and the left side may be no variable: LLVM gets a
\* store that does not fit, which it may assert against or build as it is.
AssignStore ==
    /\ Is("assignStore")
    /\ LET left == Head(todo).left
           store == StoreOf(val, left)
       IN  IF left = NoValue \/ val = NoValue THEN Fail
           ELSE \/ store = IllStore /\ Crash
                \/ /\ blocks' = Emitted(blocks, activeBlock, Loads(val) \o <<store>>)
                   /\ Then(<<>>)
                   /\ UNCHANGED <<prog, status, val, points, scope, activeBlock>>

\* $main returns i32: a return without a value is refused.
EncodeReturn ==
    /\ IsStmt("return")
    /\ IF Node.value.kind = "absent"
       THEN Fail
       ELSE /\ Then(<<Expr(Node.value), [do |-> "emitReturn"]>>)
            /\ UNCHANGED <<prog, status, val, points, scope, emission>>

EmitReturn ==
    /\ Is("emitReturn")
    /\ IF val = NoValue THEN Fail
       ELSE IF val.type # "i32" THEN Fail
       ELSE /\ blocks' = Emitted(blocks, activeBlock, Loads(val) \o <<Ret>>)
            /\ Then(<<>>)
            /\ UNCHANGED <<prog, status, val, points, scope, activeBlock>>

\* stmt_break / stmt_continue: a jump to the point, wherever it points.
JumpTo(point) ==
    IF point = NoBlock THEN Fail
    ELSE IF point = Garbage THEN Crash
    ELSE /\ blocks' = Emitted(blocks, activeBlock, <<Br(point)>>)
         /\ Then(<<>>)
         /\ UNCHANGED <<prog, status, val, points, scope, activeBlock>>

EncodeBreak == IsStmt("break") /\ JumpTo(breakPoint)
EncodeContinue == IsStmt("continue") /\ JumpTo(continuePoint)

------------------------------------------------------------------------------
(* Compound statements. *)

EncodeBlock ==
    /\ IsStmt("block")
    /\ PushScope
    /\ Then([i \in DOMAIN Node.body |-> Stmt(Node.body[i])] \o <<[do |-> "endBlock"]>>)
    /\ UNCHANGED <<prog, status, val, points, emission>>

EndBlock ==
    /\ Is("endBlock")
    /\ scope' = PoppedScope
    /\ Then(<<>>)
    /\ UNCHANGED <<prog, status, val, points, emission>>

\* Faulty: branch.end is not created.
EncodeIfTwoBlocks ==
    /\ IsStmt("if")
    /\ LET n == Len(blocks)
       IN  /\ blocks' = Created(blocks, 2)
           /\ Then(<<Expr(Node.cond),
                     [do |-> "branchCond", node |-> Node,
                      yes |-> n + 1, no |-> n + 2, end |-> n + 3]>>)
    /\ UNCHANGED <<prog, status, val, points, scope, activeBlock>>

\* stmt_branch up to its lambda_cond.
EncodeIf ==
    /\ IsStmt("if")
    /\ LET n == Len(blocks)
       IN  /\ blocks' = Created(blocks, 3)
           /\ Then(<<Expr(Node.cond),
                     [do |-> "branchCond", node |-> Node,
                      yes |-> n + 1, no |-> n + 2, end |-> n + 3]>>)
    /\ UNCHANGED <<prog, status, val, points, scope, activeBlock>>

BranchCond ==
    /\ Is("branchCond")
    /\ IF val = NoValue THEN Fail
       ELSE IF val.type # "bool" THEN Fail
       ELSE LET t == Head(todo)
            IN  /\ blocks' = Emitted(blocks, activeBlock,
                                     Loads(val) \o <<CondBr(t.yes, t.no)>>)
                /\ activeBlock' = t.yes
                /\ Then(<<Stmt(t.node.yes), [t EXCEPT !.do = "branchTrue"]>>)
                /\ UNCHANGED <<prog, status, val, points, scope>>

BranchTrue ==
    /\ Is("branchTrue")
    /\ LET t == Head(todo)
       IN  /\ blocks' = Joined(blocks, t.yes, t.end)
           /\ activeBlock' = t.no
           /\ Then(<<Stmt(t.node.no), [t EXCEPT !.do = "branchFalse"]>>)
    /\ UNCHANGED <<prog, status, val, points, scope>>

BranchFalse ==
    /\ Is("branchFalse")
    /\ LET t == Head(todo)
       IN  /\ blocks' = Joined(blocks, t.no, t.end)
           /\ activeBlock' = t.end
           /\ Then(<<>>)
    /\ UNCHANGED <<prog, status, val, points, scope>>

\* Faulty: the break point is not set.
EncodeLoopKeepsBreak ==
    /\ IsStmt("loop")
    /\ PushScope
    /\ LET n == Len(blocks)
       IN  /\ blocks' = Created(blocks, 4)
           /\ continuePoint' = n + 2
           /\ Then(<<Stmt(Node.init),
                     [do |-> "loopCond", node |-> Node, cond |-> n + 1,
                      step |-> n + 2, body |-> n + 3, end |-> n + 4,
                      oldContinue |-> continuePoint, oldBreak |-> breakPoint]>>)
    /\ UNCHANGED <<prog, status, val, activeBlock, breakPoint>>

\* stmt_loop up to its lambda_init: the blocks, the two points, a scope.
EncodeLoop ==
    /\ IsStmt("loop")
    /\ PushScope
    /\ LET n == Len(blocks)
       IN  /\ blocks' = Created(blocks, 4)
           /\ continuePoint' = n + 2
           /\ breakPoint' = n + 4
           /\ Then(<<Stmt(Node.init),
                     [do |-> "loopCond", node |-> Node, cond |-> n + 1,
                      step |-> n + 2, body |-> n + 3, end |-> n + 4,
                      oldContinue |-> continuePoint, oldBreak |-> breakPoint]>>)
    /\ UNCHANGED <<prog, status, val, activeBlock>>

LoopCond ==
    /\ Is("loopCond")
    /\ LET t == Head(todo)
       IN  /\ blocks' = Emitted(blocks, activeBlock, <<Br(t.cond)>>)
           /\ activeBlock' = t.cond
           /\ Then(<<Expr(t.node.cond), [t EXCEPT !.do = "loopBody"]>>)
    /\ UNCHANGED <<prog, status, val, points, scope>>

LoopBody ==
    /\ Is("loopBody")
    /\ IF val = NoValue THEN Fail
       ELSE IF val.type # "bool" THEN Fail
       ELSE LET t == Head(todo)
            IN  /\ blocks' = Emitted(blocks, activeBlock,
                                     Loads(val) \o <<CondBr(t.body, t.end)>>)
                /\ activeBlock' = t.body
                /\ Then(<<Stmt(t.node.body), [t EXCEPT !.do = "loopStep"]>>)
                /\ UNCHANGED <<prog, status, val, points, scope>>

LoopStep ==
    /\ Is("loopStep")
    /\ LET t == Head(todo)
       IN  /\ blocks' = Joined(blocks, t.body, t.step)
           /\ activeBlock' = t.step
           /\ Then(<<Stmt(t.node.step), [t EXCEPT !.do = "endLoop"]>>)
    /\ UNCHANGED <<prog, status, val, points, scope>>

\* Faulty: the points of the finished loop stay.
KeepPoints == UNCHANGED <<continuePoint, breakPoint>>

RestorePoints ==
    /\ continuePoint' = Head(todo).oldContinue
    /\ breakPoint' = Head(todo).oldBreak

EndLoop ==
    /\ Is("endLoop")
    /\ LET t == Head(todo)
       IN  /\ blocks' = Emitted(blocks, activeBlock, <<Br(t.cond)>>)
           /\ activeBlock' = t.end
    /\ RestorePoints
    /\ scope' = PoppedScope
    /\ Then(<<>>)
    /\ UNCHANGED <<prog, status, val>>

------------------------------------------------------------------------------
(* The module: encode_module. *)

\* The scopes of root and of $main, the entry block, the statements to encode.
Init ==
    /\ prog \in Program
    /\ status = "run"
    /\ todo = [i \in DOMAIN prog |-> Stmt(prog[i])]
    /\ val = NoValue
    /\ scope = <<EmptyScope, EmptyScope>>
    /\ blocks = << <<>> >>
    /\ activeBlock = 1
    /\ breakPoint \in Uninit
    /\ continuePoint \in Uninit

\* Faulty: the return at the end of $main is left out.
FinishModuleNoRet ==
    /\ status = "run"
    /\ todo = <<>>
    /\ IF blocks[activeBlock] = <<>>
       THEN Crash
       ELSE /\ scope' = PoppedScope
            /\ status' = "done"
            /\ UNCHANGED <<prog, todo, val, points, emission>>

\* stmt_ensure_tail_ret and the last pop_scope.  The bridge dereferences the
\* tail it is asked about: an empty active block has none.
FinishModule ==
    /\ status = "run"
    /\ todo = <<>>
    /\ IF blocks[activeBlock] = <<>>
       THEN Crash
       ELSE /\ blocks' = IF Terminated(blocks[activeBlock]) THEN blocks
                         ELSE Emitted(blocks, activeBlock, <<Ret>>)
            /\ scope' = PoppedScope
            /\ status' = "done"
            /\ UNCHANGED <<prog, todo, val, points, activeBlock>>

Terminating == status # "run" /\ UNCHANGED vars

EncodeExpr ==
    \/ EncodeCalc \/ EncodeSymbolRef \/ EncodeUnsupported
    \/ EncodeTrinary \/ TrinaryCond \/ TrinaryTrue \/ TrinaryFalse

EncodeStmt ==
    \/ EncodeNothing \/ EncodeRefused
    \/ EncodeSymbolDef \/ DefineSymbol
    \/ EncodeAssign \/ AssignRight \/ AssignStore
    \/ EncodeReturn \/ EmitReturn
    \/ EncodeBreak \/ EncodeContinue
    \/ EncodeBlock \/ EndBlock
    \/ EncodeIf \/ BranchCond \/ BranchTrue \/ BranchFalse
    \/ EncodeLoop \/ LoopCond \/ LoopBody \/ LoopStep \/ EndLoop

Next == EncodeExpr \/ EncodeStmt \/ FinishModule \/ Terminating

\* One thread runs the encoder to the end.
Spec == Init /\ [][Next]_vars /\ WF_vars(EncodeExpr \/ EncodeStmt \/ FinishModule)

=============================================================================
