----------------------------- MODULE CodegenProps -----------------------------
(***************************************************************************)
(* What the statement encoder must keep true while it emits blocks: the    *)
(* types of its state, the discipline of the break and continue points,    *)
(* and the shape of the control flow graph.                                *)
(***************************************************************************)
EXTENDS Codegen, FiniteSets

Block == 1 .. Len(blocks)

(* The blocks a task will move the insertion point to, once it is run or    *)
(* later: created, not yet entered.                                         *)
PendingOf(t) ==
    CASE t.do \in {"branchCond", "trinaryCond"} -> {t.yes, t.no, t.end}
      [] t.do \in {"branchTrue", "trinaryTrue"} -> {t.no, t.end}
      [] t.do \in {"branchFalse", "trinaryFalse"} -> {t.end}
      [] t.do = "loopCond" -> {t.cond, t.step, t.body, t.end}
      [] t.do = "loopBody" -> {t.step, t.body, t.end}
      [] t.do = "loopStep" -> {t.step, t.end}
      [] t.do = "endLoop" -> {t.end}
      [] OTHER -> {}

(* The blocks a task entered earlier and will still look at or jump to.     *)
EnteredOf(t) ==
    CASE t.do = "branchTrue" -> {t.yes}
      [] t.do = "branchFalse" -> {t.no}
      [] t.do = "trinaryTrue" -> {t.yes}
      [] t.do = "trinaryFalse" -> {t.yes, t.no}
      [] t.do = "loopBody" -> {t.cond}
      [] t.do = "loopStep" -> {t.cond, t.body}
      [] t.do = "endLoop" -> {t.cond}
      [] OTHER -> {}

PendingIn(tasks) == UNION {PendingOf(tasks[i]) : i \in DOMAIN tasks}
Pending == PendingIn(todo)

\* The continuations of expr_branch and stmt_branch, and of stmt_loop.
BranchSteps == {"trinaryCond", "trinaryTrue", "trinaryFalse",
                "branchCond", "branchTrue", "branchFalse"}
LoopSteps == {"loopCond", "loopBody", "loopStep", "endLoop"}

(* The blocks one branch or loop created are different ones.                 *)
OwnApart(t) ==
    /\ t.do \in BranchSteps => t.yes # t.no /\ t.yes # t.end /\ t.no # t.end
    /\ t.do \in LoopSteps => /\ t.cond # t.step /\ t.cond # t.body /\ t.cond # t.end
                             /\ t.step # t.body /\ t.step # t.end /\ t.body # t.end

(* No block is awaited by two tasks, nor awaited by one and left by another.  *)
Apart(tasks) ==
    /\ \A i \in DOMAIN tasks : OwnApart(tasks[i])
    /\ \A i, j \in DOMAIN tasks :
          /\ i # j => PendingOf(tasks[i]) \intersect PendingOf(tasks[j]) = {}
          /\ EnteredOf(tasks[i]) \intersect PendingOf(tasks[j]) = {}

(* The blocks an instruction may continue in.                               *)
Targets(i) == CASE i.op = "br" -> {i.to}
                [] i.op = "condbr" -> {i.yes, i.no}
                [] OTHER -> {}

-------------------------------------------------------------------------------
Instruction ==
    [op : {"alloca", "ret", "illstore"}]
      \union [op : {"load", "store"}, cell : Cell]
      \union [op : {"br"}, to : Nat]
      \union [op : {"condbr", "phi"}, yes : Nat, no : Nat]

Point == Nat \union {NoBlock, Garbage}

Task ==
    [do : {"stmt"}, node : Statement]
      \union [do : {"expr", "assignRight"}, node : Expression]
      \union [do : {"define"}, name : Name]
      \union [do : {"assignStore"}, left : Value \union {NoValue}]
      \union [do : {"emitReturn", "endBlock"}]
      \union [do : {"trinaryCond", "trinaryTrue"}, node : Expression,
             yes : Nat, no : Nat, end : Nat]
      \union [do : {"trinaryFalse"}, node : Expression, yes : Nat, no : Nat, end : Nat, type : Type]
      \union [do : {"branchCond", "branchTrue", "branchFalse"}, node : Statement,
             yes : Nat, no : Nat, end : Nat]
      \union [do : LoopSteps, node : Statement,
             cond : Nat, step : Nat, body : Nat, end : Nat, oldContinue : Point, oldBreak : Point]

\* The node whose encoding a task continues is of the task's kind.
OfKind(t) ==
    /\ t.do \in {"trinaryCond", "trinaryTrue", "trinaryFalse"} => t.node.kind = "trinary"
    /\ t.do \in {"branchCond", "branchTrue", "branchFalse"} => t.node.kind = "if"
    /\ t.do \in LoopSteps => t.node.kind = "loop"

(* Every piece of the encoder's state has its type, and the insertion point   *)
(* is a block of the function.                                                *)
TypeOK ==
    /\ status \in {"run", "done", "failed", "crashed"}
    /\ todo \in Seq(Task) /\ \A i \in DOMAIN todo : OfKind(todo[i])
    /\ val \in Value \union {NoValue}
    /\ scope \in Seq([Name -> Symbol \union {NoSymbol}]) /\ scope # <<>>
    /\ blocks \in Seq(Seq(Instruction))
    /\ activeBlock \in Block
    /\ breakPoint \in Point
    /\ continuePoint \in Point

(* The loops being encoded, innermost first, as positions of todo.            *)
OpenLoops == {i \in DOMAIN todo : todo[i].do \in LoopSteps}

(* No dangling block: whatever a task, a break or continue point or an emitted *)
(* jump names was created in this function (create_block, jump and jump_cond   *)
(* of model.cpp), or is a point that was never set.                            *)
KnownPoints == Block \union Uninit
NoDangling ==
    /\ {breakPoint, continuePoint} \subseteq KnownPoints
    /\ \A i \in OpenLoops : {todo[i].oldBreak, todo[i].oldContinue} \subseteq KnownPoints
    /\ \A i \in DOMAIN todo : PendingOf(todo[i]) \union EnteredOf(todo[i]) \subseteq Block
    /\ \A b \in Block : \A i \in DOMAIN blocks[b] : Targets(blocks[b][i]) \subseteq Block

(* break and continue always lead to the loop.end and loop.step blocks of the *)
(* innermost loop being encoded, and once a loop is finished the points of    *)
(* the loop around it are back (stmt_loop's old_break_point and               *)
(* old_continue_point); outside any loop they are what they were at first.    *)
LoopPoints ==
    /\ OpenLoops = {} => {breakPoint, continuePoint} \subseteq Uninit
    /\ \A i \in OpenLoops :
          /\ (\A j \in OpenLoops : i <= j) =>
                breakPoint = todo[i].end /\ continuePoint = todo[i].step
          /\ (\A j \in OpenLoops : j <= i) =>
                {todo[i].oldBreak, todo[i].oldContinue} \subseteq Uninit
          /\ \A k \in OpenLoops :
                i < k /\ (\A j \in OpenLoops : j <= i \/ k <= j) =>
                    todo[i].oldBreak = todo[k].end /\ todo[i].oldContinue = todo[k].step

(* An expression came back null and its statement has not failed yet: only    *)
(* stmt_assign encodes anything more (its right side) before it looks.        *)
Consumers == {"define", "assignRight", "assignStore", "emitReturn", "branchCond", "loopBody",
              "trinaryCond", "trinaryTrue", "trinaryFalse"}
Doomed ==
    \/ \E i \in DOMAIN todo : todo[i].do = "assignStore" /\ todo[i].left = NoValue
    \/ todo # <<>> /\ Head(todo).do \in Consumers /\ val = NoValue

(* The graph under construction: a block not yet entered is empty, belongs to *)
(* one pending task, and is not the insertion point; every other block but    *)
(* the insertion point already ends in a terminator.  It is what makes the    *)
(* two guarded jumps at the end of a branch or a loop body (model.cpp         *)
(* 941-947, 955-961, 1011-1017) put exactly the jump that is missing.         *)
Sealed ==
    /\ activeBlock \notin Pending
    /\ \A b \in Pending : blocks[b] = <<>>
    /\ \A b \in Block \ (Pending \union {activeBlock}) : Terminated(blocks[b])
    /\ Apart(todo)
GraphSealed == status \in {"run", "done"} /\ ~Doomed => Sealed

(* The function handed to the JIT has no block that falls through: when       *)
(* encode_module returns true, every block ends in a terminator.              *)
AllTerminated == status = "done" => \A b \in Block : Terminated(blocks[b])

(* A scope is left exactly as often as it was entered: one open scope per     *)
(* block statement or loop still being encoded, next to those of root and of  *)
(* $main; only root is left when encode_module returns true.                  *)
ScopeTasks == {i \in DOMAIN todo : todo[i].do \in LoopSteps \union {"endBlock"}}
ScopesBalanced ==
    /\ status = "run" => Len(scope) = Cardinality(ScopeTasks) + 2
    /\ status = "done" => Len(scope) = 1

(* Programs without dead code: live are their statements, and ends are those  *)
(* after which their block is over, that is jumps and blocks that end in one. *)
(* What follows such a statement in its block would be dead, and so would the *)
(* condition or the jump back of a loop whose init or step is one.            *)
Straight(body, live, ends) ==
    \A i \in DOMAIN body : body[i] \in live /\ (i < Len(body) => body[i] \notin ends)
NoDeadCode(programs, live, ends) ==
    /\ \A p \in programs : Straight(p, live, ends)
    /\ \A s \in live :
          /\ s.kind \in {"return", "break", "continue"} => s \in ends
          /\ s.kind = "block" => /\ Straight(s.body, live, ends)
                                 /\ s.body # <<>> /\ s.body[Len(s.body)] \in ends => s \in ends
          /\ s.kind = "if" => {s.yes, s.no} \subseteq live
          /\ s.kind = "loop" => /\ {s.init, s.step, s.body} \subseteq live
                                /\ s.init \notin ends /\ s.step \notin ends

(* A block is never written again once it ends in a terminator, so it has     *)
(* one terminator, at its end.  The encoder does not see dead code: this is   *)
(* for programs in which break, continue and return end their block.          *)
SealedIsFinal ==
    [][\A b \in Block : Terminated(blocks[b]) => blocks'[b] = blocks[b]]_vars

(* break and continue are refused where no loop is open: the null checks of   *)
(* stmt_break and stmt_continue (model.cpp 1039, 1046) keep the encoder from   *)
(* following a pointer to no block.                                           *)
JumpsAreChecked ==
    [][EncodeBreak \/ EncodeContinue => status' # "crashed"]_vars

(* The encoder comes to an end on every program.                              *)
Termination == <>(status # "run")

=============================================================================
