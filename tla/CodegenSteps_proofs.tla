-------------------------- MODULE CodegenSteps_proofs --------------------------
(***************************************************************************)
(* Theorems about the statement encoder that count or compare what one     *)
(* step does: scopes are left as often as they are entered, and a block    *)
(* that ends in a terminator is never written again.                       *)
(***************************************************************************)
EXTENDS CodegenGraph_proofs, FiniteSetTheorems, FunctionTheorems

-------------------------------------------------------------------------------
(* Counting the tasks that have a scope open.                                *)

ScopeSteps == LoopSteps \union {"endBlock"}
OpenScopesOf(tasks) == {i \in DOMAIN tasks : tasks[i].do \in ScopeSteps}

(* As many elements when all of them move by d.                              *)
LEMMA SameNumberShifted ==
    ASSUME NEW A \in SUBSET Int, IsFiniteSet(A), NEW d \in Int, NEW B \in SUBSET Int,
           \A i \in A : i + d \in B, \A i \in B : i - d \in A
    PROVE  IsFiniteSet(B) /\ Cardinality(B) = Cardinality(A)
  <1> DEFINE f == [i \in A |-> i + d]
  <1>1. f \in [A -> B]
    OBVIOUS
  <1>2. f \in Injection(A, B)
    <2>1. \A i, j \in A : f[i] = f[j] => i = j
      OBVIOUS
    <2>2. QED  BY <1>1, <2>1, Zenon DEF Injection, IsInjective
  <1>3. f \in Surjection(A, B)
    <2>1. \A i \in B : i - d \in A /\ f[i - d] = i
      OBVIOUS
    <2>2. \A i \in B : \E j \in A : f[j] = i
      BY <2>1
    <2>3. QED  BY <1>1, <2>2, Zenon DEF Surjection
  <1>4. ExistsBijection(A, B)
    BY <1>2, <1>3, Zenon DEF ExistsBijection, Bijection
  <1>5. QED  BY <1>4, FS_Bijection, Zenon

LEMMA PositionsAreFinite ==
    ASSUME NEW S, NEW s \in Seq(S), NEW A \in SUBSET DOMAIN s
    PROVE  IsFiniteSet(A) /\ A \subseteq Int /\ Cardinality(A) \in Nat
  <1>1. Len(s) \in Int /\ DOMAIN s = 1 .. Len(s)
    OBVIOUS
  <1>2. IsFiniteSet(1 .. Len(s))
    BY <1>1, FS_Interval
  <1>3. A \in SUBSET (1 .. Len(s))
    BY <1>1
  <1>4. IsFiniteSet(A)
    BY <1>2, <1>3, FS_Subset
  <1>5. QED  BY <1>1, <1>3, <1>4, FS_CardinalityType

(* The scopes open after the running task was replaced: those of the new     *)
(* tasks, and those of the old ones but the first.                           *)
LEMMA ScopesAfter ==
    ASSUME NEW S, todo \in Seq(S), todo # <<>>, NEW next \in Seq(S), Then(next)
    PROVE  /\ Cardinality(ScopeTasks') =
                 Cardinality(OpenScopesOf(next)) + Cardinality(ScopeTasks \ {1})
           /\ Cardinality(ScopeTasks) =
                 Cardinality(ScopeTasks \ {1}) + (IF Head(todo).do \in ScopeSteps THEN 1 ELSE 0)
           /\ {Cardinality(ScopeTasks), Cardinality(ScopeTasks \ {1})} \subseteq Nat
  <1> DEFINE n == Len(next)
             K == OpenScopesOf(next)
             R == ScopeTasks \ {1}
             M == {i \in ScopeTasks' : i > n}
  <1>1. /\ Head(todo) = todo[1] /\ n \in Nat /\ Len(todo) \in Nat /\ DOMAIN next = 1 .. n
        /\ DOMAIN todo = 1 .. Len(todo) /\ 1 \in DOMAIN todo
    OBVIOUS
  <1>2. /\ todo' \in Seq(S) /\ Len(todo') = n + Len(todo) - 1 /\ DOMAIN todo' = 1 .. Len(todo')
        /\ \A i \in 1 .. n : todo'[i] = next[i]
        /\ \A i \in 1 .. Len(todo) - 1 : todo'[n + i] = todo[i + 1]
    BY ThenAny
  <1>3. /\ ScopeTasks = {i \in DOMAIN todo : todo[i].do \in ScopeSteps}
        /\ ScopeTasks' = {i \in DOMAIN todo' : todo'[i].do \in ScopeSteps}
    BY DEF ScopeTasks, ScopeSteps
  <1>4. /\ IsFiniteSet(K) /\ K \subseteq Int /\ Cardinality(K) \in Nat
        /\ IsFiniteSet(R) /\ R \subseteq Int /\ Cardinality(R) \in Nat
        /\ IsFiniteSet(ScopeTasks) /\ Cardinality(ScopeTasks) \in Nat
    <2>1. K \in SUBSET DOMAIN next
      BY DEF OpenScopesOf
    <2>2. R \in SUBSET DOMAIN todo /\ ScopeTasks \in SUBSET DOMAIN todo
      BY <1>3
    <2> HIDE DEF K, R
    <2>3. IsFiniteSet(K) /\ K \subseteq Int /\ Cardinality(K) \in Nat
      BY <2>1, PositionsAreFinite
    <2>4. QED  BY <2>2, <2>3, PositionsAreFinite
  <1> HIDE DEF n
  <1>5. ASSUME NEW i \in R PROVE i + (n - 1) \in M
    <2>1. i \in 1 .. Len(todo) /\ todo[i].do \in ScopeSteps /\ i # 1
      BY <1>1, <1>3, <1>5
    <2> DEFINE j == i - 1
    <2>2. j \in 1 .. Len(todo) - 1 /\ j + 1 = i /\ n + j = i + (n - 1)
      BY <1>1, <2>1
    <2> HIDE DEF j
    <2>3. todo'[i + (n - 1)] = todo[i]
      BY <1>2, <2>2
    <2>4. i + (n - 1) \in 1 .. Len(todo') /\ i + (n - 1) > n
      BY <1>1, <1>2, <2>1
    <2>5. QED  BY <1>2, <1>3, <2>1, <2>3, <2>4
  <1>6. ASSUME NEW i \in M PROVE i - (n - 1) \in R
    <2>1. i \in 1 .. Len(todo') /\ todo'[i].do \in ScopeSteps /\ i > n
      BY <1>2, <1>3, <1>6
    <2> DEFINE j == i - n
    <2>2. j \in 1 .. Len(todo) - 1 /\ n + j = i /\ j + 1 = i - (n - 1)
      BY <1>1, <1>2, <2>1
    <2> HIDE DEF j
    <2>3. todo'[i] = todo[i - (n - 1)] /\ i - (n - 1) \in 1 .. Len(todo) /\ i - (n - 1) # 1
      BY <1>1, <1>2, <2>2
    <2>4. QED  BY <1>1, <1>3, <2>1, <2>3
  <1>7. M \subseteq Int
    BY <1>2, <1>3
  <1>8. ScopeTasks' = K \union M /\ K \intersect M = {}
    <2>1. ASSUME NEW i \in DOMAIN todo', i <= n
          PROVE  i \in K <=> todo'[i].do \in ScopeSteps
      BY <1>1, <1>2, <2>1 DEF OpenScopesOf
    <2>2. \A i \in K : i \in DOMAIN todo' /\ i <= n
      BY <1>1, <1>2 DEF OpenScopesOf
    <2>3. ASSUME NEW i \in ScopeTasks' PROVE i \in K \/ i \in M
      BY <1>1, <1>2, <1>3, <2>1
    <2>4. \A i \in K : i \in ScopeTasks' /\ ~(i > n)
      BY <1>1, <1>2, <1>3, <2>1, <2>2
    <2>5. QED  BY <2>3, <2>4
  <1>9. n - 1 \in Int
    BY <1>1
  <1> HIDE DEF K, R, M
  <1>10. IsFiniteSet(M) /\ Cardinality(M) = Cardinality(R)
    BY <1>4, <1>5, <1>6, <1>7, <1>9, SameNumberShifted
  <1>11. Cardinality(ScopeTasks') = Cardinality(K) + Cardinality(R)
    <2>1. Cardinality(K \union M) = Cardinality(K) + Cardinality(M) - Cardinality({})
      BY <1>4, <1>8, <1>10, FS_Union
    <2>2. Cardinality({}) = 0
      BY FS_EmptySet
    <2>3. QED  BY <1>4, <1>8, <1>10, <2>1, <2>2
  <1>12. Cardinality(R) =
            IF Head(todo).do \in ScopeSteps THEN Cardinality(ScopeTasks) - 1 ELSE Cardinality(ScopeTasks)
    <2>1. 1 \in ScopeTasks <=> Head(todo).do \in ScopeSteps
      BY <1>1, <1>3
    <2>2. QED  BY <1>4, <2>1, FS_RemoveElement DEF R
  <1>13. Cardinality(ScopeTasks) =
             Cardinality(R) + (IF Head(todo).do \in ScopeSteps THEN 1 ELSE 0)
    BY <1>4, <1>12
  <1>14. QED  BY <1>4, <1>11, <1>13 DEF K, R

\* The first half of ScopesBalanced: between two steps.
Nested == status = "run" => Len(scope) = Cardinality(ScopeTasks) + 2

LEMMA ScopeLength == Typed => Len(scope) \in Nat /\ Len(scope) # 0
  BY TypedParts DEF Parts

(* A step that leaves the scopes alone replaces the running task by others    *)
(* that have as many scopes open as it had.                                  *)
LEMMA ReturnNests ==
    ASSUME Typed, Nested, status = "run", todo # <<>>, Then(<<>>),
           \/ Head(todo).do \notin ScopeSteps /\ Len(scope') = Len(scope)
           \/ Head(todo).do \in ScopeSteps /\ scope' = PoppedScope
    PROVE  Nested'
  <1> DEFINE next == <<>>
  <1>1. todo \in Seq(Task) /\ next \in Seq(Task) /\ Then(next) /\ OpenScopesOf(next) = {}
    BY TypedParts DEF Parts, OpenScopesOf
  <1> HIDE DEF next
  <1>2. Cardinality(OpenScopesOf(next)) = 0
    BY <1>1, FS_EmptySet
  <1> DEFINE rest == Cardinality(ScopeTasks \ {1})
  <1>3. /\ Cardinality(ScopeTasks') = rest /\ rest \in Nat
        /\ Cardinality(ScopeTasks) = rest + (IF Head(todo).do \in ScopeSteps THEN 1 ELSE 0)
    <2>1. /\ Cardinality(ScopeTasks') = Cardinality(OpenScopesOf(next)) + rest
          /\ Cardinality(ScopeTasks) = rest + (IF Head(todo).do \in ScopeSteps THEN 1 ELSE 0)
          /\ {Cardinality(ScopeTasks), rest} \subseteq Nat
      BY <1>1, todo # <<>>, ScopesAfter
    <2> HIDE DEF rest
    <2>2. QED  BY <1>2, <2>1
  <1> HIDE DEF rest
  <1>4. CASE Head(todo).do \notin ScopeSteps /\ Len(scope') = Len(scope)
    BY <1>3, <1>4 DEF Nested
  <1>5. CASE Head(todo).do \in ScopeSteps /\ scope' = PoppedScope
    <2>1. Len(scope) = Cardinality(ScopeTasks) + 2 /\ Len(scope) # 1
      <3> DEFINE c == Cardinality(ScopeTasks)
      <3>1. Len(scope) = c + 2
        BY DEF Nested
      <3>2. c \in Nat
        BY <1>3
      <3> HIDE DEF c
      <3>3. Len(scope) = c + 2 /\ Len(scope) # 1
        BY <3>1, <3>2
      <3>4. QED  BY <3>3 DEF c
    <2>2. scope' = Tail(scope) /\ scope \in Seq([Name -> Symbol \union {NoSymbol}]) /\ scope # <<>>
      BY <1>5, <2>1, TypedParts DEF PoppedScope, Parts
    <2>3. Len(scope') = Len(scope) - 1
      BY <2>2
    <2>4. QED  BY <1>3, <1>5, <2>1, <2>3 DEF Nested
  <1>6. QED  BY <1>4, <1>5

LEMMA EnterNests ==
    ASSUME Typed, Nested, status = "run", todo # <<>>, NEW a, NEW b, Then(<<a, b>>),
           a.do \notin ScopeSteps,
           \/ (Head(todo).do \in ScopeSteps <=> b.do \in ScopeSteps) /\ scope' = scope
           \/ Head(todo).do \notin ScopeSteps /\ b.do \in ScopeSteps /\ PushScope
    PROVE  Nested'
  <1> DEFINE next == <<a, b>>
             S == Task \union {a, b}
             opened == IF b.do \in ScopeSteps THEN 1 ELSE 0
             held == IF Head(todo).do \in ScopeSteps THEN 1 ELSE 0
  <1>1. todo \in Seq(Task) /\ scope \in Seq([Name -> Symbol \union {NoSymbol}])
    BY TypedParts DEF Parts
  <1>2. /\ todo \in Seq(S) /\ next \in Seq(S) /\ Then(next)
        /\ DOMAIN next = {1, 2} /\ next[1] = a /\ next[2] = b
    BY <1>1
  <1> HIDE DEF next, S
  <1>3. Cardinality(OpenScopesOf(next)) = opened
    <2>1. OpenScopesOf(next) = IF b.do \in ScopeSteps THEN {2} ELSE {}
      BY <1>2 DEF OpenScopesOf
    <2>2. QED  BY <2>1, FS_EmptySet, FS_Singleton
  <1>4. /\ Cardinality(ScopeTasks') = Cardinality(OpenScopesOf(next)) + Cardinality(ScopeTasks \ {1})
        /\ Cardinality(ScopeTasks) = Cardinality(ScopeTasks \ {1}) + held
        /\ {Cardinality(ScopeTasks), Cardinality(ScopeTasks \ {1})} \subseteq Nat
    BY <1>2, ScopesAfter
  <1>5. Len(scope) = Cardinality(ScopeTasks) + 2
    BY DEF Nested
  <1>6. Len(scope') = Len(scope) + opened - held
    <2>1. CASE (Head(todo).do \in ScopeSteps <=> b.do \in ScopeSteps) /\ scope' = scope
      BY <1>1, <2>1
    <2>2. CASE Head(todo).do \notin ScopeSteps /\ b.do \in ScopeSteps /\ PushScope
      <3>1. EmptyScope \in [Name -> Symbol \union {NoSymbol}]
        BY DEF EmptyScope
      <3>2. <<EmptyScope>> \in Seq([Name -> Symbol \union {NoSymbol}]) /\ Len(<<EmptyScope>>) = 1
        BY <3>1
      <3>3. Len(scope') = 1 + Len(scope)
        BY <1>1, <2>2, <3>2 DEF PushScope
      <3>4. QED  BY <1>1, <2>2, <3>3
    <2>3. QED  BY <2>1, <2>2
  <1>7. opened \in {0, 1} /\ held \in {0, 1}
    OBVIOUS
  <1> HIDE DEF opened, held
  <1>8. QED  BY <1>3, <1>4, <1>5, <1>6, <1>7 DEF Nested

(* A step that ends the encoding, or changes neither tasks nor scopes.        *)
LEMMA RestNests == Nested /\ (status' # "run" \/ UNCHANGED <<status, todo, scope>>) => Nested'
  BY DEF Nested, ScopeTasks

LEMMA ExprNests == Typed /\ Nested /\ EncodeExpr => Nested'
  <1> SUFFICES ASSUME Typed, Nested, EncodeExpr PROVE Nested'
    OBVIOUS
  <1> DEFINE t == Head(todo)
             n == Len(blocks)
  <1>1. todo # <<>> /\ t.do \notin ScopeSteps /\ status = "run"
    BY DEF EncodeExpr, EncodeCalc, EncodeSymbolRef, EncodeUnsupported, EncodeTrinary, TrinaryCond,
           TrinaryTrue, TrinaryFalse, IsExpr, Is, ScopeSteps, LoopSteps
  <1>2. \/ status' # "run"
        \/ Then(<<>>) /\ scope' = scope
        \/ EncodeTrinary
        \/ \E a, b : /\ Then(<<a, b>>) /\ scope' = scope /\ a.do \notin ScopeSteps
                     /\ b.do \in {"trinaryTrue", "trinaryFalse"}
    <2>1. CASE EncodeCalc \/ EncodeSymbolRef \/ EncodeUnsupported
      BY <2>1 DEF EncodeCalc, EncodeSymbolRef, EncodeUnsupported, Return
    <2>2. CASE TrinaryCond
      <3> DEFINE a == Expr(t.node.yes)
                 b == [t EXCEPT !.do = "trinaryTrue"]
      <3>1. scope' = scope /\ (Then(<<>>) \/ Then(<<a, b>>))
        BY <2>2 DEF TrinaryCond, Return
      <3>2. t \in Task /\ t.do = "trinaryCond"
        BY <2>2, RunningFacts DEF TrinaryCond
      <3>3. a.do \notin ScopeSteps /\ b.do = "trinaryTrue"
        BY <3>2 DEF Expr, ScopeSteps, LoopSteps, Task
      <3> HIDE DEF a, b
      <3>4. QED  BY <3>1, <3>3
    <2>3. CASE TrinaryTrue
      <3> DEFINE a == Expr(t.node.no)
                 b == [do |-> "trinaryFalse", node |-> t.node, yes |-> t.yes, no |-> t.no,
                       end |-> t.end, type |-> val.type]
      <3>1. scope' = scope /\ (Then(<<>>) \/ Then(<<a, b>>))
        BY <2>3 DEF TrinaryTrue, Return
      <3>2. a.do \notin ScopeSteps /\ b.do = "trinaryFalse"
        BY DEF Expr, ScopeSteps, LoopSteps
      <3> HIDE DEF a, b
      <3>3. QED  BY <3>1, <3>2
    <2>4. CASE TrinaryFalse
      BY <2>4 DEF TrinaryFalse, Return, Crash
    <2>5. QED  BY <2>1, <2>2, <2>3, <2>4 DEF EncodeExpr
  <1>3. CASE EncodeTrinary
    <2> DEFINE a == Expr(Node.cond)
               b == [do |-> "trinaryCond", node |-> Node,
                     yes |-> n + 2, no |-> n + 3, end |-> n + 4]
    <2>1. Then(<<a, b>>) /\ scope' = scope
      BY <1>3 DEF EncodeTrinary
    <2>2. a.do \notin ScopeSteps /\ b.do \notin ScopeSteps
      BY DEF Expr, ScopeSteps, LoopSteps
    <2> HIDE DEF a, b
    <2>3. QED  BY <1>1, <2>1, <2>2, EnterNests
  <1>4. \A b : b.do \in {"trinaryTrue", "trinaryFalse"} => b.do \notin ScopeSteps
    BY DEF ScopeSteps, LoopSteps
  <1>5. ASSUME NEW a, NEW b, Then(<<a, b>>), scope' = scope, a.do \notin ScopeSteps,
               b.do \in {"trinaryTrue", "trinaryFalse"}
        PROVE  Nested'
    BY <1>1, <1>4, <1>5, EnterNests
  <1>6. QED  BY <1>1, <1>2, <1>3, <1>5, ReturnNests, RestNests

LEMMA SimpleNests ==
    ASSUME Typed, Nested,
           \/ EncodeNothing \/ EncodeRefused \/ EncodeSymbolDef \/ DefineSymbol
           \/ EncodeAssign \/ AssignRight \/ AssignStore \/ EncodeReturn \/ EmitReturn
           \/ EncodeBreak \/ EncodeContinue
    PROVE  Nested'
  <1>1. todo # <<>> /\ Head(todo).do \notin ScopeSteps /\ status = "run"
    BY DEF EncodeNothing, EncodeRefused, EncodeSymbolDef, DefineSymbol, EncodeAssign, AssignRight,
           AssignStore, EncodeReturn, EmitReturn, EncodeBreak, EncodeContinue, IsStmt, Is,
           ScopeSteps, LoopSteps
  <1>2. CASE Fail \/ Crash \/ EncodeRefused
    BY <1>2, RestNests DEF Fail, Crash, EncodeRefused
  <1>3. CASE ~(Fail \/ Crash) /\ (EncodeNothing \/ AssignStore \/ EmitReturn
                                  \/ EncodeBreak \/ EncodeContinue)
    <2>1. Then(<<>>) /\ scope' = scope
      BY <1>3 DEF EncodeNothing, AssignStore, EmitReturn, EncodeBreak, EncodeContinue, JumpTo
    <2>2. QED  BY <1>1, <2>1, ReturnNests
  <1>4. CASE ~(Fail \/ Crash) /\ DefineSymbol
    <2>1. Then(<<>>) /\ \E new : scope' = [scope EXCEPT ![1] = new]
      BY <1>4 DEF DefineSymbol
    <2>2. Len(scope') = Len(scope)
      <3>1. scope \in Seq([Name -> Symbol \union {NoSymbol}])
        BY TypedParts DEF Parts
      <3>2. PICK new : scope' = [scope EXCEPT ![1] = new]
        BY <2>1
      <3> DEFINE T == [Name -> Symbol \union {NoSymbol}] \union {new}
      <3>3. scope \in Seq(T) /\ new \in T
        BY <3>1
      <3> HIDE DEF T
      <3>4. QED  BY <3>2, <3>3
    <2>3. QED  BY <1>1, <2>1, <2>2, ReturnNests
  <1>5. ASSUME NEW e, NEW b, Then(<<Expr(e), b>>), scope' = scope,
               b.do \in {"define", "assignRight", "assignStore", "emitReturn"}
        PROVE  Nested'
    <2> DEFINE a == Expr(e)
    <2>1. a.do \notin ScopeSteps /\ b.do \notin ScopeSteps
      BY <1>5 DEF Expr, ScopeSteps, LoopSteps
    <2>2. Then(<<a, b>>)
      BY <1>5
    <2> HIDE DEF a
    <2>3. QED  BY <1>1, <1>5, <2>1, <2>2, EnterNests
  <1>6. CASE EncodeSymbolDef /\ ~Fail
    <2> DEFINE b == [do |-> "define", name |-> Node.name]
    <2>1. Then(<<Expr(Node.value), b>>) /\ scope' = scope /\ b.do = "define"
      BY <1>6 DEF EncodeSymbolDef
    <2> HIDE DEF b
    <2>2. QED  BY <1>5, <2>1
  <1>7. CASE EncodeAssign
    <2> DEFINE b == [do |-> "assignRight", node |-> Node.right]
    <2>1. Then(<<Expr(Node.left), b>>) /\ scope' = scope /\ b.do = "assignRight"
      BY <1>7 DEF EncodeAssign
    <2> HIDE DEF b
    <2>2. QED  BY <1>5, <2>1
  <1>8. CASE AssignRight
    <2> DEFINE b == [do |-> "assignStore", left |-> val]
    <2>1. Then(<<Expr(Node), b>>) /\ scope' = scope /\ b.do = "assignStore"
      BY <1>8 DEF AssignRight
    <2> HIDE DEF b
    <2>2. QED  BY <1>5, <2>1
  <1>9. CASE EncodeReturn /\ ~Fail
    <2> DEFINE b == [do |-> "emitReturn"]
    <2>1. Then(<<Expr(Node.value), b>>) /\ scope' = scope /\ b.do = "emitReturn"
      BY <1>9 DEF EncodeReturn
    <2> HIDE DEF b
    <2>2. QED  BY <1>5, <2>1
  <1>10. QED  BY <1>2, <1>3, <1>4, <1>6, <1>7, <1>8, <1>9

(* A block statement opens one scope, and its last task will close it.       *)
LEMMA BlockNests ==
    ASSUME Typed, Nested, EncodeBlock
    PROVE  Nested'
  <1> DEFINE body == [i \in DOMAIN Node.body |-> Stmt(Node.body[i])]
             last == [do |-> "endBlock"]
             next == body \o <<last>>
             S == Task \union {last} \union {Stmt(Node.body[i]) : i \in DOMAIN Node.body}
  <1>1. /\ Then(next) /\ Is("stmt") /\ Node.kind = "block" /\ status = "run" /\ status' = status
        /\ PushScope
    BY DEF EncodeBlock, IsStmt, Is, Node
  <1>2. Node.body \in Seq(Statement)
    BY <1>1, RunningFacts, TaskFields, SyntaxAssumption DEF Node
  <1>3. body \in Seq(S) /\ last \in S /\ \A i \in DOMAIN body : body[i].do = "stmt"
    <2>1. Len(Node.body) \in Nat /\ DOMAIN Node.body = 1 .. Len(Node.body)
      BY <1>2
    <2>2. body \in [1 .. Len(Node.body) -> S]
      BY <2>1
    <2>3. \A i \in DOMAIN body : body[i].do = "stmt"
      BY DEF Stmt
    <2> HIDE DEF S, body
    <2>4. body \in Seq(S)
      BY <2>1, <2>2
    <2>5. QED  BY <2>3, <2>4 DEF S
  <1>4. todo \in Seq(S) /\ todo # <<>> /\ Head(todo).do = "stmt"
    <2>1. todo \in Seq(Task) /\ todo # <<>> /\ Head(todo).do = "stmt"
      BY <1>1, RunningFacts
    <2>2. QED  BY <2>1
  <1>5. last.do = "endBlock"
    OBVIOUS
  <1> HIDE DEF body, last, S
  <1>6. /\ next \in Seq(S) /\ Len(next) = Len(body) + 1 /\ Len(body) \in Nat
        /\ next[Len(body) + 1] = last /\ \A i \in 1 .. Len(body) : next[i] = body[i]
    BY <1>3
  <1> HIDE DEF next
  <1>7. OpenScopesOf(next) = {Len(next)}
    BY <1>3, <1>5, <1>6 DEF OpenScopesOf, ScopeSteps, LoopSteps
  <1>8. Cardinality(OpenScopesOf(next)) = 1
    BY <1>7, FS_Singleton
  <1> DEFINE rest == Cardinality(ScopeTasks \ {1})
  <1>9. /\ Cardinality(ScopeTasks') = 1 + rest
        /\ Cardinality(ScopeTasks) = rest /\ rest \in Nat
    <2>1. /\ Cardinality(ScopeTasks') = Cardinality(OpenScopesOf(next)) + rest
          /\ Cardinality(ScopeTasks) = rest + (IF Head(todo).do \in ScopeSteps THEN 1 ELSE 0)
          /\ {Cardinality(ScopeTasks), rest} \subseteq Nat
      BY <1>1, <1>4, <1>6, ScopesAfter
    <2>2. Head(todo).do \notin ScopeSteps
      BY <1>4 DEF ScopeSteps, LoopSteps
    <2> HIDE DEF rest
    <2>3. QED  BY <1>8, <2>1, <2>2
  <1> HIDE DEF rest
  <1>10. Len(scope) = rest + 2
    BY <1>1, <1>9 DEF Nested
  <1>11. Len(scope') = 1 + Len(scope)
    <2>1. scope \in Seq([Name -> Symbol \union {NoSymbol}])
      BY TypedParts DEF Parts
    <2>2. <<EmptyScope>> \in Seq([Name -> Symbol \union {NoSymbol}])
      BY DEF EmptyScope
    <2>3. QED  BY <1>1, <2>1, <2>2 DEF PushScope
  <1>12. QED  BY <1>9, <1>10, <1>11 DEF Nested

LEMMA CompoundNests ==
    ASSUME Typed, Nested, EndBlock \/ EncodeIf \/ BranchCond \/ BranchTrue \/ BranchFalse
    PROVE  Nested'
  <1> DEFINE t == Head(todo)
             n == Len(blocks)
  <1>1. todo # <<>> /\ status = "run"
    BY DEF EndBlock, EncodeIf, BranchCond, BranchTrue, BranchFalse, IsStmt, Is
  <1>2. CASE EndBlock
    <2>1. Then(<<>>) /\ t.do \in ScopeSteps /\ scope' = PoppedScope
      BY <1>2 DEF EndBlock, Is, ScopeSteps
    <2>2. QED  BY <1>1, <2>1, ReturnNests
  <1>3. CASE Fail
    BY <1>3, RestNests DEF Fail
  <1>4. CASE BranchFalse
    <2>1. Then(<<>>) /\ t.do \notin ScopeSteps /\ scope' = scope
      BY <1>4 DEF BranchFalse, Is, ScopeSteps, LoopSteps
    <2>2. QED  BY <1>1, <2>1, ReturnNests
  <1>5. CASE EncodeIf
    <2> DEFINE a == Expr(Node.cond)
               b == [do |-> "branchCond", node |-> Node,
                     yes |-> n + 1, no |-> n + 2, end |-> n + 3]
    <2>1. Then(<<a, b>>) /\ scope' = scope /\ t.do \notin ScopeSteps
      BY <1>5 DEF EncodeIf, IsStmt, Is, ScopeSteps, LoopSteps
    <2>2. a.do \notin ScopeSteps /\ b.do \notin ScopeSteps
      BY DEF Expr, ScopeSteps, LoopSteps
    <2> HIDE DEF a, b
    <2>3. QED  BY <1>1, <2>1, <2>2, EnterNests
  <1>6. CASE BranchCond /\ ~Fail
    <2> DEFINE a == Stmt(t.node.yes)
               b == [t EXCEPT !.do = "branchTrue"]
    <2>1. Then(<<a, b>>) /\ scope' = scope
      BY <1>6 DEF BranchCond
    <2>2. a.do \notin ScopeSteps /\ b.do \notin ScopeSteps /\ t.do \notin ScopeSteps
      <3>1. t \in Task /\ t.do = "branchCond"
        BY <1>6, RunningFacts DEF BranchCond
      <3>2. QED  BY <3>1 DEF Stmt, ScopeSteps, LoopSteps, Task
    <2> HIDE DEF a, b
    <2>3. QED  BY <1>1, <2>1, <2>2, EnterNests
  <1>7. CASE BranchTrue
    <2> DEFINE a == Stmt(t.node.no)
               b == [t EXCEPT !.do = "branchFalse"]
    <2>1. Then(<<a, b>>) /\ scope' = scope
      BY <1>7 DEF BranchTrue
    <2>2. a.do \notin ScopeSteps /\ b.do \notin ScopeSteps /\ t.do \notin ScopeSteps
      <3>1. t \in Task /\ t.do = "branchTrue"
        BY <1>7, RunningFacts DEF BranchTrue
      <3>2. QED  BY <3>1 DEF Stmt, ScopeSteps, LoopSteps, Task
    <2> HIDE DEF a, b
    <2>3. QED  BY <1>1, <2>1, <2>2, EnterNests
  <1>8. QED  BY <1>2, <1>3, <1>4, <1>5, <1>6, <1>7

LEMMA LoopNests ==
    ASSUME Typed, Nested, EncodeLoop \/ LoopCond \/ LoopBody \/ LoopStep \/ EndLoop
    PROVE  Nested'
  <1> DEFINE t == Head(todo)
             n == Len(blocks)
  <1>1. todo # <<>> /\ status = "run"
    BY DEF EncodeLoop, LoopCond, LoopBody, LoopStep, EndLoop, IsStmt, Is
  <1>2. CASE EncodeLoop
    <2> DEFINE a == Stmt(Node.init)
               b == [do |-> "loopCond", node |-> Node, cond |-> n + 1,
                     step |-> n + 2, body |-> n + 3, end |-> n + 4,
                     oldContinue |-> continuePoint, oldBreak |-> breakPoint]
    <2>1. Then(<<a, b>>) /\ PushScope /\ t.do \notin ScopeSteps
      BY <1>2 DEF EncodeLoop, IsStmt, Is, ScopeSteps, LoopSteps
    <2>2. a.do \notin ScopeSteps /\ b.do \in ScopeSteps
      BY DEF Stmt, ScopeSteps, LoopSteps
    <2> HIDE DEF a, b
    <2>3. QED  BY <1>1, <2>1, <2>2, EnterNests
  <1>3. CASE Fail
    BY <1>3, RestNests DEF Fail
  <1>4. ASSUME NEW a, a.do \notin ScopeSteps, NEW old \in LoopSteps, Is(old), NEW new \in LoopSteps,
               Then(<<a, [t EXCEPT !.do = new]>>), scope' = scope
        PROVE  Nested'
    <2> DEFINE b == [t EXCEPT !.do = new]
    <2>1. t \in Task /\ t.do = old
      BY <1>4, RunningFacts
    <2>2. b.do \in ScopeSteps /\ t.do \in ScopeSteps
      BY <1>4, <2>1 DEF Task, ScopeSteps, LoopSteps
    <2>3. Then(<<a, b>>)
      BY <1>4
    <2> HIDE DEF b
    <2>4. QED  BY <1>1, <1>4, <2>2, <2>3, EnterNests
  <1>5. \A x : Expr(x).do \notin ScopeSteps /\ Stmt(x).do \notin ScopeSteps
    BY DEF Expr, Stmt, ScopeSteps, LoopSteps
  <1>6. CASE LoopCond
    <2>1. Is("loopCond") /\ Then(<<Expr(t.node.cond), [t EXCEPT !.do = "loopBody"]>>) /\ scope' = scope
      BY <1>6 DEF LoopCond
    <2>2. QED  BY <1>4, <1>5, <2>1 DEF LoopSteps
  <1>7. CASE LoopBody /\ ~Fail
    <2>1. Is("loopBody") /\ Then(<<Stmt(t.node.body), [t EXCEPT !.do = "loopStep"]>>) /\ scope' = scope
      BY <1>7 DEF LoopBody
    <2>2. QED  BY <1>4, <1>5, <2>1 DEF LoopSteps
  <1>8. CASE LoopStep
    <2>1. Is("loopStep") /\ Then(<<Stmt(t.node.step), [t EXCEPT !.do = "endLoop"]>>) /\ scope' = scope
      BY <1>8 DEF LoopStep
    <2>2. QED  BY <1>4, <1>5, <2>1 DEF LoopSteps
  <1>9. CASE EndLoop
    <2>1. Then(<<>>) /\ t.do \in ScopeSteps /\ scope' = PoppedScope
      BY <1>9 DEF EndLoop, Is, ScopeSteps, LoopSteps
    <2>2. QED  BY <1>1, <2>1, ReturnNests
  <1>10. QED  BY <1>2, <1>3, <1>6, <1>7, <1>8, <1>9

LEMMA InitNests == Init => ScopesBalanced
  <1> SUFFICES ASSUME Init PROVE ScopesBalanced
    OBVIOUS
  <1>1. ScopeTasks = {}
    BY DEF Init, ScopeTasks, Stmt, LoopSteps
  <1>2. Cardinality(ScopeTasks) = 0
    BY <1>1, FS_EmptySet
  <1>3. status = "run" /\ Len(scope) = 2
    BY DEF Init
  <1>4. QED  BY <1>2, <1>3 DEF ScopesBalanced

LEMMA FinishNests == Typed /\ ScopesBalanced /\ FinishModule => ScopesBalanced'
  <1> SUFFICES ASSUME Typed, ScopesBalanced, FinishModule PROVE ScopesBalanced'
    OBVIOUS
  <1>1. ScopeTasks = {} /\ status = "run"
    BY DEF FinishModule, ScopeTasks
  <1>2. Len(scope) = 2
    <2>1. Cardinality(ScopeTasks) = 0
      BY <1>1, FS_EmptySet
    <2>2. QED  BY <1>1, <2>1 DEF ScopesBalanced
  <1>3. CASE Crash
    BY <1>3 DEF Crash, ScopesBalanced
  <1>4. CASE ~Crash
    <2>1. scope' = PoppedScope /\ status' = "done"
      BY <1>4 DEF FinishModule
    <2>2. Len(PoppedScope) = 1
      <3>1. scope \in Seq([Name -> Symbol \union {NoSymbol}])
        BY TypedParts DEF Parts
      <3>2. QED  BY <1>2, <3>1 DEF PoppedScope
    <2>3. QED  BY <2>1, <2>2 DEF ScopesBalanced
  <1>5. QED  BY <1>3, <1>4

\* No step of encode_stmt or encode_expr ends the encoding with success.
LEMMA StepsRun ==
    ASSUME EncodeExpr \/ EncodeStmt
    PROVE  status = "run" /\ status' # "done" /\ todo # <<>>
  <1>1. status = "run" /\ todo # <<>>
    BY DEF EncodeExpr, EncodeStmt, EncodeCalc, EncodeSymbolRef, EncodeUnsupported,
       EncodeTrinary, TrinaryCond, TrinaryTrue, TrinaryFalse, EncodeNothing, EncodeRefused,
       EncodeSymbolDef, DefineSymbol, EncodeAssign, AssignRight, AssignStore, EncodeReturn,
       EmitReturn, EncodeBreak, EncodeContinue, EncodeBlock, EndBlock, EncodeIf, BranchCond,
       BranchTrue, BranchFalse, EncodeLoop, LoopCond, LoopBody, LoopStep, EndLoop,
       IsStmt, IsExpr, Is
  <1>2. status' \in {status, "failed", "crashed"}
    <2>1. CASE EncodeExpr
      BY <2>1 DEF EncodeExpr, EncodeCalc, EncodeSymbolRef, EncodeUnsupported,
         EncodeTrinary, TrinaryCond, TrinaryTrue, TrinaryFalse, Crash
    <2>2. CASE EncodeStmt
      BY <2>2 DEF EncodeStmt, EncodeNothing, EncodeRefused,
         EncodeSymbolDef, DefineSymbol, EncodeAssign, AssignRight, AssignStore, EncodeReturn,
         EmitReturn, EncodeBreak, EncodeContinue, EncodeBlock, EndBlock, EncodeIf, BranchCond,
         BranchTrue, BranchFalse, EncodeLoop, LoopCond, LoopBody, LoopStep, EndLoop,
         JumpTo, Fail, Crash
    <2>3. QED  BY <2>1, <2>2
  <1>3. QED  BY <1>1, <1>2

LEMMA NextNests == Typed /\ ScopesBalanced /\ [Next]_vars => ScopesBalanced'
  <1> SUFFICES ASSUME Typed, ScopesBalanced, [Next]_vars PROVE ScopesBalanced'
    OBVIOUS
  <1>1. CASE EncodeExpr \/ EncodeStmt
    <2>1. Nested
      BY DEF ScopesBalanced, Nested
    <2>2. Nested'
      BY <1>1, <2>1, ExprNests, SimpleNests, BlockNests, CompoundNests, LoopNests DEF EncodeStmt
    <2>3. status' # "done"
      BY <1>1, StepsRun
    <2>4. QED  BY <2>2, <2>3 DEF Nested, ScopesBalanced
  <1>2. CASE Terminating \/ UNCHANGED vars
    BY <1>2 DEF Terminating, vars, ScopesBalanced, ScopeTasks
  <1>3. QED  BY <1>1, <1>2, FinishNests DEF Next

(* A scope is left exactly as often as it was entered, whatever the nesting   *)
(* and however its statements end: while the encoder runs, root, $main and    *)
(* one scope per open block or loop are on the chain; root alone is left when *)
(* encode_module returns true.                                               *)
THEOREM ScopesCorrect == Spec => []ScopesBalanced
  <1>1. Typed /\ ScopesBalanced /\ [Next]_vars => (Typed /\ ScopesBalanced)'
    BY NextTyped, NextNests
  <1>2. Init => Typed /\ ScopesBalanced
    BY InitTyped, InitNests
  <1>3. QED  BY <1>1, <1>2, PTL DEF Spec

-------------------------------------------------------------------------------
(* A block that ends in a terminator is never written again.  For programs   *)
(* without dead code, a jump is followed by ends of blocks only, up to the   *)
(* joint of a branch or a loop body, where the builder leaves the block.     *)

Joints == {"branchTrue", "branchFalse", "loopStep"}
Closers == Joints \union {"endBlock"}

\* From position i on nothing is encoded before a joint.
Closes(tasks, i) ==
    \A k \in i .. Len(tasks) :
        tasks[k].do \in Closers \/ \E m \in i .. k - 1 : tasks[m].do \in Joints

\* The tasks that may leave the insertion point at the end of its block.
MayEnd(t, ends) == t.do = "emitReturn" \/ (t.do = "stmt" /\ t.node \in ends)

\* The tasks whose node is a statement.
StmtSteps == {"stmt", "branchCond", "branchTrue", "branchFalse"} \union LoopSteps

Tame(live, ends) ==
    /\ \A i \in DOMAIN todo : todo[i].do \in StmtSteps => todo[i].node \in live
    /\ \A i \in DOMAIN todo : MayEnd(todo[i], ends) => Closes(todo, i + 1)
    /\ \A i \in DOMAIN todo : todo[i].do \in Consumers =>
           \A j \in 1 .. i - 1 : todo[j].do \in FedKinds

\* The builder stands in a terminated block only when there is nothing to write there.
Loose == Terminated(blocks[activeBlock]) => Closes(todo, 1)

(* The tasks behind the running one still close when it is replaced.         *)
LEMMA ClosesMoves ==
    ASSUME NEW S, todo \in Seq(S), todo # <<>>, NEW next \in Seq(S), Then(next),
           NEW i \in Nat, i # 0, Closes(todo, i + 1)
    PROVE  Closes(todo', Len(next) + i)
  <1> DEFINE n == Len(next)
  <1>1. /\ n \in Nat /\ Len(todo) \in Nat /\ todo' \in Seq(S) /\ Len(todo') = n + Len(todo) - 1
        /\ \A x \in 1 .. Len(todo) - 1 : todo'[n + x] = todo[x + 1]
    BY ThenAny
  <1> HIDE DEF n
  <1>2. ASSUME NEW k \in n + i .. Len(todo')
        PROVE  todo'[k].do \in Closers \/ \E m \in n + i .. k - 1 : todo'[m].do \in Joints
    <2> DEFINE j == k - n
    <2>1. j \in i .. Len(todo) - 1 /\ j \in 1 .. Len(todo) - 1 /\ n + j = k /\ j + 1 \in i + 1 .. Len(todo)
      BY <1>1, <1>2
    <2> HIDE DEF j
    <2>2. todo'[k] = todo[j + 1]
      BY <1>1, <2>1
    <2>3. todo[j + 1].do \in Closers \/ \E m \in i + 1 .. (j + 1) - 1 : todo[m].do \in Joints
      BY <2>1 DEF Closes
    <2>4. ASSUME NEW m \in i + 1 .. (j + 1) - 1, todo[m].do \in Joints
          PROVE  \E x \in n + i .. k - 1 : todo'[x].do \in Joints
      <3> DEFINE y == m - 1
      <3>1. y \in 1 .. Len(todo) - 1 /\ y + 1 = m /\ n + y \in n + i .. k - 1
        BY <1>1, <2>1, <2>4
      <3> HIDE DEF y
      <3>2. todo'[n + y] = todo[m]
        BY <1>1, <3>1
      <3>3. QED  BY <2>4, <3>1, <3>2
    <2>5. QED  BY <2>2, <2>3, <2>4
  <1>3. QED  BY <1>2 DEF Closes, n

LEMMA TameStep ==
    ASSUME NEW live, NEW ends, NEW S, todo \in Seq(S), todo # <<>>, NEW next \in Seq(S), Then(next),
           Tame(live, ends),
           \A i \in DOMAIN next :
               /\ next[i].do \in StmtSteps => next[i].node \in live
               /\ MayEnd(next[i], ends) => Closes(todo', i + 1)
               /\ next[i].do \in Consumers => \A j \in 1 .. i - 1 : next[j].do \in FedKinds
               /\ Head(todo).do \in FedKinds => next[i].do \in FedKinds
    PROVE  Tame(live, ends)'
  <1> DEFINE n == Len(next)
  <1>1. /\ n \in Nat /\ Len(todo) \in Nat /\ todo' \in Seq(S) /\ Len(todo') = n + Len(todo) - 1
        /\ \A x \in 1 .. n : todo'[x] = next[x]
        /\ \A x \in 1 .. Len(todo) - 1 : todo'[n + x] = todo[x + 1]
        /\ \A i \in DOMAIN todo' : i \in DOMAIN next \/ \E j \in 1 .. Len(todo) - 1 : i = n + j
        /\ DOMAIN next = 1 .. n /\ DOMAIN todo = 1 .. Len(todo) /\ Head(todo) = todo[1]
        /\ DOMAIN todo' = 1 .. Len(todo')
    <2>1. /\ todo' \in Seq(S) /\ Len(todo') = n + Len(todo) - 1
          /\ \A x \in 1 .. n : todo'[x] = next[x]
          /\ \A x \in 1 .. Len(todo) - 1 : todo'[n + x] = todo[x + 1]
          /\ \A i \in DOMAIN todo' : i \in DOMAIN next \/ \E j \in 1 .. Len(todo) - 1 : i = n + j
      BY ThenAny
    <2>2. n \in Nat /\ Len(todo) \in Nat /\ DOMAIN next = 1 .. n /\ DOMAIN todo = 1 .. Len(todo)
          /\ Head(todo) = todo[1]
      OBVIOUS
    <2>3. QED  BY <2>1, <2>2
  <1> HIDE DEF n
  <1>2. ASSUME NEW i \in DOMAIN todo'
        PROVE  /\ todo'[i].do \in StmtSteps => todo'[i].node \in live
               /\ MayEnd(todo'[i], ends) => Closes(todo', i + 1)
               /\ todo'[i].do \in Consumers => \A j \in 1 .. i - 1 : todo'[j].do \in FedKinds
    <2>1. CASE i \in DOMAIN next
      <3>1. todo'[i] = next[i] /\ i \in 1 .. n
        BY <1>1, <2>1
      <3>2. \A j \in 1 .. i - 1 : todo'[j] = next[j]
        BY <1>1, <3>1
      <3>3. QED  BY <2>1, <3>1, <3>2
    <2>2. ASSUME NEW j \in 1 .. Len(todo) - 1, i = n + j
          PROVE  /\ todo'[i].do \in StmtSteps => todo'[i].node \in live
                 /\ MayEnd(todo'[i], ends) => Closes(todo', i + 1)
                 /\ todo'[i].do \in Consumers => \A m \in 1 .. i - 1 : todo'[m].do \in FedKinds
      <3>1. todo'[i] = todo[j + 1] /\ j + 1 \in DOMAIN todo
        BY <1>1, <2>2
      <3>2. ASSUME MayEnd(todo'[i], ends) PROVE Closes(todo', i + 1)
        <4>1. Closes(todo, (j + 1) + 1)
          BY <3>1, <3>2 DEF Tame
        <4>2. j + 1 \in Nat /\ j + 1 # 0 /\ Len(next) + (j + 1) = i + 1
          BY <1>1, <2>2 DEF n
        <4>3. Closes(todo', Len(next) + (j + 1))
          BY <4>1, <4>2, ClosesMoves
        <4>4. QED  BY <4>2, <4>3
      <3>3. ASSUME todo'[i].do \in Consumers, NEW m \in 1 .. i - 1
            PROVE  todo'[m].do \in FedKinds
        <4>1. \A x \in 1 .. j : todo[x].do \in FedKinds
          <5>1. \A x \in 1 .. (j + 1) - 1 : todo[x].do \in FedKinds
            BY <3>1, <3>3 DEF Tame
          <5>2. QED  BY <5>1
        <4>2. CASE m <= n
          <5>1. m \in DOMAIN next /\ todo'[m] = next[m]
            BY <1>1, <4>2
          <5>2. Head(todo).do \in FedKinds
            BY <1>1, <4>1
          <5>3. QED  BY <5>1, <5>2
        <4>3. CASE m > n
          <5> DEFINE y == m - n
          <5>1. y \in 1 .. Len(todo) - 1 /\ n + y = m /\ y + 1 \in 1 .. j
            BY <1>1, <2>2, <4>3
          <5> HIDE DEF y
          <5>2. todo'[m] = todo[y + 1]
            BY <1>1, <5>1
          <5>3. QED  BY <4>1, <5>1, <5>2
        <4>4. QED  BY <1>1, <4>2, <4>3
      <3>4. todo'[i].do \in StmtSteps => todo'[i].node \in live
        BY <3>1 DEF Tame
      <3>5. QED  BY <3>2, <3>3, <3>4
    <2>3. QED  BY <1>1, <2>1, <2>2
  <1>3. QED  BY <1>2 DEF Tame

LEMMA TameReturn ==
    ASSUME NEW live, NEW ends, Typed, todo # <<>>, Then(<<>>), Tame(live, ends)
    PROVE  Tame(live, ends)'
  <1> DEFINE next == <<>>
  <1>1. todo \in Seq(Task) /\ next \in Seq(Task) /\ Then(next) /\ DOMAIN next = {}
    BY TypedParts DEF Parts
  <1> HIDE DEF next
  <1>2. QED  BY <1>1, TameStep

LEMMA TameEnter ==
    ASSUME NEW live, NEW ends, Typed, todo # <<>>, Tame(live, ends), NEW a, NEW b, Then(<<a, b>>),
           a.do \in {"stmt", "expr"},
           a.do = "stmt" => /\ a.node \in live /\ b.do \notin Consumers
                            /\ a.node \in ends => b.do \in Joints,
           b.do \in StmtSteps => b.node \in live,
           MayEnd(b, ends) => MayEnd(Head(todo), ends),
           Head(todo).do \in FedKinds => a.do \in FedKinds /\ b.do \in FedKinds
    PROVE  Tame(live, ends)'
  <1> DEFINE next == <<a, b>>
             S == Task \union {a, b}
  <1>1. todo \in Seq(Task)
    BY TypedParts DEF Parts
  <1>2. /\ todo \in Seq(S) /\ next \in Seq(S) /\ Then(next) /\ Len(next) = 2
        /\ DOMAIN next = {1, 2} /\ next[1] = a /\ next[2] = b
    BY <1>1
  <1> HIDE DEF next, S
  <1>3. /\ todo' \in Seq(S) /\ todo'[1] = a /\ todo'[2] = b /\ Len(todo') \in Nat
    <2>1. todo' \in Seq(S) /\ \A x \in 1 .. Len(next) : todo'[x] = next[x]
      BY <1>2, ThenAny
    <2>2. QED  BY <1>2, <2>1
  <1>4. MayEnd(a, ends) => Closes(todo', 1 + 1)
    <2>1. SUFFICES ASSUME b.do \in Joints PROVE Closes(todo', 2)
      BY DEF MayEnd
    <2>2. \A k \in 2 .. Len(todo') : k = 2 \/ 2 \in 2 .. k - 1
      BY <1>3
    <2>3. QED  BY <1>3, <2>1, <2>2 DEF Closes, Closers
  <1>5. MayEnd(b, ends) => Closes(todo', 2 + 1)
    <2>1. SUFFICES ASSUME MayEnd(Head(todo), ends) PROVE Closes(todo', 2 + 1)
      OBVIOUS
    <2>2. Head(todo) = todo[1] /\ 1 \in DOMAIN todo
      BY <1>1
    <2>3. Closes(todo, 1 + 1)
      BY <2>1, <2>2 DEF Tame
    <2>4. 1 \in Nat /\ 1 # 0 /\ Len(next) + 1 = 2 + 1
      BY <1>2
    <2>5. Closes(todo', Len(next) + 1)
      BY <1>2, <2>3, <2>4, ClosesMoves
    <2>6. QED  BY <2>4, <2>5
  <1>6. b.do \in Consumers => a.do \in FedKinds
    BY DEF FedKinds
  <1>7. a.do \in StmtSteps => a.node \in live
    BY DEF StmtSteps, LoopSteps
  <1>8. a.do \notin Consumers
    BY DEF Consumers
  <1>9. \A j \in 1 .. 2 - 1 : j = 1
    OBVIOUS
  <1>10. QED  BY <1>2, <1>4, <1>5, <1>6, <1>7, <1>8, <1>9, TameStep

(* What the step of a statement or an expression puts in place of its task.  *)
LEMMA ExprTame ==
    ASSUME NEW live, NEW ends, Typed, Tame(live, ends), EncodeExpr, status' = "run"
    PROVE  Tame(live, ends)'
  <1> DEFINE t == Head(todo)
             n == Len(blocks)
  <1>1. todo # <<>> /\ status = "run"
    BY StepsRun
  <1>2. CASE Then(<<>>)
    BY <1>1, <1>2, TameReturn
  <1>3. ASSUME NEW e, NEW b, Then(<<Expr(e), b>>), b.do \in {"trinaryCond", "trinaryTrue", "trinaryFalse"}
        PROVE  Tame(live, ends)'
    <2> DEFINE a == Expr(e)
    <2>1. a.do = "expr" /\ Then(<<a, b>>)
      BY <1>3 DEF Expr
    <2> HIDE DEF a
    <2>2. b.do \notin StmtSteps /\ ~MayEnd(b, ends) /\ a.do \in FedKinds /\ b.do \in FedKinds
      BY <1>3, <2>1 DEF StmtSteps, LoopSteps, MayEnd, FedKinds
    <2>3. QED  BY <1>1, <2>1, <2>2, TameEnter
  <1>4. CASE EncodeCalc \/ EncodeSymbolRef \/ EncodeUnsupported
    BY <1>2, <1>4 DEF EncodeCalc, EncodeSymbolRef, EncodeUnsupported, Return
  <1>5. CASE EncodeTrinary
    <2> DEFINE b == [do |-> "trinaryCond", node |-> Node,
                     yes |-> n + 2, no |-> n + 3, end |-> n + 4]
    <2>1. Then(<<Expr(Node.cond), b>>) /\ b.do = "trinaryCond"
      BY <1>5 DEF EncodeTrinary
    <2> HIDE DEF b
    <2>2. QED  BY <1>3, <2>1
  <1>6. CASE TrinaryCond
    <2> DEFINE b == [t EXCEPT !.do = "trinaryTrue"]
    <2>1. Then(<<>>) \/ Then(<<Expr(t.node.yes), b>>)
      BY <1>6 DEF TrinaryCond, Return
    <2>2. b.do = "trinaryTrue"
      <3>1. t \in Task /\ t.do = "trinaryCond"
        BY <1>6, RunningFacts DEF TrinaryCond
      <3>2. QED  BY <3>1 DEF Task
    <2> HIDE DEF b
    <2>3. QED  BY <1>2, <1>3, <2>1, <2>2
  <1>7. CASE TrinaryTrue
    <2> DEFINE b == [do |-> "trinaryFalse", node |-> t.node, yes |-> t.yes, no |-> t.no,
                     end |-> t.end, type |-> val.type]
    <2>1. Then(<<>>) \/ Then(<<Expr(t.node.no), b>>)
      BY <1>7 DEF TrinaryTrue, Return
    <2>2. b.do = "trinaryFalse"
      OBVIOUS
    <2> HIDE DEF b
    <2>3. QED  BY <1>2, <1>3, <2>1, <2>2
  <1>8. CASE TrinaryFalse
    BY <1>1, <1>2, <1>8 DEF TrinaryFalse, Return, Crash
  <1>9. QED  BY <1>4, <1>5, <1>6, <1>7, <1>8 DEF EncodeExpr

LEMMA SimpleTame ==
    ASSUME NEW live, NEW ends, Typed, Tame(live, ends), NoDeadCode(Program, live, ends),
           status' = "run",
           \/ EncodeNothing \/ EncodeRefused \/ EncodeSymbolDef \/ DefineSymbol
           \/ EncodeAssign \/ AssignRight \/ AssignStore \/ EncodeReturn \/ EmitReturn
           \/ EncodeBreak \/ EncodeContinue
    PROVE  Tame(live, ends)'
  <1>1. /\ todo # <<>> /\ status = "run" /\ Head(todo).do \notin FedKinds
        /\ ~Fail /\ ~Crash
    BY DEF EncodeNothing, EncodeRefused, EncodeSymbolDef, DefineSymbol, EncodeAssign, AssignRight,
           AssignStore, EncodeReturn, EmitReturn, EncodeBreak, EncodeContinue, IsStmt, Is, FedKinds,
           Fail, Crash
  <1>2. CASE Then(<<>>)
    BY <1>1, <1>2, TameReturn
  <1>3. ASSUME NEW e, NEW b, Then(<<Expr(e), b>>),
               \/ b.do \in {"define", "assignRight", "assignStore"}
               \/ b.do = "emitReturn" /\ MayEnd(Head(todo), ends)
        PROVE  Tame(live, ends)'
    <2> DEFINE a == Expr(e)
    <2>1. a.do = "expr" /\ Then(<<a, b>>)
      BY <1>3 DEF Expr
    <2> HIDE DEF a
    <2>2. b.do \notin StmtSteps /\ (MayEnd(b, ends) => MayEnd(Head(todo), ends))
      BY <1>3 DEF StmtSteps, LoopSteps, MayEnd
    <2>3. QED  BY <1>1, <2>1, <2>2, TameEnter
  <1>4. CASE EncodeNothing \/ DefineSymbol \/ AssignStore \/ EmitReturn \/ EncodeBreak \/ EncodeContinue
    BY <1>1, <1>2, <1>4 DEF EncodeNothing, DefineSymbol, AssignStore, EmitReturn, EncodeBreak,
       EncodeContinue, JumpTo
  <1>5. CASE EncodeRefused
    BY <1>1, <1>5 DEF EncodeRefused
  <1>6. CASE EncodeSymbolDef
    <2> DEFINE b == [do |-> "define", name |-> Node.name]
    <2>1. Then(<<Expr(Node.value), b>>) /\ b.do = "define"
      BY <1>1, <1>6 DEF EncodeSymbolDef
    <2> HIDE DEF b
    <2>2. QED  BY <1>3, <2>1
  <1>7. CASE EncodeAssign
    <2> DEFINE b == [do |-> "assignRight", node |-> Node.right]
    <2>1. Then(<<Expr(Node.left), b>>) /\ b.do = "assignRight"
      BY <1>7 DEF EncodeAssign
    <2> HIDE DEF b
    <2>2. QED  BY <1>3, <2>1
  <1>8. CASE AssignRight
    <2> DEFINE b == [do |-> "assignStore", left |-> val]
    <2>1. Then(<<Expr(Node), b>>) /\ b.do = "assignStore"
      BY <1>8 DEF AssignRight
    <2> HIDE DEF b
    <2>2. QED  BY <1>3, <2>1
  <1>9. CASE EncodeReturn
    <2> DEFINE b == [do |-> "emitReturn"]
    <2>1. Then(<<Expr(Node.value), b>>) /\ b.do = "emitReturn"
      BY <1>1, <1>9 DEF EncodeReturn
    <2>2. /\ todo \in Seq(Task) /\ Head(todo) = todo[1] /\ 1 \in DOMAIN todo
          /\ Head(todo).do = "stmt" /\ Head(todo).node.kind = "return"
      BY <1>9, RunningFacts DEF EncodeReturn, IsStmt, Is
    <2>3. Head(todo).node \in live
      BY <2>2 DEF Tame, StmtSteps
    <2>4. MayEnd(Head(todo), ends)
      BY <2>2, <2>3 DEF NoDeadCode, MayEnd
    <2> HIDE DEF b
    <2>5. QED  BY <1>3, <2>1, <2>4
  <1>10. QED  BY <1>4, <1>5, <1>6, <1>7, <1>8, <1>9

LEMMA BlockTame ==
    ASSUME NEW live, NEW ends, Typed, Tame(live, ends), NoDeadCode(Program, live, ends), EncodeBlock
    PROVE  Tame(live, ends)'
  <1> DEFINE s == Node
             body == [i \in DOMAIN s.body |-> Stmt(s.body[i])]
             last == [do |-> "endBlock"]
             next == body \o <<last>>
             S == Task \union {last} \union {Stmt(s.body[i]) : i \in DOMAIN s.body}
             n == Len(s.body)
  <1>1. Then(next) /\ Is("stmt") /\ s.kind = "block"
    BY DEF EncodeBlock, IsStmt, Is, Node
  <1>2. /\ s.body \in Seq(Statement) /\ todo \in Seq(Task) /\ todo # <<>> /\ Head(todo).do = "stmt"
        /\ Head(todo) = todo[1] /\ 1 \in DOMAIN todo /\ s = Head(todo).node
    BY <1>1, RunningFacts, TaskFields, SyntaxAssumption DEF Node
  <1>3. s \in live
    BY <1>2 DEF Tame, StmtSteps
  <1>4. Straight(s.body, live, ends) /\ (s.body # <<>> /\ s.body[n] \in ends => s \in ends)
    BY <1>1, <1>3 DEF NoDeadCode
  <1> HIDE DEF s
  <1>5. n \in Nat /\ DOMAIN s.body = 1 .. n
    BY <1>2
  <1> HIDE DEF n
  <1>6. body \in Seq(S) /\ Len(body) = n /\ last \in S
    <2>1. body \in [1 .. n -> S]
      BY <1>5
    <2>2. DOMAIN body = 1 .. n
      BY <1>5
    <2> HIDE DEF S, body
    <2>3. QED  BY <1>5, <2>1, <2>2 DEF S
  <1>7. \A i \in 1 .. n : body[i] = Stmt(s.body[i])
    BY <1>5
  <1>8. todo \in Seq(S) /\ last.do = "endBlock"
    BY <1>2
  <1> HIDE DEF body, last, S
  <1>9. /\ next \in Seq(S) /\ Len(next) = n + 1 /\ DOMAIN next = 1 .. n + 1
        /\ next[n + 1] = last /\ \A i \in 1 .. n : next[i] = Stmt(s.body[i])
    BY <1>5, <1>6, <1>7
  <1> HIDE DEF next
  <1>10. /\ todo' \in Seq(S) /\ Len(todo') \in Nat /\ todo'[n + 1].do = "endBlock"
    <2>1. todo' \in Seq(S) /\ \A x \in 1 .. Len(next) : todo'[x] = next[x]
      BY <1>1, <1>2, <1>8, <1>9, ThenAny
    <2>2. QED  BY <1>5, <1>8, <1>9, <2>1
  <1>11. ASSUME MayEnd(Head(todo), ends) PROVE Closes(todo', n + 1)
    <2>1. Closes(todo, 1 + 1)
      BY <1>2, <1>11 DEF Tame
    <2>2. 1 \in Nat /\ 1 # 0 /\ Len(next) + 1 = n + 2
      BY <1>5, <1>9
    <2>3. Closes(todo', Len(next) + 1)
      BY <1>1, <1>2, <1>8, <1>9, <2>1, <2>2, ClosesMoves
    <2>4. ASSUME NEW k \in n + 1 .. Len(todo')
          PROVE  todo'[k].do \in Closers \/ \E m \in n + 1 .. k - 1 : todo'[m].do \in Joints
      <3>1. CASE k = n + 1
        BY <1>10, <3>1 DEF Closers
      <3>2. CASE k # n + 1
        <4>1. k \in n + 2 .. Len(todo')
          BY <1>5, <1>10, <2>4, <3>2
        <4>2. todo'[k].do \in Closers \/ \E m \in n + 2 .. k - 1 : todo'[m].do \in Joints
          BY <2>2, <2>3, <4>1 DEF Closes
        <4>3. n + 2 .. k - 1 \subseteq n + 1 .. k - 1
          BY <1>5
        <4>4. QED  BY <4>2, <4>3
      <3>3. QED  BY <3>1, <3>2
    <2>5. QED  BY <2>4 DEF Closes
  <1>12. ASSUME NEW i \in DOMAIN next
         PROVE  /\ next[i].do \in StmtSteps => next[i].node \in live
                /\ MayEnd(next[i], ends) => Closes(todo', i + 1)
                /\ next[i].do \notin Consumers
    <2>1. CASE i = n + 1
      BY <1>8, <1>9, <2>1 DEF StmtSteps, LoopSteps, Consumers, MayEnd
    <2>2. CASE i \in 1 .. n
      <3>1. next[i].do = "stmt" /\ next[i].node = s.body[i] /\ s.body[i] \in live
        <4>1. next[i] = Stmt(s.body[i]) /\ i \in DOMAIN s.body
          BY <1>5, <1>9, <2>2
        <4>2. s.body[i] \in live
          BY <1>4, <4>1 DEF Straight
        <4>3. QED  BY <4>1, <4>2 DEF Stmt
      <3>2. ASSUME MayEnd(next[i], ends) PROVE Closes(todo', i + 1)
        <4>1. s.body[i] \in ends
          BY <3>1, <3>2 DEF MayEnd
        <4>2. i = n
          BY <1>4, <1>5, <2>2, <4>1 DEF Straight, n
        <4>3. s \in ends
          BY <1>4, <1>5, <2>2, <4>1, <4>2
        <4>4. QED  BY <1>2, <1>11, <4>2, <4>3 DEF MayEnd
      <3>3. QED  BY <3>1, <3>2 DEF Consumers
    <2>3. QED  BY <1>5, <1>9, <2>1, <2>2
  <1>13. Head(todo).do \notin FedKinds
    BY <1>2 DEF FedKinds
  <1>14. QED  BY <1>1, <1>2, <1>8, <1>9, <1>12, <1>13, TameStep

LEMMA BranchTame ==
    ASSUME NEW live, NEW ends, Typed, Tame(live, ends), NoDeadCode(Program, live, ends),
           status' = "run", EndBlock \/ EncodeIf \/ BranchCond \/ BranchTrue \/ BranchFalse
    PROVE  Tame(live, ends)'
  <1> DEFINE t == Head(todo)
             n == Len(blocks)
  <1>1. todo # <<>> /\ status = "run" /\ t.do \notin FedKinds /\ ~Fail
    BY DEF EndBlock, EncodeIf, BranchCond, BranchTrue, BranchFalse, IsStmt, Is, FedKinds, Fail
  <1>2. todo \in Seq(Task) /\ t = todo[1] /\ 1 \in DOMAIN todo /\ t \in Task
    BY <1>1, TypedParts DEF Parts
  <1>3. CASE EndBlock \/ BranchFalse
    BY <1>1, <1>3, TameReturn DEF EndBlock, BranchFalse
  <1>4. CASE EncodeIf
    <2> DEFINE a == Expr(Node.cond)
               b == [do |-> "branchCond", node |-> Node,
                     yes |-> n + 1, no |-> n + 2, end |-> n + 3]
    <2>1. Then(<<a, b>>) /\ t.do = "stmt"
      BY <1>4 DEF EncodeIf, IsStmt, Is
    <2>2. a.do = "expr" /\ b.do = "branchCond" /\ b.node \in live
      BY <1>2, <2>1 DEF Expr, Tame, StmtSteps, Node
    <2> HIDE DEF a, b
    <2>3. ~MayEnd(b, ends)
      BY <2>2 DEF MayEnd
    <2>4. QED  BY <1>1, <2>1, <2>2, <2>3, TameEnter
  <1>5. ASSUME t.do \in {"branchCond", "branchTrue"}
        PROVE  /\ t.node \in live /\ t.node.yes \in live /\ t.node.no \in live
               /\ \A tag : [t EXCEPT !.do = tag].do = tag /\ [t EXCEPT !.do = tag].node = t.node
    <2>1. t.node \in live
      BY <1>2, <1>5 DEF Tame, StmtSteps
    <2>2. t.node.kind = "if"
      BY <1>2, <1>5 DEF Typed, TypeOK, OfKind
    <2>3. QED  BY <1>2, <1>5, <2>1, <2>2 DEF NoDeadCode, Task, LoopSteps
  <1>6. ASSUME NEW s \in live, NEW tag \in {"branchTrue", "branchFalse"},
               t.do \in {"branchCond", "branchTrue"}, Then(<<Stmt(s), [t EXCEPT !.do = tag]>>)
        PROVE  Tame(live, ends)'
    <2> DEFINE a == Stmt(s)
               b == [t EXCEPT !.do = tag]
    <2>1. a.do = "stmt" /\ a.node = s /\ b.do = tag /\ b.node \in live /\ Then(<<a, b>>)
      BY <1>5, <1>6 DEF Stmt
    <2> HIDE DEF a, b
    <2>2. b.do \in Joints /\ b.do \notin Consumers /\ ~MayEnd(b, ends)
      BY <1>6, <2>1 DEF Joints, Consumers, MayEnd
    <2>3. QED  BY <1>1, <2>1, <2>2, TameEnter
  <1>7. CASE BranchCond
    <2>1. Then(<<Stmt(t.node.yes), [t EXCEPT !.do = "branchTrue"]>>) /\ t.do = "branchCond"
      BY <1>1, <1>7 DEF BranchCond, Is
    <2>2. QED  BY <1>5, <1>6, <2>1
  <1>8. CASE BranchTrue
    <2>1. Then(<<Stmt(t.node.no), [t EXCEPT !.do = "branchFalse"]>>) /\ t.do = "branchTrue"
      BY <1>8 DEF BranchTrue, Is
    <2>2. QED  BY <1>5, <1>6, <2>1
  <1>9. QED  BY <1>3, <1>4, <1>7, <1>8

LEMMA LoopTame ==
    ASSUME NEW live, NEW ends, Typed, Tame(live, ends), NoDeadCode(Program, live, ends),
           status' = "run", EncodeLoop \/ LoopCond \/ LoopBody \/ LoopStep \/ EndLoop
    PROVE  Tame(live, ends)'
  <1> DEFINE t == Head(todo)
             n == Len(blocks)
  <1>1. todo # <<>> /\ status = "run" /\ t.do \notin FedKinds /\ ~Fail
    BY DEF EncodeLoop, LoopCond, LoopBody, LoopStep, EndLoop, IsStmt, Is, FedKinds, Fail
  <1>2. todo \in Seq(Task) /\ t = todo[1] /\ 1 \in DOMAIN todo /\ t \in Task
    BY <1>1, TypedParts DEF Parts
  <1>3. ASSUME t.node.kind = "loop", t.do \in LoopSteps \union {"stmt"}
        PROVE  /\ {t.node, t.node.init, t.node.step, t.node.body} \subseteq live
               /\ t.node.init \notin ends /\ t.node.step \notin ends
    <2>1. t.node \in live
      BY <1>2, <1>3 DEF Tame, StmtSteps
    <2>2. QED  BY <1>3, <2>1 DEF NoDeadCode
  <1>4. ASSUME t.do \in LoopSteps
        PROVE  /\ t.node.kind = "loop"
               /\ \A tag : [t EXCEPT !.do = tag].do = tag /\ [t EXCEPT !.do = tag].node = t.node
    BY <1>2, <1>4 DEF Typed, TypeOK, OfKind, Task, LoopSteps
  <1>5. CASE EncodeLoop
    <2> DEFINE a == Stmt(t.node.init)
               b == [do |-> "loopCond", node |-> t.node, cond |-> n + 1,
                     step |-> n + 2, body |-> n + 3, end |-> n + 4,
                     oldContinue |-> continuePoint, oldBreak |-> breakPoint]
    <2>1. Then(<<a, b>>) /\ t.do = "stmt" /\ t.node.kind = "loop"
      BY <1>5 DEF EncodeLoop, IsStmt, Is, Node
    <2>2. /\ a.do = "stmt" /\ a.node \in live /\ a.node \notin ends
          /\ b.do = "loopCond" /\ b.node \in live
      BY <1>3, <2>1 DEF Stmt
    <2> HIDE DEF a, b
    <2>3. ~MayEnd(b, ends) /\ b.do \notin Consumers
      BY <2>2 DEF MayEnd, Consumers
    <2>4. QED  BY <1>1, <2>1, <2>2, <2>3, TameEnter
  <1>6. CASE LoopCond
    <2> DEFINE a == Expr(t.node.cond)
               b == [t EXCEPT !.do = "loopBody"]
    <2>1. Then(<<a, b>>) /\ t.do = "loopCond"
      BY <1>6 DEF LoopCond, Is
    <2>2. a.do = "expr" /\ b.do = "loopBody" /\ b.node \in live
      BY <1>3, <1>4, <2>1 DEF Expr, LoopSteps
    <2> HIDE DEF a, b
    <2>3. ~MayEnd(b, ends)
      BY <2>2 DEF MayEnd
    <2>4. QED  BY <1>1, <2>1, <2>2, <2>3, TameEnter
  <1>7. CASE LoopBody
    <2> DEFINE a == Stmt(t.node.body)
               b == [t EXCEPT !.do = "loopStep"]
    <2>1. Then(<<a, b>>) /\ t.do = "loopBody"
      BY <1>1, <1>7 DEF LoopBody, Is
    <2>2. a.do = "stmt" /\ a.node \in live /\ b.do = "loopStep" /\ b.node \in live
      BY <1>3, <1>4, <2>1 DEF Stmt, LoopSteps
    <2> HIDE DEF a, b
    <2>3. ~MayEnd(b, ends) /\ b.do \notin Consumers /\ b.do \in Joints
      BY <2>2 DEF MayEnd, Consumers, Joints
    <2>4. QED  BY <1>1, <2>1, <2>2, <2>3, TameEnter
  <1>8. CASE LoopStep
    <2> DEFINE a == Stmt(t.node.step)
               b == [t EXCEPT !.do = "endLoop"]
    <2>1. Then(<<a, b>>) /\ t.do = "loopStep"
      BY <1>8 DEF LoopStep, Is
    <2>2. /\ a.do = "stmt" /\ a.node \in live /\ a.node \notin ends
          /\ b.do = "endLoop" /\ b.node \in live
      BY <1>3, <1>4, <2>1 DEF Stmt, LoopSteps
    <2> HIDE DEF a, b
    <2>3. ~MayEnd(b, ends) /\ b.do \notin Consumers
      BY <2>2 DEF MayEnd, Consumers
    <2>4. QED  BY <1>1, <2>1, <2>2, <2>3, TameEnter
  <1>9. CASE EndLoop
    BY <1>1, <1>9, TameReturn DEF EndLoop
  <1>10. QED  BY <1>5, <1>6, <1>7, <1>8, <1>9

LEMMA InitTame ==
    ASSUME NEW live, NEW ends, Init, NoDeadCode(Program, live, ends)
    PROVE  Tame(live, ends) /\ Loose
  <1>1. /\ prog \in Seq(Statement) /\ Len(prog) \in Nat /\ Straight(prog, live, ends)
        /\ todo = [i \in 1 .. Len(prog) |-> Stmt(prog[i])] /\ blocks[activeBlock] = <<>>
    BY SyntaxAssumption DEF Init, NoDeadCode
  <1>2. /\ DOMAIN todo = 1 .. Len(prog) /\ Len(todo) = Len(prog)
        /\ \A i \in DOMAIN todo : todo[i].do = "stmt" /\ todo[i].node = prog[i]
    BY <1>1 DEF Stmt
  <1>3. ASSUME NEW i \in DOMAIN todo, MayEnd(todo[i], ends) PROVE Closes(todo, i + 1)
    <2>1. prog[i] \in ends
      BY <1>2, <1>3 DEF MayEnd
    <2>2. i = Len(todo)
      BY <1>1, <1>2, <2>1 DEF Straight
    <2>3. QED  BY <1>1, <1>2, <2>2 DEF Closes
  <1>4. \A i \in DOMAIN todo : todo[i].node \in live /\ todo[i].do \notin Consumers
    BY <1>1, <1>2 DEF Straight, Consumers
  <1>5. Tame(live, ends)
    BY <1>3, <1>4 DEF Tame
  <1>6. QED  BY <1>1, <1>5 DEF Loose, Terminated

-------------------------------------------------------------------------------
(* What a step writes, and how it leaves the block of the insertion point.   *)

LEMMA EmitsElsewhere ==
    ASSUME NEW bl, NEW b, NEW ins, NEW c \in DOMAIN bl, c # b
    PROVE  Emitted(bl, b, ins)[c] = bl[c] /\ c \in DOMAIN Emitted(bl, b, ins)
  BY DEF Emitted

\* Only the block of the insertion point, or one a trinary is about to enter.
WritesHere ==
    \A b \in Block : \/ b = activeBlock
                     \/ Is("trinaryFalse") /\ b = Head(todo).end
                     \/ blocks'[b] = blocks[b]

LEMMA HereFacts ==
    ASSUME Typed
    PROVE  /\ blocks \in Code /\ DOMAIN blocks = Block /\ activeBlock \in Block
           /\ Len(blocks) \in Nat /\ Block = 1 .. Len(blocks)
  BY DEF Typed, TypeOK, Code, Block

LEMMA EmitsHere ==
    ASSUME Typed,
           \/ blocks' = blocks
           \/ \E ins : blocks' = Emitted(blocks, activeBlock, ins)
           \/ \E ins, more : blocks' = Emitted(Emitted(blocks, activeBlock, ins), activeBlock, more)
    PROVE  WritesHere
  BY HereFacts, EmitsElsewhere DEF WritesHere

LEMMA CreatesHere ==
    ASSUME Typed, NEW k \in Nat,
           blocks' = Created(blocks, k) \/ \E ins : blocks' = Emitted(Created(blocks, k), activeBlock, ins)
    PROVE  WritesHere
  <1>1. ASSUME NEW b \in Block
        PROVE  b \in DOMAIN Created(blocks, k) /\ Created(blocks, k)[b] = blocks[b]
    <2>1. /\ Created(blocks, k) \in Code /\ Len(Created(blocks, k)) = Len(blocks) + k
          /\ \A c \in 1 .. Len(blocks) : Created(blocks, k)[c] = blocks[c]
      BY HereFacts, CreatedFacts
    <2>2. DOMAIN Created(blocks, k) = 1 .. Len(blocks) + k
      BY <2>1 DEF Code
    <2>3. b \in 1 .. Len(blocks) /\ Len(blocks) \in Nat
      BY HereFacts
    <2>4. QED  BY <2>1, <2>2, <2>3
  <1>2. QED  BY <1>1, EmitsElsewhere DEF WritesHere

LEMMA JoinsHere ==
    ASSUME Typed, NEW b \in Block, NEW target \in Nat, blocks' = Joined(blocks, b, target)
    PROVE  WritesHere
  <1>1. blocks \in Code /\ activeBlock \in 1 .. Len(blocks) /\ b \in 1 .. Len(blocks) /\ Block = 1 .. Len(blocks)
    BY HereFacts
  <1>2. \A c \in 1 .. Len(blocks) : c # activeBlock => Joined(blocks, b, target)[c] = blocks[c]
    BY <1>1, JoinedFacts
  <1>3. QED  BY <1>1, <1>2 DEF WritesHere

(* The blocks the running task awaits or left are blocks.                     *)
LEMMA HeadAwaits ==
    ASSUME Typed, NEW tag, Is(tag)
    PROVE  PendingOf(Head(todo)) \union EnteredOf(Head(todo)) \subseteq Block \intersect Nat
  BY RunningFacts DEF Sound, Block

(* A joint puts the jumps from a block it left to one it awaits.              *)
LEMMA JointFacts ==
    ASSUME BranchTrue \/ BranchFalse \/ LoopStep
    PROVE  /\ Head(todo).do \in Joints
           /\ \E from \in EnteredOf(Head(todo)), target \in PendingOf(Head(todo)) :
                  blocks' = Joined(blocks, from, target)
           /\ activeBlock' \in PendingOf(Head(todo))
  BY DEF BranchTrue, BranchFalse, LoopStep, Is, EnteredOf, PendingOf, Joints

LEMMA ExprWrites == Typed /\ EncodeExpr => WritesHere
  <1> SUFFICES ASSUME Typed, EncodeExpr PROVE WritesHere
    OBVIOUS
  <1> DEFINE t == Head(todo)
  <1>1. CASE EncodeCalc \/ EncodeSymbolRef \/ EncodeUnsupported
    BY <1>1, EmitsHere DEF EncodeCalc, EncodeSymbolRef, EncodeUnsupported, emission
  <1>2. CASE EncodeTrinary
    BY <1>2, CreatesHere DEF EncodeTrinary
  <1>3. CASE TrinaryCond
    BY <1>3, EmitsHere DEF TrinaryCond, emission
  <1>4. CASE TrinaryTrue
    BY <1>4, EmitsHere DEF TrinaryTrue, emission
  <1>5. CASE TrinaryFalse
    <2> DEFINE bl == Emitted(blocks, activeBlock, Loads(val) \o <<Br(t.end)>>)
    <2>1. /\ Is("trinaryFalse")
          /\ blocks' = blocks \/ blocks' = bl \/ \E phi : blocks' = Emitted(bl, t.end, <<phi>>)
      BY <1>5 DEF TrinaryFalse, emission, Crash
    <2>2. \A b \in Block : b # activeBlock => bl[b] = blocks[b] /\ b \in DOMAIN bl
      BY HereFacts, EmitsElsewhere
    <2> HIDE DEF bl
    <2>3. ASSUME NEW b \in Block, b # activeBlock, b # t.end PROVE blocks'[b] = blocks[b]
      <3>1. CASE blocks' = blocks \/ blocks' = bl
        BY <2>2, <2>3, <3>1
      <3>2. ASSUME NEW phi, blocks' = Emitted(bl, t.end, <<phi>>) PROVE blocks'[b] = blocks[b]
        <4>1. Emitted(bl, t.end, <<phi>>)[b] = bl[b]
          BY <2>2, <2>3, EmitsElsewhere
        <4>2. QED  BY <2>2, <2>3, <3>2, <4>1
      <3>3. QED  BY <2>1, <3>1, <3>2
    <2>4. QED  BY <2>1, <2>3 DEF WritesHere
  <1>6. QED  BY <1>1, <1>2, <1>3, <1>4, <1>5 DEF EncodeExpr

LEMMA StmtWrites == Typed /\ EncodeStmt => WritesHere
  <1> SUFFICES ASSUME Typed, EncodeStmt PROVE WritesHere
    OBVIOUS
  <1> DEFINE t == Head(todo)
  <1>1. CASE EncodeNothing \/ EncodeRefused \/ EncodeSymbolDef \/ EncodeAssign \/ AssignRight
             \/ EncodeReturn \/ EncodeBlock \/ EndBlock
    BY <1>1, EmitsHere DEF EncodeNothing, EncodeRefused, EncodeSymbolDef, EncodeAssign, AssignRight,
       EncodeReturn, EncodeBlock, EndBlock, Fail, emission
  <1>2. CASE DefineSymbol
    BY <1>2, EmitsHere DEF DefineSymbol, Fail, emission
  <1>3. CASE AssignStore \/ EmitReturn \/ EncodeBreak \/ EncodeContinue
    BY <1>3, EmitsHere DEF AssignStore, EmitReturn, EncodeBreak, EncodeContinue, JumpTo,
       Fail, Crash, emission
  <1>4. CASE BranchCond \/ LoopCond \/ LoopBody \/ EndLoop
    BY <1>4, EmitsHere DEF BranchCond, LoopCond, LoopBody, EndLoop, Fail, emission
  <1>5. CASE EncodeIf \/ EncodeLoop
    BY <1>5, CreatesHere DEF EncodeIf, EncodeLoop
  <1>6. CASE BranchTrue \/ BranchFalse \/ LoopStep
    <2>1. PICK from \in EnteredOf(t), target \in PendingOf(t) : blocks' = Joined(blocks, from, target)
      BY <1>6, JointFacts
    <2>2. from \in Block /\ target \in Block /\ target \in Nat
      BY <1>6, HeadAwaits DEF BranchTrue, BranchFalse, LoopStep
    <2>3. QED  BY <2>1, <2>2, JoinsHere
  <1>7. QED  BY <1>1, <1>2, <1>3, <1>4, <1>5, <1>6 DEF EncodeStmt

(* With something to write, the builder stands in an open block.             *)
LEMMA HeadIsOpen ==
    ASSUME Typed, Loose, todo # <<>>, Head(todo).do \notin Closers
    PROVE  ~Terminated(blocks[activeBlock])
  <1>1. todo \in Seq(Task) /\ 1 \in 1 .. Len(todo) /\ Head(todo) = todo[1]
    BY TypedParts DEF Parts
  <1>2. SUFFICES ASSUME Closes(todo, 1) PROVE FALSE
    BY DEF Loose
  <1>3. todo[1].do \in Closers \/ \E m \in 1 .. 1 - 1 : todo[m].do \in Joints
    BY <1>1, <1>2 DEF Closes
  <1>4. QED  BY <1>1, <1>3

LEMMA AppendOpen ==
    ASSUME NEW S, NEW s \in Seq(S), NEW ins \in Seq(S), ~Terminated(s),
           \A i \in DOMAIN ins : ~IsTerminator(ins[i])
    PROVE  ~Terminated(s \o ins)
  <1>1. CASE ins = <<>>
    BY <1>1
  <1>2. CASE ins # <<>>
    <2>1. Len(ins) \in DOMAIN ins /\ Len(s \o ins) = Len(s) + Len(ins)
          /\ (s \o ins)[Len(s) + Len(ins)] = ins[Len(ins)]
      BY <1>2
    <2>2. QED  BY <2>1 DEF Terminated
  <1>3. QED  BY <1>1, <1>2

LEMMA EmptyIsOpen == ~Terminated(<<>>)
  BY DEF Terminated

\* Nothing written or only pure instructions: the block stays open.
LEMMA StaysOpen ==
    ASSUME Typed, ~Terminated(blocks[activeBlock]), NEW ins \in Seq(Instruction),
           blocks' = Emitted(blocks, activeBlock, ins), activeBlock' = activeBlock,
           \A i \in DOMAIN ins : ~IsTerminator(ins[i])
    PROVE  ~Terminated(blocks'[activeBlock'])
  <1>1. blocks \in Code /\ activeBlock \in 1 .. Len(blocks)
    BY HereFacts
  <1>2. blocks'[activeBlock] = blocks[activeBlock] \o ins
    BY <1>1, EmittedFacts
  <1>3. blocks[activeBlock] \in Seq(Instruction)
    BY <1>1 DEF Code
  <1>4. QED  BY <1>2, <1>3, AppendOpen

\* The builder has gone to a block that was awaited.
LEMMA EntersOpen ==
    ASSUME Typed, Fresh, WritesHere, NEW tag, Is(tag), tag # "trinaryFalse",
           activeBlock' \in PendingOf(Head(todo))
    PROVE  ~Terminated(blocks'[activeBlock'])
  <1>1. activeBlock' \in Pending
    <2>1. todo \in Seq(Task) /\ 1 \in DOMAIN todo /\ Head(todo) = todo[1]
      BY RunningFacts
    <2>2. QED  BY <2>1 DEF Pending, PendingIn
  <1>2. activeBlock' \in Block
    BY HeadAwaits
  <1>3. blocks'[activeBlock'] = <<>>
    BY <1>1, <1>2 DEF Fresh, WritesHere, Is
  <1>4. QED  BY <1>3, EmptyIsOpen

LEMMA LoadsAreOpen ==
    ASSUME NEW v \in Value
    PROVE  Loads(v) \in Seq(Instruction) /\ \A i \in DOMAIN Loads(v) : ~IsTerminator(Loads(v)[i])
  BY LoadsType DEF Loads, Load, IsTerminator

LEMMA CalcLoose ==
    ASSUME Typed, Typed', ~Terminated(blocks[activeBlock]), EncodeCalc
    PROVE  ~Terminated(blocks'[activeBlock'])
  <1> DEFINE syms == [i \in DOMAIN Node.reads |-> Lookup(Node.reads[i])]
             ins == [i \in DOMAIN syms |-> Load(syms[i].cell)]
  <1>1. /\ activeBlock' = activeBlock
        /\ blocks' = blocks \/ blocks' = Emitted(blocks, activeBlock, ins)
    BY DEF EncodeCalc
  <1>2. Is("expr") /\ Node.kind = "calc"
    BY DEF EncodeCalc, IsExpr, Is, Node
  <1>3. Node.reads \in Seq(Name)
    BY <1>2, RunningFacts, TaskFields, SyntaxAssumption DEF Node
  <1> DEFINE n == Len(Node.reads)
             S == Instruction \union {ins[i] : i \in 1 .. n}
  <1>4. n \in Nat /\ ins \in [1 .. n -> S]
    BY <1>3
  <1>5. DOMAIN ins = 1 .. n /\ \A i \in DOMAIN ins : ~IsTerminator(ins[i])
    BY <1>3 DEF Load, IsTerminator
  <1>6. blocks \in Code /\ activeBlock \in DOMAIN blocks /\ blocks[activeBlock] \in Seq(Instruction)
    BY HereFacts DEF Code
  <1>7. blocks[activeBlock] \in Seq(S)
    BY <1>6
  <1> HIDE DEF ins, S, n
  <1>8. ins \in Seq(S)
    BY <1>4
  <1>9. ~Terminated(blocks[activeBlock] \o ins)
    BY <1>5, <1>7, <1>8, AppendOpen
  <1>10. Emitted(blocks, activeBlock, ins)[activeBlock] = blocks[activeBlock] \o ins
    BY <1>6 DEF Emitted
  <1>11. QED  BY <1>1, <1>9, <1>10

LEMMA TrinaryLoose ==
    ASSUME Typed, Typed', Fresh, WritesHere, ~Terminated(blocks[activeBlock]), status' = "run",
           EncodeTrinary \/ TrinaryCond \/ TrinaryTrue \/ TrinaryFalse
    PROVE  ~Terminated(blocks'[activeBlock'])
  <1> DEFINE t == Head(todo)
             n == Len(blocks)
  <1>1. blocks \in Code /\ activeBlock \in 1 .. n /\ n \in Nat
    BY HereFacts
  <1>2. CASE UNCHANGED emission
    BY <1>2 DEF emission
  <1>3. CASE EncodeTrinary
    <2>1. blocks' = Emitted(Created(blocks, 4), activeBlock, <<Br(n + 1)>>) /\ activeBlock' = n + 1
      BY <1>3 DEF EncodeTrinary
    <2> DEFINE k == 4
               bl == Created(blocks, k)
    <2>2. k \in Nat /\ n + 1 \in n + 1 .. n + k /\ n + 1 # activeBlock
      BY <1>1
    <2> HIDE DEF k
    <2>3. bl \in Code /\ Len(bl) = n + k /\ \A c \in n + 1 .. n + k : bl[c] = <<>>
      BY <1>1, <2>2, CreatedFacts
    <2> HIDE DEF bl
    <2>4. n + 1 \in DOMAIN bl /\ bl[n + 1] = <<>>
      <3>1. DOMAIN bl = 1 .. n + k
        BY <2>3 DEF Code
      <3>2. n + 1 \in 1 .. n + k
        BY <1>1, <2>2
      <3>3. QED  BY <2>2, <2>3, <3>1, <3>2
    <2>5. n + 1 \in DOMAIN Created(blocks, 4) /\ Created(blocks, 4)[n + 1] = <<>>
      BY <2>4 DEF bl, k
    <2>6. QED  BY <2>1, <2>2, <2>5, EmitsElsewhere, EmptyIsOpen
  <1>4. CASE TrinaryCond \/ TrinaryTrue
    <2>1. Is("trinaryCond") \/ Is("trinaryTrue")
      BY <1>4 DEF TrinaryCond, TrinaryTrue
    <2>2. \/ UNCHANGED emission
          \/ activeBlock' \in PendingOf(t)
          \/ /\ val # NoValue /\ blocks' = Emitted(blocks, activeBlock, Loads(val))
             /\ activeBlock' = activeBlock
      BY <1>4 DEF TrinaryCond, TrinaryTrue, Is, PendingOf
    <2>3. val # NoValue => val \in Value
      BY <2>1, RunningFacts
    <2>4. QED  BY <1>2, <2>1, <2>2, <2>3, EntersOpen, StaysOpen, LoadsAreOpen
  <1>5. CASE TrinaryFalse
    <2> DEFINE bl == Emitted(blocks, activeBlock, Loads(val) \o <<Br(t.end)>>)
    <2>1. /\ Is("trinaryFalse")
          /\ \/ UNCHANGED emission
             \/ activeBlock' = t.end /\ blocks' = bl
             \/ activeBlock' = t.end /\ \E phi \in Incomings(t) : blocks' = Emitted(bl, t.end, <<phi>>)
      BY <1>5 DEF TrinaryFalse, Crash
    <2>2. t.end \in Block /\ t.end # activeBlock /\ blocks[t.end] = <<>>
      <3>1. t.end \in PendingOf(t)
        BY <2>1 DEF PendingOf, Is
      <3>2. todo \in Seq(Task) /\ 1 \in DOMAIN todo /\ t = todo[1]
        BY <2>1, RunningFacts
      <3>3. t.end \in Pending
        BY <3>1, <3>2 DEF Pending, PendingIn
      <3>4. QED  BY <2>1, <3>1, <3>3, HeadAwaits DEF Fresh
    <2>3. t.end \in DOMAIN bl /\ bl[t.end] = <<>>
      BY <2>2, HereFacts, EmitsElsewhere
    <2>4. ASSUME NEW phi \in Incomings(t), blocks' = Emitted(bl, t.end, <<phi>>)
          PROVE  ~Terminated(blocks'[t.end])
      <3> HIDE DEF bl
      <3>1. blocks'[t.end] = <<>> \o <<phi>>
        BY <2>3, <2>4 DEF Emitted
      <3>2. ~IsTerminator(phi)
        BY <2>4 DEF Incomings, Phi, IsTerminator
      <3>3. <<>> \in Seq({phi}) /\ <<phi>> \in Seq({phi}) /\ \A i \in DOMAIN <<phi>> : <<phi>>[i] = phi
        OBVIOUS
      <3>4. QED  BY <3>1, <3>2, <3>3, EmptyIsOpen, AppendOpen
    <2>5. QED  BY <1>2, <2>1, <2>3, <2>4, EmptyIsOpen
  <1>6. QED  BY <1>3, <1>4, <1>5

LEMMA StoreLoose ==
    ASSUME Typed, ~Terminated(blocks[activeBlock]), status' = "run", DefineSymbol \/ AssignStore
    PROVE  ~Terminated(blocks'[activeBlock'])
  <1> DEFINE end == blocks[activeBlock]
             S(i) == Instruction \union {i}
  <1>1. blocks \in Code /\ activeBlock \in DOMAIN blocks /\ end \in Seq(Instruction)
    BY HereFacts DEF Code
  <1>2. /\ val \in Value /\ activeBlock' = activeBlock
        /\ \E i, pre : /\ blocks'[activeBlock] = (end \o (Loads(val) \o pre)) \o <<i>>
                       /\ pre \in {<<>>, <<Alloca>>} /\ ~IsTerminator(i)
    <2>1. CASE DefineSymbol
      <3> DEFINE bl == Emitted(blocks, activeBlock, Loads(val) \o <<Alloca>>)
                 cell == <<activeBlock, Len(bl[activeBlock])>>
      <3>1. val # NoValue /\ Is("define") /\ activeBlock' = activeBlock
            /\ blocks' = Emitted(bl, activeBlock, <<Store(cell)>>)
        BY <2>1 DEF DefineSymbol, Fail
      <3>2. activeBlock \in DOMAIN bl /\ bl[activeBlock] = end \o (Loads(val) \o <<Alloca>>)
        BY <1>1 DEF Emitted
      <3> HIDE DEF bl
      <3>3. blocks'[activeBlock] = bl[activeBlock] \o <<Store(cell)>>
        BY <3>1, <3>2 DEF Emitted
      <3>4. val \in Value
        BY <3>1, RunningFacts
      <3>5. ~IsTerminator(Store(cell))
        BY DEF Store, IsTerminator
      <3> HIDE DEF end, cell
      <3>6. QED  BY <3>1, <3>2, <3>3, <3>4, <3>5
    <2>2. CASE AssignStore
      <3> DEFINE i == StoreOf(val, Head(todo).left)
      <3>1. val # NoValue /\ Is("assignStore") /\ activeBlock' = activeBlock
            /\ blocks' = Emitted(blocks, activeBlock, Loads(val) \o <<i>>)
        BY <2>2 DEF AssignStore, Fail, Crash
      <3>2. val \in Value
        BY <3>1, RunningFacts
      <3>3. ~IsTerminator(i)
        BY DEF StoreOf, Store, IllStore, IsTerminator
      <3> HIDE DEF i
      <3>4. blocks'[activeBlock] = end \o (Loads(val) \o <<i>>)
        BY <1>1, <3>1 DEF Emitted
      <3>5. Loads(val) \in Seq(Instruction)
        BY <3>2, LoadsType
      <3> DEFINE T == Instruction \union {i}
      <3>6. end \in Seq(T) /\ Loads(val) \in Seq(T) /\ <<i>> \in Seq(T)
        BY <1>1, <3>5
      <3> HIDE DEF end, T
      <3>7. end \o (Loads(val) \o <<i>>) = (end \o (Loads(val) \o <<>>)) \o <<i>>
        BY <3>6
      <3>8. QED  BY <3>1, <3>2, <3>4, <3>7, <3>3
    <2>3. QED  BY <2>1, <2>2
  <1>3. PICK i, pre : /\ blocks'[activeBlock] = (end \o (Loads(val) \o pre)) \o <<i>>
                      /\ pre \in {<<>>, <<Alloca>>} /\ ~IsTerminator(i)
    BY <1>2
  <1>4. Loads(val) \in Seq(Instruction) /\ pre \in Seq(Instruction)
    <2>1. <<>> \in Seq(Instruction) /\ <<Alloca>> \in Seq(Instruction)
      BY InstructionTypes
    <2>2. QED  BY <1>2, <1>3, <2>1, LoadsType
  <1> DEFINE s == end \o (Loads(val) \o pre)
  <1>5. s \in Seq(Instruction)
    BY <1>1, <1>4
  <1>6. Len(s \o <<i>>) = Len(s) + 1 /\ (s \o <<i>>)[Len(s) + 1] = i
    <2> HIDE DEF s
    <2>1. s \in Seq(S(i)) /\ <<i>> \in Seq(S(i))
      BY <1>5
    <2> HIDE DEF S
    <2>2. QED  BY <2>1
  <1> HIDE DEF s
  <1>7. ~Terminated(s \o <<i>>)
    BY <1>3, <1>6 DEF Terminated
  <1>8. QED  BY <1>2, <1>3, <1>7 DEF s

LEMMA StepLoose ==
    ASSUME NEW live, NEW ends, Typed, Typed', Fresh, Tame(live, ends), Loose,
           NoDeadCode(Program, live, ends), EncodeExpr \/ EncodeStmt, status' = "run"
    PROVE  Loose'
  <1> DEFINE t == Head(todo)
  <1>1. todo # <<>> /\ status = "run" /\ WritesHere
    BY StepsRun, ExprWrites, StmtWrites
  <1>2. /\ todo \in Seq(Task) /\ t = todo[1] /\ 1 \in DOMAIN todo /\ t \in Task
        /\ activeBlock \in Block
    BY <1>1, TypedParts, HereFacts DEF Parts
  <1>3. ~Fail /\ ~Crash
    BY DEF Fail, Crash
  <1>4. SUFFICES ASSUME Terminated(blocks'[activeBlock']) PROVE Closes(todo', 1)
    BY DEF Loose
  <1>5. CASE EncodeExpr \/ DefineSymbol \/ AssignStore
    <2>1. t.do \notin Closers
      BY <1>5 DEF EncodeExpr, EncodeCalc, EncodeSymbolRef, EncodeUnsupported, EncodeTrinary, TrinaryCond,
         TrinaryTrue, TrinaryFalse, DefineSymbol, AssignStore, IsExpr, Is, Closers, Joints
    <2>2. ~Terminated(blocks[activeBlock])
      BY <1>1, <2>1, HeadIsOpen
    <2>3. CASE EncodeCalc
      <3>1. activeBlock' = activeBlock
        BY <2>3 DEF EncodeCalc
      <3>2. QED  BY <1>4, <2>2, <2>3, <3>1, CalcLoose
    <2>4. CASE EncodeTrinary \/ TrinaryCond \/ TrinaryTrue \/ TrinaryFalse
      BY <1>1, <1>4, <2>2, <2>4, TrinaryLoose
    <2>5. CASE EncodeSymbolRef \/ EncodeUnsupported
      BY <1>4, <2>2, <2>5 DEF EncodeSymbolRef, EncodeUnsupported, emission
    <2>6. CASE DefineSymbol \/ AssignStore
      BY <1>4, <2>2, <2>6, StoreLoose
    <2>7. QED  BY <1>5, <2>3, <2>4, <2>5, <2>6 DEF EncodeExpr
  <1>6. CASE EncodeNothing \/ EncodeRefused \/ EncodeSymbolDef \/ EncodeAssign \/ AssignRight
             \/ EncodeReturn \/ EncodeBlock
    <2>1. t.do \notin Closers /\ UNCHANGED emission
      BY <1>3, <1>6 DEF EncodeNothing, EncodeRefused, EncodeSymbolDef, EncodeAssign, AssignRight, EncodeReturn,
         EncodeBlock, IsStmt, Is, Closers, Joints
    <2>2. QED  BY <1>1, <1>4, <2>1, HeadIsOpen DEF emission
  <1>7. CASE EncodeIf \/ EncodeLoop
    <2>1. t.do \notin Closers /\ activeBlock' = activeBlock /\ \E k \in Nat : blocks' = Created(blocks, k)
      BY <1>7 DEF EncodeIf, EncodeLoop, IsStmt, Is, Closers, Joints
    <2>2. blocks'[activeBlock] = blocks[activeBlock]
      <3>1. PICK k \in Nat : blocks' = Created(blocks, k)
        BY <2>1
      <3>2. blocks \in Code /\ activeBlock \in 1 .. Len(blocks)
        BY HereFacts
      <3>3. Created(blocks, k)[activeBlock] = blocks[activeBlock]
        BY <3>2, CreatedFacts
      <3>4. QED  BY <3>1, <3>3
    <2>3. QED  BY <1>1, <1>4, <2>1, <2>2, HeadIsOpen
  <1>8. CASE BranchCond \/ BranchTrue \/ BranchFalse \/ LoopCond \/ LoopBody \/ LoopStep \/ EndLoop
    <2>1. PICK tag \in {"branchCond", "branchTrue", "branchFalse"} \union LoopSteps : Is(tag)
      BY <1>8 DEF BranchCond, BranchTrue, BranchFalse, LoopCond, LoopBody, LoopStep, EndLoop, LoopSteps
    <2>2. activeBlock' \in PendingOf(t)
      BY <1>3, <1>8 DEF BranchCond, BranchTrue, BranchFalse, LoopCond, LoopBody, LoopStep, EndLoop, Is, PendingOf
    <2>3. tag # "trinaryFalse"
      BY DEF LoopSteps
    <2>4. QED  BY <1>1, <1>4, <2>1, <2>2, <2>3, EntersOpen
  <1>9. ASSUME Then(<<>>), Closes(todo, 1 + 1) PROVE Closes(todo', 1)
    <2> DEFINE next == <<>>
    <2>1. next \in Seq(Task) /\ Len(next) + 1 = 1 /\ Then(next) /\ 1 \in Nat /\ 1 # 0
      BY <1>9
    <2> HIDE DEF next
    <2>2. Closes(todo', Len(next) + 1)
      BY <1>1, <1>2, <1>9, <2>1, ClosesMoves
    <2>3. QED  BY <2>1, <2>2
  <1>10. CASE EmitReturn \/ EncodeBreak \/ EncodeContinue
    <2>1. Then(<<>>)
      BY <1>3, <1>10 DEF EmitReturn, EncodeBreak, EncodeContinue, JumpTo
    <2>2. MayEnd(t, ends)
      <3>1. CASE EmitReturn
        BY <3>1 DEF EmitReturn, Is, MayEnd
      <3>2. CASE EncodeBreak \/ EncodeContinue
        <4>1. t.do = "stmt" /\ t.node.kind \in {"break", "continue"}
          BY <3>2 DEF EncodeBreak, EncodeContinue, IsStmt, Is
        <4>2. t.node \in live
          BY <1>2, <4>1 DEF Tame, StmtSteps
        <4>3. QED  BY <4>1, <4>2 DEF NoDeadCode, MayEnd
      <3>3. QED  BY <1>10, <3>1, <3>2
    <2>3. QED  BY <1>2, <1>9, <2>1, <2>2 DEF Tame
  <1>11. CASE EndBlock
    <2>1. Then(<<>>) /\ t.do = "endBlock" /\ blocks' = blocks /\ activeBlock' = activeBlock
      BY <1>11 DEF EndBlock, Is, emission
    <2>2. Closes(todo, 1)
      BY <1>4, <2>1 DEF Loose
    <2>3. ASSUME NEW k \in 1 + 1 .. Len(todo)
          PROVE  todo[k].do \in Closers \/ \E m \in 1 + 1 .. k - 1 : todo[m].do \in Joints
      <3>1. k \in 1 .. Len(todo) /\ \A m \in 1 .. k - 1 : m = 1 \/ m \in 1 + 1 .. k - 1
        OBVIOUS
      <3>2. todo[1].do \notin Joints
        BY <1>2, <2>1 DEF Joints
      <3>3. QED  BY <2>2, <3>1, <3>2 DEF Closes
    <2>4. Closes(todo, 1 + 1)
      BY <2>3 DEF Closes
    <2>5. QED  BY <1>9, <2>1, <2>4
  <1>12. QED  BY <1>5, <1>6, <1>7, <1>8, <1>10, <1>11 DEF EncodeStmt

(* Where the tasks end in a joint, no expression is under way that failed, so *)
(* every block the joint left is terminated already.                         *)
LEMMA JointIsSealed ==
    ASSUME NEW live, NEW ends, Typed, Graph, Tame(live, ends), todo # <<>>, status = "run",
           Head(todo).do \in Joints
    PROVE  Sealed
  <1>1. todo \in Seq(Task) /\ Head(todo) = todo[1] /\ 1 \in DOMAIN todo /\ Len(todo) \in Nat
    BY TypedParts DEF Parts
  <1>2. Head(todo).do \notin FedKinds /\ Head(todo).do \notin Consumers /\ Head(todo).do # "assignStore"
    BY DEF Joints, FedKinds, Consumers
  <1>3. ASSUME NEW i \in DOMAIN todo, todo[i].do = "assignStore" PROVE FALSE
    <2>1. i # 1 /\ 1 \in 1 .. i - 1
      BY <1>1, <1>2, <1>3
    <2>2. todo[1].do \in FedKinds
      BY <1>3, <2>1 DEF Tame, Consumers
    <2>3. QED  BY <1>1, <1>2, <2>2
  <1>4. ~Doomed
    BY <1>2, <1>3 DEF Doomed
  <1>5. QED  BY <1>4 DEF Graph

(* The jumps of a joint write no block that has its terminator.               *)
LEMMA JointKeeps ==
    ASSUME Typed, Sealed, BranchTrue \/ BranchFalse \/ LoopStep, Terminated(blocks[activeBlock])
    PROVE  blocks' = blocks
  <1>1. PICK from \in EnteredOf(Head(todo)), target \in PendingOf(Head(todo)) :
            blocks' = Joined(blocks, from, target)
    BY JointFacts
  <1>2. from \in Block
    BY HeadAwaits DEF BranchTrue, BranchFalse, LoopStep
  <1>3. from \notin Pending
    <2>1. todo \in Seq(Task) /\ 1 \in DOMAIN todo /\ Head(todo) = todo[1]
      BY RunningFacts DEF BranchTrue, BranchFalse, LoopStep
    <2>2. \A j \in DOMAIN todo : EnteredOf(todo[1]) \intersect PendingOf(todo[j]) = {}
      BY <2>1 DEF Sealed, Apart
    <2>3. QED  BY <1>1, <2>1, <2>2 DEF Pending, PendingIn
  <1>4. Terminated(blocks[from])
    BY <1>2, <1>3 DEF Sealed
  <1>5. QED  BY <1>1, <1>4 DEF Joined

(* One step: no terminated block is written.                                  *)
TerminatedStay == \A b \in Block : Terminated(blocks[b]) => blocks'[b] = blocks[b]

LEMMA StepKeeps ==
    ASSUME NEW live, NEW ends, Typed, Graph, Tame(live, ends), Loose, EncodeExpr \/ EncodeStmt
    PROVE  TerminatedStay
  <1> DEFINE t == Head(todo)
  <1>1. todo # <<>> /\ status = "run" /\ WritesHere
    BY StepsRun, ExprWrites, StmtWrites
  <1>2. ASSUME NEW b \in Block, Terminated(blocks[b]), Is("trinaryFalse"), b = t.end PROVE FALSE
    <2>1. todo \in Seq(Task) /\ 1 \in DOMAIN todo /\ t = todo[1]
      BY <1>2, RunningFacts
    <2>2. b \in Pending
      BY <1>2, <2>1 DEF Pending, PendingIn, PendingOf, Is
    <2>3. QED  BY <1>2, <2>2, EmptyIsOpen DEF Graph, Fresh
  <1>3. ASSUME Terminated(blocks[activeBlock]) PROVE blocks'[activeBlock] = blocks[activeBlock]
    <2>1. t.do \in Closers
      BY <1>1, <1>3, HeadIsOpen
    <2>2. CASE EndBlock
      BY <2>2 DEF EndBlock, emission
    <2>3. CASE BranchTrue \/ BranchFalse \/ LoopStep
      BY <1>1, <1>3, <2>3, JointFacts, JointIsSealed, JointKeeps
    <2>4. EndBlock \/ BranchTrue \/ BranchFalse \/ LoopStep
      BY <2>1 DEF Closers, Joints, EncodeExpr, EncodeStmt, EncodeCalc, EncodeSymbolRef, EncodeUnsupported,
         EncodeTrinary, TrinaryCond, TrinaryTrue, TrinaryFalse, EncodeNothing, EncodeRefused,
         EncodeSymbolDef, DefineSymbol, EncodeAssign, AssignRight, AssignStore, EncodeReturn,
         EmitReturn, EncodeBreak, EncodeContinue, EncodeBlock, EncodeIf, BranchCond,
         EncodeLoop, LoopCond, LoopBody, EndLoop, IsStmt, IsExpr, Is
    <2>5. QED  BY <2>2, <2>3, <2>4
  <1>4. QED  BY <1>1, <1>2, <1>3 DEF WritesHere, TerminatedStay

LEMMA NextKeeps ==
    ASSUME NEW live, NEW ends, Typed, Graph, status = "run" => Tame(live, ends) /\ Loose, [Next]_vars
    PROVE  TerminatedStay
  <1>1. CASE EncodeExpr \/ EncodeStmt
    BY <1>1, StepsRun, StepKeeps
  <1>2. CASE FinishModule
    <2>1. \/ blocks' = blocks
          \/ ~Terminated(blocks[activeBlock]) /\ blocks' = Emitted(blocks, activeBlock, <<Ret>>)
      BY <1>2 DEF FinishModule, Crash, emission
    <2>2. QED  BY <2>1, HereFacts, EmitsElsewhere DEF TerminatedStay
  <1>3. CASE Terminating \/ UNCHANGED vars
    BY <1>3 DEF Terminating, vars, TerminatedStay
  <1>4. QED  BY <1>1, <1>2, <1>3 DEF Next

LEMMA NextTame ==
    ASSUME NEW live, NEW ends, NoDeadCode(Program, live, ends), Typed, Typed', Graph,
           status = "run" => Tame(live, ends) /\ Loose, [Next]_vars
    PROVE  (status = "run" => Tame(live, ends) /\ Loose)'
  <1>1. SUFFICES ASSUME status' = "run" PROVE Tame(live, ends)' /\ Loose'
    OBVIOUS
  <1>2. CASE EncodeExpr \/ EncodeStmt
    <2>1. Tame(live, ends) /\ Loose /\ Fresh
      BY <1>2, StepsRun DEF Graph
    <2>2. Loose'
      BY <1>1, <1>2, <2>1, StepLoose
    <2>3. Tame(live, ends)'
      BY <1>1, <1>2, <2>1, ExprTame, SimpleTame, BlockTame, BranchTame, LoopTame DEF EncodeStmt
    <2>4. QED  BY <2>2, <2>3
  <1>3. CASE FinishModule
    BY <1>1, <1>3 DEF FinishModule, Crash
  <1>4. CASE Terminating \/ UNCHANGED vars
    <2>1. UNCHANGED <<todo, blocks, activeBlock, status>>
      BY <1>4 DEF Terminating, vars
    <2>2. Tame(live, ends) /\ Loose
      BY <1>1, <2>1
    <2>3. QED  BY <2>1, <2>2 DEF Tame, Loose
  <1>5. QED  BY <1>2, <1>3, <1>4 DEF Next

(* In programs without dead code, a block is never written again once it ends *)
(* in a terminator: the encoder's unguarded jumps (break, continue, return,   *)
(* the jumps around a loop's condition) and its guarded ones (the ends of     *)
(* stmt_branch's branches and of a loop's body) never add a second one.       *)
THEOREM SealedBlocksStay ==
    ASSUME NEW live, NEW ends, NoDeadCode(Program, live, ends)
    PROVE  Spec => SealedIsFinal
  <1> DEFINE Inv == Typed /\ Graph /\ (status = "run" => Tame(live, ends) /\ Loose)
  <1>1. Init => Inv
    BY InitTyped, InitGraph, InitTame
  <1>2. Inv /\ [Next]_vars => Inv'
    BY NextTyped, NextGraph, NextTame
  <1>3. Inv /\ [Next]_vars => [\A b \in Block : Terminated(blocks[b]) => blocks'[b] = blocks[b]]_vars
    BY NextKeeps DEF TerminatedStay
  <1> HIDE DEF Inv
  <1>4. QED  BY <1>1, <1>2, <1>3, PTL DEF Spec, SealedIsFinal

=============================================================================
