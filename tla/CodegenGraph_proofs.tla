-------------------------- MODULE CodegenGraph_proofs --------------------------
(***************************************************************************)
(* Theorems about what the statement encoder keeps in step with its tasks, *)
(* for every set of programs: the break and continue points of the open    *)
(* loops, and the control flow graph it emits.                             *)
(***************************************************************************)
EXTENDS Codegen_proofs

(* The tasks after Then, with next of any type.                              *)
LEMMA ThenAny ==
    ASSUME NEW S, todo \in Seq(S), todo # <<>>, NEW next \in Seq(S), Then(next)
    PROVE  /\ todo' \in Seq(S)
           /\ Len(todo') = Len(next) + Len(todo) - 1
           /\ \A i \in 1 .. Len(next) : todo'[i] = next[i]
           /\ \A i \in 1 .. Len(todo) - 1 : todo'[Len(next) + i] = todo[i + 1]
           /\ \A i \in DOMAIN todo' : \/ i \in DOMAIN next
                                    \/ \E j \in 1 .. Len(todo) - 1 : i = Len(next) + j
  <1> DEFINE rest == Tail(todo)
  <1>1. /\ rest \in Seq(S) /\ Len(rest) = Len(todo) - 1
        /\ \A i \in 1 .. Len(todo) - 1 : rest[i] = todo[i + 1]
    OBVIOUS
  <1>2. todo' = next \o rest
    BY DEF Then
  <1> HIDE DEF rest
  <1>3. todo' \in Seq(S) /\ Len(todo') = Len(next) + Len(rest)
    BY <1>1, <1>2
  <1>4. \A i \in 1 .. Len(next) : todo'[i] = next[i]
    BY <1>1, <1>2
  <1>5. \A i \in 1 .. Len(todo) - 1 : todo'[Len(next) + i] = todo[i + 1]
    BY <1>1, <1>2
  <1>6. ASSUME NEW i \in DOMAIN todo', i \notin DOMAIN next
        PROVE  \E j \in 1 .. Len(todo) - 1 : i = Len(next) + j
    <2>1. i - Len(next) \in 1 .. Len(todo) - 1 /\ i = Len(next) + (i - Len(next))
      BY <1>1, <1>3, <1>6
    <2>2. QED  BY <2>1
  <1>7. QED  BY <1>1, <1>3, <1>4, <1>5, <1>6

-------------------------------------------------------------------------------
(* The break and continue points.                                            *)

(* The same loops are open at positions that all moved by d, with the same   *)
(* blocks and the same saved points.                                         *)
Shifted(d) ==
    /\ \A i \in OpenLoops : i + d \in OpenLoops'
    /\ \A i \in OpenLoops' :
          /\ i - d \in OpenLoops
          /\ todo'[i].end = todo[i - d].end /\ todo'[i].step = todo[i - d].step
          /\ todo'[i].oldBreak = todo[i - d].oldBreak
          /\ todo'[i].oldContinue = todo[i - d].oldContinue

LoopsAreInt == OpenLoops \subseteq Int

LEMMA LoopPositions == Typed => LoopsAreInt
  <1> SUFFICES ASSUME Typed PROVE LoopsAreInt
    OBVIOUS
  <1>1. todo \in Seq(Task)
    BY TypedParts DEF Parts
  <1>2. QED  BY <1>1 DEF OpenLoops, LoopsAreInt

LEMMA LoopsStayPut ==
    ASSUME Typed, Typed', LoopPoints, NEW d \in Int, Shifted(d), UNCHANGED points
    PROVE  LoopPoints'
  <1>1. OpenLoops \subseteq Int /\ OpenLoops' \subseteq Int
    <2>1. LoopsAreInt /\ LoopsAreInt'
      BY LoopPositions, PTL
    <2>2. QED  BY <2>1 DEF LoopsAreInt
  <1>2. breakPoint' = breakPoint /\ continuePoint' = continuePoint
    BY DEF points
  <1>3. ASSUME OpenLoops' = {} PROVE {breakPoint', continuePoint'} \subseteq Uninit
    <2>1. OpenLoops = {}
      BY <1>3 DEF Shifted
    <2>2. QED  BY <1>2, <2>1 DEF LoopPoints
  <1>4. ASSUME NEW i \in OpenLoops'
        PROVE  /\ (\A j \in OpenLoops' : i <= j) =>
                    breakPoint' = todo'[i].end /\ continuePoint' = todo'[i].step
               /\ (\A j \in OpenLoops' : j <= i) =>
                    {todo'[i].oldBreak, todo'[i].oldContinue} \subseteq Uninit
               /\ \A k \in OpenLoops' :
                    i < k /\ (\A j \in OpenLoops' : j <= i \/ k <= j) =>
                        todo'[i].oldBreak = todo'[k].end /\ todo'[i].oldContinue = todo'[k].step
    <2>1. i - d \in OpenLoops /\ i \in Int
      BY <1>1 DEF Shifted
    <2>2. ASSUME \A j \in OpenLoops' : i <= j
          PROVE  breakPoint' = todo'[i].end /\ continuePoint' = todo'[i].step
      <3>1. \A j \in OpenLoops : i - d <= j
        BY <1>1, <2>1, <2>2 DEF Shifted
      <3>2. QED  BY <1>2, <2>1, <3>1 DEF LoopPoints, Shifted
    <2>3. ASSUME \A j \in OpenLoops' : j <= i
          PROVE  {todo'[i].oldBreak, todo'[i].oldContinue} \subseteq Uninit
      <3>1. \A j \in OpenLoops : j <= i - d
        BY <1>1, <2>1, <2>3 DEF Shifted
      <3>2. QED  BY <2>1, <3>1 DEF LoopPoints, Shifted
    <2>4. ASSUME NEW k \in OpenLoops', i < k, \A j \in OpenLoops' : j <= i \/ k <= j
          PROVE  todo'[i].oldBreak = todo'[k].end /\ todo'[i].oldContinue = todo'[k].step
      <3>1. k - d \in OpenLoops /\ i - d < k - d
        BY <1>1, <2>1, <2>4 DEF Shifted
      <3>2. \A j \in OpenLoops : j <= i - d \/ k - d <= j
        BY <1>1, <2>1, <2>4 DEF Shifted
      <3>3. QED  BY <2>1, <3>1, <3>2 DEF LoopPoints, Shifted
    <2>5. QED  BY <2>2, <2>3, <2>4
  <1>5. QED  BY <1>3, <1>4 DEF LoopPoints

(* The running task is no part of a loop, and neither are those replacing it. *)
LEMMA QuietShift ==
    ASSUME Typed, NEW S, todo \in Seq(S), todo # <<>>, NEW next \in Seq(S), Then(next),
           Head(todo).do \notin LoopSteps, \A i \in DOMAIN next : next[i].do \notin LoopSteps
    PROVE  Shifted(Len(next) - 1)
  <1> DEFINE n == Len(next)
  <1>0. /\ Head(todo) = todo[1] /\ n \in Nat /\ Len(todo) \in Nat /\ DOMAIN next = 1 .. n
        /\ DOMAIN todo = 1 .. Len(todo)
    OBVIOUS
  <1>1. /\ Len(todo') = n + Len(todo) - 1 /\ DOMAIN todo' = 1 .. Len(todo')
        /\ \A i \in 1 .. n : todo'[i] = next[i]
        /\ \A i \in 1 .. Len(todo) - 1 : todo'[n + i] = todo[i + 1]
    BY ThenAny
  <1> HIDE DEF n
  <1>2. ASSUME NEW i \in OpenLoops PROVE i + (n - 1) \in OpenLoops'
    <2>1. i \in 1 .. Len(todo) /\ todo[i].do \in LoopSteps /\ i # 1
      BY <1>0, <1>2 DEF OpenLoops
    <2> DEFINE j == i - 1
    <2>2. j \in 1 .. Len(todo) - 1 /\ j + 1 = i /\ n + j = i + (n - 1)
      BY <1>0, <2>1
    <2> HIDE DEF j
    <2>3. todo'[i + (n - 1)] = todo[i]
      BY <1>1, <2>2
    <2>4. i + (n - 1) \in 1 .. Len(todo')
      BY <1>0, <1>1, <2>1
    <2>5. QED  BY <1>1, <2>1, <2>3, <2>4 DEF OpenLoops
  <1>3. ASSUME NEW i \in OpenLoops'
        PROVE  i - (n - 1) \in OpenLoops /\ todo'[i] = todo[i - (n - 1)]
    <2>1. i \in 1 .. Len(todo') /\ todo'[i].do \in LoopSteps
      BY <1>1, <1>3 DEF OpenLoops
    <2>2. i \notin 1 .. n
      BY <1>0, <1>1, <2>1
    <2> DEFINE j == i - n
    <2>3. j \in 1 .. Len(todo) - 1 /\ n + j = i /\ j + 1 = i - (n - 1)
      BY <1>0, <1>1, <2>1, <2>2
    <2> HIDE DEF j
    <2>4. todo'[i] = todo[i - (n - 1)] /\ i - (n - 1) \in 1 .. Len(todo)
      BY <1>0, <1>1, <2>3
    <2>5. QED  BY <1>0, <2>1, <2>4 DEF OpenLoops
  <1>4. QED  BY <1>2, <1>3 DEF Shifted, n

LEMMA QuietReturn ==
    ASSUME Typed, Typed', LoopPoints, todo # <<>>, Then(<<>>), Head(todo).do \notin LoopSteps,
           UNCHANGED points
    PROVE  LoopPoints'
  <1> DEFINE next == <<>>
  <1>1. /\ next \in Seq(Task) /\ Len(next) - 1 \in Int /\ Then(next)
        /\ \A i \in DOMAIN next : next[i].do \notin LoopSteps
    OBVIOUS
  <1>2. todo \in Seq(Task)
    BY TypedParts DEF Parts
  <1> HIDE DEF next
  <1>3. Shifted(Len(next) - 1)
    BY <1>1, <1>2, QuietShift
  <1>4. QED  BY <1>1, <1>3, LoopsStayPut

LEMMA QuietEnter ==
    ASSUME Typed, Typed', LoopPoints, todo # <<>>, NEW a, NEW b, Then(<<a, b>>),
           Head(todo).do \notin LoopSteps, a.do \notin LoopSteps, b.do \notin LoopSteps,
           UNCHANGED points
    PROVE  LoopPoints'
  <1> DEFINE next == <<a, b>>
             S == Task \union {a, b}
  <1>1. /\ next \in Seq(S) /\ Len(next) - 1 \in Int /\ Then(next)
        /\ \A i \in DOMAIN next : next[i].do \notin LoopSteps
    OBVIOUS
  <1>2. todo \in Seq(Task)
    BY TypedParts DEF Parts
  <1>3. todo \in Seq(S)
    BY <1>2
  <1> HIDE DEF next, S
  <1>4. Shifted(Len(next) - 1)
    BY <1>1, <1>3, QuietShift
  <1>5. QED  BY <1>1, <1>4, LoopsStayPut

(* A loop goes on to its next part.                                          *)
LEMMA AdvanceLoop ==
    ASSUME Typed, Typed', LoopPoints, todo # <<>>, NEW a, NEW tag \in LoopSteps,
           Then(<<a, [Head(todo) EXCEPT !.do = tag]>>),
           Head(todo).do \in LoopSteps, a.do \notin LoopSteps, UNCHANGED points
    PROVE  LoopPoints'
  <1> DEFINE b == [Head(todo) EXCEPT !.do = tag]
             next == <<a, b>>
             S == Task \union {a, b}
  <1>1. todo \in Seq(Task) /\ Head(todo) = todo[1] /\ Len(todo) \in Nat /\ Len(todo) # 0
    BY TypedParts DEF Parts
  <1>2. /\ b.do = tag /\ b.end = todo[1].end /\ b.step = todo[1].step
        /\ b.oldBreak = todo[1].oldBreak /\ b.oldContinue = todo[1].oldContinue
    <2>1. Head(todo) \in Task
      BY <1>1
    <2>2. QED  BY <1>1, <2>1 DEF Task, LoopSteps
  <1> HIDE DEF b
  <1>3. next \in Seq(S) /\ Len(next) = 2 /\ next[1] = a /\ next[2] = b /\ todo \in Seq(S) /\ Then(next)
    BY <1>1 DEF b
  <1> HIDE DEF next, S
  <1>4. /\ Len(todo') = Len(todo) + 1 /\ DOMAIN todo' = 1 .. Len(todo) + 1
        /\ todo'[1] = a /\ todo'[2] = b
        /\ \A i \in 1 .. Len(todo) - 1 : todo'[2 + i] = todo[i + 1]
    <2>1. /\ Len(todo') = Len(next) + Len(todo) - 1 /\ todo' \in Seq(S)
          /\ \A i \in 1 .. Len(next) : todo'[i] = next[i]
          /\ \A i \in 1 .. Len(todo) - 1 : todo'[Len(next) + i] = todo[i + 1]
      BY <1>3, ThenAny
    <2>2. QED  BY <1>1, <1>3, <2>1
  <1>5. DOMAIN todo = 1 .. Len(todo)
    BY <1>1
  <1>6. ASSUME NEW i \in OpenLoops PROVE i + 1 \in OpenLoops'
    <2>1. i \in 1 .. Len(todo) /\ todo[i].do \in LoopSteps
      BY <1>5, <1>6 DEF OpenLoops
    <2>2. CASE i = 1
      <3>1. i + 1 = 2 /\ 2 \in 1 .. Len(todo) + 1
        BY <1>1, <2>2
      <3>2. todo'[2].do \in LoopSteps
        BY <1>2, <1>4
      <3>3. QED  BY <1>4, <3>1, <3>2 DEF OpenLoops
    <2>3. CASE i # 1
      <3> DEFINE j == i - 1
      <3>1. j \in 1 .. Len(todo) - 1 /\ j + 1 = i /\ 2 + j = i + 1
        BY <1>1, <2>1, <2>3
      <3> HIDE DEF j
      <3>2. todo'[i + 1] = todo[i] /\ i + 1 \in 1 .. Len(todo) + 1
        BY <1>1, <1>4, <2>1, <3>1
      <3>3. QED  BY <1>4, <2>1, <3>2 DEF OpenLoops
    <2>4. QED  BY <2>2, <2>3
  <1>7. ASSUME NEW i \in OpenLoops'
        PROVE  /\ i - 1 \in OpenLoops
               /\ todo'[i].end = todo[i - 1].end /\ todo'[i].step = todo[i - 1].step
               /\ todo'[i].oldBreak = todo[i - 1].oldBreak
               /\ todo'[i].oldContinue = todo[i - 1].oldContinue
    <2>1. i \in 1 .. Len(todo) + 1 /\ todo'[i].do \in LoopSteps
      BY <1>4, <1>7 DEF OpenLoops
    <2>2. i # 1
      BY <1>4, <2>1
    <2>3. CASE i = 2
      <3>1. i - 1 = 1 /\ 1 \in DOMAIN todo /\ todo[1].do \in LoopSteps
        BY <1>1, <1>5, <2>3
      <3>2. i - 1 \in OpenLoops
        BY <3>1 DEF OpenLoops
      <3>3. QED  BY <1>2, <1>4, <2>3, <3>1, <3>2
    <2>4. CASE i # 2
      <3> DEFINE j == i - 2
      <3>1. j \in 1 .. Len(todo) - 1 /\ j + 1 = i - 1 /\ 2 + j = i
        BY <1>1, <2>1, <2>2, <2>4
      <3> HIDE DEF j
      <3>2. todo'[i] = todo[i - 1] /\ i - 1 \in 1 .. Len(todo)
        BY <1>1, <1>4, <2>1, <2>2, <3>1
      <3>3. QED  BY <1>5, <2>1, <3>2 DEF OpenLoops
    <2>5. QED  BY <2>3, <2>4
  <1>8. Shifted(1)
    BY <1>6, <1>7 DEF Shifted
  <1>9. QED  BY <1>8, LoopsStayPut

(* A loop begins: it is the innermost, and it saved the points of the one     *)
(* that was.                                                                 *)
LEMMA BeginLoop ==
    ASSUME Typed, Typed', LoopPoints, todo # <<>>, NEW a, NEW b, Then(<<a, b>>),
           Head(todo).do \notin LoopSteps, a.do \notin LoopSteps, b.do \in LoopSteps,
           b.oldBreak = breakPoint, b.oldContinue = continuePoint,
           breakPoint' = b.end, continuePoint' = b.step
    PROVE  LoopPoints'
  <1> DEFINE next == <<a, b>>
             S == Task \union {a, b}
  <1>1. todo \in Seq(Task) /\ Head(todo) = todo[1] /\ Len(todo) \in Nat /\ Len(todo) # 0
    BY TypedParts DEF Parts
  <1>2. next \in Seq(S) /\ Len(next) = 2 /\ next[1] = a /\ next[2] = b /\ todo \in Seq(S) /\ Then(next)
    BY <1>1
  <1> HIDE DEF next, S
  <1>3. /\ DOMAIN todo' = 1 .. Len(todo) + 1 /\ DOMAIN todo = 1 .. Len(todo)
        /\ todo'[1] = a /\ todo'[2] = b
        /\ \A i \in 1 .. Len(todo) - 1 : todo'[2 + i] = todo[i + 1]
    <2>1. /\ Len(todo') = Len(next) + Len(todo) - 1 /\ todo' \in Seq(S)
          /\ \A i \in 1 .. Len(next) : todo'[i] = next[i]
          /\ \A i \in 1 .. Len(todo) - 1 : todo'[Len(next) + i] = todo[i + 1]
      BY <1>2, ThenAny
    <2>2. QED  BY <1>1, <1>2, <2>1
  <1>4. 2 \in OpenLoops'
    BY <1>1, <1>3 DEF OpenLoops
  <1>5. ASSUME NEW i \in OpenLoops PROVE i > 1 /\ i + 1 \in OpenLoops' /\ todo'[i + 1] = todo[i]
    <2>1. i \in 1 .. Len(todo) /\ todo[i].do \in LoopSteps /\ i # 1
      BY <1>1, <1>3, <1>5 DEF OpenLoops
    <2> DEFINE j == i - 1
    <2>2. j \in 1 .. Len(todo) - 1 /\ j + 1 = i /\ 2 + j = i + 1
      BY <1>1, <2>1
    <2> HIDE DEF j
    <2>3. todo'[i + 1] = todo[i] /\ i + 1 \in 1 .. Len(todo) + 1 /\ i > 1
      BY <1>1, <1>3, <2>1, <2>2
    <2>4. QED  BY <1>3, <2>1, <2>3 DEF OpenLoops
  <1>6. ASSUME NEW i \in OpenLoops'
        PROVE  i \in Int /\ (i = 2 \/ (i > 2 /\ i - 1 \in OpenLoops /\ todo'[i] = todo[i - 1]))
    <2>1. i \in 1 .. Len(todo) + 1 /\ todo'[i].do \in LoopSteps
      BY <1>3, <1>6 DEF OpenLoops
    <2>2. i # 1
      BY <1>3, <2>1
    <2>3. CASE i # 2
      <3> DEFINE j == i - 2
      <3>1. j \in 1 .. Len(todo) - 1 /\ j + 1 = i - 1 /\ 2 + j = i
        BY <1>1, <2>1, <2>2, <2>3
      <3> HIDE DEF j
      <3>2. todo'[i] = todo[i - 1] /\ i - 1 \in 1 .. Len(todo) /\ i > 2
        BY <1>1, <1>3, <2>1, <2>2, <2>3, <3>1
      <3>3. QED  BY <1>3, <2>1, <3>2 DEF OpenLoops
    <2>4. QED  BY <2>1, <2>3
  <1>7. OpenLoops' # {}
    BY <1>4
  <1>8. ASSUME NEW i \in OpenLoops', \A j \in OpenLoops' : i <= j
        PROVE  breakPoint' = todo'[i].end /\ continuePoint' = todo'[i].step
    <2>1. i = 2
      BY <1>4, <1>6, <1>8
    <2>2. QED  BY <1>3, <2>1
  <1>9. ASSUME NEW i \in OpenLoops', \A j \in OpenLoops' : j <= i
        PROVE  {todo'[i].oldBreak, todo'[i].oldContinue} \subseteq Uninit
    <2>1. CASE i = 2
      <3>1. OpenLoops = {}
        <4>1. ASSUME NEW k \in OpenLoops PROVE FALSE
          <5>1. k > 1 /\ k + 1 <= 2 /\ k \in Int
            BY <1>5, <1>9, <2>1, LoopPositions DEF LoopsAreInt
          <5>2. QED  BY <5>1
        <4>2. QED  BY <4>1
      <3>2. QED  BY <1>3, <2>1, <3>1 DEF LoopPoints
    <2>2. CASE i # 2
      <3>1. i - 1 \in OpenLoops /\ todo'[i] = todo[i - 1] /\ i \in Int
        BY <1>6, <2>2
      <3>2. \A j \in OpenLoops : j <= i - 1
        <4>1. ASSUME NEW j \in OpenLoops PROVE j <= i - 1
          <5>1. j + 1 <= i /\ j \in Int
            BY <1>5, <1>9, LoopPositions DEF LoopsAreInt
          <5>2. QED  BY <3>1, <5>1
        <4>2. QED  BY <4>1
      <3>3. QED  BY <3>1, <3>2 DEF LoopPoints
    <2>3. QED  BY <2>1, <2>2
  <1>10. ASSUME NEW i \in OpenLoops', NEW k \in OpenLoops', i < k,
                \A j \in OpenLoops' : j <= i \/ k <= j
         PROVE  todo'[i].oldBreak = todo'[k].end /\ todo'[i].oldContinue = todo'[k].step
    <2>1. i \in Int /\ k \in Int /\ k > 2 /\ k - 1 \in OpenLoops /\ todo'[k] = todo[k - 1]
      BY <1>6, <1>10
    <2>2. CASE i = 2
      <3>1. ASSUME NEW j \in OpenLoops PROVE k - 1 <= j
        <4>1. j \in Int /\ j > 1 /\ (j + 1 <= i \/ k <= j + 1)
          BY <1>5, <1>10, LoopPositions DEF LoopsAreInt
        <4>2. QED  BY <2>1, <2>2, <4>1
      <3>2. breakPoint = todo[k - 1].end /\ continuePoint = todo[k - 1].step
        BY <2>1, <3>1 DEF LoopPoints
      <3>3. QED  BY <1>3, <2>1, <2>2, <3>2
    <2>3. CASE i # 2
      <3>1. i - 1 \in OpenLoops /\ todo'[i] = todo[i - 1]
        BY <1>6, <2>3
      <3>2. ASSUME NEW j \in OpenLoops PROVE j <= i - 1 \/ k - 1 <= j
        <4>1. j \in Int /\ (j + 1 <= i \/ k <= j + 1)
          BY <1>5, <1>10, LoopPositions DEF LoopsAreInt
        <4>2. QED  BY <2>1, <4>1
      <3>3. i - 1 < k - 1
        BY <1>10, <2>1
      <3>4. QED  BY <2>1, <3>1, <3>2, <3>3 DEF LoopPoints
    <2>4. QED  BY <2>2, <2>3
  <1>11. QED  BY <1>7, <1>8, <1>9, <1>10 DEF LoopPoints

(* The innermost loop ends: the points it saved are those of the next one.    *)
LEMMA FinishLoop ==
    ASSUME Typed, Typed', LoopPoints, todo # <<>>, Then(<<>>), Head(todo).do \in LoopSteps,
           breakPoint' = Head(todo).oldBreak, continuePoint' = Head(todo).oldContinue
    PROVE  LoopPoints'
  <1> DEFINE next == <<>>
  <1>1. todo \in Seq(Task) /\ Head(todo) = todo[1] /\ Len(todo) \in Nat /\ Len(todo) # 0
    BY TypedParts DEF Parts
  <1>2. next \in Seq(Task) /\ Len(next) = 0 /\ Then(next)
    OBVIOUS
  <1> HIDE DEF next
  <1>3. /\ DOMAIN todo' = 1 .. Len(todo) - 1 /\ DOMAIN todo = 1 .. Len(todo)
        /\ \A i \in 1 .. Len(todo) - 1 : todo'[i] = todo[i + 1]
    <2>1. /\ Len(todo') = Len(next) + Len(todo) - 1 /\ todo' \in Seq(Task)
          /\ \A i \in 1 .. Len(todo) - 1 : todo'[Len(next) + i] = todo[i + 1]
      BY <1>1, <1>2, ThenAny
    <2>2. QED  BY <1>1, <1>2, <2>1
  <1>4. 1 \in OpenLoops
    BY <1>1, <1>3 DEF OpenLoops
  <1>5. ASSUME NEW i \in OpenLoops
        PROVE  i \in Int /\ (i = 1 \/ (i > 1 /\ i - 1 \in OpenLoops' /\ todo'[i - 1] = todo[i]))
    <2>1. i \in 1 .. Len(todo) /\ todo[i].do \in LoopSteps
      BY <1>3, <1>5 DEF OpenLoops
    <2>2. CASE i # 1
      <3> DEFINE j == i - 1
      <3>1. j \in 1 .. Len(todo) - 1 /\ j + 1 = i
        BY <1>1, <2>1, <2>2
      <3> HIDE DEF j
      <3>2. todo'[j] = todo[i] /\ j \in OpenLoops'
        BY <1>3, <2>1, <3>1 DEF OpenLoops
      <3>3. QED  BY <2>1, <2>2, <3>2 DEF j
    <2>3. QED  BY <2>1, <2>2
  <1>6. ASSUME NEW i \in OpenLoops'
        PROVE  i \in Int /\ i >= 1 /\ i + 1 \in OpenLoops /\ todo'[i] = todo[i + 1]
    <2>1. i \in 1 .. Len(todo) - 1 /\ todo'[i].do \in LoopSteps
      BY <1>3, <1>6 DEF OpenLoops
    <2>2. QED  BY <1>1, <1>3, <2>1 DEF OpenLoops
  <1>7. ASSUME OpenLoops' = {} PROVE {breakPoint', continuePoint'} \subseteq Uninit
    <2>1. \A j \in OpenLoops : j <= 1
      BY <1>5, <1>7
    <2>2. QED  BY <1>1, <1>4, <2>1 DEF LoopPoints
  <1>8. ASSUME NEW i \in OpenLoops', \A j \in OpenLoops' : i <= j
        PROVE  breakPoint' = todo'[i].end /\ continuePoint' = todo'[i].step
    <2>1. 1 < i + 1 /\ i + 1 \in OpenLoops
      BY <1>6
    <2>2. ASSUME NEW j \in OpenLoops PROVE j <= 1 \/ i + 1 <= j
      <3>1. j \in Int /\ (j = 1 \/ i <= j - 1) /\ i \in Int
        BY <1>5, <1>6, <1>8
      <3>2. QED  BY <3>1
    <2>3. todo[1].oldBreak = todo[i + 1].end /\ todo[1].oldContinue = todo[i + 1].step
      BY <1>4, <2>1, <2>2 DEF LoopPoints
    <2>4. QED  BY <1>1, <1>6, <2>3
  <1>9. ASSUME NEW i \in OpenLoops', \A j \in OpenLoops' : j <= i
        PROVE  {todo'[i].oldBreak, todo'[i].oldContinue} \subseteq Uninit
    <2>1. ASSUME NEW j \in OpenLoops PROVE j <= i + 1
      <3>1. j \in Int /\ (j = 1 \/ j - 1 <= i) /\ i \in Int /\ i >= 1
        BY <1>5, <1>6, <1>9
      <3>2. QED  BY <3>1
    <2>2. QED  BY <1>6, <2>1 DEF LoopPoints
  <1>10. ASSUME NEW i \in OpenLoops', NEW k \in OpenLoops', i < k,
                \A j \in OpenLoops' : j <= i \/ k <= j
         PROVE  todo'[i].oldBreak = todo'[k].end /\ todo'[i].oldContinue = todo'[k].step
    <2>1. i \in Int /\ k \in Int /\ i >= 1 /\ i + 1 < k + 1
      BY <1>6, <1>10
    <2>2. ASSUME NEW j \in OpenLoops PROVE j <= i + 1 \/ k + 1 <= j
      <3>1. j \in Int /\ (j = 1 \/ j - 1 <= i \/ k <= j - 1)
        BY <1>5, <1>10
      <3>2. QED  BY <2>1, <3>1
    <2>3. QED  BY <1>6, <2>1, <2>2 DEF LoopPoints
  <1>11. QED  BY <1>7, <1>8, <1>9, <1>10 DEF LoopPoints

LEMMA PointsAtRest == LoopPoints /\ UNCHANGED <<todo, points>> => LoopPoints'
  BY DEF LoopPoints, OpenLoops, points

LEMMA ExprPoints == Typed /\ Typed' /\ LoopPoints /\ EncodeExpr => LoopPoints'
  <1> SUFFICES ASSUME Typed, Typed', LoopPoints, EncodeExpr PROVE LoopPoints'
    OBVIOUS
  <1>1. todo # <<>> /\ Head(todo).do \notin LoopSteps
    BY DEF EncodeExpr, EncodeCalc, EncodeSymbolRef, EncodeUnsupported, EncodeTrinary, TrinaryCond,
           TrinaryTrue, TrinaryFalse, IsExpr, Is, LoopSteps
  <1>2. CASE EncodeCalc \/ EncodeSymbolRef \/ EncodeUnsupported
    <2>1. Then(<<>>) /\ UNCHANGED points
      BY <1>2 DEF EncodeCalc, EncodeSymbolRef, EncodeUnsupported, Return
    <2>2. QED  BY <1>1, <2>1, QuietReturn
  <1>3. CASE EncodeTrinary
    <2> DEFINE a == Expr(Node.cond)
               n == Len(blocks)
               b == [do |-> "trinaryCond", node |-> Node,
                     yes |-> n + 2, no |-> n + 3, end |-> n + 4]
    <2>1. Then(<<a, b>>) /\ UNCHANGED points
      BY <1>3 DEF EncodeTrinary
    <2>2. a.do \notin LoopSteps /\ b.do \notin LoopSteps
      BY DEF Expr, LoopSteps
    <2> HIDE DEF a, b
    <2>3. QED  BY <1>1, <2>1, <2>2, QuietEnter
  <1>4. CASE TrinaryCond
    <2> DEFINE a == Expr(Head(todo).node.yes)
               b == [Head(todo) EXCEPT !.do = "trinaryTrue"]
    <2>1. UNCHANGED points /\ (Then(<<>>) \/ Then(<<a, b>>))
      BY <1>4 DEF TrinaryCond, Return
    <2>2. a.do \notin LoopSteps /\ b.do \notin LoopSteps
      <3>1. Head(todo) \in Task /\ Head(todo).do = "trinaryCond"
        BY <1>4, RunningFacts DEF TrinaryCond
      <3>2. QED  BY <3>1 DEF Expr, LoopSteps, Task
    <2> HIDE DEF a, b
    <2>3. QED  BY <1>1, <2>1, <2>2, QuietEnter, QuietReturn
  <1>5. CASE TrinaryTrue
    <2> DEFINE t == Head(todo)
               a == Expr(t.node.no)
               b == [do |-> "trinaryFalse", node |-> t.node, yes |-> t.yes, no |-> t.no,
                     end |-> t.end, type |-> val.type]
    <2>1. UNCHANGED points /\ (Then(<<>>) \/ Then(<<a, b>>))
      BY <1>5 DEF TrinaryTrue, Return
    <2>2. a.do \notin LoopSteps /\ b.do \notin LoopSteps
      BY DEF Expr, LoopSteps
    <2> HIDE DEF a, b
    <2>3. QED  BY <1>1, <2>1, <2>2, QuietEnter, QuietReturn
  <1>6. CASE TrinaryFalse
    <2>1. UNCHANGED points /\ (Then(<<>>) \/ UNCHANGED todo)
      BY <1>6 DEF TrinaryFalse, Return, Crash
    <2>2. CASE Then(<<>>)
      BY <1>1, <2>1, <2>2, QuietReturn
    <2>3. QED  BY <2>1, <2>2, PointsAtRest DEF points
  <1>7. QED  BY <1>2, <1>3, <1>4, <1>5, <1>6 DEF EncodeExpr

LEMMA SimplePoints ==
    ASSUME Typed, Typed', LoopPoints,
           \/ EncodeNothing \/ EncodeRefused \/ EncodeSymbolDef \/ DefineSymbol
           \/ EncodeAssign \/ AssignRight \/ AssignStore \/ EncodeReturn \/ EmitReturn
           \/ EncodeBreak \/ EncodeContinue
    PROVE  LoopPoints'
  <1>1. todo # <<>> /\ Head(todo).do \notin LoopSteps
    BY DEF EncodeNothing, EncodeRefused, EncodeSymbolDef, DefineSymbol, EncodeAssign, AssignRight,
           AssignStore, EncodeReturn, EmitReturn, EncodeBreak, EncodeContinue, IsStmt, Is, LoopSteps
  <1>2. CASE Fail \/ Crash
    BY <1>2, PointsAtRest DEF Fail, Crash, points
  <1>3. CASE ~(Fail \/ Crash) /\ (EncodeNothing \/ DefineSymbol \/ AssignStore \/ EmitReturn
                                  \/ EncodeBreak \/ EncodeContinue)
    <2>1. Then(<<>>) /\ UNCHANGED points
      BY <1>3 DEF EncodeNothing, DefineSymbol, AssignStore, EmitReturn, EncodeBreak, EncodeContinue,
                  JumpTo
    <2>2. QED  BY <1>1, <2>1, QuietReturn
  <1>4. CASE ~(Fail \/ Crash) /\ EncodeSymbolDef
    <2> DEFINE a == Expr(Node.value)
               b == [do |-> "define", name |-> Node.name]
    <2>1. Then(<<a, b>>) /\ UNCHANGED points
      BY <1>4 DEF EncodeSymbolDef
    <2>2. a.do \notin LoopSteps /\ b.do \notin LoopSteps
      BY DEF Expr, LoopSteps
    <2> HIDE DEF a, b
    <2>3. QED  BY <1>1, <2>1, <2>2, QuietEnter
  <1>5. CASE EncodeAssign
    <2> DEFINE a == Expr(Node.left)
               b == [do |-> "assignRight", node |-> Node.right]
    <2>1. Then(<<a, b>>) /\ UNCHANGED points
      BY <1>5 DEF EncodeAssign
    <2>2. a.do \notin LoopSteps /\ b.do \notin LoopSteps
      BY DEF Expr, LoopSteps
    <2> HIDE DEF a, b
    <2>3. QED  BY <1>1, <2>1, <2>2, QuietEnter
  <1>6. CASE AssignRight
    <2> DEFINE a == Expr(Node)
               b == [do |-> "assignStore", left |-> val]
    <2>1. Then(<<a, b>>) /\ UNCHANGED points
      BY <1>6 DEF AssignRight
    <2>2. a.do \notin LoopSteps /\ b.do \notin LoopSteps
      BY DEF Expr, LoopSteps
    <2> HIDE DEF a, b
    <2>3. QED  BY <1>1, <2>1, <2>2, QuietEnter
  <1>7. CASE ~(Fail \/ Crash) /\ EncodeReturn
    <2> DEFINE a == Expr(Node.value)
               b == [do |-> "emitReturn"]
    <2>1. Then(<<a, b>>) /\ UNCHANGED points
      BY <1>7 DEF EncodeReturn
    <2>2. a.do \notin LoopSteps /\ b.do \notin LoopSteps
      BY DEF Expr, LoopSteps
    <2> HIDE DEF a, b
    <2>3. QED  BY <1>1, <2>1, <2>2, QuietEnter
  <1>8. EncodeRefused => Fail
    BY DEF EncodeRefused
  <1>9. QED  BY <1>2, <1>3, <1>4, <1>5, <1>6, <1>7, <1>8

LEMMA CompoundPoints ==
    ASSUME Typed, Typed', LoopPoints,
           EncodeBlock \/ EndBlock \/ EncodeIf \/ BranchCond \/ BranchTrue \/ BranchFalse
    PROVE  LoopPoints'
  <1> DEFINE t == Head(todo)
             n == Len(blocks)
  <1>1. todo # <<>> /\ t.do \notin LoopSteps
    BY DEF EncodeBlock, EndBlock, EncodeIf, BranchCond, BranchTrue, BranchFalse, IsStmt, Is, LoopSteps
  <1>2. CASE EncodeBlock
    <2> DEFINE body == [i \in DOMAIN Node.body |-> Stmt(Node.body[i])]
               last == [do |-> "endBlock"]
               next == body \o <<last>>
    <2>1. Then(next) /\ UNCHANGED points /\ Is("stmt") /\ Node.kind = "block"
      BY <1>2 DEF EncodeBlock, IsStmt, Node
    <2>2. Node.body \in Seq(Statement)
      BY <2>1, RunningFacts, TaskFields, SyntaxAssumption DEF Node
    <2>3. body \in Seq(Task)
      <3>1. \A i \in DOMAIN Node.body : Stmt(Node.body[i]) \in Task
        BY <2>2, StmtSound DEF Sound
      <3>2. Len(Node.body) \in Nat /\ DOMAIN Node.body = 1 .. Len(Node.body)
        BY <2>2
      <3>3. body \in [1 .. Len(Node.body) -> Task]
        BY <3>1, <3>2
      <3>4. QED  BY <3>2, <3>3
    <2>4. last \in Task /\ last.do \notin LoopSteps /\ \A i \in DOMAIN body : body[i].do \notin LoopSteps
      BY DEF Task, Stmt, LoopSteps
    <2> HIDE DEF body, last
    <2>5. /\ next \in Seq(Task)
          /\ \A i \in DOMAIN next : next[i] = last \/ (i \in DOMAIN body /\ next[i] = body[i])
      BY <2>3, <2>4, AppendEach
    <2> HIDE DEF next
    <2>6. \A i \in DOMAIN next : next[i].do \notin LoopSteps
      BY <2>4, <2>5
    <2>7. Shifted(Len(next) - 1) /\ Len(next) - 1 \in Int
      BY <1>1, <2>1, <2>5, <2>6, TypedParts, QuietShift DEF Parts
    <2>8. QED  BY <2>1, <2>7, LoopsStayPut
  <1>3. CASE Fail
    BY <1>3, PointsAtRest DEF Fail, points
  <1>4. CASE EndBlock \/ BranchFalse
    <2>1. Then(<<>>) /\ UNCHANGED points
      BY <1>4 DEF EndBlock, BranchFalse
    <2>2. QED  BY <1>1, <2>1, QuietReturn
  <1>5. CASE EncodeIf
    <2> DEFINE a == Expr(Node.cond)
               b == [do |-> "branchCond", node |-> Node,
                     yes |-> n + 1, no |-> n + 2, end |-> n + 3]
    <2>1. Then(<<a, b>>) /\ UNCHANGED points
      BY <1>5 DEF EncodeIf
    <2>2. a.do \notin LoopSteps /\ b.do \notin LoopSteps
      BY DEF Expr, LoopSteps
    <2> HIDE DEF a, b
    <2>3. QED  BY <1>1, <2>1, <2>2, QuietEnter
  <1>6. CASE BranchCond /\ ~Fail
    <2> DEFINE a == Stmt(t.node.yes)
               b == [t EXCEPT !.do = "branchTrue"]
    <2>1. Then(<<a, b>>) /\ UNCHANGED points
      BY <1>6 DEF BranchCond
    <2>2. a.do \notin LoopSteps /\ b.do \notin LoopSteps
      <3>1. t \in Task /\ t.do = "branchCond"
        BY <1>6, RunningFacts DEF BranchCond
      <3>2. QED  BY <3>1 DEF Stmt, LoopSteps, Task
    <2> HIDE DEF a, b
    <2>3. QED  BY <1>1, <2>1, <2>2, QuietEnter
  <1>7. CASE BranchTrue
    <2> DEFINE a == Stmt(t.node.no)
               b == [t EXCEPT !.do = "branchFalse"]
    <2>1. Then(<<a, b>>) /\ UNCHANGED points
      BY <1>7 DEF BranchTrue
    <2>2. a.do \notin LoopSteps /\ b.do \notin LoopSteps
      <3>1. t \in Task /\ t.do = "branchTrue"
        BY <1>7, RunningFacts DEF BranchTrue
      <3>2. QED  BY <3>1 DEF Stmt, LoopSteps, Task
    <2> HIDE DEF a, b
    <2>3. QED  BY <1>1, <2>1, <2>2, QuietEnter
  <1>8. QED  BY <1>2, <1>3, <1>4, <1>5, <1>6, <1>7

LEMMA LoopsPoints ==
    ASSUME Typed, Typed', LoopPoints, EncodeLoop \/ LoopCond \/ LoopBody \/ LoopStep \/ EndLoop
    PROVE  LoopPoints'
  <1> DEFINE t == Head(todo)
             n == Len(blocks)
  <1>1. CASE EncodeLoop
    <2> DEFINE a == Stmt(Node.init)
               b == [do |-> "loopCond", node |-> Node, cond |-> n + 1,
                     step |-> n + 2, body |-> n + 3, end |-> n + 4,
                     oldContinue |-> continuePoint, oldBreak |-> breakPoint]
    <2>1. /\ Then(<<a, b>>) /\ continuePoint' = n + 2 /\ breakPoint' = n + 4
          /\ todo # <<>> /\ t.do \notin LoopSteps
      BY <1>1 DEF EncodeLoop, IsStmt, Is, LoopSteps
    <2>2. /\ a.do \notin LoopSteps /\ b.do \in LoopSteps /\ b.end = n + 4 /\ b.step = n + 2
          /\ b.oldBreak = breakPoint /\ b.oldContinue = continuePoint
      BY DEF Stmt, LoopSteps
    <2> HIDE DEF a, b
    <2>3. QED  BY <2>1, <2>2, BeginLoop
  <1>2. CASE Fail
    BY <1>2, PointsAtRest DEF Fail, points
  <1>3. CASE LoopCond
    <2> DEFINE a == Expr(t.node.cond)
    <2>1. /\ Then(<<a, [t EXCEPT !.do = "loopBody"]>>) /\ UNCHANGED points
          /\ todo # <<>> /\ t.do \in LoopSteps
      BY <1>3 DEF LoopCond, Is, LoopSteps
    <2>2. a.do \notin LoopSteps /\ "loopBody" \in LoopSteps
      BY DEF Expr, LoopSteps
    <2> HIDE DEF a
    <2>3. QED  BY <2>1, <2>2, AdvanceLoop
  <1>4. CASE LoopBody /\ ~Fail
    <2> DEFINE a == Stmt(t.node.body)
    <2>1. /\ Then(<<a, [t EXCEPT !.do = "loopStep"]>>) /\ UNCHANGED points
          /\ todo # <<>> /\ t.do \in LoopSteps
      BY <1>4 DEF LoopBody, Is, LoopSteps
    <2>2. a.do \notin LoopSteps /\ "loopStep" \in LoopSteps
      BY DEF Stmt, LoopSteps
    <2> HIDE DEF a
    <2>3. QED  BY <2>1, <2>2, AdvanceLoop
  <1>5. CASE LoopStep
    <2> DEFINE a == Stmt(t.node.step)
    <2>1. /\ Then(<<a, [t EXCEPT !.do = "endLoop"]>>) /\ UNCHANGED points
          /\ todo # <<>> /\ t.do \in LoopSteps
      BY <1>5 DEF LoopStep, Is, LoopSteps
    <2>2. a.do \notin LoopSteps /\ "endLoop" \in LoopSteps
      BY DEF Stmt, LoopSteps
    <2> HIDE DEF a
    <2>3. QED  BY <2>1, <2>2, AdvanceLoop
  <1>6. CASE EndLoop
    <2>1. /\ Then(<<>>) /\ todo # <<>> /\ t.do \in LoopSteps
          /\ breakPoint' = t.oldBreak /\ continuePoint' = t.oldContinue
      BY <1>6 DEF EndLoop, RestorePoints, Is, LoopSteps
    <2>2. QED  BY <2>1, FinishLoop
  <1>7. QED  BY <1>1, <1>2, <1>3, <1>4, <1>5, <1>6

LEMMA InitPoints == Init => LoopPoints
  <1> SUFFICES ASSUME Init PROVE LoopPoints
    OBVIOUS
  <1>1. prog \in Seq(Statement)
    BY SyntaxAssumption DEF Init
  <1>2. OpenLoops = {}
    BY <1>1 DEF Init, OpenLoops, Stmt, LoopSteps
  <1>3. QED  BY <1>2 DEF Init, LoopPoints

LEMMA NextPoints == Typed /\ Typed' /\ LoopPoints /\ [Next]_vars => LoopPoints'
  <1> SUFFICES ASSUME Typed, Typed', LoopPoints, [Next]_vars PROVE LoopPoints'
    OBVIOUS
  <1>1. CASE UNCHANGED <<todo, points>>
    BY <1>1, PointsAtRest
  <1>2. UNCHANGED vars => UNCHANGED <<todo, points>>
    BY DEF vars, points
  <1>3. FinishModule => UNCHANGED <<todo, points>>
    BY DEF FinishModule, Crash, points
  <1>4. QED
    BY <1>1, <1>2, <1>3, ExprPoints, SimplePoints, CompoundPoints, LoopsPoints
    DEF Next, EncodeStmt, Terminating

(* Wherever a loop nest stands, a break or continue goes to the innermost open *)
(* loop, and a finished loop gives the points of the loop around it back.      *)
THEOREM PointsCorrect == Spec => []LoopPoints
  <1> DEFINE Inv == Typed /\ LoopPoints
  <1>1. Init => Inv
    BY InitTyped, InitPoints
  <1>2. Inv /\ [Next]_vars => Inv'
    BY NextTyped, NextPoints
  <1>3. QED  BY <1>1, <1>2, PTL DEF Spec

-------------------------------------------------------------------------------
(* A null expression is noticed: the task that asked for it comes next.      *)

FedKinds == {"expr", "trinaryCond", "trinaryTrue", "trinaryFalse"}

Fed ==
    \A i \in DOMAIN todo :
        todo[i].do \in FedKinds => i + 1 \in DOMAIN todo /\ todo[i + 1].do \in Consumers

NullLeft(t) == t.do = "assignStore" /\ t.left = NoValue

\* A failed left side further down is still there after the step.
LeftStays == \A i \in 2 .. Len(todo) : NullLeft(todo[i]) => Doomed'

(* Only the last of the tasks replacing the running one may need what the    *)
(* running one needed.                                                       *)
LEMMA CarryNext ==
    ASSUME Fed, NEW S, todo \in Seq(S), todo # <<>>, NEW next \in Seq(S), Then(next),
           \A i \in DOMAIN next : next[i].do \in FedKinds =>
               \/ i + 1 \in DOMAIN next /\ next[i + 1].do \in Consumers
               \/ i = Len(next) /\ Head(todo).do \in FedKinds
    PROVE  Fed' /\ LeftStays
  <1> DEFINE n == Len(next)
  <1>0. /\ Head(todo) = todo[1] /\ n \in Nat /\ Len(todo) \in Nat /\ Len(todo) # 0
        /\ DOMAIN next = 1 .. n /\ DOMAIN todo = 1 .. Len(todo)
    OBVIOUS
  <1>1. /\ Len(todo') = n + Len(todo) - 1 /\ DOMAIN todo' = 1 .. Len(todo')
        /\ \A i \in 1 .. n : todo'[i] = next[i]
        /\ \A i \in 1 .. Len(todo) - 1 : todo'[n + i] = todo[i + 1]
    BY ThenAny
  <1> HIDE DEF n
  <1>2. ASSUME NEW i \in 2 .. Len(todo)
        PROVE  i + n - 1 \in DOMAIN todo' /\ todo'[i + n - 1] = todo[i]
    <2> DEFINE j == i - 1
    <2>1. j \in 1 .. Len(todo) - 1 /\ j + 1 = i /\ n + j = i + n - 1
      BY <1>0, <1>2
    <2>2. i + n - 1 \in 1 .. n + Len(todo) - 1
      BY <1>0, <1>2
    <2> HIDE DEF j
    <2>3. todo'[n + j] = todo[j + 1]
      BY <1>1, <2>1
    <2>4. QED  BY <1>1, <2>1, <2>2, <2>3
  <1>3. LeftStays
    BY <1>2 DEF LeftStays, Doomed, NullLeft
  <1>4. ASSUME NEW i \in DOMAIN todo', todo'[i].do \in FedKinds
        PROVE  i + 1 \in DOMAIN todo' /\ todo'[i + 1].do \in Consumers
    <2>1. CASE i \in 1 .. n /\ i + 1 \in DOMAIN next /\ next[i + 1].do \in Consumers
      BY <1>0, <1>1, <2>1
    <2>2. CASE i = n /\ n \in 1 .. n /\ Head(todo).do \in FedKinds
      <3>1. 2 \in 2 .. Len(todo) /\ todo[2].do \in Consumers
        BY <1>0, <2>2 DEF Fed
      <3>2. 2 + n - 1 \in DOMAIN todo' /\ todo'[2 + n - 1] = todo[2] /\ 2 + n - 1 = i + 1
        BY <1>0, <1>2, <2>2, <3>1
      <3>3. QED  BY <3>1, <3>2
    <2>3. CASE i \notin 1 .. n
      <3> DEFINE k == i - n + 1
      <3>1. i \in Int /\ i <= n + Len(todo) - 1 /\ i > n
        BY <1>0, <1>1, <1>4, <2>3
      <3>2. k \in 2 .. Len(todo) /\ i = k + n - 1
        BY <1>0, <3>1
      <3> HIDE DEF k
      <3>3. todo[k].do \in FedKinds
        BY <1>2, <1>4, <3>2
      <3>4. k + 1 \in 2 .. Len(todo) /\ todo[k + 1].do \in Consumers
        BY <1>0, <3>2, <3>3 DEF Fed
      <3>5. (k + 1) + n - 1 \in DOMAIN todo' /\ todo'[(k + 1) + n - 1] = todo[k + 1]
        BY <1>2, <3>4
      <3>6. (k + 1) + n - 1 = i + 1
        BY <1>0, <3>2
      <3>7. QED  BY <3>4, <3>5, <3>6
    <2>4. i \in 1 .. n => todo'[i] = next[i] /\ i \in DOMAIN next
      BY <1>0, <1>1
    <2>5. QED  BY <1>0, <1>4, <2>1, <2>2, <2>3, <2>4
  <1>5. QED  BY <1>3, <1>4 DEF Fed

LEMMA CarryReturn ==
    ASSUME Typed, Fed, todo # <<>>, Then(<<>>)
    PROVE  Fed' /\ LeftStays
  <1> DEFINE next == <<>>
  <1>1. next \in Seq(Task) /\ DOMAIN next = {} /\ Then(next)
    OBVIOUS
  <1>2. todo \in Seq(Task)
    BY TypedParts DEF Parts
  <1> HIDE DEF next
  <1>3. QED  BY <1>1, <1>2, CarryNext

LEMMA CarryEnter ==
    ASSUME Typed, Fed, todo # <<>>, NEW a, NEW b, Then(<<a, b>>),
           a.do \in FedKinds => b.do \in Consumers,
           b.do \in FedKinds => Head(todo).do \in FedKinds
    PROVE  Fed' /\ LeftStays
  <1> DEFINE next == <<a, b>>
             S == Task \union {a, b}
  <1>1. /\ next \in Seq(S) /\ Len(next) = 2 /\ DOMAIN next = {1, 2}
        /\ next[1] = a /\ next[2] = b /\ Then(next)
    OBVIOUS
  <1>2. todo \in Seq(Task)
    BY TypedParts DEF Parts
  <1>3. todo \in Seq(S)
    BY <1>2
  <1> HIDE DEF next, S
  <1>4. ASSUME NEW i \in DOMAIN next, next[i].do \in FedKinds
        PROVE  \/ i + 1 \in DOMAIN next /\ next[i + 1].do \in Consumers
               \/ i = Len(next) /\ Head(todo).do \in FedKinds
    <2>1. CASE i = 1
      BY <1>1, <1>4, <2>1
    <2>2. CASE i = 2
      BY <1>1, <1>4, <2>2
    <2>3. QED  BY <1>1, <2>1, <2>2
  <1>5. QED  BY <1>1, <1>3, <1>4, CarryNext

(* An expression that returns null dooms its statement.                      *)
LEMMA NullDooms ==
    ASSUME Typed, Fed, todo # <<>>, Then(<<>>), Head(todo).do \in FedKinds, val' = NoValue
    PROVE  Doomed'
  <1> DEFINE next == <<>>
  <1>1. todo \in Seq(Task) /\ Head(todo) = todo[1] /\ Len(todo) \in Nat /\ Len(todo) # 0
    BY TypedParts DEF Parts
  <1>2. next \in Seq(Task) /\ Len(next) = 0 /\ Then(next)
    OBVIOUS
  <1> HIDE DEF next
  <1>3. /\ todo' \in Seq(Task) /\ Len(todo') = Len(todo) - 1
        /\ \A i \in 1 .. Len(todo) - 1 : todo'[i] = todo[i + 1]
    <2>1. /\ Len(todo') = Len(next) + Len(todo) - 1 /\ todo' \in Seq(Task)
          /\ \A i \in 1 .. Len(todo) - 1 : todo'[Len(next) + i] = todo[i + 1]
      BY <1>1, <1>2, ThenAny
    <2>2. QED  BY <1>1, <1>2, <2>1
  <1>4. 2 \in 1 .. Len(todo) /\ todo[2].do \in Consumers
    BY <1>1 DEF Fed
  <1>5. Len(todo') # 0 /\ todo'[1] = todo[2]
    BY <1>1, <1>3, <1>4
  <1>6. todo' # <<>> /\ Head(todo') = todo'[1]
    BY <1>3, <1>5
  <1>7. QED  BY <1>4, <1>5, <1>6 DEF Doomed

-------------------------------------------------------------------------------
(* The graph, when the running task is replaced by next.                     *)

(* The part of Sealed that holds even while an expression has come back null: *)
(* the blocks not entered yet are empty, and each is awaited by one task.     *)
Fresh ==
    /\ activeBlock \notin Pending
    /\ \A b \in Pending : blocks[b] = <<>>
    /\ Apart(todo)

LEMMA SealedIsFresh ==
    Sealed <=> Fresh /\ \A b \in Block \ (Pending \union {activeBlock}) : Terminated(blocks[b])
  BY DEF Sealed, Fresh

\* The blocks the next tasks may await: those the running one awaited, and new ones.
Left == (PendingOf(Head(todo)) \union (Len(blocks) + 1 .. Len(blocks'))) \ {activeBlock'}

\* The builder stays, or goes to a block the running task awaited or created.
Moves ==
    \/ activeBlock' = activeBlock
    \/ activeBlock' \in PendingOf(Head(todo)) \union (Len(blocks) + 1 .. Len(blocks'))

LEMMA SealStep ==
    ASSUME Typed, Typed', Fresh, todo # <<>>, NEW next \in Seq(Task), Then(next),
           Len(blocks) <= Len(blocks'),
           \A c \in 1 .. Len(blocks') : c \notin {activeBlock, activeBlock'} =>
               blocks'[c] = IF c <= Len(blocks) THEN blocks[c] ELSE <<>>,
           Moves, PendingIn(next) \subseteq Left, Apart(next),
           \A i \in DOMAIN next :
               EnteredOf(next[i]) \subseteq EnteredOf(Head(todo)) \union PendingOf(Head(todo))
    PROVE  /\ Fresh'
           /\ Sealed /\ Left \subseteq PendingIn(next)
                 /\ (activeBlock' = activeBlock \/ Terminated(blocks'[activeBlock]))
              => Sealed'
  <1> DEFINE n == Len(blocks)
             m == Len(blocks')
             hp == PendingOf(Head(todo))
             new == n + 1 .. m
             k == Len(next)
  <1>1. /\ todo \in Seq(Task) /\ n \in Nat /\ activeBlock \in 1 .. n
        /\ \A i \in DOMAIN todo : PendingOf(todo[i]) \subseteq 1 .. n /\ EnteredOf(todo[i]) \subseteq 1 .. n
    BY TypedParts DEF Parts, GoodCode, Code, Sound
  <1>2. m \in Nat /\ activeBlock' \in 1 .. m
    BY DEF Typed, TypeOK, Block
  <1>3. /\ Head(todo) = todo[1] /\ 1 \in DOMAIN todo /\ DOMAIN todo = 1 .. Len(todo)
        /\ Len(todo) \in Nat /\ k \in Nat /\ DOMAIN next = 1 .. k
    BY <1>1
  <1>4. /\ DOMAIN todo' = 1 .. k + Len(todo) - 1
        /\ \A i \in DOMAIN next : i \in DOMAIN todo' /\ todo'[i] = next[i]
        /\ \A i \in 1 .. Len(todo) - 1 : k + i \in DOMAIN todo' /\ todo'[k + i] = todo[i + 1]
    <2>1. /\ todo' \in Seq(Task) /\ Len(todo') = k + Len(todo) - 1
          /\ \A i \in 1 .. k : todo'[i] = next[i]
          /\ \A i \in 1 .. Len(todo) - 1 : todo'[k + i] = todo[i + 1]
      BY <1>1, ThenAny
    <2>2. QED  BY <1>3, <2>1
  <1> HIDE DEF k, n, m
  <1>5. ASSUME NEW i \in DOMAIN todo'
        PROVE  \/ i \in DOMAIN next /\ todo'[i] = next[i]
               \/ i \notin DOMAIN next /\ \E j \in DOMAIN todo : j # 1 /\ i = j + k - 1 /\ todo'[i] = todo[j]
    <2>1. CASE i \in DOMAIN next
      BY <1>4, <2>1
    <2>2. CASE i \notin DOMAIN next
      <3> DEFINE j == i - k
      <3>1. j \in 1 .. Len(todo) - 1 /\ k + j = i /\ j + 1 \in 1 .. Len(todo) /\ j + 1 # 1
            /\ i = (j + 1) + k - 1
        BY <1>3, <1>4, <2>2
      <3> HIDE DEF j
      <3>2. todo'[i] = todo[j + 1]
        BY <1>4, <3>1
      <3>3. QED  BY <1>3, <2>2, <3>1, <3>2
    <2>3. QED  BY <2>1, <2>2
  <1>6. ASSUME NEW j \in DOMAIN todo, j # 1
        PROVE  \E i \in DOMAIN todo' : todo'[i] = todo[j]
    <2> DEFINE i == j - 1
    <2>1. i \in 1 .. Len(todo) - 1 /\ i + 1 = j
      BY <1>3, <1>6
    <2> HIDE DEF i
    <2>2. QED  BY <1>4, <2>1
  <1> DEFINE R == UNION {PendingOf(todo[j]) : j \in DOMAIN todo \ {1}}
             P == PendingIn(next)
  <1>7. Pending = hp \union R /\ hp \intersect R = {} /\ Pending \subseteq 1 .. n
    <2>1. Pending = hp \union R
      BY <1>3 DEF Pending, PendingIn
    <2>2. \A j \in DOMAIN todo \ {1} : hp \intersect PendingOf(todo[j]) = {}
      BY <1>3 DEF Fresh, Apart
    <2>3. Pending \subseteq 1 .. n
      BY <1>1 DEF Pending, PendingIn
    <2>4. QED  BY <2>1, <2>2, <2>3
  <1>8. Pending' = P \union R
    <2>1. ASSUME NEW b \in Pending' PROVE b \in P \union R
      <3>1. PICK i \in DOMAIN todo' : b \in PendingOf(todo'[i])
        BY DEF Pending, PendingIn
      <3>2. QED  BY <1>5, <3>1 DEF PendingIn
    <2>2. ASSUME NEW b \in P PROVE b \in Pending'
      <3>1. PICK i \in DOMAIN next : b \in PendingOf(next[i])
        BY DEF PendingIn
      <3>2. QED  BY <1>4, <3>1 DEF Pending, PendingIn
    <2>3. ASSUME NEW b \in R PROVE b \in Pending'
      <3>1. PICK j \in DOMAIN todo \ {1} : b \in PendingOf(todo[j])
        OBVIOUS
      <3>2. PICK i \in DOMAIN todo' : todo'[i] = todo[j]
        BY <1>6
      <3>3. QED  BY <3>1, <3>2 DEF Pending, PendingIn
    <2>4. QED  BY <2>1, <2>2, <2>3
  <1>9. P \subseteq (hp \union new) \ {activeBlock'}
    BY DEF n, m, Left
  <1>10. activeBlock \notin Pending /\ \A b \in Pending : blocks[b] = <<>>
    BY DEF Fresh
  <1> HIDE DEF R, P, hp
  <1>11. activeBlock' \notin Pending'
    <2>1. activeBlock' \in hp \union new \/ activeBlock' = activeBlock
      BY DEF hp, n, m, Moves
    <2>2. activeBlock' \notin R
      BY <1>1, <1>7, <1>10, <2>1
    <2>3. QED  BY <1>8, <1>9, <2>2
  <1>12. activeBlock \notin Pending'
    BY <1>1, <1>7, <1>8, <1>9, <1>10
  <1>13. \A c \in 1 .. m : c \notin {activeBlock, activeBlock'} =>
             blocks'[c] = IF c <= n THEN blocks[c] ELSE <<>>
    BY DEF n, m
  <1>14. ASSUME NEW c \in Pending' PROVE blocks'[c] = <<>>
    <2>1. c \in 1 .. m
      <3>1. n <= m
        BY DEF n, m
      <3>2. QED  BY <1>1, <1>2, <1>7, <1>8, <1>9, <3>1
    <2>2. c <= n => c \in Pending
      BY <1>1, <1>2, <1>7, <1>8, <1>9
    <2>3. QED  BY <1>10, <1>11, <1>12, <1>13, <2>1, <2>2
  <1>15. ASSUME Sealed, Left \subseteq P, activeBlock' = activeBlock \/ Terminated(blocks'[activeBlock]),
                NEW c \in 1 .. m, c \notin Pending', c # activeBlock'
         PROVE  Terminated(blocks'[c])
    <2>1. CASE c = activeBlock
      BY <1>15, <2>1
    <2>2. CASE c # activeBlock
      <3>1. c \notin hp /\ c \notin new /\ c \notin R
        BY <1>8, <1>9, <1>15 DEF Left, hp, n, m
      <3>2. c <= n /\ c \in 1 .. n
        BY <1>1, <1>2, <3>1
      <3>3. c \notin Pending
        BY <1>7, <3>1
      <3>4. Terminated(blocks[c])
        BY <1>15, <2>2, <3>2, <3>3 DEF Sealed, Block, n
      <3>5. QED  BY <1>13, <1>15, <2>2, <3>2, <3>4
    <2>3. QED  BY <2>1, <2>2
  <1>16. ASSUME NEW i \in DOMAIN todo' PROVE OwnApart(todo'[i])
    BY <1>5 DEF Fresh, Apart
  <1>17. ASSUME NEW i \in DOMAIN todo', NEW j \in DOMAIN todo'
         PROVE  /\ i # j => PendingOf(todo'[i]) \intersect PendingOf(todo'[j]) = {}
                /\ EnteredOf(todo'[i]) \intersect PendingOf(todo'[j]) = {}
    <2>1. CASE i \in DOMAIN next /\ j \in DOMAIN next
      BY <1>4, <2>1 DEF Apart
    <2>2. ASSUME NEW x \in DOMAIN next, NEW y \in DOMAIN todo \ {1}
          PROVE  /\ PendingOf(next[x]) \intersect PendingOf(todo[y]) = {}
                 /\ EnteredOf(next[x]) \intersect PendingOf(todo[y]) = {}
                 /\ EnteredOf(todo[y]) \intersect PendingOf(next[x]) = {}
      <3>1. PendingOf(next[x]) \subseteq hp \union new
        BY <1>9 DEF P, PendingIn
      <3>2. /\ hp \intersect PendingOf(todo[y]) = {} /\ EnteredOf(todo[y]) \intersect hp = {}
            /\ EnteredOf(Head(todo)) \intersect PendingOf(todo[y]) = {}
        BY <1>3 DEF Fresh, Apart, hp
      <3>3. PendingOf(todo[y]) \intersect new = {} /\ EnteredOf(todo[y]) \intersect new = {}
        BY <1>1
      <3>4. EnteredOf(next[x]) \subseteq EnteredOf(Head(todo)) \union hp
        BY DEF hp
      <3>5. QED  BY <3>1, <3>2, <3>3, <3>4
    <2>3. CASE i \in DOMAIN next /\ j \notin DOMAIN next
      BY <1>5, <2>2, <2>3
    <2>4. CASE i \notin DOMAIN next /\ j \in DOMAIN next
      BY <1>5, <2>2, <2>4
    <2>5. CASE i \notin DOMAIN next /\ j \notin DOMAIN next
      <3>1. PICK x \in DOMAIN todo : i = x + k - 1 /\ todo'[i] = todo[x]
        BY <1>5, <2>5
      <3>2. PICK y \in DOMAIN todo : j = y + k - 1 /\ todo'[j] = todo[y]
        BY <1>5, <2>5
      <3>3. i # j => x # y
        BY <3>1, <3>2
      <3>4. QED  BY <3>1, <3>2, <3>3 DEF Fresh, Apart
    <2>6. QED  BY <2>1, <2>3, <2>4, <2>5
  <1>18. Apart(todo')
    BY <1>16, <1>17 DEF Apart
  <1>19. Fresh'
    BY <1>11, <1>14, <1>18 DEF Fresh
  <1>20. ASSUME Sealed, Left \subseteq P, activeBlock' = activeBlock \/ Terminated(blocks'[activeBlock])
         PROVE  Sealed'
    BY <1>15, <1>19, <1>20 DEF Sealed, Fresh, Block, m
  <1>21. QED  BY <1>19, <1>20 DEF P

\* The blocks other than the one left and the one entered stay, new ones are empty.
OthersStay ==
    \A c \in 1 .. Len(blocks') : c \notin {activeBlock, activeBlock'} =>
        blocks'[c] = IF c <= Len(blocks) THEN blocks[c] ELSE <<>>

\* The builder stays, or the block it leaves is terminated.
LeavesTerminated ==
    \/ activeBlock' = activeBlock
    \/ /\ Terminated(blocks'[activeBlock])
       /\ activeBlock' \in PendingOf(Head(todo)) \union (Len(blocks) + 1 .. Len(blocks'))

LEMMA SealReturn ==
    ASSUME Typed, Typed', Fresh, todo # <<>>, Then(<<>>), Len(blocks') = Len(blocks),
           OthersStay, Moves
    PROVE  /\ Fresh'
           /\ Sealed /\ LeavesTerminated /\ PendingOf(Head(todo)) \subseteq {activeBlock'} => Sealed'
  <1> DEFINE next == <<>>
  <1>1. Len(blocks) \in Nat
    BY TypedParts DEF Parts, GoodCode, Code
  <1>2. /\ next \in Seq(Task) /\ Then(next) /\ DOMAIN next = {}
    OBVIOUS
  <1> HIDE DEF next
  <1>3. PendingIn(next) = {} /\ Apart(next)
    BY <1>2 DEF PendingIn, Apart
  <1>4. Len(blocks) + 1 .. Len(blocks') = {} /\ Len(blocks) <= Len(blocks')
    BY <1>1
  <1>5. /\ Fresh'
        /\ Sealed /\ Left \subseteq PendingIn(next)
              /\ (activeBlock' = activeBlock \/ Terminated(blocks'[activeBlock]))
           => Sealed'
    <2>1. /\ PendingIn(next) \subseteq Left
          /\ \A i \in DOMAIN next :
                EnteredOf(next[i]) \subseteq EnteredOf(Head(todo)) \union PendingOf(Head(todo))
      BY <1>2, <1>3
    <2>2. \A c \in 1 .. Len(blocks') : c \notin {activeBlock, activeBlock'} =>
              blocks'[c] = IF c <= Len(blocks) THEN blocks[c] ELSE <<>>
      BY DEF OthersStay
    <2>3. Apart(next) /\ Len(blocks) <= Len(blocks')
      BY <1>3, <1>4
    <2> HIDE DEF Left
    <2>4. QED  BY <1>2, <2>1, <2>2, <2>3, SealStep
  <1>6. PendingOf(Head(todo)) \subseteq {activeBlock'} => Left \subseteq PendingIn(next)
    BY <1>4 DEF Left
  <1>7. QED  BY <1>5, <1>6 DEF LeavesTerminated

LEMMA SealEnter ==
    ASSUME Typed, Typed', Fresh, todo # <<>>, NEW a, NEW b, Then(<<a, b>>),
           a.do \in {"stmt", "expr"}, OwnApart(b), EnteredOf(b) \intersect PendingOf(b) = {},
           Len(blocks) <= Len(blocks'), OthersStay, LeavesTerminated, PendingOf(b) = Left,
           EnteredOf(b) \subseteq EnteredOf(Head(todo)) \union PendingOf(Head(todo))
    PROVE  Fresh' /\ (Sealed => Sealed')
  <1> DEFINE next == <<a, b>>
             S == Task \union {a, b}
  <1>1. todo \in Seq(Task)
    BY TypedParts DEF Parts
  <1>2. todo \in Seq(S)
    BY <1>1
  <1>3. /\ next \in Seq(S) /\ Len(next) = 2 /\ DOMAIN next = {1, 2}
        /\ next[1] = a /\ next[2] = b /\ Then(next)
    OBVIOUS
  <1> HIDE DEF next, S
  <1>4. /\ Len(todo') = Len(next) + Len(todo) - 1
        /\ \A i \in 1 .. Len(next) : todo'[i] = next[i]
    BY <1>2, <1>3, ThenAny
  <1>5. a \in Task /\ b \in Task
    <2>1. todo' \in Seq(Task) /\ Len(todo) \in Nat /\ Len(todo) # 0
      BY <1>1 DEF Typed, TypeOK
    <2>2. 1 \in DOMAIN todo' /\ 2 \in DOMAIN todo' /\ todo'[1] = a /\ todo'[2] = b
      BY <1>3, <1>4, <2>1
    <2>3. QED  BY <2>1, <2>2
  <1>6. next \in Seq(Task)
    BY <1>5 DEF next
  <1>7. PendingOf(a) = {} /\ EnteredOf(a) = {} /\ OwnApart(a)
    BY DEF PendingOf, EnteredOf, OwnApart, BranchSteps, LoopSteps
  <1>8. PendingIn(next) = PendingOf(b)
    BY <1>3, <1>7 DEF PendingIn
  <1>9. Apart(next)
    BY <1>3, <1>7 DEF Apart
  <1>10. \A i \in DOMAIN next :
               EnteredOf(next[i]) \subseteq EnteredOf(Head(todo)) \union PendingOf(Head(todo))
    BY <1>3, <1>7
  <1>11. /\ PendingIn(next) \subseteq Left /\ Left \subseteq PendingIn(next) /\ Moves
         /\ activeBlock' = activeBlock \/ Terminated(blocks'[activeBlock])
    BY <1>8 DEF LeavesTerminated, Moves
  <1>12. QED  BY <1>3, <1>6, <1>9, <1>10, <1>11, SealStep DEF OthersStay

(* Emitting where the builder stands.                                        *)
LEMMA EmitStays ==
    ASSUME Typed, Typed', NEW ins, blocks' = Emitted(blocks, activeBlock, ins)
    PROVE  Len(blocks') = Len(blocks) /\ OthersStay
  <1>1. /\ blocks \in Code /\ blocks' \in Code
        /\ Len(blocks) \in Nat /\ Len(blocks') \in Nat /\ activeBlock \in 1 .. Len(blocks)
    BY DEF Typed, TypeOK, Code, Block
  <1>2. DOMAIN blocks' = DOMAIN blocks
    BY DEF Emitted
  <1>3. 1 .. Len(blocks') = 1 .. Len(blocks)
    BY <1>1, <1>2 DEF Code
  <1>4. Len(blocks') = Len(blocks)
    <2> DEFINE n == Len(blocks)
               m == Len(blocks')
    <2>1. n \in Nat /\ m \in Nat /\ 1 .. m = 1 .. n /\ n >= 1
      BY <1>1, <1>3
    <2> HIDE DEF n, m
    <2>2. n \in 1 .. m /\ m >= 1 /\ m \in 1 .. n
      BY <2>1
    <2>3. n = m
      BY <2>1, <2>2
    <2>4. QED  BY <2>3 DEF n, m
  <1>5. \A c \in 1 .. Len(blocks') : c # activeBlock => blocks'[c] = blocks[c] /\ c <= Len(blocks)
    BY <1>1, <1>4 DEF Emitted, Code
  <1>6. QED  BY <1>4, <1>5 DEF OthersStay

(* Two emissions in a row are one.                                           *)
LEMMA EmittedTwice ==
    ASSUME Typed, NEW ins \in Seq(Instruction), NEW i
    PROVE  Emitted(Emitted(blocks, activeBlock, ins), activeBlock, <<i>>)
               = Emitted(blocks, activeBlock, ins \o <<i>>)
  <1> DEFINE b == activeBlock
             T == Instruction \union {i}
  <1>1. blocks \in Code /\ b \in 1 .. Len(blocks) /\ blocks[b] \in Seq(Instruction)
    BY DEF Typed, TypeOK, Code, Block
  <1>2. ins \in Seq(T) /\ blocks[b] \in Seq(T) /\ <<i>> \in Seq(T)
    BY <1>1
  <1>3. (blocks[b] \o ins) \o <<i>> = blocks[b] \o (ins \o <<i>>)
    <2> HIDE DEF T
    <2>1. \A r, q, w \in Seq(T) : (r \o q) \o w = r \o (q \o w)
      OBVIOUS
    <2>2. QED  BY <1>2, <2>1
  <1> HIDE DEF T, b
  <1>4. DOMAIN blocks = 1 .. Len(blocks) /\ b = activeBlock
    BY <1>1 DEF Code, b
  <1>5. [[blocks EXCEPT ![b] = @ \o ins] EXCEPT ![b] = @ \o <<i>>]
            = [blocks EXCEPT ![b] = @ \o (ins \o <<i>>)]
    BY <1>1, <1>3, <1>4
  <1>6. QED  BY <1>4, <1>5 DEF Emitted

LEMMA EmitTerminates ==
    ASSUME Typed, NEW pre \in Seq(Instruction), NEW i \in Instruction, IsTerminator(i)
    PROVE  /\ Terminated(Emitted(blocks, activeBlock, pre \o <<i>>)[activeBlock])
           /\ Terminated(Emitted(blocks, activeBlock, <<i>>)[activeBlock])
  <1>1. blocks \in Code /\ activeBlock \in 1 .. Len(blocks) /\ blocks[activeBlock] \in Seq(Instruction)
    BY DEF Typed, TypeOK, Code, Block
  <1>2. pre \o <<i>> \in Seq(Instruction) /\ <<i>> \in Seq(Instruction)
    OBVIOUS
  <1>3. /\ Emitted(blocks, activeBlock, pre \o <<i>>)[activeBlock] = blocks[activeBlock] \o (pre \o <<i>>)
        /\ Emitted(blocks, activeBlock, <<i>>)[activeBlock] = blocks[activeBlock] \o <<i>>
    BY <1>1, <1>2, EmittedFacts
  <1>4. QED  BY <1>1, <1>3, AppendTerminates

LEMMA Terminators ==
    /\ IsTerminator(Ret)
    /\ \A b : IsTerminator(Br(b))
    /\ \A t, f : IsTerminator(CondBr(t, f))
  BY DEF IsTerminator, Ret, Br, CondBr

(* After the jumps of a branch or a loop body, the block left is terminated. *)
LEMMA JoinedTerminates ==
    ASSUME Typed, NEW b \in 1 .. Len(blocks), NEW target \in 1 .. Len(blocks)
    PROVE  Terminated(Joined(blocks, b, target)[activeBlock])
  <1> DEFINE bl == blocks
             jump == <<Br(target)>>
             bl1 == IF activeBlock # b /\ ~Terminated(bl[activeBlock])
                    THEN Emitted(bl, activeBlock, jump) ELSE bl
             probe == IF bl1[b] = <<>> THEN activeBlock ELSE b
  <1>1. bl \in Code /\ activeBlock \in 1 .. Len(bl) /\ target \in Nat
    BY DEF Typed, TypeOK, Code, Block
  <1>2. Br(target) \in Instruction /\ IsTerminator(Br(target)) /\ jump \in Seq(Instruction)
    BY <1>1, InstructionTypes, Terminators
  <1>3. Joined(bl, b, target) = IF Terminated(bl1[probe]) THEN bl1 ELSE Emitted(bl1, activeBlock, jump)
    BY DEF Joined
  <1>4. bl1 \in Code /\ Len(bl1) = Len(bl)
    BY <1>1, <1>2, EmittedFacts
  <1>5. activeBlock # b => Terminated(bl1[activeBlock])
    <2>1. Terminated(Emitted(blocks, activeBlock, jump)[activeBlock])
      BY <1>2, EmitTerminates
    <2>2. QED  BY <2>1
  <1>6. activeBlock = b => probe = activeBlock
    OBVIOUS
  <1> HIDE DEF bl1, probe, bl
  <1>7. Terminated(Emitted(bl1, activeBlock, jump)[activeBlock])
    <2>1. activeBlock \in 1 .. Len(bl1) /\ bl1[activeBlock] \in Seq(Instruction)
      BY <1>1, <1>4 DEF Code
    <2>2. Emitted(bl1, activeBlock, jump)[activeBlock] = bl1[activeBlock] \o jump
      BY <1>2, <1>4, <2>1, EmittedFacts
    <2>3. QED  BY <1>2, <2>1, <2>2, AppendTerminates
  <1>8. Terminated(Joined(bl, b, target)[activeBlock])
    <2>1. CASE activeBlock # b
      BY <1>3, <1>5, <1>7, <2>1
    <2>2. CASE activeBlock = b
      BY <1>3, <1>6, <1>7, <2>2
    <2>3. QED  BY <2>1, <2>2
  <1>9. QED  BY <1>8 DEF bl

LEMMA JoinedStays ==
    ASSUME Typed, Typed', NEW b \in 1 .. Len(blocks), NEW target \in 1 .. Len(blocks),
           blocks' = Joined(blocks, b, target)
    PROVE  Len(blocks') = Len(blocks) /\ OthersStay
  <1>1. blocks \in Code /\ activeBlock \in 1 .. Len(blocks) /\ target \in Nat /\ Len(blocks) \in Nat
    BY DEF Typed, TypeOK, Code, Block
  <1>2. /\ Len(blocks') = Len(blocks)
        /\ \A c \in 1 .. Len(blocks) : c # activeBlock => blocks'[c] = blocks[c]
    BY <1>1, JoinedFacts
  <1>3. QED  BY <1>1, <1>2 DEF OthersStay

-------------------------------------------------------------------------------
(* Every step leaves the graph sealed, or its statement doomed, or ends it all; *)
(* and the blocks to come fresh in any case.                                  *)

Settles ==
    /\ Fed' /\ (Fresh => Fresh')
    /\ \/ status' \in {"failed", "crashed"}
       \/ status' = "run" /\ (Doomed => Doomed') /\ (Sealed => Doomed' \/ Sealed')

LEMMA HaltSettles ==
    ASSUME Fed, Fail \/ Crash
    PROVE  Settles
  BY DEF Settles, Fed, Fail, Crash, Fresh, Pending, emission

LEMMA StayDoomed ==
    ASSUME Typed, todo # <<>>, LeftStays, Doomed,
           \/ Head(todo).do \notin Consumers
           \/ val # NoValue /\ ~NullLeft(Head(todo))
    PROVE  Doomed'
  <1>1. todo \in Seq(Task) /\ Head(todo) = todo[1] /\ DOMAIN todo = 1 .. Len(todo)
    BY TypedParts DEF Parts
  <1>2. PICK i \in DOMAIN todo : NullLeft(todo[i])
    BY DEF Doomed, NullLeft
  <1>3. i # 1
    BY <1>1, <1>2 DEF NullLeft, Consumers
  <1>4. i \in 2 .. Len(todo)
    BY <1>1, <1>3
  <1>5. QED  BY <1>2, <1>4 DEF LeftStays

\* What the running task awaits, by its tag.
LEMMA AwaitNothing ==
    ASSUME NEW t, t.do \notin BranchSteps \union LoopSteps
    PROVE  PendingOf(t) = {} /\ EnteredOf(t) = {} /\ OwnApart(t)
  BY DEF PendingOf, EnteredOf, OwnApart, BranchSteps, LoopSteps

(* A return of a task that awaits nothing, after emitting ins or nothing.    *)
LEMMA ReturnSettles ==
    ASSUME Typed, Typed', Fed, NEW tag, Is(tag), tag \notin BranchSteps \union LoopSteps,
           Then(<<>>), status' = status, activeBlock' = activeBlock, NEW ins,
           blocks' = blocks \/ blocks' = Emitted(blocks, activeBlock, ins),
           tag \notin Consumers \/ (val # NoValue /\ ~NullLeft(Head(todo)))
    PROVE  Settles
  <1>1. todo # <<>> /\ Head(todo).do = tag /\ status = "run"
    BY DEF Is
  <1>2. Fed' /\ LeftStays
    BY <1>1, CarryReturn
  <1>3. Doomed => Doomed'
    BY <1>1, <1>2, StayDoomed
  <1>4. Len(blocks') = Len(blocks) /\ OthersStay
    <2>1. CASE blocks' = blocks
      <3>1. Len(blocks) \in Nat
        BY TypedParts DEF Parts, GoodCode, Code
      <3>2. QED  BY <2>1, <3>1 DEF OthersStay
    <2>2. CASE blocks' = Emitted(blocks, activeBlock, ins)
      BY <2>2, EmitStays
    <2>3. QED  BY <2>1, <2>2
  <1>5. LeavesTerminated
    BY DEF LeavesTerminated
  <1>6. Fresh => Fresh' /\ (Sealed => Sealed')
    BY <1>1, <1>4, <1>5, AwaitNothing, SealReturn DEF Moves
  <1>7. QED  BY <1>1, <1>2, <1>3, <1>6, SealedIsFresh DEF Settles

(* A step that enters a and will continue with b.                            *)
LEMMA EnterSettles ==
    ASSUME Typed, Typed', Fed, NEW tag, Is(tag), NEW a, NEW b, Then(<<a, b>>), status' = status,
           a.do \in {"stmt", "expr"}, a.do = "expr" => b.do \in Consumers,
           b.do \in FedKinds => tag \in FedKinds,
           tag \notin Consumers \/ (val # NoValue /\ tag # "assignStore"),
           Fresh =>
               /\ OwnApart(b) /\ EnteredOf(b) \intersect PendingOf(b) = {}
               /\ Len(blocks) <= Len(blocks') /\ OthersStay /\ LeavesTerminated
               /\ PendingOf(b) = Left
               /\ EnteredOf(b) \subseteq EnteredOf(Head(todo)) \union PendingOf(Head(todo))
    PROVE  Settles
  <1>1. todo # <<>> /\ Head(todo).do = tag /\ status = "run"
    BY DEF Is
  <1>2. Fed' /\ LeftStays
    <2>1. a.do \in FedKinds => b.do \in Consumers
      BY DEF FedKinds
    <2>2. QED  BY <1>1, <2>1, CarryEnter
  <1>3. Doomed => Doomed'
    BY <1>1, <1>2, StayDoomed DEF NullLeft
  <1>4. Fresh => Fresh' /\ (Sealed => Sealed')
    BY <1>1, SealEnter
  <1>5. QED  BY <1>1, <1>2, <1>3, <1>4, SealedIsFresh DEF Settles

(* The same when neither a nor b await blocks, and nothing is emitted.       *)
LEMMA PlainEnterSettles ==
    ASSUME Typed, Typed', Fed, NEW tag, Is(tag), tag \notin BranchSteps \union LoopSteps,
           NEW a, NEW b, Then(<<a, b>>), a.do = "expr",
           b.do \in {"define", "assignRight", "assignStore", "emitReturn"},
           UNCHANGED <<status, emission>>,
           tag \notin Consumers \/ (val # NoValue /\ tag # "assignStore")
    PROVE  Settles
  <1>1. /\ Head(todo).do = tag /\ blocks' = blocks /\ activeBlock' = activeBlock /\ status' = status
    BY DEF Is, emission
  <1>2. b.do \in Consumers /\ b.do \notin FedKinds /\ b.do \notin BranchSteps \union LoopSteps
    BY DEF Consumers, FedKinds, BranchSteps, LoopSteps
  <1>3. Len(blocks) \in Nat
    BY TypedParts DEF Parts, GoodCode, Code
  <1>4. Len(blocks) <= Len(blocks') /\ OthersStay /\ LeavesTerminated
    BY <1>1, <1>3 DEF OthersStay, LeavesTerminated
  <1>5. Len(blocks) + 1 .. Len(blocks') = {}
    BY <1>1, <1>3
  <1>6. /\ PendingOf(b) = {} /\ EnteredOf(b) = {} /\ OwnApart(b) /\ PendingOf(Head(todo)) = {}
    BY <1>1, <1>2, AwaitNothing
  <1>7. PendingOf(b) = Left
    BY <1>5, <1>6 DEF Left
  <1>8. QED  BY <1>1, <1>2, <1>4, <1>6, <1>7, EnterSettles

(* A return that moves on to the last block the task awaits.                 *)
LEMMA LeaveSettles ==
    ASSUME Typed, Typed', Fed, NEW tag, Is(tag), Then(<<>>), status' = status,
           tag \notin Consumers \/ (val # NoValue /\ tag # "assignStore"),
           Fresh => /\ Len(blocks') = Len(blocks) /\ OthersStay /\ LeavesTerminated
                    /\ PendingOf(Head(todo)) \subseteq {activeBlock'}
    PROVE  Settles
  <1>1. todo # <<>> /\ Head(todo).do = tag /\ status = "run"
    BY DEF Is
  <1>2. Fed' /\ LeftStays
    BY <1>1, CarryReturn
  <1>3. Doomed => Doomed'
    BY <1>1, <1>2, StayDoomed DEF NullLeft
  <1>4. LeavesTerminated => Moves
    BY DEF LeavesTerminated, Moves
  <1>5. Fresh => Fresh' /\ (Sealed => Sealed')
    BY <1>1, <1>4, SealReturn
  <1>6. QED  BY <1>1, <1>2, <1>3, <1>5, SealedIsFresh DEF Settles

(* A null expression returns.                                                *)
LEMMA NullSettles ==
    ASSUME Typed, Typed', Fed, NEW tag \in FedKinds, Is(tag), Then(<<>>), status' = status,
           val' = NoValue, Len(blocks') = Len(blocks), OthersStay, Moves
    PROVE  Settles
  <1>1. todo # <<>> /\ Head(todo).do = tag /\ status = "run"
    BY DEF Is
  <1>2. Fresh => Fresh'
    BY <1>1, SealReturn
  <1>3. QED  BY <1>1, <1>2, CarryReturn, NullDooms DEF Settles

LEMMA NothingMoves ==
    ASSUME Typed, Typed', UNCHANGED emission
    PROVE  Len(blocks') = Len(blocks) /\ OthersStay /\ Moves /\ LeavesTerminated
  <1>1. Len(blocks) \in Nat
    BY TypedParts DEF Parts, GoodCode, Code
  <1>2. QED  BY <1>1 DEF emission, OthersStay, Moves, LeavesTerminated

LEMMA HeadApart ==
    ASSUME Typed, Fresh, todo # <<>>
    PROVE  /\ OwnApart(Head(todo)) /\ EnteredOf(Head(todo)) \intersect PendingOf(Head(todo)) = {}
           /\ activeBlock \notin PendingOf(Head(todo))
  <1>1. Head(todo) = todo[1] /\ 1 \in DOMAIN todo
    BY TypedParts DEF Parts
  <1>2. QED  BY <1>1 DEF Fresh, Apart, Pending, PendingIn

-------------------------------------------------------------------------------

LEMMA ExprSettles ==
    ASSUME Typed, Typed', Fed, EncodeCalc \/ EncodeSymbolRef \/ EncodeUnsupported
    PROVE  Settles
  <1>1. /\ Is("expr") /\ "expr" \notin BranchSteps \union LoopSteps /\ "expr" \notin Consumers
        /\ "expr" \in FedKinds
    BY DEF EncodeCalc, EncodeSymbolRef, EncodeUnsupported, IsExpr, BranchSteps, LoopSteps, Consumers,
           FedKinds
  <1>2. CASE EncodeCalc
    <2> DEFINE syms == [i \in DOMAIN Node.reads |-> Lookup(Node.reads[i])]
               ins == [i \in DOMAIN syms |-> Load(syms[i].cell)]
    <2>1. /\ Then(<<>>) /\ status' = status /\ activeBlock' = activeBlock
          /\ \/ val' = NoValue /\ blocks' = blocks
             \/ blocks' = Emitted(blocks, activeBlock, ins)
      BY <1>2 DEF EncodeCalc, Return
    <2> HIDE DEF ins
    <2>2. CASE val' = NoValue /\ blocks' = blocks
      BY <1>1, <2>1, <2>2, NullSettles, NothingMoves DEF emission
    <2>3. CASE blocks' = Emitted(blocks, activeBlock, ins)
      BY <1>1, <2>1, <2>3, ReturnSettles
    <2>4. QED  BY <2>1, <2>2, <2>3
  <1>3. CASE EncodeSymbolRef \/ EncodeUnsupported
    <2>1. /\ Then(<<>>) /\ status' = status /\ activeBlock' = activeBlock /\ blocks' = blocks
      BY <1>3 DEF EncodeSymbolRef, EncodeUnsupported, Return, emission
    <2>2. QED  BY <1>1, <2>1, ReturnSettles
  <1>4. QED  BY <1>2, <1>3

LEMMA SimpleSettles ==
    ASSUME Typed, Typed', Fed,
           \/ EncodeNothing \/ EncodeRefused \/ EncodeSymbolDef \/ DefineSymbol
           \/ EncodeAssign \/ AssignStore \/ EncodeReturn \/ EmitReturn
           \/ EncodeBreak \/ EncodeContinue \/ EndBlock
    PROVE  Settles
  <1> USE DEF BranchSteps, LoopSteps, Consumers
  <1>1. CASE Fail \/ Crash
    BY <1>1, HaltSettles
  <1>2. CASE EncodeNothing \/ EndBlock
    <2>1. /\ Is("stmt") \/ Is("endBlock")
          /\ Then(<<>>) /\ status' = status /\ activeBlock' = activeBlock /\ blocks' = blocks
      BY <1>2 DEF EncodeNothing, EndBlock, IsStmt, emission
    <2>2. QED  BY <2>1, ReturnSettles
  <1>3. CASE DefineSymbol /\ ~(Fail \/ Crash)
    <2> DEFINE ins == Loads(val) \o <<Alloca>>
               bl == Emitted(blocks, activeBlock, ins)
               cell == <<activeBlock, Len(bl[activeBlock])>>
               all == ins \o <<Store(cell)>>
    <2>1. /\ Is("define") /\ Then(<<>>) /\ status' = status /\ activeBlock' = activeBlock
          /\ blocks' = Emitted(bl, activeBlock, <<Store(cell)>>) /\ val # NoValue
      BY <1>3 DEF DefineSymbol
    <2>2. blocks' = Emitted(blocks, activeBlock, all)
      <3>1. /\ GoodCode(blocks) /\ activeBlock \in 1 .. Len(blocks) /\ val \in Value
        BY <2>1, RunningFacts
      <3>2. ins \in Seq(Instruction)
        <4>1. Loads(val) \in Seq(Instruction) /\ Alloca \in Instruction
          BY <3>1, LoadsType, InstructionTypes
        <4>2. QED  BY <4>1
      <3>3. QED  BY <2>1, <3>2, EmittedTwice
    <2>3. ~NullLeft(Head(todo))
      BY <2>1 DEF NullLeft, Is
    <2> HIDE DEF all
    <2>4. QED  BY <2>1, <2>2, <2>3, ReturnSettles
  <1>4. CASE AssignStore /\ ~(Fail \/ Crash)
    <2> DEFINE ins == Loads(val) \o <<StoreOf(val, Head(todo).left)>>
    <2>1. /\ Is("assignStore") /\ Then(<<>>) /\ status' = status /\ activeBlock' = activeBlock
          /\ blocks' = Emitted(blocks, activeBlock, ins) /\ val # NoValue /\ Head(todo).left # NoValue
      BY <1>4 DEF AssignStore
    <2>2. ~NullLeft(Head(todo))
      BY <2>1 DEF NullLeft
    <2> HIDE DEF ins
    <2>3. QED  BY <2>1, <2>2, ReturnSettles
  <1>5. CASE EmitReturn /\ ~(Fail \/ Crash)
    <2> DEFINE ins == Loads(val) \o <<Ret>>
    <2>1. /\ Is("emitReturn") /\ Then(<<>>) /\ status' = status /\ activeBlock' = activeBlock
          /\ blocks' = Emitted(blocks, activeBlock, ins) /\ val # NoValue
      BY <1>5 DEF EmitReturn
    <2>2. ~NullLeft(Head(todo))
      BY <2>1 DEF NullLeft, Is
    <2> HIDE DEF ins
    <2>3. QED  BY <2>1, <2>2, ReturnSettles
  <1>6. CASE (EncodeBreak \/ EncodeContinue) /\ ~(Fail \/ Crash)
    <2>1. PICK point : (IsStmt("break") \/ IsStmt("continue")) /\ JumpTo(point)
      BY <1>6 DEF EncodeBreak, EncodeContinue
    <2> DEFINE ins == <<Br(point)>>
    <2>2. /\ Is("stmt") /\ Then(<<>>) /\ status' = status /\ activeBlock' = activeBlock
          /\ blocks' = Emitted(blocks, activeBlock, ins)
      BY <1>6, <2>1 DEF IsStmt, JumpTo
    <2> HIDE DEF ins
    <2>3. QED  BY <2>2, ReturnSettles
  <1>7. CASE EncodeSymbolDef /\ ~(Fail \/ Crash)
    <2> DEFINE a == Expr(Node.value)
               b == [do |-> "define", name |-> Node.name]
    <2>1. Is("stmt") /\ Then(<<a, b>>) /\ UNCHANGED <<status, emission>>
      BY <1>7 DEF EncodeSymbolDef, IsStmt
    <2>2. a.do = "expr" /\ b.do = "define"
      BY DEF Expr
    <2> HIDE DEF a, b
    <2>3. QED  BY <2>1, <2>2, PlainEnterSettles
  <1>8. CASE EncodeAssign
    <2> DEFINE a == Expr(Node.left)
               b == [do |-> "assignRight", node |-> Node.right]
    <2>1. Is("stmt") /\ Then(<<a, b>>) /\ UNCHANGED <<status, emission>>
      BY <1>8 DEF EncodeAssign, IsStmt
    <2>2. a.do = "expr" /\ b.do = "assignRight"
      BY DEF Expr
    <2> HIDE DEF a, b
    <2>3. QED  BY <2>1, <2>2, PlainEnterSettles
  <1>9. CASE EncodeReturn /\ ~(Fail \/ Crash)
    <2> DEFINE a == Expr(Node.value)
               b == [do |-> "emitReturn"]
    <2>1. Is("stmt") /\ Then(<<a, b>>) /\ UNCHANGED <<status, emission>>
      BY <1>9 DEF EncodeReturn, IsStmt
    <2>2. a.do = "expr" /\ b.do = "emitReturn"
      BY DEF Expr
    <2> HIDE DEF a, b
    <2>3. QED  BY <2>1, <2>2, PlainEnterSettles
  <1>10. EncodeRefused => Fail
    BY DEF EncodeRefused
  <1>11. QED  BY <1>1, <1>2, <1>3, <1>4, <1>5, <1>6, <1>7, <1>8, <1>9, <1>10

LEMMA AssignRightSettles ==
    ASSUME Typed, Typed', Fed, AssignRight
    PROVE  Settles
  <1> DEFINE a == Expr(Node)
             b == [do |-> "assignStore", left |-> val]
  <1>1. /\ Is("assignRight") /\ Then(<<a, b>>) /\ UNCHANGED <<status, emission>>
        /\ todo # <<>> /\ status = "run" /\ Head(todo).do = "assignRight"
    BY DEF AssignRight, Is
  <1>2. a.do = "expr" /\ b.do = "assignStore" /\ b.left = val
    BY DEF Expr
  <1>3. CASE val # NoValue
    <2> HIDE DEF a, b
    <2>1. "assignRight" \notin BranchSteps \union LoopSteps
      BY DEF BranchSteps, LoopSteps
    <2>2. QED  BY <1>1, <1>2, <1>3, <2>1, PlainEnterSettles
  <1>4. CASE val = NoValue
    <2> DEFINE next == <<a, b>>
               S == Task \union {a, b}
    <2>1. todo \in Seq(Task)
      BY TypedParts DEF Parts
    <2>2. /\ todo \in Seq(S) /\ next \in Seq(S) /\ Len(next) = 2 /\ next[2] = b /\ Then(next)
      BY <1>1, <2>1
    <2> HIDE DEF next, S
    <2>3. /\ Len(todo') = Len(next) + Len(todo) - 1 /\ todo' \in Seq(S)
          /\ \A i \in 1 .. Len(next) : todo'[i] = next[i]
      BY <1>1, <2>2, ThenAny
    <2>4. Len(todo) \in Nat /\ Len(todo) # 0
      BY <1>1, <2>1
    <2>5. 2 \in DOMAIN todo' /\ todo'[2] = b
      BY <2>2, <2>3, <2>4
    <2>6. Doomed'
      BY <1>2, <1>4, <2>5 DEF Doomed
    <2> HIDE DEF a, b
    <2>7. Fed'
      BY <1>1, <1>2, CarryEnter DEF FedKinds, Consumers
    <2>8. Fresh => Fresh'
      <3>1. b.do \notin BranchSteps \union LoopSteps /\ Head(todo).do \notin BranchSteps \union LoopSteps
        BY <1>1, <1>2 DEF BranchSteps, LoopSteps
      <3>2. PendingOf(b) = {} /\ EnteredOf(b) = {} /\ OwnApart(b) /\ PendingOf(Head(todo)) = {}
        BY <3>1, AwaitNothing
      <3>3. Len(blocks') = Len(blocks) /\ OthersStay /\ LeavesTerminated
        BY <1>1, NothingMoves
      <3>4. Len(blocks) \in Nat
        BY TypedParts DEF Parts, GoodCode, Code
      <3>5. PendingOf(b) = Left /\ Len(blocks) <= Len(blocks')
        BY <3>2, <3>3, <3>4 DEF Left
      <3> HIDE DEF OthersStay, LeavesTerminated
      <3>6. QED  BY <1>1, <1>2, <3>2, <3>3, <3>5, SealEnter
    <2>9. QED  BY <1>1, <2>6, <2>7, <2>8 DEF Settles
  <1>5. QED  BY <1>3, <1>4

-------------------------------------------------------------------------------
(* Branches and loops.                                                       *)

(* The builder ends the block it stands in.                                  *)
LEMMA EmitEnds ==
    ASSUME Typed, Typed', NEW pre \in Seq(Instruction), NEW i \in Instruction, IsTerminator(i),
           \/ blocks' = Emitted(blocks, activeBlock, pre \o <<i>>)
           \/ blocks' = Emitted(blocks, activeBlock, <<i>>)
    PROVE  Len(blocks') = Len(blocks) /\ OthersStay /\ Terminated(blocks'[activeBlock])
  BY EmitStays, EmitTerminates

LEMMA JoinEnds ==
    ASSUME Typed, Typed', NEW b \in 1 .. Len(blocks), NEW target \in 1 .. Len(blocks),
           blocks' = Joined(blocks, b, target)
    PROVE  Len(blocks') = Len(blocks) /\ OthersStay /\ Terminated(blocks'[activeBlock])
  BY JoinedStays, JoinedTerminates

(* A task enters the next block it awaits, and awaits the others.            *)
LEMMA AdvanceSettles ==
    ASSUME Typed, Typed', Fed, NEW tag, Is(tag), NEW a, NEW b, Then(<<a, b>>), status' = status,
           a.do \in {"stmt", "expr"}, a.do = "expr" => b.do \in Consumers,
           b.do \in FedKinds => tag \in FedKinds,
           tag \notin Consumers \/ (val # NoValue /\ tag # "assignStore"),
           Len(blocks') = Len(blocks), OthersStay, Terminated(blocks'[activeBlock]),
           activeBlock' \in PendingOf(Head(todo)),
           OwnApart(Head(todo)) =>
               OwnApart(b) /\ PendingOf(b) = PendingOf(Head(todo)) \ {activeBlock'},
           EnteredOf(b) \subseteq EnteredOf(Head(todo)) \union {activeBlock'}
    PROVE  Settles
  <1>1. todo # <<>>
    BY DEF Is
  <1>2. Len(blocks) \in Nat
    BY TypedParts DEF Parts, GoodCode, Code
  <1>3. Len(blocks) + 1 .. Len(blocks') = {} /\ Len(blocks) <= Len(blocks')
    BY <1>2
  <1>4. ASSUME Fresh
        PROVE  /\ OwnApart(b) /\ EnteredOf(b) \intersect PendingOf(b) = {}
               /\ LeavesTerminated
               /\ PendingOf(b) = Left
               /\ EnteredOf(b) \subseteq EnteredOf(Head(todo)) \union PendingOf(Head(todo))
    <2>1. /\ OwnApart(Head(todo))
          /\ EnteredOf(Head(todo)) \intersect PendingOf(Head(todo)) = {}
      BY <1>1, <1>4, HeadApart
    <2>2. OwnApart(b) /\ PendingOf(b) = PendingOf(Head(todo)) \ {activeBlock'}
      BY <2>1
    <2>3. QED  BY <1>3, <2>1, <2>2 DEF LeavesTerminated, Left
  <1> HIDE DEF OthersStay
  <1>5. QED  BY <1>3, <1>4, EnterSettles

(* A task that awaits nothing creates the k blocks that b will await.        *)
LEMMA BeginSettles ==
    ASSUME Typed, Typed', Fed, NEW tag \in {"stmt", "expr"}, Is(tag), NEW a, NEW b,
           Then(<<a, b>>), status' = status,
           a.do \in {"stmt", "expr"}, a.do = "expr" => b.do \in Consumers,
           b.do \in FedKinds => tag = "expr",
           Len(blocks) <= Len(blocks'), OthersStay, LeavesTerminated,
           OwnApart(b), EnteredOf(b) = {},
           PendingOf(b) = (Len(blocks) + 1 .. Len(blocks')) \ {activeBlock'}
    PROVE  Settles
  <1>1. /\ Head(todo).do = tag /\ tag \notin Consumers
        /\ tag \notin BranchSteps \union LoopSteps
        /\ b.do \in FedKinds => tag \in FedKinds
    BY DEF Is, Consumers, BranchSteps, LoopSteps, FedKinds
  <1>2. PendingOf(Head(todo)) = {}
    BY <1>1, AwaitNothing
  <1>3. PendingOf(b) = Left /\ EnteredOf(b) \intersect PendingOf(b) = {}
    BY <1>2 DEF Left
  <1> HIDE DEF OthersStay, LeavesTerminated
  <1>4. QED  BY <1>1, <1>2, <1>3, EnterSettles

(* The next task of a branch or a loop, and what it awaits.                  *)
Advances(t, b) ==
    /\ OwnApart(t) => OwnApart(b)
    /\ t.do \in {"trinaryCond", "trinaryTrue", "branchCond", "branchTrue"} =>
          LET entered == IF t.do \in {"trinaryCond", "branchCond"} THEN t.yes ELSE t.no
          IN  /\ OwnApart(t) => PendingOf(b) = PendingOf(t) \ {entered}
              /\ EnteredOf(b) \subseteq EnteredOf(t) \union {entered}
              /\ entered \in PendingOf(t)
    /\ t.do \in {"loopCond", "loopBody", "loopStep"} =>
          LET entered == CASE t.do = "loopCond" -> t.cond
                           [] t.do = "loopBody" -> t.body
                           [] t.do = "loopStep" -> t.step
          IN  /\ OwnApart(t) => PendingOf(b) = PendingOf(t) \ {entered}
              /\ EnteredOf(b) \subseteq EnteredOf(t) \union {entered}
              /\ entered \in PendingOf(t)

LEMMA BranchAdvances ==
    ASSUME NEW t \in Task
    PROVE  /\ t.do = "trinaryCond" => Advances(t, [t EXCEPT !.do = "trinaryTrue"])
           /\ t.do = "branchCond" => Advances(t, [t EXCEPT !.do = "branchTrue"])
  <1>1. ASSUME t.do = "trinaryCond" PROVE Advances(t, [t EXCEPT !.do = "trinaryTrue"])
    <2> DEFINE b == [t EXCEPT !.do = "trinaryTrue"]
    <2>1. b.do = "trinaryTrue" /\ b.yes = t.yes /\ b.no = t.no /\ b.end = t.end
      BY <1>1 DEF Task, LoopSteps
    <2> HIDE DEF b
    <2>2. Advances(t, b)
      BY <1>1, <2>1 DEF Advances, OwnApart, BranchSteps, LoopSteps, PendingOf, EnteredOf
    <2>3. QED  BY <2>2 DEF b
  <1>2. ASSUME t.do = "branchCond" PROVE Advances(t, [t EXCEPT !.do = "branchTrue"])
    <2> DEFINE b == [t EXCEPT !.do = "branchTrue"]
    <2>1. b.do = "branchTrue" /\ b.yes = t.yes /\ b.no = t.no /\ b.end = t.end
      BY <1>2 DEF Task, LoopSteps
    <2> HIDE DEF b
    <2>2. Advances(t, b)
      BY <1>2, <2>1 DEF Advances, OwnApart, BranchSteps, LoopSteps, PendingOf, EnteredOf
    <2>3. QED  BY <2>2 DEF b
  <1>3. QED  BY <1>1, <1>2

LEMMA BranchTurns ==
    ASSUME NEW t \in Task
    PROVE  /\ t.do = "branchTrue" => Advances(t, [t EXCEPT !.do = "branchFalse"])
           /\ t.do = "trinaryTrue" =>
                 \A b : b.do = "trinaryFalse" /\ b.yes = t.yes /\ b.no = t.no /\ b.end = t.end
                         => Advances(t, b)
  <1>1. ASSUME t.do = "branchTrue" PROVE Advances(t, [t EXCEPT !.do = "branchFalse"])
    <2> DEFINE b == [t EXCEPT !.do = "branchFalse"]
    <2>1. b.do = "branchFalse" /\ b.yes = t.yes /\ b.no = t.no /\ b.end = t.end
      BY <1>1 DEF Task, LoopSteps
    <2> HIDE DEF b
    <2>2. Advances(t, b)
      BY <1>1, <2>1 DEF Advances, OwnApart, BranchSteps, LoopSteps, PendingOf, EnteredOf
    <2>3. QED  BY <2>2 DEF b
  <1>2. ASSUME t.do = "trinaryTrue",
               NEW b, b.do = "trinaryFalse" /\ b.yes = t.yes /\ b.no = t.no /\ b.end = t.end
        PROVE  Advances(t, b)
    BY <1>2 DEF Advances, OwnApart, BranchSteps, LoopSteps, PendingOf, EnteredOf
  <1>3. QED  BY <1>1, <1>2

LEMMA LoopAdvances ==
    ASSUME NEW t \in Task, NEW old, NEW new,
           <<old, new>> \in {<<"loopCond", "loopBody">>, <<"loopBody", "loopStep">>,
                             <<"loopStep", "endLoop">>},
           t.do = old
    PROVE  Advances(t, [t EXCEPT !.do = new])
  <1> DEFINE b == [t EXCEPT !.do = new]
  <1>0. old \in {"loopCond", "loopBody", "loopStep"}
    OBVIOUS
  <1>1. b.do = new /\ b.cond = t.cond /\ b.step = t.step /\ b.body = t.body /\ b.end = t.end
    BY <1>0 DEF Task, LoopSteps
  <1> HIDE DEF b
  <1>2. Advances(t, b)
    BY <1>1 DEF Advances, OwnApart, BranchSteps, LoopSteps, PendingOf, EnteredOf
  <1>3. QED  BY <1>2 DEF b

(* The trinary.                                                              *)
LEMMA TrinarySettles ==
    ASSUME Typed, Typed', Fed, EncodeTrinary
    PROVE  Settles
  <1> DEFINE n == Len(blocks)
             bl == Created(blocks, 4)
             a == Expr(Node.cond)
             b == [do |-> "trinaryCond", node |-> Node,
                   yes |-> n + 2, no |-> n + 3, end |-> n + 4]
  <1>1. /\ Is("expr") /\ blocks' = Emitted(bl, activeBlock, <<Br(n + 1)>>) /\ activeBlock' = n + 1
        /\ Then(<<a, b>>) /\ status' = status
    BY DEF EncodeTrinary, IsExpr
  <1>2. blocks \in Code /\ n \in Nat /\ activeBlock \in 1 .. n
    BY TypedParts DEF Parts, GoodCode, Code
  <1>3. /\ bl \in Code /\ Len(bl) = n + 4 /\ activeBlock \in 1 .. Len(bl)
        /\ \A c \in 1 .. n : bl[c] = blocks[c]
        /\ \A c \in n + 1 .. n + 4 : bl[c] = <<>>
    <2>1. /\ bl \in Code /\ Len(bl) = n + 4
          /\ \A c \in 1 .. n : bl[c] = blocks[c]
          /\ \A c \in n + 1 .. n + 4 : bl[c] = <<>>
      <3>1. 4 \in Nat
        OBVIOUS
      <3>2. QED  BY <1>2, <3>1, CreatedFacts, Zenon
    <2> HIDE DEF bl, n
    <2>2. activeBlock \in 1 .. Len(bl)
      BY <1>2, <2>1
    <2>3. QED  BY <2>1, <2>2
  <1> HIDE DEF bl
  <1>4. <<Br(n + 1)>> \in Seq(Instruction) /\ IsTerminator(Br(n + 1)) /\ Br(n + 1) \in Instruction
    BY <1>2, InstructionTypes, Terminators
  <1>5. /\ Len(blocks') = n + 4 /\ blocks'[activeBlock] = bl[activeBlock] \o <<Br(n + 1)>>
        /\ \A c \in 1 .. n + 4 : c # activeBlock => blocks'[c] = bl[c]
    BY <1>1, <1>3, <1>4, EmittedFacts
  <1>6. Terminated(blocks'[activeBlock])
    BY <1>3, <1>4, <1>5, AppendTerminates DEF Code
  <1>7. OthersStay /\ LeavesTerminated /\ Len(blocks) <= Len(blocks')
    BY <1>1, <1>2, <1>3, <1>5, <1>6 DEF OthersStay, LeavesTerminated
  <1>8. /\ b.do = "trinaryCond" /\ b.yes = n + 2 /\ b.no = n + 3 /\ b.end = n + 4
        /\ a.do = "expr" /\ b.do \in Consumers
    BY DEF Consumers, Expr
  <1> HIDE DEF a, b
  <1>9. OwnApart(b) /\ EnteredOf(b) = {} /\ PendingOf(b) = {n + 2, n + 3, n + 4}
    BY <1>2, <1>8 DEF OwnApart, EnteredOf, PendingOf, BranchSteps, LoopSteps
  <1>10. {n + 2, n + 3, n + 4} = (n + 1 .. n + 4) \ {n + 1}
    BY <1>2
  <1>11. PendingOf(b) = (Len(blocks) + 1 .. Len(blocks')) \ {activeBlock'}
    BY <1>1, <1>5, <1>9, <1>10
  <1>12. QED  BY <1>1, <1>7, <1>8, <1>9, <1>11, BeginSettles

LEMMA TrinaryCondSettles ==
    ASSUME Typed, Typed', Fed, TrinaryCond
    PROVE  Settles
  <1> DEFINE t == Head(todo)
             a == Expr(t.node.yes)
             b == [t EXCEPT !.do = "trinaryTrue"]
  <1>1. Is("trinaryCond") /\ "trinaryCond" \in FedKinds /\ status' = status
    BY DEF TrinaryCond, FedKinds
  <1>2. CASE val' = NoValue
    <2>1. /\ Then(<<>>) \/ (val # NoValue /\ val.type = "bool")
          /\ val = NoValue => UNCHANGED emission
          /\ val # NoValue /\ val.type # "bool" =>
                blocks' = Emitted(blocks, activeBlock, Loads(val)) /\ activeBlock' = activeBlock
      BY DEF TrinaryCond, Return
    <2>2. CASE Then(<<>>) /\ UNCHANGED emission
      BY <1>1, <1>2, <2>2, NullSettles, NothingMoves
    <2>3. CASE Then(<<>>) /\ blocks' = Emitted(blocks, activeBlock, Loads(val)) /\ activeBlock' = activeBlock
      <3>1. Len(blocks') = Len(blocks) /\ OthersStay /\ Moves
        BY <2>3, EmitStays DEF Moves
      <3>2. QED  BY <1>1, <1>2, <2>3, <3>1, NullSettles
    <2>4. val # NoValue /\ val.type = "bool" => val' # NoValue
      BY DEF TrinaryCond
    <2>5. QED  BY <1>2, <2>1, <2>2, <2>3, <2>4
  <1>3. CASE val' # NoValue
    <2>1. /\ val # NoValue /\ activeBlock' = t.yes /\ Then(<<a, b>>)
          /\ blocks' = Emitted(Emitted(blocks, activeBlock, Loads(val)), activeBlock,
                               <<CondBr(t.yes, t.no)>>)
      BY <1>3 DEF TrinaryCond, Return
    <2>2. /\ t \in Task /\ t.do = "trinaryCond" /\ val \in Value
      BY <1>1, <2>1, RunningFacts
    <2>3. t.yes \in Nat /\ t.no \in Nat
      BY <2>2, TaskFields
    <2>4. Loads(val) \in Seq(Instruction) /\ CondBr(t.yes, t.no) \in Instruction
      BY <2>2, <2>3, LoadsType, InstructionTypes
    <2>5. blocks' = Emitted(blocks, activeBlock, Loads(val) \o <<CondBr(t.yes, t.no)>>)
      BY <2>1, <2>4, EmittedTwice
    <2>6. Len(blocks') = Len(blocks) /\ OthersStay /\ Terminated(blocks'[activeBlock])
      BY <2>4, <2>5, Terminators, EmitEnds
    <2>7. a.do = "expr" /\ b.do = "trinaryTrue" /\ b.do \in Consumers
      BY <2>2 DEF Expr, Consumers, Task, LoopSteps
    <2>8. Advances(t, b)
      BY <2>2, BranchAdvances
    <2> HIDE DEF a, b
    <2>9. /\ OwnApart(t) => OwnApart(b) /\ PendingOf(b) = PendingOf(t) \ {activeBlock'}
          /\ EnteredOf(b) \subseteq EnteredOf(t) \union {activeBlock'}
          /\ activeBlock' \in PendingOf(t)
      BY <2>1, <2>2, <2>8 DEF Advances
    <2> HIDE DEF OthersStay
    <2>10. QED  BY <1>1, <2>1, <2>6, <2>7, <2>9, AdvanceSettles
  <1>4. QED  BY <1>2, <1>3

LEMMA TrinaryTrueSettles ==
    ASSUME Typed, Typed', Fed, TrinaryTrue
    PROVE  Settles
  <1> DEFINE t == Head(todo)
             a == Expr(t.node.no)
             b == [do |-> "trinaryFalse", node |-> t.node, yes |-> t.yes, no |-> t.no,
                   end |-> t.end, type |-> val.type]
  <1>1. Is("trinaryTrue") /\ "trinaryTrue" \in FedKinds /\ status' = status
    BY DEF TrinaryTrue, FedKinds
  <1>2. CASE val = NoValue
    <2>1. Then(<<>>) /\ val' = NoValue /\ UNCHANGED emission
      BY <1>2 DEF TrinaryTrue, Return
    <2>2. QED  BY <1>1, <2>1, NullSettles, NothingMoves
  <1>3. CASE val # NoValue
    <2>1. /\ activeBlock' = t.no /\ Then(<<a, b>>)
          /\ blocks' = Emitted(blocks, activeBlock, Loads(val) \o <<Br(t.end)>>)
      BY <1>3 DEF TrinaryTrue
    <2>2. /\ t \in Task /\ t.do = "trinaryTrue" /\ val \in Value
      BY <1>1, <1>3, RunningFacts
    <2>3. Loads(val) \in Seq(Instruction) /\ Br(t.end) \in Instruction
      BY <2>2, TaskFields, LoadsType, InstructionTypes
    <2>4. Len(blocks') = Len(blocks) /\ OthersStay /\ Terminated(blocks'[activeBlock])
      BY <2>1, <2>3, Terminators, EmitEnds
    <2>5. /\ a.do = "expr" /\ b.do = "trinaryFalse" /\ b.do \in Consumers
          /\ b.yes = t.yes /\ b.no = t.no /\ b.end = t.end
      BY DEF Expr, Consumers
    <2> HIDE DEF a, b
    <2>6. Advances(t, b)
      BY <2>2, <2>5, BranchTurns
    <2>7. /\ OwnApart(t) => OwnApart(b) /\ PendingOf(b) = PendingOf(t) \ {activeBlock'}
          /\ EnteredOf(b) \subseteq EnteredOf(t) \union {activeBlock'}
          /\ activeBlock' \in PendingOf(t)
      BY <2>1, <2>2, <2>6 DEF Advances
    <2> HIDE DEF OthersStay
    <2>8. QED  BY <1>1, <1>3, <2>1, <2>4, <2>5, <2>7, AdvanceSettles
  <1>4. QED  BY <1>2, <1>3

LEMMA TrinaryFalseSettles ==
    ASSUME Typed, Typed', Fed, TrinaryFalse
    PROVE  Settles
  <1> DEFINE t == Head(todo)
             ins == Loads(val) \o <<Br(t.end)>>
             bl == Emitted(blocks, activeBlock, ins)
  <1>1. Is("trinaryFalse") /\ "trinaryFalse" \in FedKinds
    BY DEF TrinaryFalse, FedKinds
  <1>2. CASE Crash
    BY <1>2, HaltSettles
  <1>3. CASE /\ Then(<<>>) /\ val' = NoValue /\ status' = status
             /\ UNCHANGED emission \/ (blocks' = bl /\ activeBlock' = t.end)
    <2>1. CASE UNCHANGED emission
      BY <1>1, <1>3, <2>1, NullSettles, NothingMoves
    <2>2. CASE blocks' = bl /\ activeBlock' = t.end
      <3>1. t.do = "trinaryFalse"
        BY <1>1 DEF Is
      <3>2. Moves
        BY <2>2, <3>1 DEF Moves, PendingOf
      <3>3. Len(blocks') = Len(blocks) /\ OthersStay
        BY <2>2, EmitStays
      <3>4. QED  BY <1>1, <1>3, <3>2, <3>3, NullSettles
    <2>3. QED  BY <1>3, <2>1, <2>2
  <1>4. ASSUME NEW phi \in Incomings(t),
               val # NoValue /\ Then(<<>>) /\ status' = status /\ activeBlock' = t.end,
               blocks' = Emitted(bl, t.end, <<phi>>)
        PROVE  Settles
    <2>1. /\ t \in Task /\ t.do = "trinaryFalse" /\ val \in Value /\ Sound(t, Len(blocks))
          /\ Len(blocks) \in Nat /\ activeBlock \in 1 .. Len(blocks) /\ blocks \in Code
      BY <1>1, <1>4, RunningFacts DEF GoodCode
    <2>2. /\ Loads(val) \in Seq(Instruction) /\ Br(t.end) \in Instruction
          /\ phi \in Instruction /\ IsTerminator(Br(t.end))
      BY <2>1, TaskFields, LoadsType, InstructionTypes, IncomingsArePhis, Terminators
    <2>3. PendingOf(t) = {t.end} /\ t.end \in 1 .. Len(blocks)
      BY <2>1 DEF PendingOf, Sound
    <2>4. /\ bl \in Code /\ Len(bl) = Len(blocks) /\ bl[activeBlock] = blocks[activeBlock] \o ins
          /\ \A c \in 1 .. Len(blocks) : c # activeBlock => bl[c] = blocks[c]
      <3>1. ins \in Seq(Instruction)
        BY <2>2
      <3>2. QED  BY <2>1, <3>1, EmittedFacts
    <2>5. Terminated(bl[activeBlock])
      <3>1. blocks[activeBlock] \in Seq(Instruction)
        BY <2>1 DEF Code
      <3>2. QED  BY <2>2, <2>4, <3>1, AppendTerminates
    <2> HIDE DEF bl, ins
    <2>6. <<phi>> \in Seq(Instruction) /\ t.end \in 1 .. Len(bl)
      BY <2>2, <2>3, <2>4
    <2>7. /\ Len(blocks') = Len(bl)
          /\ \A c \in 1 .. Len(bl) : c # t.end => blocks'[c] = bl[c]
      BY <1>4, <2>4, <2>6, EmittedFacts
    <2>8. Len(blocks') = Len(blocks) /\ OthersStay
      <3>1. Len(blocks') = Len(blocks)
        BY <2>4, <2>7
      <3>2. ASSUME NEW c \in 1 .. Len(blocks'), c \notin {activeBlock, activeBlock'}
            PROVE  c <= Len(blocks) /\ blocks'[c] = blocks[c]
        <4>1. c \in 1 .. Len(blocks) /\ c # t.end /\ c <= Len(blocks)
          BY <1>4, <2>1, <3>1, <3>2
        <4>2. QED  BY <2>4, <2>7, <3>2, <4>1
      <3>3. QED  BY <3>1, <3>2 DEF OthersStay
    <2>9. ASSUME Fresh PROVE LeavesTerminated
      <3>1. activeBlock # t.end
        BY <1>1, <2>3, <2>9, HeadApart DEF Is
      <3>2. QED  BY <1>4, <2>1, <2>3, <2>4, <2>5, <2>7, <3>1 DEF LeavesTerminated
    <2>10. PendingOf(t) \subseteq {activeBlock'}
      BY <1>4, <2>3
    <2> HIDE DEF OthersStay
    <2>11. QED  BY <1>1, <1>4, <2>8, <2>9, <2>10, LeaveSettles
  <1>5. QED  BY <1>2, <1>3, <1>4 DEF TrinaryFalse, Return

(* The branch.                                                               *)
LEMMA IfSettles ==
    ASSUME Typed, Typed', Fed, EncodeIf
    PROVE  Settles
  <1> DEFINE n == Len(blocks)
             a == Expr(Node.cond)
             b == [do |-> "branchCond", node |-> Node,
                   yes |-> n + 1, no |-> n + 2, end |-> n + 3]
  <1>1. /\ Is("stmt") /\ blocks' = Created(blocks, 3) /\ activeBlock' = activeBlock
        /\ Then(<<a, b>>) /\ status' = status
    BY DEF EncodeIf, IsStmt
  <1>2. blocks \in Code /\ n \in Nat /\ activeBlock \in 1 .. n
    BY TypedParts DEF Parts, GoodCode, Code
  <1>3. /\ Len(blocks') = n + 3
        /\ \A c \in 1 .. n : blocks'[c] = blocks[c]
        /\ \A c \in n + 1 .. n + 3 : blocks'[c] = <<>>
    <2>1. 3 \in Nat
      OBVIOUS
    <2>2. QED  BY <1>1, <1>2, <2>1, CreatedFacts, Zenon
  <1>4. OthersStay /\ LeavesTerminated /\ Len(blocks) <= Len(blocks')
    BY <1>1, <1>2, <1>3 DEF OthersStay, LeavesTerminated
  <1>5. /\ b.do = "branchCond" /\ b.yes = n + 1 /\ b.no = n + 2 /\ b.end = n + 3
        /\ a.do = "expr" /\ b.do \in Consumers /\ b.do \notin FedKinds
    BY DEF Consumers, Expr, FedKinds
  <1> HIDE DEF a, b
  <1>6. OwnApart(b) /\ EnteredOf(b) = {} /\ PendingOf(b) = {n + 1, n + 2, n + 3}
    BY <1>2, <1>5 DEF OwnApart, EnteredOf, PendingOf, BranchSteps, LoopSteps
  <1>7. {n + 1, n + 2, n + 3} = (n + 1 .. n + 3) \ {activeBlock}
    BY <1>2
  <1>8. PendingOf(b) = (Len(blocks) + 1 .. Len(blocks')) \ {activeBlock'}
    BY <1>1, <1>3, <1>6, <1>7
  <1> HIDE DEF OthersStay, LeavesTerminated
  <1>9. QED  BY <1>1, <1>4, <1>5, <1>6, <1>8, BeginSettles

(* The conditional jump of a branch or of a loop.                            *)
LEMMA CondSettles ==
    ASSUME Typed, Typed', Fed, NEW tag \in {"branchCond", "loopBody"}, Is(tag),
           val # NoValue, status' = status, NEW a, a.do = "stmt", NEW b, Then(<<a, b>>),
           b.do \in {"branchTrue", "loopStep"}, Advances(Head(todo), b),
           NEW yes \in Nat, NEW no \in Nat,
           blocks' = Emitted(blocks, activeBlock, Loads(val) \o <<CondBr(yes, no)>>),
           activeBlock' = IF tag = "branchCond" THEN Head(todo).yes ELSE Head(todo).body
    PROVE  Settles
  <1> DEFINE t == Head(todo)
  <1>1. t.do = tag /\ val \in Value
    BY RunningFacts
  <1>2. Loads(val) \in Seq(Instruction) /\ CondBr(yes, no) \in Instruction
    BY <1>1, LoadsType, InstructionTypes
  <1>3. Len(blocks') = Len(blocks) /\ OthersStay /\ Terminated(blocks'[activeBlock])
    BY <1>2, Terminators, EmitEnds
  <1>4. /\ OwnApart(t) => OwnApart(b) /\ PendingOf(b) = PendingOf(t) \ {activeBlock'}
        /\ EnteredOf(b) \subseteq EnteredOf(t) \union {activeBlock'}
        /\ activeBlock' \in PendingOf(t)
    <2> HIDE DEF t
    <2>1. Advances(t, b) /\ activeBlock' = IF tag = "branchCond" THEN t.yes ELSE t.body
      BY DEF t
    <2>2. QED  BY <1>1, <2>1 DEF Advances
  <1>5. b.do \notin FedKinds /\ tag # "assignStore"
    BY DEF FedKinds
  <1> HIDE DEF OthersStay
  <1>6. QED  BY <1>3, <1>4, <1>5, AdvanceSettles

(* The jumps that end a branch or the body of a loop, and the next part.     *)
LEMMA TurnSettles ==
    ASSUME Typed, Typed', Fed, NEW tag \in {"branchTrue", "loopStep"}, Is(tag), status' = status,
           NEW a, a.do = "stmt", NEW b, Then(<<a, b>>),
           b.do \in {"branchFalse", "endLoop"}, Advances(Head(todo), b),
           NEW from \in 1 .. Len(blocks), NEW target \in 1 .. Len(blocks),
           blocks' = Joined(blocks, from, target),
           activeBlock' = IF tag = "branchTrue" THEN Head(todo).no ELSE Head(todo).step
    PROVE  Settles
  <1> DEFINE t == Head(todo)
  <1>1. t.do = tag
    BY DEF Is
  <1>2. Len(blocks') = Len(blocks) /\ OthersStay /\ Terminated(blocks'[activeBlock])
    BY JoinEnds
  <1>3. /\ OwnApart(t) => OwnApart(b) /\ PendingOf(b) = PendingOf(t) \ {activeBlock'}
        /\ EnteredOf(b) \subseteq EnteredOf(t) \union {activeBlock'}
        /\ activeBlock' \in PendingOf(t)
    <2> HIDE DEF t
    <2>1. Advances(t, b) /\ activeBlock' = IF tag = "branchTrue" THEN t.no ELSE t.step
      BY DEF t
    <2>2. QED  BY <1>1, <2>1 DEF Advances
  <1>4. b.do \notin FedKinds /\ tag \notin Consumers
    BY DEF FedKinds, Consumers
  <1> HIDE DEF OthersStay
  <1>5. QED  BY <1>2, <1>3, <1>4, AdvanceSettles

LEMMA BranchSettles ==
    ASSUME Typed, Typed', Fed, BranchCond \/ BranchTrue \/ BranchFalse
    PROVE  Settles
  <1> DEFINE t == Head(todo)
  <1>1. CASE Fail
    BY <1>1, HaltSettles
  <1>2. CASE BranchCond /\ ~Fail
    <2> DEFINE a == Stmt(t.node.yes)
               b == [t EXCEPT !.do = "branchTrue"]
    <2>1. /\ Is("branchCond") /\ val # NoValue /\ status' = status /\ Then(<<a, b>>)
          /\ blocks' = Emitted(blocks, activeBlock, Loads(val) \o <<CondBr(t.yes, t.no)>>)
          /\ activeBlock' = t.yes
      BY <1>2 DEF BranchCond
    <2>2. t \in Task /\ t.do = "branchCond"
      BY <2>1, RunningFacts
    <2>3. t.yes \in Nat /\ t.no \in Nat
      BY <2>2, TaskFields
    <2>4. a.do = "stmt" /\ b.do = "branchTrue" /\ Advances(t, b)
      BY <2>2, BranchAdvances DEF Stmt, Task, LoopSteps
    <2> HIDE DEF a, b
    <2>5. QED  BY <2>1, <2>3, <2>4, CondSettles
  <1>3. CASE BranchTrue
    <2> DEFINE a == Stmt(t.node.no)
               b == [t EXCEPT !.do = "branchFalse"]
    <2>1. /\ Is("branchTrue") /\ status' = status /\ Then(<<a, b>>)
          /\ blocks' = Joined(blocks, t.yes, t.end) /\ activeBlock' = t.no
      BY <1>3 DEF BranchTrue
    <2>2. t \in Task /\ t.do = "branchTrue" /\ Sound(t, Len(blocks))
      BY <2>1, RunningFacts
    <2>3. t.yes \in 1 .. Len(blocks) /\ t.end \in 1 .. Len(blocks)
      BY <2>2 DEF Sound, PendingOf, EnteredOf
    <2>4. a.do = "stmt" /\ b.do = "branchFalse" /\ Advances(t, b)
      BY <2>2, BranchTurns DEF Stmt, Task, LoopSteps
    <2> HIDE DEF a, b
    <2>5. QED  BY <2>1, <2>3, <2>4, TurnSettles
  <1>4. CASE BranchFalse
    <2>1. /\ Is("branchFalse") /\ status' = status /\ Then(<<>>)
          /\ blocks' = Joined(blocks, t.no, t.end) /\ activeBlock' = t.end
      BY <1>4 DEF BranchFalse
    <2>2. t \in Task /\ t.do = "branchFalse" /\ Sound(t, Len(blocks))
      BY <2>1, RunningFacts
    <2>3. /\ PendingOf(t) = {t.end} /\ t.no \in 1 .. Len(blocks) /\ t.end \in 1 .. Len(blocks)
      BY <2>2 DEF Sound, PendingOf, EnteredOf
    <2>4. Len(blocks') = Len(blocks) /\ OthersStay /\ Terminated(blocks'[activeBlock])
      BY <2>1, <2>3, JoinEnds
    <2>5. LeavesTerminated /\ PendingOf(t) \subseteq {activeBlock'}
      BY <2>1, <2>3, <2>4 DEF LeavesTerminated
    <2>6. "branchFalse" \notin Consumers
      BY DEF Consumers
    <2> HIDE DEF OthersStay, LeavesTerminated
    <2>7. QED  BY <2>1, <2>4, <2>5, <2>6, LeaveSettles
  <1>5. QED  BY <1>1, <1>2, <1>3, <1>4

(* The loop.                                                                 *)
LEMMA LoopSettles ==
    ASSUME Typed, Typed', Fed, EncodeLoop
    PROVE  Settles
  <1> DEFINE n == Len(blocks)
             a == Stmt(Node.init)
             b == [do |-> "loopCond", node |-> Node, cond |-> n + 1,
                   step |-> n + 2, body |-> n + 3, end |-> n + 4,
                   oldContinue |-> continuePoint, oldBreak |-> breakPoint]
  <1>1. /\ Is("stmt") /\ blocks' = Created(blocks, 4) /\ activeBlock' = activeBlock
        /\ Then(<<a, b>>) /\ status' = status
    BY DEF EncodeLoop, IsStmt
  <1>2. blocks \in Code /\ n \in Nat /\ activeBlock \in 1 .. n
    BY TypedParts DEF Parts, GoodCode, Code
  <1>3. /\ Len(blocks') = n + 4
        /\ \A c \in 1 .. n : blocks'[c] = blocks[c]
        /\ \A c \in n + 1 .. n + 4 : blocks'[c] = <<>>
    <2>1. 4 \in Nat
      OBVIOUS
    <2>2. QED  BY <1>1, <1>2, <2>1, CreatedFacts, Zenon
  <1>4. OthersStay /\ LeavesTerminated /\ Len(blocks) <= Len(blocks')
    BY <1>1, <1>2, <1>3 DEF OthersStay, LeavesTerminated
  <1>5. /\ b.do = "loopCond" /\ b.cond = n + 1 /\ b.step = n + 2 /\ b.body = n + 3 /\ b.end = n + 4
        /\ a.do = "stmt" /\ b.do \notin FedKinds
    BY DEF Stmt, FedKinds
  <1> HIDE DEF a, b
  <1>6. OwnApart(b) /\ EnteredOf(b) = {} /\ PendingOf(b) = {n + 1, n + 2, n + 3, n + 4}
    BY <1>2, <1>5 DEF OwnApart, EnteredOf, PendingOf, BranchSteps, LoopSteps
  <1>7. {n + 1, n + 2, n + 3, n + 4} = (n + 1 .. n + 4) \ {activeBlock}
    BY <1>2
  <1>8. PendingOf(b) = (Len(blocks) + 1 .. Len(blocks')) \ {activeBlock'}
    BY <1>1, <1>3, <1>6, <1>7
  <1> HIDE DEF OthersStay, LeavesTerminated
  <1>9. QED  BY <1>1, <1>4, <1>5, <1>6, <1>8, BeginSettles

LEMMA LoopTailSettles ==
    ASSUME Typed, Typed', Fed, LoopCond \/ LoopBody \/ LoopStep \/ EndLoop
    PROVE  Settles
  <1> DEFINE t == Head(todo)
  <1>1. CASE Fail
    BY <1>1, HaltSettles
  <1>2. CASE LoopCond
    <2> DEFINE a == Expr(t.node.cond)
               b == [t EXCEPT !.do = "loopBody"]
    <2>1. /\ Is("loopCond") /\ status' = status /\ Then(<<a, b>>)
          /\ blocks' = Emitted(blocks, activeBlock, <<Br(t.cond)>>) /\ activeBlock' = t.cond
      BY <1>2 DEF LoopCond
    <2>2. t \in Task /\ t.do = "loopCond"
      BY <2>1, RunningFacts
    <2>3. Br(t.cond) \in Instruction /\ <<>> \in Seq(Instruction)
      BY <2>2, TaskFields, InstructionTypes DEF LoopSteps
    <2>4. Len(blocks') = Len(blocks) /\ OthersStay /\ Terminated(blocks'[activeBlock])
      BY <2>1, <2>3, Terminators, EmitEnds
    <2>5. /\ a.do = "expr" /\ b.do = "loopBody" /\ b.do \in Consumers /\ b.do \notin FedKinds
          /\ "loopCond" \notin Consumers
      BY <2>2 DEF Expr, Task, LoopSteps, Consumers, FedKinds
    <2>6. Advances(t, b)
      BY <2>2, LoopAdvances
    <2> HIDE DEF a, b
    <2>7. /\ OwnApart(t) => OwnApart(b) /\ PendingOf(b) = PendingOf(t) \ {activeBlock'}
          /\ EnteredOf(b) \subseteq EnteredOf(t) \union {activeBlock'}
          /\ activeBlock' \in PendingOf(t)
      BY <2>1, <2>2, <2>6 DEF Advances
    <2> HIDE DEF OthersStay
    <2>8. QED  BY <2>1, <2>4, <2>5, <2>7, AdvanceSettles
  <1>3. CASE LoopBody /\ ~Fail
    <2> DEFINE a == Stmt(t.node.body)
               b == [t EXCEPT !.do = "loopStep"]
    <2>1. /\ Is("loopBody") /\ val # NoValue /\ status' = status /\ Then(<<a, b>>)
          /\ blocks' = Emitted(blocks, activeBlock, Loads(val) \o <<CondBr(t.body, t.end)>>)
          /\ activeBlock' = t.body
      BY <1>3 DEF LoopBody
    <2>2. t \in Task /\ t.do = "loopBody"
      BY <2>1, RunningFacts
    <2>3. t.body \in Nat /\ t.end \in Nat
      BY <2>2, TaskFields DEF LoopSteps
    <2>4. a.do = "stmt" /\ b.do = "loopStep" /\ Advances(t, b)
      BY <2>2, LoopAdvances DEF Stmt, Task, LoopSteps
    <2> HIDE DEF a, b
    <2>5. QED  BY <2>1, <2>3, <2>4, CondSettles
  <1>4. CASE LoopStep
    <2> DEFINE a == Stmt(t.node.step)
               b == [t EXCEPT !.do = "endLoop"]
    <2>1. /\ Is("loopStep") /\ status' = status /\ Then(<<a, b>>)
          /\ blocks' = Joined(blocks, t.body, t.step) /\ activeBlock' = t.step
      BY <1>4 DEF LoopStep
    <2>2. t \in Task /\ t.do = "loopStep" /\ Sound(t, Len(blocks))
      BY <2>1, RunningFacts
    <2>3. t.body \in 1 .. Len(blocks) /\ t.step \in 1 .. Len(blocks)
      BY <2>2 DEF Sound, PendingOf, EnteredOf
    <2>4. a.do = "stmt" /\ b.do = "endLoop" /\ Advances(t, b)
      <3>1. a.do = "stmt" /\ b.do = "endLoop"
        BY <2>2 DEF Stmt, Task, LoopSteps
      <3>2. t \in Task /\ t.do = "loopStep"
        BY <2>2
      <3> HIDE DEF t
      <3>3. Advances(t, b)
        BY <3>2, LoopAdvances
      <3>4. QED  BY <3>1, <3>3
    <2> HIDE DEF a, b
    <2>5. QED  BY <2>1, <2>3, <2>4, TurnSettles
  <1>5. CASE EndLoop
    <2>1. /\ Is("endLoop") /\ status' = status /\ Then(<<>>)
          /\ blocks' = Emitted(blocks, activeBlock, <<Br(t.cond)>>) /\ activeBlock' = t.end
      BY <1>5 DEF EndLoop
    <2>2. t \in Task /\ t.do = "endLoop"
      BY <2>1, RunningFacts
    <2>3. Br(t.cond) \in Instruction /\ <<>> \in Seq(Instruction)
      BY <2>2, TaskFields, InstructionTypes DEF LoopSteps
    <2>4. Len(blocks') = Len(blocks) /\ OthersStay /\ Terminated(blocks'[activeBlock])
      BY <2>1, <2>3, Terminators, EmitEnds
    <2>5. PendingOf(t) = {t.end}
      BY <2>2 DEF PendingOf
    <2>6. LeavesTerminated /\ PendingOf(t) \subseteq {activeBlock'} /\ "endLoop" \notin Consumers
      BY <2>1, <2>4, <2>5 DEF LeavesTerminated, Consumers
    <2> HIDE DEF OthersStay, LeavesTerminated
    <2>7. QED  BY <2>1, <2>4, <2>6, LeaveSettles
  <1>6. QED  BY <1>1, <1>2, <1>3, <1>4, <1>5

(* The block statement: its statements await nothing.                        *)
LEMMA BlockSettles ==
    ASSUME Typed, Typed', Fed, EncodeBlock
    PROVE  Settles
  <1> DEFINE body == [i \in DOMAIN Node.body |-> Stmt(Node.body[i])]
             last == [do |-> "endBlock"]
             next == body \o <<last>>
  <1>1. /\ Then(next) /\ Is("stmt") /\ Node.kind = "block" /\ status' = status
        /\ blocks' = blocks /\ activeBlock' = activeBlock
    BY DEF EncodeBlock, IsStmt, Node, emission
  <1>2. Node.body \in Seq(Statement)
    BY <1>1, RunningFacts, TaskFields, SyntaxAssumption DEF Node
  <1>3. body \in Seq(Task) /\ \A i \in DOMAIN body : body[i].do = "stmt"
    <2>1. \A i \in DOMAIN Node.body : Stmt(Node.body[i]) \in Task
      BY <1>2, StmtSound DEF Sound
    <2>2. Len(Node.body) \in Nat /\ DOMAIN Node.body = 1 .. Len(Node.body)
      BY <1>2
    <2>3. body \in [1 .. Len(Node.body) -> Task]
      BY <2>1, <2>2
    <2>4. QED  BY <2>2, <2>3 DEF Stmt
  <1>4. last \in Task /\ last.do = "endBlock"
    BY DEF Task
  <1> HIDE DEF body, last
  <1>5. /\ next \in Seq(Task)
        /\ \A i \in DOMAIN next : next[i].do \in {"stmt", "endBlock"}
    BY <1>3, <1>4, AppendEach
  <1> HIDE DEF next
  <1>6. \A i \in DOMAIN next : next[i].do \notin FedKinds \union BranchSteps \union LoopSteps
    BY <1>5 DEF FedKinds, BranchSteps, LoopSteps
  <1>7. \A i \in DOMAIN next :
            PendingOf(next[i]) = {} /\ EnteredOf(next[i]) = {} /\ OwnApart(next[i])
    BY <1>6, AwaitNothing
  <1>8. todo # <<>> /\ todo \in Seq(Task) /\ Head(todo).do = "stmt" /\ status = "run"
        /\ Len(blocks) \in Nat
    BY <1>1, RunningFacts
  <1>9. Fed' /\ LeftStays
    BY <1>1, <1>5, <1>6, <1>8, CarryNext
  <1>10. Doomed => Doomed'
    BY <1>8, <1>9, StayDoomed DEF Consumers
  <1>11. ASSUME Fresh PROVE Fresh' /\ (Sealed => Sealed')
    <2>1. PendingIn(next) = {} /\ Apart(next)
      BY <1>7 DEF PendingIn, Apart
    <2>2. PendingOf(Head(todo)) = {}
      BY <1>8, AwaitNothing DEF BranchSteps, LoopSteps
    <2>3. Len(blocks) + 1 .. Len(blocks') = {} /\ Len(blocks) <= Len(blocks')
      BY <1>1, <1>8
    <2>4. PendingIn(next) = Left /\ Moves
      BY <1>1, <2>1, <2>2, <2>3 DEF Left, Moves
    <2>5. \A c \in 1 .. Len(blocks') : c \notin {activeBlock, activeBlock'} =>
              blocks'[c] = IF c <= Len(blocks) THEN blocks[c] ELSE <<>>
      BY <1>1, <1>8
    <2>6. QED  BY <1>1, <1>5, <1>7, <1>8, <1>11, <2>1, <2>3, <2>4, <2>5, SealStep
  <1>12. QED  BY <1>1, <1>8, <1>9, <1>10, <1>11, SealedIsFresh DEF Settles

LEMMA StepSettles == Typed /\ Typed' /\ Fed /\ (EncodeExpr \/ EncodeStmt) => Settles
  <1> SUFFICES ASSUME Typed, Typed', Fed, EncodeExpr \/ EncodeStmt PROVE Settles
    OBVIOUS
  <1>1. CASE EncodeExpr
    BY <1>1, ExprSettles, TrinarySettles, TrinaryCondSettles, TrinaryTrueSettles,
       TrinaryFalseSettles DEF EncodeExpr
  <1>2. CASE EncodeStmt
    BY <1>2, SimpleSettles, AssignRightSettles, BlockSettles, IfSettles, BranchSettles,
       LoopSettles, LoopTailSettles DEF EncodeStmt
  <1>3. QED  BY <1>1, <1>2

-------------------------------------------------------------------------------
(* The inductive invariant of the graph.                                     *)
Graph ==
    /\ Fed /\ Fresh
    /\ status = "run" => Doomed \/ Sealed
    /\ status = "done" => todo = <<>> /\ Sealed /\ Terminated(blocks[activeBlock])

LEMMA InitGraph == Init => Graph
  <1> SUFFICES ASSUME Init PROVE Graph
    OBVIOUS
  <1>1. \A i \in DOMAIN todo : todo[i].do = "stmt"
    BY DEF Init, Stmt
  <1>2. \A i \in DOMAIN todo : PendingOf(todo[i]) = {} /\ EnteredOf(todo[i]) = {} /\ OwnApart(todo[i])
    BY <1>1, AwaitNothing DEF BranchSteps, LoopSteps
  <1>3. Pending = {} /\ Apart(todo)
    BY <1>2 DEF Pending, PendingIn, Apart
  <1>4. Fed
    BY <1>1 DEF Fed, FedKinds
  <1>5. Block = {1} /\ activeBlock = 1 /\ status = "run"
    BY DEF Init, Block
  <1>6. Sealed
    BY <1>3, <1>5 DEF Sealed
  <1>7. QED  BY <1>4, <1>5, <1>6, SealedIsFresh DEF Graph

LEMMA EmptyTodo ==
    ASSUME todo = <<>>
    PROVE  ~Doomed /\ Fed /\ Pending = {} /\ Apart(todo)
  BY DEF Doomed, Fed, Pending, PendingIn, Apart

LEMMA FinishGraph ==
    ASSUME Typed, Typed', Graph, FinishModule
    PROVE  Graph'
  <1>1. status = "run" /\ todo = <<>>
    BY DEF FinishModule
  <1>2. CASE Crash
    <2>1. /\ status' = "crashed" /\ UNCHANGED <<todo, blocks, activeBlock>>
      BY <1>2 DEF Crash, emission
    <2>2. Fed' /\ Fresh'
      BY <2>1 DEF Graph, Fed, Fresh, Pending
    <2>3. /\ status' = "run" => Doomed' \/ Sealed'
          /\ status' = "done" => (todo = <<>> /\ Sealed /\ Terminated(blocks[activeBlock]))'
      BY <2>1
    <2>4. QED  BY <2>2, <2>3 DEF Graph
  <1>3. CASE ~Crash
    <2>1. /\ todo' = <<>> /\ status' = "done" /\ activeBlock' = activeBlock
          /\ blocks' = IF Terminated(blocks[activeBlock]) THEN blocks
                       ELSE Emitted(blocks, activeBlock, <<Ret>>)
      BY <1>1, <1>3 DEF FinishModule
    <2>2. Sealed
      BY <1>1, EmptyTodo DEF Graph
    <2>3. /\ Len(blocks') = Len(blocks) /\ Terminated(blocks'[activeBlock])
          /\ \A c \in 1 .. Len(blocks') : c # activeBlock => blocks'[c] = blocks[c]
      <3>1. CASE Terminated(blocks[activeBlock])
        BY <2>1, <3>1
      <3>2. CASE ~Terminated(blocks[activeBlock])
        <4>1. blocks' = Emitted(blocks, activeBlock, <<Ret>>)
          BY <2>1, <3>2
        <4>2. <<>> \in Seq(Instruction) /\ Ret \in Instruction /\ IsTerminator(Ret)
          BY InstructionTypes, Terminators
        <4>3. Len(blocks') = Len(blocks) /\ OthersStay /\ Terminated(blocks'[activeBlock])
          BY <4>1, <4>2, EmitEnds
        <4>4. Len(blocks) \in Nat
          BY TypedParts DEF Parts, GoodCode, Code
        <4>5. QED  BY <2>1, <4>3, <4>4 DEF OthersStay
      <3>3. QED  BY <3>1, <3>2
    <2>4. /\ Pending = {} /\ Pending' = {} /\ Apart(todo)' /\ Fed'
      <3>1. (todo = <<>>)' => (Pending = {} /\ Apart(todo) /\ Fed)'
        BY EmptyTodo, PTL
      <3>2. QED  BY <1>1, <2>1, <3>1, EmptyTodo
    <2>5. \A c \in Block \ {activeBlock} : Terminated(blocks[c])
      BY <2>2, <2>4 DEF Sealed
    <2>6. Sealed'
      BY <2>1, <2>3, <2>4, <2>5 DEF Sealed, Block
    <2>7. Fresh'
      BY <2>6 DEF Sealed, Fresh
    <2>8. QED  BY <2>1, <2>3, <2>4, <2>6, <2>7 DEF Graph
  <1>4. QED  BY <1>2, <1>3

LEMMA NextGraph == Typed /\ Typed' /\ Graph /\ [Next]_vars => Graph'
  <1> SUFFICES ASSUME Typed, Typed', Graph, [Next]_vars PROVE Graph'
    OBVIOUS
  <1>1. CASE EncodeExpr \/ EncodeStmt
    <2>1. status = "run"
      BY <1>1 DEF EncodeExpr, EncodeStmt, EncodeCalc, EncodeSymbolRef, EncodeUnsupported,
          EncodeTrinary, TrinaryCond, TrinaryTrue, TrinaryFalse, EncodeNothing, EncodeRefused,
          EncodeSymbolDef, DefineSymbol, EncodeAssign, AssignRight, AssignStore, EncodeReturn,
          EmitReturn, EncodeBreak, EncodeContinue, EncodeBlock, EndBlock, EncodeIf, BranchCond,
          BranchTrue, BranchFalse, EncodeLoop, LoopCond, LoopBody, LoopStep, EndLoop,
          IsStmt, IsExpr, Is
    <2>2. Settles
      BY <1>1, StepSettles DEF Graph
    <2>3. QED  BY <2>1, <2>2 DEF Graph, Settles
  <1>2. CASE FinishModule
    BY <1>2, FinishGraph
  <1>3. CASE Terminating \/ UNCHANGED vars
    BY <1>3 DEF Graph, Terminating, vars, Fed, Doomed, Sealed, Fresh, Pending, Block
  <1>4. QED  BY <1>1, <1>2, <1>3 DEF Next

(* Between two steps, whatever the program: a block not entered yet is empty *)
(* and awaited by one call only, every block left is terminated, and so the  *)
(* guarded jumps of stmt_branch and stmt_loop put exactly what is missing.   *)
THEOREM GraphCorrect == Spec => []GraphSealed
  <1> DEFINE Inv == Typed /\ Graph
  <1>1. Init => Inv
    BY InitTyped, InitGraph
  <1>2. Inv /\ [Next]_vars => Inv'
    BY NextTyped, NextGraph
  <1>3. Inv => GraphSealed
    BY DEF Graph, GraphSealed
  <1>4. QED  BY <1>1, <1>2, <1>3, PTL DEF Spec

(* encode_module never returns true with a block that falls through.         *)
THEOREM EveryBlockTerminated == Spec => []AllTerminated
  <1> DEFINE Inv == Typed /\ Graph
  <1>1. Init => Inv
    BY InitTyped, InitGraph
  <1>2. Inv /\ [Next]_vars => Inv'
    BY NextTyped, NextGraph
  <1>3. Inv => AllTerminated
    BY EmptyTodo DEF Graph, AllTerminated, Sealed
  <1>4. QED  BY <1>1, <1>2, <1>3, PTL DEF Spec

=============================================================================
