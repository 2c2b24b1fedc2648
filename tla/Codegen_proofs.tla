---------------------------- MODULE Codegen_proofs ----------------------------
(***************************************************************************)
(* Theorems about the statement encoder, for every set of programs: the    *)
(* type invariant, the break and continue points, and the shape of the     *)
(* emitted graph.                                                          *)
(***************************************************************************)
EXTENDS CodegenProps, WellFoundedInduction, TLAPS

Code == Seq(Seq(Instruction))

-------------------------------------------------------------------------------
(* Emitting into a block and creating blocks.                                *)

(* Emitted appends to one block and leaves the others alone.                 *)
LEMMA EmittedFacts ==
    ASSUME NEW bl \in Code, NEW b \in 1 .. Len(bl), NEW ins \in Seq(Instruction)
    PROVE  /\ Emitted(bl, b, ins) \in Code
           /\ Len(Emitted(bl, b, ins)) = Len(bl)
           /\ Emitted(bl, b, ins)[b] = bl[b] \o ins
           /\ \A c \in 1 .. Len(bl) : c # b => Emitted(bl, b, ins)[c] = bl[c]
  <1>1. bl[b] \o ins \in Seq(Instruction)
    BY DEF Code
  <1>2. QED  BY <1>1 DEF Emitted, Code

(* Created adds k empty blocks.                                              *)
LEMMA CreatedFacts ==
    ASSUME NEW bl \in Code, NEW k \in Nat
    PROVE  /\ Created(bl, k) \in Code
           /\ Len(Created(bl, k)) = Len(bl) + k
           /\ \A c \in 1 .. Len(bl) : Created(bl, k)[c] = bl[c]
           /\ \A c \in Len(bl) + 1 .. Len(bl) + k : Created(bl, k)[c] = <<>>
  <1> DEFINE new == [i \in 1 .. k |-> <<>>]
  <1>1. new \in Code /\ Len(new) = k
    BY DEF Code
  <1>2. QED  BY <1>1 DEF Created, Code

LEMMA AppendLength ==
    ASSUME NEW s \in Seq(Instruction), NEW pre \in Seq(Instruction), NEW i \in Instruction
    PROVE  Len(s \o (pre \o <<i>>)) \in Nat \ {0}
  OBVIOUS

(* A block ends in a terminator once one was appended to it.                 *)
LEMMA AppendTerminates ==
    ASSUME NEW s \in Seq(Instruction), NEW pre \in Seq(Instruction),
           NEW i \in Instruction, IsTerminator(i)
    PROVE  Terminated(s \o (pre \o <<i>>)) /\ Terminated(s \o <<i>>)
  <1>1. /\ Len(s \o (pre \o <<i>>)) = Len(s) + Len(pre) + 1
        /\ (s \o (pre \o <<i>>))[Len(s) + Len(pre) + 1] = i
    OBVIOUS
  <1>2. /\ Len(s \o <<i>>) = Len(s) + 1
        /\ (s \o <<i>>)[Len(s) + 1] = i
    OBVIOUS
  <1>3. s \o (pre \o <<i>>) # <<>> /\ s \o <<i>> # <<>>
    BY <1>1, <1>2
  <1>4. QED  BY <1>1, <1>2, <1>3 DEF Terminated

(* The instructions the encoder emits are instructions.                      *)
LEMMA InstructionTypes ==
    /\ Alloca \in Instruction /\ Ret \in Instruction /\ IllStore \in Instruction
    /\ \A c \in Cell : Load(c) \in Instruction /\ Store(c) \in Instruction
    /\ \A b \in Nat : Br(b) \in Instruction
    /\ \A t, f \in Nat : CondBr(t, f) \in Instruction /\ Phi(t, f) \in Instruction
  BY DEF Instruction, Alloca, Ret, IllStore, Load, Store, Br, CondBr, Phi

LEMMA LoadsType ==
    ASSUME NEW v \in Value
    PROVE  Loads(v) \in Seq(Instruction)
  <1>1. v.cell = NoCell \/ v.cell \in Cell
    BY DEF Value
  <1>2. QED  BY <1>1, InstructionTypes DEF Loads

(* The jumps at the end of a branch or a loop body, from any insertion point. *)
LEMMA JoinedFacts ==
    ASSUME NEW bl \in Code, activeBlock \in 1 .. Len(bl), NEW b \in 1 .. Len(bl), NEW target \in Nat
    PROVE  /\ Joined(bl, b, target) \in Code
           /\ Len(Joined(bl, b, target)) = Len(bl)
           /\ \A c \in 1 .. Len(bl) : c # activeBlock => Joined(bl, b, target)[c] = bl[c]
           /\ \/ Joined(bl, b, target)[activeBlock] = bl[activeBlock]
              \/ Joined(bl, b, target)[activeBlock] = bl[activeBlock] \o <<Br(target)>>
              \/ Joined(bl, b, target)[activeBlock] = (bl[activeBlock] \o <<Br(target)>>) \o <<Br(target)>>
  <1> DEFINE jump == <<Br(target)>>
             bl1 == IF activeBlock # b /\ ~Terminated(bl[activeBlock])
                    THEN Emitted(bl, activeBlock, jump) ELSE bl
             probe == IF bl1[b] = <<>> THEN activeBlock ELSE b
  <1>1. jump \in Seq(Instruction)
    BY InstructionTypes
  <1>2. /\ bl1 \in Code /\ Len(bl1) = Len(bl)
        /\ \A c \in 1 .. Len(bl) : c # activeBlock => bl1[c] = bl[c]
        /\ bl1[activeBlock] = bl[activeBlock] \/ bl1[activeBlock] = bl[activeBlock] \o jump
    BY <1>1, EmittedFacts
  <1>3. Joined(bl, b, target) = IF Terminated(bl1[probe]) THEN bl1 ELSE Emitted(bl1, activeBlock, jump)
    BY DEF Joined
  <1> HIDE DEF bl1, probe
  <1>4. CASE Terminated(bl1[probe])
    BY <1>2, <1>3, <1>4
  <1>5. CASE ~Terminated(bl1[probe])
    <2>1. Joined(bl, b, target) = Emitted(bl1, activeBlock, jump)
      BY <1>3, <1>5
    <2>2. activeBlock \in 1 .. Len(bl1)
      BY <1>2
    <2>3. /\ Emitted(bl1, activeBlock, jump) \in Code
          /\ Len(Emitted(bl1, activeBlock, jump)) = Len(bl1)
          /\ Emitted(bl1, activeBlock, jump)[activeBlock] = bl1[activeBlock] \o jump
          /\ \A c \in 1 .. Len(bl1) :
                c # activeBlock => Emitted(bl1, activeBlock, jump)[c] = bl1[c]
      BY <1>1, <1>2, <2>2, EmittedFacts
    <2>4. QED  BY <1>2, <2>1, <2>3
  <1>6. QED  BY <1>4, <1>5

-------------------------------------------------------------------------------
(* Names.                                                                    *)

(* A non-empty set of naturals has a smallest element.                       *)
LEMMA Smallest ==
    ASSUME NEW S \in SUBSET Nat, S # {}
    PROVE  \E m \in S : \A k \in S : m <= k
  <1>1. PICK m \in S : \A k \in S : <<k, m>> \notin OpToRel(<, Nat)
    BY WFMin, NatLessThanWellFounded, Zenon
  <1>2. \A k \in S : ~(k < m)
    BY <1>1, Zenon DEF OpToRel
  <1>3. \A k \in S : m <= k
    BY <1>2
  <1>4. QED  BY <1>3

(* A name is looked up to a variable or to nothing.                          *)
LEMMA LookupType ==
    ASSUME scope \in Seq([Name -> Symbol \union {NoSymbol}]), NEW n \in Name
    PROVE  Lookup(n) \in Symbol \union {NoSymbol}
  <1>1. CASE Defining(n) = {}
    BY <1>1 DEF Lookup
  <1>2. CASE Defining(n) # {}
    <2>1. Defining(n) \in SUBSET Nat
      BY DEF Defining
    <2>2. \E i \in Defining(n) : \A j \in Defining(n) : i <= j
      BY <1>2, <2>1, Smallest
    <2>3. PICK i \in Defining(n) : Lookup(n) = scope[i][n]
      BY <1>2, <2>2 DEF Lookup
    <2>4. i \in 1 .. Len(scope)
      BY DEF Defining
    <2>5. QED  BY <2>3, <2>4
  <1>3. QED  BY <1>1, <1>2

LEMMA TailType ==
    ASSUME NEW S, NEW s \in Seq(S), s # <<>>
    PROVE  Tail(s) \in Seq(S) /\ (Len(s) # 1 => Tail(s) # <<>>)
  <1>1. Tail(s) \in Seq(S)
    OBVIOUS
  <1>2. Len(s) \in Nat /\ Len(s) # 0
    OBVIOUS
  <1>3. Len(Tail(s)) = Len(s) - 1
    OBVIOUS
  <1>4. ASSUME NEW n \in Nat, n = Len(s), n # 0, n # 1 PROVE Tail(s) # <<>>
    <2>1. Len(Tail(s)) = n - 1 /\ n - 1 # 0
      BY <1>3, <1>4
    <2>2. QED  BY <2>1
  <1>5. QED  BY <1>1, <1>2, <1>4

LEMMA AppendEach ==
    ASSUME NEW S, NEW s \in Seq(S), NEW e \in S
    PROVE  /\ s \o <<e>> \in Seq(S)
           /\ \A i \in DOMAIN (s \o <<e>>) :
                 (s \o <<e>>)[i] = e \/ (i \in DOMAIN s /\ (s \o <<e>>)[i] = s[i])
  OBVIOUS

LEMMA PoppedType ==
    ASSUME scope \in Seq([Name -> Symbol \union {NoSymbol}]), scope # <<>>
    PROVE  PoppedScope \in Seq([Name -> Symbol \union {NoSymbol}]) /\ PoppedScope # <<>>
  BY TailType DEF PoppedScope

-------------------------------------------------------------------------------
(* Tasks.                                                                    *)

LEMMA TaskFields ==
    ASSUME NEW t \in Task
    PROVE  /\ t.do = "stmt" => t.node \in Statement
           /\ t.do \in {"expr", "assignRight"} => t.node \in Expression
           /\ t.do = "define" => t.name \in Name
           /\ t.do = "assignStore" => t.left \in Value \union {NoValue}
           /\ t.do \in {"trinaryCond", "trinaryTrue"} =>
                 t.node \in Expression /\ {t.yes, t.no, t.end} \subseteq Nat
           /\ t.do = "trinaryFalse" => {t.yes, t.no, t.end} \subseteq Nat /\ t.type \in Type
           /\ t.do \in {"branchCond", "branchTrue", "branchFalse"} =>
                 t.node \in Statement /\ {t.yes, t.no, t.end} \subseteq Nat
           /\ t.do \in LoopSteps =>
                 t.node \in Statement /\ {t.cond, t.step, t.body, t.end} \subseteq Nat
  BY DEF Task, LoopSteps

(* The tasks after Then: the new ones, then the old ones but the first.      *)
LEMMA ThenFacts ==
    ASSUME todo \in Seq(Task), todo # <<>>, NEW next \in Seq(Task), Then(next)
    PROVE  /\ todo' \in Seq(Task)
           /\ Len(todo') = Len(next) + Len(todo) - 1
           /\ \A i \in 1 .. Len(next) : todo'[i] = next[i]
           /\ \A i \in 1 .. Len(todo) - 1 : todo'[Len(next) + i] = todo[i + 1]
           /\ \A i \in DOMAIN todo' : \/ i \in DOMAIN next
                                    \/ \E j \in 1 .. Len(todo) - 1 : i = Len(next) + j
  <1> DEFINE rest == Tail(todo)
  <1>1. /\ rest \in Seq(Task) /\ Len(rest) = Len(todo) - 1
        /\ \A i \in 1 .. Len(todo) - 1 : rest[i] = todo[i + 1]
    OBVIOUS
  <1>2. todo' = next \o rest
    BY DEF Then
  <1> HIDE DEF rest
  <1>3. todo' \in Seq(Task) /\ Len(todo') = Len(next) + Len(rest)
    BY <1>1, <1>2
  <1>4. \A i \in 1 .. Len(next) : todo'[i] = next[i]
    BY <1>1, <1>2
  <1>5. \A i \in 1 .. Len(todo) - 1 : todo'[Len(next) + i] = todo[i + 1]
    BY <1>1, <1>2
  <1>6. ASSUME NEW i \in DOMAIN todo', i \notin DOMAIN next
        PROVE  \E j \in 1 .. Len(todo) - 1 : i = Len(next) + j
    <2>1. i - Len(next) \in 1 .. Len(todo) - 1 /\ i = Len(next) + (i - Len(next))
      BY <1>1, <1>3, <1>6
    <2>2. QED  BY <2>1
  <1>7. QED  BY <1>1, <1>3, <1>4, <1>5, <1>6


-------------------------------------------------------------------------------
(* The type invariant and NoDangling, for one task, one sequence of          *)
(* instructions and one graph.                                               *)

Sound(t, n) ==
    /\ t \in Task /\ OfKind(t)
    /\ PendingOf(t) \union EnteredOf(t) \subseteq 1 .. n
    /\ t.do \in LoopSteps => {t.oldBreak, t.oldContinue} \subseteq (1 .. n) \union Uninit

GoodSeq(ins, n) ==
    ins \in Seq(Instruction) /\ \A k \in DOMAIN ins : Targets(ins[k]) \subseteq 1 .. n

GoodCode(bl) ==
    bl \in Code /\ \A b \in 1 .. Len(bl) : GoodSeq(bl[b], Len(bl))

Typed == TypeOK /\ NoDangling

\* The same, in one conjunction.
Parts ==
    /\ status \in {"run", "done", "failed", "crashed"}
    /\ todo \in Seq(Task) /\ \A i \in DOMAIN todo : Sound(todo[i], Len(blocks))
    /\ val \in Value \union {NoValue}
    /\ scope \in Seq([Name -> Symbol \union {NoSymbol}]) /\ scope # <<>>
    /\ GoodCode(blocks)
    /\ activeBlock \in 1 .. Len(blocks)
    /\ {breakPoint, continuePoint} \subseteq (1 .. Len(blocks)) \union Uninit

LEMMA TypedParts == Typed <=> Parts
  <1> USE DEF Typed, Parts, TypeOK, NoDangling, KnownPoints, OpenLoops, Sound, GoodCode, GoodSeq, Code, Block
  <1>1. ASSUME Typed PROVE \A i \in DOMAIN todo : Sound(todo[i], Len(blocks))
    BY <1>1
  <1>2. ASSUME Typed PROVE GoodCode(blocks)
    BY <1>2
  <1>3. ASSUME {breakPoint, continuePoint} \subseteq (1 .. Len(blocks)) \union Uninit,
               blocks \in Code
        PROVE  breakPoint \in Point /\ continuePoint \in Point
    <2>1. Len(blocks) \in Nat
      BY <1>3
    <2>2. QED  BY <1>3, <2>1, PointerAssumption DEF Point
  <1>4. ASSUME GoodCode(blocks),
               \A i \in DOMAIN todo : Sound(todo[i], Len(blocks))
        PROVE  /\ \A i \in OpenLoops : {todo[i].oldBreak, todo[i].oldContinue} \subseteq KnownPoints
               /\ \A b \in Block : \A i \in DOMAIN blocks[b] : Targets(blocks[b][i]) \subseteq Block
               /\ \A i \in DOMAIN todo : PendingOf(todo[i]) \union EnteredOf(todo[i]) \subseteq Block
    BY <1>4
  <1>5. QED  BY <1>1, <1>2, <1>3, <1>4

(* More blocks: what fitted still does.                                      *)
LEMMA SoundGrows ==
    ASSUME NEW n \in Nat, NEW m \in Nat, n <= m, NEW t, Sound(t, n)
    PROVE  Sound(t, m)
  BY DEF Sound

LEMMA GoodEmit ==
    ASSUME NEW bl, GoodCode(bl), NEW b \in 1 .. Len(bl), NEW ins, GoodSeq(ins, Len(bl))
    PROVE  GoodCode(Emitted(bl, b, ins)) /\ Len(Emitted(bl, b, ins)) = Len(bl)
  <1> DEFINE new == Emitted(bl, b, ins)
  <1>1. bl \in Code /\ ins \in Seq(Instruction)
    BY DEF GoodCode, GoodSeq
  <1>2. /\ new \in Code /\ Len(new) = Len(bl) /\ new[b] = bl[b] \o ins
        /\ \A c \in 1 .. Len(bl) : c # b => new[c] = bl[c]
    BY <1>1, EmittedFacts
  <1> HIDE DEF new
  <1>3. GoodSeq(bl[b] \o ins, Len(bl))
    <2>1. GoodSeq(bl[b], Len(bl))
      BY DEF GoodCode
    <2> DEFINE old == bl[b]
    <2> HIDE DEF old
    <2>2. ASSUME NEW k \in DOMAIN (old \o ins), GoodSeq(old, Len(bl))
          PROVE  Targets((old \o ins)[k]) \subseteq 1 .. Len(bl)
      <3>1. CASE k \in DOMAIN old
        BY <2>2, <3>1 DEF GoodSeq
      <3>2. CASE k \notin DOMAIN old
        <4>1. k - Len(old) \in DOMAIN ins /\ (old \o ins)[k] = ins[k - Len(old)]
          BY <2>2, <3>2 DEF GoodSeq
        <4>2. QED  BY <4>1 DEF GoodSeq
      <3>3. QED  BY <3>1, <3>2
    <2>3. old \o ins \in Seq(Instruction)
      BY <2>1 DEF GoodSeq, old
    <2>4. QED  BY <2>1, <2>2, <2>3 DEF GoodSeq, old
  <1>4. \A c \in 1 .. Len(new) : GoodSeq(new[c], Len(new))
    BY <1>2, <1>3 DEF GoodCode
  <1>5. QED  BY <1>2, <1>4 DEF GoodCode, new

(* The sequences the encoder emits.                                          *)
LEMMA GoodInstructions ==
    ASSUME NEW n \in Nat
    PROVE  /\ GoodSeq(<<>>, n) /\ GoodSeq(<<Ret>>, n) /\ GoodSeq(<<Alloca>>, n)
           /\ GoodSeq(<<IllStore>>, n)
           /\ \A b \in 1 .. n : GoodSeq(<<Br(b)>>, n)
           /\ \A t, f \in 1 .. n : GoodSeq(<<CondBr(t, f)>>, n)
           /\ \A t, f \in Nat : GoodSeq(<<Phi(t, f)>>, n)
           /\ \A c \in Cell : GoodSeq(<<Load(c)>>, n) /\ GoodSeq(<<Store(c)>>, n)
  <1>1. ASSUME NEW i \in Instruction, Targets(i) \subseteq 1 .. n
        PROVE  GoodSeq(<<i>>, n)
    BY <1>1 DEF GoodSeq
  <1>2. /\ Targets(Ret) = {} /\ Targets(Alloca) = {} /\ Targets(IllStore) = {}
        /\ \A b \in Nat : Targets(Br(b)) = {b}
        /\ \A t, f \in Nat : Targets(CondBr(t, f)) = {t, f} /\ Targets(Phi(t, f)) = {}
        /\ \A c \in Cell : Targets(Load(c)) = {} /\ Targets(Store(c)) = {}
    BY DEF Targets, Ret, Alloca, IllStore, Br, CondBr, Phi, Load, Store
  <1>3. GoodSeq(<<>>, n)
    BY DEF GoodSeq
  <1>4. GoodSeq(<<Ret>>, n) /\ GoodSeq(<<Alloca>>, n) /\ GoodSeq(<<IllStore>>, n)
    BY <1>1, <1>2, InstructionTypes
  <1>5. ASSUME NEW b \in 1 .. n PROVE GoodSeq(<<Br(b)>>, n)
    BY <1>1, <1>2, InstructionTypes
  <1>6. ASSUME NEW t \in 1 .. n, NEW f \in 1 .. n PROVE GoodSeq(<<CondBr(t, f)>>, n)
    <2>1. t \in Nat /\ f \in Nat
      OBVIOUS
    <2>2. CondBr(t, f) \in Instruction /\ Targets(CondBr(t, f)) \subseteq 1 .. n
      BY <1>2, <2>1, InstructionTypes
    <2>3. QED  BY <1>1, <2>2
  <1>7. ASSUME NEW t \in Nat, NEW f \in Nat PROVE GoodSeq(<<Phi(t, f)>>, n)
    BY <1>1, <1>2, InstructionTypes
  <1>8. ASSUME NEW c \in Cell PROVE GoodSeq(<<Load(c)>>, n) /\ GoodSeq(<<Store(c)>>, n)
    BY <1>1, <1>2, InstructionTypes
  <1>9. QED  BY <1>3, <1>4, <1>5, <1>6, <1>7, <1>8

LEMMA GoodCreate ==
    ASSUME NEW bl, GoodCode(bl), NEW k \in Nat
    PROVE  GoodCode(Created(bl, k)) /\ Len(Created(bl, k)) = Len(bl) + k
  <1> DEFINE new == Created(bl, k)
  <1>1. bl \in Code
    BY DEF GoodCode
  <1>2. /\ new \in Code /\ Len(new) = Len(bl) + k
        /\ \A c \in 1 .. Len(bl) : new[c] = bl[c]
        /\ \A c \in Len(bl) + 1 .. Len(bl) + k : new[c] = <<>>
    BY <1>1, CreatedFacts
  <1> HIDE DEF new
  <1>3. Len(bl) \in Nat
    BY <1>1 DEF Code
  <1>4. ASSUME NEW c \in 1 .. Len(new) PROVE GoodSeq(new[c], Len(new))
    <2>1. CASE c \in 1 .. Len(bl)
      <3>1. GoodSeq(bl[c], Len(bl)) /\ new[c] = bl[c]
        BY <1>2, <2>1 DEF GoodCode
      <3>2. QED  BY <1>2, <1>3, <3>1 DEF GoodSeq
    <2>2. CASE c \in Len(bl) + 1 .. Len(bl) + k
      <3>1. new[c] = <<>> /\ Len(new) \in Nat
        BY <1>2, <1>3, <2>2
      <3>2. QED  BY <3>1, GoodInstructions
    <2>3. QED  BY <1>2, <1>3, <2>1, <2>2
  <1>5. QED  BY <1>2, <1>4 DEF GoodCode, new

LEMMA GoodLoads ==
    ASSUME NEW v \in Value, NEW n \in Nat
    PROVE  GoodSeq(Loads(v), n)
  <1>1. v.cell = NoCell \/ v.cell \in Cell
    BY DEF Value
  <1>2. QED  BY <1>1, GoodInstructions DEF Loads

LEMMA GoodConcat ==
    ASSUME NEW n \in Nat, NEW r, NEW s, GoodSeq(r, n), GoodSeq(s, n)
    PROVE  GoodSeq(r \o s, n)
  <1>1. r \in Seq(Instruction) /\ s \in Seq(Instruction) /\ r \o s \in Seq(Instruction)
    BY DEF GoodSeq
  <1>2. ASSUME NEW k \in DOMAIN (r \o s) PROVE Targets((r \o s)[k]) \subseteq 1 .. n
    <2>1. CASE k \in DOMAIN r
      BY <1>1, <2>1 DEF GoodSeq
    <2>2. CASE k \notin DOMAIN r
      <3>1. k - Len(r) \in DOMAIN s /\ (r \o s)[k] = s[k - Len(r)]
        BY <1>1, <2>2
      <3>2. QED  BY <3>1 DEF GoodSeq
    <2>3. QED  BY <2>1, <2>2
  <1>3. QED  BY <1>1, <1>2 DEF GoodSeq

LEMMA GoodJoined ==
    ASSUME NEW bl, GoodCode(bl), activeBlock \in 1 .. Len(bl), NEW b, NEW target \in 1 .. Len(bl)
    PROVE  GoodCode(Joined(bl, b, target)) /\ Len(Joined(bl, b, target)) = Len(bl)
  <1> DEFINE jump == <<Br(target)>>
             bl1 == IF activeBlock # b /\ ~Terminated(bl[activeBlock])
                    THEN Emitted(bl, activeBlock, jump) ELSE bl
             probe == IF bl1[b] = <<>> THEN activeBlock ELSE b
  <1>1. Len(bl) \in Nat
    BY DEF GoodCode, Code
  <1>2. GoodSeq(jump, Len(bl))
    BY <1>1, GoodInstructions
  <1>3. GoodCode(bl1) /\ Len(bl1) = Len(bl)
    BY <1>2, GoodEmit
  <1>4. Joined(bl, b, target) = IF Terminated(bl1[probe]) THEN bl1 ELSE Emitted(bl1, activeBlock, jump)
    BY DEF Joined
  <1> HIDE DEF bl1, probe, jump
  <1>5. activeBlock \in 1 .. Len(bl1) /\ GoodSeq(jump, Len(bl1))
    BY <1>2, <1>3
  <1>6. GoodCode(Emitted(bl1, activeBlock, jump)) /\ Len(Emitted(bl1, activeBlock, jump)) = Len(bl1)
    BY <1>3, <1>5, GoodEmit
  <1>7. QED  BY <1>3, <1>4, <1>6

-------------------------------------------------------------------------------
(* One step of the encoder: the running task is replaced by next.            *)

LEMMA StepTyped ==
    ASSUME Typed, todo # <<>>, NEW next \in Seq(Task),
           \A i \in DOMAIN next : Sound(next[i], Len(blocks')),
           Then(next), status' = status, val' \in Value \union {NoValue},
           scope' \in Seq([Name -> Symbol \union {NoSymbol}]), scope' # <<>>,
           GoodCode(blocks'), Len(blocks) <= Len(blocks'),
           activeBlock' \in 1 .. Len(blocks'),
           {breakPoint', continuePoint'} \subseteq (1 .. Len(blocks')) \union Uninit
    PROVE  Typed'
  <1>1. /\ todo \in Seq(Task) /\ \A i \in DOMAIN todo : Sound(todo[i], Len(blocks))
        /\ Len(blocks) \in Nat /\ Len(blocks') \in Nat
        /\ status \in {"run", "done", "failed", "crashed"}
    BY TypedParts DEF Parts, GoodCode, Code
  <1>2. todo' \in Seq(Task)
    BY <1>1, ThenFacts
  <1>3. ASSUME NEW i \in DOMAIN todo' PROVE Sound(todo'[i], Len(blocks'))
    <2>1. CASE i \in DOMAIN next
      BY <1>1, <2>1, ThenFacts
    <2>2. CASE \E j \in 1 .. Len(todo) - 1 : i = Len(next) + j
      <3>1. PICK j \in 1 .. Len(todo) - 1 : i = Len(next) + j
        BY <2>2
      <3>2. todo'[i] = todo[j + 1] /\ j + 1 \in DOMAIN todo
        BY <1>1, <3>1, ThenFacts
      <3>3. QED  BY <1>1, <3>2, SoundGrows
    <2>3. QED  BY <1>1, <2>1, <2>2, ThenFacts
  <1>4. Parts'
    BY <1>1, <1>2, <1>3 DEF Parts
  <1>5. QED  BY <1>4, TypedParts, PTL

(* The running task returns: no task takes its place.                        *)
LEMMA ReturnTyped ==
    ASSUME Typed, todo # <<>>, Then(<<>>), status' = status, val' \in Value \union {NoValue},
           scope' \in Seq([Name -> Symbol \union {NoSymbol}]), scope' # <<>>,
           GoodCode(blocks'), Len(blocks) <= Len(blocks'),
           activeBlock' \in 1 .. Len(blocks'),
           {breakPoint', continuePoint'} \subseteq (1 .. Len(blocks')) \union Uninit
    PROVE  Typed'
  <1> DEFINE next == <<>>
  <1>1. next \in Seq(Task) /\ \A i \in DOMAIN next : Sound(next[i], Len(blocks'))
    OBVIOUS
  <1>2. Then(next)
    OBVIOUS
  <1> HIDE DEF next
  <1>3. QED  BY <1>1, <1>2, StepTyped

(* The running task enters a and continues with b after it.                  *)
LEMMA EnterTyped ==
    ASSUME Typed, todo # <<>>, NEW a, NEW b, Then(<<a, b>>),
           Sound(a, Len(blocks')), Sound(b, Len(blocks')),
           status' = status, val' \in Value \union {NoValue},
           scope' \in Seq([Name -> Symbol \union {NoSymbol}]), scope' # <<>>,
           GoodCode(blocks'), Len(blocks) <= Len(blocks'),
           activeBlock' \in 1 .. Len(blocks'),
           {breakPoint', continuePoint'} \subseteq (1 .. Len(blocks')) \union Uninit
    PROVE  Typed'
  <1> DEFINE next == <<a, b>>
  <1>1. next \in Seq(Task) /\ \A i \in DOMAIN next : Sound(next[i], Len(blocks'))
    BY DEF Sound
  <1>2. Then(next)
    OBVIOUS
  <1> HIDE DEF next
  <1>3. QED  BY <1>1, <1>2, StepTyped

LEMMA HaltTyped == Typed /\ (Fail \/ Crash) => Typed'
  BY DEF Typed, TypeOK, NoDangling, KnownPoints, OpenLoops, Fail, Crash, Block, points, emission

LEMMA StmtSound == ASSUME NEW s \in Statement, NEW n PROVE Sound(Stmt(s), n)
  BY DEF Task, Stmt, OfKind, Sound, PendingOf, EnteredOf, LoopSteps

LEMMA ExprSound == ASSUME NEW e \in Expression, NEW n PROVE Sound(Expr(e), n)
  BY DEF Task, Expr, OfKind, Sound, PendingOf, EnteredOf, LoopSteps

LEMMA SoundChanges ==
    ASSUME NEW t, NEW n, Sound(t, n)
    PROVE  /\ t.do = "trinaryCond" => Sound([t EXCEPT !.do = "trinaryTrue"], n)
           /\ t.do = "branchCond" => Sound([t EXCEPT !.do = "branchTrue"], n)
           /\ t.do = "branchTrue" => Sound([t EXCEPT !.do = "branchFalse"], n)
           /\ t.do = "loopCond" => Sound([t EXCEPT !.do = "loopBody"], n)
           /\ t.do = "loopBody" => Sound([t EXCEPT !.do = "loopStep"], n)
           /\ t.do = "loopStep" => Sound([t EXCEPT !.do = "endLoop"], n)
  <1>1. CASE t.do = "trinaryCond"
    <2>1. [t EXCEPT !.do = "trinaryTrue"] \in Task
      BY <1>1 DEF Sound, Task, LoopSteps
    <2>2. QED  BY <1>1, <2>1 DEF Sound, Task, LoopSteps, OfKind, PendingOf, EnteredOf
  <1>2. CASE t.do = "branchCond"
    <2>1. [t EXCEPT !.do = "branchTrue"] \in Task
      BY <1>2 DEF Sound, Task, LoopSteps
    <2>2. QED  BY <1>2, <2>1 DEF Sound, Task, LoopSteps, OfKind, PendingOf, EnteredOf
  <1>3. CASE t.do = "branchTrue"
    <2>1. [t EXCEPT !.do = "branchFalse"] \in Task
      BY <1>3 DEF Sound, Task, LoopSteps
    <2>2. QED  BY <1>3, <2>1 DEF Sound, Task, LoopSteps, OfKind, PendingOf, EnteredOf
  <1>4. CASE t.do = "loopCond"
    <2>1. [t EXCEPT !.do = "loopBody"] \in Task
      BY <1>4 DEF Sound, Task, LoopSteps
    <2>2. QED  BY <1>4, <2>1 DEF Sound, Task, LoopSteps, OfKind, PendingOf, EnteredOf
  <1>5. CASE t.do = "loopBody"
    <2>1. [t EXCEPT !.do = "loopStep"] \in Task
      BY <1>5 DEF Sound, Task, LoopSteps
    <2>2. QED  BY <1>5, <2>1 DEF Sound, Task, LoopSteps, OfKind, PendingOf, EnteredOf
  <1>6. CASE t.do = "loopStep"
    <2>1. [t EXCEPT !.do = "endLoop"] \in Task
      BY <1>6 DEF Sound, Task, LoopSteps
    <2>2. QED  BY <1>6, <2>1 DEF Sound, Task, LoopSteps, OfKind, PendingOf, EnteredOf
  <1>7. QED  BY <1>1, <1>2, <1>3, <1>4, <1>5, <1>6

(* What a handler may rely on when its task is the running one.              *)
LEMMA RunningFacts ==
    ASSUME Typed, NEW tag, Is(tag)
    PROVE  /\ todo # <<>> /\ todo \in Seq(Task) /\ status = "run"
           /\ Head(todo) \in Task /\ Head(todo).do = tag /\ Sound(Head(todo), Len(blocks))
           /\ GoodCode(blocks) /\ Len(blocks) \in Nat /\ activeBlock \in 1 .. Len(blocks)
           /\ val # NoValue => val \in Value
           /\ scope \in Seq([Name -> Symbol \union {NoSymbol}]) /\ scope # <<>>
           /\ {breakPoint, continuePoint} \subseteq (1 .. Len(blocks)) \union Uninit
  <1>1. todo # <<>> /\ status = "run" /\ Head(todo).do = tag
    BY DEF Is
  <1>2. Parts
    BY TypedParts
  <1>3. Head(todo) = todo[1] /\ 1 \in DOMAIN todo
    BY <1>1, <1>2 DEF Parts
  <1>4. QED  BY <1>1, <1>2, <1>3 DEF Parts, GoodCode, Code, Sound

(* A return that emits ins where it stands.                                  *)
LEMMA EmitReturnTyped ==
    ASSUME Typed, NEW tag, Is(tag), NEW ins, GoodSeq(ins, Len(blocks)),
           blocks' = Emitted(blocks, activeBlock, ins), Then(<<>>),
           UNCHANGED <<status, points, scope, activeBlock>>, val' \in Value \union {NoValue}
    PROVE  Typed'
  <1>1. GoodCode(blocks') /\ Len(blocks') = Len(blocks)
    BY RunningFacts, GoodEmit
  <1>2. QED  BY <1>1, RunningFacts, ReturnTyped DEF points

(* A return that emits nothing.                                              *)
LEMMA PlainReturnTyped ==
    ASSUME Typed, NEW tag, Is(tag), Then(<<>>), UNCHANGED <<status, points, emission>>,
           scope' \in Seq([Name -> Symbol \union {NoSymbol}]), scope' # <<>>,
           val' \in Value \union {NoValue}
    PROVE  Typed'
  BY RunningFacts, ReturnTyped DEF points, emission

(* A step that enters a and will continue with b, and emits nothing.         *)
LEMMA PlainEnterTyped ==
    ASSUME Typed, NEW tag, Is(tag), NEW a, NEW b, Then(<<a, b>>),
           Sound(a, Len(blocks)), Sound(b, Len(blocks)),
           UNCHANGED <<status, val, points, scope, emission>>
    PROVE  Typed'
  <1>1. val' \in Value \union {NoValue} /\ blocks' = blocks /\ activeBlock' = activeBlock
    BY RunningFacts DEF emission
  <1>2. QED  BY <1>1, RunningFacts, EnterTyped DEF points

(* The same, after a move to another block.                                  *)
LEMMA MoveEnterTyped ==
    ASSUME Typed, NEW tag, Is(tag), NEW a, NEW b, Then(<<a, b>>),
           Sound(a, Len(blocks')), Sound(b, Len(blocks')),
           GoodCode(blocks'), Len(blocks) <= Len(blocks'), activeBlock' \in 1 .. Len(blocks'),
           UNCHANGED <<status, val, points, scope>>
    PROVE  Typed'
  <1>1. val' \in Value \union {NoValue} /\ scope' = scope /\ Len(blocks) \in Nat
    BY RunningFacts
  <1>2. Len(blocks') \in Nat
    BY DEF GoodCode, Code
  <1>3. {breakPoint', continuePoint'} \subseteq (1 .. Len(blocks')) \union Uninit
    BY <1>1, <1>2, RunningFacts DEF points
  <1>4. QED  BY <1>1, <1>3, RunningFacts, EnterTyped

-------------------------------------------------------------------------------
(* Expressions.                                                              *)

LEMMA CalcTyped == Typed /\ EncodeCalc => Typed'
  <1> SUFFICES ASSUME Typed, EncodeCalc PROVE Typed'
    OBVIOUS
  <1>1. Is("expr") /\ Node.kind = "calc"
    BY DEF EncodeCalc, IsExpr, Node
  <1>2. Node \in Expression
    BY <1>1, RunningFacts, TaskFields DEF Node
  <1>3. Node.reads \in Seq(Name) /\ Node.type \in Type
    BY <1>1, <1>2, SyntaxAssumption
  <1> DEFINE syms == [i \in DOMAIN Node.reads |-> Lookup(Node.reads[i])]
             loads == [i \in DOMAIN syms |-> Load(syms[i].cell)]
  <1>4. CASE \E i \in DOMAIN syms : syms[i] = NoSymbol
    <2>1. Then(<<>>) /\ val' = NoValue /\ UNCHANGED <<prog, status, points, scope, emission>>
      BY <1>4 DEF EncodeCalc, Return, emission
    <2>2. QED  BY <1>1, <2>1, PlainReturnTyped, RunningFacts
  <1>5. CASE ~\E i \in DOMAIN syms : syms[i] = NoSymbol
    <2>1. /\ Then(<<>>) /\ val' = [type |-> Node.type, cell |-> NoCell]
          /\ blocks' = Emitted(blocks, activeBlock, loads)
          /\ UNCHANGED <<prog, status, points, scope, activeBlock>>
      BY <1>5 DEF EncodeCalc, Return
    <2>2. val' \in Value
      BY <1>3, <2>1 DEF Value
    <2>3. \A i \in DOMAIN Node.reads : Lookup(Node.reads[i]) \in Symbol
      BY <1>1, <1>3, <1>5, LookupType, RunningFacts
    <2>4. \A i \in DOMAIN Node.reads : loads[i] \in Instruction /\ Targets(loads[i]) = {}
      BY <2>3, InstructionTypes DEF Symbol, Targets, Load
    <2>5. loads \in Seq(Instruction)
      <3>1. /\ Len(Node.reads) \in Nat /\ DOMAIN Node.reads = 1 .. Len(Node.reads)
        BY <1>3
      <3>2. DOMAIN syms = 1 .. Len(Node.reads)
        BY <3>1
      <3> HIDE DEF syms
      <3>3. loads \in [1 .. Len(Node.reads) -> Instruction]
        BY <2>4, <3>1, <3>2
      <3> HIDE DEF loads
      <3>4. QED  BY <3>1, <3>3
    <2>6. GoodSeq(loads, Len(blocks))
      BY <2>4, <2>5 DEF GoodSeq
    <2>7. QED  BY <1>1, <2>1, <2>2, <2>6, EmitReturnTyped
  <1>6. QED  BY <1>4, <1>5

LEMMA RefTyped == Typed /\ EncodeSymbolRef => Typed'
  <1> SUFFICES ASSUME Typed, EncodeSymbolRef PROVE Typed'
    OBVIOUS
  <1>1. Is("expr") /\ Node.kind = "ref"
    BY DEF EncodeSymbolRef, IsExpr, Node
  <1>2. Node \in Expression
    BY <1>1, RunningFacts, TaskFields DEF Node
  <1>3. Lookup(Node.name) \in Symbol \union {NoSymbol}
    BY <1>1, <1>2, SyntaxAssumption, LookupType, RunningFacts
  <1>4. /\ Then(<<>>) /\ UNCHANGED <<prog, status, points, scope, emission>>
        /\ val' = IF Lookup(Node.name) = NoSymbol THEN NoValue ELSE Lookup(Node.name)
    BY DEF EncodeSymbolRef, Return
  <1>5. val' \in Value \union {NoValue}
    BY <1>3, <1>4 DEF Symbol, Value
  <1>6. QED  BY <1>1, <1>4, <1>5, PlainReturnTyped, RunningFacts

LEMMA TrinaryTyped == Typed /\ EncodeTrinary => Typed'
  <1> SUFFICES ASSUME Typed, EncodeTrinary PROVE Typed'
    OBVIOUS
  <1>1. Is("expr") /\ Node.kind = "trinary"
    BY DEF EncodeTrinary, IsExpr, Node
  <1>2. Node \in Expression
    BY <1>1, RunningFacts, TaskFields DEF Node
  <1> DEFINE n == Len(blocks)
             bl == Created(blocks, 4)
             task == [do |-> "trinaryCond", node |-> Node,
                      yes |-> n + 2, no |-> n + 3, end |-> n + 4]
  <1>3. /\ blocks' = Emitted(bl, activeBlock, <<Br(n + 1)>>) /\ activeBlock' = n + 1
        /\ Then(<<Expr(Node.cond), task>>) /\ UNCHANGED <<prog, status, val, points, scope>>
    BY DEF EncodeTrinary
  <1>4. GoodCode(bl) /\ Len(bl) = n + 4 /\ n \in Nat /\ activeBlock \in 1 .. n
    BY <1>1, RunningFacts, GoodCreate
  <1>5. GoodSeq(<<Br(n + 1)>>, Len(bl)) /\ activeBlock \in 1 .. Len(bl)
    BY <1>4, GoodInstructions
  <1>6. GoodCode(blocks') /\ Len(blocks') = n + 4
    BY <1>3, <1>4, <1>5, GoodEmit
  <1>7. Sound(task, Len(blocks'))
    BY <1>1, <1>2, <1>4, <1>6 DEF Sound, Task, OfKind, PendingOf, EnteredOf, LoopSteps
  <1>8. Sound(Expr(Node.cond), Len(blocks'))
    BY <1>1, <1>2, SyntaxAssumption, ExprSound
  <1> HIDE DEF n, bl, task
  <1>9. n = Len(blocks)
    BY DEF n
  <1>10. QED  BY <1>1, <1>3, <1>4, <1>6, <1>7, <1>8, <1>9, MoveEnterTyped

LEMMA TrinaryCondTyped == Typed /\ TrinaryCond => Typed'
  <1> SUFFICES ASSUME Typed, TrinaryCond PROVE Typed'
    OBVIOUS
  <1> DEFINE t == Head(todo)
             n == Len(blocks)
             bl == Emitted(blocks, activeBlock, Loads(val))
  <1>1. Is("trinaryCond")
    BY DEF TrinaryCond
  <1>2. /\ t \in Task /\ t.do = "trinaryCond" /\ Sound(t, n)
        /\ GoodCode(blocks) /\ n \in Nat /\ activeBlock \in 1 .. n
        /\ val # NoValue => val \in Value
    BY <1>1, RunningFacts
  <1>3. t.node \in Expression /\ t.node.kind = "trinary" /\ {t.yes, t.no} \subseteq 1 .. n
    BY <1>2, TaskFields DEF Sound, OfKind, PendingOf
  <1>4. CASE val = NoValue
    <2>1. Then(<<>>) /\ val' = NoValue /\ UNCHANGED <<status, points, scope, emission>>
      BY <1>4 DEF TrinaryCond, Return
    <2>2. QED  BY <1>1, <2>1, PlainReturnTyped, RunningFacts
  <1>5. CASE val # NoValue
    <2>1. GoodSeq(Loads(val), n)
      BY <1>2, <1>5, GoodLoads
    <2>2. CASE val.type # "bool"
      <3>1. /\ Then(<<>>) /\ val' = NoValue /\ blocks' = bl
            /\ UNCHANGED <<status, points, scope, activeBlock>>
        BY <1>5, <2>2 DEF TrinaryCond, Return
      <3>2. QED  BY <1>1, <2>1, <3>1, EmitReturnTyped
    <2>3. CASE val.type = "bool"
      <3> DEFINE a == Expr(t.node.yes)
                 b == [t EXCEPT !.do = "trinaryTrue"]
      <3>1. /\ blocks' = Emitted(bl, activeBlock, <<CondBr(t.yes, t.no)>>)
            /\ activeBlock' = t.yes /\ Then(<<a, b>>)
            /\ UNCHANGED <<status, val, points, scope>>
        BY <1>5, <2>3 DEF TrinaryCond
      <3>2. GoodCode(bl) /\ Len(bl) = n
        BY <1>2, <2>1, GoodEmit
      <3>3. GoodSeq(<<CondBr(t.yes, t.no)>>, Len(bl)) /\ activeBlock \in 1 .. Len(bl)
        BY <1>2, <1>3, <3>2, GoodInstructions
      <3>4. GoodCode(blocks') /\ Len(blocks') = n
        BY <3>1, <3>2, <3>3, GoodEmit
      <3>5. Sound(a, n)
        BY <1>3, SyntaxAssumption, ExprSound
      <3>6. Sound(b, n)
        BY <1>2, SoundChanges
      <3> HIDE DEF a, b, t
      <3>7. Sound(a, Len(blocks')) /\ Sound(b, Len(blocks')) /\ activeBlock' \in 1 .. Len(blocks')
        BY <1>3, <3>1, <3>4, <3>5, <3>6
      <3>8. Len(blocks) <= Len(blocks')
        BY <1>2, <3>4
      <3>9. QED  BY <1>1, <3>1, <3>4, <3>7, <3>8, MoveEnterTyped
    <2>4. QED  BY <2>2, <2>3
  <1>6. QED  BY <1>4, <1>5

LEMMA TrinaryTrueTyped == Typed /\ TrinaryTrue => Typed'
  <1> SUFFICES ASSUME Typed, TrinaryTrue PROVE Typed'
    OBVIOUS
  <1> DEFINE t == Head(todo)
             n == Len(blocks)
  <1>1. Is("trinaryTrue")
    BY DEF TrinaryTrue
  <1>2. /\ t \in Task /\ t.do = "trinaryTrue" /\ Sound(t, n)
        /\ GoodCode(blocks) /\ n \in Nat /\ activeBlock \in 1 .. n
        /\ val # NoValue => val \in Value
    BY <1>1, RunningFacts
  <1>3. t.node \in Expression /\ t.node.kind = "trinary" /\ {t.yes, t.no, t.end} \subseteq 1 .. n
    BY <1>2, TaskFields DEF Sound, OfKind, PendingOf, EnteredOf
  <1>4. CASE val = NoValue
    <2>1. Then(<<>>) /\ val' = NoValue /\ UNCHANGED <<status, points, scope, emission>>
      BY <1>4 DEF TrinaryTrue, Return
    <2>2. QED  BY <1>1, <2>1, PlainReturnTyped, RunningFacts
  <1>5. CASE val # NoValue
    <2> DEFINE a == Expr(t.node.no)
               b == [do |-> "trinaryFalse", node |-> t.node, yes |-> t.yes, no |-> t.no,
                     end |-> t.end, type |-> val.type]
    <2>1. /\ blocks' = Emitted(blocks, activeBlock, Loads(val) \o <<Br(t.end)>>)
          /\ activeBlock' = t.no /\ Then(<<a, b>>)
          /\ UNCHANGED <<status, val, points, scope>>
      BY <1>5 DEF TrinaryTrue
    <2>2. GoodSeq(Loads(val), n) /\ GoodSeq(<<Br(t.end)>>, n)
      BY <1>2, <1>3, <1>5, GoodLoads, GoodInstructions
    <2>3. GoodSeq(Loads(val) \o <<Br(t.end)>>, n)
      BY <1>2, <2>2, GoodConcat
    <2>4. GoodCode(blocks') /\ Len(blocks') = n
      BY <1>2, <2>1, <2>3, GoodEmit
    <2>5. Sound(a, n)
      BY <1>3, SyntaxAssumption, ExprSound
    <2>6. val.type \in Type
      BY <1>2, <1>5 DEF Value
    <2>7. Sound(b, n)
      BY <1>2, <1>3, <2>6 DEF Sound, Task, OfKind, PendingOf, EnteredOf, LoopSteps
    <2> HIDE DEF a, b, t
    <2>8. Sound(a, Len(blocks')) /\ Sound(b, Len(blocks')) /\ activeBlock' \in 1 .. Len(blocks')
      BY <1>3, <2>1, <2>4, <2>5, <2>7
    <2>9. Len(blocks) <= Len(blocks')
      BY <1>2, <2>4
    <2>10. QED  BY <1>1, <2>1, <2>4, <2>8, <2>9, MoveEnterTyped
  <1>6. QED  BY <1>4, <1>5

LEMMA IncomingsArePhis ==
    ASSUME NEW t, NEW phi \in Incomings(t)
    PROVE  phi \in {Phi(t.yes, t.no), Phi(t.yes, t.yes)}
  BY DEF Incomings

LEMMA TrinaryFalseTyped == Typed /\ TrinaryFalse => Typed'
  <1> SUFFICES ASSUME Typed, TrinaryFalse PROVE Typed'
    OBVIOUS
  <1> DEFINE t == Head(todo)
             n == Len(blocks)
             bl == Emitted(blocks, activeBlock, Loads(val) \o <<Br(t.end)>>)
  <1>1. Is("trinaryFalse")
    BY DEF TrinaryFalse
  <1>2. /\ todo # <<>> /\ t \in Task /\ t.do = "trinaryFalse" /\ Sound(t, n)
        /\ GoodCode(blocks) /\ n \in Nat /\ activeBlock \in 1 .. n
        /\ val # NoValue => val \in Value
        /\ scope \in Seq([Name -> Symbol \union {NoSymbol}]) /\ scope # <<>>
        /\ {breakPoint, continuePoint} \subseteq (1 .. n) \union Uninit
    BY <1>1, RunningFacts
  <1>3. t.end \in 1 .. n /\ t.yes \in Nat /\ t.no \in Nat /\ t.type \in Type
    BY <1>2, TaskFields DEF Sound, PendingOf
  <1>4. CASE val = NoValue
    <2>1. Then(<<>>) /\ val' = NoValue /\ UNCHANGED <<status, points, scope, emission>>
      BY <1>4 DEF TrinaryFalse, Return
    <2>2. QED  BY <1>1, <2>1, PlainReturnTyped, RunningFacts
  <1>5. CASE val # NoValue
    <2>1. GoodSeq(Loads(val), n) /\ GoodSeq(<<Br(t.end)>>, n)
      BY <1>2, <1>3, <1>5, GoodLoads, GoodInstructions
    <2>2. GoodSeq(Loads(val) \o <<Br(t.end)>>, n)
      BY <1>2, <2>1, GoodConcat
    <2>3. GoodCode(bl) /\ Len(bl) = n
      BY <1>2, <2>2, GoodEmit
    <2>4. /\ \A phi \in Incomings(t) : GoodSeq(<<phi>>, Len(bl))
          /\ t.end \in 1 .. Len(bl)
      <3>1. GoodSeq(<<Phi(t.yes, t.no)>>, Len(bl)) /\ GoodSeq(<<Phi(t.yes, t.yes)>>, Len(bl))
        BY <1>2, <1>3, <2>3, GoodInstructions
      <3>2. QED  BY <1>2, <1>3, <2>3, <3>1, IncomingsArePhis
    <2>5. \A phi \in Incomings(t) : /\ GoodCode(Emitted(bl, t.end, <<phi>>))
                                    /\ Len(Emitted(bl, t.end, <<phi>>)) = n
      BY <2>3, <2>4, GoodEmit
    <2>6. CASE Crash
      BY <2>6, HaltTyped
    <2>7. CASE ~Crash
      <3>1. /\ blocks' = bl \/ \E phi \in Incomings(t) : blocks' = Emitted(bl, t.end, <<phi>>)
            /\ activeBlock' = t.end /\ Then(<<>>) /\ UNCHANGED <<status, points, scope>>
            /\ val' = NoValue \/ val' = [type |-> t.type, cell |-> NoCell]
        BY <1>5, <2>7 DEF TrinaryFalse, Return
      <3>2. val' \in Value \union {NoValue}
        BY <1>3, <3>1 DEF Value
      <3>3. GoodCode(blocks') /\ Len(blocks') = n
        BY <2>3, <2>5, <3>1
      <3>4. activeBlock' \in 1 .. Len(blocks')
        BY <1>3, <3>1, <3>3
      <3>5. {breakPoint', continuePoint'} \subseteq (1 .. Len(blocks')) \union Uninit
        BY <1>2, <3>1, <3>3 DEF points
      <3>6. QED  BY <1>2, <3>1, <3>2, <3>3, <3>4, <3>5, ReturnTyped
    <2>8. QED  BY <2>6, <2>7
  <1>6. QED  BY <1>4, <1>5

LEMMA ExprTyped == Typed /\ EncodeExpr => Typed'
  <1>1. Typed /\ EncodeUnsupported => Typed'
    <2> SUFFICES ASSUME Typed, EncodeUnsupported PROVE Typed'
      OBVIOUS
    <2>1. /\ Is("expr") /\ Then(<<>>) /\ val' = NoValue
          /\ UNCHANGED <<status, points, scope, emission>>
      BY DEF EncodeUnsupported, IsExpr, Return
    <2>2. QED  BY <2>1, PlainReturnTyped, RunningFacts
  <1>2. QED
    BY <1>1, CalcTyped, RefTyped, TrinaryTyped, TrinaryCondTyped, TrinaryTrueTyped,
       TrinaryFalseTyped DEF EncodeExpr

-------------------------------------------------------------------------------
(* Simple statements.                                                        *)

LEMMA DefineTyped == Typed /\ DefineSymbol => Typed'
  <1> SUFFICES ASSUME Typed, DefineSymbol PROVE Typed'
    OBVIOUS
  <1> DEFINE n == Len(blocks)
             t == Head(todo)
             code == Loads(val) \o <<Alloca>>
             bl == Emitted(blocks, activeBlock, code)
             cell == <<activeBlock, Len(bl[activeBlock])>>
             symbol == [type |-> val.type, cell |-> cell]
  <1>1. Is("define")
    BY DEF DefineSymbol
  <1>2. /\ todo # <<>> /\ t \in Task /\ t.do = "define"
        /\ GoodCode(blocks) /\ n \in Nat /\ activeBlock \in 1 .. n
        /\ val # NoValue => val \in Value
        /\ scope \in Seq([Name -> Symbol \union {NoSymbol}]) /\ scope # <<>>
        /\ {breakPoint, continuePoint} \subseteq (1 .. n) \union Uninit
    BY <1>1, RunningFacts
  <1>3. t.name \in Name
    BY <1>2, TaskFields
  <1>4. CASE val = NoValue
    BY <1>4, HaltTyped DEF DefineSymbol
  <1>5. CASE val # NoValue
    <2>1. /\ blocks' = Emitted(bl, activeBlock, <<Store(cell)>>)
          /\ scope' = [scope EXCEPT ![1][t.name] = symbol]
          /\ Then(<<>>) /\ UNCHANGED <<status, val, points, activeBlock>>
      BY <1>5 DEF DefineSymbol
    <2>2. GoodSeq(Loads(val), n) /\ GoodSeq(<<Alloca>>, n)
      BY <1>2, <1>5, GoodLoads, GoodInstructions
    <2>3. GoodSeq(code, n)
      BY <1>2, <2>2, GoodConcat
    <2>4. GoodCode(bl) /\ Len(bl) = n
      BY <1>2, <2>3, GoodEmit
    <2>5. cell \in Cell
      <3>1. blocks \in Code /\ code \in Seq(Instruction) /\ blocks[activeBlock] \in Seq(Instruction)
        BY <1>2, <2>3 DEF GoodCode, GoodSeq, Code
      <3>2. bl[activeBlock] = blocks[activeBlock] \o code
        BY <1>2, <3>1, EmittedFacts
      <3>3. Loads(val) \in Seq(Instruction)
        BY <2>2 DEF GoodSeq
      <3>4. Len(bl[activeBlock]) \in Nat \ {0}
        BY <3>1, <3>2, <3>3, AppendLength, InstructionTypes
      <3>5. QED  BY <1>2, <3>4 DEF Cell
    <2>6. symbol \in Symbol
      BY <1>2, <1>5, <2>5 DEF Symbol, Value
    <2>7. GoodSeq(<<Store(cell)>>, Len(bl)) /\ activeBlock \in 1 .. Len(bl)
      BY <1>2, <2>4, <2>5, GoodInstructions
    <2>8. GoodCode(blocks') /\ Len(blocks') = n
      BY <2>1, <2>4, <2>7, GoodEmit
    <2> HIDE DEF symbol
    <2>9. scope' \in Seq([Name -> Symbol \union {NoSymbol}]) /\ scope' # <<>>
      <3>1. 1 \in DOMAIN scope /\ scope[1] \in [Name -> Symbol \union {NoSymbol}]
        BY <1>2
      <3>2. [scope[1] EXCEPT ![t.name] = symbol] \in [Name -> Symbol \union {NoSymbol}]
        BY <2>6, <3>1
      <3>3. scope' = [scope EXCEPT ![1] = [scope[1] EXCEPT ![t.name] = symbol]]
        BY <2>1
      <3>4. QED  BY <1>2, <3>1, <3>2, <3>3
    <2> HIDE DEF n, t
    <2>10. /\ val' \in Value \union {NoValue} /\ activeBlock' \in 1 .. Len(blocks')
           /\ {breakPoint', continuePoint'} \subseteq (1 .. Len(blocks')) \union Uninit
           /\ Len(blocks) <= Len(blocks') /\ status' = status
      BY <1>2, <1>5, <2>1, <2>8 DEF points, n
    <2>11. QED  BY <1>2, <2>1, <2>8, <2>9, <2>10, ReturnTyped
  <1>6. QED  BY <1>4, <1>5

LEMMA AssignTyped == Typed /\ (EncodeAssign \/ AssignRight \/ AssignStore) => Typed'
  <1> SUFFICES ASSUME Typed, EncodeAssign \/ AssignRight \/ AssignStore PROVE Typed'
    OBVIOUS
  <1> DEFINE t == Head(todo)
             n == Len(blocks)
  <1>1. CASE EncodeAssign
    <2> DEFINE a == Expr(Node.left)
               b == [do |-> "assignRight", node |-> Node.right]
    <2>1. /\ Is("stmt") /\ Node.kind = "assign" /\ Then(<<a, b>>)
          /\ UNCHANGED <<status, val, points, scope, emission>>
      BY <1>1 DEF EncodeAssign, IsStmt, Node
    <2>2. Node \in Statement
      BY <2>1, RunningFacts, TaskFields DEF Node
    <2>3. Node.left \in Expression /\ Node.right \in Expression
      BY <2>1, <2>2, SyntaxAssumption
    <2>4. Sound(a, n)
      BY <2>3, ExprSound
    <2>5. Sound(b, n)
      BY <2>3 DEF Sound, Task, OfKind, PendingOf, EnteredOf, LoopSteps
    <2> HIDE DEF a, b
    <2>6. QED  BY <2>1, <2>4, <2>5, PlainEnterTyped
  <1>2. CASE AssignRight
    <2> DEFINE a == Expr(Node)
               b == [do |-> "assignStore", left |-> val]
    <2>1. /\ Is("assignRight") /\ Then(<<a, b>>)
          /\ UNCHANGED <<status, val, points, scope, emission>>
      BY <1>2 DEF AssignRight
    <2>2. Node \in Expression /\ val \in Value \union {NoValue}
      BY <2>1, RunningFacts, TaskFields DEF Node
    <2>3. Sound(a, n)
      BY <2>2, ExprSound
    <2>4. Sound(b, n)
      BY <2>2 DEF Sound, Task, OfKind, PendingOf, EnteredOf, LoopSteps
    <2> HIDE DEF a, b
    <2>5. QED  BY <2>1, <2>3, <2>4, PlainEnterTyped
  <1>3. CASE AssignStore
    <2>1. Is("assignStore")
      BY <1>3 DEF AssignStore
    <2>2. /\ t \in Task /\ t.do = "assignStore" /\ n \in Nat
          /\ val # NoValue => val \in Value
      BY <2>1, RunningFacts
    <2>3. t.left \in Value \union {NoValue}
      BY <2>2, TaskFields
    <2>4. CASE Fail \/ Crash
      BY <2>4, HaltTyped
    <2>5. CASE ~(Fail \/ Crash)
      <3> DEFINE store == StoreOf(val, t.left)
      <3>1. /\ t.left # NoValue /\ val # NoValue /\ Then(<<>>)
            /\ blocks' = Emitted(blocks, activeBlock, Loads(val) \o <<store>>)
            /\ UNCHANGED <<status, val, points, scope, activeBlock>>
        BY <1>3, <2>5 DEF AssignStore
      <3>2. store = IllStore \/ \E c \in Cell : store = Store(c)
        BY <2>3, <3>1 DEF Value, StoreOf
      <3> HIDE DEF store
      <3>3. GoodSeq(Loads(val), n) /\ GoodSeq(<<store>>, n)
        BY <2>2, <3>1, <3>2, GoodLoads, GoodInstructions
      <3>4. GoodSeq(Loads(val) \o <<store>>, n)
        BY <2>2, <3>3, GoodConcat
      <3>5. val' \in Value \union {NoValue}
        BY <2>2, <3>1
      <3>6. QED  BY <2>1, <3>1, <3>4, <3>5, EmitReturnTyped
    <2>6. QED  BY <2>4, <2>5
  <1>4. QED  BY <1>1, <1>2, <1>3

LEMMA ReturnStmtTyped == Typed /\ (EncodeReturn \/ EmitReturn) => Typed'
  <1> SUFFICES ASSUME Typed, EncodeReturn \/ EmitReturn PROVE Typed'
    OBVIOUS
  <1> DEFINE n == Len(blocks)
  <1>1. CASE Fail
    BY <1>1, HaltTyped
  <1>2. CASE EncodeReturn /\ ~Fail
    <2> DEFINE a == Expr(Node.value)
               b == [do |-> "emitReturn"]
    <2>1. /\ Is("stmt") /\ Node.kind = "return" /\ Then(<<a, b>>)
          /\ UNCHANGED <<status, val, points, scope, emission>>
      BY <1>2 DEF EncodeReturn, IsStmt, Node
    <2>2. Node \in Statement
      BY <2>1, RunningFacts, TaskFields DEF Node
    <2>3. Sound(a, n)
      BY <2>1, <2>2, SyntaxAssumption, ExprSound
    <2>4. Sound(b, n)
      BY DEF Sound, Task, OfKind, PendingOf, EnteredOf, LoopSteps
    <2> HIDE DEF a, b
    <2>5. QED  BY <2>1, <2>3, <2>4, PlainEnterTyped
  <1>3. CASE EmitReturn /\ ~Fail
    <2>1. /\ Is("emitReturn") /\ val # NoValue /\ Then(<<>>)
          /\ blocks' = Emitted(blocks, activeBlock, Loads(val) \o <<Ret>>)
          /\ UNCHANGED <<status, val, points, scope, activeBlock>>
      BY <1>3 DEF EmitReturn
    <2>2. n \in Nat /\ val \in Value
      BY <2>1, RunningFacts
    <2>3. GoodSeq(Loads(val), n) /\ GoodSeq(<<Ret>>, n)
      BY <2>2, GoodLoads, GoodInstructions
    <2>4. GoodSeq(Loads(val) \o <<Ret>>, n)
      BY <2>2, <2>3, GoodConcat
    <2>5. QED  BY <2>1, <2>2, <2>4, EmitReturnTyped
  <1>4. QED  BY <1>1, <1>2, <1>3

LEMMA JumpTyped == Typed /\ (EncodeBreak \/ EncodeContinue) => Typed'
  <1> SUFFICES ASSUME Typed, NEW point, point = breakPoint \/ point = continuePoint,
                      IsStmt("break") \/ IsStmt("continue"), JumpTo(point)
               PROVE  Typed'
    BY DEF EncodeBreak, EncodeContinue
  <1>1. Is("stmt")
    BY DEF IsStmt
  <1>2. point \in (1 .. Len(blocks)) \union Uninit /\ Len(blocks) \in Nat
    BY <1>1, RunningFacts
  <1>3. CASE Fail \/ Crash
    BY <1>3, HaltTyped
  <1>4. CASE ~(Fail \/ Crash)
    <2>1. /\ point # NoBlock /\ point # Garbage /\ Then(<<>>)
          /\ blocks' = Emitted(blocks, activeBlock, <<Br(point)>>)
          /\ UNCHANGED <<status, val, points, scope, activeBlock>>
      BY <1>4 DEF JumpTo
    <2>2. point \in 1 .. Len(blocks)
      BY <1>2, <2>1, PointerAssumption
    <2>3. GoodSeq(<<Br(point)>>, Len(blocks))
      BY <1>2, <2>2, GoodInstructions
    <2>4. val' \in Value \union {NoValue}
      BY <1>1, <2>1, RunningFacts
    <2>5. QED  BY <1>1, <2>1, <2>3, <2>4, EmitReturnTyped
  <1>5. QED  BY <1>3, <1>4

LEMMA SimpleTyped == Typed /\ (EncodeNothing \/ EncodeRefused \/ EncodeSymbolDef) => Typed'
  <1> SUFFICES ASSUME Typed, EncodeNothing \/ EncodeRefused \/ EncodeSymbolDef PROVE Typed'
    OBVIOUS
  <1>1. CASE Fail
    BY <1>1, HaltTyped
  <1>2. CASE EncodeNothing
    <2>1. Is("stmt") /\ Then(<<>>) /\ UNCHANGED <<status, val, points, scope, emission>>
      BY <1>2 DEF EncodeNothing, IsStmt
    <2>2. QED  BY <2>1, PlainReturnTyped, RunningFacts
  <1>3. CASE EncodeSymbolDef /\ ~Fail
    <2> DEFINE a == Expr(Node.value)
               b == [do |-> "define", name |-> Node.name]
    <2>1. /\ Is("stmt") /\ Node.kind = "def" /\ Then(<<a, b>>)
          /\ UNCHANGED <<status, val, points, scope, emission>>
      BY <1>3 DEF EncodeSymbolDef, IsStmt, Node
    <2>2. Node \in Statement
      BY <2>1, RunningFacts, TaskFields DEF Node
    <2>3. Node.name \in Name /\ Node.value \in Expression
      BY <2>1, <2>2, SyntaxAssumption
    <2>4. Sound(a, Len(blocks))
      BY <2>3, ExprSound
    <2>5. Sound(b, Len(blocks))
      BY <2>3 DEF Sound, Task, OfKind, PendingOf, EnteredOf, LoopSteps
    <2> HIDE DEF a, b
    <2>6. QED  BY <2>1, <2>4, <2>5, PlainEnterTyped
  <1>4. QED  BY <1>1, <1>2, <1>3 DEF EncodeRefused

-------------------------------------------------------------------------------
(* Blocks, branches and loops.                                               *)

LEMMA BlockTyped == Typed /\ (EncodeBlock \/ EndBlock) => Typed'
  <1> SUFFICES ASSUME Typed, EncodeBlock \/ EndBlock PROVE Typed'
    OBVIOUS
  <1>1. CASE EncodeBlock
    <2> DEFINE body == [i \in DOMAIN Node.body |-> Stmt(Node.body[i])]
               last == [do |-> "endBlock"]
               next == body \o <<last>>
    <2>1. /\ Is("stmt") /\ Node.kind = "block" /\ Then(next) /\ PushScope
          /\ UNCHANGED <<status, val, points, emission>>
      BY <1>1 DEF EncodeBlock, IsStmt, Node
    <2>2. /\ todo # <<>> /\ GoodCode(blocks) /\ Len(blocks) \in Nat /\ activeBlock \in 1 .. Len(blocks)
          /\ val # NoValue => val \in Value
          /\ scope \in Seq([Name -> Symbol \union {NoSymbol}]) /\ scope # <<>>
          /\ {breakPoint, continuePoint} \subseteq (1 .. Len(blocks)) \union Uninit
      BY <2>1, RunningFacts
    <2>3. Node.body \in Seq(Statement)
      BY <2>1, RunningFacts, TaskFields, SyntaxAssumption DEF Node
    <2>4. \A i \in DOMAIN Node.body : Sound(Stmt(Node.body[i]), Len(blocks))
      BY <2>3, StmtSound
    <2>5. body \in Seq(Task) /\ \A i \in DOMAIN body : Sound(body[i], Len(blocks))
      <3>1. Len(Node.body) \in Nat /\ DOMAIN Node.body = 1 .. Len(Node.body)
        BY <2>3
      <3>2. body \in [1 .. Len(Node.body) -> Task]
        BY <2>4, <3>1 DEF Sound
      <3>3. body \in Seq(Task)
        BY <3>1, <3>2
      <3>4. QED  BY <2>4, <3>3
    <2>6. Sound(last, Len(blocks))
      BY DEF Sound, Task, OfKind, PendingOf, EnteredOf, LoopSteps
    <2> HIDE DEF body, last
    <2>7. next \in Seq(Task) /\ \A i \in DOMAIN next : Sound(next[i], Len(blocks))
      <3>1. last \in Task
        BY <2>6 DEF Sound
      <3>2. /\ next \in Seq(Task)
            /\ \A i \in DOMAIN next :
                  next[i] = last \/ (i \in DOMAIN body /\ next[i] = body[i])
        BY <2>5, <3>1, AppendEach
      <3> HIDE DEF next
      <3>3. QED  BY <2>5, <2>6, <3>2
    <2> HIDE DEF next
    <2>8. scope' \in Seq([Name -> Symbol \union {NoSymbol}]) /\ scope' # <<>>
      <3>1. EmptyScope \in [Name -> Symbol \union {NoSymbol}]
        BY DEF EmptyScope
      <3>2. QED  BY <2>1, <2>2, <3>1 DEF PushScope
    <2>9. blocks' = blocks /\ activeBlock' = activeBlock /\ status' = status
          /\ val' \in Value \union {NoValue}
          /\ {breakPoint', continuePoint'} \subseteq (1 .. Len(blocks')) \union Uninit
      BY <2>1, <2>2 DEF emission, points
    <2>10. /\ GoodCode(blocks') /\ Len(blocks) <= Len(blocks') /\ activeBlock' \in 1 .. Len(blocks')
           /\ \A i \in DOMAIN next : Sound(next[i], Len(blocks'))
      BY <2>2, <2>7, <2>9
    <2>11. todo # <<>> /\ Then(next) /\ status' = status
      BY <2>1, <2>2, <2>9
    <2>12. QED  BY <2>7, <2>8, <2>9, <2>10, <2>11, StepTyped
  <1>2. CASE EndBlock
    <2>1. Is("endBlock") /\ Then(<<>>) /\ scope' = PoppedScope /\ UNCHANGED <<status, val, points, emission>>
      BY <1>2 DEF EndBlock
    <2>2. scope \in Seq([Name -> Symbol \union {NoSymbol}]) /\ scope # <<>>
          /\ val' \in Value \union {NoValue}
      BY <2>1, RunningFacts
    <2>3. scope' \in Seq([Name -> Symbol \union {NoSymbol}]) /\ scope' # <<>>
      BY <2>1, <2>2, PoppedType
    <2>4. QED  BY <2>1, <2>2, <2>3, PlainReturnTyped
  <1>3. QED  BY <1>1, <1>2

LEMMA IfTyped == Typed /\ (EncodeIf \/ BranchCond \/ BranchTrue \/ BranchFalse) => Typed'
  <1> SUFFICES ASSUME Typed, EncodeIf \/ BranchCond \/ BranchTrue \/ BranchFalse PROVE Typed'
    OBVIOUS
  <1> DEFINE t == Head(todo)
             n == Len(blocks)
  <1>1. CASE EncodeIf
    <2> DEFINE a == Expr(Node.cond)
               b == [do |-> "branchCond", node |-> Node,
                     yes |-> n + 1, no |-> n + 2, end |-> n + 3]
    <2>1. /\ Is("stmt") /\ Node.kind = "if" /\ Then(<<a, b>>) /\ blocks' = Created(blocks, 3)
          /\ UNCHANGED <<status, val, points, scope, activeBlock>>
      BY <1>1 DEF EncodeIf, IsStmt, Node
    <2>2. Node \in Statement /\ GoodCode(blocks) /\ n \in Nat /\ activeBlock \in 1 .. n
      BY <2>1, RunningFacts, TaskFields DEF Node
    <2>3. GoodCode(blocks') /\ Len(blocks') = n + 3
      BY <2>1, <2>2, GoodCreate
    <2>4. Sound(a, Len(blocks'))
      BY <2>1, <2>2, SyntaxAssumption, ExprSound
    <2>5. Sound(b, Len(blocks'))
      BY <2>1, <2>2, <2>3 DEF Sound, Task, OfKind, PendingOf, EnteredOf, LoopSteps
    <2> HIDE DEF a, b
    <2>6. Len(blocks) <= Len(blocks') /\ activeBlock' \in 1 .. Len(blocks')
      BY <2>1, <2>2, <2>3
    <2>7. QED  BY <2>1, <2>3, <2>4, <2>5, <2>6, MoveEnterTyped
  <1>2. CASE Fail
    BY <1>2, HaltTyped
  <1>3. CASE BranchCond /\ ~Fail
    <2> DEFINE a == Stmt(t.node.yes)
               b == [t EXCEPT !.do = "branchTrue"]
    <2>1. /\ Is("branchCond") /\ val # NoValue
          /\ blocks' = Emitted(blocks, activeBlock, Loads(val) \o <<CondBr(t.yes, t.no)>>)
          /\ activeBlock' = t.yes /\ Then(<<a, b>>) /\ UNCHANGED <<status, val, points, scope>>
      BY <1>3 DEF BranchCond
    <2>2. /\ t \in Task /\ t.do = "branchCond" /\ Sound(t, n) /\ val \in Value
          /\ GoodCode(blocks) /\ n \in Nat /\ activeBlock \in 1 .. n
      BY <2>1, RunningFacts
    <2>3. t.node \in Statement /\ t.node.kind = "if" /\ {t.yes, t.no} \subseteq 1 .. n
      BY <2>2, TaskFields DEF Sound, OfKind, PendingOf
    <2>4. GoodSeq(Loads(val), n) /\ GoodSeq(<<CondBr(t.yes, t.no)>>, n)
      BY <2>2, <2>3, GoodLoads, GoodInstructions
    <2>5. GoodSeq(Loads(val) \o <<CondBr(t.yes, t.no)>>, n)
      BY <2>2, <2>4, GoodConcat
    <2>6. GoodCode(blocks') /\ Len(blocks') = n
      BY <2>1, <2>2, <2>5, GoodEmit
    <2>7. Sound(a, n) /\ Sound(b, n)
      BY <2>2, <2>3, SyntaxAssumption, StmtSound, SoundChanges
    <2> HIDE DEF a, b, t
    <2>8. /\ Sound(a, Len(blocks')) /\ Sound(b, Len(blocks'))
          /\ activeBlock' \in 1 .. Len(blocks') /\ Len(blocks) <= Len(blocks')
      BY <2>1, <2>2, <2>3, <2>6, <2>7
    <2>9. QED  BY <2>1, <2>6, <2>8, MoveEnterTyped
  <1>4. CASE BranchTrue
    <2> DEFINE a == Stmt(t.node.no)
               b == [t EXCEPT !.do = "branchFalse"]
    <2>1. /\ Is("branchTrue") /\ blocks' = Joined(blocks, t.yes, t.end)
          /\ activeBlock' = t.no /\ Then(<<a, b>>) /\ UNCHANGED <<status, val, points, scope>>
      BY <1>4 DEF BranchTrue
    <2>2. /\ t \in Task /\ t.do = "branchTrue" /\ Sound(t, n)
          /\ GoodCode(blocks) /\ n \in Nat /\ activeBlock \in 1 .. n
      BY <2>1, RunningFacts
    <2>3. t.node \in Statement /\ t.node.kind = "if" /\ {t.no, t.end} \subseteq 1 .. n
      BY <2>2, TaskFields DEF Sound, OfKind, PendingOf
    <2>4. GoodCode(blocks') /\ Len(blocks') = n
      BY <2>1, <2>2, <2>3, GoodJoined
    <2>5. Sound(a, n) /\ Sound(b, n)
      BY <2>2, <2>3, SyntaxAssumption, StmtSound, SoundChanges
    <2> HIDE DEF a, b, t
    <2>6. /\ Sound(a, Len(blocks')) /\ Sound(b, Len(blocks'))
          /\ activeBlock' \in 1 .. Len(blocks') /\ Len(blocks) <= Len(blocks')
      BY <2>1, <2>2, <2>3, <2>4, <2>5
    <2>7. QED  BY <2>1, <2>4, <2>6, MoveEnterTyped
  <1>5. CASE BranchFalse
    <2>1. /\ Is("branchFalse") /\ blocks' = Joined(blocks, t.no, t.end)
          /\ activeBlock' = t.end /\ Then(<<>>) /\ UNCHANGED <<status, val, points, scope>>
      BY <1>5 DEF BranchFalse
    <2>2. /\ todo # <<>> /\ t.do = "branchFalse" /\ Sound(t, n)
          /\ GoodCode(blocks) /\ n \in Nat /\ activeBlock \in 1 .. n
          /\ val' \in Value \union {NoValue}
          /\ scope \in Seq([Name -> Symbol \union {NoSymbol}]) /\ scope # <<>>
          /\ {breakPoint, continuePoint} \subseteq (1 .. n) \union Uninit
      BY <2>1, RunningFacts
    <2>3. t.end \in 1 .. n
      BY <2>2 DEF Sound, PendingOf
    <2>4. GoodCode(blocks') /\ Len(blocks') = n
      BY <2>1, <2>2, <2>3, GoodJoined
    <2>5. /\ activeBlock' \in 1 .. Len(blocks') /\ Len(blocks) <= Len(blocks')
          /\ {breakPoint', continuePoint'} \subseteq (1 .. Len(blocks')) \union Uninit
          /\ scope' \in Seq([Name -> Symbol \union {NoSymbol}]) /\ scope' # <<>>
      BY <2>1, <2>2, <2>3, <2>4 DEF points
    <2>6. QED  BY <2>1, <2>2, <2>4, <2>5, ReturnTyped
  <1>6. QED  BY <1>1, <1>2, <1>3, <1>4, <1>5

LEMMA LoopTyped == Typed /\ (EncodeLoop \/ LoopCond \/ LoopBody \/ LoopStep \/ EndLoop) => Typed'
  <1> SUFFICES ASSUME Typed, EncodeLoop \/ LoopCond \/ LoopBody \/ LoopStep \/ EndLoop PROVE Typed'
    OBVIOUS
  <1> DEFINE t == Head(todo)
             n == Len(blocks)
  <1>1. CASE EncodeLoop
    <2> DEFINE a == Stmt(Node.init)
               b == [do |-> "loopCond", node |-> Node, cond |-> n + 1,
                     step |-> n + 2, body |-> n + 3, end |-> n + 4,
                     oldContinue |-> continuePoint, oldBreak |-> breakPoint]
    <2>1. /\ Is("stmt") /\ Node.kind = "loop" /\ Then(<<a, b>>) /\ blocks' = Created(blocks, 4)
          /\ PushScope /\ continuePoint' = n + 2 /\ breakPoint' = n + 4
          /\ UNCHANGED <<status, val, activeBlock>>
      BY <1>1 DEF EncodeLoop, IsStmt, Node
    <2>2. /\ Node \in Statement /\ GoodCode(blocks) /\ n \in Nat /\ activeBlock \in 1 .. n
          /\ todo # <<>> /\ val' \in Value \union {NoValue}
          /\ scope \in Seq([Name -> Symbol \union {NoSymbol}]) /\ scope # <<>>
          /\ {breakPoint, continuePoint} \subseteq (1 .. n) \union Uninit
      BY <2>1, RunningFacts, TaskFields DEF Node
    <2>3. GoodCode(blocks') /\ Len(blocks') = n + 4
      BY <2>1, <2>2, GoodCreate
    <2>4. Sound(a, Len(blocks'))
      BY <2>1, <2>2, SyntaxAssumption, StmtSound
    <2>5. Sound(b, Len(blocks'))
      <3>1. breakPoint \in Point /\ continuePoint \in Point
        BY <2>2, PointerAssumption DEF Point
      <3>2. b \in Task
        BY <2>1, <2>2, <3>1 DEF Task, LoopSteps
      <3>3. PendingOf(b) = {n + 1, n + 2, n + 3, n + 4} /\ EnteredOf(b) = {}
        BY DEF PendingOf, EnteredOf
      <3>4. {b.oldBreak, b.oldContinue} \subseteq (1 .. n + 4) \union Uninit
        BY <2>2
      <3>5. PendingOf(b) \union EnteredOf(b) \subseteq 1 .. n + 4
        BY <2>2, <3>3
      <3>6. OfKind(b)
        BY <2>1 DEF OfKind, LoopSteps
      <3> HIDE DEF b
      <3>7. QED  BY <2>3, <3>2, <3>4, <3>5, <3>6 DEF Sound
    <2>6. scope' \in Seq([Name -> Symbol \union {NoSymbol}]) /\ scope' # <<>>
      <3>1. EmptyScope \in [Name -> Symbol \union {NoSymbol}]
        BY DEF EmptyScope
      <3>2. QED  BY <2>1, <2>2, <3>1 DEF PushScope
    <2> HIDE DEF a, b
    <2>7. /\ Len(blocks) <= Len(blocks') /\ activeBlock' \in 1 .. Len(blocks')
          /\ {breakPoint', continuePoint'} \subseteq (1 .. Len(blocks')) \union Uninit
      BY <2>1, <2>2, <2>3
    <2>8. QED  BY <2>1, <2>2, <2>3, <2>4, <2>5, <2>6, <2>7, EnterTyped
  <1>2. CASE Fail
    BY <1>2, HaltTyped
  <1>3. CASE LoopCond
    <2> DEFINE a == Expr(t.node.cond)
               b == [t EXCEPT !.do = "loopBody"]
    <2>1. /\ Is("loopCond") /\ blocks' = Emitted(blocks, activeBlock, <<Br(t.cond)>>)
          /\ activeBlock' = t.cond /\ Then(<<a, b>>) /\ UNCHANGED <<status, val, points, scope>>
      BY <1>3 DEF LoopCond
    <2>2. /\ t \in Task /\ t.do = "loopCond" /\ Sound(t, n)
          /\ GoodCode(blocks) /\ n \in Nat /\ activeBlock \in 1 .. n
      BY <2>1, RunningFacts
    <2>3. t.node \in Statement /\ t.node.kind = "loop" /\ t.cond \in 1 .. n
      BY <2>2, TaskFields DEF Sound, OfKind, PendingOf, LoopSteps
    <2>4. GoodSeq(<<Br(t.cond)>>, n)
      BY <2>2, <2>3, GoodInstructions
    <2>5. GoodCode(blocks') /\ Len(blocks') = n
      BY <2>1, <2>2, <2>4, GoodEmit
    <2>6. Sound(a, n) /\ Sound(b, n)
      BY <2>2, <2>3, SyntaxAssumption, ExprSound, SoundChanges
    <2> HIDE DEF a, b, t
    <2>7. /\ Sound(a, Len(blocks')) /\ Sound(b, Len(blocks'))
          /\ activeBlock' \in 1 .. Len(blocks') /\ Len(blocks) <= Len(blocks')
      BY <2>1, <2>2, <2>3, <2>5, <2>6
    <2>8. QED  BY <2>1, <2>5, <2>7, MoveEnterTyped
  <1>4. CASE LoopBody /\ ~Fail
    <2> DEFINE a == Stmt(t.node.body)
               b == [t EXCEPT !.do = "loopStep"]
    <2>1. /\ Is("loopBody") /\ val # NoValue
          /\ blocks' = Emitted(blocks, activeBlock, Loads(val) \o <<CondBr(t.body, t.end)>>)
          /\ activeBlock' = t.body /\ Then(<<a, b>>) /\ UNCHANGED <<status, val, points, scope>>
      BY <1>4 DEF LoopBody
    <2>2. /\ t \in Task /\ t.do = "loopBody" /\ Sound(t, n) /\ val \in Value
          /\ GoodCode(blocks) /\ n \in Nat /\ activeBlock \in 1 .. n
      BY <2>1, RunningFacts
    <2>3. t.node \in Statement /\ t.node.kind = "loop" /\ {t.body, t.end} \subseteq 1 .. n
      BY <2>2, TaskFields DEF Sound, OfKind, PendingOf, LoopSteps
    <2>4. GoodSeq(Loads(val), n) /\ GoodSeq(<<CondBr(t.body, t.end)>>, n)
      BY <2>2, <2>3, GoodLoads, GoodInstructions
    <2>5. GoodSeq(Loads(val) \o <<CondBr(t.body, t.end)>>, n)
      BY <2>2, <2>4, GoodConcat
    <2>6. GoodCode(blocks') /\ Len(blocks') = n
      BY <2>1, <2>2, <2>5, GoodEmit
    <2>7. Sound(a, n) /\ Sound(b, n)
      BY <2>2, <2>3, SyntaxAssumption, StmtSound, SoundChanges
    <2> HIDE DEF a, b, t
    <2>8. /\ Sound(a, Len(blocks')) /\ Sound(b, Len(blocks'))
          /\ activeBlock' \in 1 .. Len(blocks') /\ Len(blocks) <= Len(blocks')
      BY <2>1, <2>2, <2>3, <2>6, <2>7
    <2>9. QED  BY <2>1, <2>6, <2>8, MoveEnterTyped
  <1>5. CASE LoopStep
    <2> DEFINE a == Stmt(t.node.step)
               b == [t EXCEPT !.do = "endLoop"]
    <2>1. /\ Is("loopStep") /\ blocks' = Joined(blocks, t.body, t.step)
          /\ activeBlock' = t.step /\ Then(<<a, b>>) /\ UNCHANGED <<status, val, points, scope>>
      BY <1>5 DEF LoopStep
    <2>2. /\ t \in Task /\ t.do = "loopStep" /\ Sound(t, n)
          /\ GoodCode(blocks) /\ n \in Nat /\ activeBlock \in 1 .. n
      BY <2>1, RunningFacts
    <2>3. t.node \in Statement /\ t.node.kind = "loop" /\ t.step \in 1 .. n
      BY <2>2, TaskFields DEF Sound, OfKind, PendingOf, LoopSteps
    <2>4. GoodCode(blocks') /\ Len(blocks') = n
      BY <2>1, <2>2, <2>3, GoodJoined
    <2>5. Sound(a, n) /\ Sound(b, n)
      BY <2>2, <2>3, SyntaxAssumption, StmtSound, SoundChanges
    <2> HIDE DEF a, b, t
    <2>6. /\ Sound(a, Len(blocks')) /\ Sound(b, Len(blocks'))
          /\ activeBlock' \in 1 .. Len(blocks') /\ Len(blocks) <= Len(blocks')
      BY <2>1, <2>2, <2>3, <2>4, <2>5
    <2>7. QED  BY <2>1, <2>4, <2>6, MoveEnterTyped
  <1>6. CASE EndLoop
    <2>1. /\ Is("endLoop") /\ blocks' = Emitted(blocks, activeBlock, <<Br(t.cond)>>)
          /\ activeBlock' = t.end /\ Then(<<>>) /\ UNCHANGED <<status, val>>
          /\ scope' = PoppedScope /\ continuePoint' = t.oldContinue /\ breakPoint' = t.oldBreak
      BY <1>6 DEF EndLoop, RestorePoints
    <2>2. /\ todo # <<>> /\ t.do = "endLoop" /\ Sound(t, n)
          /\ GoodCode(blocks) /\ n \in Nat /\ activeBlock \in 1 .. n
          /\ val' \in Value \union {NoValue}
          /\ scope \in Seq([Name -> Symbol \union {NoSymbol}]) /\ scope # <<>>
      BY <2>1, RunningFacts
    <2>3. t.end \in 1 .. n /\ t.cond \in 1 .. n
      BY <2>2 DEF Sound, PendingOf, EnteredOf
    <2>4. GoodSeq(<<Br(t.cond)>>, n)
      BY <2>2, <2>3, GoodInstructions
    <2>5. GoodCode(blocks') /\ Len(blocks') = n
      BY <2>1, <2>2, <2>4, GoodEmit
    <2>6. scope' \in Seq([Name -> Symbol \union {NoSymbol}]) /\ scope' # <<>>
      BY <2>1, <2>2, PoppedType
    <2>7. {t.oldBreak, t.oldContinue} \subseteq (1 .. n) \union Uninit
      BY <2>2 DEF Sound, LoopSteps
    <2>8. /\ activeBlock' \in 1 .. Len(blocks') /\ Len(blocks) <= Len(blocks')
          /\ {breakPoint', continuePoint'} \subseteq (1 .. Len(blocks')) \union Uninit
      BY <2>1, <2>2, <2>3, <2>5, <2>7
    <2>9. QED  BY <2>1, <2>2, <2>5, <2>6, <2>8, ReturnTyped
  <1>7. QED  BY <1>1, <1>2, <1>3, <1>4, <1>5, <1>6

-------------------------------------------------------------------------------
(* The module.                                                               *)

LEMMA FinishTyped == Typed /\ FinishModule => Typed'
  <1> SUFFICES ASSUME Typed, FinishModule PROVE Typed'
    OBVIOUS
  <1>1. Parts
    BY TypedParts
  <1>2. CASE Crash
    BY <1>2, HaltTyped
  <1>3. CASE ~Crash
    <2>1. /\ \/ blocks' = blocks
             \/ blocks' = Emitted(blocks, activeBlock, <<Ret>>)
          /\ scope' = PoppedScope /\ status' = "done"
          /\ UNCHANGED <<prog, todo, val, points, activeBlock>>
      BY <1>3 DEF FinishModule
    <2>2. Len(blocks) \in Nat
      BY <1>1 DEF Parts, GoodCode, Code
    <2>3. GoodCode(blocks') /\ Len(blocks') = Len(blocks)
      BY <1>1, <2>1, <2>2, GoodInstructions, GoodEmit DEF Parts
    <2>4. scope' \in Seq([Name -> Symbol \union {NoSymbol}]) /\ scope' # <<>>
      BY <1>1, <2>1, PoppedType DEF Parts
    <2>5. Parts'
      BY <1>1, <2>1, <2>3, <2>4 DEF Parts, points
    <2>6. QED  BY <2>5, TypedParts, PTL
  <1>4. QED  BY <1>2, <1>3

LEMMA InitTyped == Init => Typed
  <1> SUFFICES ASSUME Init PROVE Parts
    BY TypedParts
  <1>1. prog \in Seq(Statement)
    BY SyntaxAssumption DEF Init
  <1>2. \A i \in DOMAIN prog : Sound(Stmt(prog[i]), Len(blocks))
    BY <1>1, StmtSound
  <1>3. todo \in Seq(Task) /\ \A i \in DOMAIN todo : Sound(todo[i], Len(blocks))
    <2>1. Len(prog) \in Nat /\ DOMAIN prog = 1 .. Len(prog)
      BY <1>1
    <2>2. todo = [i \in DOMAIN prog |-> Stmt(prog[i])]
      BY DEF Init
    <2>3. todo \in [1 .. Len(prog) -> Task]
      BY <1>2, <2>1, <2>2 DEF Sound
    <2>4. QED  BY <1>2, <2>1, <2>2, <2>3
  <1>4. GoodCode(blocks) /\ Len(blocks) = 1
    <2>1. blocks = << <<>> >>
      BY DEF Init
    <2>2. GoodSeq(<<>>, 1)
      BY GoodInstructions
    <2>3. blocks \in Code /\ Len(blocks) = 1 /\ blocks[1] = <<>>
      BY <2>1 DEF Code
    <2>4. QED  BY <2>2, <2>3 DEF GoodCode
  <1>5. scope \in Seq([Name -> Symbol \union {NoSymbol}]) /\ scope # <<>>
    <2>1. EmptyScope \in [Name -> Symbol \union {NoSymbol}]
      BY DEF EmptyScope
    <2>2. QED  BY <2>1 DEF Init
  <1>6. QED  BY <1>3, <1>4, <1>5 DEF Init, Parts

LEMMA NextTyped == Typed /\ [Next]_vars => Typed'
  <1>1. Typed /\ UNCHANGED vars => Typed'
    <2> SUFFICES ASSUME Typed, UNCHANGED vars PROVE Parts'
      BY TypedParts, PTL
    <2>1. Parts
      BY TypedParts
    <2>2. QED  BY <2>1 DEF vars, Parts
  <1>2. Typed /\ EncodeStmt => Typed'
    BY SimpleTyped, DefineTyped, AssignTyped, ReturnStmtTyped, JumpTyped, BlockTyped, IfTyped,
       LoopTyped DEF EncodeStmt
  <1>3. QED  BY <1>1, <1>2, ExprTyped, FinishTyped DEF Next, Terminating

(* Whatever the program, the encoder's state keeps its types. *)
THEOREM TypeCorrect == Spec => []TypeOK
  <1>1. Typed => TypeOK
    BY DEF Typed
  <1>2. QED  BY <1>1, InitTyped, NextTyped, PTL DEF Spec

(* The insertion point, the tasks, the points of break and continue and the    *)
(* jumps name only blocks that create_block has made in this function.         *)
THEOREM NothingDangles == Spec => []NoDangling
  <1>1. Typed => NoDangling
    BY DEF Typed
  <1>2. QED  BY <1>1, InitTyped, NextTyped, PTL DEF Spec

=============================================================================
