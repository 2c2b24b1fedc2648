----------------------------- MODULE Driver_proofs -----------------------------
(***************************************************************************)
(* For any names, types and number of commands: the driver is a client the *)
(* engine can rely on, and under any such client each module has one holder *)
(* and is deleted once, before its context; the engine implements Custody. *)
(***************************************************************************)
EXTENDS DriverProps, TLAPS

Module == [name : Name,
           life : {"encoding", "loaded", "failed", "dropped"},
           types : SUBSET BasicType,
           deletions : Nat,
           executors : Nat]

\* The engine's part of TypeOK.
EngineOK ==
    /\ DOMAIN registry \subseteq Name
    /\ registry \in [DOMAIN registry -> DOMAIN modules]
    /\ modules \in Seq(Module)
    /\ loading \in {NoModule} \union DOMAIN modules
    /\ result \in {NoModule} \union DOMAIN modules
    /\ statics \in [BasicType -> {NoModule} \union DOMAIN modules]
    /\ handedOut \subseteq BasicType
    /\ bridge \in {"up", "closing", "down"}

\* A module lives as long as it was not deleted, and one that was loaded as long
\* as the engine is up.
Lives ==
    \A m \in DOMAIN modules :
        /\ modules[m].deletions = 0 <=> modules[m].life \in {"encoding", "loaded"}
        /\ modules[m].life = "dropped" => bridge # "up"

\* The engine ends between two calls, and its bridge after its table.
Ends ==
    /\ loading # NoModule => bridge = "up"
    /\ bridge = "down" => DOMAIN registry = {}

\* The name of the module being encoded stays free until it is added.
NameFree == loading # NoModule => modules[loading].name \notin DOMAIN registry

\* What is being encoded has not ended.
Encodes == loading # NoModule => modules[loading].life = "encoding"

\* What every step keeps.
EInv ==
    /\ EngineOK /\ ModulesOwned /\ DeletedOnce /\ Lives /\ Ends
    /\ StaleNeedsFailure /\ NameFree /\ Encodes

USE DEF NoModule

-------------------------------------------------------------------------------
(* The modules are numbered from one on.                                      *)
LEMMA Numbers ==
    ASSUME EngineOK
    PROVE  /\ DOMAIN modules = 1 .. Len(modules) /\ Len(modules) \in Nat
           /\ \A m \in DOMAIN modules : modules[m] \in Module /\ m # 0
           /\ \A n \in DOMAIN registry : registry[n] \in DOMAIN modules
  BY DEF EngineOK

(* They still are after a step that keeps them so.                            *)
LEMMA NumbersNext ==
    ASSUME EngineOK'
    PROVE  /\ DOMAIN modules' = 1 .. Len(modules') /\ Len(modules') \in Nat
           /\ \A m \in DOMAIN modules' : modules'[m] \in Module /\ m # 0
           /\ \A n \in DOMAIN registry' : registry'[n] \in DOMAIN modules'
  BY DEF EngineOK

(* An engine without modules.                                                 *)
LEMMA EngineStarts == EngineInit => EInv
  BY DEF EngineInit, EInv, EngineOK, ModulesOwned, DeletedOnce, Lives, Ends, StaleNeedsFailure, NameFree, Encodes, Range

LEMMA StutterKeeps == ASSUME EInv, UNCHANGED engine PROVE EInv'
  <1>1. EngineOK'
    BY DEF EInv, EngineOK, engine
  <1> QED
    BY <1>1 DEF EInv, engine, ModulesOwned, DeletedOnce, Lives, Ends, StaleNeedsFailure, NameFree, Encodes, Range

(* Construction adds a module that is loading and whose name is free.         *)
LEMMA LoadKeeps == ASSUME EInv, NEW n \in Name, LoadModule(n) PROVE EInv'
  <1>1. CASE n \in DOMAIN registry
    BY <1>1 DEF LoadModule, EInv, EngineOK, ModulesOwned, DeletedOnce, Lives, Ends, StaleNeedsFailure, NameFree, Encodes, Range
  <1>2. CASE n \notin DOMAIN registry
    <2>1. /\ modules' = Append(modules, Fresh(n)) /\ loading' = Len(modules) + 1
          /\ loading = 0 /\ bridge = "up"
          /\ UNCHANGED <<registry, result, statics, handedOut, bridge>>
      BY <1>2 DEF LoadModule
    <2>2. Fresh(n) \in Module /\ Fresh(n).deletions = 0 /\ Fresh(n).life = "encoding" /\ Fresh(n).name = n
      BY DEF Fresh, Module
    <2>3. /\ modules' \in Seq(Module)
          /\ DOMAIN modules' = DOMAIN modules \union {loading'}
          /\ loading' \notin DOMAIN modules /\ loading' # 0
          /\ modules'[loading'] = Fresh(n)
          /\ \A m \in DOMAIN modules : modules'[m] = modules[m]
      BY <2>1, <2>2, Numbers DEF EInv, EngineOK
    <2>4. EngineOK'
      BY <2>1, <2>3 DEF EInv, EngineOK
    <2>5. ModulesOwned'
      BY <2>1, <2>2, <2>3, Numbers DEF EInv, ModulesOwned, Range
    <2> QED
      BY <1>2, <2>1, <2>2, <2>3, <2>4, <2>5 DEF EInv, DeletedOnce, Lives, Ends, StaleNeedsFailure, NameFree, Encodes
  <1> QED
    BY <1>1, <1>2

(* Asking for types changes nothing but the types.                            *)
LEMMA TypesKeep == ASSUME EInv, NEW t \in BasicType, WrapType(t) \/ AskType(t) PROVE EInv'
  <1>1. /\ loading # 0 /\ bridge = "up"
        /\ UNCHANGED <<registry, loading, result, bridge>>
    BY DEF WrapType, AskType, EInv, Ends
  <1>2. CASE modules' = [modules EXCEPT ![loading].types = @ \union {t}] /\ UNCHANGED handedOut
    <2>1. modules[loading] \in Module
      BY <1>1, Numbers DEF EInv, EngineOK
    <2> DEFINE x == [modules[loading] EXCEPT !.types = @ \union {t}]
    <2>2. /\ x \in Module /\ x.deletions = modules[loading].deletions
          /\ x.life = modules[loading].life /\ x.name = modules[loading].name
      BY <2>1 DEF Module
    <2>7. modules' = [modules EXCEPT ![loading] = x] /\ loading \in DOMAIN modules
      BY <1>1, <1>2 DEF EInv, EngineOK
    <2>3. /\ modules' \in Seq(Module) /\ DOMAIN modules' = DOMAIN modules
          /\ \A m \in DOMAIN modules : /\ modules'[m].deletions = modules[m].deletions
                                       /\ modules'[m].life = modules[m].life
                                       /\ modules'[m].name = modules[m].name
      <3> HIDE DEF x
      <3> QED
        BY <2>2, <2>7 DEF EInv, EngineOK
    <2>4. statics' \in [BasicType -> {0} \union DOMAIN modules]
      BY <1>1 DEF WrapType, AskType, EInv, EngineOK
    <2>5. EngineOK'
      BY <1>1, <1>2, <2>3, <2>4 DEF EInv, EngineOK
    <2>6. ModulesOwned'
      BY <1>1, <2>3, Numbers DEF EInv, ModulesOwned, Range
    <2> QED
      BY <1>1, <1>2, <2>3, <2>5, <2>6 DEF EInv, DeletedOnce, Lives, Ends, StaleNeedsFailure, NameFree, Encodes
  <1>3. CASE /\ UNCHANGED <<modules, statics>> /\ statics[t] # 0
             /\ handedOut' = IF Dangles(t) THEN handedOut \union {t} ELSE handedOut
    <2>1. EngineOK'
      BY <1>1, <1>3 DEF EInv, EngineOK
    <2>2. StaleNeedsFailure'
      <3>1. CASE ~ Dangles(t)
        BY <1>1, <1>3, <3>1 DEF EInv, StaleNeedsFailure
      <3>2. CASE Dangles(t)
        <4>1. statics[t] \in DOMAIN modules /\ modules[statics[t]].deletions > 0
          BY <1>3, <3>2 DEF Dangles, EInv, EngineOK
        <4>2. modules[statics[t]].life = "failed"
          BY <1>1, <4>1, Numbers DEF EInv, Lives, Module
        <4> QED
          BY <1>3, <4>1, <4>2 DEF StaleNeedsFailure
      <3> QED
        BY <3>1, <3>2
    <2> QED
      BY <1>1, <1>3, <2>1, <2>2 DEF EInv, ModulesOwned, DeletedOnce, Lives, Ends, NameFree, Encodes, Range
  <1> QED
    BY <1>2, <1>3 DEF WrapType, AskType

(* A module that was not deleted, once it is.                                 *)
LEMMA DeletionCounts ==
    ASSUME EngineOK, NEW m \in DOMAIN modules, modules[m].deletions = 0, NEW l \in {"failed", "dropped"},
           modules' = [modules EXCEPT ![m] = Deleted(m, l)]
    PROVE  /\ modules' \in Seq(Module) /\ DOMAIN modules' = DOMAIN modules
           /\ modules'[m].deletions = 1 /\ modules'[m].life = l /\ modules'[m].name = modules[m].name
           /\ \A k \in DOMAIN modules \ {m} : modules'[k] = modules[k]
  <1>1. modules[m] \in Module
    BY Numbers
  <1>2. Deleted(m, l) = [[modules[m] EXCEPT !.life = l] EXCEPT !.deletions = modules[m].deletions + 1]
    BY <1>1 DEF Deleted, Module
  <1> DEFINE x == [modules[m] EXCEPT !.life = l]
  <1>3. x \in Module /\ x.deletions = modules[m].deletions /\ x.life = l /\ x.name = modules[m].name
    BY <1>1 DEF Module
  <1> HIDE DEF x
  <1>4. [x EXCEPT !.deletions = modules[m].deletions + 1] \in Module
    BY <1>3 DEF Module
  <1>5. /\ Deleted(m, l) \in Module /\ Deleted(m, l).deletions = 1 /\ Deleted(m, l).life = l
        /\ Deleted(m, l).name = modules[m].name
    BY <1>1, <1>2, <1>3, <1>4 DEF Module, x
  <1> QED
    BY <1>5 DEF EngineOK

(* A failed encoding deletes its module, which nothing else holds.            *)
LEMMA FailKeeps == ASSUME EInv, EncodeFails PROVE EInv'
  <1>1. /\ loading \in DOMAIN modules /\ modules[loading].deletions = 0 /\ bridge = "up"
        /\ loading \notin Range(registry)
    BY DEF EncodeFails, EInv, EngineOK, ModulesOwned, Ends
  <1>2. /\ modules' \in Seq(Module) /\ DOMAIN modules' = DOMAIN modules
        /\ modules'[loading].deletions = 1 /\ modules'[loading].life = "failed"
        /\ \A k \in DOMAIN modules \ {loading} : modules'[k] = modules[k]
    BY <1>1, DeletionCounts DEF EncodeFails, EInv
  <1>3. loading' = 0 /\ result' = 0 /\ UNCHANGED <<registry, statics, handedOut, bridge>>
    BY DEF EncodeFails
  <1>4. EngineOK'
    BY <1>2, <1>3 DEF EInv, EngineOK
  <1>5. ModulesOwned'
    BY <1>1, <1>2, <1>3, Numbers DEF EInv, ModulesOwned, Range
  <1> QED
    BY <1>1, <1>2, <1>3, <1>4, <1>5 DEF EInv, DeletedOnce, Lives, Ends, StaleNeedsFailure, NameFree, Encodes

(* A successful one hands it to the table: the name is free, for the table is *)
(* asked before a module is made and nothing is added while it is encoded.    *)
LEMMA SucceedKeeps ==
    ASSUME EInv, EncodeSucceeds
    PROVE  EInv' /\ result' = loading /\ registry'[modules[loading].name] = loading
  <1> DEFINE n == modules[loading].name
  <1>1. /\ loading \in DOMAIN modules /\ modules[loading] \in Module /\ modules[loading].deletions = 0
        /\ loading \notin Range(registry) /\ bridge = "up" /\ n \in Name /\ n \notin DOMAIN registry
    BY Numbers DEF EncodeSucceeds, EInv, EngineOK, ModulesOwned, Ends, NameFree, Module
  <1>2. /\ DOMAIN registry' = DOMAIN registry \union {n} /\ registry'[n] = loading
        /\ \A k \in DOMAIN registry : registry'[k] = registry[k]
        /\ result' = loading /\ loading' = 0 /\ UNCHANGED <<statics, handedOut, bridge>>
        /\ registry' \in [DOMAIN registry' -> DOMAIN modules]
    BY <1>1, Numbers DEF EncodeSucceeds, Added, EInv
  <1> DEFINE x == [modules[loading] EXCEPT !.life = "loaded"]
  <1>3. x \in Module /\ x.deletions = 0 /\ x.life = "loaded" /\ x.name = n
    BY <1>1 DEF Module
  <1>4. modules' = [modules EXCEPT ![loading] = x]
    BY DEF EncodeSucceeds
  <1>5. /\ modules' \in Seq(Module) /\ DOMAIN modules' = DOMAIN modules /\ modules'[loading] = x
        /\ \A m \in DOMAIN modules \ {loading} : modules'[m] = modules[m]
    <2> HIDE DEF x
    <2> QED
      BY <1>1, <1>3, <1>4 DEF EInv, EngineOK
  <1> HIDE DEF x, n
  <1>6. EngineOK'
    BY <1>1, <1>2, <1>5 DEF EInv, EngineOK
  <1>7. ModulesOwned'
    BY <1>1, <1>2, <1>3, <1>5, Numbers DEF EInv, ModulesOwned, Range
  <1>8. StaleNeedsFailure'
    BY <1>1, <1>2, <1>5, Numbers DEF EInv, StaleNeedsFailure, Encodes
  <1> QED
    BY <1>1, <1>2, <1>3, <1>5, <1>6, <1>7, <1>8 DEF EInv, DeletedOnce, Lives, Ends, NameFree, Encodes, n

(* jit and aot delete nothing.                                                *)
LEMMA EmitKeeps == ASSUME EInv, NEW m \in DOMAIN modules, Jit(m) \/ Aot(m) PROVE EInv'
  <1>1. CASE Jit(m)
    <2> DEFINE x == [modules[m] EXCEPT !.executors = @ + 1]
    <2>1. modules[m] \in Module
      BY Numbers DEF EInv
    <2>2. /\ x \in Module /\ x.deletions = modules[m].deletions
          /\ x.life = modules[m].life /\ x.name = modules[m].name
      BY <2>1 DEF Module
    <2>3. modules' = [modules EXCEPT ![m] = x] /\ UNCHANGED <<registry, loading, result, statics, handedOut, bridge>>
      BY <1>1 DEF Jit
    <2> HIDE DEF x
    <2>4. /\ modules' \in Seq(Module) /\ DOMAIN modules' = DOMAIN modules
          /\ \A k \in DOMAIN modules : /\ modules'[k].deletions = modules[k].deletions
                                       /\ modules'[k].life = modules[k].life
                                       /\ modules'[k].name = modules[k].name
      BY <2>2, <2>3 DEF EInv, EngineOK
    <2>5. EngineOK'
      BY <2>3, <2>4 DEF EInv, EngineOK
    <2>6. ModulesOwned'
      BY <2>3, <2>4, Numbers DEF EInv, ModulesOwned, Range
    <2>7. NameFree' /\ Encodes'
      BY <2>3, <2>4 DEF EInv, EngineOK, NameFree, Encodes
    <2> QED
      BY <2>3, <2>4, <2>5, <2>6, <2>7 DEF EInv, DeletedOnce, Lives, Ends, StaleNeedsFailure
  <1>2. CASE Aot(m)
    BY <1>2, StutterKeeps DEF Aot
  <1> QED
    BY <1>1, <1>2

(* The destructor deletes what the table holds, which nothing else does.      *)
LEMMA DropKeeps ==
    ASSUME EInv, NEW n \in Name, DropModule(n)
    PROVE  EInv' /\ registry[n] \notin Range(registry') /\ modules'[registry[n]].deletions = 1
  <1> DEFINE m == registry[n]
  <1>1. /\ n \in DOMAIN registry /\ bridge = "closing" /\ loading = 0
        /\ m \in DOMAIN modules /\ modules[m].deletions = 0
        /\ \A k \in DOMAIN registry \ {n} : registry[k] # m
    BY Numbers DEF DropModule, EInv, ModulesOwned, Ends, Range
  <1>2. /\ modules' \in Seq(Module) /\ DOMAIN modules' = DOMAIN modules
        /\ modules'[m].deletions = 1 /\ modules'[m].life = "dropped" /\ modules'[m].name = modules[m].name
        /\ \A k \in DOMAIN modules \ {m} : modules'[k] = modules[k]
    <2>1. modules' = [modules EXCEPT ![m] = Deleted(m, "dropped")]
      BY DEF DropModule
    <2> HIDE DEF m
    <2> QED
      BY <1>1, <2>1, DeletionCounts DEF EInv
  <1>3. /\ DOMAIN registry' = DOMAIN registry \ {n}
        /\ \A k \in DOMAIN registry' : registry'[k] = registry[k]
        /\ registry' \in [DOMAIN registry' -> DOMAIN modules]
        /\ UNCHANGED <<loading, result, statics, handedOut, bridge>>
    BY <1>1, Numbers DEF DropModule, Restrict, EInv
  <1> HIDE DEF m
  <1>4. EngineOK'
    BY <1>2, <1>3 DEF EInv, EngineOK
  <1>5. m \notin Range(registry')
    BY <1>1, <1>3 DEF Range
  <1>6. ModulesOwned'
    <2>1. ASSUME NEW k \in DOMAIN modules, k # m PROVE k \in Range(registry) <=> k \in Range(registry')
      BY <2>1, <1>1, <1>3 DEF Range, m
    <2>2. \A k \in DOMAIN registry' : modules'[registry'[k]].name = k
      BY <1>1, <1>2, <1>3, Numbers DEF EInv, ModulesOwned
    <2>3. loading' \notin Range(registry')
      BY <1>1, <1>3, Numbers DEF EInv, Range
    <2>4. ASSUME NEW k \in DOMAIN modules
          PROVE  modules'[k].deletions = 0 <=> k = loading' \/ k \in Range(registry')
      BY <1>1, <1>2, <1>3, <1>5, <2>1, Numbers DEF EInv, ModulesOwned
    <2> QED
      BY <1>2, <2>2, <2>3, <2>4 DEF ModulesOwned
  <1>7. StaleNeedsFailure'
    BY <1>1, <1>2, <1>3 DEF EInv, StaleNeedsFailure, Lives
  <1> QED
    BY <1>1, <1>2, <1>3, <1>4, <1>5, <1>6, <1>7 DEF EInv, DeletedOnce, Lives, Ends, NameFree, Encodes, m

(* The rest of the end.                                                       *)
LEMMA EndKeeps == ASSUME EInv, Quit \/ QuitBridge PROVE EInv'
  <1>1. UNCHANGED <<registry, modules, loading, result, statics, handedOut>>
    BY DEF Quit, QuitBridge
  <1>2. /\ bridge' \in {"closing", "down"} /\ bridge # "down"
        /\ bridge' = "down" => DOMAIN registry = {}
        /\ loading = 0
    BY DEF Quit, QuitBridge, EInv, Ends
  <1>3. EngineOK'
    BY <1>1, <1>2 DEF EInv, EngineOK
  <1> QED
    BY <1>1, <1>2, <1>3 DEF EInv, ModulesOwned, DeletedOnce, Lives, Ends, StaleNeedsFailure, NameFree, Encodes, Range

LEMMA EngineKeeps == EInv /\ [EngineNext]_engine => EInv'
  <1> SUFFICES ASSUME EInv, [EngineNext]_engine PROVE EInv'
    OBVIOUS
  <1>1. ASSUME NEW m \in Range(registry), Jit(m) \/ Aot(m) PROVE EInv'
    <2>1. m \in DOMAIN modules
      BY Numbers DEF EInv, Range
    <2> QED
      BY <1>1, <2>1, EmitKeeps
  <1>2. CASE Loading
    BY <1>2, TypesKeep, FailKeeps, SucceedKeeps DEF Loading
  <1>3. CASE Quit \/ Closing
    BY <1>3, DropKeeps, EndKeeps DEF Closing
  <1>4. CASE UNCHANGED engine
    BY <1>4, StutterKeeps
  <1> QED
    BY <1>1, <1>2, <1>3, <1>4, LoadKeeps DEF EngineNext

-------------------------------------------------------------------------------
(* What is true of the driver between its steps.                              *)
DInv ==
    /\ pc \in {"idle", "open", "parse", "encode", "encoding", "encoded", "emit", "thrown", "exit"}
    /\ command \in Command /\ commands \in 0 .. MaxCommands
    /\ tree \in {"none", "built", "freed"} /\ out \in {"closed", "open"}
    /\ printed \in {"nothing", "error", "module"}
    /\ pc # "exit" => bridge = "up"
    /\ pc = "encoding" <=> loading # NoModule
    /\ pc \in {"encode", "encoding"} => tree = "built"
    /\ pc = "encoded" /\ result # NoModule => result \in Range(registry)
    /\ pc = "emit" => result \in Range(registry)

LEMMA DriverStarts == Init => EInv /\ DInv
  BY EngineStarts, MaxCommandsAssumption DEF Init, EngineInit, DInv, Command

(* The end of a command frees the tree and closes the file.                   *)
LEMMA ReturnKeeps ==
    ASSUME DInv, Return, pc \notin {"encoding", "exit"}, UNCHANGED <<loading, bridge, command, commands>>,
           printed' \in {"nothing", "error", "module"}
    PROVE  DInv'
  BY DEF DInv, Return

(* Every step of the driver leaves the engine alone or is one call of it, and *)
(* jit gets a module from the table.                                          *)
LEMMA DriverSteps == EInv /\ DInv /\ [Next]_vars => [EngineNext]_engine /\ DInv'
  <1> SUFFICES ASSUME EInv, DInv, [Next]_vars PROVE [EngineNext]_engine /\ DInv'
    OBVIOUS
  <1>1. CASE Begin
    BY <1>1, MaxCommandsAssumption DEF Begin, DInv, engine
  <1>2. CASE OpenFile
    <2>1. CASE Return
      BY <1>2, <2>1, ReturnKeeps DEF OpenFile, engine, DInv
    <2>2. CASE pc' = "parse" /\ tree' = "none" /\ out' = out
      BY <1>2, <2>2 DEF OpenFile, engine, DInv
    <2> QED
      BY <1>2, <2>1, <2>2 DEF OpenFile
  <1>3. CASE Parse
    <2>1. CASE Return /\ printed' = "error"
      BY <1>3, <2>1, ReturnKeeps DEF Parse, engine, DInv
    <2>2. CASE pc' = "encode" /\ tree' = "built" /\ UNCHANGED <<out, printed>>
      BY <1>3, <2>2 DEF Parse, engine, DInv
    <2> QED
      BY <1>3, <2>1, <2>2 DEF Parse
  <1>4. CASE Encode
    <2>1. PICK n \in Name : LoadModule(n)
      BY <1>4 DEF Encode
    <2>2. loading' # 0 => pc' = "encoding"
      BY <1>4 DEF Encode
    <2>3. loading' = 0 => pc' = "encoded" /\ result' = 0
      BY <1>4, <2>1, Numbers DEF Encode, LoadModule, EInv
    <2>4. bridge' = "up"
      BY <2>1 DEF LoadModule
    <2> QED
      BY <1>4, <2>1, <2>2, <2>3, <2>4 DEF Encode, EngineNext, DInv
  <1>5. CASE Encoding
    <2>1. Loading /\ bridge' = "up"
      BY <1>5 DEF Encoding, Loading, WrapType, AskType, EncodeFails, EncodeSucceeds, DInv
    <2>2. loading' = 0 /\ result' # 0 => result' \in Range(registry')
      <3>1. CASE EncodeSucceeds
        <4>1. modules[loading].name \in DOMAIN registry'
          BY <3>1, Numbers DEF EncodeSucceeds, Added, EInv, NameFree
        <4> QED
          BY <3>1, <4>1, SucceedKeeps DEF Range
      <3> QED
        BY <2>1, <3>1 DEF Loading, WrapType, AskType, EncodeFails
    <2> QED
      BY <1>5, <2>1, <2>2 DEF Encoding, EngineNext, DInv
  <1>6. CASE Encoded
    <2>1. CASE Return /\ UNCHANGED printed
      BY <1>6, <2>1, ReturnKeeps DEF Encoded, engine, DInv
    <2>2. CASE result # NoModule /\ pc' = "emit" /\ out' = "open" /\ printed' = "module" /\ UNCHANGED tree
      BY <1>6, <2>2 DEF Encoded, engine, DInv, Range
    <2> QED
      BY <1>6, <2>1, <2>2 DEF Encoded
  <1>7. CASE Emit
    <2>1. Jit(result) \/ Aot(result)
      BY <1>7 DEF Emit
    <2>2. result \in Range(registry)
      BY <1>7 DEF Emit, DInv
    <2>3. UNCHANGED <<loading, bridge>>
      BY <2>1 DEF Jit, Aot, engine
    <2> QED
      BY <1>7, <2>1, <2>2, <2>3, ReturnKeeps DEF Emit, EngineNext, DInv
  <1>8. CASE Exit
    BY <1>8 DEF Exit, Quit, EngineNext, DInv
  <1>9. CASE Close
    <2>1. loading' = loading
      BY <1>9 DEF Close, Closing, DropModule, QuitBridge
    <2> QED
      BY <1>9, <2>1 DEF Close, EngineNext, DInv, driver
  <1>10. CASE UNCHANGED vars
    BY <1>10 DEF vars, engine, driver, DInv, Range
  <1> QED
    BY <1>1, <1>2, <1>3, <1>4, <1>5, <1>6, <1>7, <1>8, <1>9, <1>10 DEF Next, Terminated

LEMMA DriverKeeps == Spec => [](EInv /\ DInv)
  BY DriverStarts, DriverSteps, EngineKeeps, PTL DEF Spec

-------------------------------------------------------------------------------
(* The driver makes the calls an engine expects, in an order it expects.      *)
THEOREM DriverIsClient == Spec => EngineSpec
  <1>1. Init => EngineInit
    BY DEF Init
  <1> QED
    BY <1>1, DriverKeeps, DriverSteps, PTL DEF Spec, EngineSpec

(* Every variable of the engine and of the driver keeps its type.             *)
THEOREM DriverTypeCorrect == Spec => []TypeOK
  <1>1. EInv /\ DInv => TypeOK
    BY Numbers DEF EInv, EngineOK, DInv, TypeOK, Module
  <1> QED
    BY <1>1, DriverKeeps, PTL

(* No module leaks, whoever calls the engine.                                 *)
THEOREM OwnedAlways == EngineSpec => []ModulesOwned
  BY EngineStarts, EngineKeeps, PTL DEF EngineSpec, EInv

(* No LLVM module is deleted twice.                                           *)
THEOREM DeletedAtMostOnce == EngineSpec => []DeletedOnce
  BY EngineStarts, EngineKeeps, PTL DEF EngineSpec, EInv

(* The context goes last.                                                     *)
THEOREM ContextGoesLast == EngineSpec => []ContextLast
  <1>1. EInv => ContextLast
    <2> SUFFICES ASSUME EInv, bridge = "down", NEW m \in DOMAIN modules PROVE modules[m].deletions = 1
      BY DEF ContextLast
    <2>1. m # loading /\ m \notin Range(registry)
      BY Numbers DEF EInv, Ends, Range
    <2>2. modules[m].deletions # 0 /\ modules[m].deletions <= 1 /\ modules[m].deletions \in Nat
      BY <2>1, Numbers DEF EInv, ModulesOwned, DeletedOnce, Module
    <2> QED
      BY <2>2
  <1> QED
    BY <1>1, EngineStarts, EngineKeeps, PTL DEF EngineSpec

(* A stale type wrapper takes a failed encoding.                              *)
THEOREM StaleTakesFailure == EngineSpec => []StaleNeedsFailure
  BY EngineStarts, EngineKeeps, PTL DEF EngineSpec, EInv

(* The tree lives while it is encoded, and jit and aot get a loaded module.   *)
THEOREM UsesStayAlive == Spec => []UsesAreAlive
  <1>1. EInv /\ DInv => UsesAreAlive
    BY Numbers DEF EInv, ModulesOwned, DInv, UsesAreAlive, Range
  <1> QED
    BY <1>1, DriverKeeps, PTL

(* While the engine is up a name keeps its module.                            *)
THEOREM NamesStay == Spec => NamesAreFinal
  <1>1. EInv /\ [EngineNext]_engine =>
          (bridge = "up" => \A n \in DOMAIN registry : n \in DOMAIN registry' /\ registry'[n] = registry[n])
    <2> SUFFICES ASSUME EInv, [EngineNext]_engine, bridge = "up", NEW n \in DOMAIN registry
                 PROVE  n \in DOMAIN registry' /\ registry'[n] = registry[n]
      OBVIOUS
    <2>1. CASE EncodeSucceeds
      BY <2>1 DEF EncodeSucceeds, Added, EInv, NameFree
    <2>2. CASE UNCHANGED registry
      BY <2>2
    <2> QED
      BY <2>1, <2>2 DEF EngineNext, Loading, LoadModule, WrapType, AskType, EncodeFails, Jit, Aot, Quit,
         Closing, DropModule, QuitBridge, engine
  <1>2. EInv /\ DInv /\ [Next]_vars =>
          [bridge = "up" => \A n \in DOMAIN registry : n \in DOMAIN registry' /\ registry'[n] = registry[n]]_vars
    BY <1>1, DriverSteps
  <1> QED
    BY <1>2, DriverKeeps, PTL DEF Spec, NamesAreFinal

-------------------------------------------------------------------------------
(* The variables of Custody, read off the engine's.                           *)
Names == [m \in DOMAIN modules |-> modules[m].name]
Holders == [m \in DOMAIN modules |-> Holder(m)]

(* A module has exactly one holder, and nobody holds it when it is deleted.   *)
LEMMA HolderIs ==
    ASSUME EInv, NEW m \in DOMAIN modules
    PROVE  /\ m = loading => Holder(m) = "maker"
           /\ m \in Range(registry) => Holder(m) = "table" /\ m # loading
           /\ m # loading /\ m \notin Range(registry) => Holder(m) = "nobody"
  <1>1. m # loading /\ m \notin Range(registry) => modules[m].deletions = 1
    BY Numbers DEF EInv, ModulesOwned, DeletedOnce, Module
  <1> QED
    BY <1>1 DEF Holder, EInv, ModulesOwned

(* The same after a step.                                                     *)
LEMMA HolderIsNext ==
    ASSUME EInv', NEW m \in DOMAIN modules'
    PROVE  /\ m = loading' => Holder(m)' = "maker"
           /\ m \in Range(registry') => Holder(m)' = "table" /\ m # loading'
           /\ m # loading' /\ m \notin Range(registry') => Holder(m)' = "nobody"
  <1>1. m # loading' /\ m \notin Range(registry') => modules'[m].deletions = 1
    BY NumbersNext DEF EInv, ModulesOwned, DeletedOnce, Module
  <1> QED
    BY <1>1 DEF Holder, EInv, ModulesOwned, Range

(* So the names in the table are those taken, with that of the one in the     *)
(* making.                                                                    *)
LEMMA FreeIsFree ==
    ASSUME EInv, loading = 0, NEW n \in Name, n \notin DOMAIN registry
    PROVE  ~ Promise!Taken(n)
  <1> SUFFICES ASSUME NEW m \in DOMAIN modules, Holder(m) # "nobody", modules[m].name = n PROVE FALSE
    BY DEF Promise!Taken
  <1>1. m \in Range(registry)
    BY HolderIs, Numbers DEF EInv
  <1> QED
    BY <1>1 DEF EInv, ModulesOwned, Range

(* A step after which each module has the holder it had.                      *)
LEMMA HoldersStay ==
    ASSUME EInv, EInv', UNCHANGED <<registry, loading>>, DOMAIN modules' = DOMAIN modules,
           \A m \in DOMAIN modules : modules'[m].name = modules[m].name
    PROVE  Names' = Names /\ Holders' = Holders
  <1>1. Names' = Names
    BY DEF Names
  <1>2. ASSUME NEW m \in DOMAIN modules PROVE Holder(m)' = Holder(m)
    BY HolderIs, HolderIsNext DEF Range
  <1> QED
    BY <1>1, <1>2 DEF Holders

(* Construction is Make.                                                      *)
LEMMA LoadMakes ==
    ASSUME EInv, EInv', NEW n \in Name, LoadModule(n), n \notin DOMAIN registry
    PROVE  Promise!Make
  <1>1. /\ modules' = Append(modules, Fresh(n)) /\ loading' = Len(modules) + 1 /\ loading = 0
        /\ UNCHANGED <<registry, bridge>> /\ bridge = "up"
    BY DEF LoadModule
  <1>2. /\ DOMAIN modules' = 1 .. (Len(modules) + 1)
        /\ modules'[Len(modules) + 1] = Fresh(n) /\ Fresh(n).name = n
        /\ \A m \in DOMAIN modules : modules'[m] = modules[m]
    BY <1>1, Numbers DEF EInv, EngineOK, Fresh
  <1>3. \A m \in DOMAIN modules : Holder(m) # "maker"
    BY <1>1, HolderIs, Numbers DEF EInv
  <1>4. Names' = Append(Names, n)
    <2>1. Names = [m \in 1 .. Len(modules) |-> modules[m].name] /\ Len(modules) \in Nat
      BY Numbers DEF EInv, Names
    <2>2. Append(Names, n) = [m \in 1 .. (Len(modules) + 1) |-> IF m = Len(modules) + 1 THEN n ELSE modules[m].name]
      BY <2>1
    <2> QED
      BY <1>2, <2>2 DEF Names
  <1>5. Holders' = Append(Holders, "maker")
    <2>1. Holders = [m \in 1 .. Len(modules) |-> Holder(m)] /\ Len(modules) \in Nat
      BY Numbers DEF EInv, Holders
    <2>2. Append(Holders, "maker")
            = [m \in 1 .. (Len(modules) + 1) |-> IF m = Len(modules) + 1 THEN "maker" ELSE Holder(m)]
      BY <2>1
    <2>3. ASSUME NEW m \in DOMAIN modules PROVE Holder(m)' = Holder(m)
      BY <1>1, <1>2, HolderIs, HolderIsNext, Numbers DEF EInv, Range
    <2>4. PICK k \in DOMAIN modules' : k = Len(modules) + 1
      BY <1>2, <2>1
    <2>5. Holder(k)' = "maker"
      BY <1>1, <2>4, HolderIsNext
    <2>6. Holders' = [m \in 1 .. (Len(modules) + 1) |-> Holder(m)']
      BY <1>2 DEF Holders
    <2>7. \A m \in 1 .. (Len(modules) + 1) : m # k => m \in DOMAIN modules
      BY <2>1, <2>4, Numbers DEF EInv
    <2>8. \A m \in 1 .. (Len(modules) + 1) :
            Holder(m)' = IF m = Len(modules) + 1 THEN "maker" ELSE Holder(m)
      BY <2>3, <2>4, <2>5, <2>7
    <2> QED
      BY <2>2, <2>6, <2>8
  <1> QED
    BY <1>1, <1>3, <1>4, <1>5, FreeIsFree DEF Promise!Make, Names, Holders

(* The end of an encoding is HandOver.                                        *)
LEMMA EndsHandOver ==
    ASSUME EInv, EInv', EncodeFails \/ EncodeSucceeds
    PROVE  Promise!HandOver
  <1>1. /\ loading \in DOMAIN modules /\ loading' = 0 /\ bridge' = bridge
        /\ DOMAIN modules' = DOMAIN modules
        /\ \A m \in DOMAIN modules : modules'[m].name = modules[m].name
        /\ \A m \in DOMAIN modules \ {loading} : m \in Range(registry') <=> m \in Range(registry)
    <2>1. loading \in DOMAIN modules /\ modules[loading] \in Module /\ loading \notin Range(registry)
      BY Numbers DEF EncodeFails, EncodeSucceeds, EInv, EngineOK, ModulesOwned
    <2>2. CASE EncodeFails
      <3>1. modules[loading].deletions = 0
        BY <2>1 DEF EInv, ModulesOwned
      <3>2. modules' = [modules EXCEPT ![loading] = Deleted(loading, "failed")]
            /\ loading' = 0 /\ UNCHANGED <<registry, bridge>>
        BY <2>2 DEF EncodeFails
      <3>3. /\ DOMAIN modules' = DOMAIN modules
            /\ \A m \in DOMAIN modules : modules'[m].name = modules[m].name
        BY <2>1, <3>1, <3>2, DeletionCounts DEF EInv
      <3> QED
        BY <2>1, <3>2, <3>3 DEF Range
    <2>3. CASE EncodeSucceeds
      <3>1. /\ DOMAIN modules' = DOMAIN modules
            /\ \A m \in DOMAIN modules : modules'[m].name = modules[m].name
        <4> DEFINE x == [modules[loading] EXCEPT !.life = "loaded"]
        <4>1. modules' = [modules EXCEPT ![loading] = x] /\ x.name = modules[loading].name
          BY <2>1, <2>3 DEF EncodeSucceeds, Module
        <4> HIDE DEF x
        <4> QED
          BY <2>1, <4>1
      <3>2. \A m \in DOMAIN modules \ {loading} : m \in Range(registry') <=> m \in Range(registry)
        BY <2>1, <2>3 DEF EncodeSucceeds, Added, Range, EInv, NameFree
      <3> QED
        BY <2>1, <2>3, <3>1, <3>2 DEF EncodeSucceeds
    <2> QED
      BY <2>2, <2>3
  <1>2. Names' = Names
    BY <1>1 DEF Names
  <1>3. PICK l \in DOMAIN modules : l = loading
    BY <1>1
  <1>4. PICK h \in {"table", "nobody"} : Holder(l)' = h
    BY <1>1, <1>3, HolderIsNext, Numbers DEF EInv
  <1>5. Holders' = [Holders EXCEPT ![l] = h]
    <2>1. ASSUME NEW m \in DOMAIN modules, m # l PROVE Holder(m)' = Holder(m)
      BY <1>1, <1>3, <2>1, HolderIs, HolderIsNext, Numbers DEF EInv
    <2> QED
      BY <1>1, <1>4, <2>1 DEF Holders
  <1>6. Holder(l) = "maker"
    BY <1>3, HolderIs
  <1> QED
    BY <1>1, <1>2, <1>5, <1>6 DEF Promise!HandOver, Names, Holders

(* The destructor's deletion is Release.                                      *)
LEMMA DropReleases ==
    ASSUME EInv, EInv', NEW n \in Name, DropModule(n)
    PROVE  Promise!Release
  <1>1. n \in DOMAIN registry /\ registry[n] \in DOMAIN modules
    BY Numbers DEF DropModule, EInv
  <1>2. PICK d \in DOMAIN modules : d = registry[n]
    BY <1>1
  <1>3. /\ modules[d].deletions = 0 /\ d \in Range(registry)
        /\ loading = 0 /\ loading' = 0 /\ bridge = "closing" /\ bridge' = bridge
        /\ modules' = [modules EXCEPT ![d] = Deleted(d, "dropped")]
        /\ registry' = Restrict(registry, DOMAIN registry \ {n})
    BY <1>2, Numbers DEF DropModule, EInv, Ends, ModulesOwned, Range
  <1>4. d \notin Range(registry')
    BY <1>2, DropKeeps
  <1>5. /\ DOMAIN modules' = DOMAIN modules
        /\ \A m \in DOMAIN modules : modules'[m].name = modules[m].name
    BY <1>3, DeletionCounts DEF EInv
  <1>6. \A m \in DOMAIN modules \ {d} : m \in Range(registry') <=> m \in Range(registry)
    BY <1>1, <1>2, <1>3 DEF Range, Restrict
  <1>7. Names' = Names
    BY <1>5 DEF Names
  <1>8. Holders' = [Holders EXCEPT ![d] = "nobody"]
    <2>1. ASSUME NEW m \in DOMAIN modules, m # d PROVE Holder(m)' = Holder(m)
      <3>1. m # loading /\ m # loading' /\ m \in DOMAIN modules'
        BY <1>3, <1>5, Numbers DEF EInv
      <3>2. CASE m \in Range(registry)
        BY <1>6, <2>1, <3>1, <3>2, HolderIs, HolderIsNext
      <3>3. CASE m \notin Range(registry)
        BY <1>6, <2>1, <3>1, <3>3, HolderIs, HolderIsNext
      <3> QED
        BY <3>2, <3>3
    <2>2. Holder(d)' = "nobody"
      BY <1>3, <1>4, <1>5, HolderIsNext, Numbers DEF EInv
    <2> QED
      BY <1>3, <1>5, <2>1, <2>2 DEF Holders
  <1>9. Holder(d) = "table"
    BY <1>3, HolderIs
  <1> QED
    BY <1>3, <1>7, <1>8, <1>9 DEF Promise!Release, Names, Holders

(* Every other step leaves every holder as it is.                             *)
LEMMA OthersStutter ==
    ASSUME EInv, EInv', UNCHANGED <<registry, loading>>, DOMAIN modules' = DOMAIN modules,
           \A m \in DOMAIN modules : modules'[m].name = modules[m].name,
           (bridge = "up") = (bridge = "up")'
    PROVE  UNCHANGED Promise!custody
  BY HoldersStay DEF Promise!custody, Names, Holders

LEMMA EngineStepKeepsPromise ==
    EInv /\ EInv' /\ [EngineNext]_engine => [Promise!Next]_(Promise!custody)
  <1> SUFFICES ASSUME EInv, EInv', [EngineNext]_engine PROVE Promise!Next \/ UNCHANGED Promise!custody
    BY DEF Promise!custody
  <1>1. ASSUME NEW n \in Name, LoadModule(n) PROVE Promise!Make \/ UNCHANGED Promise!custody
    <2>1. CASE n \in DOMAIN registry
      BY <1>1, <2>1, OthersStutter DEF LoadModule
    <2> QED
      BY <1>1, <2>1, LoadMakes
  <1>2. ASSUME NEW t \in BasicType, WrapType(t) \/ AskType(t) PROVE UNCHANGED Promise!custody
    <2>1. /\ UNCHANGED <<registry, loading, bridge>> /\ DOMAIN modules' = DOMAIN modules
      BY <1>2 DEF WrapType, AskType
    <2>2. ASSUME NEW m \in DOMAIN modules PROVE modules'[m].name = modules[m].name
      <3>1. modules[m] \in Module
        BY Numbers DEF EInv
      <3> QED
        BY <1>2, <3>1 DEF WrapType, AskType, Module
    <2> QED
      BY <2>1, <2>2, OthersStutter
  <1>3. ASSUME NEW k \in Range(registry), Jit(k) \/ Aot(k) PROVE UNCHANGED Promise!custody
    <2>1. /\ UNCHANGED <<registry, loading, bridge>> /\ DOMAIN modules' = DOMAIN modules
      BY <1>3 DEF Jit, Aot, engine
    <2>2. ASSUME NEW m \in DOMAIN modules PROVE modules'[m].name = modules[m].name
      <3>1. modules[m] \in Module
        BY Numbers DEF EInv
      <3> QED
        BY <1>3, <3>1 DEF Jit, Aot, engine, Module
    <2> QED
      BY <2>1, <2>2, OthersStutter
  <1>4. CASE Quit
    <2>1. /\ loading = 0 /\ bridge = "up" /\ bridge' = "closing"
          /\ UNCHANGED <<registry, modules, loading>>
      BY <1>4 DEF Quit
    <2>2. Names' = Names /\ Holders' = Holders
      BY <2>1, HoldersStay
    <2>3. \A m \in DOMAIN modules : Holder(m) # "maker"
      BY <2>1, HolderIs, Numbers DEF EInv
    <2> QED
      BY <2>1, <2>2, <2>3 DEF Promise!Next, Promise!Shut, Names, Holders
  <1>5. CASE QuitBridge \/ UNCHANGED engine
    BY <1>5, OthersStutter DEF QuitBridge, engine
  <1> QED
    BY <1>1, <1>2, <1>3, <1>4, <1>5, EndsHandOver, DropReleases
    DEF EngineNext, Loading, Closing, Promise!Next

(* The engine, whoever calls it, implements Custody: the initial state is an  *)
(* initial one, and every step makes, hands over, releases, shuts or stutters.*)
THEOREM EngineKeepsCustody == EngineSpec => Promise!Safe
  <1>1. EngineInit => Promise!Init
    BY DEF EngineInit, Promise!Init
  <1> QED
    BY <1>1, EngineStarts, EngineKeeps, EngineStepKeepsPromise, PTL DEF EngineSpec, Promise!Safe
==============================================================================
