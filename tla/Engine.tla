-------------------------------- MODULE Engine --------------------------------
(***************************************************************************)
(* The engine and what it owns: the table of loaded modules, the life of a *)
(* module with its type wrappers and its LLVM module, and the bridge with  *)
(* the LLVM context (src/src/omis/engine.cpp, model.cpp, app/coder.cpp,    *)
(* llvm/llvm.cxx).                                                         *)
(*                                                                         *)
(* A module is known by its number, in the order of construction.  Of its  *)
(* encoding only the requests for type wrappers are kept here, and whether *)
(* it succeeds; module Codegen has the rest.                               *)
(***************************************************************************)
EXTENDS Naturals, Sequences, Functions

CONSTANTS Name,     \* the names of modules
          BasicType \* the types omis_module_t has a function of its own for: type_void(), type_i32() ...

NoModule == 0

VARIABLES
    registry,   \* omis_engine_t::modules: a function from the loaded names to modules
    modules,    \* every module ever constructed
    loading,    \* the module being encoded, or NoModule
    result,     \* what load_module returned last
    statics,    \* for each basic type the module whose wrapper its function-local static is
    handedOut,  \* the basic types whose static was handed out after that wrapper was deleted
    bridge      \* "up", "closing" (the engine's destructor runs), "down"

engine == <<registry, modules, loading, result, statics, handedOut, bridge>>

\* Faulty: the module does not keep its name.
FreshNameless(n) == [name |-> "", life |-> "encoding", types |-> {}, deletions |-> 0, executors |-> 0]

\* A module: its name, its life ("encoding", "loaded", "failed", "dropped"), the
\* basic types with a wrapper in its map of types, how often its LLVM module was
\* deleted, and how many execution engines believe to own that.
Fresh(n) == [name |-> n, life |-> "encoding", types |-> {}, deletions |-> 0, executors |-> 0]

\* The module once it is deleted, with its wrappers and its LLVM module.
Deleted(m, life) == [modules[m] EXCEPT !.life = life, !.deletions = @ + 1]

\* The wrapper the static of t points to has been deleted with its module.
Dangles(t) == statics[t] # NoModule /\ modules[statics[t]].deletions > 0

EngineInit ==
    /\ registry = [n \in {} |-> NoModule]
    /\ modules = <<>>
    /\ loading = NoModule
    /\ result = NoModule
    /\ statics = [t \in BasicType |-> NoModule]
    /\ handedOut = {}
    /\ bridge = "up"

------------------------------------------------------------------------------
(* Loading a module: load_module around the lambda of coder_t::encode. *)

\* Faulty: the table is not asked first.
LoadModuleUnasked(n) ==
    /\ bridge = "up"
    /\ loading = NoModule
    /\ modules' = Append(modules, Fresh(n))
    /\ loading' = Len(modules) + 1
    /\ UNCHANGED <<registry, result, statics, handedOut, bridge>>

\* A name that is loaded is not loaded again: null.  Otherwise the lambda
\* constructs the module, which makes its LLVM module and its root scope.
LoadModule(n) ==
    /\ bridge = "up"
    /\ loading = NoModule
    /\ IF n \in DOMAIN registry
       THEN /\ result' = NoModule
            /\ UNCHANGED <<modules, loading>>
       ELSE /\ modules' = Append(modules, Fresh(n))
            /\ loading' = Len(modules) + 1
            /\ UNCHANGED result
    /\ UNCHANGED <<registry, statics, handedOut, bridge>>

\* type(handle): the wrapper in the module's own map, made if there is none.
WrapType(t) ==
    /\ loading # NoModule
    /\ modules' = [modules EXCEPT ![loading].types = @ \union {t}]
    /\ UNCHANGED <<registry, loading, result, statics, handedOut, bridge>>

\* type_i32() and the like: the first call of all ever made sets the static, to
\* a wrapper in the caller's map; every later one returns it, whosever it is.
AskType(t) ==
    /\ loading # NoModule
    /\ IF statics[t] = NoModule
       THEN /\ statics' = [statics EXCEPT ![t] = loading]
            /\ modules' = [modules EXCEPT ![loading].types = @ \union {t}]
            /\ UNCHANGED handedOut
       ELSE /\ handedOut' = IF Dangles(t) THEN handedOut \union {t} ELSE handedOut
            /\ UNCHANGED <<statics, modules>>
    /\ UNCHANGED <<registry, loading, result, bridge>>

\* Faulty: the module is forgotten, not deleted.
EncodeFailsForgets ==
    /\ loading # NoModule
    /\ loading' = NoModule
    /\ result' = NoModule
    /\ UNCHANGED <<registry, modules, statics, handedOut, bridge>>

\* encode_module returned false: the module is deleted, with its wrappers and
\* its LLVM module.
EncodeFails ==
    /\ loading # NoModule
    /\ modules' = [modules EXCEPT ![loading] = Deleted(loading, "failed")]
    /\ loading' = NoModule
    /\ result' = NoModule
    /\ UNCHANGED <<registry, statics, handedOut, bridge>>

\* The table after add_module: a name that is there stays what it is.
Added(n, m) == IF n \in DOMAIN registry THEN registry
               ELSE [k \in DOMAIN registry \union {n} |-> IF k = n THEN m ELSE registry[k]]

\* encode_module returned true: the module is added, and is the result if
\* the name was still free.
EncodeSucceeds ==
    /\ loading # NoModule
    /\ registry' = Added(modules[loading].name, loading)
    /\ result' = IF modules[loading].name \in DOMAIN registry THEN NoModule ELSE loading
    /\ modules' = [modules EXCEPT ![loading].life = "loaded"]
    /\ loading' = NoModule
    /\ UNCHANGED <<statics, handedOut, bridge>>

------------------------------------------------------------------------------
(* A loaded module: dump and aot read it, jit gives it away. *)

\* Faulty: jit deletes its execution engine, which deletes the LLVM module.
JitCleansUp(m) ==
    /\ bridge = "up"
    /\ modules' = [modules EXCEPT ![m].deletions = @ + 1]
    /\ UNCHANGED <<registry, loading, result, statics, handedOut, bridge>>

\* jit: an execution engine becomes the owner of the LLVM module.  Nothing ever
\* deletes that engine, and the module goes on to believe that it is the owner.
Jit(m) ==
    /\ bridge = "up"
    /\ modules' = [modules EXCEPT ![m].executors = @ + 1]
    /\ UNCHANGED <<registry, loading, result, statics, handedOut, bridge>>

\* aot and dump: the module stays as it is.
Aot(m) == bridge = "up" /\ UNCHANGED engine

------------------------------------------------------------------------------
(* The end: coder_t deletes the engine. *)

Quit ==
    /\ bridge = "up"
    /\ loading = NoModule
    /\ bridge' = "closing"
    /\ UNCHANGED <<registry, modules, loading, result, statics, handedOut>>

\* _DeleteMap(modules), one module of the table after the other.
DropModule(n) ==
    /\ bridge = "closing"
    /\ n \in DOMAIN registry
    /\ modules' = [modules EXCEPT ![registry[n]] = Deleted(registry[n], "dropped")]
    /\ registry' = Restrict(registry, DOMAIN registry \ {n})
    /\ UNCHANGED <<loading, result, statics, handedOut, bridge>>

\* Faulty: the LLVM context goes before the modules made in it.
QuitBridgeEarly ==
    /\ bridge = "closing"
    /\ bridge' = "down"
    /\ UNCHANGED <<registry, modules, loading, result, statics, handedOut>>

\* Faulty: the table is emptied and the bridge forgotten.
QuitBridgeForgets ==
    /\ bridge = "closing"
    /\ DOMAIN registry = {}
    /\ UNCHANGED engine

\* llvm_quit: the bridge and its LLVM context are deleted.
QuitBridge ==
    /\ bridge = "closing"
    /\ DOMAIN registry = {}
    /\ bridge' = "down"
    /\ UNCHANGED <<registry, modules, loading, result, statics, handedOut>>

Loading ==
    \/ \E t \in BasicType : WrapType(t) \/ AskType(t)
    \/ EncodeFails
    \/ EncodeSucceeds

Closing == (\E n \in Name : DropModule(n)) \/ QuitBridge

\* Whatever a caller does with the engine, one call at a time, given that it
\* hands back only modules it was given.
EngineNext ==
    \/ \E n \in Name : LoadModule(n)
    \/ Loading
    \/ \E m \in Range(registry) : Jit(m) \/ Aot(m)
    \/ Quit
    \/ Closing

EngineSpec == EngineInit /\ [][EngineNext]_engine

=============================================================================
