------------------------------ MODULE DriverProps ------------------------------
(***************************************************************************)
(* What the driver and the engine under it promise.                         *)
(***************************************************************************)
EXTENDS Driver

\* The states the variables range over.
TypeOK ==
    /\ DOMAIN registry \subseteq Name
    /\ \A n \in DOMAIN registry : registry[n] \in DOMAIN modules
    /\ modules \in Seq([name : Name,
                        life : {"encoding", "loaded", "failed", "dropped"},
                        types : SUBSET BasicType,
                        deletions : Nat,
                        executors : Nat])
    /\ loading \in {NoModule} \union DOMAIN modules
    /\ result \in {NoModule} \union DOMAIN modules
    /\ statics \in [BasicType -> {NoModule} \union DOMAIN modules]
    /\ handedOut \subseteq BasicType
    /\ bridge \in {"up", "closing", "down"}
    /\ pc \in {"idle", "open", "parse", "encode", "encoding", "encoded", "emit", "thrown", "exit"}
    /\ command \in Command
    /\ commands \in 0 .. MaxCommands
    /\ tree \in {"none", "built", "freed"}
    /\ out \in {"closed", "open"}
    /\ printed \in {"nothing", "error", "module"}

\* No module leaks and none is lost track of: one that was not deleted is being
\* encoded or is in the table under its own name, and the table has no other.
\* load_module drops a module that add_module refuses without deleting it
\* (engine.cpp:42); it never comes to that.
ModulesOwned ==
    /\ \A m \in DOMAIN modules :
          modules[m].deletions = 0 <=> m = loading \/ m \in Range(registry)
    /\ \A n \in DOMAIN registry : modules[registry[n]].name = n
    /\ loading \notin Range(registry)

\* No LLVM module is deleted twice, though after jit both its execution engine
\* and its wrapper are its owner (llvm.cxx:745, model.cpp:111).
DeletedOnce == \A m \in DOMAIN modules : modules[m].deletions <= 1

\* The LLVM context outlives every module made in it: ~omis_engine_t empties the
\* table before it ends the bridge.
ContextLast == bridge = "down" => \A m \in DOMAIN modules : modules[m].deletions = 1

\* Each phase uses only what is still there: the encoder the tree that the
\* parser owns, jit and aot a module that is loaded, both the bridge.
UsesAreAlive ==
    /\ pc \in {"encode", "encoding"} => tree = "built"
    /\ pc = "emit" => result \in Range(registry) /\ modules[result].deletions = 0
    /\ pc \in {"encode", "encoding", "emit"} => bridge = "up"

\* The function-local static of a type wrapper is stale only after an encoding
\* that failed (model.cpp:186): as long as none did, type_i32() and the like
\* return wrappers that exist.
StaleNeedsFailure ==
    handedOut # {} => \E m \in DOMAIN modules : modules[m].life = "failed"

\* What a name stands for is final: while the engine is up the table only grows.
\* With every module unnamed, the first that is loaded is the last.
NamesAreFinal ==
    [][bridge = "up" => \A n \in DOMAIN registry : n \in DOMAIN registry' /\ registry'[n] = registry[n]]_vars

\* A command that was begun comes to its end, and then the program does: all
\* modules are released and the bridge with its context is gone.
ProgramEnds == commands > 0 ~> bridge = "down"

\* Who holds a module: its encoding, the table, or nobody once it is deleted.
\* A module out of reach, or deleted twice, is no state Custody knows.
Holder(m) ==
    CASE m = loading -> "maker"
      [] m \in Range(registry) -> "table"
      [] m # loading /\ m \notin Range(registry) ->
            IF modules[m].deletions = 1 THEN "nobody" ELSE "out of reach"

Promise == INSTANCE Custody WITH
    names <- [m \in DOMAIN modules |-> modules[m].name],
    holder <- [m \in DOMAIN modules |-> Holder(m)],
    open <- bridge = "up"

\* The engine keeps the promise of Custody, with its fairness.
Keeps == Promise!Spec

=============================================================================
