-------------------------------- MODULE Driver --------------------------------
(***************************************************************************)
(* The program around the engine: main and eokas_main (src/src/app/app.cxx) *)
(* with the coder they share (app/coder.cpp).  A command reads a file,     *)
(* parses it, encodes the tree, and runs the module or writes its object    *)
(* file.  main carries out one command; MaxCommands larger than one is the  *)
(* coder kept for another, which outlives eokas_main.                      *)
(***************************************************************************)
EXTENDS Engine

CONSTANT MaxCommands    \* how many commands one coder carries out

ASSUME MaxCommandsAssumption == MaxCommands \in Nat

Command == {"run", "compile"}

VARIABLES
    pc,         \* where eokas_main is
    command,    \* the command being carried out
    commands,   \* how many were begun
    tree,       \* the syntax tree: "none", "built", "freed" (with the parser)
    out,        \* the .ll file: "closed" or "open"
    printed     \* what the user was told: "nothing", "error", "module"

driver == <<pc, command, commands, tree, out, printed>>
vars == <<engine, driver>>

Init ==
    /\ EngineInit
    /\ pc = "idle"
    /\ command = "run"
    /\ commands = 0
    /\ tree = "none"
    /\ out = "closed"
    /\ printed = "nothing"

\* The end of eokas_main, whatever it ends with: the parser, a local variable,
\* takes the tree with it, and the streams close their files.
Return ==
    /\ pc' = "idle"
    /\ tree' = IF tree = "built" THEN "freed" ELSE tree
    /\ out' = "closed"

\* main finds the command and its file.  run asks whether the file exists,
\* compile does not; an exception ends the program with an error.
Begin ==
    /\ pc = "idle"
    /\ bridge = "up"
    /\ commands < MaxCommands
    /\ \E c \in Command :
          /\ command' = c
          /\ commands' = commands + 1
          /\ \/ pc' = "open" /\ printed' = "nothing"
             \/ pc' = "thrown" /\ printed' = "error"
    /\ UNCHANGED <<engine, tree, out>>

\* A file that cannot be opened ends the command, in silence.
OpenFile ==
    /\ pc = "open"
    /\ \/ pc' = "parse" /\ tree' = "none" /\ out' = out
       \/ Return
    /\ UNCHANGED <<engine, command, commands, printed>>

\* Faulty: the parser ends before its tree is encoded.
ParseForgets ==
    /\ pc = "parse"
    /\ \/ /\ pc' = "encode"
          /\ tree' = "freed"
          /\ UNCHANGED <<out, printed>>
       \/ /\ Return
          /\ printed' = "error"
    /\ UNCHANGED <<engine, command, commands>>

\* The parser is constructed and run: a tree, or an error to print.
Parse ==
    /\ pc = "parse"
    /\ \/ /\ pc' = "encode"
          /\ tree' = "built"
          /\ UNCHANGED <<out, printed>>
       \/ /\ Return
          /\ printed' = "error"
    /\ UNCHANGED <<engine, command, commands>>

\* coder.encode(node), up to the encoding of the module.
Encode ==
    /\ pc = "encode"
    /\ \E n \in Name : LoadModule(n)
    /\ pc' = IF loading' = NoModule THEN "encoded" ELSE "encoding"
    /\ UNCHANGED <<command, commands, tree, out, printed>>

Encoding ==
    /\ pc = "encoding"
    /\ Loading
    /\ pc' = IF loading' = NoModule THEN "encoded" ELSE "encoding"
    /\ UNCHANGED <<command, commands, tree, out, printed>>

\* Faulty: the null result is not looked at.
EncodedUnchecked ==
    /\ pc = "encoded"
    /\ \/ pc' = "emit" /\ out' = "open" /\ printed' = "module" /\ UNCHANGED tree
       \/ Return /\ UNCHANGED printed
    /\ UNCHANGED <<engine, command, commands>>

\* A null module ends the command without a word, and so does an output file
\* that cannot be opened; otherwise the module is dumped.
Encoded ==
    /\ pc = "encoded"
    /\ \/ /\ result # NoModule
          /\ pc' = "emit"
          /\ out' = "open"
          /\ printed' = "module"
          /\ UNCHANGED tree
       \/ Return /\ UNCHANGED printed
    /\ UNCHANGED <<engine, command, commands>>

\* Faulty: a module that was run is taken from the table and deleted.
EmitDrops ==
    /\ pc = "emit"
    /\ modules' = [modules EXCEPT ![result] = Deleted(result, "dropped")]
    /\ registry' = Restrict(registry, DOMAIN registry \ {modules[result].name})
    /\ Return
    /\ UNCHANGED <<loading, result, statics, handedOut, bridge, command, commands, printed>>

\* jit or aot; their answers are not looked at, and the .ll file stays empty.
Emit ==
    /\ pc = "emit"
    /\ IF command = "run" THEN Jit(result) ELSE Aot(result)
    /\ Return
    /\ UNCHANGED <<command, commands, printed>>

\* main returns, 0 or -1, and destroys the coder.
Exit ==
    /\ pc \in {"idle", "thrown"}
    /\ commands > 0
    /\ Quit
    /\ pc' = "exit"
    /\ UNCHANGED <<command, commands, tree, out, printed>>

Close == pc = "exit" /\ Closing /\ UNCHANGED driver

Terminated == bridge = "down" /\ UNCHANGED vars

Next ==
    \/ Begin \/ OpenFile \/ Parse \/ Encode \/ Encoding \/ Encoded \/ Emit
    \/ Exit \/ Close \/ Terminated

\* One thread: a command that was begun goes on, and main returns.  The encoder
\* may ask for types again and again, but it walks a finite tree and ends.
Fairness ==
    /\ WF_vars(Next)
    /\ WF_vars(Encoding /\ loading' = NoModule)

Spec == Init /\ [][Next]_vars /\ Fairness

=============================================================================
