# A TLA+ model of the eokas compiler

This directory models and verifies the compiler in `src/src`: the program that reads a
text in the eokas language, parses it, encodes it into LLVM IR and runs it.

## 1. The system

Source paths below are relative to the repository root's `src/` directory.

```
text --(scanner_t)--> tokens --(parser_t)--> syntax tree --(omis_module_coder_t)--> bridge calls --> IR --> jit / aot
        scanner.cxx            parser.cxx     ast/*         x-module-coder.cpp       llvm.cxx
                                                            model.cpp
                       app.cxx, coder.cpp, engine.cpp: who calls whom, and who owns what
```

| component | state it keeps | operations | how it interacts |
|---|---|---|---|
| **Scanner** `app/scanner.*` | source, position, line, column, current token, look-ahead token | `ready`, `next_token`, `look_ahead_token`, `scan` and its helpers | pulled by the parser, one token at a time, with one token of look-ahead |
| **Parser** `app/parser.*` | the scanner, the node factory, one error text | `parse`, one `parse_*` function per construct | pulls tokens, builds nodes, returns null up to the top on the first error |
| **Syntax tree** `ast/*` | the nodes, owned by the factory | `create<T>(parent)`, destructors | built by the parser, read by the encoder |
| **Statement encoder** `omis/x-module-coder.*`, second half of `omis/model.cpp` | current scope, break and continue point; through the bridge, the blocks and the insertion point | `encode_module`, `encode_stmt_*`, `encode_expr_*`; `stmt_*`, `expr_branch` | recursive descent with lambdas: the module calls back into the coder for every part of a statement |
| **Scopes and symbols** first part of `omis/model.cpp` | the tree of scopes, each with types, values and its function | `add_child`, `add_*_symbol`, `get_*_symbol`, `push_scope`, `pop_scope` | read and written by the encoder |
| **Type and value caches** `omis/model.cpp` | handle -> wrapper maps, static wrappers of the basic types | `type(h)`, `value(h)`, `type_i32()` ... | every bridge result goes through them |
| **Bridge** `omis/llvm/llvm.cxx` | the LLVM context, the IR builder, the function under construction | `create_block`, `jump`, `phi`, arithmetic, `jit`, `aot` | called by the module; LLVM itself is external |
| **Literals** `parse_literal_int`, `encode_expr_int`, conversions of the base library | - | from digits to the word of a constant | between the parser and the encoder |
| **Engine and driver** `omis/engine.*`, `app/coder.*`, `app/app.cxx` | the registry of modules by name, the tree, the streams | `load_module`, `encode`, `jit`, `aot`, `dump`, destructors; `main`, `eokas_main` | owns the bridge and the modules; calls everything else |
| **Core and C modules** `omis/x-module-core.*`, `x-module-cstd.*` | - | declare `printf`, `malloc`, string types ... | never instantiated by the program |

Everything runs in one thread, and nothing is persisted: there are no messages, no crashes
to recover from and no timeouts. What is hard here is of another kind:

* the encoder is re-entrant: a branch inside a loop inside a branch leaves the insertion point,
  the scope and the break and continue points where the outer statement has to find them again;
* a failure is a `return false` in the middle of this recursion, without clean-up;
* pointers are read that were never set, null pointers come back from optional questions, and
  functions with a missing `return` are called;
* caches and registries outlive what they name;
* the scanner has a look-ahead slot whose "empty" mark is also a token type, and counts lines in
  more than one place;
* a recursive-descent parser must consume something on every round and report every failure;
* a number passes through an i32, an i64, an unsigned view of it and an LLVM constant of one of two
  widths, and the module names the type of a result that the bridge then chooses by itself;
* modules, execution engines, wrappers and the LLVM context have several owners, and a failed
  encoding deletes what static variables still point to.

What makes each part correct:

* scanner: it stays inside its source; it delivers the tokens of the lexical grammar, in order, each
  once, however it is looked ahead; it knows its line and column; it comes to the end;
* parser: what is accepted is accepted whole and means what the grammar says; what is refused comes
  with an error; no null pointer is followed; it comes to the end;
* encoder: the emitted graph is closed (every block ends in a jump or a return, none is written
  after that), jumps go where the innermost loop wants them, names mean their innermost definition,
  the emitted code does what the program means, and exactly the programs of the manual are accepted;
* expressions: the encoded words are what the expression means, a wrapper's type is its value's, and
  operands an operator is not for are stopped;
* engine and driver: a module has one holder at a time, is used while it lives and deleted once,
  before the LLVM context it was made in; the program ends with nothing left.

## 2. Modules

```
Characters --> Scanner --> ScannerProps --> ScannerLexical --> MCScanner
                                |   \         (INSTANCE Lexicon)
                                |    Scanner_proofs
                                |          (with ScannerLexical) --> ScannerTokens_proofs
Parser ------> ParserProps ---> MCParser
Codegen -----> CodegenProps --> CodegenSem --> MCCodegen
                    \--> Codegen_proofs --> CodegenGraph_proofs --> CodegenSteps_proofs
Literals ----> Operands ------> OperandsProps --> MCOperands
                                        \--> Operands_proofs --> OperandsWords_proofs
Engine ------> Driver --------> DriverProps ----> MCDriver
               (INSTANCE Custody in DriverProps)  \--> Driver_proofs
```

| module | what it is |
|---|---|
| `Characters` | the character classes of the base library that the scanner asks about, and the escapes |
| `Scanner` | `scanner_t`: a state machine, one action per round of a loop of `scan` |
| `Lexicon` | the abstract specification of the scanner: the lexical grammar, as sets of words, and "deliver the longest word that comes next" |
| `ScannerProps`, `ScannerLexical` | properties of the scanner; that it implements `Lexicon` |
| `Parser` | `parser_t`: one operator per `parse_*` function, one action per round of `parse_module` |
| `ParserProps` | how a tree is written down (the inverse of the parser), and the parser's properties |
| `Codegen` | the encoder: one action per piece of code between two recursive calls |
| `CodegenProps` | its type invariant and the shape of the control flow graph |
| `CodegenSem` | what a program means, what the emitted blocks do, and the static rules of the manual |
| `Literals` | the way of an integer literal from its characters to the word of an LLVM constant |
| `Operands`, `OperandsProps` | expressions: leaves, unary and binary operators, the choice of type and instruction; what the manual says they mean |
| `Engine` | `omis_engine_t`, the lives of modules and of their type wrappers, the bridge and its context |
| `Driver`, `DriverProps` | `main` and `eokas_main` around the engine; the properties of both |
| `Custody` | the abstract specification of the engine: who holds a module |
| `MC*` | the instances TLC checks |
| `*_proofs` | theorems and their proofs: the first of a component's proves types and bounds, the next ones build on it |

### How the models correspond to the code

**Scanner.** `position` counts calls of `read_char`, so `m_current` is `At(position)`, and a
position past the terminator is a read outside the source. `scan()` runs its loops under a `mode`
("binary", "string", "sectionComment", ...); the token, its slot of look-ahead (`ahead`, empty when
its type is `UNKNOWN`, as in the code) and the copy `look_ahead_token` keeps (`kept`) are variables.
`delivered` is a history of what `next_token` returned. Some things are as the code has them and
may surprise: `9b1` is a binary literal, `\xFF` in a string keeps its two digits, the first line's
columns begin at 1 and those of all others at 0, and `\n\n` is one line end.

**Parser.** A parse state is where the scanner is, where `error` was called last, how a function
went ("ok", "null", or "crash": a null pointer was followed) and the node. Operators pass a state
that is not ok on unchanged, as the chain of `if(x == nullptr) return nullptr;` does; where the code
does otherwise, so does the operator (`Unary` links an operand it did not check, `Statement` looks
for the semicolon after a failed statement, a missing `=` in an object is refused without an error).
The fields of an object, the members of an enumeration and the parameters of a procedure are kept in a
`std::map`, so a tree has them as a function of names (`ByName`): their order is lost, and of two fields
of one name the later stays. The text is the sequence of tokens the scanner delivers. Calls that can lead back to the caller go
through one recursive operator, `Parse`.

**Encoder.** The recursion through lambdas of two classes is an explicit stack, `todo`: its head is
the next piece of code to run, and a task carries the local variables of the C++ function it
continues (the blocks it created, the points it saved). A `return false` is not cleaned up by
anybody, so a failure is one step to "failed". A block is a sequence of instructions, of which only
memory accesses, jumps, phis and returns are kept; pure operations on registers are left out. A
cell (an alloca) is named by its block and its position, so that two definitions are never one cell.
An assignment compares no types, and its left side need not be a variable: the store that does not fit
(`IllStore`) is one LLVM may assert against, which kills the compiler, or build as it is, and then the
encoder goes on; what such a store does is undefined.

The phi of a trinary has the blocks its arms *began* in as its incoming blocks, and they are the values
of a map whose keys are the incoming values; two equal constants are one key (`Incomings`). Executing
the emitted blocks, `CodegenSem` gives a phi a value only if control came from one of those blocks.

**Expressions.** `encode_expr` works in postfix order, so `Operands` has a stack of encoded values and
adds one node per step: a behaviour is the encoding of one expression, and TLC takes all of them. A
value carries its LLVM type, the type of its wrapper, the word the program will compute in words of
`WordBits` bits, and next to it what the manual says the expression means (`exact`, an integer) and
the reasons why the two may differ (`doubts`). The powers of two are a table (`Pow`) that doubles from entry
to entry, and the operations on bits are tables of two bits applied to every pair (`Bitwise`). An operand the bridge has no instruction for becomes
`Null`: the bridge prints an error and returns null, `value` wraps the null, and the next use of the
wrapper follows it ("crashed"). Operands of two widths make an instruction LLVM does not have
("malformed"). Trinaries are in `Codegen`.

**Engine and driver.** A module is a number with a life, the basic types it has wrappers for, how often
its LLVM module was deleted and how many execution engines believe to own it. `LoadModule` is
`load_module` up to the encoding, `EncodeSucceeds` and `EncodeFails` its two ends; between them the
encoder asks for type wrappers, which are function-local statics of whichever module asked first.
`jit` makes a second owner that is never deleted. `Driver` has a program counter for `eokas_main`;
each way to give up (no file, parse error, null module, no output file) is a disjunct that returns as
the code does, in silence or not. `MaxCommands` commands share one coder; `main` carries out one.

Undefined behaviour is taken as follows. `push_scope` and `pop_scope` lack a return statement, and
nobody uses their result: harmless. The bridge's `phi` lacks one too, and its result is used: the
value is right, or the compiler dies. `break_point` and `continue_point` are never initialised:
`Uninit` is what they may hold, a null pointer or one that leads nowhere (`Garbage`). A null
instruction handed to `is_terminator_ins` kills the compiler where the code dereferences it.

## 3. What is checked

All runs finish within about two minutes with two workers.

| run | question | instance |
|---|---|---|
| `codegen_meaning` | Does the emitted code do what the program means? Is the graph closed, do the jump targets follow the nesting, is a finished block final? Does the encoder end? | 2 names; every nesting of two compound statements around simple ones, trinaries with parts of every kind; 4 decisions per execution |
| `codegen_verdict` | Are exactly the programs of the rules the encoder knows accepted, and all others of the manual survived? Are all blocks terminated and all scopes closed? | pairs and nestings of right and wrong statements: `var`, `val` and annotated definitions, assignments that fit and that do not, definitions that are an arm or a loop body, with every statement after them |
| `expressions` | Does the program compute what the expression means, in the right type? Are wrong operands stopped? | words of 8 bits: 1082 texts of literals; all expressions of 3 nodes over 6 numbers and a variable of 4 values, of 5 nodes over 3 numbers and a variable of 2, of 4 nodes over 1 and the smallest number |
| `engine_life` | Who owns what, who uses what, and does the program end? Does the engine implement `Custody`? | 3 commands of one coder, the one name there is, 2 types |
| `scanner_tokens` | Are the tokens those of the grammar, the place right, the end reached, whenever one looks ahead? | all texts of 3 to 5 characters, one alphabet per construct, look-ahead on two of them |
| `parser_texts` | Is a tree read back from its text? Is what is accepted the whole text, what is refused reported, and every round productive? | 4448 trees: each kind of expression over two others, each kind of statement over two others; 128807 token sequences, most of them wrong, objects with repeated and disordered fields among them |
| `codegen_annotated`, `codegen_endsinloop`, `codegen_lonejump`, `parser_crash`, `parser_documented`, `expressions_lazy` | Where the code and its documents part (section 6) | the documents' own examples; expressions of 7 nodes |

**Bounds.** *Encoder.* `stmt_branch` and `stmt_loop` look at two blocks: the one an arm began in and
the one it ended in. Two levels of nesting give every relation between them (the same; another,
open; another, sealed; empty), an inner loop whose points must be put back, and jumps and dead code
after it. A trinary is decided by the kinds of its three parts. Four decisions run a loop twice around a branch, so that a stale target, a wrong order of
step and condition and a lost write all show. *Scanner.* The longest look of the code is four
characters (`'\x00'`); five characters hold an opening, a body, an end that is not one, and what
comes after; the theorems hold for texts of any length. *Parser.* A binary loop sees its own level, the next one and what follows, so two
operators of every pair of levels, on both sides, decide precedence and association; an else needs
two ifs. In the texts, four pieces after an optional operand make incomplete trinaries, calls,
indexes, parentheses and lists. *Expressions.* Nothing in the code depends on the number 32 but the
width of a word and twice it, the mask of `b_flip` (all ones of a word) and the number of digits that
fit; 8 bits have a sign, a smallest number, hexadecimal digits and shifts that are too wide. Three
nodes give every operator with every pair of leaves; five let each operator meet the result of each
other one, so that a wrong type or word of the inner one shows; four over the smallest number and 1
reach its quotient and remainder by -1. *Engine.* One command can succeed, a
second is refused by name, a third after a failure meets stale statics; with a single name, which is
all the program has, a fourth brings nothing new. The theorems hold for any names and any number.

The passing runs state the known divergences in their properties and inputs, each by name:
`Whereabouts` leaves out texts with an empty line; `RefusalIsReported` names the constructs that are
refused in silence (`Silenced`); `CrashNeedsUnary` says the one place a crash comes from;
`MeaningPreserved` leaves out programs with a trinary within an arm of another or with two constant
arms (`Joins`); `MeaningKept` leaves out values with a doubt, each named there; `SealedIsFinal` is about programs in which
`break`, `continue` and `return` end their block; `WellTypedIsEncoded`
leaves out literals that took 64 bits; the programs of `codegen_verdict` end in a simple statement.
`TreeIsTheText` leaves out objects with two fields of one name, and fields, members and parameters that
are not in the order of their names (`KeptAsWritten`); `NameOrder` is that order. The verdicts are about
the manual's static rules, three of which can be switched off (`Rules`): `DoneIsWellFormed` claims none of
these three, for the encoder does not know that a `val` is not assigned, that an arm without braces is a
scope, and that a store must fit. `FailedIsIllFormed` is about programs without the forms the encoder has no
code for (`Encodable`), and `AllowedIsEncoded`, which makes no such exception, is violated. `FailedIsIllFormed`
and `CrashedIsIllFormed` are about programs that are allowed whether or not an arm without braces is a scope
(`Plainly`). Programs on either side of each exception are in the instance, and without any one of these
exceptions TLC finds the properties violated.

**Fairness.** One thread runs the compiler. `Codegen!Spec` assumes weak fairness of the encoder's
steps: as long as there is code to run, it runs. `Scanner!Spec` assumes it of the rounds of
`scan()` and of `next_token`, which the parser calls until it has the last token; not of
`look_ahead_token`, which nobody needs to call. The parser has no fairness and no liveness
property: `ReadsOn` says that every round of its loop reads a token or ends the loop, which, over a
finite text, is the reason it ends. `Driver!Spec` assumes weak fairness of the program's next step, and of the
end of an encoding: the model lets the encoder ask for types again and again, the code walks a finite
tree (`Termination` of `Codegen`). `Custody!Spec` has the fairness the engine must then provide, that
what is in the making is handed over and what is left is released; `Keeps` checks it.

Every property is also tried against a fault: next to a definition stand faulty variants of it,
each marked as such (a dropped guard, a missing reset, an early jump), and the property fails when
the variant takes its place.

## 4. What is proved

For every value of the constants, under the modules' named assumptions:

| theorem | statement | argument |
|---|---|---|
| `TypeCorrect`, `NothingDangles` | `Spec => []TypeOK`, `Spec => []NoDangling` | inductive together, split per action; a task is `Sound` when it names only blocks that exist, and blocks are never removed |
| `PointsCorrect` | `Spec => []LoopPoints` | inductive with `TypeCorrect`: the loops on the stack are a list of saved points, and only its head changes |
| `GraphCorrect`, `EveryBlockTerminated` | `Spec => []GraphSealed`, `Spec => []AllTerminated` | see below |
| `ScopesCorrect` | `Spec => []ScopesBalanced` | `Nested`: the depth of the scopes is the number of tasks that have one open; each step's tasks are counted against the one they replace |
| `SealedBlocksStay` | `NoDeadCode(Program, live, ends)` gives `Spec => SealedIsFinal` | see below |
| `ScannerTypeCorrect`, `ScannerStaysInBounds` | `Spec => []TypeOK`, `Spec => []InBounds` | every `Read(k)` comes with k characters known not to be the terminator |
| `NoEmptyTokens` | `Spec => []TokensAdvance` | `Paid`: a token delivered, waiting in the slot or being read has been paid for with a character |
| `LookAheadIsTransparent` | `Spec => []CurrentIsLast` | `Remembered`: during a look-ahead, `kept` is the token delivered last |
| `LinesAreCounted` | `Spec => []Whereabouts` | see below |
| `ScannerDeliversLexemes` | `WordsKnown` gives `Spec => DeliversLexemes`: the scanner implements `Lexicon` | see below |
| `ParserGetsLexemes` | the same for a caller that never looks ahead, as the parser | `WordsKnown` is then about no text |
| `NothingIsMissing` | `WordsKnown` gives `Spec => [](Stopped => Bared = Lexical!TokensOf(source))` | the first conjunct of `Tracks` |
| `WrappersAgree`, `WellTypedEncoded`, `IllTypedStopped` | `Spec => []WrapperAgrees`, `[]WellTypedIsEncoded`, `[]IllTypedIsStopped` | see below |
| `WordsAreTyped`, `MeaningIsKept` | `Spec => []TypeOK`, `Spec => []MeaningKept` | see below |
| `OwnedAlways`, `DeletedAtMostOnce`, `ContextGoesLast` | `EngineSpec => []ModulesOwned`, `[]DeletedOnce`, `[]ContextLast` | see below |
| `StaleTakesFailure` | `EngineSpec => []StaleNeedsFailure` | `Lives`: a module that is deleted while the engine is up has failed |
| `EngineKeepsCustody` | `EngineSpec => Promise!Safe` | each step of the engine makes, hands over, shuts, releases or stutters under the mapping `Holder` |
| `DriverIsClient` | `Spec => EngineSpec` | the driver hands the engine only modules of its table, one call at a time |
| `DriverTypeCorrect`, `UsesStayAlive`, `NamesStay` | `Spec => []TypeOK`, `[]UsesAreAlive`, `NamesAreFinal` | `DInv` ties the driver's program counter to the engine's state |

*The graph.* `GraphSealed` is not inductive. When an expression returns null, its statement has not
failed yet, and `stmt_assign` even encodes its right side before it looks; during these steps the
graph may be in disorder, but the program is `Doomed` to be refused. The invariant `Graph` therefore
adds `Fed`: under every expression on the stack lies a task that looks at its value. With it,
"Doomed or Sealed" is kept by every step: a step of a sealed graph seals what it leaves (`Joined`
puts exactly the missing jump, because the awaited blocks are empty and awaited by one task), and a
doomed step fails, or hands its doom to the next task.

*Blocks that are not written again.* Some jumps of the encoder look first whether the block is sealed, at
the ends of an arm and of a loop's body; `break`, `continue`, `return` and the jumps around a condition do
not look. The theorem is about programs in which no statement follows one that ends in a jump (`NoDeadCode`,
which takes the statements a program is made of and those among them that end in a jump; TLC evaluates it
for the programs of `codegen_meaning` as `LiveIsAlive`). The invariant says that where the encoder stands
at the end of a sealed block only ends of blocks and scopes come before the next joint (`Loose`), and that
every task that may bring it there is followed by nothing else (`Tame`). At the joint the guarded jump
leaves the block as it is. Without the hypothesis the property is false, and the code has no check for it.

*Lines.* `new_line` is called between tokens and in section comments, and swallows the second
character of a line end of two. `Second`, which of the characters are such, is defined by recursion along
the text; the proof first shows that the equation has a solution of every length. `Located` then says that
the scanner never stands on a second character between two rounds, that `line` counts the line ends behind it
(`Before`), and that `column` counts from the last character that ended one. A step over other characters
(`Passing`) changes neither, and `NewLine` adds exactly one to the line.

*Tokens.* `Lexicon` says what comes next in a text without a position or a loop: of all words that begin
here and are a token or trivia, the longest (`Longest`). The scanner reads one character after the other
and never goes back. The proof has four parts.
(a) `TokensFrom` and `ValuesFrom`, which are defined by recursion from the end of a text, are shown to exist and
to satisfy their equations (`TokensFromIs`, `ValuesFromIs`).
(b) For every kind of word, what the scanner has read when it returns is a word of `Lexicon` and no longer
word begins at the same place: `OneIsToken`, `PairIsToken`, `DotsAreToken`, `BinaryIsToken`,
`HexadecimalIsToken`, `DecimalIsToken`, `FloatIsToken`, `WordIsToken`, `StringIsToken`, and, where there is none,
`NothingIsUnknown` and `StringIsBroken`; likewise for what is skipped (`BlankIsSkipped`, `LineCommentIsSkipped`,
`SectionCommentIsSkipped`). They need that the first character decides the kind (`ByLetter`, `ByDigit`,
`ByQuote`, `ByOther`), and, for strings, that a string is taken apart into units in one way only (`OneUnit`): what was
saved up to here, followed by what the rest of the string stands for, is what all of it stands for (`StringSoFar`).
(c) `Begun` says of every loop of `scan()` what has been read since the word began: for a number that its characters
are digits of its base, for a section comment that it was not closed, for a string `StringSoFar`. Each action of
`scan()` goes on with such a word, begins another with the same tokens to come, or returns the next token (`Advances`,
one lemma per action).
(d) `Tracks` is the inductive invariant: what was delivered, then the token in the slot, then the tokens from where
the scanner is (while `scan()` runs: from where its word began) are the tokens of the source. A step that delivers
therefore delivers the next one, which is `Lexicon`'s `Deliver`; every other step is a stutter.

The hypothesis `WordsKnown` is that the texts of `LooksAhead` hold no word that is no token. It is needed: the type of such
a word marks the empty slot of look-ahead, so one that was looked ahead at is dropped and the next call reads on
behind it. No text of the program is concerned, because the parser never looks ahead (`ParserGetsLexemes`).

*The engine.* The theorems about ownership are about `EngineSpec`, in which any client may call anything
at any time, and reach the program through `DriverIsClient`. `ModulesOwned` is not inductive:
`EncodeSucceeds` would lose a module whose name is in the table by then, and `EncodeFails` would delete a
module again. `EInv` adds that the name of what is being encoded is free (`NameFree`), that a module lives as
long as it was not deleted (`Lives`, `Encodes`), and that the end comes between two calls (`Ends`).

*Expressions.* The three properties together are inductive once the stack is known to hold values of
the five types, pointers only with a wrapper of their own, and nothing of 64 bits unless a literal
was wide (`Inv`). The step of an operator takes one or two values off the stack and puts one back, so
the lemmas about it say what `SubSeq` and `Append` leave of the others; a value that stops the encoder
(`Marked`) is either still there, or was an operand, and then the step crashes or marks its result.

*Words.* `MeaningKept` is about every width of a word that has whole hexadecimal digits, so the proof builds its own
arithmetic: the powers of two (`PowIs`), what is left of a number in a word (`ModUnique`, `WordType`), the
signed reading and when two numbers are one word (`SignedWord`, `WordSame`), and operations bit by bit:
the or of a number and digits shifted behind it is their sum (`OrAdds`, which `binstrToValue` and `hexstrToValue`
rest on: `GatheredNumber`), and the complement is the distance to all ones (`FlipIs`). With these, a literal that
fits is encoded as its number (`SoundLiteral`), and each operator computes its meaning: `ArithMeans`, `BitsMeans`,
`CompareMeans` and `LogicMeans`. The invariant `WordInv` says of every value on the stack that its word is one of its type,
that its doubts are known ones, and that without a doubt it is kept (`Stands`); it is inductive beside the
`Inv` of the types. The attempt to prove it showed that the property was false: the remainder of the
smallest number by -1 is 0 and nothing kept it from having a meaning, but LLVM leaves it open along with the quotient.
The doubt "quotient" says so, and an instance that reaches it is now among those TLC checks.

*Recursive functions and induction.* `Second`, `Pow`, the numbers of digits, `TokensFrom` and `ValuesFrom` are
recursive functions. An equation `f = [i \in S |-> ...f...]` says nothing until such a function is known to exist, and
facts about all its values take an induction. Both go through a least counterexample (`LeastNatural`, or, from the
end of a text, `LastPlace`), from which the one step that is wrong follows.

*Assumptions.* `SyntaxAssumption` (the parts of a node are nodes: what the parser builds),
`PointerAssumption` and `NullAssumption` (the model's null values are none of the real ones),
`SourceAssumption` (a text holds no NUL), `WordBitsAssumption`, `FamilyAssumption` and `OutOfWords` (words
have whole hexadecimal digits, literals have digits of their base, as the scanner delivers them, and the
marks in place of words are none),
`MaxCommandsAssumption` (a number). TLC evaluates them in every run, and the hypotheses `NoDeadCode` and `WordsKnown`
for the instances of `codegen_meaning` and `scanner_tokens` (`LiveIsAlive`, `KnownAreKnown`).

*Only model-checked:* `MeaningPreserved` and the verdicts (`DoneIsWellFormed`, `FailedIsIllFormed`,
`CrashedIsIllFormed`), which are about recursive operators over programs and executions; the parser's
properties, since the parser is one recursive operator; and everything that must eventually happen:
`Termination`, `AllDelivered`, `ProgramEnds`, and the fairness of `Custody` in `Keeps`, the safety half of which is
`EngineKeepsCustody`. Of the reason why `AllDelivered` holds the theorems give the half that is safety: no token is
empty (`NoEmptyTokens`), and none is missing when the last one is there (`NothingIsMissing`).

## 5. What is not modelled

*Function definitions and calls.* A definition asks for the symbol of its return type, and none is registered
(`codegen_annotated`); so no value is a function, and what is called is an integer. A call with arguments
asks for the type of a parameter of this integer, which LLVM does not define. A call without arguments
skips the loop that holds the call (`src/omis/x-module-coder.cpp:501`) and runs off the end of a function
that returns a value; the caller then uses what it finds. In neither case does the code decide what comes
next.

*Core and C modules, `llvm-old`.* Nothing constructs the first; the second is not built.

*Within what is modelled:* the digits and the precision of floating point numbers (read as f32, encoded as
f64); a word that is no token and was looked ahead at, since the parser never looks ahead; the depth of
the stack of the parser and the encoder; the map of value wrappers, beyond the null wrapper; parent pointers
and the factory's ownership of nodes; the bridge's arrays, structures and calls; LLVM itself, the parsing of
arguments, printing and the content of files; the vendored base library beyond its character classes and
conversions of numbers. `PROJECT.json` lists every part with its reason.

## 6. Where the code and its documents part

Shown by a run each:

* `parser_documented`: no structure with a member is accepted (the switch at
  `src/app/parser.cxx:822` has no breaks), no import (`parse_import` always returns null), no
  `export val`, and the semicolon after an enumeration is refused;
* `parser_crash`: `x = -(1;` follows a null pointer (`src/app/parser.cxx:311`);
* `codegen_annotated`: no definition with a type is accepted, because no type symbol is registered; nor
  are strings (manual 35) and `proc` (manual 210), for which the encoder has no code;
* `codegen_endsinloop`: a module that ends in a loop or an if makes the encoder ask for the tail of
  an empty block;
* `codegen_lonejump`: the check for a `break` outside a loop reads an uninitialised pointer;
* `expressions_lazy`: `&&` and `||` evaluate both operands, and the second may divide by zero, where the
  manual (113-114) returns the first directly.

Seen while modelling, and built into the models as the code has them:

* the shifts are `|<` and `>|` in the scanner, `<<` and `>>` in the manual (139-140);
* `0.14e2` (manual 33) is read as the number 0.14 and the name e2;
* a `val` may be assigned again (manual 44); `variable` is recorded and read nowhere (`Rules`, "constants");
* an assignment stores a value of any type into a variable of any other (`src/omis/model.cpp:876`), so
  that `var y = true; y = 3;` builds an ill-typed store (`Rules`, "stores");
* besides strings and `proc`, the encoder has no code for arrays (manual 149), structures (160), objects,
  functions (219-226) and calls as statements: they are refused (`Encodable`);
* a field of an object that is written twice silently replaces the first, with whatever its expression
  calls (`src/app/parser.cxx:643`, `src/ast/nodes.h:237`), where a repeated parameter, member of an
  enumeration or export is refused; the order of the parameters of a procedure and of the members of an
  enumeration is not kept (`nodes.h:295` and `306`);
* the phi of a trinary has no entry for the block an arm ends in if that arm is a trinary itself, and only
  one entry if both arms are the same constant (`src/omis/model.cpp:784`);
* binary and hexadecimal prefixes may begin with any digit, which then counts: `9b1` becomes a
  number of three digits, 9, 'b' and 1;
* a pattern of all 32 bits is encoded with 64, and meets 32-bit operands in an instruction LLVM does not have;
* the smallest number modulo -1 is 0, but the instruction chosen for it is one LLVM leaves open for
these operands, as it does their quotient;
* the shift to the right fills in zeros, while division and order are signed; the complement of a number of
  64 bits keeps its upper half;
* after an encoding that failed, the basic types of the next module are wrappers that were deleted;
* the `.ll` file is opened and stays empty, and a second module can never be loaded, for want of names;
* a definition that is itself an arm of an if or the body of a loop stays visible after it (manual 69), so
  that one name in both arms, or again after the if, is refused (`Rules`, "branches");
* lines are miscounted after an empty line.

## 7. Plan

Done: the scanner, the parser, the statement encoder, expressions and literals, the engine and the
driver, with the theorems of section 4. Then, in this order:

1. *Theorems:* that an accepted program without dead code has
   exactly one terminator in each block, which `SealedBlocksStay` and `EveryBlockTerminated` come close to.
2. *Front end composed*: the scanner's delivered tokens as the parser's input, and the parser's
   tree as the encoder's program.
3. *Scopes as a tree*, refined to the chain `Codegen` uses.
4. *Names*: the engine under a client that names its modules, which the theorems already cover.
