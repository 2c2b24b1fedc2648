-------------------------------- MODULE Parser --------------------------------
(***************************************************************************)
(* The parser: parser_t of src/src/app/parser.cxx.  One operator per       *)
(* parse_* function; parse_module's loop is the state machine, one action  *)
(* per round.                                                              *)
(*                                                                         *)
(* A parse state s is where the scanner is (at), where error() was called  *)
(* last (error, 0 if it was not), how the function went (outcome) and what *)
(* it returns (node).  "null" is a null result; a function that gets a     *)
(* null from one of its parts mostly returns at once, and so the operators *)
(* pass a state that is not "ok" on unchanged.  "crash" is a null pointer  *)
(* that was followed.                                                      *)
(*                                                                         *)
(* Parent pointers, which nothing reads, and the ownership of nodes by the *)
(* factory are left out; a literal is its value.                           *)
(***************************************************************************)
EXTENDS SequencesExt

CONSTANTS Inputs,   \* families of token sequences the scanner may deliver, without their EOS
          None      \* a part that is not there: a nullptr the tree keeps

VARIABLES input,    \* the tokens of the text: [type, value]
          state,    \* the parse state, whose node is the last statement or export
          body,     \* module->entry->body
          exports   \* the names of module->exports

vars == <<input, state, body, exports>>

------------------------------------------------------------------------------
(* Tokens. *)

Literal == {"INT_B", "INT_X", "INT_D", "FLOAT", "STRING", "TRUE", "FALSE"}
IntLiteral == {"INT_B", "INT_X", "INT_D"}

\* check_binary_oper: the operators of each priority.
BinaryOper ==
    << {"OR2"}, {"AND2"}, {"EQ", "NE", "LE", "GE", "LT", "GT"}, {"ADD", "SUB"},
       {"MUL", "DIV", "MOD"}, {"AND", "OR", "XOR", "SHIFT_L", "SHIFT_R"}, {}, {} >>
MaxLevel == Len(BinaryOper)
UnaryOper == {"ADD", "SUB", "NOT", "FLIP", "AT", "POUND"}

Current(s) == IF s.at <= Len(input) THEN input[s.at].type ELSE "EOS"
Value(s) == input[s.at].value

OK(s) == s.outcome = "ok"
Has(s, type) == OK(s) /\ Current(s) = type

\* next_token; the end of the source is never left.
Advance(s) == [s EXCEPT !.at = IF @ <= Len(input) THEN @ + 1 ELSE @]
\* error(...); return nullptr;
Error(s) == [s EXCEPT !.error = s.at, !.outcome = "null"]
\* return nullptr; without an error
Silent(s) == [s EXCEPT !.outcome = "null"]
Crash(s) == [s EXCEPT !.outcome = "crash"]
Return(s, node) == IF OK(s) THEN [s EXCEPT !.node = node] ELSE s

\* if(!check_token(type)) return nullptr;
Need(s, type) ==
    IF ~OK(s) THEN s ELSE IF Current(s) = type THEN Advance(s) ELSE Error(s)

\* Faulty: a missing name is not required.
NameInSilence(s) ==
    IF ~OK(s) THEN s
    ELSE IF Current(s) = "ID" THEN [Advance(s) EXCEPT !.node = Value(s)] ELSE Silent(s)

\* A name: check_token(ID, true, false), its value, next_token.
Name(s) ==
    IF ~OK(s) THEN s
    ELSE IF Current(s) = "ID" THEN Return(Advance(s), Value(s)) ELSE Error(s)

\* A name that must not be among those of the list so far.
NewName(s, list) ==
    IF Has(s, "ID") /\ \E i \in DOMAIN list : list[i].name = Value(s) THEN Error(s) ELSE Name(s)

------------------------------------------------------------------------------
(* Lists. *)

(* What calls itself, by itself or through others, does it by way of Parse:   *)
(* a rule is the name of a function and what it is given next to the state.   *)
RECURSIVE Parse(_, _)

Type(s) == Parse(<<"type">>, s)
Expr(s) == Parse(<<"expr">>, s)
Binary(s, level) == Parse(<<"binary", level>>, s)
Operators(s, level) == Parse(<<"operators", level>>, s)
Simple(s) == Parse(<<"simple">>, s)
Suffixed(s) == Parse(<<"suffixed">>, s)
MoreSuffixes(s) == Parse(<<"suffixes">>, s)
Definition(s) == Parse(<<"definition">>, s)
Stmt(s) == Parse(<<"stmt">>, s)
Stmts(s, list, inBlock) == Parse(<<"stmts", list, inBlock>>, s)
Listed(s, kind, close, list) == Parse(<<"listed", kind, close, list>>, s)
Arguments(s, kind, close, list) == Parse(<<"arguments", kind, close, list>>, s)
Params(s) == Listed(Need(s, "LRB"), "param", "RRB", <<>>)

\* parse_object_field: a field without = and : is refused in silence.  The name
\* may be that of an earlier field.
ObjectField(s) ==
    LET name == Name(s)
        value == IF ~OK(name) THEN name
                 ELSE IF Current(name) \in {"ASSIGN", "COLON"} THEN Expr(Advance(name))
                 ELSE Silent(name)
    IN  Return(value, [name |-> name.node, value |-> value.node])

\* A parameter of a function or a procedure.
Parameter(s, list) ==
    LET name == NewName(s, list)
        type == Type(Need(name, "COLON"))
    IN  Return(type, [name |-> name.node, type |-> type.node])

\* A member of an enumeration: its value is the one before plus one.
EnumMember(s, list) ==
    LET name == NewName(s, list)
        next == IF list = <<>> THEN 0 ELSE list[Len(list)].value + 1
        Member(end, value) == Return(end, [name |-> name.node, value |-> value])
    IN  IF ~Has(name, "ASSIGN") THEN Member(name, next)
        ELSE LET given == Advance(name)
             IN  IF Current(given) \in IntLiteral
                 THEN Member(Advance(given), Value(given)) ELSE Error(given)

Element(s, kind, list) ==
    CASE kind = "type" -> Type(s)
      [] kind = "expr" -> Expr(s)
      [] kind = "field" -> ObjectField(s)
      [] kind = "param" -> Parameter(s, list)
      [] kind = "enum" -> EnumMember(s, list)
      \* parse_stmt_struct_member: the switch falls through to its default.
      [] kind = "member" -> Silent(s)

\* do { if(close) break; element } while(separator); close
\* A vector holds the list; a list that a std::map holds becomes one at its end.
ListLoop(s, kind, close, list) ==
    IF ~OK(s) THEN s
    ELSE IF Current(s) = close THEN Return(Advance(s), list)
    ELSE LET e == Element(s, kind, list)
             separator == IF kind = "member" THEN "SEMICOLON" ELSE "COMMA"
         IN  IF Has(e, separator) THEN Listed(Advance(e), kind, close, Append(list, e.node))
             ELSE Return(Need(e, close), Append(list, e.node))

\* while(!close) { if(!first) comma; element }
ArgumentLoop(s, kind, close, list) ==
    IF ~OK(s) THEN s
    ELSE IF Current(s) = close THEN Return(Advance(s), list)
    ELSE LET e == Element(IF list = <<>> THEN s ELSE Need(s, "COMMA"), kind, list)
         IN  IF OK(e) THEN Arguments(e, kind, close, Append(list, e.node)) ELSE e

\* The statements up to a closing brace; a block skips a semicolon after each.
StmtLoop(s, list, inBlock) ==
    IF ~OK(s) THEN s
    ELSE IF Current(s) = "RCB" THEN Return(Advance(s), list)
    ELSE LET t == Stmt(s)
             next == IF inBlock /\ Has(t, "SEMICOLON") THEN Advance(t) ELSE t
         IN  Stmts(next, Append(list, t.node), inBlock)

------------------------------------------------------------------------------
(* Types and expressions. *)

\* The std::map into which the elements of a list are put one after the other:
\* of two with the same name the later stays, and their order is lost.
ByName(list, part) ==
    FoldLeft(LAMBDA map, element : (element.name :> element[part]) @@ map, <<>>, list)

TypeRef(s) ==
    LET name == Name(s)
        args == Arguments(Advance(name), "type", "GT", <<>>)
    IN  IF ~Has(name, "LT") THEN Return(name, [kind |-> "type", name |-> name.node, args |-> <<>>])
        ELSE IF OK(args) /\ args.node = <<>> THEN Error(args)
        ELSE Return(args, [kind |-> "type", name |-> name.node, args |-> args.node])

\* parse_expr_trinary
Trinary(s) ==
    LET cond == Binary(s, 1)
        yes == Expr(Advance(cond))
        no == Expr(Need(yes, "COLON"))
    IN  IF ~Has(cond, "QUESTION") THEN cond
        ELSE Return(no, [kind |-> "trinary", cond |-> cond.node, yes |-> yes.node, no |-> no.node])

FuncDef(s) ==
    LET params == Params(Need(s, "FUNC"))
        rtype == Type(Need(params, "COLON"))
        code == Stmts(Need(rtype, "LCB"), <<>>, FALSE)
    IN  Return(code, [kind |-> "func", args |-> params.node, rtype |-> rtype.node,
                      body |-> code.node])

ObjectDef(s) ==
    LET type == Type(Need(s, "MAKE"))
        fields == Listed(Need(type, "LCB"), "field", "RCB", <<>>)
    IN  Return(fields, [kind |-> "object", type |-> type.node,
                        fields |-> ByName(fields.node, "value")])

ArrayDef(s) ==
    LET elements == Listed(Need(s, "LSB"), "expr", "RSB", <<>>)
    IN  Return(elements, [kind |-> "array", elements |-> elements.node])

Primary(s) ==
    IF Has(s, "LRB") THEN Need(Expr(Advance(s)), "RRB")
    ELSE LET name == Name(s) IN Return(name, [kind |-> "ref", name |-> name.node])

\* parse_object_ref, parse_index_ref, parse_func_call
SuffixLoop(s) ==
    LET key == Name(Advance(s))
        index == Need(Expr(Advance(s)), "RSB")
        args == Arguments(Advance(s), "expr", "RRB", <<>>)
    IN  IF Has(s, "DOT")
        THEN MoreSuffixes(Return(key, [kind |-> "member", obj |-> s.node, key |-> key.node]))
        ELSE IF Has(s, "LSB")
        THEN MoreSuffixes(Return(index, [kind |-> "index", obj |-> s.node, key |-> index.node]))
        ELSE IF Has(s, "LRB")
        THEN MoreSuffixes(Return(args, [kind |-> "call", func |-> s.node, args |-> args.node]))
        ELSE s

\* parse_expr_unary without its operator
SimpleExpr(s) ==
    CASE Current(s) \in Literal ->
            Return(Advance(s), [kind |-> "literal", type |-> Current(s), value |-> Value(s)])
      [] Current(s) = "FUNC" -> FuncDef(s)
      [] Current(s) = "MAKE" -> ObjectDef(s)
      [] Current(s) = "LSB" -> ArrayDef(s)
      [] Current(s) \in {"ID", "LRB"} -> Suffixed(s)
      [] OTHER -> Error(s)

SimpleStart == Literal \union {"FUNC", "MAKE", "LSB", "ID", "LRB"}

\* The operand of an operator is linked to it whether it is null or not.
Unary(s) ==
    LET operand == Advance(s)
        right == Simple(operand)
    IN  IF ~OK(s) THEN s
        ELSE IF Current(s) \notin UnaryOper THEN Simple(s)
        ELSE IF right.outcome = "null" /\ Current(operand) \in SimpleStart THEN Crash(right)
        ELSE Return(right, [kind |-> "unary", op |-> Current(s), right |-> right.node])

Operand(s, level) == IF level < MaxLevel THEN Binary(s, level + 1) ELSE Unary(s)

\* Faulty: an operator takes all that follows on its level as its right operand.
OperatorLoopRight(s, level) ==
    LET right == Binary(Advance(s), level)
    IN  IF ~OK(s) \/ Current(s) \notin BinaryOper[level] THEN s
        ELSE IF right.outcome = "null" THEN Error(right)
        ELSE Return(right, [kind |-> "binary", op |-> Current(s), left |-> s.node,
                            right |-> right.node])

\* Faulty: a missing right operand is linked to its operator.
OperatorLoopUnchecked(s, level) ==
    LET right == Operand(Advance(s), level)
    IN  IF ~OK(s) \/ Current(s) \notin BinaryOper[level] THEN s
        ELSE IF right.outcome = "null" THEN Crash(right)
        ELSE Operators(Return(right, [kind |-> "binary", op |-> Current(s), left |-> s.node,
                                      right |-> right.node]), level)

\* The loop of parse_expr_binary.
OperatorLoop(s, level) ==
    LET right == Operand(Advance(s), level)
    IN  IF ~OK(s) \/ Current(s) \notin BinaryOper[level] THEN s
        ELSE IF right.outcome = "null" THEN Error(right)
        ELSE Operators(Return(right, [kind |-> "binary", op |-> Current(s), left |-> s.node,
                                      right |-> right.node]), level)

------------------------------------------------------------------------------
(* Statements. *)

StructDef(s) ==
    LET name == Name(Need(s, "STRUCT"))
        members == Listed(Need(name, "LCB"), "member", "RCB", <<>>)
    IN  Return(members, [kind |-> "struct", name |-> name.node, members |-> members.node])

EnumDef(s) ==
    LET name == Name(Need(s, "ENUM"))
        members == Listed(Need(name, "LCB"), "enum", "RCB", <<>>)
    IN  Return(members, [kind |-> "enum", name |-> name.node,
                         members |-> ByName(members.node, "value")])

ProcDef(s) ==
    LET name == Name(Need(s, "PROC"))
        params == Params(name)
        type == Type(Need(params, "COLON"))
    IN  Return(type, [kind |-> "proc", name |-> name.node,
                      args |-> ByName(params.node, "type"), type |-> type.node])

\* A definition: anything but var and val is refused in silence.
SymbolDef(s) ==
    LET name == Name(Advance(s))
        type == IF Has(name, "COLON") THEN Type(Advance(name)) ELSE Return(name, None)
        value == Expr(Need(type, "ASSIGN"))
    IN  IF ~OK(s) THEN s
        ELSE IF Current(s) \notin {"VAR", "VAL"} THEN Silent(s)
        ELSE Return(value, [kind |-> "def", variable |-> Current(s) = "VAR", name |-> name.node,
                            type |-> type.node, value |-> value.node])

ReturnStmt(s) ==
    LET start == Need(s, "RETURN")
        value == IF Has(start, "SEMICOLON") THEN Return(start, None) ELSE Expr(start)
    IN  Return(value, [kind |-> "return", value |-> value.node])

\* Faulty: an else is left to the statement around the if.
IfWithoutElse(s) ==
    LET cond == Expr(Need(Need(s, "IF"), "LRB"))
        yes == Stmt(Need(cond, "RRB"))
    IN  Return(yes, [kind |-> "if", cond |-> cond.node, yes |-> yes.node, no |-> None])

If(s) ==
    LET cond == Expr(Need(Need(s, "IF"), "LRB"))
        yes == Stmt(Need(cond, "RRB"))
        no == IF Has(yes, "ELSE") THEN Stmt(Advance(yes)) ELSE Return(yes, None)
    IN  Return(no, [kind |-> "if", cond |-> cond.node, yes |-> yes.node, no |-> no.node])

AssignOrCall(s) ==
    LET left == Suffixed(s)
        right == Expr(Advance(left))
    IN  IF ~OK(left) THEN left
        ELSE IF Current(left) = "ASSIGN"
        THEN Return(right, [kind |-> "assign", left |-> left.node, right |-> right.node])
        ELSE IF left.node.kind = "call" THEN Return(left, [kind |-> "invoke", call |-> left.node])
        ELSE Error(left)

Loop(s) ==
    LET init == Definition(Need(Need(s, "LOOP"), "LRB"))
        cond == Expr(Need(init, "SEMICOLON"))
        start == Need(cond, "SEMICOLON")
        step == IF ~OK(start) THEN start
                ELSE IF Current(start) \in {"VAR", "VAL"} THEN Definition(start)
                ELSE AssignOrCall(start)
        code == Stmt(Need(step, "RRB"))
    IN  Return(code, [kind |-> "loop", init |-> init.node, cond |-> cond.node,
                      step |-> step.node, body |-> code.node])

Block(s) ==
    LET stmts == Stmts(Need(s, "LCB"), <<>>, TRUE)
    IN  Return(stmts, [kind |-> "block", body |-> stmts.node])

\* The statements that end themselves; all others end in a semicolon.
SelfEnding == {"STRUCT", "ENUM", "IF", "LOOP", "LCB"}

Statement(s) ==
    LET type == Current(s)
        stmt == CASE type = "STRUCT" -> StructDef(s)
                  [] type = "ENUM" -> EnumDef(s)
                  [] type = "PROC" -> ProcDef(s)
                  [] type \in {"VAR", "VAL"} -> Definition(s)
                  [] type = "BREAK" -> Return(Advance(s), [kind |-> "break"])
                  [] type = "CONTINUE" -> Return(Advance(s), [kind |-> "continue"])
                  [] type = "RETURN" -> ReturnStmt(s)
                  [] type = "IF" -> If(s)
                  [] type = "LOOP" -> Loop(s)
                  [] type = "LCB" -> Block(s)
                  [] OTHER -> AssignOrCall(s)
    IN  IF ~OK(s) THEN s
        ELSE IF type \in SelfEnding \/ stmt.outcome = "crash" THEN stmt
        \* the semicolon is looked for even when the statement is null
        ELSE IF Current(stmt) = "SEMICOLON" THEN Advance(stmt) ELSE Error(stmt)

Parse(rule, s) ==
    CASE rule[1] = "type" -> TypeRef(s)
      [] rule[1] = "expr" -> Trinary(s)
      [] rule[1] = "binary" -> Operators(Operand(s, rule[2]), rule[2])
      [] rule[1] = "operators" -> OperatorLoop(s, rule[2])
      [] rule[1] = "simple" -> SimpleExpr(s)
      [] rule[1] = "suffixed" -> MoreSuffixes(Primary(s))
      [] rule[1] = "suffixes" -> SuffixLoop(s)
      [] rule[1] = "definition" -> SymbolDef(s)
      [] rule[1] = "stmt" -> Statement(s)
      [] rule[1] = "stmts" -> StmtLoop(s, rule[2], rule[3])
      [] rule[1] = "listed" -> ListLoop(s, rule[2], rule[3], rule[4])
      [] rule[1] = "arguments" -> ArgumentLoop(s, rule[2], rule[3], rule[4])

------------------------------------------------------------------------------
(* The module: parse_module. *)

\* Faulty: an import with an error is not refused but tried again.
ImportTriedAgain(s) ==
    LET colon == Need(Name(Need(s, "IMPORT")), "COLON")
    IN  IF OK(colon) THEN Silent(Advance(colon)) ELSE [s EXCEPT !.error = s.at]

\* parse_import returns nullptr even where everything was found.
Import(s) ==
    LET colon == Need(Name(Need(s, "IMPORT")), "COLON")
    IN  IF ~OK(colon) THEN colon
        ELSE IF Current(colon) = "STRING" THEN Silent(Advance(colon)) ELSE Error(colon)

Export(s) == Name(Need(s, "EXPORT"))

Init ==
    /\ \E family \in Inputs : input \in family
    /\ state = [at |-> 1, error |-> 0, outcome |-> "ok", node |-> None]
    /\ body = <<>>
    /\ exports = {}

Parsing == OK(state) /\ Current(state) # "EOS"

ParseImport ==
    /\ Parsing
    /\ Current(state) = "IMPORT"
    /\ state' = Import(state)
    /\ UNCHANGED <<input, body, exports>>

ParseExport ==
    /\ Parsing
    /\ Current(state) = "EXPORT"
    /\ LET s == Export(state)
       IN  IF OK(s) /\ s.node \in exports
           THEN state' = Error(s) /\ UNCHANGED exports
           ELSE /\ state' = s
                /\ exports' = IF OK(s) THEN exports \union {s.node} ELSE exports
    /\ UNCHANGED <<input, body>>

ParseStmt ==
    /\ Parsing
    /\ Current(state) \notin {"IMPORT", "EXPORT"}
    /\ LET s == Stmt(state)
       IN  /\ state' = s
           /\ body' = IF OK(s) THEN Append(body, s.node) ELSE body
    /\ UNCHANGED <<input, exports>>

Done == ~Parsing /\ UNCHANGED vars

Next == ParseImport \/ ParseExport \/ ParseStmt \/ Done

Spec == Init /\ [][Next]_vars

=============================================================================
