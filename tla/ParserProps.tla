----------------------------- MODULE ParserProps ------------------------------
(***************************************************************************)
(* What the parser promises.  Written is the inverse of the parser: how   *)
(* a tree is written down, with the parentheses its operators need and no  *)
(* others.                                                                 *)
(***************************************************************************)
EXTENDS Parser

CONSTANTS Program,      \* the trees that are written down: sequences of statements
          NameOrder     \* the names in the order of the strings, that of a std::map

Finished == ~Parsing

------------------------------------------------------------------------------
(* How a tree is written. *)

Mark(type) == <<[type |-> type, value |-> None]>>
Word(type, value) == <<[type |-> type, value |-> value]>>
Id(name) == Word("ID", name)

\* How tightly an expression holds together: 0 for the trinary, the operators
\* by their level, then what an unary operator and what a suffix applies to.
Tightness(e) ==
    CASE e.kind = "trinary" -> 0
      [] e.kind = "binary" -> CHOOSE level \in 1 .. MaxLevel : e.op \in BinaryOper[level]
      [] e.kind = "unary" -> MaxLevel + 1
      [] e.kind \in {"literal", "func", "object", "array"} -> MaxLevel + 2
      [] OTHER -> MaxLevel + 3
Loosest == 0
ForUnary == MaxLevel + 2
ForSuffix == MaxLevel + 3

\* The texts of a list with a mark between them.
Between(mark, texts) ==
    FlattenSeq([i \in DOMAIN texts |-> IF i = 1 THEN texts[i] ELSE Mark(mark) \o texts[i]])

RECURSIVE TypeText(_), ExprText(_, _), StmtText(_)

TypeText(t) ==
    IF t.args = <<>> THEN Id(t.name)
    ELSE Id(t.name) \o Mark("LT")
         \o Between("COMMA", [i \in DOMAIN t.args |-> TypeText(t.args[i])]) \o Mark("GT")

\* The names in a map, in its order.
Keys(map) == SelectSeq(NameOrder, LAMBDA name : name \in DOMAIN map)

StmtsText(stmts) == FlattenSeq([i \in DOMAIN stmts |-> StmtText(stmts[i])])

ParamsText(params) ==   \* of a function: a sequence
    Mark("LRB")
    \o Between("COMMA", [i \in DOMAIN params |->
           Id(params[i].name) \o Mark("COLON") \o TypeText(params[i].type)])
    \o Mark("RRB")

ExprsText(exprs) == Between("COMMA", [i \in DOMAIN exprs |-> ExprText(exprs[i], Loosest)])

BareText(e) ==
    CASE e.kind = "trinary" ->
            ExprText(e.cond, 1) \o Mark("QUESTION") \o ExprText(e.yes, Loosest)
            \o Mark("COLON") \o ExprText(e.no, Loosest)
      [] e.kind = "binary" ->
            ExprText(e.left, Tightness(e)) \o Mark(e.op) \o ExprText(e.right, Tightness(e) + 1)
      [] e.kind = "unary" -> Mark(e.op) \o ExprText(e.right, ForUnary)
      [] e.kind = "literal" -> Word(e.type, e.value)
      [] e.kind = "ref" -> Id(e.name)
      [] e.kind = "member" -> ExprText(e.obj, ForSuffix) \o Mark("DOT") \o Id(e.key)
      [] e.kind = "index" ->
            ExprText(e.obj, ForSuffix) \o Mark("LSB") \o ExprText(e.key, Loosest) \o Mark("RSB")
      [] e.kind = "call" ->
            ExprText(e.func, ForSuffix) \o Mark("LRB") \o ExprsText(e.args) \o Mark("RRB")
      [] e.kind = "array" -> Mark("LSB") \o ExprsText(e.elements) \o Mark("RSB")
      [] e.kind = "object" ->
            Mark("MAKE") \o TypeText(e.type) \o Mark("LCB")
            \o Between("COMMA", [i \in DOMAIN Keys(e.fields) |->
                   Id(Keys(e.fields)[i]) \o Mark("ASSIGN")
                   \o ExprText(e.fields[Keys(e.fields)[i]], Loosest)])
            \o Mark("RCB")
      [] e.kind = "func" ->
            Mark("FUNC") \o ParamsText(e.args) \o Mark("COLON") \o TypeText(e.rtype)
            \o Mark("LCB") \o StmtsText(e.body) \o Mark("RCB")

ExprText(e, tightness) ==
    IF Tightness(e) < tightness THEN Mark("LRB") \o BareText(e) \o Mark("RRB") ELSE BareText(e)

\* A member's value is written where it is not the one before plus one.
MembersText(members) ==
    Between("COMMA", [i \in DOMAIN Keys(members) |->
        LET value(k) == members[Keys(members)[k]]
            expected == IF i = 1 THEN 0 ELSE value(i - 1) + 1
        IN  IF value(i) = expected THEN Id(Keys(members)[i])
            ELSE Id(Keys(members)[i]) \o Mark("ASSIGN") \o Word("INT_D", value(i))])

DefText(d) ==
    Mark(IF d.variable THEN "VAR" ELSE "VAL") \o Id(d.name)
    \o (IF d.type = None THEN <<>> ELSE Mark("COLON") \o TypeText(d.type))
    \o Mark("ASSIGN") \o ExprText(d.value, Loosest)

\* A statement without the semicolon that ends it.
OpenText(s) ==
    CASE s.kind = "def" -> DefText(s)
      [] s.kind = "assign" ->
            ExprText(s.left, ForSuffix) \o Mark("ASSIGN") \o ExprText(s.right, Loosest)
      [] s.kind = "invoke" -> BareText(s.call)
      [] s.kind = "return" ->
            Mark("RETURN") \o (IF s.value = None THEN <<>> ELSE ExprText(s.value, Loosest))
      [] s.kind = "break" -> Mark("BREAK")
      [] s.kind = "continue" -> Mark("CONTINUE")
      [] s.kind = "proc" ->
            Mark("PROC") \o Id(s.name)
            \o ParamsText([i \in DOMAIN Keys(s.args) |->
                   [name |-> Keys(s.args)[i], type |-> s.args[Keys(s.args)[i]]]])
            \o Mark("COLON") \o TypeText(s.type)

StmtText(s) ==
    CASE s.kind = "if" ->
            Mark("IF") \o Mark("LRB") \o ExprText(s.cond, Loosest) \o Mark("RRB") \o StmtText(s.yes)
            \o (IF s.no = None THEN <<>> ELSE Mark("ELSE") \o StmtText(s.no))
      [] s.kind = "loop" ->
            Mark("LOOP") \o Mark("LRB") \o OpenText(s.init) \o Mark("SEMICOLON")
            \o ExprText(s.cond, Loosest) \o Mark("SEMICOLON") \o OpenText(s.step) \o Mark("RRB")
            \o StmtText(s.body)
      [] s.kind = "block" -> Mark("LCB") \o StmtsText(s.body) \o Mark("RCB")
      [] s.kind = "enum" ->
            Mark("ENUM") \o Id(s.name) \o Mark("LCB") \o MembersText(s.members) \o Mark("RCB")
      [] OTHER -> OpenText(s) \o Mark("SEMICOLON")

Written == {[tree |-> p, text |-> StmtsText(p)] : p \in Program}

------------------------------------------------------------------------------
(* Properties. *)

\* A tree that is written down is read back as it was: the levels of the
\* operators, to which side they associate, to which if an else belongs, what
\* a suffix applies to and which value a member of an enumeration gets.
\* (parse_expr_trinary, parse_expr_binary, parse_expr_unary,
\* parse_expr_suffixed and all parse_stmt_* functions.)
ReadsBack ==
    Finished => \A w \in Written : w.text = input => OK(state) /\ body = w.tree

\* What a text may hold and its tree not: marks that may be left out.
Spare == {"LRB", "RRB", "COMMA", "SEMICOLON"}

RECURSIVE Embeds(_, _)
Embeds(short, long) ==
    IF long = <<>> THEN short = <<>>
    ELSE IF short # <<>> /\ Head(short) = Head(long) THEN Embeds(Tail(short), Tail(long))
    ELSE Head(long).type \in Spare /\ Embeds(short, Tail(long))

Closing == [LRB |-> "RRB", LSB |-> "RSB", LCB |-> "RCB"]
Opened(open, token) ==
    IF token.type \in DOMAIN Closing THEN <<Closing[token.type]>> \o open
    ELSE IF token.type \notin {"RRB", "RSB", "RCB"} THEN open
    ELSE IF open # <<>> /\ Head(open) = token.type THEN Tail(open)
    ELSE <<"wrong">> \o open

\* The places of the brackets that are open before token i, innermost first.
OpenBefore(i) ==
    FoldLeft(LAMBDA open, j :
                 IF input[j].type \in DOMAIN Closing THEN <<j>> \o open
                 ELSE IF input[j].type \in {"RRB", "RSB", "RCB"} /\ open # <<>> THEN Tail(open)
                 ELSE open,
             <<>>, [j \in 1 .. i - 1 |-> j])

\* Whose bracket opens at b: what stands before a name or a type.
Owner(b) ==
    LET before == {j \in 1 .. b - 1 : input[j].type \notin {"ID", "LT", "GT", "COMMA"}}
    IN  IF before = {} THEN "EOS" ELSE input[Max(before)].type

\* Where the names stand by which the elements of the list at b are kept.
KeyPlaces(b) ==
    {i \in b + 1 .. Len(input) - 1 :
        /\ input[i].type = "ID"
        /\ i = b + 1 \/ input[i - 1].type = "COMMA"
        /\ Owner(b) # "ENUM" => input[i + 1].type \in {"ASSIGN", "COLON"}
        /\ OpenBefore(i) # <<>> /\ Head(OpenBefore(i)) = b}

KeyPlacesOf(owner) ==
    UNION {KeyPlaces(b) : b \in {j \in DOMAIN input : /\ input[j].type \in DOMAIN Closing
                                                     /\ Owner(j) = owner}}

\* The fields of an object, the members of an enumeration and the parameters of
\* a procedure are all different and in the order of their names.
KeptAsWritten ==
    LET rank(i) == SelectInSeq(NameOrder, LAMBDA name : name = input[i].value)
    IN  \A owner \in {"MAKE", "ENUM", "PROC"} : \A i, j \in KeyPlacesOf(owner) :
            i < j /\ Head(OpenBefore(i)) = Head(OpenBefore(j)) => rank(i) < rank(j)

\* The text with = for every colon after the name of a field.
Respelled ==
    [i \in DOMAIN input |->
        IF input[i].type = "COLON" /\ i - 1 \in KeyPlacesOf("MAKE") THEN Mark("ASSIGN")[1]
        ELSE input[i]]

\* Whatever the parser accepts, it accepts as a whole: its brackets match, and
\* the tree written down is the text again but for spare parentheses, commas
\* and semicolons and the colon a field may have for its =; nothing is skipped, read twice or moved.  Left out are the
\* texts in which an object has two fields of one name, where the first is
\* dropped without an error (node->members[key] = expr, parser.cxx:643), and
\* those whose fields, members of an enumeration or parameters of a procedure
\* are not in the order of their std::map, which moves them.
TreeIsTheText ==
    Finished /\ OK(state) /\ exports = {} =>
        /\ KeptAsWritten => Embeds(StmtsText(body), Respelled)
        /\ FoldLeft(Opened, <<>>, input) = <<>>

\* The constructs that are refused in silence: an import, a member of a
\* structure, a field of an object, a loop without a definition.
Silenced == {"IMPORT", "STRUCT", "MAKE", "LOOP"}

\* A null result comes with an error to print, which is all eokas_main tells
\* its user, except in the constructs that are known to be silent.
RefusalIsReported ==
    state.outcome = "null" /\ state.error = 0 =>
        \E i \in DOMAIN input : input[i].type \in Silenced

\* Only the operand of an unary operator is followed without a check.
CrashNeedsUnary ==
    state.outcome = "crash" =>
        \E i \in 2 .. Len(input) :
            /\ input[i - 1].type \in UnaryOper
            /\ input[i].type \in {"FUNC", "MAKE", "LSB", "ID", "LRB"}

\* Every round of parse_module reads at least one token or is the last, so that
\* the loop ends; no token is read again.
ReadsOn == [][state'.at > state.at \/ state'.outcome # "ok"]_vars

\* The comment at parse_func_call: a node must not be built around a null
\* pointer, "otherwise it crashes".
NeverCrashes == state.outcome # "crash"

\* What the manual or a grammar comment shows is accepted.
DocumentedIsAccepted == Finished => OK(state)

=============================================================================
