------------------------------- MODULE Scanner -------------------------------
(***************************************************************************)
(* The scanner: scanner_t of src/src/app/scanner.cxx.  It owns a pointer   *)
(* into a NUL-terminated source, one character read ahead (m_current), the *)
(* last token and one slot for a token of look-ahead.                      *)
(*                                                                         *)
(* A call of next_token or look_ahead_token runs scan(), whose loops are   *)
(* unrolled here: one action is one round of a loop, or the code before    *)
(* it, and mode says which loop scan() is in.                              *)
(***************************************************************************)
EXTENDS Characters, Naturals, Sequences

CONSTANTS Char,        \* the characters of sources, as strings
          Source,      \* the texts a caller may hand to ready(): sequences of Char
          Keyword,     \* the names of token_t::names that are spelled with letters
          LooksAhead   \* the texts whose caller uses look_ahead_token (the parser never does)

ASSUME SourceAssumption ==
    /\ Source \subseteq Seq(Char)
    /\ Keyword \subseteq Seq(Char)
    /\ NUL \notin Char
    /\ LooksAhead \subseteq Source

VARIABLES
    source,      \* m_source
    position,    \* how many characters were read: m_current is the last of them
    line, column,
    mode,        \* "idle" between two calls, or the loop of scan() that is running
    delimiter,   \* scan_string's parameter
    token,       \* m_token
    ahead,       \* m_look_ahead_token
    kept,        \* look_ahead_token's copy of m_token
    purpose,     \* which call runs scan()
    delivered    \* what next_token delivered, up to the first token nobody goes beyond

place == <<position, line, column>>
call == <<source, kept, purpose>>
vars == <<source, place, mode, delimiter, token, ahead, kept, purpose, delivered>>

------------------------------------------------------------------------------
(* Characters. *)

\* The operators of two characters, and what their first one is alone.
Pairs == {<<"&", "&", "AND2">>, <<"|", "|", "OR2">>, <<"|", "<", "SHIFT_L">>,
          <<"=", "=", "EQ">>, <<"<", "=", "LE">>, <<">", "|", "SHIFT_R">>,
          <<">", "=", "GE">>, <<"!", "=", "NE">>}
Firsts == {<<"&", "AND">>, <<"|", "OR">>, <<"=", "ASSIGN">>, <<"<", "LT">>, <<">", "GT">>,
           <<"!", "NOT">>}
Singles == {<<",", "COMMA">>, <<";", "SEMICOLON">>, <<":", "COLON">>, <<"?", "QUESTION">>,
            <<"@", "AT">>, <<"#", "POUND">>, <<"$", "DOLLAR">>, <<"+", "ADD">>, <<"-", "SUB">>,
            <<"*", "MUL">>, <<"%", "MOD">>, <<"^", "XOR">>, <<"~", "FLIP">>, <<"(", "LRB">>,
            <<")", "RRB">>, <<"[", "LSB">>, <<"]", "RSB">>, <<"{", "LCB">>, <<"}", "RCB">>}
TypeIn(table, c) == (CHOOSE t \in table : t[1] = c)[2]
Has(table, c) == \E t \in table : t[1] = c

\* The character at p, the terminator included.
At(p) == IF p <= Len(source) THEN source[p] ELSE NUL
Current == At(position)

------------------------------------------------------------------------------
(* Tokens and calls. *)

Token(type, value) == [type |-> type, value |-> value]

\* token_t::clear: the mark of an empty look-ahead slot, too.
NoToken == Token("UNKNOWN", <<>>)

\* Nobody asks for more after these: the parser ends or gives up.
Final(t) == t.type \in {"EOS", "UNKNOWN"}
Stopped == delivered # <<>> /\ Final(delivered[Len(delivered)])

Record(t) == delivered' = IF Stopped THEN delivered ELSE Append(delivered, t)

\* k calls of read_char, none of them on the terminator.
Read(k) ==
    /\ position' = position + k
    /\ column' = column + k
    /\ UNCHANGED line

\* scan() goes on in loop m, with word added to the value of the token.
Goto(m, word) ==
    /\ mode' = m
    /\ token' = [token EXCEPT !.value = @ \o word]
    /\ UNCHANGED <<call, delimiter, ahead, delivered>>

\* Faulty: look_ahead_token leaves its token in m_token.
FinishAhead(type, word) ==
    LET t == Token(type, token.value \o word)
    IN  /\ mode' = "idle"
        /\ token' = t
        /\ \/ purpose = "next" /\ Record(t) /\ UNCHANGED ahead
           \/ purpose = "ahead" /\ ahead' = t /\ UNCHANGED delivered
        /\ UNCHANGED <<call, delimiter>>

\* scan() returns: to next_token, or to look_ahead_token, which moves the token
\* to its slot and puts m_token back.
Finish(type, word) ==
    LET t == Token(type, token.value \o word)
    IN  /\ mode' = "idle"
        /\ \/ purpose = "next" /\ token' = t /\ Record(t) /\ UNCHANGED ahead
           \/ purpose = "ahead" /\ token' = kept /\ ahead' = t /\ UNCHANGED delivered
        /\ UNCHANGED <<call, delimiter>>

\* One round of "while (current in class) save_and_read_char", then the exit.
Loop(class, type) ==
    \/ Current \in class /\ Read(1) /\ Goto(mode, <<Current>>)
    \/ Current \notin class /\ UNCHANGED place /\ Finish(type, <<>>)

Begin(for) ==
    /\ purpose' = for
    /\ mode' = "scan"
    /\ kept' = token
    /\ token' = NoToken
    /\ UNCHANGED <<source, place, delimiter, ahead, delivered>>

\* Faulty: the slot is not emptied.
NextTokenTwice ==
    /\ mode = "idle"
    /\ \/ ahead.type = "UNKNOWN" /\ Begin("next")
       \/ /\ ahead.type # "UNKNOWN"
          /\ token' = ahead
          /\ Record(ahead)
          /\ UNCHANGED <<call, place, mode, delimiter, ahead>>

NextToken ==
    /\ mode = "idle"
    /\ \/ ahead.type = "UNKNOWN" /\ Begin("next")
       \/ /\ ahead.type # "UNKNOWN"
          /\ token' = ahead
          /\ Record(ahead)
          /\ ahead' = NoToken
          /\ UNCHANGED <<call, place, mode, delimiter>>

\* With a token in the slot, look_ahead_token changes nothing.
LookAheadToken ==
    /\ source \in LooksAhead
    /\ mode = "idle"
    /\ ahead.type = "UNKNOWN"
    /\ Begin("ahead")

------------------------------------------------------------------------------
(* scan(), at the top of its loop. *)

Scanning(class) == mode = "scan" /\ Current \in class

\* Faulty: the loop goes on at the end of the source.
ScanEndAgain ==
    /\ Scanning({NUL})
    /\ Goto("scan", <<>>)
    /\ UNCHANGED place

ScanEnd ==
    /\ Scanning({NUL})
    /\ Finish("EOS", <<>>)
    /\ UNCHANGED place

\* new_line: \r\n and \n\r end one line, and so does \n\n.
NewLine ==
    LET next == At(position + 1)
        two == next = "\n" \/ (next = "\r" /\ Current # "\r")
    IN  /\ position' = position + (IF two THEN 2 ELSE 1)
        /\ line' = line + 1
        /\ column' = 0

ScanNewLine ==
    /\ Scanning(NewLineChar)
    /\ NewLine
    /\ Goto("scan", <<>>)

ScanSpace ==
    /\ Scanning(Space)
    /\ Read(1)
    /\ Goto("scan", <<>>)

\* A comment begins, or the slash is an operator.
ScanSlash ==
    /\ Scanning({"/"})
    /\ \/ At(position + 1) = "/" /\ Read(2) /\ Goto("lineComment", <<>>)
       \/ At(position + 1) = "*" /\ Read(2) /\ Goto("sectionComment", <<>>)
       \/ At(position + 1) \notin {"/", "*"} /\ Read(1) /\ Finish("DIV", <<"/">>)

ScanOperator ==
    /\ mode = "scan"
    /\ Has(Firsts, Current)
    /\ LET second == At(position + 1)
           pairs == {p \in Pairs : p[1] = Current /\ p[2] = second}
       IN  \/ /\ pairs # {}
              /\ Read(2)
              /\ Finish((CHOOSE p \in pairs : TRUE)[3], <<Current, second>>)
           \/ /\ pairs = {}
              /\ Read(1)
              /\ Finish(TypeIn(Firsts, Current), <<Current>>)

\* Faulty: two dots are two tokens.
ScanDotsOneByOne ==
    /\ Scanning({"."})
    /\ \/ /\ At(position + 1) = "." /\ At(position + 2) = "."
          /\ Read(3) /\ Finish("DOT3", <<".", ".", ".">>)
       \/ ~(At(position + 1) = "." /\ At(position + 2) = ".") /\ Read(1) /\ Finish("DOT", <<".">>)

ScanDots ==
    /\ Scanning({"."})
    /\ \/ At(position + 1) # "." /\ Read(1) /\ Finish("DOT", <<".">>)
       \/ /\ At(position + 1) = "." /\ At(position + 2) # "."
          /\ Read(2) /\ Finish("DOT2", <<".", ".">>)
       \/ /\ At(position + 1) = "." /\ At(position + 2) = "."
          /\ Read(3) /\ Finish("DOT3", <<".", ".", ".">>)

\* scan_number up to its loops: whatever the first digit is, b and x are prefixes.
ScanNumber ==
    /\ Scanning(Digit)
    /\ LET second == At(position + 1)
       IN  \/ second \in {"b", "B"} /\ Read(2) /\ Goto("binary", <<Current, second>>)
           \/ second \in {"x", "X"} /\ Read(2) /\ Goto("hex", <<Current, second>>)
           \/ /\ second \notin {"b", "B", "x", "X"}
              /\ Read(1) /\ Goto("decimal", <<Current>>)

ScanQuote ==
    /\ Scanning(Quote)
    /\ Read(1)
    /\ delimiter' = Current
    /\ mode' = "string"
    /\ UNCHANGED <<call, token, ahead, delivered>>

ScanLetter ==
    /\ Scanning(Letter)
    /\ Read(1)
    /\ Goto("identifier", <<Current>>)

\* Any other character is an operator of its own, or no token at all.
ScanSingle ==
    /\ mode = "scan"
    /\ Current \notin UNION {{NUL, "/", "."}, NewLineChar, Space, Digit, Quote, Letter}
    /\ ~Has(Firsts, Current)
    /\ Read(1)
    /\ Finish(IF Has(Singles, Current) THEN TypeIn(Singles, Current) ELSE "UNKNOWN", <<Current>>)

------------------------------------------------------------------------------
(* The loops of the helpers. *)

Binary == mode = "binary" /\ Loop(Bit, "INT_B")
Hexadecimal == mode = "hex" /\ Loop(Hex, "INT_X")
Fraction == mode = "fraction" /\ Loop(Digit, "FLOAT")

Decimal ==
    /\ mode = "decimal"
    /\ \/ Current # "." /\ Loop(Digit, "INT_D")
       \/ Current = "." /\ Read(1) /\ Goto("fraction", <<".">>)

\* token_t::infer: the word is a keyword or an identifier.
Identifier ==
    /\ mode = "identifier"
    /\ Loop(Letter \union Digit, IF token.value \in Keyword THEN "keyword" ELSE "ID")

\* scan_string: a character, an escape sequence, the end, or no string at all.
StringChar ==
    /\ mode = "string"
    /\ Current \notin UNION {{delimiter, NUL, "\\"}, NewLineChar}
    /\ Read(1)
    /\ Goto("string", <<Current>>)

\* Faulty: whatever follows a backslash is kept.
StringEscapeAny ==
    /\ mode = "string"
    /\ Current = "\\"
    /\ LET letter == At(position + 1)
       IN  Read(2) /\ Goto("string", <<Unescaped(letter)>>)

StringEscape ==
    /\ mode = "string"
    /\ Current = "\\"
    /\ LET letter == At(position + 1)
           first == At(position + 2)
           second == At(position + 3)
       IN  \/ letter \in Escapes /\ Read(2) /\ Goto("string", <<Unescaped(letter)>>)
           \/ /\ letter = "x" /\ first \in Hex /\ second \in Hex
              /\ Read(4) /\ Goto("string", <<first, second>>)
           \/ /\ letter = "x" /\ first \in Hex /\ second \notin Hex
              /\ Read(3) /\ Finish("UNKNOWN", <<first>>)
           \/ letter = "x" /\ first \notin Hex /\ Read(2) /\ Finish("UNKNOWN", <<>>)
           \/ letter \notin Escapes \union {"x"} /\ Read(1) /\ Finish("UNKNOWN", <<>>)

StringBroken ==
    /\ mode = "string"
    /\ Current \in {NUL} \union NewLineChar
    /\ Finish("UNKNOWN", <<>>)
    /\ UNCHANGED place

StringEnd ==
    /\ mode = "string"
    /\ Current = delimiter
    /\ Read(1)
    /\ Finish("STRING", <<>>)

LineComment ==
    /\ mode = "lineComment"
    /\ \/ Current \notin NewLineChar \union {NUL} /\ Read(1) /\ Goto(mode, <<>>)
       \/ Current \in NewLineChar \union {NUL} /\ UNCHANGED place /\ Goto("scan", <<>>)

\* Faulty: a line end in a comment is skipped like any character.
SectionCommentOneLine ==
    /\ mode = "sectionComment"
    /\ \/ Current = NUL /\ UNCHANGED place /\ Goto("scan", <<>>)
       \/ Current \notin {"*", NUL} /\ Read(1) /\ Goto(mode, <<>>)
       \/ Current = "*" /\ At(position + 1) = "/" /\ Read(2) /\ Goto("scan", <<>>)
       \/ Current = "*" /\ At(position + 1) # "/" /\ Read(1) /\ Goto(mode, <<>>)

\* scan_section_comment: the end of the source closes the comment.
SectionComment ==
    /\ mode = "sectionComment"
    /\ \/ Current = NUL /\ UNCHANGED place /\ Goto("scan", <<>>)
       \/ Current \in NewLineChar /\ NewLine /\ Goto(mode, <<>>)
       \/ Current \notin NewLineChar \union {"*", NUL} /\ Read(1) /\ Goto(mode, <<>>)
       \/ Current = "*" /\ At(position + 1) = "/" /\ Read(2) /\ Goto("scan", <<>>)
       \/ Current = "*" /\ At(position + 1) # "/" /\ Read(1) /\ Goto(mode, <<>>)

------------------------------------------------------------------------------
\* ready(): clear() and the first read_char.
Init ==
    /\ source \in Source
    /\ position = 1
    /\ line = 1
    /\ column = 1
    /\ mode = "idle"
    /\ delimiter = NUL
    /\ token = NoToken
    /\ ahead = NoToken
    /\ kept = NoToken
    /\ purpose = "next"
    /\ delivered = <<>>

Scan ==
    \/ ScanEnd \/ ScanNewLine \/ ScanSpace \/ ScanSlash \/ ScanOperator \/ ScanDots
    \/ ScanNumber \/ ScanQuote \/ ScanLetter \/ ScanSingle
    \/ Binary \/ Hexadecimal \/ Decimal \/ Fraction \/ Identifier
    \/ StringChar \/ StringEscape \/ StringBroken \/ StringEnd
    \/ LineComment \/ SectionComment

Next == NextToken \/ LookAheadToken \/ Scan

\* scan() runs in the caller's thread, and the parser keeps asking for tokens.
Spec == Init /\ [][Next]_vars /\ WF_vars(Scan) /\ WF_vars(NextToken)

=============================================================================
