---------------------------- MODULE Scanner_proofs ----------------------------
(***************************************************************************)
(* For every source: the scanner's state keeps its types and m_position    *)
(* stays within the source, tokens are never empty, and token() is what    *)
(* next_token delivered last.  For every source without an empty line, the *)
(* line and the column are those of the current character.                 *)
(***************************************************************************)
EXTENDS ScannerProps, FiniteSetTheorems, SequenceTheorems, WellFoundedInduction, TLAPS

Inv == TypeOK /\ InBounds

\* The two halves of Inv: what read_char changes, and the rest.
PlaceOK == {position, line, column} \subseteq Nat /\ InBounds
RestOK ==
    /\ source \in Seq(Char)
    /\ mode \in Modes
    /\ delimiter \in {NUL} \union Quote
    /\ mode = "string" => delimiter \in Quote
    /\ {token, ahead, kept} \subseteq Tokens
    /\ purpose \in {"next", "ahead"}
    /\ delivered \in Seq(Tokens)

(* Inv is its two halves. *)
LEMMA Halves == Inv <=> PlaceOK /\ RestOK
  BY DEF Inv, PlaceOK, RestOK, TypeOK

-------------------------------------------------------------------------------
(* What is not the terminator is a character of the source. *)
LEMMA AtChar ==
    ASSUME source \in Seq(Char), NEW p \in Nat \ {0}, At(p) # NUL
    PROVE  p <= Len(source) /\ At(p) \in Char
  BY DEF At

(* Reading from a character of the source moves to the next one or to the     *)
(* terminator.                                                                *)
LEMMA ReadKeeps ==
    ASSUME Inv, NEW k \in 1 .. 4, At(position + (k - 1)) # NUL, Read(k), source' = source
    PROVE  PlaceOK'
  <1>1. position \in Nat /\ position >= 1 /\ source \in Seq(Char) /\ line \in Nat /\ column \in Nat
    BY DEF Inv, TypeOK, InBounds
  <1>2. position + (k - 1) \in Nat \ {0}
    BY <1>1
  <1>3. position + (k - 1) <= Len(source)
    BY <1>1, <1>2, AtChar
  <1>4. Len(source) \in Nat
    BY <1>1
  <1> QED
    BY <1>1, <1>3, <1>4 DEF Read, PlaceOK, InBounds

(* So does new_line. *)
LEMMA NewLineKeeps ==
    ASSUME Inv, Current \in NewLineChar, NewLine, source' = source
    PROVE  PlaceOK'
  <1>1. position \in Nat /\ position >= 1 /\ source \in Seq(Char) /\ line \in Nat /\ column \in Nat
    BY DEF Inv, TypeOK, InBounds
  <1>2. Current # NUL
    BY DEF NewLineChar, NUL
  <1>3. position <= Len(source)
    BY <1>1, <1>2, AtChar DEF Current
  <1>4. At(position + 1) \in NewLineChar => position + 1 <= Len(source)
    BY <1>1, AtChar DEF NewLineChar, NUL
  <1>5. Len(source) \in Nat
    BY <1>1
  <1>6. At(position + 1) = "\n" \/ At(position + 1) = "\r" => position + 1 <= Len(source)
    BY <1>4 DEF NewLineChar
  <1>7. position' \in {position + 1, position + 2} /\ (position' = position + 2 => position + 1 <= Len(source))
    BY <1>1, <1>6 DEF NewLine
  <1>8. line' = line + 1 /\ column' = 0
    BY DEF NewLine
  <1> QED
    BY <1>1, <1>3, <1>5, <1>7, <1>8 DEF PlaceOK, InBounds

(* A round of scan() that goes on keeps the types of all but the place. *)
LEMMA GotoKeeps ==
    ASSUME Inv, NEW m \in Modes, m = "string" => mode = "string",
           NEW word \in Seq(Saved), Goto(m, word)
    PROVE  RestOK' /\ source' = source
  <1>1. token.value \o word \in Seq(Saved)
    BY DEF Inv, TypeOK, Tokens
  <1>2. token' \in Tokens
    BY <1>1 DEF Inv, TypeOK, Tokens, Goto
  <1> QED
    BY <1>2 DEF Inv, TypeOK, RestOK, Goto, call

(* So does the return of scan(). *)
LEMMA FinishKeeps ==
    ASSUME Inv, NEW type \in TokenType, NEW word \in Seq(Saved), Finish(type, word)
    PROVE  RestOK' /\ source' = source
  <1> DEFINE t == Token(type, token.value \o word)
  <1>1. token.value \o word \in Seq(Saved)
    BY DEF Inv, TypeOK, Tokens
  <1>2. t \in Tokens
    BY <1>1 DEF Tokens, Token
  <1>3. Append(delivered, t) \in Seq(Tokens)
    BY <1>2 DEF Inv, TypeOK
  <1>4. delivered' \in Seq(Tokens)
    BY <1>3 DEF Finish, Record, Inv, TypeOK
  <1>5. {token', ahead', kept'} \subseteq Tokens
    BY <1>2 DEF Finish, Inv, TypeOK, call
  <1> QED
    BY <1>4, <1>5 DEF Inv, TypeOK, RestOK, Finish, call, Modes

-------------------------------------------------------------------------------
(* Every step of scan() goes on or returns, and either way something was read  *)
(* where a token begins or ends.                                               *)
TokenModes == {"binary", "hex", "decimal", "fraction", "identifier", "string"}

Round ==
    /\ mode # "idle" /\ mode' # "idle"
    /\ UNCHANGED <<call, ahead, delivered>>
    /\ position' >= position
    /\ mode' \in TokenModes => mode \in TokenModes \/ position' > position

Return ==
    /\ mode # "idle"
    /\ position' >= position
    /\ \E type \in TokenType, word \in Seq(Saved) :
          /\ Finish(type, word)
          /\ type = "EOS" \/ mode \in TokenModes \/ position' > position

Step == Inv' /\ (Round \/ Return)

(* A round that reads. *)
LEMMA ReadRound ==
    ASSUME Inv, mode # "idle", NEW k \in 1 .. 4, At(position + (k - 1)) # NUL, Read(k),
           NEW m \in Modes \ {"idle"}, m = "string" => mode = "string",
           NEW word \in Seq(Saved), Goto(m, word)
    PROVE  Step
  <1>1. RestOK' /\ source' = source
    BY GotoKeeps
  <1>2. PlaceOK'
    BY <1>1, ReadKeeps
  <1>3. {position, position'} \subseteq Nat /\ position' > position
    BY DEF Inv, TypeOK, Read
  <1>4. Round
    BY <1>3 DEF Round, Goto
  <1> QED
    BY <1>1, <1>2, <1>4 DEF Step, Inv, TypeOK, PlaceOK, RestOK

(* A round that reads nothing and is in no token. *)
LEMMA StillRound ==
    ASSUME Inv, mode # "idle", UNCHANGED place, NEW m \in Modes \ ({"idle"} \union TokenModes), Goto(m, <<>>)
    PROVE  Step
  <1>. <<>> \in Seq(Saved) /\ m # "string"
    BY DEF TokenModes
  <1>0. position' = position /\ line' = line /\ column' = column
    BY DEF place
  <1>1. RestOK' /\ source' = source
    BY GotoKeeps
  <1>2. PlaceOK'
    BY <1>0, <1>1 DEF PlaceOK, Inv, TypeOK, InBounds
  <1>3. Round
    BY <1>0 DEF Round, Goto, Inv, TypeOK
  <1> QED
    BY <1>1, <1>2, <1>3 DEF Step, Inv, TypeOK, PlaceOK, RestOK

(* A line end between tokens or in a comment. *)
LEMMA NewLineRound ==
    ASSUME Inv, mode # "idle", Current \in NewLineChar, NewLine,
           NEW m \in Modes \ ({"idle"} \union TokenModes), Goto(m, <<>>)
    PROVE  Step
  <1>. <<>> \in Seq(Saved) /\ m # "string"
    BY DEF TokenModes
  <1>1. RestOK' /\ source' = source
    BY GotoKeeps
  <1>2. PlaceOK'
    BY <1>1, NewLineKeeps
  <1>3. position' >= position
    BY <1>2 DEF Inv, TypeOK, NewLine, PlaceOK
  <1>4. Round
    BY <1>3 DEF Round, Goto
  <1> QED
    BY <1>1, <1>2, <1>4 DEF Step, Inv, TypeOK, PlaceOK, RestOK

(* A return after reading. *)
LEMMA ReadReturn ==
    ASSUME Inv, mode # "idle", NEW k \in 1 .. 4, At(position + (k - 1)) # NUL, Read(k),
           NEW type \in TokenType, NEW word \in Seq(Saved), Finish(type, word)
    PROVE  Step
  <1>1. RestOK' /\ source' = source
    BY FinishKeeps
  <1>2. PlaceOK'
    BY <1>1, ReadKeeps
  <1>3. {position, position'} \subseteq Nat /\ position' > position
    BY DEF Inv, TypeOK, Read
  <1>4. Return
    BY <1>3 DEF Return
  <1> QED
    BY <1>1, <1>2, <1>4 DEF Step, Inv, TypeOK, PlaceOK, RestOK

(* A return without reading, at the end of the source or of a token. *)
LEMMA StillReturn ==
    ASSUME Inv, mode # "idle", UNCHANGED place, NEW type \in TokenType, Finish(type, <<>>),
           type = "EOS" \/ mode \in TokenModes
    PROVE  Step
  <1>. <<>> \in Seq(Saved)
    OBVIOUS
  <1>0. position' = position /\ line' = line /\ column' = column
    BY DEF place
  <1>1. RestOK' /\ source' = source
    BY FinishKeeps
  <1>2. PlaceOK'
    BY <1>0, <1>1 DEF PlaceOK, Inv, TypeOK, InBounds
  <1>3. position' >= position
    BY <1>0 DEF Inv, TypeOK
  <1>4. \E t \in TokenType, word \in Seq(Saved) :
           Finish(t, word) /\ (t = "EOS" \/ mode \in TokenModes \/ position' > position)
    <2> WITNESS type \in TokenType, <<>> \in Seq(Saved)
    <2> QED
      OBVIOUS
  <1>5. Return
    BY <1>3, <1>4 DEF Return
  <1> QED
    BY <1>1, <1>2, <1>5 DEF Step, Inv, TypeOK, PlaceOK, RestOK

-------------------------------------------------------------------------------
(* One lemma per group of actions of scan(). *)

LEMMA Facts ==
    ASSUME Inv
    PROVE  /\ position \in Nat \ {0} /\ source \in Seq(Char)
           /\ Current # NUL => Current \in Char /\ Current \in Saved
           /\ Current = At(position + 0)
           /\ \A k \in 1 .. 3 : At(position + k) # NUL => At(position + k) \in Saved
  <1>1. position \in Nat \ {0} /\ source \in Seq(Char)
    BY DEF Inv, TypeOK, InBounds
  <1>2. Current = At(position + 0)
    BY <1>1 DEF Current
  <1>3. \A k \in 0 .. 3 : At(position + k) # NUL => At(position + k) \in Char
    BY <1>1, AtChar
  <1> QED
    BY <1>1, <1>2, <1>3 DEF Saved

(* The end of the source and the trivia. *)
LEMMA EndKeeps == ASSUME Inv, ScanEnd PROVE Step
  <1>1. mode # "idle" /\ UNCHANGED place /\ Finish("EOS", <<>>)
    BY DEF ScanEnd, Scanning
  <1>2. "EOS" \in TokenType
    BY DEF TokenType
  <1> QED
    BY <1>1, <1>2, StillReturn

LEMMA NewLineStep == ASSUME Inv, ScanNewLine PROVE Step
  <1>1. mode # "idle" /\ Current \in NewLineChar /\ NewLine /\ Goto("scan", <<>>)
    BY DEF ScanNewLine, Scanning
  <1>2. "scan" \in Modes \ ({"idle"} \union TokenModes)
    BY DEF Modes, TokenModes
  <1> QED
    BY <1>1, <1>2, NewLineRound

LEMMA SpaceKeeps == ASSUME Inv, ScanSpace PROVE Step
  <1>1. mode # "idle" /\ Current # NUL /\ Read(1) /\ Goto("scan", <<>>)
    BY DEF ScanSpace, Scanning, Space, NUL
  <1>2. "scan" \in Modes \ {"idle"} /\ <<>> \in Seq(Saved) /\ 1 \in 1 .. 4 /\ 1 - 1 = 0
    BY DEF Modes
  <1> QED
    BY <1>1, <1>2, Facts, ReadRound

(* What follows the current character, and is not the terminator, can be read. *)
LEMMA Offsets ==
    /\ 1 \in 1 .. 4 /\ 2 \in 1 .. 4 /\ 3 \in 1 .. 4 /\ 4 \in 1 .. 4
    /\ 1 - 1 = 0 /\ 2 - 1 = 1 /\ 3 - 1 = 2 /\ 4 - 1 = 3
    /\ 1 \in 1 .. 3 /\ 2 \in 1 .. 3 /\ 3 \in 1 .. 3
  OBVIOUS

LEMMA SlashKeeps == ASSUME Inv, ScanSlash PROVE Step
  <1>1. mode # "idle" /\ Current = "/" /\ Current # NUL
    BY DEF ScanSlash, Scanning, NUL
  <1>2. {"lineComment", "sectionComment"} \subseteq Modes \ {"idle"} /\ "DIV" \in TokenType
    BY DEF Modes, TokenType
  <1>3. <<>> \in Seq(Saved) /\ <<"/">> \in Seq(Saved)
    BY <1>1, Facts
  <1>4. CASE At(position + 1) = "/" /\ Read(2) /\ Goto("lineComment", <<>>)
    <2>1. At(position + 1) # NUL
      BY <1>4 DEF NUL
    <2> QED
      BY <1>1, <1>2, <1>3, <1>4, <2>1, Offsets, ReadRound
  <1>5. CASE At(position + 1) = "*" /\ Read(2) /\ Goto("sectionComment", <<>>)
    <2>1. At(position + 1) # NUL
      BY <1>5 DEF NUL
    <2> QED
      BY <1>1, <1>2, <1>3, <1>5, <2>1, Offsets, ReadRound
  <1>6. CASE Read(1) /\ Finish("DIV", <<"/">>)
    BY <1>1, <1>2, <1>3, <1>6, Facts, Offsets, ReadReturn
  <1> QED
    BY <1>4, <1>5, <1>6 DEF ScanSlash

LEMMA OperatorKeeps == ASSUME Inv, ScanOperator PROVE Step
  <1> DEFINE second == At(position + 1)
             pairs == {p \in Pairs : p[1] = Current /\ p[2] = second}
  <1>1. mode # "idle" /\ Current # NUL
    BY DEF ScanOperator, Has, Firsts, NUL
  <1>2. CASE pairs # {} /\ Read(2) /\ Finish((CHOOSE p \in pairs : TRUE)[3], <<Current, second>>)
    <2> DEFINE pair == CHOOSE p \in pairs : TRUE
    <2>1. pair \in Pairs /\ pair[2] = second
      BY <1>2
    <2>2. pair[3] \in TokenType
      BY <2>1 DEF TokenType
    <2>3. second # NUL
      <3>1. \A p \in Pairs : p[2] \in {"&", "|", "<", "="}
        BY DEF Pairs
      <3>2. second \in {"&", "|", "<", "="}
        BY <2>1, <3>1
      <3> QED
        BY <3>2 DEF NUL
    <2>4. <<Current, second>> \in Seq(Saved)
      BY <1>1, <2>3, Facts, Offsets
    <2> QED
      BY <1>1, <1>2, <2>2, <2>3, <2>4, Offsets, ReadReturn
  <1>3. CASE Read(1) /\ Finish(TypeIn(Firsts, Current), <<Current>>)
    <2>1. TypeIn(Firsts, Current) \in TokenType
      <3> DEFINE first == CHOOSE t \in Firsts : t[1] = Current
      <3>1. first \in Firsts
        BY DEF ScanOperator, Has
      <3> QED
        BY <3>1 DEF TypeIn, TokenType
    <2>2. <<Current>> \in Seq(Saved)
      BY <1>1, Facts
    <2> QED
      BY <1>1, <1>3, <2>1, <2>2, Facts, Offsets, ReadReturn
  <1> QED
    BY <1>2, <1>3 DEF ScanOperator

LEMMA DotsKeep == ASSUME Inv, ScanDots PROVE Step
  <1>1. mode # "idle" /\ Current = "." /\ Current # NUL
    BY DEF ScanDots, Scanning, NUL
  <1>2. {"DOT", "DOT2", "DOT3"} \subseteq TokenType
    BY DEF TokenType
  <1>3. "." \in Saved
    BY <1>1, Facts
  <1>4. CASE Read(1) /\ Finish("DOT", <<".">>)
    <2>1. <<".">> \in Seq(Saved)
      BY <1>3
    <2> QED
      BY <1>1, <1>2, <1>4, <2>1, Facts, Offsets, ReadReturn
  <1>5. CASE At(position + 1) = "." /\ Read(2) /\ Finish("DOT2", <<".", ".">>)
    <2>1. At(position + 1) # NUL /\ <<".", ".">> \in Seq(Saved)
      BY <1>3, <1>5 DEF NUL
    <2> QED
      BY <1>1, <1>2, <1>5, <2>1, Offsets, ReadReturn
  <1>6. CASE At(position + 2) = "." /\ Read(3) /\ Finish("DOT3", <<".", ".", ".">>)
    <2>1. At(position + 2) # NUL /\ <<".", ".", ".">> \in Seq(Saved)
      BY <1>3, <1>6 DEF NUL
    <2> QED
      BY <1>1, <1>2, <1>6, <2>1, Offsets, ReadReturn
  <1> QED
    BY <1>4, <1>5, <1>6 DEF ScanDots

LEMMA NumberKeeps == ASSUME Inv, ScanNumber PROVE Step
  <1> DEFINE second == At(position + 1)
  <1>1. mode # "idle" /\ Current # NUL
    BY DEF ScanNumber, Scanning, Digit, NUL
  <1>2. {"binary", "hex", "decimal"} \subseteq Modes \ {"idle"}
    BY DEF Modes
  <1>3. CASE second \in {"b", "B", "x", "X"}
    <2>1. second # NUL
      BY <1>3 DEF NUL
    <2>2. <<Current, second>> \in Seq(Saved)
      BY <1>1, <2>1, Facts, Offsets
    <2>3. Read(2) /\ (Goto("binary", <<Current, second>>) \/ Goto("hex", <<Current, second>>))
      BY <1>3 DEF ScanNumber
    <2> QED
      BY <1>1, <1>2, <2>1, <2>2, <2>3, Offsets, ReadRound
  <1>4. CASE second \notin {"b", "B", "x", "X"}
    <2>1. <<Current>> \in Seq(Saved)
      BY <1>1, Facts
    <2>2. Read(1) /\ Goto("decimal", <<Current>>)
      BY <1>4 DEF ScanNumber
    <2> QED
      BY <1>1, <1>2, <2>1, <2>2, Facts, Offsets, ReadRound
  <1> QED
    BY <1>3, <1>4

LEMMA LetterKeeps == ASSUME Inv, ScanLetter PROVE Step
  <1>1. mode # "idle" /\ Current # NUL /\ Read(1) /\ Goto("identifier", <<Current>>)
    BY DEF ScanLetter, Scanning, Letter, HexLetter, NUL
  <1>2. "identifier" \in Modes \ {"idle"} /\ <<Current>> \in Seq(Saved)
    BY <1>1, Facts DEF Modes
  <1> QED
    BY <1>1, <1>2, Facts, Offsets, ReadRound

LEMMA SingleKeeps == ASSUME Inv, ScanSingle PROVE Step
  <1> DEFINE type == IF Has(Singles, Current) THEN TypeIn(Singles, Current) ELSE "UNKNOWN"
  <1>1. mode # "idle" /\ Current # NUL /\ Read(1) /\ Finish(type, <<Current>>)
    BY DEF ScanSingle
  <1>2. type \in TokenType
    <2>1. CASE Has(Singles, Current)
      <3> DEFINE single == CHOOSE t \in Singles : t[1] = Current
      <3>1. single \in Singles
        BY <2>1 DEF Has
      <3> QED
        BY <2>1, <3>1 DEF TypeIn, TokenType
    <2> QED
      BY <2>1 DEF TokenType
  <1>3. <<Current>> \in Seq(Saved)
    BY <1>1, Facts
  <1> QED
    BY <1>1, <1>2, <1>3, Facts, Offsets, ReadReturn

LEMMA QuoteKeeps == ASSUME Inv, ScanQuote PROVE Step
  <1>1. mode # "idle" /\ Current \in Quote /\ Current # NUL /\ Read(1) /\ source' = source
    BY DEF ScanQuote, Scanning, Quote, NUL, call
  <1>2. PlaceOK'
    BY <1>1, Facts, Offsets, ReadKeeps
  <1>3. RestOK'
    BY <1>1 DEF ScanQuote, RestOK, Inv, TypeOK, Modes, call
  <1>4. {position, position'} \subseteq Nat /\ position' > position
    BY <1>1 DEF Inv, TypeOK, Read
  <1>5. Round
    BY <1>1, <1>4 DEF Round, ScanQuote
  <1> QED
    BY <1>2, <1>3, <1>5 DEF Step, Inv, TypeOK, PlaceOK, RestOK

(* The loops that collect a word. *)
LEMMA LoopKeeps ==
    ASSUME Inv, mode \in TokenModes, NEW class, NUL \notin class, NEW type \in TokenType,
           Loop(class, type)
    PROVE  Step
  <1>1. mode # "idle" /\ mode \in Modes \ {"idle"}
    BY DEF TokenModes, Modes
  <1>2. CASE Current \in class /\ Read(1) /\ Goto(mode, <<Current>>)
    <2>1. Current # NUL
      BY <1>2
    <2>2. <<Current>> \in Seq(Saved)
      BY <2>1, Facts
    <2> QED
      BY <1>1, <1>2, <2>1, <2>2, Facts, Offsets, ReadRound
  <1>3. CASE UNCHANGED place /\ Finish(type, <<>>)
    BY <1>1, <1>3, StillReturn
  <1> QED
    BY <1>2, <1>3 DEF Loop

LEMMA NumberLoopsKeep == ASSUME Inv, Binary \/ Hexadecimal \/ Fraction PROVE Step
  <1>1. NUL \notin Bit /\ NUL \notin Hex /\ NUL \notin Digit
    BY DEF NUL, Bit, Hex, Digit, HexLetter
  <1>2. {"INT_B", "INT_X", "FLOAT"} \subseteq TokenType
    BY DEF TokenType
  <1>3. mode \in TokenModes
    BY DEF Binary, Hexadecimal, Fraction, TokenModes
  <1> QED
    BY <1>1, <1>2, <1>3, LoopKeeps DEF Binary, Hexadecimal, Fraction

LEMMA DecimalKeeps == ASSUME Inv, Decimal PROVE Step
  <1>1. mode \in TokenModes /\ mode # "idle" /\ "INT_D" \in TokenType
    BY DEF Decimal, TokenModes, TokenType
  <1>2. CASE Loop(Digit, "INT_D")
    <2>1. NUL \notin Digit
      BY DEF NUL, Digit
    <2> QED
      BY <1>1, <1>2, <2>1, LoopKeeps
  <1>3. CASE Current = "." /\ Read(1) /\ Goto("fraction", <<".">>)
    <2>1. Current # NUL
      BY <1>3 DEF NUL
    <2>2. <<".">> \in Seq(Saved) /\ "fraction" \in Modes \ {"idle"}
      BY <1>3, <2>1, Facts DEF Modes
    <2> QED
      BY <1>1, <1>3, <2>1, <2>2, Facts, Offsets, ReadRound
  <1> QED
    BY <1>2, <1>3 DEF Decimal

LEMMA IdentifierKeeps == ASSUME Inv, Identifier PROVE Step
  <1>1. NUL \notin Letter \union Digit
    BY DEF NUL, Letter, HexLetter, Digit
  <1>2. (IF token.value \in Keyword THEN "keyword" ELSE "ID") \in TokenType
    BY DEF TokenType
  <1>3. mode \in TokenModes
    BY DEF Identifier, TokenModes
  <1> QED
    BY <1>1, <1>2, <1>3, LoopKeeps DEF Identifier

(* Strings. *)
LEMMA StringCharKeeps == ASSUME Inv, StringChar PROVE Step
  <1>1. mode = "string" /\ mode # "idle" /\ Current # NUL /\ Read(1) /\ Goto("string", <<Current>>)
    BY DEF StringChar
  <1>2. "string" \in Modes \ {"idle"} /\ <<Current>> \in Seq(Saved)
    BY <1>1, Facts DEF Modes
  <1> QED
    BY <1>1, <1>2, Facts, Offsets, ReadRound

LEMMA StringEscapeKeeps == ASSUME Inv, StringEscape PROVE Step
  <1> DEFINE letter == At(position + 1)
             first == At(position + 2)
             second == At(position + 3)
  <1>1. mode = "string" /\ mode # "idle" /\ Current # NUL
    BY DEF StringEscape, NUL
  <1>2. "string" \in Modes \ {"idle"} /\ "UNKNOWN" \in TokenType /\ <<>> \in Seq(Saved)
    BY DEF Modes, TokenType
  <1>3. NUL \notin Hex /\ NUL \notin Escapes /\ NUL # "x"
    BY DEF NUL, Hex, Digit, HexLetter, Escapes, Escape, Quote
  <1>4. CASE letter \in Escapes /\ Read(2) /\ Goto("string", <<Unescaped(letter)>>)
    <2>1. letter # NUL
      BY <1>3, <1>4
    <2>2. letter \in Saved
      BY <2>1, Facts, Offsets
    <2>3. Unescaped(letter) \in Saved
      BY <1>4, <2>2 DEF Unescaped, Escape, Saved
    <2>4. <<Unescaped(letter)>> \in Seq(Saved)
      BY <2>3
    <2> QED
      BY <1>1, <1>2, <1>4, <2>1, <2>4, Offsets, ReadRound
  <1>5. CASE first \in Hex /\ second \in Hex /\ Read(4) /\ Goto("string", <<first, second>>)
    <2>1. first # NUL /\ second # NUL
      BY <1>3, <1>5
    <2>2. <<first, second>> \in Seq(Saved)
      BY <2>1, Facts, Offsets
    <2> QED
      BY <1>1, <1>2, <1>5, <2>1, <2>2, Offsets, ReadRound
  <1>6. CASE first \in Hex /\ Read(3) /\ Finish("UNKNOWN", <<first>>)
    <2>1. first # NUL
      BY <1>3, <1>6
    <2>2. <<first>> \in Seq(Saved)
      BY <2>1, Facts, Offsets
    <2> QED
      BY <1>1, <1>2, <1>6, <2>1, <2>2, Offsets, ReadReturn
  <1>7. CASE letter = "x" /\ Read(2) /\ Finish("UNKNOWN", <<>>)
    BY <1>1, <1>2, <1>3, <1>7, Offsets, ReadReturn
  <1>8. CASE Read(1) /\ Finish("UNKNOWN", <<>>)
    BY <1>1, <1>2, <1>8, Facts, Offsets, ReadReturn
  <1> QED
    BY <1>4, <1>5, <1>6, <1>7, <1>8 DEF StringEscape

LEMMA StringEndKeeps == ASSUME Inv, StringBroken \/ StringEnd PROVE Step
  <1>1. mode = "string" /\ mode # "idle" /\ mode \in TokenModes
    BY DEF StringBroken, StringEnd, TokenModes
  <1>2. {"UNKNOWN", "STRING"} \subseteq TokenType /\ <<>> \in Seq(Saved)
    BY DEF TokenType
  <1>3. CASE StringBroken
    BY <1>1, <1>2, <1>3, StillReturn DEF StringBroken
  <1>4. CASE StringEnd
    <2>1. Current # NUL
      BY <1>1, <1>4 DEF StringEnd, Inv, TypeOK, Quote, NUL
    <2> QED
      BY <1>1, <2>1, <1>2, <1>4, Facts, Offsets, ReadReturn DEF StringEnd
  <1> QED
    BY <1>3, <1>4

(* Comments. *)
LEMMA LineCommentKeeps == ASSUME Inv, LineComment PROVE Step
  <1>1. mode = "lineComment" /\ mode # "idle" /\ mode \in Modes \ {"idle"} /\ <<>> \in Seq(Saved)
    BY DEF LineComment, Modes
  <1>2. CASE Current \notin NewLineChar \union {NUL} /\ Read(1) /\ Goto(mode, <<>>)
    BY <1>1, <1>2, Facts, Offsets, ReadRound
  <1>3. CASE UNCHANGED place /\ Goto("scan", <<>>)
    <2>1. "scan" \in Modes \ ({"idle"} \union TokenModes)
      BY DEF Modes, TokenModes
    <2> QED
      BY <1>1, <1>3, <2>1, StillRound
  <1> QED
    BY <1>2, <1>3 DEF LineComment

LEMMA SectionCommentKeeps == ASSUME Inv, SectionComment PROVE Step
  <1>1. /\ mode = "sectionComment" /\ mode # "idle" /\ <<>> \in Seq(Saved)
        /\ {mode, "scan"} \subseteq Modes \ ({"idle"} \union TokenModes)
    BY DEF SectionComment, Modes, TokenModes
  <1>2. CASE UNCHANGED place /\ Goto("scan", <<>>)
    BY <1>1, <1>2, StillRound
  <1>3. CASE Current \in NewLineChar /\ NewLine /\ Goto(mode, <<>>)
    BY <1>1, <1>3, NewLineRound
  <1>4. CASE Current # NUL /\ Read(1) /\ Goto(mode, <<>>)
    BY <1>1, <1>4, Facts, Offsets, ReadRound
  <1>5. CASE At(position + 1) = "/" /\ Read(2) /\ Goto("scan", <<>>)
    <2>1. At(position + 1) # NUL
      BY <1>5 DEF NUL
    <2> QED
      BY <1>1, <1>5, <2>1, Offsets, ReadRound
  <1>6. Current = "*" => Current # NUL
    BY DEF NUL
  <1> QED
    BY <1>2, <1>3, <1>4, <1>5, <1>6 DEF SectionComment

(* Every action of scan() is such a step. *)
LEMMA ScanKeeps == ASSUME Inv, Scan PROVE Step
  BY EndKeeps, NewLineStep, SpaceKeeps, SlashKeeps, OperatorKeeps, DotsKeep, NumberKeeps,
     QuoteKeeps, LetterKeeps, SingleKeeps, NumberLoopsKeep, DecimalKeeps, IdentifierKeeps,
     StringCharKeeps, StringEscapeKeeps, StringEndKeeps, LineCommentKeeps, SectionCommentKeeps
  DEF Scan

(* The two calls begin with the scanner idle. *)
LEMMA CallKeeps ==
    ASSUME Inv, NextToken \/ LookAheadToken
    PROVE  Inv'
  <1>1. NoToken \in Tokens
    BY DEF NoToken, Token, Tokens, TokenType
  <1>2. ASSUME NEW for \in {"next", "ahead"}, Begin(for)
        PROVE  Inv'
    BY <1>1, <1>2 DEF Begin, Inv, TypeOK, InBounds, Modes, place
  <1>3. CASE /\ mode = "idle" /\ token' = ahead /\ Record(ahead) /\ ahead' = NoToken
             /\ UNCHANGED <<call, place, mode, delimiter>>
    <2>1. delivered' \in Seq(Tokens)
      BY <1>3 DEF Record, Inv, TypeOK
    <2> QED
      BY <1>1, <1>3, <2>1 DEF Inv, TypeOK, InBounds, call, place
  <1> QED
    BY <1>2, <1>3 DEF NextToken, LookAheadToken

LEMMA InitInv == Init => Inv
  <1>1. NoToken \in Tokens /\ <<>> \in Seq(Tokens)
    BY DEF NoToken, Token, Tokens, TokenType
  <1> QED
    BY <1>1, SourceAssumption DEF Init, Inv, TypeOK, InBounds, Modes

LEMMA StutterInv == Inv /\ UNCHANGED vars => Inv'
  BY DEF Inv, TypeOK, InBounds, vars, place, call

LEMMA InvHolds == Spec => []Inv
  <1>1. Inv /\ [Next]_vars => Inv'
    BY ScanKeeps, CallKeeps, StutterInv DEF Next, Step
  <1> QED
    BY <1>1, InitInv, PTL DEF Spec

(* Whatever the text, the scanner's state keeps its types: no token is of a    *)
(* type outside token_t's, and no character outside the source's gets into a   *)
(* value but those an escape sequence stands for.                              *)
THEOREM ScannerTypeCorrect == Spec => []TypeOK
  BY InvHolds, PTL DEF Inv

(* read_char is never called on the terminator: m_position stays in the source. *)
THEOREM ScannerStaysInBounds == Spec => []InBounds
  BY InvHolds, PTL DEF Inv

-------------------------------------------------------------------------------
(* Progress: the tokens delivered, one in the slot and one being scanned have   *)
(* each taken a character that was read before the current one.                 *)
InHand ==
    (IF ahead.type \in {"UNKNOWN", "EOS"} THEN 0 ELSE 1) + (IF mode \in TokenModes THEN 1 ELSE 0)
Paid ==
    /\ mode # "idle" => ahead.type = "UNKNOWN"
    /\ ~Stopped => Len(delivered) + InHand < position
    /\ Stopped => Len(delivered) <= position

LEMMA LenOf ==
    ASSUME TypeOK
    PROVE  /\ Len(delivered) \in Nat /\ position \in Nat /\ InHand \in Nat
           /\ \A t \in Tokens : Len(Append(delivered, t)) = Len(delivered) + 1
                               /\ Append(delivered, t)[Len(delivered) + 1] = t
  BY DEF TypeOK, InHand

(* Recording a token whose character is paid for. *)
LEMMA RecordPays ==
    ASSUME TypeOK, NEW t \in Tokens, Record(t), position' \in Nat, position' >= position,
           mode' = "idle", ahead'.type = "UNKNOWN", Stopped => Len(delivered) <= position,
           ~Stopped => Len(delivered) + (IF t.type = "EOS" THEN 0 ELSE 1) < position'
    PROVE  Paid'
  <1>1. InHand' = 0
    BY DEF InHand, TokenModes
  <1>2. CASE Stopped
    <2>1. delivered' = delivered
      BY <1>2 DEF Record
    <2> QED
      BY <1>2, <2>1, LenOf DEF Paid, Stopped
  <1>3. CASE ~Stopped
    <2>1. delivered' = Append(delivered, t)
      BY <1>3 DEF Record
    <2>2. Len(delivered') = Len(delivered) + 1 /\ delivered'[Len(delivered) + 1] = t
      BY <2>1, LenOf
    <2>3. delivered' # <<>>
      BY <2>2, LenOf
    <2>4. Stopped' <=> Final(t)
      BY <2>2, <2>3 DEF Stopped
    <2>5. t.type = "EOS" => Stopped'
      BY <2>4 DEF Final
    <2> QED
      BY <1>1, <1>3, <2>2, <2>5, LenOf DEF Paid
  <1> QED
    BY <1>2, <1>3

(* Rounds and returns of scan(). *)
LEMMA StepPays == ASSUME Inv, Paid, Step PROVE Paid'
  <1>1. TypeOK /\ TypeOK'
    BY DEF Inv, Step
  <1>2. position \in Nat /\ position' \in Nat
    BY <1>1 DEF TypeOK
  <1>3. CASE Round
    <2>1. delivered' = delivered /\ ahead' = ahead /\ position' >= position
      BY <1>3 DEF Round
    <2>2. Stopped' <=> Stopped
      BY <2>1 DEF Stopped
    <2>3. InHand' <= InHand \/ (InHand' = InHand + 1 /\ position' > position)
      BY <1>3, <2>1 DEF Round, InHand
    <2>4. InHand' \in Nat /\ InHand \in Nat /\ Len(delivered) \in Nat
      BY <1>1, LenOf DEF InHand
    <2>5. mode' # "idle" => ahead'.type = "UNKNOWN"
      BY <1>3, <2>1 DEF Paid, Round
    <2>6. ~Stopped => Len(delivered') + InHand' < position'
      BY <1>2, <2>1, <2>3, <2>4 DEF Paid
    <2>7. Stopped => Len(delivered') <= position'
      BY <1>2, <2>1, <2>4 DEF Paid
    <2> QED
      BY <2>2, <2>5, <2>6, <2>7 DEF Paid
  <1>4. CASE Return
    <2>1. PICK type \in TokenType, word \in Seq(Saved) :
              /\ Finish(type, word)
              /\ type = "EOS" \/ mode \in TokenModes \/ position' > position
      BY <1>4 DEF Return
    <2> DEFINE t == Token(type, token.value \o word)
    <2>2. t.type = type /\ mode # "idle" /\ position' >= position /\ mode' = "idle"
      BY <1>4, <2>1 DEF Token, Return, Finish
    <2>3. t \in Tokens
      BY <1>1 DEF Token, Tokens, TypeOK
    <2>4. ahead.type = "UNKNOWN" /\ InHand = IF mode \in TokenModes THEN 1 ELSE 0
      BY <2>2 DEF Paid, InHand
    <2>5. ~Stopped => Len(delivered) + (IF type = "EOS" THEN 0 ELSE 1) < position'
      BY <1>1, <1>2, <2>1, <2>2, <2>4, LenOf DEF Paid
    <2>6. CASE purpose = "next" /\ Record(t) /\ UNCHANGED ahead
      BY <1>1, <1>2, <2>2, <2>3, <2>4, <2>5, <2>6, RecordPays DEF Paid
    <2>7. CASE ahead' = t /\ UNCHANGED delivered
      <3>1. Stopped' <=> Stopped
        BY <2>7 DEF Stopped
      <3>2. InHand' <= IF type = "EOS" THEN 0 ELSE 1
        BY <2>2, <2>7 DEF InHand, TokenModes
      <3>3. InHand' \in Nat /\ Len(delivered) \in Nat
        BY <1>1, LenOf DEF InHand
      <3>4. ~Stopped => Len(delivered') + InHand' < position'
        BY <1>2, <2>5, <2>7, <3>2, <3>3
      <3>5. Stopped => Len(delivered') <= position'
        BY <1>2, <2>2, <2>7, <3>3 DEF Paid
      <3> QED
        BY <2>2, <3>1, <3>4, <3>5 DEF Paid
    <2> QED
      BY <2>1, <2>6, <2>7 DEF Finish
  <1> QED
    BY <1>3, <1>4 DEF Step

LEMMA CallPays == ASSUME Inv, Paid, NextToken \/ LookAheadToken PROVE Paid'
  <1>1. TypeOK /\ mode = "idle"
    BY DEF Inv, NextToken, LookAheadToken
  <1>2. ASSUME NEW for \in {"next", "ahead"}, Begin(for), ahead.type = "UNKNOWN"
        PROVE  Paid'
    <2>1. /\ delivered' = delivered /\ ahead' = ahead /\ position' = position
          /\ mode' = "scan"
      BY <1>2 DEF Begin, place
    <2>2. (Stopped' <=> Stopped) /\ InHand' = InHand
      BY <1>1, <2>1 DEF Stopped, InHand, TokenModes
    <2> QED
      BY <1>2, <2>1, <2>2 DEF Paid
  <1>3. CASE /\ ahead.type # "UNKNOWN" /\ Record(ahead) /\ ahead' = NoToken
             /\ UNCHANGED <<call, place, mode, delimiter>>
    <2>1. position' = position /\ mode' = "idle" /\ ahead'.type = "UNKNOWN"
      BY <1>1, <1>3 DEF place, NoToken, Token
    <2>2. InHand = IF ahead.type = "EOS" THEN 0 ELSE 1
      BY <1>1, <1>3 DEF InHand, TokenModes
    <2>3. ahead \in Tokens /\ position \in Nat
      BY <1>1 DEF TypeOK
    <2> QED
      BY <1>1, <1>3, <2>1, <2>2, <2>3, RecordPays DEF Paid
  <1> QED
    BY <1>2, <1>3 DEF NextToken, LookAheadToken

(* next_token never delivers more tokens than characters were read. *)
THEOREM NoEmptyTokens == Spec => []TokensAdvance
  <1>1. Init => Paid
    BY DEF Init, Paid, Stopped, InHand, NoToken, Token, TokenModes
  <1>2. Inv /\ Paid /\ [Next]_vars => (Inv /\ Paid)'
    <2> SUFFICES ASSUME Inv, Paid, [Next]_vars PROVE (Inv /\ Paid)'
      OBVIOUS
    <2>1. CASE Scan
      BY <2>1, ScanKeeps, StepPays DEF Step
    <2>2. CASE NextToken \/ LookAheadToken
      BY <2>2, CallKeeps, CallPays
    <2>3. CASE UNCHANGED vars
      BY <2>3, StutterInv DEF Paid, Stopped, InHand, vars, place
    <2> QED
      BY <2>1, <2>2, <2>3 DEF Next
  <1>3. Inv /\ Paid => TokensAdvance
    BY LenOf DEF Inv, Paid, TokensAdvance
  <1> QED
    BY <1>1, <1>2, <1>3, InitInv, PTL DEF Spec

-------------------------------------------------------------------------------
(* token() outside the calls, and its copy inside look_ahead_token, are the     *)
(* last token delivered.                                                        *)
LastIs(t) == delivered # <<>> /\ ~Stopped => t = delivered[Len(delivered)]
Remembered ==
    /\ mode = "idle" => LastIs(token)
    /\ mode # "idle" /\ purpose = "ahead" => LastIs(kept)

LEMMA RecordRemembers ==
    ASSUME TypeOK, NEW t \in Tokens, Record(t), mode' = "idle", token' = t
    PROVE  Remembered'
  <1>1. CASE Stopped
    <2>1. Stopped'
      BY <1>1 DEF Record, Stopped
    <2> QED
      BY <2>1 DEF Remembered, LastIs
  <1>2. CASE ~Stopped
    <2>1. delivered' = Append(delivered, t)
      BY <1>2 DEF Record
    <2>2. delivered'[Len(delivered')] = t
      BY <2>1, LenOf
    <2> QED
      BY <2>2 DEF Remembered, LastIs
  <1> QED
    BY <1>1, <1>2

LEMMA StepRemembers == ASSUME Inv, Remembered, Step PROVE Remembered'
  <1>1. CASE Round
    <2>1. delivered' = delivered /\ kept' = kept /\ purpose' = purpose /\ mode # "idle" /\ mode' # "idle"
      BY <1>1 DEF Round, call
    <2>2. LastIs(kept)' <=> LastIs(kept)
      BY <2>1 DEF LastIs, Stopped
    <2> QED
      BY <2>1, <2>2 DEF Remembered
  <1>2. CASE Return
    <2>1. PICK type \in TokenType, word \in Seq(Saved) : Finish(type, word)
      BY <1>2 DEF Return
    <2> DEFINE t == Token(type, token.value \o word)
    <2>2. TypeOK /\ t \in Tokens /\ mode # "idle" /\ mode' = "idle"
      BY <1>2, <2>1 DEF Inv, TypeOK, Token, Tokens, Return, Finish
    <2>3. CASE token' = t /\ Record(t)
      BY <2>2, <2>3, RecordRemembers
    <2>4. CASE purpose = "ahead" /\ token' = kept /\ UNCHANGED delivered
      <3>1. LastIs(kept)
        BY <2>2, <2>4 DEF Remembered
      <3>2. LastIs(token)'
        BY <2>4, <3>1 DEF LastIs, Stopped
      <3> QED
        BY <2>2, <3>2 DEF Remembered
    <2> QED
      BY <2>1, <2>3, <2>4 DEF Finish
  <1> QED
    BY <1>1, <1>2 DEF Step

LEMMA CallRemembers == ASSUME Inv, Remembered, NextToken \/ LookAheadToken PROVE Remembered'
  <1>1. TypeOK /\ mode = "idle" /\ LastIs(token)
    BY DEF Inv, NextToken, LookAheadToken, Remembered
  <1>2. ASSUME NEW for \in {"next", "ahead"}, Begin(for) PROVE Remembered'
    <2>1. delivered' = delivered /\ kept' = token /\ mode' = "scan"
      BY <1>2 DEF Begin
    <2>2. LastIs(kept)'
      BY <1>1, <2>1 DEF LastIs, Stopped
    <2> QED
      BY <2>1, <2>2 DEF Remembered
  <1>3. CASE token' = ahead /\ Record(ahead) /\ UNCHANGED mode
    <2>1. ahead \in Tokens
      BY <1>1 DEF TypeOK
    <2> QED
      BY <1>1, <1>3, <2>1, RecordRemembers
  <1> QED
    BY <1>2, <1>3 DEF NextToken, LookAheadToken

(* Looking ahead does not disturb the current token. *)
THEOREM LookAheadIsTransparent == Spec => []CurrentIsLast
  <1>1. Init => Remembered
    BY DEF Init, Remembered, LastIs
  <1>2. Inv /\ Remembered /\ [Next]_vars => (Inv /\ Remembered)'
    <2> SUFFICES ASSUME Inv, Remembered, [Next]_vars PROVE (Inv /\ Remembered)'
      OBVIOUS
    <2>1. CASE Scan
      BY <2>1, ScanKeeps, StepRemembers DEF Step
    <2>2. CASE NextToken \/ LookAheadToken
      BY <2>2, CallKeeps, CallRemembers
    <2>3. CASE UNCHANGED vars
      BY <2>3, StutterInv DEF Remembered, LastIs, Stopped, vars, call
    <2> QED
      BY <2>1, <2>2, <2>3 DEF Next
  <1>3. Remembered => CurrentIsLast
    BY DEF Remembered, LastIs, CurrentIsLast
  <1> QED
    BY <1>1, <1>2, <1>3, InitInv, PTL DEF Spec

-------------------------------------------------------------------------------
(* Second is the function its equation defines.                              *)

\* The equation at i, for any function f.
SecondBy(f, i) ==
    i > 1 /\ IsLineEnd(i) /\ IsLineEnd(i - 1) /\ source[i] # source[i - 1] /\ ~f[i - 1]
Solves(f, m) == f = [i \in 0 .. m |-> SecondBy(f, i)]

(* A set of naturals that is not empty has a smallest element. *)
LEMMA LeastNatural ==
    ASSUME NEW S \in SUBSET Nat, S # {}
    PROVE  \E m \in S : \A k \in S : m <= k
  <1>1. PICK m \in S : \A k \in S : <<k, m>> \notin OpToRel(<, Nat)
    BY WFMin, NatLessThanWellFounded, Zenon
  <1>2. \A k \in S : ~(k < m)
    BY <1>1, Zenon DEF OpToRel
  <1>3. \A k \in S : m <= k
    BY <1>2
  <1> QED
    BY <1>3

(* What solves the equation up to m can be extended to m + 1. *)
LEMMA Extends ==
    ASSUME NEW m \in Nat, NEW f, Solves(f, m)
    PROVE  \E g : Solves(g, m + 1)
  <1> DEFINE g == [i \in 0 .. m + 1 |-> IF i <= m THEN f[i] ELSE SecondBy(f, i)]
  <1>1. \A i \in 0 .. m : g[i] = f[i] /\ f[i] = SecondBy(f, i)
    BY DEF Solves
  <1>2. g[m + 1] = SecondBy(f, m + 1)
    OBVIOUS
  <1>3. ASSUME NEW i \in 0 .. m + 1 PROVE SecondBy(f, i) = SecondBy(g, i)
    <2>1. CASE i > 1
      <3>1. i - 1 \in 0 .. m
        BY <2>1
      <3>2. g[i - 1] = f[i - 1]
        BY <1>1, <3>1
      <3> QED
        BY <3>2 DEF SecondBy
    <2>2. CASE ~(i > 1)
      BY <2>2 DEF SecondBy
    <2> QED
      BY <2>1, <2>2
  <1>4. \A i \in 0 .. m + 1 : g[i] = SecondBy(g, i)
    <2> SUFFICES ASSUME NEW i \in 0 .. m + 1 PROVE g[i] = SecondBy(g, i)
      OBVIOUS
    <2>1. i \in 0 .. m \/ i = m + 1
      OBVIOUS
    <2>2. g[i] = SecondBy(f, i)
      BY <1>1, <1>2, <2>1
    <2> QED
      BY <1>3, <2>2
  <1>5. g = [i \in 0 .. m + 1 |-> SecondBy(g, i)]
    <2>1. DOMAIN g = 0 .. m + 1 /\ g = [i \in 0 .. m + 1 |-> g[i]]
      OBVIOUS
    <2> HIDE DEF g
    <2> QED
      BY <1>4, <2>1
  <1> QED
    BY <1>5 DEF Solves

(* The equation has a solution, however long the source. *)
LEMMA Solvable == ASSUME NEW m \in Nat PROVE \E f : Solves(f, m)
  <1> DEFINE Stuck == {n \in Nat : ~\E f : Solves(f, n)}
  <1>1. SUFFICES ASSUME Stuck # {} PROVE FALSE
    OBVIOUS
  <1>2. PICK n \in Stuck : \A k \in Stuck : n <= k
    BY <1>1, LeastNatural
  <1>3. n # 0
    <2> DEFINE f == [i \in 0 .. 0 |-> FALSE]
    <2>1. \A i \in 0 .. 0 : SecondBy(f, i) = FALSE
      BY DEF SecondBy
    <2>2. Solves(f, 0)
      BY <2>1 DEF Solves
    <2> QED
      BY <2>2
  <1>4. n - 1 \in Nat /\ n - 1 \notin Stuck /\ (n - 1) + 1 = n
    BY <1>2, <1>3
  <1>5. PICK f : Solves(f, n - 1)
    BY <1>4
  <1>6. \E g : Solves(g, (n - 1) + 1)
    BY <1>4, <1>5, Extends
  <1> QED
    BY <1>2, <1>4, <1>6

(* The second of two characters that end one line together. *)
LEMMA SecondAt ==
    ASSUME source \in Seq(Char), NEW i \in 1 .. Len(source)
    PROVE  Second[i] <=> /\ i > 1 /\ IsLineEnd(i) /\ IsLineEnd(i - 1)
                         /\ source[i] # source[i - 1] /\ ~Second[i - 1]
  <1>1. Len(source) \in Nat
    OBVIOUS
  <1>2. \E f : Solves(f, Len(source))
    BY <1>1, Solvable
  <1>3. Second = CHOOSE f : Solves(f, Len(source))
    BY DEF Second, Solves, SecondBy
  <1>4. Solves(Second, Len(source))
    BY <1>2, <1>3
  <1>5. i \in 0 .. Len(source)
    BY <1>1
  <1>6. Second[i] = SecondBy(Second, i)
    BY <1>4, <1>5 DEF Solves
  <1> QED
    BY <1>6 DEF SecondBy

-------------------------------------------------------------------------------
(* How the actions of scan() move: over characters that end no line, with       *)
(* new_line over a line end, or not at all.                                     *)
Plain(c) == c \notin NewLineChar \union {NUL}
Passes(k) == Read(k) /\ \A j \in 0 .. k - 1 : Plain(At(position + j))
Moved == (\E k \in 1 .. 4 : Passes(k)) \/ (Current \in NewLineChar /\ NewLine) \/ UNCHANGED place

(* One to four characters, each looked at before it is passed. *)
LEMMA Passing ==
    ASSUME Inv, Plain(Current)
    PROVE  /\ Read(1) => Moved
           /\ Read(2) /\ Plain(At(position + 1)) => Moved
           /\ Read(3) /\ Plain(At(position + 1)) /\ Plain(At(position + 2)) => Moved
           /\ Read(4) /\ Plain(At(position + 1)) /\ Plain(At(position + 2))
                      /\ Plain(At(position + 3)) => Moved
  <1>1. Plain(At(position + 0))
    BY Facts
  <1>2. /\ 0 .. 1 - 1 = {0} /\ 0 .. 2 - 1 = {0, 1} /\ 0 .. 3 - 1 = {0, 1, 2}
        /\ 0 .. 4 - 1 = {0, 1, 2, 3}
    OBVIOUS
  <1> QED
    BY <1>1, <1>2, Offsets DEF Moved, Passes

(* The characters that are read as part of a token end no line. *)
LEMMA Plains ==
    /\ \A c \in Space \union Hex \union Letter \union Quote \union Escapes : Plain(c)
    /\ \A c \in {"/", "*", ".", "b", "B", "x", "X", "\\"} : Plain(c)
    /\ \A f \in Firsts : Plain(f[1])
    /\ \A p \in Pairs : Plain(p[2])
    /\ Digit \subseteq Hex /\ Bit \subseteq Hex
  <1>1. \A c \in Space \union Quote : Plain(c)
    BY DEF Plain, Space, Quote, NewLineChar, NUL
  <1>2. \A c \in Hex : Plain(c)
    BY DEF Plain, Hex, Digit, HexLetter, NewLineChar, NUL
  <1>3. \A c \in Letter : Plain(c)
    BY DEF Plain, Letter, HexLetter, NewLineChar, NUL
  <1>4. \A c \in Escapes : Plain(c)
    BY DEF Plain, Escapes, Escape, Quote, NewLineChar, NUL
  <1>5. \A c \in {"/", "*", ".", "b", "B", "x", "X", "\\"} : Plain(c)
    BY DEF Plain, NewLineChar, NUL
  <1>6. \A f \in Firsts : Plain(f[1])
    BY DEF Plain, Firsts, NewLineChar, NUL
  <1>7. \A p \in Pairs : Plain(p[2])
    BY DEF Plain, Pairs, NewLineChar, NUL
  <1>8. Digit \subseteq Hex /\ Bit \subseteq Hex
    BY DEF Digit, Bit, Hex
  <1> QED
    BY <1>1, <1>2, <1>3, <1>4, <1>5, <1>6, <1>7, <1>8

(* Between tokens. *)
LEMMA TopMoves ==
    ASSUME Inv, ScanEnd \/ ScanNewLine \/ ScanSpace \/ ScanSlash \/ ScanOperator \/ ScanDots
    PROVE  Moved
  <1>1. CASE ScanEnd
    BY <1>1 DEF ScanEnd, Moved
  <1>2. CASE ScanNewLine
    BY <1>2 DEF ScanNewLine, Scanning, Moved
  <1>3. CASE ScanSpace
    BY <1>3, Plains, Passing DEF ScanSpace, Scanning
  <1>4. CASE ScanSlash
    <2>1. Plain(Current)
      BY <1>4, Plains DEF ScanSlash, Scanning
    <2>2. Read(1) \/ (Read(2) /\ At(position + 1) \in {"/", "*"})
      BY <1>4 DEF ScanSlash
    <2> QED
      BY <2>1, <2>2, Plains, Passing
  <1>5. CASE ScanOperator
    <2> DEFINE pairs == {p \in Pairs : p[1] = Current /\ p[2] = At(position + 1)}
    <2>1. Plain(Current)
      BY <1>5, Plains DEF ScanOperator, Has
    <2>2. Read(1) \/ (Read(2) /\ pairs # {})
      BY <1>5 DEF ScanOperator
    <2>3. pairs # {} => Plain(At(position + 1))
      BY Plains
    <2> QED
      BY <2>1, <2>2, <2>3, Passing
  <1>6. CASE ScanDots
    <2>1. Plain(Current)
      BY <1>6, Plains DEF ScanDots, Scanning
    <2>2. \/ Read(1)
          \/ Read(2) /\ At(position + 1) = "."
          \/ Read(3) /\ At(position + 1) = "." /\ At(position + 2) = "."
      BY <1>6 DEF ScanDots
    <2> QED
      BY <2>1, <2>2, Plains, Passing
  <1> QED
    BY <1>1, <1>2, <1>3, <1>4, <1>5, <1>6

(* Words and numbers. *)
LEMMA WordMoves ==
    ASSUME Inv, \/ ScanNumber \/ ScanQuote \/ ScanLetter \/ ScanSingle
                \/ Binary \/ Hexadecimal \/ Decimal \/ Fraction \/ Identifier
    PROVE  Moved
  <1>1. CASE ScanNumber
    <2>1. Plain(Current)
      BY <1>1, Plains DEF ScanNumber, Scanning
    <2>2. Read(1) \/ (Read(2) /\ At(position + 1) \in {"b", "B", "x", "X"})
      BY <1>1 DEF ScanNumber
    <2> QED
      BY <2>1, <2>2, Plains, Passing
  <1>2. CASE ScanQuote \/ ScanLetter
    BY <1>2, Plains, Passing DEF ScanQuote, ScanLetter, Scanning
  <1>3. CASE ScanSingle
    <2>1. Plain(Current)
      BY <1>3 DEF ScanSingle, Plain
    <2> QED
      BY <1>3, <2>1, Passing DEF ScanSingle
  <1>4. ASSUME NEW class, \A c \in class : Plain(c), NEW type, Loop(class, type)
        PROVE  Moved
    BY <1>4, Passing DEF Loop, Moved
  <1>5. CASE Binary \/ Hexadecimal \/ Fraction
    <2>1. PICK class \in {Bit, Hex, Digit}, type \in {"INT_B", "INT_X", "FLOAT"} : Loop(class, type)
      BY <1>5 DEF Binary, Hexadecimal, Fraction
    <2>2. \A c \in class : Plain(c)
      BY Plains
    <2> QED
      BY <1>4, <2>1, <2>2
  <1>6. CASE Decimal
    <2>1. CASE Loop(Digit, "INT_D")
      BY <1>4, <2>1, Plains
    <2>2. CASE Current = "." /\ Read(1)
      BY <2>2, Plains, Passing
    <2> QED
      BY <1>6, <2>1, <2>2 DEF Decimal
  <1>7. CASE Identifier
    <2>1. \A c \in Letter \union Digit : Plain(c)
      BY Plains
    <2> QED
      BY <1>4, <1>7, <2>1 DEF Identifier
  <1> QED
    BY <1>1, <1>2, <1>3, <1>5, <1>6, <1>7

(* Strings and comments. *)
LEMMA TextMoves ==
    ASSUME Inv, \/ StringChar \/ StringEscape \/ StringBroken \/ StringEnd
                \/ LineComment \/ SectionComment
    PROVE  Moved
  <1>1. CASE StringChar
    <2>1. Plain(Current)
      BY <1>1 DEF StringChar, Plain
    <2> QED
      BY <1>1, <2>1, Passing DEF StringChar
  <1>2. CASE StringEscape
    <2>1. Plain(Current)
      BY <1>2, Plains DEF StringEscape
    <2>2. \/ Read(2) /\ At(position + 1) \in Escapes \union {"x"}
          \/ Read(4) /\ At(position + 1) = "x" /\ At(position + 2) \in Hex /\ At(position + 3) \in Hex
          \/ Read(3) /\ At(position + 1) = "x" /\ At(position + 2) \in Hex
          \/ Read(1)
      BY <1>2 DEF StringEscape
    <2> QED
      BY <2>1, <2>2, Plains, Passing
  <1>3. CASE StringBroken
    BY <1>3 DEF StringBroken, Moved
  <1>4. CASE StringEnd
    <2>1. Plain(Current)
      BY <1>4, Plains DEF StringEnd, Inv, TypeOK
    <2> QED
      BY <1>4, <2>1, Passing DEF StringEnd
  <1>5. CASE LineComment
    <2>1. UNCHANGED place \/ (Plain(Current) /\ Read(1))
      BY <1>5 DEF LineComment, Plain
    <2> QED
      BY <2>1, Passing DEF Moved
  <1>6. CASE SectionComment
    <2>1. \/ UNCHANGED place
          \/ Current \in NewLineChar /\ NewLine
          \/ Plain(Current) /\ Read(1)
          \/ Plain(Current) /\ Read(2) /\ At(position + 1) = "/"
      BY <1>6, Plains DEF SectionComment, Plain
    <2> QED
      BY <2>1, Plains, Passing DEF Moved
  <1> QED
    BY <1>1, <1>2, <1>3, <1>4, <1>5, <1>6

LEMMA ScanMoves == ASSUME Inv, Scan PROVE Moved /\ source' = source
  <1>1. Moved
    BY TopMoves, WordMoves, TextMoves DEF Scan
  <1>2. source' = source
    BY ScanKeeps DEF Step, Round, Return, Finish, call
  <1> QED
    BY <1>1, <1>2

-------------------------------------------------------------------------------
(* What such a move does to the line and to the column.                         *)

(* The scanner is never between the two characters of a line end, the line is   *)
(* one more than the line ends passed, and the column counts from the last of   *)
(* the characters that ended them.                                              *)
Before(p) == {i \in LineEnds : i < p}
Breaks(p) == {i \in 1 .. p - 1 : IsLineEnd(i)}
Located ==
    /\ position \in 1 .. Len(source) => ~Second[position]
    /\ line = 1 + Cardinality(Before(position))
    /\ \/ Breaks(position) = {} /\ column = position
       \/ \E b \in Breaks(position) :
             (\A i \in Breaks(position) : i <= b) /\ column = position - b - 1

LEMMA FiniteEnds ==
    ASSUME source \in Seq(Char), NEW p \in Nat
    PROVE  IsFiniteSet(Before(p)) /\ Cardinality(Before(p)) \in Nat
  <1>1. Len(source) \in Nat
    OBVIOUS
  <1>2. IsFiniteSet(1 .. Len(source))
    BY <1>1, FS_Interval
  <1>3. Before(p) \in SUBSET (1 .. Len(source))
    BY DEF Before, LineEnds
  <1>4. IsFiniteSet(Before(p))
    BY <1>2, <1>3, FS_Subset
  <1> QED
    BY <1>4, FS_CardinalityType

(* LineStart depends on what was passed only. *)
LEMMA StartOf ==
    ASSUME NEW b \in Nat, b \in Breaks(position), \A i \in Breaks(position) : i <= b,
           position \in Nat
    PROVE  LineStart = b
  <1> DEFINE S == Breaks(position)
             top == CHOOSE i \in S : \A j \in S : j <= i
  <1>1. S \subseteq Nat
    BY DEF Breaks
  <1>2. top \in S /\ \A j \in S : j <= top
    OBVIOUS
  <1>3. top = b
    <2>1. b <= top /\ top <= b /\ top \in Nat
      BY <1>1, <1>2
    <2> HIDE DEF top
    <2> QED
      BY <2>1
  <1>4. S # {}
    OBVIOUS
  <1>5. LineStart = IF S = {} THEN 0 ELSE top
    BY DEF LineStart, Breaks
  <1> QED
    BY <1>3, <1>4, <1>5

(* The operators on the text do not change while the source stays. *)
LEMMA SameText ==
    ASSUME source' = source
    PROVE  /\ Second' = Second /\ Len(source)' = Len(source)
           /\ (HasBlankLine' <=> HasBlankLine)
           /\ Breaks(position)' = Breaks(position')
           /\ Before(position)' = Before(position')
  <1>1. Second' = Second
    BY DEF Second, IsLineEnd
  <1>2. LineEnds' = LineEnds
    BY <1>1 DEF LineEnds, IsLineEnd
  <1> QED
    BY <1>1, <1>2 DEF HasBlankLine, IsLineEnd, Breaks, Before

(* Where the scanner is located after a step that keeps the source. *)
LEMMA LocatedNext ==
    ASSUME source' = source,
           position' \in 1 .. Len(source) => ~Second[position'],
           line' = 1 + Cardinality(Before(position')),
           \/ Breaks(position') = {} /\ column' = position'
           \/ \E b \in Breaks(position') :
                 (\A i \in Breaks(position') : i <= b) /\ column' = position' - b - 1
    PROVE  Located'
  BY SameText DEF Located

(* Plain characters leave the lines alone and move the column. *)
LEMMA PassingKeeps ==
    ASSUME Inv, Located, NEW k \in 1 .. 4, Passes(k), source' = source
    PROVE  Located'
  <1> DEFINE p == position
             n == Len(source)
  <1>1. p \in Nat /\ p >= 1 /\ n \in Nat /\ source \in Seq(Char)
    BY DEF Inv, TypeOK, InBounds
  <1>2. position' = p + k /\ column' = column + k /\ line' = line
    BY DEF Passes, Read
  <1>3. \A j \in 0 .. k - 1 : p + j <= n /\ ~IsLineEnd(p + j)
    <2> SUFFICES ASSUME NEW j \in 0 .. k - 1 PROVE p + j <= n /\ ~IsLineEnd(p + j)
      OBVIOUS
    <2>0. \A i \in 0 .. k - 1 : Plain(At(position + i))
      BY DEF Passes
    <2>1. Plain(At(p + j))
      BY <2>0
    <2>2. p + j \in Nat \ {0}
      BY <1>1
    <2>3. At(p + j) # NUL
      BY <2>1 DEF Plain
    <2>4. p + j <= n
      BY <1>1, <2>2, <2>3, AtChar
    <2> QED
      BY <2>1, <2>4 DEF At, Plain, IsLineEnd
  <1>4. \A i \in Nat : i >= p /\ i < p + k => i <= n /\ ~IsLineEnd(i)
    <2> SUFFICES ASSUME NEW i \in Nat, i >= p, i < p + k PROVE i <= n /\ ~IsLineEnd(i)
      OBVIOUS
    <2>1. i - p \in 0 .. k - 1 /\ p + (i - p) = i
      BY <1>1
    <2> QED
      BY <1>3, <2>1
  <1>5. Before(p + k) = Before(p)
    <2>1. \A i \in LineEnds : i \in Nat /\ IsLineEnd(i)
      BY DEF LineEnds
    <2> QED
      BY <1>1, <1>4, <2>1 DEF Before
  <1>6. Breaks(p + k) = Breaks(p)
    <2>1. Breaks(p) \subseteq Breaks(p + k)
      BY <1>1 DEF Breaks
    <2>2. ASSUME NEW i \in Breaks(p + k) PROVE i \in Breaks(p)
      <3>1. i \in Nat /\ i >= 1 /\ i < p + k /\ IsLineEnd(i)
        BY <1>1 DEF Breaks
      <3>2. i < p
        BY <1>1, <1>4, <3>1
      <3> QED
        BY <1>1, <3>1, <3>2 DEF Breaks
    <2> QED
      BY <2>1, <2>2
  <1>8. p + k \in 1 .. n => ~Second[p + k]
    <2> SUFFICES ASSUME p + k \in 1 .. n PROVE ~Second[p + k]
      OBVIOUS
    <2>1. ~IsLineEnd((p + k) - 1)
      BY <1>1, <1>4
    <2> QED
      BY <1>1, <2>1, SecondAt
  <1>9. \/ Breaks(p + k) = {} /\ column' = p + k
        \/ \E b \in Breaks(p + k) :
              (\A i \in Breaks(p + k) : i <= b) /\ column' = (p + k) - b - 1
    <2>1. CASE Breaks(p) = {} /\ column = p
      BY <1>2, <1>6, <2>1
    <2>2. ASSUME NEW b \in Breaks(p), \A i \in Breaks(p) : i <= b, column = p - b - 1
          PROVE  \E c \in Breaks(p + k) :
                    (\A i \in Breaks(p + k) : i <= c) /\ column' = (p + k) - c - 1
      <3>1. b \in Nat
        BY DEF Breaks
      <3>2. column' = (p + k) - b - 1
        BY <1>1, <1>2, <2>2, <3>1
      <3> QED
        BY <1>6, <2>2, <3>2
    <2> QED
      BY <2>1, <2>2 DEF Located
  <1>10. line' = 1 + Cardinality(Before(p + k))
    BY <1>2, <1>5 DEF Located
  <1> QED
    BY <1>2, <1>8, <1>9, <1>10, LocatedNext

(* new_line, where there is no empty line, passes exactly one line end. *)
LEMMA NewLineLocates ==
    ASSUME Inv, Located, ~HasBlankLine, Current \in NewLineChar, NewLine, source' = source
    PROVE  Located'
  <1> DEFINE p == position
             n == Len(source)
             next == At(p + 1)
             two == next = "\n" \/ (next = "\r" /\ Current # "\r")
  <1>1. p \in Nat /\ p >= 1 /\ n \in Nat /\ source \in Seq(Char) /\ line \in Nat
    BY DEF Inv, TypeOK, InBounds
  <1>2. p \in 1 .. n /\ Current = source[p] /\ IsLineEnd(p)
    <2>1. Current # NUL
      BY DEF NewLineChar, NUL
    <2>2. p <= n
      BY <1>1, <2>1, AtChar DEF Current
    <2> QED
      BY <1>1, <2>2 DEF Current, At, IsLineEnd
  <1>3. line' = line + 1 /\ column' = 0
    BY DEF NewLine
  <1>4. p \in LineEnds
    BY <1>2 DEF LineEnds, Located
  <1>5. next # NUL => p + 1 \in 1 .. n /\ next = source[p + 1]
    <2> SUFFICES ASSUME next # NUL PROVE p + 1 \in 1 .. n /\ next = source[p + 1]
      OBVIOUS
    <2>1. p + 1 \in Nat \ {0} /\ At(p + 1) # NUL
      BY <1>1
    <2>2. p + 1 <= n
      BY <1>1, <2>1, AtChar
    <2> QED
      BY <1>1, <2>2 DEF At
  <1>6. p + 1 \in 1 .. n => next = source[p + 1]
    BY <1>1 DEF At
  <1>7. p + 1 \in 1 .. n => (Second[p + 1] <=> two)
    <2> SUFFICES ASSUME p + 1 \in 1 .. n PROVE Second[p + 1] <=> two
      OBVIOUS
    <2>1. ~Second[p] /\ (p + 1) - 1 = p /\ p + 1 > 1
      BY <1>1, <1>2 DEF Located
    <2>2. Second[p + 1] <=> IsLineEnd(p + 1) /\ source[p + 1] # source[p]
      BY <1>1, <1>2, <2>1, SecondAt
    <2>3. ~(source[p] = "\n" /\ source[p + 1] = "\n")
      <3>1. p \in 1 .. n - 1
        BY <1>1
      <3> QED
        BY <3>1 DEF HasBlankLine
    <2>4. source[p] \in {"\n", "\r"} /\ Current = source[p] /\ next = source[p + 1]
      BY <1>2, <1>6 DEF IsLineEnd, NewLineChar
    <2>5. IsLineEnd(p + 1) <=> next \in {"\n", "\r"}
      BY <2>4 DEF IsLineEnd, NewLineChar
    <2> QED
      BY <2>2, <2>3, <2>4, <2>5
  <1>8. ASSUME NEW q \in Nat, q > p, q <= n + 1, \A i \in Nat : i > p /\ i < q => i = q - 1 /\ i \notin LineEnds,
               position' = q, IsLineEnd(q - 1), q \in 1 .. n => ~Second[q]
        PROVE  Located'
    <2>1. Before(q) = Before(p) \union {p} /\ p \notin Before(p)
      <3>1. \A i \in LineEnds : i \in Nat
        BY DEF LineEnds
      <3>2. \A i \in LineEnds : i < q <=> i < p \/ i = p
        BY <1>1, <1>8, <3>1
      <3>3. p < q /\ ~(p < p)
        BY <1>1, <1>8
      <3>4. Before(q) = Before(p) \union {p}
        BY <1>4, <3>2, <3>3 DEF Before
      <3> QED
        BY <3>3, <3>4 DEF Before
    <2>2. line' = 1 + Cardinality(Before(q))
      <3>1. IsFiniteSet(Before(p)) /\ Cardinality(Before(p)) \in Nat
        BY <1>1, FiniteEnds
      <3>2. Cardinality(Before(q)) = Cardinality(Before(p)) + 1
        BY <2>1, <3>1, FS_AddElement
      <3>3. line = 1 + Cardinality(Before(p))
        BY DEF Located
      <3> QED
        BY <1>3, <3>1, <3>2, <3>3
    <2>3. q - 1 \in Breaks(q) /\ \A i \in Breaks(q) : i <= q - 1
      BY <1>1, <1>8 DEF Breaks
    <2>4. column' = q - (q - 1) - 1
      BY <1>3
    <2>5. \E b \in Breaks(q) : (\A i \in Breaks(q) : i <= b) /\ column' = q - b - 1
      BY <2>3, <2>4
    <2> QED
      BY <1>8, <2>2, <2>5, LocatedNext
  <1>9. CASE two
    <2>1. next # NUL
      BY <1>9 DEF NUL
    <2>2. p + 1 \in 1 .. n /\ Second[p + 1]
      BY <1>5, <1>7, <1>9, <2>1
    <2>3. position' = p + 2
      BY <1>9 DEF NewLine
    <2>4. IsLineEnd(p + 1)
      BY <1>1, <2>2, SecondAt
    <2>5. p + 1 \notin LineEnds
      BY <2>2 DEF LineEnds
    <2>6. p + 2 \in 1 .. n => ~Second[p + 2]
      <3> SUFFICES ASSUME p + 2 \in 1 .. n PROVE ~Second[p + 2]
        OBVIOUS
      <3>1. (p + 2) - 1 = p + 1
        BY <1>1
      <3> QED
        BY <1>1, <2>2, <3>1, SecondAt
    <2>7. /\ p + 2 \in Nat /\ p + 2 > p /\ p + 2 <= n + 1 /\ (p + 2) - 1 = p + 1
          /\ \A i \in Nat : i > p /\ i < p + 2 => i = p + 1
      BY <1>1, <2>2
    <2> QED
      BY <1>8, <2>3, <2>4, <2>5, <2>6, <2>7
  <1>10. CASE ~two
    <2>1. position' = p + 1
      BY <1>10 DEF NewLine
    <2>2. /\ p + 1 \in Nat /\ p + 1 > p /\ p + 1 <= n + 1 /\ (p + 1) - 1 = p
          /\ \A i \in Nat : ~(i > p /\ i < p + 1)
      BY <1>1, <1>2
    <2> QED
      BY <1>2, <1>7, <1>8, <1>10, <2>1, <2>2
  <1> QED
    BY <1>9, <1>10

LEMMA InitLocated == Init => Located
  <1> SUFFICES ASSUME Init PROVE Located
    OBVIOUS
  <1>1. position = 1 /\ line = 1 /\ column = 1 /\ source \in Seq(Char)
    BY SourceAssumption DEF Init
  <1>2. 1 \in 1 .. Len(source) => ~Second[1]
    BY <1>1, SecondAt
  <1>3. Before(1) = {} /\ Breaks(1) = {}
    <2>1. \A i \in LineEnds : i \in Nat /\ ~(i < 1)
      BY DEF LineEnds
    <2> QED
      BY <2>1 DEF Before, Breaks
  <1>4. Cardinality(Before(1)) = 0
    BY <1>3, FS_EmptySet
  <1> QED
    BY <1>1, <1>2, <1>3, <1>4 DEF Located

LEMMA StillLocates ==
    ASSUME Located, UNCHANGED place, source' = source
    PROVE  Located'
  <1>1. position' = position /\ line' = line /\ column' = column
    BY DEF place
  <1> QED
    BY <1>1, LocatedNext DEF Located

LEMMA NextLocates ==
    ASSUME Inv, ~HasBlankLine, Located, [Next]_vars
    PROVE  Located'
  <1>1. CASE Scan
    BY <1>1, ScanMoves, PassingKeeps, NewLineLocates, StillLocates DEF Moved
  <1>2. CASE NextToken \/ LookAheadToken
    <2>1. UNCHANGED place /\ source' = source
      BY <1>2 DEF NextToken, LookAheadToken, Begin, call
    <2> QED
      BY <2>1, StillLocates
  <1>3. CASE UNCHANGED vars
    BY <1>3, StillLocates DEF vars
  <1> QED
    BY <1>1, <1>2, <1>3 DEF Next

(* The source does not change, and with it its empty lines. *)
LEMMA NextSource == ASSUME Inv, [Next]_vars PROVE source' = source
  BY ScanMoves DEF Next, NextToken, LookAheadToken, Begin, call, vars

(* Whatever the text, as long as it has no empty line: m_line and m_column are  *)
(* those of m_current.  Every line end is counted once, wherever new_line meets *)
(* it and whichever of its two characters comes first.                          *)
THEOREM LinesAreCounted == Spec => []Whereabouts
  <1> DEFINE Where == ~HasBlankLine => Located
  <1>1. Init => Where
    BY InitLocated
  <1>2. Inv /\ Where /\ [Next]_vars => Where'
    BY NextLocates, NextSource, SameText
  <1>3. Inv /\ Where => Whereabouts
    <2> SUFFICES ASSUME Inv, Located, ~HasBlankLine
                 PROVE  /\ line = 1 + Cardinality({i \in LineEnds : i < position})
                        /\ column = position - LineStart - (IF LineStart = 0 THEN 0 ELSE 1)
      BY DEF Whereabouts
    <2>1. line = 1 + Cardinality({i \in LineEnds : i < position})
      BY DEF Located, Before
    <2>2. position \in Nat
      BY DEF Inv, TypeOK
    <2>3. CASE Breaks(position) = {} /\ column = position
      <3>1. LineStart = 0
        BY <2>3 DEF LineStart, Breaks
      <3> QED
        BY <2>1, <2>2, <2>3, <3>1
    <2>4. ASSUME NEW b \in Breaks(position), \A i \in Breaks(position) : i <= b,
                 column = position - b - 1
          PROVE  column = position - LineStart - (IF LineStart = 0 THEN 0 ELSE 1)
      <3>1. b \in Nat /\ b # 0
        BY DEF Breaks
      <3>2. LineStart = b
        BY <2>2, <2>4, <3>1, StartOf
      <3> QED
        BY <2>4, <3>1, <3>2
    <2> QED
      BY <2>1, <2>3, <2>4 DEF Located
  <1> QED
    BY <1>1, <1>2, <1>3, InvHolds, PTL DEF Spec

===============================================================================
