------------------------------- MODULE Lexicon -------------------------------
(***************************************************************************)
(* What the scanner promises: the tokens of a text, one after the other.   *)
(*                                                                         *)
(* The lexical grammar is stated declaratively, from the names and kinds   *)
(* of tokens in scanner.h: which words are tokens, which are trivia, and   *)
(* that the longest word that is one of them comes next.  There is no      *)
(* position, no look-ahead and no loop.                                    *)
(***************************************************************************)
EXTENDS Characters, Naturals, Sequences

CONSTANTS Char,      \* the characters of texts
          Keyword    \* the words that are tokens of their own

VARIABLES text,     \* the source
          tokens    \* those delivered so far

Lexeme(type, value) == [type |-> type, value |-> value]

(* The tokens that have one spelling, keywords aside: token_t::names.       *)
Operator ==
    {<<"COMMA", <<",">>>>, <<"SEMICOLON", <<";">>>>, <<"COLON", <<":">>>>,
     <<"QUESTION", <<"?">>>>, <<"AT", <<"@">>>>, <<"POUND", <<"#">>>>, <<"DOLLAR", <<"$">>>>,
     <<"ADD", <<"+">>>>, <<"SUB", <<"-">>>>, <<"MUL", <<"*">>>>, <<"DIV", <<"/">>>>,
     <<"MOD", <<"%">>>>, <<"XOR", <<"^">>>>, <<"FLIP", <<"~">>>>,
     <<"LRB", <<"(">>>>, <<"RRB", <<")">>>>, <<"LSB", <<"[">>>>, <<"RSB", <<"]">>>>,
     <<"LCB", <<"{">>>>, <<"RCB", <<"}">>>>,
     <<"AND", <<"&">>>>, <<"AND2", <<"&", "&">>>>, <<"OR", <<"|">>>>, <<"OR2", <<"|", "|">>>>,
     <<"ASSIGN", <<"=">>>>, <<"EQ", <<"=", "=">>>>, <<"NOT", <<"!">>>>, <<"NE", <<"!", "=">>>>,
     <<"GT", <<">">>>>, <<"GE", <<">", "=">>>>, <<"LT", <<"<">>>>, <<"LE", <<"<", "=">>>>,
     <<"SHIFT_R", <<">", "|">>>>, <<"SHIFT_L", <<"|", "<">>>>,
     <<"DOT", <<".">>>>, <<"DOT2", <<".", ".">>>>, <<"DOT3", <<".", ".", ".">>>>}

Of(w, class) == \A i \in DOMAIN w : w[i] \in class
From(w, i) == SubSeq(w, i, Len(w))

-------------------------------------------------------------------------------
(* Trivia: what stands between tokens.                                       *)

IsBlank(w) == Len(w) = 1 /\ Of(w, Space \union NewLineChar)

IsLineComment(w) ==
    /\ Len(w) >= 2 /\ w[1] = "/" /\ w[2] = "/"
    /\ \A i \in DOMAIN w : w[i] \notin NewLineChar

\* A section comment ends at the first */ after its /*, or with the text.
IsSectionComment(w, atEnd) ==
    /\ Len(w) >= 2 /\ w[1] = "/" /\ w[2] = "*"
    /\ LET closings == {i \in 3 .. Len(w) - 1 : w[i] = "*" /\ w[i + 1] = "/"}
       IN  closings = {Len(w) - 1} \/ (closings = {} /\ atEnd)

IsTrivia(w, atEnd) == IsBlank(w) \/ IsLineComment(w) \/ IsSectionComment(w, atEnd)

-------------------------------------------------------------------------------
(* The tokens with many spellings. *)

IsWord(w) == w[1] \in Letter /\ Of(w, Letter \union Digit)
IsBinary(w) == Len(w) >= 2 /\ w[1] \in Digit /\ w[2] \in {"b", "B"} /\ Of(From(w, 3), Bit)
IsHexadecimal(w) == Len(w) >= 2 /\ w[1] \in Digit /\ w[2] \in {"x", "X"} /\ Of(From(w, 3), Hex)
IsDecimal(w) == Of(w, Digit)
IsFloat(w) ==
    \E i \in 2 .. Len(w) : w[i] = "." /\ \A j \in DOMAIN w \ {i} : w[j] \in Digit

\* The units of a string: plain characters and escape sequences.
IsUnit(u, quote) ==
    \/ Len(u) = 1 /\ u[1] \notin {quote, "\\"} \union NewLineChar
    \/ Len(u) = 2 /\ u[1] = "\\" /\ u[2] \in Escapes
    \/ Len(u) = 4 /\ u[1] = "\\" /\ u[2] = "x" /\ {u[3], u[4]} \subseteq Hex

\* \xFF stands for its two digits: the scanner keeps them as they are.
UnitValue(u) ==
    CASE Len(u) = 1 -> u
      [] Len(u) = 2 -> <<Unescaped(u[2])>>
      [] OTHER -> SubSeq(u, 3, 4)

\* What a string w may stand for from position i on: nothing more at its closing
\* quote, or a unit and what comes after it.
ValuesFrom(w) ==
    LET from[i \in 2 .. Len(w)] ==
            IF i = Len(w) THEN {<<>>}
            ELSE UNION {{UnitValue(SubSeq(w, i, j - 1)) \o rest : rest \in from[j]} :
                           j \in {j \in i + 1 .. Len(w) : IsUnit(SubSeq(w, i, j - 1), w[1])}}
    IN  from

\* The values of a string: none if w is no string.
ValuesOf(w) ==
    IF Len(w) >= 2 /\ w[1] \in Quote /\ w[Len(w)] = w[1] THEN ValuesFrom(w)[2] ELSE {}

\* The tokens spelled w: at most one.
LexemesOf(w) ==
    UNION {{Lexeme(o[1], w) : o \in {o \in Operator : o[2] = w}},
           IF IsWord(w) THEN {Lexeme(IF w \in Keyword THEN "keyword" ELSE "ID", w)} ELSE {},
           IF IsBinary(w) THEN {Lexeme("INT_B", w)} ELSE {},
           IF IsHexadecimal(w) THEN {Lexeme("INT_X", w)} ELSE {},
           IF IsDecimal(w) THEN {Lexeme("INT_D", w)} ELSE {},
           IF IsFloat(w) THEN {Lexeme("FLOAT", w)} ELSE {},
           {Lexeme("STRING", v) : v \in ValuesOf(w)}}

-------------------------------------------------------------------------------
(* The text as tokens: the longest word that is a token or trivia comes     *)
(* next.  A text is given up at the first place where there is none.        *)

Trivial(t, p, q) == IsTrivia(SubSeq(t, p, q), q = Len(t))
Ends(t, p) == {q \in p .. Len(t) : Trivial(t, p, q) \/ LexemesOf(SubSeq(t, p, q)) # {}}
Longest(t, p) == CHOOSE q \in Ends(t, p) : \A r \in Ends(t, p) : r <= q

TokensFrom(t) ==
    LET from[p \in 1 .. Len(t) + 1] ==
            IF p > Len(t) THEN <<Lexeme("EOS", <<>>)>>
            ELSE IF Ends(t, p) = {} THEN <<Lexeme("UNKNOWN", <<>>)>>
            ELSE LET q == Longest(t, p)
                 IN  IF Trivial(t, p, q) THEN from[q + 1]
                     ELSE <<CHOOSE x \in LexemesOf(SubSeq(t, p, q)) : TRUE>> \o from[q + 1]
    IN  from

TokensOf(t) == TokensFrom(t)[1]

Init == text \in Seq(Char) /\ tokens = <<>>

Deliver ==
    /\ Len(tokens) < Len(TokensOf(text))
    /\ tokens' = Append(tokens, TokensOf(text)[Len(tokens) + 1])
    /\ UNCHANGED text

Spec == Init /\ [][Deliver]_<<text, tokens>>

=============================================================================
