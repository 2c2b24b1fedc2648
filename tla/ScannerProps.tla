----------------------------- MODULE ScannerProps -----------------------------
(***************************************************************************)
(* What the scanner must keep true while it scans a text.                  *)
(***************************************************************************)
EXTENDS Scanner, FiniteSets

Modes == {"idle", "scan", "binary", "hex", "decimal", "fraction", "identifier", "string",
          "lineComment", "sectionComment"}
TokenType ==
    {p[3] : p \in Pairs} \union {f[2] : f \in Firsts} \union {s[2] : s \in Singles}
      \union {"DIV", "DOT", "DOT2", "DOT3", "INT_B", "INT_X", "INT_D", "FLOAT", "STRING",
              "ID", "keyword", "EOS", "UNKNOWN"}
Saved == Char \union {"BEL", "BS", "VT", "\f", "\n", "\r", "\t"}
Tokens == [type : TokenType, value : Seq(Saved)]

(* Every piece of the scanner's state has its type. *)
TypeOK ==
    /\ source \in Seq(Char)
    /\ {position, line, column} \subseteq Nat
    /\ mode \in Modes
    /\ delimiter \in {NUL} \union Quote
    /\ mode = "string" => delimiter \in Quote
    /\ {token, ahead, kept} \subseteq Tokens
    /\ purpose \in {"next", "ahead"}
    /\ delivered \in Seq(Tokens)

(* m_current is always a character of the source or its terminator: however  *)
(* often it is called, and whatever the text breaks off in, the scanner never *)
(* calls read_char on the terminator (scanner.cxx 495-500).                   *)
InBounds == position \in 1 .. Len(source) + 1

-------------------------------------------------------------------------------
(* The conventional lines of a text: \r\n and \n\r end one line.             *)

IsLineEnd(i) == source[i] \in NewLineChar
Second[i \in 0 .. Len(source)] ==
    i > 1 /\ IsLineEnd(i) /\ IsLineEnd(i - 1) /\ source[i] # source[i - 1] /\ ~Second[i - 1]
LineEnds == {i \in 1 .. Len(source) : IsLineEnd(i) /\ ~Second[i]}

\* Two \n in a row: new_line takes them for one line end.
HasBlankLine == \E i \in 1 .. Len(source) - 1 : source[i] = "\n" /\ source[i + 1] = "\n"

LineStart == LET breaks == {i \in 1 .. position - 1 : IsLineEnd(i)}
             IN  IF breaks = {} THEN 0 ELSE CHOOSE i \in breaks : \A j \in breaks : j <= i

(* line and column, which the parser's errors quote, are those of m_current:  *)
(* line ends count wherever they are read, in comments and between tokens, and *)
(* the columns start again (from 0, where the first line starts from 1) after  *)
(* each.  Not so after an empty line, which new_line does not count.           *)
Whereabouts ==
    ~HasBlankLine =>
        /\ line = 1 + Cardinality({i \in LineEnds : i < position})
        /\ column = position - LineStart - (IF LineStart = 0 THEN 0 ELSE 1)

-------------------------------------------------------------------------------
(* token() is the token next_token delivered last, even after look_ahead_token *)
(* has run scan() over m_token (scanner.cxx 97-107).                           *)
CurrentIsLast ==
    mode = "idle" /\ delivered # <<>> /\ ~Stopped => token = delivered[Len(delivered)]

(* The parser comes to the end of every text, or to a place where it gives up. *)
AllDelivered == <>Stopped

(* No token is empty: next_token cannot deliver more tokens than characters    *)
(* were read, so a parser that asks for a token on every round of its loops    *)
(* comes to an end.                                                            *)
TokensAdvance == Len(delivered) <= position

=============================================================================
