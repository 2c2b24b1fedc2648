------------------------------ MODULE Characters ------------------------------
(***************************************************************************)
(* The character classes of the scanner and the escape sequences of its    *)
(* strings (the macros of eokas-base's ascil.h as scanner.cxx uses them).  *)
(* A character is a string of one character; those TLA+ has no escape for  *)
(* have names: NUL, BEL, BS and VT.                                        *)
(***************************************************************************)

NUL == "NUL"
NewLineChar == {"\n", "\r"}
Space == {" ", "\t", "\f", "VT"}
Digit == {"0", "1", "2", "3", "4", "5", "6", "7", "8", "9"}
Bit == {"0", "1"}
HexLetter == {"a", "b", "c", "d", "e", "f", "A", "B", "C", "D", "E", "F"}
Hex == Digit \union HexLetter
Letter == HexLetter \union
            {"g", "h", "i", "j", "k", "l", "m", "n", "o", "p", "q", "r", "s", "t", "u",
             "v", "w", "x", "y", "z", "G", "H", "I", "J", "K", "L", "M", "N", "O", "P",
             "Q", "R", "S", "T", "U", "V", "W", "X", "Y", "Z", "_"}
Quote == {"\"", "'"}

\* What an escape letter stands for; \\, \' and \" stand for themselves.
Escape == [a |-> "BEL", b |-> "BS", f |-> "\f", n |-> "\n", r |-> "\r", t |-> "\t", v |-> "VT"]
Escapes == DOMAIN Escape \union Quote \union {"\\"}
Unescaped(c) == IF c \in DOMAIN Escape THEN Escape[c] ELSE c

=============================================================================
