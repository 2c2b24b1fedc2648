------------------------------ MODULE MCScanner ------------------------------
(***************************************************************************)
(* The texts the scanner is checked on: all short ones over an alphabet,   *)
(* one alphabet per construct.                                             *)
(***************************************************************************)
EXTENDS ScannerLexical

UpTo(n, alphabet) == UNION {[1 .. k -> alphabet] : k \in 0 .. n}
After(prefix, texts) == {prefix \o t : t \in texts}

MCKeyword == {<<"i", "f">>, <<"v", "a", "l">>, <<"v", "a", "r">>}

Comments == UpTo(5, {"/", "*", "\n", "a"})
Lines == UpTo(5, {"\n", "\r", " ", "a"}) \union After(<<"/", "*">>, UpTo(4, {"\n", "\r", "*", "/"}))
Numbers == UpTo(4, {"0", "2", "b", "x", "."})
Operators == UpTo(3, {"&", "|", "=", "<", ">", "!", "+", "a"}) \union UpTo(5, {".", "/"})
Strings == After(<<"'">>, UpTo(4, {"'", "\"", "\\", "x", "n", "f", "\n"}))
             \union After(<<"\"", "\\">>, UpTo(4, {"\"", "\\", "x", "0", "z"}))
Words == UpTo(4, {"i", "f", "_", "0", " "})
           \union {k \o <<c>> : k \in MCKeyword, c \in {" ", "a", "(", ";"}}
           \union {<<"\\">>, <<"a", "\\">>, <<"a", "\t", ",", "\f", "VT", "~">>}

\* Texts without a word that is no token, for the look-ahead.
Known == UpTo(4, {"1", ".", "=", " ", "a"}) \union UpTo(4, {"/", "*", "\n", "a"})

MCSource == UNION {Comments, Lines, Numbers, Operators, Strings, Words, Known}

\* The characters of all these texts.
MCChar == {"/", "*", "\n", "\r", " ", "\t", "\f", "VT", "&", "|", "=", "<", ">", "!", "+", ",", "~",
           "(", ";", ".", "'", "\"", "\\", "_", "0", "1", "2", "a", "b", "f", "i", "l",
           "n", "r", "v", "x", "z", "F"}

\* The hypothesis of ScannerDeliversLexemes holds of these texts.
ASSUME KnownAreKnown == WordsKnown

=============================================================================
