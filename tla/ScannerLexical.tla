---------------------------- MODULE ScannerLexical ----------------------------
(***************************************************************************)
(* The scanner implements the lexical grammar of Lexicon.                  *)
(***************************************************************************)
EXTENDS ScannerProps

(* next_token delivers the tokens of the text in order, each once, with their  *)
(* types and values, whatever is looked ahead at in between (next_token,       *)
(* look_ahead_token and scan implement the lexical grammar of Lexicon).        *)
Bare(t) == IF t.type = "UNKNOWN" THEN NoToken ELSE t
Lexical == INSTANCE Lexicon
               WITH text <- source, tokens <- [i \in DOMAIN delivered |-> Bare(delivered[i])]
DeliversLexemes == Lexical!Spec

\* Nobody looks ahead at a word that is no token: its token marks an empty slot.
WordsKnown ==
    \A t \in LooksAhead : \A i \in DOMAIN Lexical!TokensOf(t) : Lexical!TokensOf(t)[i].type # "UNKNOWN"

=============================================================================
