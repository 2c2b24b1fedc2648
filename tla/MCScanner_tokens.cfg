SPECIFICATION Spec
CONSTANTS
    Char <- MCChar
    Source <- MCSource
    Keyword <- MCKeyword
    LooksAhead <- Known
INVARIANTS
    TypeOK
    InBounds
    Whereabouts
    CurrentIsLast
    TokensAdvance
PROPERTIES
    DeliversLexemes
    AllDelivered
