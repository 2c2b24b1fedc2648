SPECIFICATION Spec
CONSTANTS
    None = None
    x = x
    y = y
    T = T
    Shape = "right"
    MaxExprPieces = 4
    MaxFieldPieces = 5
    MaxStmtPieces = 4
    Program <- MCProgram
    NameOrder <- MCNameOrder
    Inputs <- MCInputs
INVARIANTS
    ReadsBack
    TreeIsTheText
    RefusalIsReported
    CrashNeedsUnary
PROPERTY ReadsOn
