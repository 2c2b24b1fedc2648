SPECIFICATION Spec
CONSTANTS
    None = None
    x = x
    y = y
    T = T
    Shape = "documented"
    MaxExprPieces = 0
    MaxFieldPieces = 0
    MaxStmtPieces = 0
    Program <- MCProgram
    NameOrder <- MCNameOrder
    Inputs <- MCInputs
INVARIANT DocumentedIsAccepted
