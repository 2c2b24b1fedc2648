SPECIFICATION Spec
CONSTANTS
    Name <- MCName
    Expression <- MCExpression
    Statement <- MCStatement
    Program <- Mixed
    Uninit = {NoBlock, Garbage}
    NoSymbol = NoSymbol
    NoValue = NoValue
    NoCell = NoCell
    NoBlock = NoBlock
    Garbage = Garbage
    OracleLen = 4
INVARIANTS
    AllTerminated
    ScopesBalanced
    DoneIsWellFormed
    FailedIsIllFormed
    CrashedIsIllFormed
