SPECIFICATION Spec
CONSTANTS
    Name <- MCName
    Expression <- MCExpression
    Statement <- MCStatement
    Program <- Live
    Uninit = {NoBlock, Garbage}
    NoSymbol = NoSymbol
    NoValue = NoValue
    NoCell = NoCell
    NoBlock = NoBlock
    Garbage = Garbage
    OracleLen = 4
INVARIANTS
    TypeOK
    NoDangling
    LoopPoints
    GraphSealed
    MeaningPreserved
PROPERTIES
    SealedIsFinal
    Termination
