SPECIFICATION Spec
CONSTANTS
    Name <- Unnamed
    BasicType <- Types
    MaxCommands = 3
INVARIANTS
    TypeOK
    ModulesOwned
    DeletedOnce
    ContextLast
    UsesAreAlive
    StaleNeedsFailure
PROPERTIES
    NamesAreFinal
    ProgramEnds
    Keeps
