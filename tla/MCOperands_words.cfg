SPECIFICATION Spec
CONSTANTS
    WordBits = 8
    Family <- Families
    Undef = Undef
    Trap = Trap
    Real = Real
    NoMeaning = NoMeaning
INVARIANTS
    TypeOK
    MeaningKept
    WrapperAgrees
    WellTypedIsEncoded
    IllTypedIsStopped
CHECK_DEADLOCK FALSE
