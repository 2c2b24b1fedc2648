SPECIFICATION Spec
CONSTANTS
    WordBits = 8
    Family <- Lazily
    Undef = Undef
    Trap = Trap
    Real = Real
    NoMeaning = NoMeaning
INVARIANT MeaningfulIsSafe
CHECK_DEADLOCK FALSE
