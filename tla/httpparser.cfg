SPECIFICATION Spec
CONSTANTS
    Types = {"REQUEST", "RESPONSE", "BOTH"}
    Alphabet <- Symbols
    Statuses = {101, 200, 2000}
    ULLONG_MAX = 47
    Answers <- Answering
    MaxItem <- Longest
    Lengths = {0, 1, 10, 16}
CHECK_DEADLOCK FALSE
INVARIANTS
    TypeOK
    SplitInvariant
    CallbackOrder
    BodyAsDeclared
    AssertionsHold
