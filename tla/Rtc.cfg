\* Quotients -2, 2, 1 and 0; counters wrap after 3.
CONSTANTS
    NTerm = 2
    BASE = 2
    INT_MAX = 3
SPECIFICATION Spec
INVARIANTS
    TypeOK
    ReadPaced
PROPERTY ReaderWakes
