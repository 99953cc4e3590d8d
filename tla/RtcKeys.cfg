CONSTANTS
    NTerm = 1
    BASE = 2
    INT_MAX = 3
SPECIFICATION Spec
INVARIANT ReadTimed
