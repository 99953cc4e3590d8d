\* A call that fails on one terminal beside one that transfers 4 bytes on another.
CONSTANTS
    NTerm = 2
    Counts = {4}
    MaxNested = 1
SPECIFICATION Spec
INVARIANT OwnValue
