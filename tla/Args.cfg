\* Buffers with more room than there are cells, and with less than a command.
CONSTANTS
    Terms = {t1, t2}
    CELLS = 5
    Lines <- MCLines
    Sizes = {1, 6}
SPECIFICATION Spec
SYMMETRY AnyTerminal
INVARIANTS
    TypeOK
    OwnArguments
