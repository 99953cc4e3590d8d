\* A buffer for two characters and their newline.
CONSTANTS
    B = 3
    TAB = 2
    Saved = 1
    ReadSizes = {2, 3}
SPECIFICATION Spec
INVARIANTS
    TypeOK
    BufferHoldsLine
    LineIntact
    SavedLinesEnd
PROPERTY LineDelivered
