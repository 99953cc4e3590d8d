CONSTANTS
    B = 2
    TAB = 1
    Saved = 1
    ReadSizes = {2}
SPECIFICATION Spec
PROPERTY KeysOnlyWhileReading
