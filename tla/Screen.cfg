\* Two rows of two columns, the prompt one column before the last: the first
\* character printed after it scrolls.
CONSTANTS
    NTerm = 2
    NUM_ROWS = 2
    NUM_COLS = 2
    Glyphs = {"a"}
    PROMPT = 1
    BYTE = 2
    Blank = TRUE
    MaxOut = 2
SPECIFICATION Spec
INVARIANTS
    TypeOK
    Shown
    CursorResumes
    CursorShown
    VidmapFollows
PROPERTIES
    OwnScreens
    SwitchKeepsPictures
