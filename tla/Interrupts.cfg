SPECIFICATION Spec
CONSTANTS
    Pressed = {"lshift", "rshift", "lctrl", "lalt", "caps",
               "c", "l", "1", "backquote", "star", "F1"}
    MaxHeld = 2
PROPERTIES
    KeysUnderstood
    RequestsServed
