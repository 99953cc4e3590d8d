-------------------------------- MODULE Keys --------------------------------
(***************************************************************************)
(* What kb_handler (idt.c) makes of one code from the keyboard: the        *)
(* latches for shift, caps lock, ctrl and alt, the chords, and the         *)
(* character of a key, as functions of the code, the latches and the read  *)
(* flag of the displayed terminal.  What a character, Ctrl+L or a key that *)
(* edits does to the line is in LineInput, what the others do in Processes.*)
(*                                                                         *)
(* A code is a key that goes down, or repeats, or goes up.  Both keys of a *)
(* modifier have the same code: the prefix that tells them apart is a code *)
(* of its own that does nothing.                                           *)
(*                                                                         *)
(* GatedCtrl is not the code: it is Latched with the keys of ctrl read     *)
(* only where those of shift are.                                          *)
(***************************************************************************)
EXTENDS Integers

(* Letters, the keys the code lists as numbers and symbols, the one it     *)
(* does not list, and the star of the keypad, which table_kb has no        *)
(* shifted entry for.                                                      *)
Letters   == {"a", "b", "c", "l"}
Listed    == {"1", "dash"}
Unlisted  == {"backquote"}
Star      == "star"
Symbols   == Listed \cup Unlisted
Functions == {"F1", "F2", "F3"}
Shifts    == {"lshift", "rshift"}
Ctrls     == {"lctrl", "rctrl"}
Alts      == {"lalt", "ralt"}
Modifiers == Shifts \cup Ctrls \cup Alts
AllKeys   == Letters \cup Symbols \cup {Star, "caps"} \cup Functions \cup Modifiers

Latches == [shift : BOOLEAN, cap : BOOLEAN, ctrl : BOOLEAN, alt : BOOLEAN]
Open    == [shift |-> FALSE, cap |-> FALSE, ctrl |-> FALSE, alt |-> FALSE]

(* What a key can bring about: a flag for the next tick, a cleared screen, *)
(* or a character, which is named by its key and by its half of the table. *)
Nothing     == [does |-> "nothing"]
Display(k)  == [does |-> "display", key |-> k]
Quote       == [does |-> "quote"]
Sigquit     == [does |-> "sigquit"]
Clear       == [does |-> "clear"]
Type(k, s)  == [does |-> "type", key |-> k, shifted |-> s]
Effects     == {Nothing, Quote, Sigquit, Clear}
               \cup {Display(k) : k \in Functions}
               \cup {Type(k, s) : k \in Letters \cup Symbols \cup {Star}, s \in BOOLEAN}

-----------------------------------------------------------------------------
(* Ctrl and alt are read always, shift and caps lock behind the test of    *)
(* TERMINAL_READ_FLAG.                                                     *)
After(latch, keys, code) == IF code.key \in keys THEN code.down ELSE latch

GatedCtrl(l, code, reading) ==
    [alt   |-> After(l.alt, Alts, code),
     ctrl  |-> IF reading THEN After(l.ctrl, Ctrls, code) ELSE l.ctrl,
     shift |-> IF reading THEN After(l.shift, Shifts, code) ELSE l.shift,
     cap   |-> IF reading /\ code = [key |-> "caps", down |-> TRUE] THEN ~l.cap ELSE l.cap]
Latched(l, code, reading) ==
    [alt   |-> After(l.alt, Alts, code),
     ctrl  |-> After(l.ctrl, Ctrls, code),
     shift |-> IF reading THEN After(l.shift, Shifts, code) ELSE l.shift,
     cap   |-> IF reading /\ code = [key |-> "caps", down |-> TRUE] THEN ~l.cap ELSE l.cap]

(* Caps lock turns the meaning of shift round, but for the keys listed.    *)
Shifted(l, k) == IF l.cap /\ k \notin Listed THEN ~l.shift ELSE l.shift

(* The star is no character unless shift leads behind the table's end,     *)
(* where anything may be.                                                  *)
Characters(l, k) ==
    IF k = Star
    THEN {Nothing} \cup (IF l.shift /\ ~l.cap THEN {Type(Star, TRUE)} ELSE {})
    ELSE {Type(k, Shifted(l, k))}

Outcomes(l, code, reading) ==
    LET k == code.key
    IN  CASE code.down /\ l.alt /\ k \in Functions          -> {Display(k)}
          [] code.down /\ l.ctrl /\ k = "b"                 -> {Quote}
          [] code.down /\ l.ctrl /\ k = "c"                 -> {Sigquit}
          [] code.down /\ l.ctrl /\ k = "l" /\ reading      -> {Clear}
          [] /\ code.down /\ reading
             /\ k \in Letters \cup Symbols \cup {Star}
             /\ ~(l.ctrl /\ k \in {"b", "c", "l"})          -> Characters(l, k)
          [] OTHER                                          -> {Nothing}

=============================================================================
