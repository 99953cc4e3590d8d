----------------------------- MODULE LineInput -----------------------------
(***************************************************************************)
(* The line input of one terminal: what kb_handler (idt.c) does with the   *)
(* keys pressed while the terminal is displayed, and t_read (terminal.c),  *)
(* which a program of the terminal sits in until there is a line.          *)
(*                                                                         *)
(* kb_handler runs behind an interrupt gate: one step per key.  t_read     *)
(* runs with interrupts on and shares kb_buff and two flags with it: the   *)
(* copy of a cell, the tests that follow it and the wiping of a cell are   *)
(* one step each.  Every terminal has its own copy of these variables;     *)
(* t_read uses the scheduled terminal's, kb_handler the displayed one's.   *)
(* So the one modelled meets keys only while it is displayed, its program  *)
(* runs only while it is scheduled, and nothing of the others shows.       *)
(*                                                                         *)
(* Cursor and screen are left out.  NoLimit, KeepNewline, MissLast,        *)
(* HalfWiped and SpaceKept are not the code: each is the definition that   *)
(* follows it with a plausible mistake in it.                              *)
(***************************************************************************)
EXTENDS Integers, Sequences

CONSTANTS
    B,          \* MAX_BUFF_SIZE, the size of every buffer: 128 in the code
    TAB,        \* spaces the tab key types: 4 in the code
    Saved,      \* lines kept for the up arrow: 5 in the code
    ReadSizes   \* nbytes of the calls of t_read, 128 for any that is larger

ASSUME LineAssumption ==
    /\ B \in Nat /\ B > 1
    /\ TAB \in Nat
    /\ Saved \in Nat \ {0}
    /\ ReadSizes \subseteq 1 .. B

(* A printable character, a space, a newline, '\t', which stands for       *)
(* nothing typed, and '\0'.                                                *)
Letter  == "x"
Space   == " "
Newline == "nl"
Blank   == "t"
Nul     == "0"
Chars   == {Letter, Space, Newline, Blank, Nul}
Cells   == 0 .. B - 1
Lines   == 0 .. Saved - 1
Full(c) == [k \in Cells |-> c]

VARIABLES
    kb_buff,
    kb_idx,
    kb_save,                \* kb_save[n]: the n-th line back
    up_arrow_counter,
    TERMINAL_READ_FLAG,
    CLEAR_SCREEN_FLAG,
    displayed,              \* displayed_terminal is this terminal
    at,                     \* where t_read is
    upper_bound,
    i,                      \* its loop index
    count,                  \* its result
    buf,                    \* the cells of the caller's buffer this pass has written
    line,                   \* what the user has typed and not entered
    entered,                \* what the user entered and has not been read
    keyed,                  \* a key has been met in this pass over kb_buff
    hurried                 \* the user was ahead of t_read

keyboard == << kb_idx, kb_save, up_arrow_counter >>
reader   == << at, upper_bound, i, count, buf >>
ghost    == << line, entered, keyed, hurried >>
vars     == << kb_buff, keyboard, TERMINAL_READ_FLAG, CLEAR_SCREEN_FLAG,
               displayed, reader, ghost >>

(* "look": before the wait for displayed == scheduled.  "copy": before the *)
(* assignment of buf[i].  "test": before the tests that follow it.         *)
(* "wipe": before kb_buff[i] = '\t'.  "leave": before the return.          *)
Places == {"away", "look", "copy", "test", "wipe", "leave"}

Nothing == [what |-> "none", text |-> << >>]
AClear  == [what |-> "clear", text |-> << >>]
ALine(s) == [what |-> "line", text |-> s]
Pending == entered.what # "none"

Holds(cells, c) == \E k \in Cells : cells[k] = c
FirstOf(cells, c) ==
    CHOOSE k \in Cells : cells[k] = c /\ \A m \in Cells : m < k => cells[m] # c

(* kb_buff is zero at boot, init_keyboard blanks the saved lines.          *)
Init ==
    /\ kb_buff = Full(Nul)
    /\ kb_idx = 0
    /\ kb_save = [n \in Lines |-> Full(Blank)]
    /\ up_arrow_counter = 0
    /\ TERMINAL_READ_FLAG = 0
    /\ CLEAR_SCREEN_FLAG = 0
    /\ displayed \in BOOLEAN
    /\ at = "away"
    /\ upper_bound = B
    /\ i = 0
    /\ count = 0
    /\ buf = << >>
    /\ line = << >>
    /\ entered = Nothing
    /\ keyed = FALSE
    /\ hurried = FALSE

-----------------------------------------------------------------------------
(* kb_handler with a key that reaches the buffer.  The user is ahead of    *)
(* t_read when the line before is still to be read, or with a second key   *)
(* within one pass of t_read over the buffer; l and e are line and entered *)
(* after the key, which mean nothing once the user has been ahead.         *)
InPass == at \in {"copy", "test"}
Key(l, e) ==
    LET ahead == hurried \/ Pending \/ (InPass /\ keyed)
    IN  /\ displayed
        /\ TERMINAL_READ_FLAG = 1
        /\ hurried' = ahead
        /\ keyed' = (~ahead /\ InPass)
        /\ line' = IF ahead THEN << >> ELSE l
        /\ entered' = IF ahead THEN Nothing ELSE e
        /\ UNCHANGED << TERMINAL_READ_FLAG, displayed, reader >>

(* n copies of c are typed, as far as there is room for the newline.       *)
NoLimit(n) == n
Limit(n) == IF kb_idx + n < B THEN n ELSE B - 1 - kb_idx

Typed(c, n) ==
    LET m == Limit(n)
    IN  /\ Key(line \o [k \in 1 .. m |-> c], entered)
        /\ kb_buff' = [k \in Cells |->
                          IF k \in kb_idx .. kb_idx + m - 1 THEN c ELSE kb_buff[k]]
        /\ kb_idx' = kb_idx + m
        /\ UNCHANGED << kb_save, CLEAR_SCREEN_FLAG >>

(* Tab returns before up_arrow_counter is reset.                           *)
KeyTab == Typed(Space, TAB) /\ UNCHANGED up_arrow_counter
KeyChar(c) == Typed(c, 1) /\ up_arrow_counter' = 0

KeyBackspace ==
    /\ kb_idx > 0
    /\ Key(SubSeq(line, 1, Len(line) - 1), entered)
    /\ kb_idx' = kb_idx - 1
    /\ kb_buff' = [kb_buff EXCEPT ![kb_idx - 1] = Blank]
    /\ up_arrow_counter' = 0
    /\ UNCHANGED << kb_save, CLEAR_SCREEN_FLAG >>

(* The line as it is saved.                                                *)
KeepNewline(cells) == cells
NoNewline(cells) == [k \in Cells |-> IF cells[k] = Newline THEN Blank ELSE cells[k]]

KeyEnter ==
    /\ Key(<< >>, ALine(line))
    /\ kb_buff' = [kb_buff EXCEPT ![kb_idx] = Newline]
    /\ kb_save' = IF kb_idx = 0
                  THEN kb_save
                  ELSE [n \in Lines |-> IF n = 0 THEN NoNewline(kb_buff') ELSE kb_save[n - 1]]
    /\ kb_idx' = 0
    /\ up_arrow_counter' = 0
    /\ UNCHANGED CLEAR_SCREEN_FLAG

(* A saved line is copied, blanks and all; the copy may stop at a blank,   *)
(* where the cursor happens to be in the last column.                      *)
KeyUp ==
    LET saved == kb_save[up_arrow_counter]
        end   == IF Holds(saved, Blank) THEN FirstOf(saved, Blank) ELSE B
    IN  /\ up_arrow_counter < Saved
        /\ Key([k \in 1 .. end |-> saved[k - 1]], entered)
        /\ \E last \in {k \in Cells : saved[k] = Blank} \cup {B - 1} :
              kb_buff' = [k \in Cells |-> IF k <= last THEN saved[k] ELSE kb_buff[k]]
        /\ kb_idx' = end
        /\ up_arrow_counter' = up_arrow_counter + 1
        /\ UNCHANGED << kb_save, CLEAR_SCREEN_FLAG >>

(* Every cell but the last is blanked.                                     *)
KeyCtrlL ==
    /\ Key(<< >>, AClear)
    /\ kb_buff' = [k \in Cells |-> IF k < B - 1 THEN Blank ELSE kb_buff[k]]
    /\ kb_idx' = 0
    /\ up_arrow_counter' = 0
    /\ CLEAR_SCREEN_FLAG' = 1
    /\ UNCHANGED kb_save

(* Shift, caps lock, a key without a character, a key released (but the up *)
(* arrow, which changes nothing), backspace on an empty line or with the   *)
(* cursor in the corner.                                                   *)
KeyOther ==
    /\ displayed
    /\ TERMINAL_READ_FLAG = 1
    /\ up_arrow_counter' = 0
    /\ UNCHANGED << kb_buff, kb_idx, kb_save, TERMINAL_READ_FLAG,
                    CLEAR_SCREEN_FLAG, displayed, reader, ghost >>

Keyboard ==
    \/ KeyTab
    \/ \E c \in {Letter, Space} : KeyChar(c)
    \/ KeyBackspace
    \/ KeyEnter
    \/ KeyUp
    \/ KeyCtrlL
    \/ KeyOther

-----------------------------------------------------------------------------
(* t_read is called.  What is left in the buffers counts as typed ahead.   *)
ReadStart(n) ==
    /\ at = "away"
    /\ TERMINAL_READ_FLAG' = 1
    /\ upper_bound' = n
    /\ at' = "look"
    /\ hurried' = (Holds(kb_buff, Newline) \/ (hurried /\ kb_idx # 0))
    /\ line' = IF kb_idx = 0 THEN << >> ELSE line
    /\ entered' = IF CLEAR_SCREEN_FLAG = 1 THEN AClear ELSE Nothing
    /\ keyed' = FALSE
    /\ UNCHANGED << kb_buff, keyboard, CLEAR_SCREEN_FLAG, displayed, i, count, buf >>

ReadLook ==
    /\ at = "look"
    /\ displayed
    /\ i' = 0
    /\ buf' = << >>
    /\ at' = "copy"
    /\ keyed' = FALSE
    /\ UNCHANGED << kb_buff, keyboard, TERMINAL_READ_FLAG, CLEAR_SCREEN_FLAG,
                    displayed, upper_bound, count, line, entered, hurried >>

ReadCopy ==
    /\ at = "copy"
    /\ buf' = Append(buf, kb_buff[i])
    /\ at' = "test"
    /\ UNCHANGED << kb_buff, keyboard, TERMINAL_READ_FLAG, CLEAR_SCREEN_FLAG,
                    displayed, upper_bound, i, count, ghost >>

(* The end of the pass over the first upper_bound cells.                   *)
MissLast == i + 1 >= upper_bound - 1
PassOver == i + 1 = upper_bound

(* kb_buff[i] is read again, and no newline is found.                      *)
SpaceKept == buf
SpaceCut  == IF kb_buff[i] = Space THEN [buf EXCEPT ![i + 1] = Nul] ELSE buf
ReadOn ==
    /\ at = "test"
    /\ kb_buff[i] # Newline
    /\ CLEAR_SCREEN_FLAG = 0
    /\ buf' = SpaceCut
    /\ IF PassOver THEN at' = "look" /\ i' = 0 ELSE at' = "copy" /\ i' = i + 1
    /\ UNCHANGED << kb_buff, keyboard, TERMINAL_READ_FLAG, CLEAR_SCREEN_FLAG,
                    displayed, upper_bound, count, ghost >>

ReadNewline ==
    /\ at = "test"
    /\ kb_buff[i] = Newline
    /\ count' = i + 1
    /\ i' = 0
    /\ at' = "wipe"
    /\ UNCHANGED << kb_buff, keyboard, TERMINAL_READ_FLAG, CLEAR_SCREEN_FLAG,
                    displayed, upper_bound, buf, ghost >>

ReadCleared ==
    /\ at = "test"
    /\ kb_buff[i] # Newline
    /\ CLEAR_SCREEN_FLAG = 1
    /\ CLEAR_SCREEN_FLAG' = 0
    /\ buf' = [SpaceCut EXCEPT ![1] = Nul]
    /\ count' = i + 1
    /\ i' = 0
    /\ at' = "wipe"
    /\ UNCHANGED << kb_buff, keyboard, TERMINAL_READ_FLAG, displayed,
                    upper_bound, ghost >>

HalfWiped == i + 2 = B
AllWiped == i + 1 = B
ReadWipe ==
    /\ at = "wipe"
    /\ kb_buff' = [kb_buff EXCEPT ![i] = Blank]
    /\ IF AllWiped THEN at' = "leave" /\ i' = 0 ELSE at' = "wipe" /\ i' = i + 1
    /\ UNCHANGED << keyboard, TERMINAL_READ_FLAG, CLEAR_SCREEN_FLAG, displayed,
                    upper_bound, count, buf, ghost >>

ReadReturn ==
    /\ at = "leave"
    /\ TERMINAL_READ_FLAG' = 0
    /\ at' = "away"
    /\ buf' = << >>
    /\ count' = 0
    /\ entered' = Nothing
    /\ UNCHANGED << kb_buff, keyboard, CLEAR_SCREEN_FLAG, displayed,
                    upper_bound, i, line, keyed, hurried >>

t_read ==
    \/ ReadLook
    \/ ReadCopy
    \/ ReadOn
    \/ ReadNewline
    \/ ReadCleared
    \/ ReadWipe
    \/ ReadReturn

-----------------------------------------------------------------------------
(* The program is halted, by itself or, wherever it is, by Ctrl+C: kb_idx  *)
(* is reset, unless the program is a base shell, and the rest is left.     *)
Halt(base) ==
    /\ at' = "away"
    /\ i' = 0
    /\ buf' = << >>
    /\ count' = 0
    /\ kb_idx' = IF base THEN kb_idx ELSE 0
    /\ line' = IF base THEN line ELSE << >>
    /\ entered' = Nothing
    /\ hurried' = (hurried \/ Pending)
    /\ UNCHANGED << kb_buff, kb_save, up_arrow_counter, TERMINAL_READ_FLAG,
                    CLEAR_SCREEN_FLAG, displayed, upper_bound, keyed >>

(* schedule() displays this terminal, or another one.                      *)
SwitchDisplay ==
    /\ displayed' = ~displayed
    /\ UNCHANGED << kb_buff, keyboard, TERMINAL_READ_FLAG, CLEAR_SCREEN_FLAG,
                    reader, ghost >>

Next ==
    \/ Keyboard
    \/ \E n \in ReadSizes : ReadStart(n)
    \/ t_read
    \/ \E base \in BOOLEAN : Halt(base)
    \/ SwitchDisplay

(* A program in t_read gets its turns (Processes!EveryTerminalRuns).       *)
Fairness == WF_vars(t_read)

Spec == Init /\ [][Next]_vars /\ Fairness

-----------------------------------------------------------------------------
TypeOK ==
    /\ kb_buff \in [Cells -> Chars]
    /\ kb_idx \in Cells
    /\ kb_save \in [Lines -> [Cells -> Chars]]
    /\ up_arrow_counter \in 0 .. Saved
    /\ TERMINAL_READ_FLAG \in {0, 1}
    /\ CLEAR_SCREEN_FLAG \in {0, 1}
    /\ displayed \in BOOLEAN
    /\ at \in Places
    /\ upper_bound \in 1 .. B
    /\ i \in Cells
    /\ count \in 0 .. B
    /\ buf \in Seq(Chars) /\ Len(buf) <= upper_bound
    /\ line \in Seq(Chars) /\ Len(line) < B
    /\ entered \in [what : {"none", "clear", "line"}, text : Seq(Chars)]
    /\ Len(entered.text) < B
    /\ keyed \in BOOLEAN
    /\ hurried \in BOOLEAN

(* The cells up to kb_idx hold what the user sees typed, whatever t_read,  *)
(* Ctrl+C and the displaying of other terminals did meanwhile, unless the  *)
(* user was ahead of t_read.                                               *)
BufferHoldsLine ==
    ~hurried /\ ~Pending =>
        /\ kb_idx = Len(line)
        /\ \A k \in 1 .. kb_idx : kb_buff[k - 1] = line[k]
        /\ ~Holds(kb_buff, Newline)

(* t_read returns when, and only when, the user has entered a line or      *)
(* cleared the screen, and then with that line, spaces turned into '\0',   *)
(* though the keys come at any point of its scan: unless the user was      *)
(* ahead of it.                                                            *)
LineIntact ==
    at = "leave" /\ ~hurried =>
        \/ entered.what = "clear" /\ buf[1] = Nul
        \/ /\ entered.what = "line"
           /\ count = Len(entered.text) + 1
           /\ \A k \in 1 .. count - 1 :
                 buf[k] = IF entered.text[k] = Space THEN Nul ELSE entered.text[k]

(* Every saved line ends within its cells, so the up arrow never leaves    *)
(* kb_idx behind the buffer.                                               *)
SavedLinesEnd == \A n \in Lines : Holds(kb_save[n], Blank)

(* A line entered while a program reads it is delivered, if the terminal   *)
(* stays displayed and the user does not type ahead; keys that reach no    *)
(* buffer and the halting of programs do no harm.                          *)
Entered == at # "away" /\ ~hurried /\ \E k \in 0 .. upper_bound - 1 : kb_buff[k] = Newline
LineDelivered == <>[]displayed => (Entered ~> at = "away" \/ hurried)

(* "we only allow the keyboard buffer to be populated if a                 *)
(* terminal_read() is active" (idt.c:175).                                 *)
KeysOnlyWhileReading == [][at = "away" => UNCHANGED kb_buff]_vars

=============================================================================
