------------------------------- MODULE Screen -------------------------------
(***************************************************************************)
(* The screen and the terminals that share it: putc, putc_kb and clear     *)
(* (lib.c), t_write (terminal.c), kb_handler's echo (idt.c), the exchange  *)
(* of pages when another terminal is displayed (scheduling.c), sys_vidmap  *)
(* and what sys_halt does to the cursor (syscalls.c).                      *)
(*                                                                         *)
(* The displayed terminal has its picture in video memory, the others in a *)
(* page of their own.  Switches happen inside a tick, which goes back to   *)
(* the program it interrupted.  t_write runs with interrupts off and is    *)
(* one step; the kernel's own messages are printed with interrupts on, and *)
(* a putc of theirs is several: the choice of the page, the characters,    *)
(* the test for the cursor, and the writes to the hardware's registers.    *)
(* How a tick can find the middle of the second, half a page scrolled, is  *)
(* left out.                                                               *)
(*                                                                         *)
(* Init is the state after boot, with all shells at their first prompt and *)
(* the displayed one cleared if Blank.                                     *)
(* The program of a terminal acts in its turns; all programs are alike.    *)
(*                                                                         *)
(* HereAlways, SaveNothing, Unsaved, NotFollowed and VmemBehind are not    *)
(* the code: each is the next definition with a plausible mistake in it.   *)
(***************************************************************************)
EXTENDS Console

CONSTANTS
    NTerm,      \* terminals: 3 in the code
    PROMPT,     \* column after a shell's prompt: 7 in the code
    Blank,      \* whether the displayed terminal was cleared since boot
    BYTE,       \* values of a register of the cursor: 256 in the code
    MaxOut      \* bound: changes of a picture

ASSUME ScreenAssumption ==
    /\ NTerm \in Nat \ {0}
    /\ PROMPT \in Cols
    /\ Blank \in BOOLEAN
    /\ BYTE \in Nat \ {0}
    /\ MaxOut \in Nat

Terms == 0 .. NTerm - 1
VIDEO == NTerm          \* physical page 0xB8; t stands for 0xBA + t
Mem   == Terms \cup {VIDEO}
Unset == NTerm + 1      \* what vmem_page_table holds at boot

VARIABLES
    mem,                \* mem[p]: the page of video memory or of a store
    screen,             \* screen_x and screen_y of each terminal
    saved,              \* cursor_x and cursor_y in terminal_processes
    crtc,               \* the two registers of the hardware's cursor
    index,              \* the one that port 0x3D5 writes to
    displayed_terminal,
    scheduled_terminal,
    vmem_page_table,    \* the page a program gets from sys_vidmap
    pc,                 \* where the program of each terminal is
    chosen,             \* video_mem_cur of its putc, or sys_vidmap's page, or Unset
    aim,                \* x and y of its update_cursor
    reading,            \* TERMINAL_READ_FLAG
    away,               \* printed or halted since it was last displayed
    overtaken,          \* the page table was written for another display
    late,               \* terminals in an update_cursor that something overtook
    strayed,            \* one of these has written a register last
    lines,              \* what was put on each terminal ...
    whole,              \* ... as long as nothing else changed its picture
    out                 \* changes of a picture so far

cursor == << crtc, index, late, strayed >>
view   == << mem, screen, cursor >>
notes  == << away, lines, whole, out >>
vars   == << view, saved, displayed_terminal, scheduled_terminal, vmem_page_table,
             pc, chosen, aim, reading, overtaken, notes >>

(* "putc": the page is chosen.  "moved": the characters are written, the   *)
(* cursor not asked for.  In update_cursor: "cursor", before its first     *)
(* write; "low", the low register selected; "sent", its byte sent; "high", *)
(* the high register selected.                                             *)
(* "vidmap": the page is chosen, the table not written.                    *)
Halves  == {"low", "sent", "high"}
Updates == {"cursor"} \cup Halves
PCs     == {"user", "putc", "moved", "reading", "vidmap"} \cup Updates

Registers == {"low", "high"}    \* 0x0F and 0x0E
Bytes     == 0 .. BYTE - 1

(* The registers with the cursor at a place.                               *)
CursorAt(at) ==
    LET pos == at.y * NUM_COLS + at.x
    IN  [r \in Registers |-> IF r = "low" THEN pos % BYTE ELSE (pos \div BYTE) % BYTE]

PageOf(t) == IF t = displayed_terminal THEN VIDEO ELSE t
Picture(t) == mem[PageOf(t)]

Mark   == CHOOSE c \in Glyphs : TRUE
Header == << << >>, [k \in 1 .. PROMPT |-> Mark] >>
Prompt == [Cleared EXCEPT ![1] = [col \in Cols |-> IF col < PROMPT THEN Mark ELSE BLANK]]
Start  == [x |-> PROMPT, y |-> 1]

Init ==
    /\ mem = [p \in Mem |-> IF p = 0 \/ (p = VIDEO /\ Blank) THEN Cleared ELSE Prompt]
    /\ screen = [t \in Terms |-> IF t = 0 /\ Blank THEN Origin ELSE Start]
    /\ lines = [t \in Terms |-> IF t = 0 /\ Blank THEN NoLines ELSE Header]
    /\ saved = [t \in Terms |-> Start]
    /\ crtc = CursorAt(screen[0])
    /\ index = "high"
    /\ displayed_terminal = 0
    /\ scheduled_terminal = 0
    /\ vmem_page_table = [t \in Terms |-> Unset]
    /\ pc = [t \in Terms |-> "user"]
    /\ chosen = [t \in Terms |-> Unset]
    /\ aim = [t \in Terms |-> Origin]
    /\ reading = [t \in Terms |-> FALSE]
    /\ away = [t \in Terms |-> FALSE]
    /\ overtaken = [t \in Terms |-> FALSE]
    /\ late = {}
    /\ strayed = FALSE
    /\ whole = [t \in Terms |-> TRUE]
    /\ out = 0

Here(p) == pc[scheduled_terminal] = p
Goto(p) == pc' = [pc EXCEPT ![scheduled_terminal] = p]
Choose(p) == chosen' = [chosen EXCEPT ![scheduled_terminal] = p]

-----------------------------------------------------------------------------
Counted == out < MaxOut /\ out' = out + 1

(* Character c is put on page p at terminal t's place.  If p is not t's    *)
(* page any more, t's picture lacks it and another may have it.            *)
PutOn(t, p, c) ==
    LET put  == Put(mem[p], screen[t], c)
        torn == IF p = PageOf(t) THEN {}
                ELSE {t} \cup (IF p = VIDEO THEN {displayed_terminal} ELSE {})
    IN  /\ Counted
        /\ mem' = [mem EXCEPT ![p] = put.page]
        /\ screen' = [screen EXCEPT ![t] = put.at]
        /\ away' = [away EXCEPT ![t] = @ \/ t # displayed_terminal]
        /\ whole' = [u \in Terms |-> whole[u] /\ u \notin torn]
        /\ lines' = [u \in Terms |-> IF ~whole'[u] THEN NoLines
                                    ELSE IF u = t THEN AddChar(lines[u], c) ELSE lines[u]]

HereAlways == VIDEO
PageChosen == IF displayed_terminal = scheduled_terminal THEN VIDEO ELSE scheduled_terminal

(* update_cursor with interrupts off.  Whoever was in the middle of one    *)
(* goes on with it later.                                                  *)
AllUpdating == {t \in Terms : pc'[t] \in Updates}
update_cursor(at) ==
    /\ crtc' = CursorAt(at)
    /\ index' = "high"
    /\ late' = AllUpdating
    /\ strayed' = FALSE

CursorTo(at) ==
    \/ /\ scheduled_terminal = displayed_terminal
       /\ update_cursor(at)
    \/ /\ scheduled_terminal # displayed_terminal
       /\ late' = late \cap AllUpdating
       /\ UNCHANGED << crtc, index, strayed >>

(* t_write, and what schedule prints before it calls sys_halt or changes   *)
(* terminals: interrupts are off.                                          *)
Output(c) ==
    /\ PutOn(scheduled_terminal, PageChosen, c)
    /\ CursorTo(screen'[scheduled_terminal])

t_write ==
    /\ Here("user")
    /\ UNCHANGED << saved, displayed_terminal, scheduled_terminal, vmem_page_table,
                    pc, chosen, aim, reading, overtaken >>
    /\ \E c \in Chars : Output(c)

(* A putc of printf or puts in a system call or an exception handler.      *)
PutcStart ==
    /\ Here("user")
    /\ Goto("putc")
    /\ Choose(PageChosen)
    /\ UNCHANGED << view, saved, displayed_terminal, scheduled_terminal, vmem_page_table,
                    aim, reading, overtaken, notes >>

PutcCells ==
    /\ Here("putc")
    /\ \E c \in Chars : PutOn(scheduled_terminal, chosen[scheduled_terminal], c)
    /\ Goto("moved")
    /\ Choose(Unset)
    /\ UNCHANGED << cursor, saved, displayed_terminal, scheduled_terminal,
                    vmem_page_table, aim, reading, overtaken >>

(* The cursor follows if the terminal is displayed at this moment.         *)
PutcCursor ==
    /\ Here("moved")
    /\ \/ /\ scheduled_terminal = displayed_terminal
          /\ Goto("cursor")
          /\ aim' = [aim EXCEPT ![scheduled_terminal] = screen[scheduled_terminal]]
       \/ /\ scheduled_terminal # displayed_terminal
          /\ Goto("user")
          /\ UNCHANGED aim
    /\ UNCHANGED << view, saved, displayed_terminal, scheduled_terminal, vmem_page_table,
                    chosen, reading, overtaken, notes >>

(* update_cursor with interrupts on: the low register is selected, its     *)
(* byte sent to whichever register is selected by then, and the same with  *)
(* the high one.                                                           *)
Overtake == late' = late \cup {t \in Terms \ {scheduled_terminal} : pc[t] \in Halves}
Byte(r)  == CursorAt(aim[scheduled_terminal])[r]

Select(r, from, to) ==
    /\ Here(from)
    /\ Goto(to)
    /\ index' = r
    /\ Overtake
    /\ UNCHANGED << mem, screen, crtc, strayed, saved, displayed_terminal,
                    scheduled_terminal, vmem_page_table, chosen, aim, reading,
                    overtaken, notes >>

SelectLow  == Select("low", "cursor", "low")
SelectHigh == Select("high", "sent", "high")

Send(r) ==
    /\ crtc' = [crtc EXCEPT ![index] = Byte(r)]
    /\ UNCHANGED << mem, screen, index, saved, displayed_terminal, scheduled_terminal,
                    vmem_page_table, chosen, reading, overtaken, notes >>

SendLow ==
    /\ Here("low")
    /\ Goto("sent")
    /\ Send("low")
    /\ Overtake
    /\ strayed' = (strayed \/ scheduled_terminal \in late)
    /\ UNCHANGED aim

(* With the last byte the cursor is right, or it is not if something else  *)
(* has used the registers since the test.                                  *)
SendHigh ==
    /\ Here("high")
    /\ Goto("user")
    /\ Send("high")
    /\ late' = {t \in Terms : t # scheduled_terminal /\ (t \in late \/ pc[t] \in Halves)}
    /\ strayed' = (scheduled_terminal \in late)
    /\ aim' = [aim EXCEPT ![scheduled_terminal] = Origin]

-----------------------------------------------------------------------------
(* t_read opens the keyboard for its terminal.                             *)
ReadStart ==
    /\ Here("user")
    /\ Goto("reading")
    /\ reading' = [reading EXCEPT ![scheduled_terminal] = TRUE]
    /\ UNCHANGED << view, saved, displayed_terminal, scheduled_terminal, vmem_page_table,
                    chosen, aim, overtaken, notes >>

ReadReturn ==
    /\ Here("reading")
    /\ Goto("user")
    /\ reading' = [reading EXCEPT ![scheduled_terminal] = FALSE]
    /\ UNCHANGED << view, saved, displayed_terminal, scheduled_terminal, vmem_page_table,
                    chosen, aim, overtaken, notes >>

(* Any key that finds setup set, Enter and Backspace read the cursor, and  *)
(* some of them do no more: what this leaves is the high register selected.*)
ReadCursor ==
    /\ reading[displayed_terminal]
    /\ index' = "high"
    /\ late' = late \cup {t \in Terms : pc[t] \in Halves}
    /\ UNCHANGED << mem, screen, crtc, strayed, saved, displayed_terminal,
                    scheduled_terminal, vmem_page_table, pc, chosen, aim, reading,
                    overtaken, notes >>

(* A key of a character, a space or a tab, or Enter, which does nothing    *)
(* when it reads the top left of the screen.                               *)
Echo(c) ==
    /\ reading[displayed_terminal]
    /\ c = "\n" => crtc # CursorAt(Origin)
    /\ UNCHANGED << saved, displayed_terminal, scheduled_terminal, vmem_page_table,
                    pc, chosen, aim, reading, overtaken >>
    /\ PutOn(displayed_terminal, VIDEO, c)
    /\ update_cursor(screen'[displayed_terminal])

(* Ctrl+L.                                                                 *)
ClearScreen ==
    LET d == displayed_terminal
    IN  /\ reading[d]
        /\ Counted
        /\ UNCHANGED << saved, displayed_terminal, scheduled_terminal, vmem_page_table,
                        pc, chosen, aim, reading, overtaken, away >>
        /\ mem' = [mem EXCEPT ![VIDEO] = Cleared]
        /\ screen' = [screen EXCEPT ![d] = Origin]
        /\ update_cursor(Origin)
        /\ lines' = [lines EXCEPT ![d] = NoLines]
        /\ whole' = [whole EXCEPT ![d] = TRUE]

-----------------------------------------------------------------------------
(* A tick that finds a switch requested: the picture and the cursor of the *)
(* displayed terminal are saved, those of d brought back.                  *)
SaveNothing == mem
SavePicture == [mem EXCEPT ![displayed_terminal] = mem[VIDEO]]

Unsaved    == saved
SaveCursor == [saved EXCEPT ![displayed_terminal] = screen[displayed_terminal]]

NotFollowed(d) == saved'[displayed_terminal]
Restored(d)    == saved'[d]

VmemBehind(d) == [t \in Terms |-> IF t = displayed_terminal THEN VIDEO ELSE t]
VmemFor(d)    == [t \in Terms |-> IF t = d THEN VIDEO ELSE t]

SwitchDisplay(d) ==
    /\ UNCHANGED << scheduled_terminal, pc, chosen, aim, reading, out >>
    /\ vmem_page_table' = VmemFor(d)
    /\ mem' = [SavePicture EXCEPT ![VIDEO] = SavePicture[d]]
    /\ saved' = SaveCursor
    /\ displayed_terminal' = d
    /\ screen' = [screen EXCEPT ![d] = saved'[d]]
    /\ update_cursor(Restored(d))
    /\ overtaken' = [t \in Terms |-> FALSE]
    /\ whole' = [whole EXCEPT ![d] = @ /\ ~away[d]]
    /\ lines' = [lines EXCEPT ![d] = IF whole'[d] THEN @ ELSE NoLines]
    /\ away' = [away EXCEPT ![d] = FALSE]

RoundRobin ==
    /\ scheduled_terminal' = (scheduled_terminal + 1) % NTerm
    /\ UNCHANGED << view, saved, displayed_terminal, vmem_page_table, pc, chosen,
                    aim, reading, overtaken, notes >>

-----------------------------------------------------------------------------
(* sys_halt expects the parent, a shell, to print its prompt; a base shell *)
(* is started again and its cursor left as it is.                          *)
CursorForPrompt == saved' = [saved EXCEPT ![scheduled_terminal].x = PROMPT]

Halt ==
    /\ Here("user")
    /\ CursorForPrompt
    /\ away' = [away EXCEPT ![scheduled_terminal] = @ \/ scheduled_terminal # displayed_terminal]
    /\ UNCHANGED << view, displayed_terminal, scheduled_terminal, vmem_page_table, pc,
                    chosen, aim, reading, overtaken, lines, whole, out >>

RestartShell == Here("user") /\ UNCHANGED vars

(* A tick that finds a Ctrl+C prints a message and halts the program where *)
(* it is, which may be in t_read or in a putc.                             *)
Sigquit ==
    /\ Goto("user")
    /\ Choose(Unset)
    /\ aim' = [aim EXCEPT ![scheduled_terminal] = Origin]
    /\ \E c \in Chars : Output(c)
    /\ CursorForPrompt \/ UNCHANGED saved
    /\ UNCHANGED << displayed_terminal, scheduled_terminal, vmem_page_table, reading,
                    overtaken >>

(* sys_vidmap asks whether its terminal is displayed, then writes its      *)
(* entry of the table, with interrupts on.                                 *)
VidmapStart ==
    /\ Here("user")
    /\ Goto("vidmap")
    /\ Choose(PageChosen)
    /\ UNCHANGED << view, saved, displayed_terminal, scheduled_terminal, vmem_page_table,
                    aim, reading, overtaken, notes >>

VidmapSet ==
    LET t == scheduled_terminal
    IN  /\ Here("vidmap")
        /\ Goto("user")
        /\ Choose(Unset)
        /\ vmem_page_table' = [vmem_page_table EXCEPT ![t] = chosen[t]]
        /\ overtaken' = [overtaken EXCEPT ![t] = chosen[t] # PageOf(t)]
        /\ UNCHANGED << view, saved, displayed_terminal, scheduled_terminal, aim, reading,
                        notes >>

(* A program draws on the page it has.                                     *)
Draw(at, c) ==
    LET t == scheduled_terminal
        p == vmem_page_table[t]
    IN  /\ Here("user")
        /\ p # Unset
        /\ mem' = [mem EXCEPT ![p] = Write(@, at, c)]
        /\ whole' = [u \in Terms |-> whole[u] /\ p # PageOf(u)]
        /\ lines' = [u \in Terms |-> IF whole'[u] THEN lines[u] ELSE NoLines]
        /\ Counted
        /\ UNCHANGED << screen, cursor, saved, displayed_terminal, scheduled_terminal,
                        vmem_page_table, pc, chosen, aim, reading, overtaken, away >>

Next ==
    \/ t_write
    \/ PutcStart \/ PutcCells \/ PutcCursor
    \/ SelectLow \/ SendLow \/ SelectHigh \/ SendHigh
    \/ ReadStart \/ ReadReturn \/ ReadCursor
    \/ \E c \in Chars : Echo(c)
    \/ ClearScreen
    \/ \E d \in Terms : SwitchDisplay(d)
    \/ RoundRobin
    \/ Halt \/ RestartShell \/ Sigquit
    \/ VidmapStart \/ VidmapSet
    \/ \E at \in {Origin}, c \in Glyphs : Draw(at, c)

Spec == Init /\ [][Next]_vars

-----------------------------------------------------------------------------
TypeOK ==
    /\ mem \in [Mem -> Pages]
    /\ screen \in [Terms -> Places]
    /\ saved \in [Terms -> Places]
    /\ crtc \in [Registers -> Bytes]
    /\ index \in Registers
    /\ displayed_terminal \in Terms
    /\ scheduled_terminal \in Terms
    /\ vmem_page_table \in [Terms -> Mem \cup {Unset}]
    /\ pc \in [Terms -> PCs]
    /\ chosen \in [Terms -> Mem \cup {Unset}]
    /\ aim \in [Terms -> Places]
    /\ reading \in [Terms -> BOOLEAN]
    /\ away \in [Terms -> BOOLEAN]
    /\ overtaken \in [Terms -> BOOLEAN]
    /\ late \subseteq Terms
    /\ strayed \in BOOLEAN
    /\ lines \in [Terms -> Texts]
    /\ whole \in [Terms -> BOOLEAN]
    /\ out \in 0 .. MaxOut

(* Every terminal shows the last lines of what was printed on it and typed *)
(* at it, broken at the right edge, with the cursor after the end, however *)
(* often it went to the background and back and whoever printed in between.*)
(* Out of this: a terminal that was drawn on, that was brought back after  *)
(* it printed in the background (its cursor goes back to where it was when *)
(* it was left), or whose page was exchanged inside a putc.                *)
Shown == \A t \in Terms : whole[t] => Shows(Picture(t), screen[t], lines[t])

(* Only a program that prints or draws, or an echo, changes a picture, and *)
(* only that of its own terminal, unless the pages were exchanged between  *)
(* its choice of a page and its use of it.                                 *)
OwnPage(t) ==
    /\ pc[t] = "putc" => chosen[t] = PageOf(t)
    /\ ~overtaken[t]
OwnScreens == [][
    OwnPage(scheduled_terminal) =>
        \A t \in Terms : Picture(t)' # Picture(t) =>
            t = scheduled_terminal \/ (t = displayed_terminal /\ reading[t])]_vars

(* Displaying another terminal changes no picture, neither the one that    *)
(* goes, nor the one that comes, nor the others.                           *)
SwitchKeepsPictures == [][
    displayed_terminal' # displayed_terminal =>
        \A t \in Terms : Picture(t)' = Picture(t)]_vars

(* A terminal comes back with the cursor where it was, if its program has  *)
(* neither printed nor been halted in the background.                      *)
CursorResumes == \A t \in Terms :
    t # displayed_terminal /\ ~away[t] => saved[t] = screen[t]

(* The hardware's cursor, from which Enter and Backspace take the place    *)
(* they edit, is the displayed terminal's ("always updating cursor so it   *)
(* follows what the user is typing", lib.c:275): while its program is not  *)
(* between the characters and the cursor of a putc, and until a program    *)
(* that was interrupted in update_cursor writes a register in spite of an  *)
(* echo, a switch of the display or another update_cursor in between.      *)
CursorShown ==
    pc[displayed_terminal] \notin {"moved"} \cup Updates /\ ~strayed =>
        crtc = CursorAt(screen[displayed_terminal])

(* The page sys_vidmap gave a program follows its terminal in and out of   *)
(* video memory, unless a switch came between the test and the write.      *)
VidmapFollows == \A t \in Terms :
    vmem_page_table[t] # Unset /\ ~overtaken[t] => vmem_page_table[t] = PageOf(t)

=============================================================================
