# Verification of the IllinixOS kernel

IllinixOS is a small x86 kernel: three terminals, up to six programs, a read-only
file system, a virtualised RTC, preemption by a 100 Hz timer. This directory holds
TLA+ models of its stateful parts, the TLC configurations that check them, and TLAPS
proofs about them. Paths below are relative to
`src/student-distrib/` unless they say otherwise.

- [The system](#the-system)
- [How the code's concurrency is modelled](#how-the-codes-concurrency-is-modelled)
- [Modules](#modules)
- [Runs, bounds and what they show](#runs-bounds-and-what-they-show)
- [Where code and words disagree](#where-code-and-words-disagree)
- [Fairness](#fairness)
- [What is proved](#what-is-proved)
- [What is not modelled](#what-is-not-modelled)
- [Plan](#plan)

## The system

| Part | State | Operations | Talks to |
|---|---|---|---|
| Process table (`syscalls.c`, `scheduling.h`) | `processes_active`, `num_active_processes`, `PCB_array` (PID, parent, EBP), `current_process_idx`, `no_parent_shell_flag`, `EXCEPTION_FLAG` | `sys_execute`, `sys_halt` | scheduler (shares `terminal_processes`), exceptions and Ctrl+C (call `sys_halt`) |
| Scheduler (`scheduling.c`) | `scheduled_terminal`, `displayed_terminal`, `terminal_processes`, `shell_count`, `TERMINALx_SWITCH`, `SIGQUIT_FLAG` | `pit_handler`, `schedule` | process table, keyboard (reads its flags), screen (moves video pages) |
| Interrupt entry (`idt.c`, `asm_macro.S`) | `storage`, the constant IDT | `sys_call` and `FINISH`, `exec_handler0`..`19`, `keyboard_call`, `rtc_call`, `pit_call` | everything |
| File descriptors (`syscalls.c`) | eight entries per PCB: four function pointers, inode, position, flags | `sys_open`, `sys_close`, `sys_read`, `sys_write`; the loop in `sys_halt` | RTC, file system, terminal, through the pointers |
| RTC (`rtc.c`) | `rtc_int`, `RTC_COUNTER_MAX`, `RTC_FLAG`, one each per terminal | `rtc_handler`, `rtc_open/read/write/close` | indexed with `scheduled_terminal` |
| Keyboard and line input (`idt.c`, `keyboard.c`, `terminal.c`) | `kb_buff`, `kb_idx`, `kb_save`, `up_arrow_counter`, `TERMINAL_READ_FLAG`, `CLEAR_SCREEN_FLAG`; latches for shift, caps, ctrl, alt | `kb_handler`, `t_read` | `t_read` polls what `kb_handler` writes |
| Screen (`lib.c`, `terminal.c`, `scheduling.c`) | `screen_x/y`, four video pages and the page entries that name them, saved cursors | `putc`, `putc_kb`, `t_write`, `sys_vidmap`, the switch branches of `schedule` | scheduler |
| Program arguments (`terminal.c`, `syscalls.c`, the shell) | `get_args_buf`, one for all terminals | copy in `t_read`, `sys_getargs` | line input |
| File system (`file_sys_driver.c`) | none of its own: an image in memory | `read_dentry_by_name/index`, `read_data`, `file_*`, `directory_*` | descriptors (position) |
| Interrupt controller (`i8259.c`) | the masks and the lines in service of two chips | `i8259_init`, `enable_irq`, `send_eoi` | every handler ends its interrupt here |
| Boot, paging, kernel library, tests | written once, or stateless | | |
| User programs (`src/syscalls`, `src/fish`) | | | system calls only |

What is hard about it, and what correctness means, by part:

* **Process table and scheduler.** Control leaves a function by replacing the stack
  pointer: a context switch returns into a frame saved turns ago, a halt returns into
  the parent's `sys_execute`. Each of these frames must still be there. Five records of
  "who runs" (CPU, `current_process_idx`, page entry 32, `tss.esp0`,
  `active_process_PID`) are updated in three places and must agree. Slots are reused.
  Base shells must come back in the same slot. Requests from the keyboard are flags
  served at later ticks.
* **Interrupt entry.** The gate of `int 0x80` and those of exceptions are trap gates: a
  system call is preempted anywhere, and any global it uses is shared with the calls of
  the other terminals.
* **Descriptors.** Ctrl+C ends a program in the middle of `open` or `close`; the entry
  is then neither open nor shut, and `sys_halt` walks the table.
* **RTC.** Counters of three terminals advance together, are reset by programs, and are
  looked at only in one's own turns.
* **Line input.** `t_read` scans a buffer that the keyboard interrupt edits, and wipes
  it afterwards.
* **Screen.** The page an output function writes to is chosen when it starts, while
  ticks move pictures between video memory and their stores; three records of the
  cursor (`screen_x/y`, the saved one, the hardware's) are updated at different times, the
  last by four writes to two ports that an interrupt can come between.
* **File system.** Block and end-of-file arithmetic on unsigned numbers that come from a
  program; names that fill their entry and have no terminator.
* **Program arguments.** One buffer between reads and programs of three terminals.
* **Interrupts.** A device is silent for ever if its interrupt is not ended, or its
  register not read, on any of the two dozen ways out of a handler; and the latches of
  the modifier keys follow codes that are not always looked at.

`PROJECT.json` lists each hazard at its line with the properties that would catch it.

## How the code's concurrency is modelled

One CPU. Interrupts are the only concurrency, and the modules cut the code into steps
where an interrupt can make a difference:

* The PIT, keyboard and RTC gates are interrupt gates (`idt.c:767-810`): their handlers
  are one step.
* `sys_execute` and `sys_halt` start with `cli` and leave by `iret` or by returning into
  a suspended call: one step.
* `int 0x80` and exceptions are trap gates: everything else in a system call runs with
  interrupts on and is several steps (`SysCall`, `FdTable`, `Rtc`, `LineInput`, `Screen`,
  `Args`), and so
  is an exception handler (`Processes!Fault`, then `SysHalt`).
* The tick moves to another terminal (`RoundRobin`), or halts the program it
  interrupted (`SigquitHalt`), or redisplays (`SwitchDisplay`), or starts a base shell.

## Modules

**`Processes`** models `sys_execute`, `sys_halt`, `pit_handler`, `schedule`, the exception
handlers and the chords Alt+F1..F3 and Ctrl+C. Its variables have the source's names
(`sigquit` and `terminal_switch` are the sets of terminals whose flag is set; a set of
active slots stands for `processes_active`). Stacks, frames on them, pages and `esp0`
values are named by the process they belong to: `EBP[p]` is the process on whose stack
the frame lies that a halt of `p` returns to, `EBP_SAVE[t]` the one whose tick frame a
switch to `t` restores. `cpu` and `kframe` are the machine: whose instructions run, and
the frame on which each kernel stack is suspended; a switch moves `cpu` to wherever the
saved frame really is, so a stale frame shows as a `cpu` that is not the process the
kernel believes in. `eax` is what `sys_execute` returns. Each action is a whole path
through a handler. Programs do nothing before the third tick, 30 ms after boot.

**`TerminalStacks`** is what those parts promise: every terminal is a stack of programs
with a shell at the bottom, changed only at the top and only in the terminal's turn.
**`ProcessesStacks`** maps the process table to it by following `parent_PID` and states
that `Processes` implements it.

**`SysCall`** models the entry macro, the jump table and `FINISH`, line by line where
the return value travels through `storage`.

**`FileSys`** has the read-only file system as functions of an image: look-up by name with
the comparison of at most 32 characters, `read_data` block by block with its unsigned
`offset + length`, the directory. **`FdTable`** models one PCB's descriptors under the
system calls of the programs that use the slot one after the other, and calls `FileSys`.
`Processes!Coherent` is why one slot is enough: a call always works on the descriptors
of the program that made it. `pc` says where a call is; a halt may come at any `pc`. A
pointer is named by the kind of file it serves. `history` is what a program has read at
a descriptor since it opened it, for `Delivered` and `EndMeansAll`. **`OpenFiles`** is
the abstract table, with `open`, `close` and exit in one step each. **`MCFdTable`** is the
image of the runs.

**`Rtc`** models the counters, periods and flags of all terminals, the three functions
that touch them, and the keyboard interrupt's fall-through into the RTC's. `runs_due`
and `beats_due` are history: handler runs and true RTC interrupts that the present
`rtc_read` still has to wait for. Periods are in interrupts of the fixed 512 Hz.
`rtc_write` sets the period in one step and the counter in the next.

**`LineInput`** models one terminal's line: one action per kind of key, and `t_read` with
one step per cell copied, tested or wiped. `line`, `entered`, `keyed` and `hurried` are
history: what the user has typed and entered, and whether the user was ahead of
`t_read`, that is, pressed a key between Enter and the delivery of the line, or two
keys within one pass of the copy loop. A line typed ahead of the reader can be lost, the
code makes no promise about it, and the properties exempt it by `hurried`.

**`Console`** has what one terminal's output does to a picture and a cursor: `putc`'s four
branches, `putc_kb`, `clear`, scrolling. **`Screen`** puts several terminals on it: video
memory and one store per terminal, `screen_x/y`, saved cursors, the hardware's cursor,
`vmem_page_table`, and the page a `putc` or a `sys_vidmap` has chosen and not yet used.
History: `lines` is what was put on a terminal, in lines, `whole` whether nothing but that made its
picture (no drawing, no page exchanged inside a `putc`, no return to an old cursor),
`away` whether it printed or was halted in the background, `overtaken` whether a switch
fell between `sys_vidmap`'s test and its write.

The hardware's cursor is two registers (`crtc`) behind one data port, and `index` is the one
the port stands for. Where interrupts are off (`t_write`, `kb_handler`, `schedule`)
`update_cursor` is part of a step. In a `putc` of the kernel's own messages they are on, and the test of
`lib.c:276`, with the place that is passed on (`aim`), and the four `outb` of
`keyboard.c:88-91` are a step each: `PutcCursor`, `SelectLow`, `SendLow`, `SelectHigh`,
`SendHigh`. `late` and `strayed` are history: which terminals are in an `update_cursor` that
an echo, a switch of the display, a key that reads the cursor or another `update_cursor`
has overtaken, and whether one of these was the last to write a register. The cursor is
wrong then in the code too: a program that is interrupted behind the test while its
terminal is taken off the screen puts its cursor on the terminal displayed by then, and
one that is interrupted between two `outb` may send its byte to the other register.
`CursorShown` exempts that by `strayed`, until the next `update_cursor` that nothing
overtakes.

**`Args`** models `get_args_buf` between the shells' `t_read`, their programs and
`sys_getargs`, one cell per step, for all terminals at once. `fresh` is history: nobody
else has written into the buffer since the line was copied. **`MCArgs`** has the lines.

**`Pic`** has the functions of `i8259.c` on two chips, and what the code relies on of the
chips: a request is kept until it is taken, a line in service keeps back those of its
own and of lower priority. **`Keys`** has what `kb_handler` makes of one code: latches,
chords, characters. **`Interrupts`** runs both: `entry`'s set-up step by step, the three
devices, the three handlers, programs that read and turn interrupts off for a time. The
keyboard's controller holds one code until `kb_handler` reads it, the clock keeps still
until register C is read. `held` is history, the keys that are down; `muddled` the
latches that the code cannot keep right: shift after an event that came while nobody
read (the gate of `idt.c:175`), and a modifier of which one key went up and the other
is still down. `reading` goes up and down as `LineInput`'s `t_read` comes and goes;
the effects of `Keys` are the actions of `LineInput` and the requests of `Processes`.

**`LeastNumber`** is a lemma of arithmetic the proofs share. **`ProcessesProofs`**,
**`FdTableProofs`**, **`RtcProofs`**, **`LineInputProofs`**, **`ScreenProofs`**, **`ArgsProofs`**
and **`InterruptsProofs`** hold the proofs about the modules they are named for.

In each module a group of definitions that the header names is not the code: each is
its neighbour with a plausible slip, used to confirm that a property fails when the
code is wrong (`mutants` in `PROJECT.json`).

## Runs, bounds and what they show

| Run | Bounds | States | Shows |
|---|---|---|---|
| `processes` | 2 terminals, 4 slots | 140 110 | the seven invariants of `Processes`, refinement of `TerminalStacks`, and the four liveness properties |
| `processes_fault` | 2 terminals, 4 slots | | a violation, see below |
| `syscall_value` | 2 terminals, one program above the shell | | a violation |
| `fdtable` | descriptors 0..4, a directory and two files of two blocks of two bytes, sizes 0, 1, 2 and -2 | 340 615 | calls defined, clean slots, whole entries, exact look-ups, positions inside the file, files read in order and to their end, refinement of `OpenFiles` |
| `fdtable_halt` | the same | | a violation |
| `rtc` | 2 terminals, base rate 2, 3-bit counters | 182 320 | full periods, readers woken |
| `rtc_keys` | 1 terminal | | a violation |
| `line_input` | 3 cells, tab of 2, 1 saved line | 1 319 630 | buffer and result hold what was typed, entered lines are delivered |
| `line_input_gate` | 2 cells | | a violation |
| `screen` | 2 terminals, 2 rows of 2 columns, registers of 1 bit, 2 changes of a picture | 2 661 630 | pictures, cursors and handed-out pages follow their terminal |
| `args` | 2 terminals (symmetric), 5 cells, three lines, sizes 1 and 6 | 3 089 733 | a program gets its own arguments, no loop's index leaves the buffer |
| `interrupts` | eleven keys, two held at a time | 148 808 | keys mean what is held down, no device is left waiting |

Why the bounds are enough. *Processes*: with two slots beside the base shells one is
taken, found missing, freed and taken by another terminal while frames of its former
owner are about, and programs nest three deep; the proofs cover every other size.
*FdTable*: three user descriptors put the one in use above and below others, which is all
`FirstFree` and the halting loop distinguish; files of a block and a half, one with its
second block missing, and sizes below, at and above what is left reach every branch of
`read_data`, -2 the one where `offset + length` wraps. Names of two characters fill an
entry whose field has two. *Rtc*: base rate 2 and frequencies -1 to 3 give quotients -2,
2, 1 and 0, that is every sign and periods of more than one interrupt; 3 bits are the
least that hold them with room to wrap. *LineInput*: a line of two characters and its
newline has a first, a last and a full cell; one saved line is recalled, and the next
request finds the counter at its limit. *Screen*: two columns and rows, with a prompt
that ends one before the last, make the first character wrap and scroll; two changes of
a picture are one before and one after, or one in each terminal, and everything that
moves pictures and cursors about is unbounded. The run starts with the displayed terminal
cleared and the other at its prompt, so that the places differ and a terminal brought
back shows it (`Blank`; the proofs cover the other start); four places in two registers of
two values each make a byte sent to the wrong register a wrong place. *Args*: a line without an
argument and two with arguments of different length, the longer filling the buffer, so
that each is read behind the rest of a longer one; two sizes, one too small for a line
and one to be capped. *Interrupts*: two keys held are a modifier and a key, or
both keys of one modifier; the keys are a letter in a chord, the letter of Ctrl+L, a
listed and an unlisted symbol, the star, a function key and every kind of modifier.

`FdTable` lets a run reach the fault of `fdtable_halt` and go round in it, so none of
the configurations turns deadlock checking off.

## Where code and words disagree

Five runs check a statement of the repository that the code does not keep.

* `processes_fault` - "sys_execute needs to return 256 in the case of an exception"
  (`syscalls.c:231`). The flag that says so is global and set before interrupts go off
  (`idt.c:524`); a program of another terminal that halts in between takes it.
* `syscall_value` - `sys_read` "returns the number of bytes transfered or -1 if it
  fails" (`syscalls.c:371`). All return values pass through one `storage` with
  interrupts on (`asm_macro.S:200-202`); two ticks deliver another terminal's value.
* `fdtable_halt` - `cli` was added to `sys_halt` against "the extremely rare pagefault
  bug" (`syscalls.c:108`). Ctrl+C in `sys_open` between lines 451 and 463, or in
  `sys_close` between 87 and 92, still makes `sys_halt` call a null pointer; the page
  fault handler calls `sys_halt` again, without end.
* `rtc_keys` - `rtc_handler` "is used whenever the RTC generates an interrupts"
  (`rtc.c:38`). `asm_macro.S:28` lacks the `;\` that would keep the `iret` of line 29 in
  the macro, so `keyboard_call` runs on into `rtc_call`: keys advance the clock.
* `line_input_gate` - "we only allow the keyboard buffer to be populated if a
  terminal_read() is active" (`idt.c:175`). A program killed in `t_read` leaves
  `TERMINAL_READ_FLAG` at 1.

## Fairness

* `Processes`: weak fairness of the tick. The PIT interrupts periodically, and the code
  turns interrupts off for finite stretches, with one exception: the endless fault that
  `fdtable_halt` finds behind `sys_halt`'s `cli`, after which no tick is taken any more. A halt is one
  step of `Processes` that succeeds, so its liveness properties are of runs in which no
  Ctrl+C falls on those lines of `sys_open` and `sys_close`. The same holds for the turns that
  `Rtc` and `LineInput` take from it. Programs and the user promise nothing:
  `EveryTerminalRuns` and `SigquitServed` assume that the user stops pressing chords,
  because a tick that serves one does nothing else. `SwitchServed` allows for a
  lower-numbered request, which is served first.
* `Rtc`: weak fairness of the RTC's interrupt and of the round robin
  (`Processes!EveryTerminalRuns`), strong fairness of a look at the flag within a turn:
  a turn lasts 10 ms and the loop in `rtc_read` three instructions, so a terminal that
  gets turns for ever does not miss its flag in all of them.
* `Interrupts`: weak fairness of the steps of the set-up and of the handlers, which run
  to their end, and of a system call's `sti`. Strong fairness of each interrupt: the
  processor takes the one that is signalled before its next instruction, so it cannot
  be signalled for ever and again and not be taken. `RequestsServed` assumes that the
  processor runs programs with interrupts on, and no higher line asking, again and again.
* `LineInput`: weak fairness of `t_read`'s steps, again because its terminal gets turns.
  `LineDelivered` assumes that the terminal stays displayed from some time on.

## What is proved

Every theorem is of the form `Spec => []Inv` (or `Spec => [][A]_vars`, or a refinement), for
every value of the constants the module's assumption allows: any number of terminals,
slots, descriptors, cells, rows and columns, any image of the file system, any widths.

**`ProcessesProofs`** (`SizesAssumption`: `NTerm \in Nat \ {0}`, `NTerm <= MaxProc`) proves
`TypeOK`, `Coherent`, `SavedContexts`, `ParentsWait`, `Stacked`, `BaseShells` and
`CountRight`. None of the invariants is inductive alone. `Coherent` after a context
switch needs `SavedContexts` (what is restored belongs to the terminal switched to);
`SavedContexts` after an execute or a halt needs `Stacked` (the slot taken or left is in
no other foreground) and `ParentsWait` (the process uncovered is not in a foreground
already); `ParentsWait` after a halt needs `Stacked` (nobody else waits for, or is, the
process that goes). `BaseShells` needs all base slots below the restarted one to be
occupied, so that the first fit finds the same slot (`SameSlot`). During boot, when
nothing but ticks happens, the active processes are exactly the shells started, which
is `Booting`. `IInv` is their conjunction. `CountRight` follows from `IInv` and the
invariant that the counter is the cardinality of the active set.

`StacksSafe` is the refinement of `TerminalStacks` but for its fairness:
`Spec => Stacks!Init /\ [][Stacks!Next]_(Stacks!vars)`. `Nested` says that a terminal that
is up has a chain, from a base shell to its foreground process, each the parent of the
next and no slot twice. What `Ancestry` reads is that chain (`AncestryOfChain`): there are
at most as many links as slots, and the least number of links at which the two differed
would follow one at which they agree. So each step only has to name the new chain: an
execute appends the slot it takes, a halt drops the last, which is in no other chain
because nobody's parent is running (`ParentsWait`), a restarted shell has its old slot.

**`FdTableProofs`** proves `TypeOK`, `CallsDefined`, `SlotClean`, `Whole`, `PositionInFile` and
`LookupExact`, and that the table implements `OpenFiles` (`Refinement`). `Calls` says what a
call has left in the entry it holds at each of its points, and `Standard` that
descriptors 0 and 1 hold the terminal's functions only; with them `CallsDefined` and
`Whole` become inductive, and `SlotClean` follows because the loop of `sys_halt` shuts an
entry from each of these points. `LookupExact` rests on the lemma that the comparison
succeeds exactly for equal names, also for those that fill the field, and on the least
number principle (`LeastNumber`, by well-founded induction on a set of numbers) for "the
first". `PositionInFile` rests on `read_data` never returning more than what is left. The
refinement maps an entry that a call holds to a closed one; each line of a call is then
a step of `OpenFiles` or none.

It proves `Delivered` and `EndMeansAll` as well, from `Traced`: what a program has read at a
descriptor is the content of the name it opened up to the position in the entry, and
the entry's inode is that name's. `Content` joins blocks with `FlattenSeq`, which defines
one joined beginning from the one before; `FlattenPieces` gives the value at each place
(the least beginning that were different would follow one that is not), `FileContent` the
byte a file has at each index, the driver's `index / 4096` and `index % 4096`; so a plain
read continues the prefix (`PlainFileRead`, `PlainDirectoryRead`, `PrefixGrows`).

**`RtcProofs`** proves `TypeOK` and `ReadPaced`. The strengthening, `Paced`: the handler runs
a read is still due and those counted so far are together at most the period, so the
flag stays clear until none is due.

**`LineInputProofs`** proves `TypeOK`, `BufferHoldsLine`, `LineIntact` and `SavedLinesEnd`.
`LineIntact` speaks of the moment `t_read` returns; the invariant follows the line there:
typed (`BufferHoldsLine`), entered with the only newline behind it (`LineEntered`) or
cleared (`ScreenCleared`), copied up to some cell in a pass no key fell into (`Copied`),
copied up to the newline (`Returning`).

**`ScreenProofs`** proves `TypeOK`, `CursorResumes`, `CursorShown`, `VidmapFollows`, `Shown`,
`SwitchKeepsPictures` and `OwnScreens`. The first three invariants are inductive with the
types, `Chosen` (a `putc` that writes has chosen a page) and `Steady`: an `update_cursor` that
nothing has overtaken is that of the displayed terminal, still has its place, and finds
the registers as it left them, so that its last byte makes both right. The two action
properties follow
from them step by step, because no two terminals have their picture on one page. `Shown` is inductive with
these; the work is in `PutShows`: a character put where a text ends, in the last column
and in the last row too, gives the page and the place of the text with that character.

**`ArgsProofs`** proves `TypeOK`, that is that no loop of `t_read` and `sys_getargs` leaves
`get_args_buf`, though `sys_getargs` looks at an index one behind it; `Inside` bounds each
loop's index where it is used. `OwnArguments` needs to know where each loop has got to:
`Follows` says how much of the line `t_read` has copied, and `Asked`, at each point of
`sys_getargs`, which part of the line has been seen and what has been taken of it; a step
of another terminal leaves all of it or makes the line no longer `fresh`. The assumption
is that lines end in their only newline and hold no `'\0'`, which `keyboard_handler` never
enters (`idt.c:424`).

**`InterruptsProofs`** proves `TypeOK` and `LetIn`: with interrupts on, a device that waits
is the one signalled unless a higher one asks. That is the part of `RequestsServed` that
is about single states; it needs that what is in service is what the running handler
ends (`InService`), that each line is unmasked from its step of the set-up on
(`Unmasked`), and that a code or a tick not read is still requested (`NotForgotten`).
`KeysUnderstood` follows from `Followed`: a latch that has not missed an event says whether
a key of its kind is held, as soon as the codes of these keys have been handled.

Only model-checked: the liveness properties `BootCompletes`, `EveryTerminalRuns`,
`SwitchServed`, `SigquitServed`, `ReaderWakes`, `LineDelivered` and `RequestsServed`, and with
them the fairness in `ImplementsStacks`: they need ENABLED, which is out of the prover's
reach. Every safety property of a passing run is proved.

## What is not modelled

* Where Backspace and the up arrow draw (`og_x`, `og_y`, `setup`, `next_row_flag`), the quote
  of Ctrl+B, and a tick in the middle of `putc`'s loop over the cells of the page. No
  modelled variable depends on them, but for where the copy loop of the up arrow may
  stop (`idt.c:257`): `KeyUp` allows every outcome.
* Printing and formatting of numbers, `printf`, and the helpers that list the directory
  on the screen.
* Programs other than the shell that call `t_read`, in `Args`.
* `first_page_table[0xB8]`, which is always 0xB8.
* Loading of images and the executables' contents: `sys_execute` succeeds or fails. The
  file system holds `shell`, so starting it succeeds.
* Boot but for the order of `entry`, paging set-up, the table of gates, kernel tests, user
  programs: see the table above; programs are any sequence of system calls and
  exceptions.
* `disable_irq`, which nobody calls. A key pressed between the boot loader's last
  instruction and `i8259_init`: the initialisation makes a chip forget a request that
  stays up, and nobody reads the keyboard's port before its next interrupt, so
  `Interrupts` starts with an empty controller.
* That a kernel stack may overflow, and nesting of interrupts in `rtc_handler` after
  its `sti`, which is its last line.

What the models show and the properties exempt, because no text promises more: shift is
looked at only while a program reads (`idt.c:175`, `381`), so a shift released while none
does stays down until it is pressed again; caps lock turns the back quote into a tilde,
because the list of symbols at `idt.c:441` and `461` does not have it; the star of the keypad with
shift reads `table_kb` behind its end (`idt.c:477`); lines typed ahead of the reader may
be lost; a `sys_getargs` clears the arguments of every terminal; a Ctrl+C is meant for
a terminal, and if its program ends before the tick, the next one gets it; and the
hardware's cursor does not always follow what is printed, as `lib.c:275` has it ("always
updating cursor so it follows what the user is typing"): without `~strayed` in it,
`CursorShown` is violated within a few steps, by a `putc` whose terminal is taken off the
screen behind the test of line 276.

## Plan

Done: `Processes` with its abstraction and proofs; `SysCall`; `FdTable`, `OpenFiles` and
`FileSys`; `Rtc`; `LineInput`; `Console` and `Screen`; `Args`; `Pic`, `Keys` and `Interrupts`; the
proofs above. Left:

1. The place Backspace and the up arrow draw at, on top of `Screen` and `LineInput`.
2. What the code does keep where a finding says what it does not: from when on a value
   in `storage` is safe, and that a 256 always stands for a fault of some program.
