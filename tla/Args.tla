-------------------------------- MODULE Args --------------------------------
(***************************************************************************)
(* Program arguments.  When t_read has a line it copies the caller's       *)
(* buffer into get_args_buf (terminal.c); the shell executes what the      *)
(* first word of the line names, and the program that comes up asks for    *)
(* the rest with sys_getargs (syscalls.c).  There is one get_args_buf for  *)
(* all terminals, and every loop over it runs with interrupts on.          *)
(*                                                                         *)
(* A step is one access to a cell of get_args_buf by the program of any    *)
(* terminal: ticks fall between any two.  How t_read gets a line is in     *)
(* module LineInput; the reader is the shell of each terminal.             *)
(*                                                                         *)
(* CopiesLine, Uncapped and BlankOnly are not the code: each is the next   *)
(* definition with a plausible mistake in it.                              *)
(***************************************************************************)
EXTENDS Integers, SequencesExt

CONSTANTS
    Terms,      \* terminals: 3 in the code
    CELLS,      \* cells of get_args_buf: 128 in the code
    Lines,      \* lines the user enters, "\n" at the end
    Sizes       \* sizes of the buffers programs give to sys_getargs

SPACE   == " "
NEWLINE == "\n"
NUL     == "0"      \* the character '\0', which keyboard_handler never enters

ASSUME ArgsAssumption ==
    /\ CELLS \in Nat \ {0}
    /\ Lines \subseteq Seq(STRING)
    /\ \A l \in Lines : Len(l) \in 1 .. CELLS /\ \A k \in 1 .. Len(l) : l[k] = NEWLINE <=> k = Len(l)
    /\ \A l \in Lines : \A k \in 1 .. Len(l) : l[k] # NUL
    /\ Sizes \subseteq Nat \ {0}

Cells   == 0 .. CELLS - 1
FAILURE == -1
Blank   == [k \in Cells |-> NUL]
Letters == (UNION {Range(l) : l \in Lines}) \cup {NUL}

VARIABLES
    get_args_buf,
    buf,        \* the shell's buffer of each terminal, its first cells
    pc,         \* where the terminal is
    i,          \* index of its loop
    nbytes,     \* of its sys_getargs, 0 outside
    arg,        \* what its sys_getargs has copied
    retval,     \* what its sys_getargs returned
    line,       \* the line its shell read last, until it is used
    fresh       \* nobody else wrote into get_args_buf since that was copied,
                \* and no sys_getargs has returned

vars == << get_args_buf, buf, pc, i, nbytes, arg, retval, line, fresh >>

(* "shell": up to t_read's copy.  "copy": in it.  "entered": after it.     *)
(* "scan", "test", "take", "clear": in sys_getargs.  "got": back from it.  *)
PCs == {"shell", "copy", "entered", "program", "scan", "test", "take", "clear", "got"}

Init ==
    /\ get_args_buf = Blank
    /\ buf = [t \in Terms |-> Blank]
    /\ pc = [t \in Terms |-> "shell"]
    /\ i = [t \in Terms |-> 0]
    /\ nbytes = [t \in Terms |-> 0]
    /\ arg = [t \in Terms |-> << >>]
    /\ retval = [t \in Terms |-> 0]
    /\ line = [t \in Terms |-> << >>]
    /\ fresh = [t \in Terms |-> FALSE]

Goto(t, p, k) == pc' = [pc EXCEPT ![t] = p] /\ i' = [i EXCEPT ![t] = k]

-----------------------------------------------------------------------------
(* t_read leaves the line in the caller's buffer, a '\0' for each space;   *)
(* the cells after it hold what they held.                                 *)
Entered(b, l) ==
    [k \in Cells |-> IF k >= Len(l) THEN b[k] ELSE IF l[k + 1] = SPACE THEN NUL ELSE l[k + 1]]

ReadLine(t, l) ==
    /\ pc[t] = "shell"
    /\ buf' = [buf EXCEPT ![t] = Entered(@, l)]
    /\ line' = [line EXCEPT ![t] = l]
    /\ fresh' = [fresh EXCEPT ![t] = TRUE]
    /\ Goto(t, "copy", 0)
    /\ UNCHANGED << get_args_buf, nbytes, arg, retval >>

SetCell(t, c) ==
    /\ get_args_buf' = [get_args_buf EXCEPT ![i[t]] = c]
    /\ fresh' = [u \in Terms |-> fresh[u] /\ u = t]

(* All the cells are copied, those after the line too.                     *)
CopiesLine(t) == Len(line[t]) - 2
Copied(t)     == CELLS - 1

CopyCell(t) ==
    /\ pc[t] = "copy"
    /\ SetCell(t, buf[t][i[t]])
    /\ IF i[t] < Copied(t) THEN Goto(t, "copy", i[t] + 1) ELSE Goto(t, "entered", 0)
    /\ UNCHANGED << buf, nbytes, arg, retval, line >>

Forget(t) ==
    /\ line' = [line EXCEPT ![t] = << >>]
    /\ fresh' = [fresh EXCEPT ![t] = FALSE]

(* The shell ends the line with a '\0' and does nothing if it is empty.    *)
Command(t) == [buf[t] EXCEPT ![Len(line[t]) - 1] = NUL]

NextLine(t) ==
    /\ pc[t] = "entered"
    /\ buf' = [buf EXCEPT ![t] = Command(t)]
    /\ Goto(t, "shell", 0)
    /\ Forget(t)
    /\ UNCHANGED << get_args_buf, nbytes, arg, retval >>

(* sys_execute wipes the command it was given, up to its '\0'.             *)
Wiped(b) == [k \in Cells |-> IF \A j \in 0 .. k : b[j] # NUL THEN NUL ELSE b[k]]

Execute(t) ==
    /\ pc[t] = "entered"
    /\ Command(t)[0] # NUL
    /\ buf' = [buf EXCEPT ![t] = Wiped(Command(t))]
    /\ Goto(t, "program", 0)
    /\ UNCHANGED << get_args_buf, nbytes, arg, retval, line, fresh >>

-----------------------------------------------------------------------------
Uncapped(n) == n
Capped(n)   == IF n > CELLS THEN CELLS ELSE n

GetArgs(t, n) ==
    /\ pc[t] = "program"
    /\ nbytes' = [nbytes EXCEPT ![t] = Capped(n)]
    /\ Goto(t, "scan", 0)
    /\ UNCHANGED << get_args_buf, buf, arg, retval, line, fresh >>

Return(t, value) ==
    /\ Goto(t, "got", 0)
    /\ retval' = [retval EXCEPT ![t] = value]

(* The first '\n' ends the call, the first blank or '\0' the scan; without *)
(* one the scan leaves start_of_args at 0.                                 *)
BlankOnly == {SPACE}
Separators == {SPACE, NUL}

Scan(t) ==
    LET c == get_args_buf[i[t]]
    IN  /\ pc[t] = "scan"
        /\ \/ i[t] = nbytes[t] /\ Goto(t, "test", 0) /\ UNCHANGED retval
           \/ i[t] < nbytes[t] /\ c = NEWLINE /\ Return(t, FAILURE)
           \/ i[t] < nbytes[t] /\ c \in Separators /\ Goto(t, "test", i[t] + 1)
              /\ UNCHANGED retval
           \/ i[t] < nbytes[t] /\ c \notin Separators \cup {NEWLINE} /\ Goto(t, "scan", i[t] + 1)
              /\ UNCHANGED retval
        /\ UNCHANGED << get_args_buf, buf, nbytes, arg, line, fresh >>

(* start_of_args may be the cell after the last: anything can be there.    *)
TestStart(t) ==
    LET here == IF i[t] \in Cells THEN {get_args_buf[i[t]]} ELSE Letters
    IN  /\ pc[t] = "test"
        /\ \E c \in here :
              \/ c = NUL /\ Return(t, FAILURE)
              \/ c # NUL /\ Goto(t, "take", i[t]) /\ UNCHANGED retval
        /\ UNCHANGED << get_args_buf, buf, nbytes, arg, line, fresh >>

Take(t) ==
    LET more == i[t] < nbytes[t] /\ get_args_buf[i[t]] \notin {NUL, NEWLINE}
    IN  /\ pc[t] = "take"
        /\ arg' = [arg EXCEPT ![t] = IF more THEN Append(@, get_args_buf[i[t]]) ELSE @]
        /\ IF more THEN Goto(t, "take", i[t] + 1) ELSE Goto(t, "clear", 0)
        /\ UNCHANGED << get_args_buf, buf, nbytes, retval, line, fresh >>

ClearCell(t) ==
    /\ pc[t] = "clear"
    /\ SetCell(t, NUL)
    /\ \/ i[t] < CELLS - 1 /\ Goto(t, "clear", i[t] + 1) /\ UNCHANGED retval
       \/ i[t] = CELLS - 1 /\ Return(t, 0)
    /\ UNCHANGED << buf, nbytes, arg, line >>

Leave(t, p) ==
    /\ Goto(t, p, 0)
    /\ nbytes' = [nbytes EXCEPT ![t] = 0]
    /\ arg' = [arg EXCEPT ![t] = << >>]
    /\ retval' = [retval EXCEPT ![t] = 0]
    /\ Forget(t)
    /\ UNCHANGED << get_args_buf, buf >>

(* The program goes on, and may ask again.                                 *)
GoOn(t) == pc[t] = "got" /\ Leave(t, "program")

(* It ends, or is halted wherever it is: the shell reads the next line.    *)
Halt(t) == pc[t] # "shell" /\ Leave(t, "shell")

Next == \E t \in Terms :
    \/ \E l \in Lines : ReadLine(t, l)
    \/ CopyCell(t) \/ NextLine(t) \/ Execute(t)
    \/ \E n \in Sizes : GetArgs(t, n)
    \/ Scan(t) \/ TestStart(t) \/ Take(t) \/ ClearCell(t)
    \/ GoOn(t) \/ Halt(t)

Spec == Init /\ [][Next]_vars

-----------------------------------------------------------------------------
TypeOK ==
    /\ get_args_buf \in [Cells -> Letters]
    /\ buf \in [Terms -> [Cells -> Letters]]
    /\ pc \in [Terms -> PCs]
    /\ i \in [Terms -> 0 .. CELLS]
    /\ nbytes \in [Terms -> 0 .. CELLS]
    /\ arg \in [Terms -> Seq(Letters)]
    /\ retval \in [Terms -> {0, FAILURE}]
    /\ line \in [Terms -> Lines \cup {<< >>}]
    /\ fresh \in [Terms -> BOOLEAN]

(* The words of a line, between single spaces.                             *)
WordStart(l, k) == k = 1 \/ l[k - 1] = SPACE
WordFrom(l, k)  ==
    LET end == CHOOSE m \in k .. Len(l) : l[m] \in {SPACE, NEWLINE} /\ \A j \in k .. m - 1 : l[j] \notin {SPACE, NEWLINE}
    IN  SubSeq(l, k, end - 1)
Words(l) == {WordFrom(l, k) : k \in {k \in 1 .. Len(l) : WordStart(l, k)}}
Arguments(l) ==
    LET starts == {k \in 2 .. Len(l) : WordStart(l, k)}
    IN  IF starts = {} THEN [retval |-> FAILURE, arg |-> << >>]
        ELSE [retval |-> 0, arg |-> WordFrom(l, CHOOSE k \in starts : \A m \in starts : k <= m)]

(* A program that asks first and with room for a line gets the word after  *)
(* the command of its own command line, or -1 if there is none, and never  *)
(* anything of a longer line read before, which is still in the buffers    *)
(* behind it -- if no other terminal read or asked in the meantime         *)
(* ("PARSING THE GET ARGS BUF", syscalls.c:522).                           *)
OwnArguments == \A t \in Terms :
    pc[t] = "got" /\ fresh[t] /\ nbytes[t] = CELLS /\ << >> \notin Words(line[t]) =>
        [retval |-> retval[t], arg |-> arg[t]] = Arguments(line[t])

=============================================================================
