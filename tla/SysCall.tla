------------------------------ MODULE SysCall ------------------------------
(***************************************************************************)
(* The way in and out of the kernel by int 0x80: sys_call, the jump table  *)
(* and FINISH (asm_macro.S).  The gate is a trap gate and FINISH starts    *)
(* with popfl, so whatever the handler did to IF, interrupts are on again  *)
(* while its value goes from eax through storage, the only one there is,   *)
(* past popal and back to eax: ticks fall between any two of these lines.  *)
(*                                                                         *)
(* A terminal stands for the program in its foreground.  Its lines are     *)
(* steps of the scheduled terminal; the registers of the others wait on    *)
(* their stacks.                                                           *)
(***************************************************************************)
EXTENDS Integers

CONSTANTS
    NTerm,      \* terminals: 3 in the code
    Counts,     \* numbers of bytes that calls transfer
    MaxNested   \* programs a terminal runs above its base shell, at most

Terms   == 0 .. NTerm - 1
FAILURE == -1

VARIABLES
    storage,            \* .long 0 in asm_macro.S
    eax,                \* eax of the program of each terminal
    returned,           \* what the handler of its last system call returned
    at,                 \* where it is
    nested,             \* how many programs of each terminal wait in sys_execute
    scheduled_terminal

vars == << storage, eax, returned, at, nested, scheduled_terminal >>

(* "finish": before movl %eax, storage.  "stored": before popal and        *)
(* movl storage, %eax.  "back": after them, nothing executed since.        *)
Places == {"user", "handler", "finish", "stored", "back"}

Here(p) == at[scheduled_terminal] = p
Goto(p) == at' = [at EXCEPT ![scheduled_terminal] = p]

Init ==
    /\ storage = 0
    /\ eax = [t \in Terms |-> 0]
    /\ returned = [t \in Terms |-> 0]
    /\ at = [t \in Terms |-> "user"]
    /\ nested = [t \in Terms |-> 0]
    /\ scheduled_terminal = 0

-----------------------------------------------------------------------------
(* int 0x80, with whatever number.                                         *)
Enter ==
    /\ Here("user") \/ Here("back")
    /\ Goto("handler")
    /\ UNCHANGED << storage, eax, returned, nested, scheduled_terminal >>

Returns(v) ==
    /\ Goto("finish")
    /\ eax' = [eax EXCEPT ![scheduled_terminal] = v]
    /\ returned' = [returned EXCEPT ![scheduled_terminal] = v]
    /\ UNCHANGED << storage, scheduled_terminal >>

(* A handler returns v, sys_error if the number was out of range.          *)
HandlerReturns(v) ==
    /\ Here("handler")
    /\ Returns(v)
    /\ UNCHANGED nested

(* sys_execute leaves by an iret into another program.                     *)
Execute ==
    /\ Here("handler")
    /\ nested[scheduled_terminal] < MaxNested
    /\ nested' = [nested EXCEPT ![scheduled_terminal] = @ + 1]
    /\ Goto("user")
    /\ UNCHANGED << storage, eax, returned, scheduled_terminal >>

(* sys_halt, by the program, an exception or, wherever the program is, a   *)
(* Ctrl+C: it comes out of the sys_execute that started the program, or    *)
(* starts the base shell again.                                            *)
Halt(v) ==
    /\ nested[scheduled_terminal] > 0
    /\ nested' = [nested EXCEPT ![scheduled_terminal] = @ - 1]
    /\ Returns(v)

RestartShell ==
    /\ nested[scheduled_terminal] = 0
    /\ Goto("user")
    /\ UNCHANGED << storage, eax, returned, nested, scheduled_terminal >>

Store ==
    /\ Here("finish")
    /\ storage' = eax[scheduled_terminal]
    /\ Goto("stored")
    /\ UNCHANGED << eax, returned, nested, scheduled_terminal >>

Load ==
    /\ Here("stored")
    /\ eax' = [eax EXCEPT ![scheduled_terminal] = storage]
    /\ Goto("back")
    /\ UNCHANGED << storage, returned, nested, scheduled_terminal >>

RoundRobin ==
    /\ scheduled_terminal' = (scheduled_terminal + 1) % NTerm
    /\ UNCHANGED << storage, eax, returned, at, nested >>

Next ==
    \/ Enter
    \/ \E v \in Counts \cup {FAILURE} : HandlerReturns(v) \/ Halt(v)
    \/ Execute
    \/ RestartShell
    \/ Store
    \/ Load
    \/ RoundRobin

Spec == Init /\ [][Next]_vars

-----------------------------------------------------------------------------
(* A program gets the value its own call's handler returned: sys_read      *)
(* "returns the number of bytes transfered or -1 if it fails"              *)
(* (syscalls.c:372).                                                       *)
OwnValue == \A t \in Terms : at[t] = "back" => eax[t] = returned[t]

=============================================================================
