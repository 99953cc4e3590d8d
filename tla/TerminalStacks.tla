--------------------------- MODULE TerminalStacks ---------------------------
(***************************************************************************)
(* What the process table and the scheduler promise a user: every terminal *)
(* is a stack of programs with a shell at the bottom.  A program only ever *)
(* acts on the stack of the terminal that has its turn: it is replaced at  *)
(* the top by what it executes, and gives way to what executed it.  The    *)
(* shell at the bottom is never lost.  Turns go round the terminals.       *)
(***************************************************************************)
EXTENDS Integers, SequencesExt

CONSTANTS
    NTerm,      \* terminals
    MaxProc     \* programs that fit in memory

Terms    == 0 .. NTerm - 1
Programs == 0 .. MaxProc - 1

VARIABLES
    stack,      \* stack[t]: programs of terminal t, base shell first
    up,         \* terminals that have been brought up
    turn        \* terminal whose top program runs

vars == << stack, up, turn >>

Running == UNION { ToSet(stack[t]) : t \in Terms }

Init ==
    /\ stack = [t \in Terms |-> << >>]
    /\ up = 0
    /\ turn = 0

(* The next terminal gets its shell and the turn.                          *)
BringUp ==
    /\ up < NTerm
    /\ up' = up + 1
    /\ turn' = up
    /\ stack' = [stack EXCEPT ![up] = << up >>]

Execute(p) ==
    /\ up = NTerm
    /\ p \in Programs \ Running
    /\ stack' = [stack EXCEPT ![turn] = Append(@, p)]
    /\ UNCHANGED << up, turn >>

(* The base shell does not go: halting it starts it again in its place.    *)
Finish ==
    /\ up = NTerm
    /\ Len(stack[turn]) > 1
    /\ stack' = [stack EXCEPT ![turn] = Front(@)]
    /\ UNCHANGED << up, turn >>

PassTurn ==
    /\ up = NTerm
    /\ turn' = (turn + 1) % NTerm
    /\ UNCHANGED << stack, up >>

Next == BringUp \/ (\E p \in Programs : Execute(p)) \/ Finish \/ PassTurn

Spec == Init /\ [][Next]_vars /\ WF_vars(BringUp)

=============================================================================
