-------------------------- MODULE ProcessesStacks --------------------------
(***************************************************************************)
(* Processes implements TerminalStacks: the stack of a terminal is what    *)
(* one reads following parent_PID from its foreground process.             *)
(***************************************************************************)
EXTENDS Processes, Sequences

(* p and the processes it descends from, eldest first: back[n] are the    *)
(* last n + 1 of them, or all.                                             *)
WithParent(parent, s) ==
    IF parent[s[1]] = NoProc THEN s ELSE << parent[s[1]] >> \o s

Ancestry(parent, p) ==
    LET back[n \in 0 .. MaxProc - 1] ==
            IF n = 0 THEN << p >> ELSE WithParent(parent, back[n - 1])
    IN  back[MaxProc - 1]

StackOf(t) == IF Up(t) THEN Ancestry(parent_PID, active_process_PID[t]) ELSE << >>

ProgramStacks == [t \in Terms |-> StackOf(t)]

(* Seen through its parent_PIDs, the process table is one stack of         *)
(* programs per terminal, and every execute, halt, exception, Ctrl+C and   *)
(* context switch pushes, pops or passes the turn, or changes nothing; all *)
(* base shells come up.                                                    *)
Stacks == INSTANCE TerminalStacks
              WITH stack <- ProgramStacks,
                   up    <- shell_count,
                   turn  <- scheduled_terminal
ImplementsStacks == Stacks!Spec

=============================================================================
