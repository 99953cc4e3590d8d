----------------------------- MODULE Processes -----------------------------
(***************************************************************************)
(* The process table and the scheduler: sys_execute and sys_halt           *)
(* (syscalls.c), pit_handler and schedule (scheduling.c), the exception    *)
(* handlers and the two key chords the scheduler answers (idt.c).          *)
(*                                                                         *)
(* One CPU.  sys_execute and sys_halt run with interrupts off from their   *)
(* first line on, the PIT and keyboard gates clear IF, so each of these is *)
(* one step.  Exceptions and int 0x80 enter by trap gates, which leave IF  *)
(* set: a tick may fall between the two lines of an exception handler.     *)
(*                                                                         *)
(* Memory the handlers only pass around is named by the process it belongs *)
(* to: a kernel stack, a frame on it, a 4 MB user page and a value of      *)
(* tss.esp0 are each the PID whose stack, frame or page it is.             *)
(*                                                                         *)
(* BootedTooSoon, BootedTooLate, FreeUntested, IsHighestFree, NotFreed,    *)
(* WithoutParent, ParentAlways, MapOnly, TerminalButLast, PicksLast,       *)
(* QuitDisplayed and ContextNotSaved are not the code: each is the         *)
(* definition that follows it with a plausible mistake in it.              *)
(***************************************************************************)
EXTENDS Integers, FiniteSets

CONSTANTS
    NTerm,      \* terminals: 3 in the code
    MaxProc     \* MAX_NUM_PROCESSES: 6 in the code

(* Every terminal has room for its base shell. *)
ASSUME SizesAssumption == NTerm \in Nat \ {0} /\ MaxProc \in Nat /\ NTerm <= MaxProc

PIDs   == 0 .. MaxProc - 1
Terms  == 0 .. NTerm - 1
NoProc == -1    \* parent_PID of a base shell; also the boot stack of entry()

(* What sys_execute hands back in eax: nothing this step, -1, a status     *)
(* byte, or 256.                                                           *)
NoValue   == "none"
Failure   == "-1"
Status    == "byte"
Exception == "256"

VARIABLES
    processes_active,       \* slots whose entry is non-zero
    num_active_processes,
    parent_PID,             \* PCB->parent_PID, stale while the slot is free
    EBP,                    \* PCB->EBP: whose stack holds the frame sys_halt returns to
    current_process_idx,
    no_parent_shell_flag,
    EXCEPTION_FLAG,
    shell_count,
    scheduled_terminal,
    displayed_terminal,
    active_process_PID,     \* terminal_processes[t].active_process_PID
    EBP_SAVE,               \* terminal_processes[t].EBP_SAVE: whose stack the frame is on
    terminal_switch,        \* terminals whose TERMINALx_SWITCH is set
    sigquit,                \* terminals whose SIGQUIT_FLAG is set
    user_page,              \* process mapped by page_directory[32]
    esp0,                   \* process whose kernel stack tss.esp0 points at
    cpu,                    \* process whose instructions the CPU executes
    kframe,                 \* newest suspended frame on each kernel stack
    faulting,               \* processes inside exec_handlerN, before sys_halt's cli
    eax                     \* value the last step handed to a caller of sys_execute

table   == << processes_active, num_active_processes, parent_PID, EBP >>
machine == << user_page, esp0, cpu, kframe >>
keys    == << terminal_switch, sigquit >>
vars    == << table, current_process_idx, no_parent_shell_flag, EXCEPTION_FLAG,
              shell_count, scheduled_terminal, displayed_terminal,
              active_process_PID, EBP_SAVE, keys, machine, faulting, eax >>

Frames == {"none", "pit", "execute"}

(* shell_count < 3 is false.                                               *)
BootedTooLate == shell_count > NTerm
BootedTooSoon == shell_count >= NTerm - 1
Booted == shell_count = NTerm

(* Slots with processes_active[i] == 0 when A are the occupied ones, and   *)
(* the one the loop over them stops at.                                    *)
FreeUntested(A) == PIDs
Free(A) == PIDs \ A
IsHighestFree(p, A) == p \in Free(A) /\ \A q \in Free(A) : q <= p
IsLowestFree(p, A) == p \in Free(A) /\ \A q \in Free(A) : p <= q

(* Occupied slots after processes_active[p] = 0.                           *)
WithoutParent(p) == processes_active \ {parent_PID[p]}
NotFreed(p) == processes_active
Without(p) == processes_active \ {p}

(* parent_PID of a program executed under no_parent_shell_flag = flag.     *)
ParentAlways(flag) == current_process_idx
ParentIf(flag) == IF flag THEN NoProc ELSE current_process_idx

(* page_directory[32], the TLB flush and tss.esp0 for process p.           *)
MapOnly(p) == user_page' = p /\ UNCHANGED esp0
MapProcess(p) == user_page' = p /\ esp0' = p

(* Round robin's choice.                                                   *)
TerminalButLast == (scheduled_terminal + 1) % (NTerm - 1)
NextTerminal == (scheduled_terminal + 1) % NTerm

(* The if / else-if over the switch flags picks terminal t.                *)
PicksLast(t) == t \in terminal_switch /\ \A u \in terminal_switch : u <= t
Picks(t) == t \in terminal_switch /\ \A u \in terminal_switch : t <= u

(* SIGQUIT_FLAG[scheduled_terminal] == 1.                                  *)
QuitDisplayed == displayed_terminal \in sigquit
QuitScheduled == scheduled_terminal \in sigquit

(* pit_handler stores the interrupted frame for the scheduled terminal.    *)
ContextNotSaved == UNCHANGED EBP_SAVE
SaveContext == EBP_SAVE' = [EBP_SAVE EXCEPT ![scheduled_terminal] = cpu]

-----------------------------------------------------------------------------
(* entry(): terminal_init sets the flag and the terminals' PIDs; the rest  *)
(* is zeroed memory.  The first tick interrupts the hlt loop.              *)
Init ==
    /\ processes_active = {}
    /\ num_active_processes = 0
    /\ parent_PID = [p \in PIDs |-> 0]
    /\ EBP = [p \in PIDs |-> NoProc]
    /\ current_process_idx = 0
    /\ no_parent_shell_flag = TRUE
    /\ EXCEPTION_FLAG = FALSE
    /\ shell_count = 0
    /\ scheduled_terminal = 0
    /\ displayed_terminal = 0
    /\ active_process_PID = [t \in Terms |-> t]
    /\ EBP_SAVE = [t \in Terms |-> NoProc]
    /\ terminal_switch = {}
    /\ sigquit = {}
    /\ user_page = NoProc
    /\ esp0 = NoProc
    /\ cpu = NoProc
    /\ kframe = [p \in PIDs |-> "none"]
    /\ faulting = {}
    /\ eax = NoValue

-----------------------------------------------------------------------------
(* sys_execute from the choice of the slot to its iret: A is the set of    *)
(* occupied slots and n their count when it is entered, t the scheduled    *)
(* terminal, flag the no_parent_shell_flag, and frame what the call leaves *)
(* on top of the stack of the process that made it.                        *)
StartProgram(A, n, t, flag, frame) ==
    \E pid \in PIDs :
        /\ IsLowestFree(pid, A)
        /\ processes_active' = A \cup {pid}
        /\ num_active_processes' = n + 1
        /\ parent_PID' = [parent_PID EXCEPT ![pid] = ParentIf(flag)]
        /\ no_parent_shell_flag' = FALSE
        /\ EBP' = [EBP EXCEPT ![pid] = cpu]
        /\ active_process_PID' = [active_process_PID EXCEPT ![t] = pid]
        /\ current_process_idx' = pid
        /\ MapProcess(pid)
        /\ cpu' = pid
        /\ kframe' = [kframe EXCEPT ![cpu] = frame, ![pid] = "none"]
        /\ faulting' = faulting \ {cpu}

(* A user program asks for another one.  The shells come up by themselves; *)
(* nothing is executed before the third tick, 30 ms after boot.            *)
SysExecute ==
    /\ Booted
    /\ cpu \notin faulting
    /\ Free(processes_active) # {}
    /\ StartProgram(processes_active, num_active_processes,
                    scheduled_terminal, no_parent_shell_flag, "execute")
    /\ eax' = NoValue
    /\ UNCHANGED << EXCEPTION_FLAG, shell_count, scheduled_terminal,
                    displayed_terminal, EBP_SAVE, keys >>

(* No such file, not an executable, or no free slot: -1 to the caller.     *)
SysExecuteFails ==
    /\ Booted
    /\ cpu \notin faulting
    /\ eax' = Failure
    /\ UNCHANGED << table, current_process_idx, no_parent_shell_flag,
                    EXCEPTION_FLAG, shell_count, scheduled_terminal,
                    displayed_terminal, active_process_PID, EBP_SAVE, keys,
                    machine, faulting >>

(* sys_halt of a base shell: its slot is freed and "shell" executed again. *)
RestartShell ==
    /\ parent_PID[current_process_idx] = NoProc
    /\ StartProgram(Without(current_process_idx),
                    num_active_processes - 1, scheduled_terminal, TRUE, "execute")
    /\ eax' = NoValue
    /\ UNCHANGED EXCEPTION_FLAG

(* sys_halt of any other program: back into the parent's sys_execute.      *)
ReturnToParent ==
    LET parent == parent_PID[current_process_idx]
        waiter == EBP[current_process_idx]
    IN  /\ parent # NoProc
        /\ processes_active' = Without(current_process_idx)
        /\ num_active_processes' = num_active_processes - 1
        /\ MapProcess(parent)
        /\ current_process_idx' = parent
        /\ active_process_PID' = [active_process_PID EXCEPT ![scheduled_terminal] = parent]
        /\ cpu' = waiter
        /\ kframe' = [kframe EXCEPT ![waiter] = "none"]
        /\ eax' = IF EXCEPTION_FLAG THEN Exception ELSE Status
        /\ EXCEPTION_FLAG' = FALSE
        /\ faulting' = faulting \ {cpu}
        /\ UNCHANGED << parent_PID, EBP, no_parent_shell_flag >>

Halt == RestartShell \/ ReturnToParent

(* int 0x80 with eax = 1 by the running program, and the call of sys_halt  *)
(* that ends an exception handler.                                         *)
SysHalt ==
    /\ Booted
    /\ Halt
    /\ UNCHANGED << shell_count, scheduled_terminal, displayed_terminal,
                    EBP_SAVE, keys >>

(* exec_handlerN up to the call of sys_halt, interrupts still on.          *)
Fault ==
    /\ Booted
    /\ cpu \notin faulting
    /\ EXCEPTION_FLAG' = TRUE
    /\ faulting' = faulting \cup {cpu}
    /\ eax' = NoValue
    /\ UNCHANGED << table, current_process_idx, no_parent_shell_flag,
                    shell_count, scheduled_terminal, displayed_terminal,
                    active_process_PID, EBP_SAVE, keys, machine >>

-----------------------------------------------------------------------------
(* kb_handler's chords: Alt+F(t+1) asks for terminal t, Ctrl+C flags the   *)
(* terminal on the screen.                                                 *)
AltF(t) ==
    /\ terminal_switch' = terminal_switch \cup {t}
    /\ eax' = NoValue
    /\ UNCHANGED << table, current_process_idx, no_parent_shell_flag,
                    EXCEPTION_FLAG, shell_count, scheduled_terminal,
                    displayed_terminal, active_process_PID, EBP_SAVE, sigquit,
                    machine, faulting >>

CtrlC ==
    /\ sigquit' = sigquit \cup {displayed_terminal}
    /\ eax' = NoValue
    /\ UNCHANGED << table, current_process_idx, no_parent_shell_flag,
                    EXCEPTION_FLAG, shell_count, scheduled_terminal,
                    displayed_terminal, active_process_PID, EBP_SAVE,
                    terminal_switch, machine, faulting >>

Keyboard == CtrlC \/ \E t \in Terms : AltF(t)

-----------------------------------------------------------------------------
(* The first ticks: each starts the base shell of the next terminal.       *)
BootShell ==
    /\ ~Booted
    /\ SaveContext
    /\ shell_count' = shell_count + 1
    /\ scheduled_terminal' = shell_count
    /\ StartProgram(processes_active, num_active_processes, shell_count, TRUE, "pit")
    /\ eax' = NoValue
    /\ UNCHANGED << EXCEPTION_FLAG, displayed_terminal, keys >>

(* A pending switch is served, lowest terminal first, and nothing else.    *)
SwitchDisplay(t) ==
    /\ Booted
    /\ Picks(t)
    /\ SaveContext
    /\ displayed_terminal' = t
    /\ terminal_switch' = terminal_switch \ {t}
    /\ eax' = NoValue
    /\ UNCHANGED << table, current_process_idx, no_parent_shell_flag,
                    EXCEPTION_FLAG, shell_count, scheduled_terminal,
                    active_process_PID, sigquit, machine, faulting >>

(* A pending Ctrl+C: sys_halt inside the tick, no context switch.          *)
SigquitHalt ==
    /\ Booted
    /\ terminal_switch = {}
    /\ QuitScheduled
    /\ SaveContext
    /\ sigquit' = sigquit \ {scheduled_terminal}
    /\ Halt
    /\ UNCHANGED << shell_count, scheduled_terminal, displayed_terminal,
                    terminal_switch >>

(* The context switch to the next terminal's saved frame.                  *)
RoundRobin ==
    LET next == NextTerminal
    IN  /\ Booted
        /\ terminal_switch = {}
        /\ ~QuitScheduled
        /\ SaveContext
        /\ scheduled_terminal' = next
        /\ current_process_idx' = active_process_PID[next]
        /\ MapProcess(active_process_PID[next])
        /\ cpu' = EBP_SAVE'[next]
        /\ kframe' = [kframe EXCEPT ![cpu] = "pit", ![EBP_SAVE'[next]] = "none"]
        /\ eax' = NoValue
        /\ UNCHANGED << table, no_parent_shell_flag, EXCEPTION_FLAG,
                        shell_count, displayed_terminal, active_process_PID,
                        keys, faulting >>

Tick ==
    \/ BootShell
    \/ \E t \in Terms : SwitchDisplay(t)
    \/ SigquitHalt
    \/ RoundRobin

Next ==
    \/ SysExecute
    \/ SysExecuteFails
    \/ SysHalt
    \/ Fault
    \/ Keyboard
    \/ Tick

(* The PIT interrupts periodically and no step keeps interrupts off for    *)
(* ever: the halt that faults again and again (FdTable) is none of them.   *)
(* Programs and keys promise nothing.                                      *)
Fairness == WF_vars(Tick)

Spec == Init /\ [][Next]_vars /\ Fairness

-----------------------------------------------------------------------------
TypeOK ==
    /\ processes_active \subseteq PIDs
    /\ num_active_processes \in Int
    /\ parent_PID \in [PIDs -> PIDs \cup {NoProc}]
    /\ EBP \in [PIDs -> PIDs \cup {NoProc}]
    /\ current_process_idx \in PIDs
    /\ no_parent_shell_flag \in BOOLEAN
    /\ EXCEPTION_FLAG \in BOOLEAN
    /\ shell_count \in 0 .. NTerm
    /\ scheduled_terminal \in Terms
    /\ displayed_terminal \in Terms
    /\ active_process_PID \in [Terms -> PIDs]
    /\ EBP_SAVE \in [Terms -> PIDs \cup {NoProc}]
    /\ terminal_switch \subseteq Terms
    /\ sigquit \subseteq Terms
    /\ user_page \in PIDs \cup {NoProc}
    /\ esp0 \in PIDs \cup {NoProc}
    /\ cpu \in PIDs \cup {NoProc}
    /\ kframe \in [PIDs -> Frames]
    /\ faulting \subseteq PIDs
    /\ eax \in {NoValue, Failure, Status, Exception}

Up(t) == t < shell_count    \* terminal t has its base shell

(* The process on the CPU, the one the kernel takes for current, the one   *)
(* whose page is mapped, whose stack the next interrupt will use, and the  *)
(* one its terminal names are the same: otherwise a system call acts on    *)
(* another program's PCB, or a trap pushes onto another program's stack.   *)
Coherent ==
    shell_count > 0 =>
        /\ cpu \in processes_active
        /\ current_process_idx = cpu
        /\ user_page = cpu
        /\ esp0 = cpu
        /\ active_process_PID[scheduled_terminal] = cpu
        /\ kframe[cpu] = "none"

(* The frame schedule() would restore for a terminal in the background is  *)
(* the tick frame of that terminal's own foreground process, still on its  *)
(* stack: no halt or execute on another terminal has reused the slot.      *)
SavedContexts ==
    \A t \in Terms : Up(t) /\ t # scheduled_terminal =>
        LET p == active_process_PID[t]
        IN  p \in processes_active /\ EBP_SAVE[t] = p /\ kframe[p] = "pit"

(* The frame sys_halt would return to is the sys_execute frame of the      *)
(* parent, which is still alive and has been suspended there ever since.   *)
ParentsWait ==
    \A p \in processes_active : parent_PID[p] # NoProc =>
        LET q == parent_PID[p]
        IN  q \in processes_active /\ EBP[p] = q /\ kframe[q] = "execute"

(* Programs are stacked: each active one is either in the foreground of a  *)
(* single terminal or waits for a single child.                            *)
Foreground(p) == \E t \in Terms : Up(t) /\ active_process_PID[t] = p
Stacked ==
    /\ \A t, u \in Terms : Up(t) /\ Up(u) /\ active_process_PID[t] = active_process_PID[u]
                              => t = u
    /\ \A p, q \in processes_active :
           parent_PID[p] = parent_PID[q] /\ parent_PID[p] # NoProc => p = q
    /\ \A p \in processes_active :
           Foreground(p) \/ \E q \in processes_active : parent_PID[q] = p

(* "needs to be re-executed in the same spot" (syscalls.c:121): the base   *)
(* shells are the processes without a parent and terminal t's is process t *)
(* whatever was halted and restarted, and the flag that makes a base shell *)
(* is never left over for a user's program.                                *)
BaseShells ==
    /\ \A p \in processes_active : parent_PID[p] = NoProc <=> Up(p)
    /\ \A p \in PIDs : Up(p) => p \in processes_active
    /\ Booted => ~no_parent_shell_flag

(* The counter of running programs is right, so it never drops below the   *)
(* number of shells (syscalls.c:49, "cannot be decremented below 1").      *)
CountRight ==
    /\ num_active_processes = Cardinality(processes_active)
    /\ Booted => num_active_processes >= NTerm

(* A program that faults is reported to its parent as 256: "sys_execute    *)
(* needs to return 256 in the case of an exception" (syscalls.c:231).      *)
FaultReported ==
    [][(cpu \in faulting /\ ReturnToParent) => (eax' = Exception)]_vars

(* All shells come up.                                                     *)
BootCompletes == <>(shell_count = NTerm)

(* Once the user stops asking for terminals and killing programs, each     *)
(* terminal keeps getting its turns, whatever the programs do.             *)
KeysStop == <>[](terminal_switch = {} /\ sigquit = {})
EveryTerminalRuns ==
    KeysStop => \A t \in Terms : []<>(scheduled_terminal = t)

(* A requested terminal is shown, unless a lower-numbered request stands.  *)
SwitchServed ==
    \A t \in Terms : t \in terminal_switch ~>
        displayed_terminal = t \/ \E u \in terminal_switch : u < t

(* A Ctrl+C is delivered once no more keys are pressed.                    *)
SigquitServed ==
    <>[][~Keyboard]_vars => \A t \in Terms : t \in sigquit ~> t \notin sigquit

=============================================================================
