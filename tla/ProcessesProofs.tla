--------------------------- MODULE ProcessesProofs ---------------------------
(***************************************************************************)
(* Proofs about Processes for every number of terminals and of slots: the  *)
(* invariants, then that the table implements TerminalStacks as far as     *)
(* safety goes.                                                            *)
(*                                                                         *)
(* The inductive invariant is IInv: the invariants of Processes together   *)
(* with what boot needs, that before the last shell is up the active       *)
(* processes are exactly the shells started so far. The refinement adds    *)
(* Nested: following the parents from a terminal's foreground process ends *)
(* at a base shell and meets no slot twice.                                *)
(***************************************************************************)
EXTENDS ProcessesStacks, LeastNumber, FiniteSetTheorems, SequenceTheorems, TLAPS

(* While the shells come up nothing else runs, and the boot stack is left  *)
(* for good by the first tick.                                             *)
Booting ==
    /\ shell_count = 0 <=> cpu = NoProc
    /\ shell_count > 0 => Up(scheduled_terminal)
    /\ ~Booted => \A p \in PIDs : p \in processes_active <=> Up(p)

IInv ==
    /\ TypeOK
    /\ Booting
    /\ Coherent
    /\ SavedContexts
    /\ ParentsWait
    /\ Stacked
    /\ BaseShells

(***************************************************************************)
(* Facts about the constants and the slots.                                *)
(***************************************************************************)
LEMMA Sizes ==
    /\ NTerm \in Nat /\ MaxProc \in Nat /\ 0 < NTerm /\ NTerm <= MaxProc
    /\ 0 \in Terms /\ 0 \in PIDs
    /\ Terms \subseteq PIDs /\ NoProc \notin PIDs
    /\ Terms \subseteq Int /\ PIDs \subseteq Int
BY SizesAssumption, SMT DEF Terms, PIDs, NoProc

LEMMA NextTerminalInTerms ==
    ASSUME scheduled_terminal \in Terms
    PROVE  NextTerminal \in Terms
BY SizesAssumption, SMT DEF Terms, NextTerminal

(* A restarted base shell gets the slot it had.                            *)
LEMMA SameSlot ==
    ASSUME TypeOK, BaseShells, shell_count > 0, 
           NEW c \in processes_active, parent_PID[c] = NoProc,
           NEW p \in PIDs, IsLowestFree(p, Without(c))
    PROVE  p = c
<1>1. /\ c \in PIDs /\ Up(c)
      /\ \A j \in PIDs : Up(j) => j \in processes_active
  BY DEF TypeOK, BaseShells
<1>2. c \in Free(Without(c)) /\ p \in Free(Without(c)) /\ p <= c
  BY <1>1 DEF IsLowestFree, Free, Without
<1>3. ASSUME p < c PROVE FALSE
  <2>1. Up(p)
    BY <1>1, <1>3, Sizes, SMT DEF Up, TypeOK
  <2>2. p \in processes_active /\ p # c
    BY <1>1, <1>3, <2>1, Sizes, SMT
  <2> QED  BY <1>2, <2>2 DEF Free, Without
<1> QED  BY <1>1, <1>2, <1>3, Sizes, SMT

(* The slot of the shell a boot tick starts is the terminal's number.      *)
LEMMA BootSlot ==
    ASSUME TypeOK, Booting, ~Booted,
           NEW p \in PIDs, IsLowestFree(p, processes_active)
    PROVE  p = shell_count
<1>1. shell_count \in PIDs /\ shell_count \in Int /\ ~Up(shell_count)
  BY Sizes, SMT DEF TypeOK, Booted, PIDs, Up
<1>2. shell_count \in Free(processes_active)
  BY <1>1 DEF Booting, Free
<1>3. p <= shell_count /\ ~Up(p)
  BY <1>2 DEF IsLowestFree, Free, Booting
<1> QED  BY <1>1, <1>3, Sizes, SMT DEF Up

(***************************************************************************)
(* The invariant holds initially, and the steps that start a program keep  *)
(* it: a user's execute, the restart of a base shell, a boot tick.         *)
(***************************************************************************)
LEMMA InitIInv == Init => IInv
<1> SUFFICES ASSUME Init PROVE IInv
  OBVIOUS
<1>1. TypeOK
  <2>1. shell_count \in 0 .. NTerm
    BY Sizes, SMT DEF Init
  <2>2. active_process_PID \in [Terms -> PIDs]
    BY Sizes, SMT DEF Init
  <2> QED  BY <2>1, <2>2, Sizes DEF Init, TypeOK, Frames
<1>2. Booting
  BY Sizes, SMT DEF Init, Booting, Up, PIDs, NoProc
<1>3. Coherent /\ SavedContexts /\ Stacked /\ ParentsWait
  BY Sizes, SMT DEF Init, Coherent, SavedContexts, Stacked, ParentsWait, Up, Terms
<1>4. BaseShells
  BY Sizes, SMT DEF Init, BaseShells, Up, Booted, PIDs
<1> QED  BY <1>1, <1>2, <1>3, <1>4 DEF IInv

LEMMA SysExecuteIInv == IInv /\ SysExecute => IInv'
<1> SUFFICES ASSUME IInv, SysExecute PROVE IInv'
  OBVIOUS
<1> USE DEF IInv
<1>0. PICK pid \in PIDs :
        /\ IsLowestFree(pid, processes_active)
        /\ processes_active' = processes_active \cup {pid}
        /\ num_active_processes' = num_active_processes + 1
        /\ parent_PID' = [parent_PID EXCEPT ![pid] = ParentIf(no_parent_shell_flag)]
        /\ no_parent_shell_flag' = FALSE
        /\ EBP' = [EBP EXCEPT ![pid] = cpu]
        /\ active_process_PID' = [active_process_PID EXCEPT ![scheduled_terminal] = pid]
        /\ current_process_idx' = pid
        /\ MapProcess(pid)
        /\ cpu' = pid
        /\ kframe' = [kframe EXCEPT ![cpu] = "execute", ![pid] = "none"]
        /\ faulting' = faulting \ {cpu}
  BY DEF SysExecute, StartProgram
<1>1. /\ Booted /\ ~no_parent_shell_flag
      /\ UNCHANGED << EXCEPTION_FLAG, shell_count, scheduled_terminal,
                      displayed_terminal, EBP_SAVE, terminal_switch, sigquit >>
      /\ eax' = NoValue
  BY DEF SysExecute, keys, BaseShells
<1>2. /\ shell_count = NTerm /\ shell_count > 0
      /\ \A t \in Terms : Up(t)
      /\ cpu \in processes_active /\ cpu \in PIDs /\ cpu # NoProc
      /\ kframe[cpu] = "none" /\ current_process_idx = cpu
      /\ active_process_PID[scheduled_terminal] = cpu
  BY <1>1, Sizes, SMT DEF Booted, Up, Terms, Coherent, TypeOK
<1>3. /\ pid \notin processes_active /\ pid # cpu /\ pid # NoProc
      /\ ~Up(pid)
  BY <1>0, <1>2, Sizes DEF IsLowestFree, Free, BaseShells
<1>4. parent_PID'[pid] = cpu /\ \A p \in processes_active : parent_PID'[p] = parent_PID[p]
  BY <1>0, <1>1, <1>2, <1>3 DEF ParentIf, TypeOK
<1>5. TypeOK'
  <2>1. /\ processes_active' \subseteq PIDs /\ faulting' \subseteq PIDs
        /\ num_active_processes' \in Int
        /\ kframe' \in [PIDs -> Frames]
    BY <1>0 DEF TypeOK, Frames
  <2>2. /\ parent_PID' \in [PIDs -> PIDs \cup {NoProc}]
        /\ EBP' \in [PIDs -> PIDs \cup {NoProc}]
        /\ active_process_PID' \in [Terms -> PIDs]
    BY <1>0 DEF TypeOK, ParentIf
  <2> QED  BY <1>0, <1>1, <2>1, <2>2 DEF TypeOK, MapProcess
<1>6. Booting'
  BY <1>0, <1>1, <1>2, <1>3, Sizes DEF Booting, Booted, Up, TypeOK
<1>7. Coherent'
  BY <1>0, <1>1, <1>2, <1>3 DEF Coherent, MapProcess, TypeOK
<1>8. SavedContexts'
  <2> SUFFICES ASSUME NEW t \in Terms, t # scheduled_terminal
               PROVE  LET p == active_process_PID[t]
                      IN  p \in processes_active' /\ EBP_SAVE[t] = p /\ kframe'[p] = "pit"
                      /\ active_process_PID'[t] = p
    BY <1>1 DEF SavedContexts, Up
  <2>1. /\ active_process_PID[t] \in processes_active
        /\ EBP_SAVE[t] = active_process_PID[t]
        /\ kframe[active_process_PID[t]] = "pit"
    BY <1>2 DEF SavedContexts
  <2> QED  BY <2>1, <1>0, <1>2, <1>3 DEF TypeOK
<1>9. ParentsWait'
  <2> SUFFICES ASSUME NEW p \in processes_active', parent_PID'[p] # NoProc
               PROVE  LET q == parent_PID'[p]
                      IN  q \in processes_active' /\ EBP'[p] = q /\ kframe'[q] = "execute"
    BY DEF ParentsWait
  <2>1. CASE p = pid
    BY <2>1, <1>0, <1>2, <1>3, <1>4 DEF TypeOK
  <2>2. CASE p # pid
    <3>1. p \in processes_active /\ parent_PID[p] # NoProc
      BY <2>2, <1>0, <1>4
    <3> QED  BY <2>2, <3>1, <1>0, <1>2, <1>3, <1>4 DEF ParentsWait, TypeOK
  <2> QED  BY <2>1, <2>2
<1>10. Stacked'
  <2>1. ASSUME NEW t \in Terms, NEW u \in Terms, active_process_PID'[t] = active_process_PID'[u]
        PROVE  t = u
    <3>1. \A v \in Terms : active_process_PID[v] \in processes_active
      BY <1>2 DEF SavedContexts
    <3> QED  BY <2>1, <3>1, <1>0, <1>2, <1>3 DEF Stacked, TypeOK
  <2>2. ASSUME NEW p \in processes_active', NEW q \in processes_active',
               parent_PID'[p] = parent_PID'[q], parent_PID'[p] # NoProc
        PROVE  p = q
    <3>1. \A r \in processes_active : parent_PID[r] # cpu
      BY <1>2, Sizes DEF ParentsWait
    <3> QED  BY <2>2, <3>1, <1>0, <1>4 DEF Stacked
  <2>3. ASSUME NEW p \in processes_active'
        PROVE  Foreground(p)' \/ \E q \in processes_active' : parent_PID'[q] = p
    <3>1. CASE p = pid
      BY <3>1, <1>0, <1>1, <1>2 DEF Foreground, Up, TypeOK
    <3>2. CASE p = cpu
      BY <3>2, <1>0, <1>4
    <3>3. CASE p # pid /\ p # cpu
      <4>1. p \in processes_active
        BY <3>3, <1>0
      <4>2. CASE Foreground(p)
        <5>1. PICK t \in Terms : Up(t) /\ active_process_PID[t] = p
          BY <4>2 DEF Foreground
        <5>2. active_process_PID'[t] = p /\ Up(t)'
          BY <5>1, <3>3, <1>0, <1>1, <1>2 DEF TypeOK, Up
        <5> QED  BY <5>2 DEF Foreground
      <4>3. CASE \E q \in processes_active : parent_PID[q] = p
        BY <4>3, <1>0, <1>4
      <4> QED  BY <4>1, <4>2, <4>3 DEF Stacked
    <3> QED  BY <3>1, <3>2, <3>3
  <2> QED  BY <2>1, <2>2, <2>3 DEF Stacked
<1>11. BaseShells'
  BY <1>0, <1>1, <1>2, <1>3, <1>4 DEF BaseShells, Up, Booted
<1> QED  BY <1>5, <1>6, <1>7, <1>8, <1>9, <1>10, <1>11

(***************************************************************************)
(* sys_halt, called by a program, by an exception handler or by a tick     *)
(* that found a Ctrl+C.  The tick has also stored the frame it interrupted *)
(* for the scheduled terminal, which disturbs nothing: only the frames of  *)
(* the other terminals are ever restored before being stored again.        *)
(***************************************************************************)
HaltFrame ==
    /\ Booted
    /\ UNCHANGED << shell_count, scheduled_terminal, displayed_terminal >>
    /\ EBP_SAVE' \in [Terms -> PIDs \cup {NoProc}]
    /\ \A t \in Terms : t # scheduled_terminal => EBP_SAVE'[t] = EBP_SAVE[t]
    /\ terminal_switch' \subseteq Terms
    /\ sigquit' \subseteq Terms

(* A restarted base shell takes back the slot, and with it every fact      *)
(* about the process that was there.                                       *)
LEMMA RestartShellIInv == IInv /\ HaltFrame /\ RestartShell => IInv'
<1> SUFFICES ASSUME IInv, HaltFrame, RestartShell PROVE IInv'
  OBVIOUS
<1> USE DEF IInv
<1>0. PICK pid \in PIDs :
        /\ IsLowestFree(pid, Without(current_process_idx))
        /\ processes_active' = Without(current_process_idx) \cup {pid}
        /\ num_active_processes' = num_active_processes - 1 + 1
        /\ parent_PID' = [parent_PID EXCEPT ![pid] = ParentIf(TRUE)]
        /\ no_parent_shell_flag' = FALSE
        /\ EBP' = [EBP EXCEPT ![pid] = cpu]
        /\ active_process_PID' = [active_process_PID EXCEPT ![scheduled_terminal] = pid]
        /\ current_process_idx' = pid
        /\ MapProcess(pid)
        /\ cpu' = pid
        /\ kframe' = [kframe EXCEPT ![cpu] = "execute", ![pid] = "none"]
        /\ faulting' = faulting \ {cpu}
  BY DEF RestartShell, StartProgram
<1>1. /\ shell_count = NTerm /\ shell_count > 0
      /\ \A t \in Terms : Up(t)
      /\ cpu \in processes_active /\ cpu \in PIDs /\ cpu # NoProc
      /\ kframe[cpu] = "none" /\ current_process_idx = cpu
      /\ active_process_PID[scheduled_terminal] = cpu
      /\ parent_PID[cpu] = NoProc
      /\ eax' = NoValue /\ EXCEPTION_FLAG' = EXCEPTION_FLAG
  BY Sizes, SMT DEF HaltFrame, RestartShell, Booted, Up, Terms, Coherent, TypeOK
<1>2. pid = cpu
  BY <1>0, <1>1, SameSlot
<1>3. processes_active' = processes_active
  BY <1>0, <1>1, <1>2 DEF Without
<1>4. parent_PID' = parent_PID /\ active_process_PID' = active_process_PID
  BY <1>0, <1>1, <1>2 DEF TypeOK, ParentIf
<1>5. kframe' = kframe
  BY <1>0, <1>1, <1>2 DEF TypeOK
<1>6. TypeOK'
  <2>1. /\ EBP' \in [PIDs -> PIDs \cup {NoProc}]
        /\ num_active_processes' \in Int
        /\ faulting' \subseteq PIDs
    BY <1>0 DEF TypeOK
  <2> QED  BY <2>1, <1>0, <1>1, <1>3, <1>4, <1>5 DEF TypeOK, HaltFrame, MapProcess
<1>7. Booting' /\ Coherent' /\ SavedContexts'
  BY <1>0, <1>1, <1>2, <1>3, <1>4, <1>5
     DEF Booting, Coherent, SavedContexts, HaltFrame, Up, Booted, MapProcess
<1>8. ParentsWait'
  BY <1>0, <1>1, <1>2, <1>3, <1>4, <1>5 DEF ParentsWait, TypeOK
<1>9. Stacked'
  BY <1>3, <1>4 DEF Stacked, Foreground, HaltFrame, Up
<1>10. BaseShells'
  BY <1>0, <1>3, <1>4 DEF BaseShells, HaltFrame, Up, Booted
<1> QED  BY <1>6, <1>7, <1>8, <1>9, <1>10

LEMMA ReturnToParentIInv == IInv /\ HaltFrame /\ ReturnToParent => IInv'
<1> SUFFICES ASSUME IInv, HaltFrame, ReturnToParent PROVE IInv'
  OBVIOUS
<1> USE DEF IInv
<1> DEFINE q == parent_PID[cpu]
<1>1. /\ shell_count = NTerm /\ shell_count > 0
      /\ \A t \in Terms : Up(t)
      /\ cpu \in processes_active /\ cpu \in PIDs /\ cpu # NoProc
      /\ kframe[cpu] = "none" /\ current_process_idx = cpu
      /\ active_process_PID[scheduled_terminal] = cpu
  BY Sizes, SMT DEF HaltFrame, Booted, Up, Terms, Coherent, TypeOK
<1>2. /\ q # NoProc /\ q \in processes_active /\ q \in PIDs
      /\ EBP[cpu] = q /\ kframe[q] = "execute" /\ q # cpu
  BY <1>1 DEF ReturnToParent, ParentsWait, TypeOK
<1>3. /\ processes_active' = processes_active \ {cpu}
      /\ num_active_processes' = num_active_processes - 1
      /\ MapProcess(q)
      /\ current_process_idx' = q
      /\ active_process_PID' = [active_process_PID EXCEPT ![scheduled_terminal] = q]
      /\ cpu' = q
      /\ kframe' = [kframe EXCEPT ![q] = "none"]
      /\ eax' \in {Status, Exception}
      /\ EXCEPTION_FLAG' = FALSE
      /\ faulting' = faulting \ {cpu}
      /\ UNCHANGED << parent_PID, EBP, no_parent_shell_flag >>
  BY <1>1, <1>2 DEF ReturnToParent, Without
<1>4. \A p \in processes_active : parent_PID[p] = q => p = cpu
  BY <1>1, <1>2 DEF Stacked
<1>5. \A t \in Terms : t # scheduled_terminal =>
         /\ active_process_PID[t] \in processes_active
         /\ active_process_PID[t] # cpu /\ active_process_PID[t] # q
         /\ active_process_PID'[t] = active_process_PID[t]
  BY <1>1, <1>2, <1>3 DEF SavedContexts, TypeOK
<1>6. active_process_PID'[scheduled_terminal] = q
  BY <1>3 DEF TypeOK
<1>7. TypeOK'
  <2>1. /\ processes_active' \subseteq PIDs /\ faulting' \subseteq PIDs
        /\ num_active_processes' \in Int
        /\ kframe' \in [PIDs -> Frames]
        /\ active_process_PID' \in [Terms -> PIDs]
    BY <1>2, <1>3 DEF TypeOK, Frames
  <2> QED  BY <2>1, <1>2, <1>3 DEF TypeOK, HaltFrame, MapProcess
<1>8. Booting' /\ Coherent'
  BY <1>1, <1>2, <1>3, <1>6 DEF Booting, Coherent, HaltFrame, Up, Booted, MapProcess, TypeOK
<1>9. SavedContexts'
  BY <1>1, <1>2, <1>3, <1>5 DEF SavedContexts, HaltFrame, Up, TypeOK
<1>10. ParentsWait'
  <2> SUFFICES ASSUME NEW p \in processes_active', parent_PID[p] # NoProc
               PROVE  LET r == parent_PID[p]
                      IN  r \in processes_active' /\ EBP[p] = r /\ kframe'[r] = "execute"
    BY <1>3 DEF ParentsWait
  <2>1. p \in processes_active /\ p # cpu /\ parent_PID[p] # q
    BY <1>3, <1>4
  <2>2. /\ parent_PID[p] \in processes_active /\ EBP[p] = parent_PID[p]
        /\ kframe[parent_PID[p]] = "execute"
    BY <2>1 DEF ParentsWait
  <2> QED  BY <2>1, <2>2, <1>1, <1>3 DEF TypeOK
<1>11. Stacked'
  <2>1. ASSUME NEW t \in Terms, NEW u \in Terms, active_process_PID'[t] = active_process_PID'[u]
        PROVE  t = u
    BY <2>1, <1>1, <1>5, <1>6 DEF Stacked
  <2>2. ASSUME NEW p \in processes_active'
        PROVE  Foreground(p)' \/ \E r \in processes_active' : parent_PID[r] = p
    <3>1. p \in processes_active /\ p # cpu
      BY <1>3
    <3>2. CASE p = q
      BY <3>2, <1>1, <1>6 DEF Foreground, Up, HaltFrame, TypeOK
    <3>3. ASSUME p # q, Foreground(p) PROVE Foreground(p)'
      <4>1. PICK t \in Terms : Up(t) /\ active_process_PID[t] = p
        BY <3>3 DEF Foreground
      <4>2. active_process_PID'[t] = p /\ Up(t)'
        BY <4>1, <3>1, <1>1, <1>5 DEF Up, HaltFrame
      <4> QED  BY <4>2 DEF Foreground
    <3>4. ASSUME p # q, NEW r \in processes_active, parent_PID[r] = p
          PROVE  r \in processes_active'
      BY <3>4, <1>3
    <3> QED  BY <3>1, <3>2, <3>3, <3>4 DEF Stacked
  <2> QED  BY <2>1, <2>2, <1>3 DEF Stacked
<1>12. BaseShells'
  <2>1. ~Up(cpu)
    BY <1>1, <1>2 DEF BaseShells
  <2> QED  BY <2>1, <1>3 DEF BaseShells, HaltFrame, Up, Booted
<1> QED  BY <1>7, <1>8, <1>9, <1>10, <1>11, <1>12

(***************************************************************************)
(* The ticks that start the base shells, and the context switch.           *)
(***************************************************************************)
LEMMA BootShellIInv == IInv /\ BootShell => IInv'
<1> SUFFICES ASSUME IInv, BootShell PROVE IInv'
  OBVIOUS
<1> USE DEF IInv
<1>0. PICK pid \in PIDs :
        /\ IsLowestFree(pid, processes_active)
        /\ processes_active' = processes_active \cup {pid}
        /\ num_active_processes' = num_active_processes + 1
        /\ parent_PID' = [parent_PID EXCEPT ![pid] = ParentIf(TRUE)]
        /\ no_parent_shell_flag' = FALSE
        /\ EBP' = [EBP EXCEPT ![pid] = cpu]
        /\ active_process_PID' = [active_process_PID EXCEPT ![shell_count] = pid]
        /\ current_process_idx' = pid
        /\ MapProcess(pid)
        /\ cpu' = pid
        /\ kframe' = [kframe EXCEPT ![cpu] = "pit", ![pid] = "none"]
        /\ faulting' = faulting \ {cpu}
  BY DEF BootShell, StartProgram
<1>1. /\ ~Booted
      /\ EBP_SAVE' = [EBP_SAVE EXCEPT ![scheduled_terminal] = cpu]
      /\ shell_count' = shell_count + 1 /\ scheduled_terminal' = shell_count
      /\ eax' = NoValue
      /\ UNCHANGED << EXCEPTION_FLAG, displayed_terminal, terminal_switch, sigquit >>
  BY DEF BootShell, SaveContext, keys
<1>2. pid = shell_count
  BY <1>0, <1>1, BootSlot
<1>3. /\ shell_count \in Terms /\ shell_count' \in 0 .. NTerm /\ shell_count' > 0
      /\ ~Up(shell_count) /\ shell_count < shell_count'
      /\ \A t \in PIDs : Up(t)' <=> Up(t) \/ t = shell_count
  <2>1. shell_count \in 0 .. NTerm /\ shell_count # NTerm /\ shell_count' = shell_count + 1
    BY <1>1 DEF TypeOK, Booted
  <2>2. /\ shell_count \in Terms /\ shell_count' \in 0 .. NTerm /\ shell_count' > 0
        /\ ~(shell_count < shell_count) /\ shell_count < shell_count'
    BY <2>1, Sizes, SMT DEF Terms
  <2>3. \A t \in Int : t < shell_count' <=> t < shell_count \/ t = shell_count
    BY <2>1, Sizes, SMT
  <2>4. \A t \in PIDs : t < shell_count' <=> t < shell_count \/ t = shell_count
    BY <2>3, Sizes
  <2> QED  BY <2>2, <2>4 DEF Up
<1>4. /\ pid \notin processes_active /\ pid \in PIDs /\ pid # NoProc
      /\ active_process_PID'[pid] = pid
      /\ parent_PID'[pid] = NoProc
      /\ \A p \in processes_active : p # pid /\ parent_PID'[p] = parent_PID[p]
  BY <1>0, <1>1, <1>2, <1>3, Sizes DEF Booting, ParentIf, TypeOK
<1>5. TypeOK'
  <2>1. /\ processes_active' \subseteq PIDs /\ faulting' \subseteq PIDs
        /\ num_active_processes' \in Int
        /\ kframe' \in [PIDs -> Frames]
    BY <1>0 DEF TypeOK, Frames
  <2>2. /\ parent_PID' \in [PIDs -> PIDs \cup {NoProc}]
        /\ EBP' \in [PIDs -> PIDs \cup {NoProc}]
        /\ active_process_PID' \in [Terms -> PIDs]
        /\ EBP_SAVE' \in [Terms -> PIDs \cup {NoProc}]
    BY <1>0, <1>1 DEF TypeOK, ParentIf
  <2> QED  BY <1>0, <1>1, <1>3, <2>1, <2>2 DEF TypeOK, MapProcess
<1>6. Booting'
  <2>1. shell_count' # 0 /\ cpu' # NoProc
    BY <1>0, <1>3, <1>4
  <2>2. Up(scheduled_terminal)'
    BY <1>1, <1>3 DEF Up
  <2>3. \A p \in PIDs : p \in processes_active' <=> Up(p)'
    BY <1>0, <1>1, <1>2, <1>3 DEF Booting
  <2> QED  BY <2>1, <2>2, <2>3 DEF Booting
<1>7. Coherent'
  BY <1>0, <1>1, <1>2, <1>4 DEF Coherent, MapProcess, TypeOK
<1>8. SavedContexts'
  <2> SUFFICES ASSUME NEW t \in Terms, Up(t)', t # shell_count
               PROVE  LET p == active_process_PID'[t]
                      IN  p \in processes_active' /\ EBP_SAVE'[t] = p /\ kframe'[p] = "pit"
    BY <1>1 DEF SavedContexts
  <2>1. Up(t) /\ shell_count > 0
    BY <1>3, Sizes, SMT DEF Up, Terms, TypeOK
  <2>2. active_process_PID'[t] = active_process_PID[t]
    BY <1>0 DEF TypeOK
  <2>3. CASE t = scheduled_terminal
    BY <2>1, <2>2, <2>3, <1>0, <1>1, <1>4 DEF Coherent, TypeOK
  <2>4. CASE t # scheduled_terminal
    <3>1. LET p == active_process_PID[t]
          IN  p \in processes_active /\ EBP_SAVE[t] = p /\ kframe[p] = "pit"
      BY <2>1, <2>4 DEF SavedContexts
    <3> QED  BY <3>1, <2>2, <2>4, <1>0, <1>1, <1>4 DEF TypeOK
  <2> QED  BY <2>3, <2>4
<1>9. \A p \in processes_active' : parent_PID'[p] = NoProc
  <2>1. \A p \in processes_active : parent_PID[p] = NoProc
    BY <1>1 DEF Booting, BaseShells, TypeOK
  <2> QED  BY <2>1, <1>0, <1>2, <1>4
<1>10. Stacked'
  <2>1. \A t \in Terms : Up(t) => active_process_PID[t] \in processes_active
    <3>1. ASSUME NEW t \in Terms, Up(t) PROVE shell_count > 0
      BY <3>1, <1>3, Sizes, SMT DEF Up, Terms
    <3> QED  BY <3>1 DEF SavedContexts, Coherent
  <2>2. ASSUME NEW t \in Terms, NEW u \in Terms, Up(t)', Up(u)',
               active_process_PID'[t] = active_process_PID'[u]
        PROVE  t = u
    <3>1. \A v \in Terms : v # shell_count => active_process_PID'[v] = active_process_PID[v]
      BY <1>0 DEF TypeOK
    <3>2. (Up(t) \/ t = shell_count) /\ (Up(u) \/ u = shell_count)
      BY <2>2, <1>3, Sizes
    <3> QED  BY <2>1, <2>2, <3>1, <3>2, <1>2, <1>4 DEF Stacked
  <2>3. ASSUME NEW p \in processes_active' PROVE Foreground(p)'
    <3>1. CASE p = pid
      BY <3>1, <1>2, <1>3, <1>4 DEF Foreground
    <3>2. CASE p # pid
      <4>1. p \in processes_active /\ \A r \in processes_active : parent_PID[r] # p
        BY <3>2, <1>0, <1>1, Sizes DEF Booting, BaseShells, TypeOK
      <4>2. PICK t \in Terms : Up(t) /\ active_process_PID[t] = p
        BY <4>1 DEF Stacked, Foreground
      <4>3. t # shell_count
        BY <4>2, <1>3
      <4>4. active_process_PID'[t] = p
        BY <4>2, <4>3, <1>0 DEF TypeOK
      <4>5. Up(t)'
        BY <4>2, <1>3, Sizes
      <4> QED  BY <4>4, <4>5 DEF Foreground
    <3> QED  BY <3>1, <3>2
  <2> QED  BY <2>2, <2>3, <1>9 DEF Stacked
<1>11. ParentsWait'
  BY <1>9 DEF ParentsWait
<1>12. BaseShells'
  <2>1. \A p \in PIDs : p \in processes_active' <=> Up(p)'
    BY <1>6, <1>0, <1>1, <1>2, <1>3 DEF Booting
  <2> QED  BY <2>1, <1>0, <1>5, <1>9 DEF BaseShells, TypeOK
<1> QED  BY <1>5, <1>6, <1>7, <1>8, <1>10, <1>11, <1>12

LEMMA RoundRobinIInv == IInv /\ RoundRobin => IInv'
<1> SUFFICES ASSUME IInv, RoundRobin PROVE IInv'
  OBVIOUS
<1> USE DEF IInv
<1> DEFINE next == NextTerminal
           p == active_process_PID[next]
<1>1. /\ shell_count = NTerm /\ shell_count > 0
      /\ \A t \in Terms : Up(t)
      /\ cpu \in processes_active /\ cpu \in PIDs /\ cpu # NoProc
      /\ kframe[cpu] = "none" /\ current_process_idx = cpu
      /\ active_process_PID[scheduled_terminal] = cpu
  BY Sizes, SMT DEF RoundRobin, Booted, Up, Terms, Coherent, TypeOK
<1>2. next \in Terms
  BY NextTerminalInTerms DEF TypeOK
<1>3. /\ EBP_SAVE' = [EBP_SAVE EXCEPT ![scheduled_terminal] = cpu]
      /\ scheduled_terminal' = next /\ current_process_idx' = p
      /\ MapProcess(p)
      /\ cpu' = EBP_SAVE'[next]
      /\ kframe' = [kframe EXCEPT ![cpu] = "pit", ![cpu'] = "none"]
      /\ eax' = NoValue
      /\ UNCHANGED << processes_active, num_active_processes, parent_PID, EBP,
                      no_parent_shell_flag, EXCEPTION_FLAG, shell_count,
                      displayed_terminal, active_process_PID, terminal_switch,
                      sigquit, faulting >>
  BY DEF RoundRobin, SaveContext, table, keys
<1>4. /\ cpu' = p /\ p \in processes_active /\ p \in PIDs
      /\ kframe[p] \in {"none", "pit"}
  BY <1>1, <1>2, <1>3 DEF SavedContexts, TypeOK
<1>5. TypeOK'
  BY <1>1, <1>2, <1>3, <1>4 DEF TypeOK, MapProcess, Frames
<1>6. Booting'
  BY <1>1, <1>2, <1>3, <1>4, Sizes DEF Booting, Up, Booted
<1>7. Coherent'
  BY <1>3, <1>4 DEF Coherent, MapProcess, TypeOK
<1>8. SavedContexts'
  <2> SUFFICES ASSUME NEW t \in Terms, t # next
               PROVE  LET r == active_process_PID[t]
                      IN  r \in processes_active /\ EBP_SAVE'[t] = r /\ kframe'[r] = "pit"
    BY <1>3 DEF SavedContexts
  <2>1. active_process_PID[t] # p
    BY <1>1, <1>2 DEF Stacked
  <2>2. CASE t = scheduled_terminal
    BY <2>1, <2>2, <1>1, <1>3, <1>4 DEF TypeOK
  <2>3. CASE t # scheduled_terminal
    BY <2>1, <2>3, <1>1, <1>3, <1>4 DEF SavedContexts, TypeOK
  <2> QED  BY <2>2, <2>3
<1>9. ParentsWait'
  BY <1>1, <1>3, <1>4 DEF ParentsWait, TypeOK
<1>10. Stacked' /\ BaseShells'
  BY <1>3 DEF Stacked, BaseShells, Foreground, Up, Booted
<1> QED  BY <1>5, <1>6, <1>7, <1>8, <1>9, <1>10
(***************************************************************************)
(* The other steps write neither the table nor the machine: Fault, a       *)
(* failed execute, the keys, and the tick that shows another terminal.     *)
(***************************************************************************)
LEMMA QuietIInv ==
    IInv /\ (SysExecuteFails \/ Fault \/ Keyboard \/ \E t \in Terms : SwitchDisplay(t))
      => IInv'
<1> SUFFICES ASSUME IInv,
                    SysExecuteFails \/ Fault \/ Keyboard \/ \E t \in Terms : SwitchDisplay(t)
             PROVE  IInv'
  OBVIOUS
<1> USE DEF IInv
<1>1. UNCHANGED << processes_active, num_active_processes, parent_PID, EBP,
                   current_process_idx, no_parent_shell_flag, shell_count,
                   scheduled_terminal, active_process_PID, user_page, esp0, cpu,
                   kframe >>
  BY DEF SysExecuteFails, Fault, Keyboard, CtrlC, AltF, SwitchDisplay, table, machine, keys
<1>2. \A t \in Terms : t # scheduled_terminal => EBP_SAVE'[t] = EBP_SAVE[t]
  BY DEF SysExecuteFails, Fault, Keyboard, CtrlC, AltF, SwitchDisplay, SaveContext,
         keys, TypeOK
<1>3. TypeOK'
  <2>1. CASE SysExecuteFails
    BY <2>1 DEF SysExecuteFails, TypeOK, table, keys, machine
  <2>2. CASE Fault
    <3>1. cpu \in PIDs
      BY <2>2, Sizes DEF Fault, Booted, Coherent, TypeOK
    <3> QED  BY <2>2, <3>1 DEF Fault, TypeOK, table, keys, machine
  <2>3. CASE Keyboard
    BY <2>3 DEF Keyboard, CtrlC, AltF, TypeOK, table, machine
  <2>4. CASE \E t \in Terms : SwitchDisplay(t)
    BY <2>4 DEF SwitchDisplay, SaveContext, TypeOK, table, machine
  <2> QED  BY <2>1, <2>2, <2>3, <2>4
<1>4. Booting' /\ Coherent' /\ ParentsWait' /\ Stacked' /\ BaseShells'
  BY <1>1 DEF Booting, Coherent, ParentsWait, Stacked, BaseShells, Up, Booted, Foreground
<1>5. SavedContexts'
  BY <1>1, <1>2 DEF SavedContexts, Up
<1> QED  BY <1>3, <1>4, <1>5

LEMMA NextIInv == IInv /\ [Next]_vars => IInv'
<1> SUFFICES ASSUME IInv, [Next]_vars PROVE IInv'
  OBVIOUS
<1>1. CASE SysExecute
  BY <1>1, SysExecuteIInv
<1>2. CASE SysHalt
  <2>1. HaltFrame
    BY <1>2 DEF SysHalt, HaltFrame, IInv, TypeOK, keys
  <2> QED  BY <1>2, <2>1, RestartShellIInv, ReturnToParentIInv DEF SysHalt, Halt
<1>3. CASE SigquitHalt
  <2>1. HaltFrame
    BY <1>3 DEF SigquitHalt, HaltFrame, SaveContext, IInv, TypeOK
  <2> QED  BY <1>3, <2>1, RestartShellIInv, ReturnToParentIInv DEF SigquitHalt, Halt
<1>4. CASE BootShell
  BY <1>4, BootShellIInv
<1>5. CASE RoundRobin
  BY <1>5, RoundRobinIInv
<1>6. CASE SysExecuteFails \/ Fault \/ Keyboard \/ \E t \in Terms : SwitchDisplay(t)
  BY <1>6, QuietIInv
<1>7. CASE UNCHANGED vars
  BY <1>7 DEF vars, table, keys, machine, IInv, TypeOK, Booting, Coherent, SavedContexts,
              ParentsWait, Stacked, BaseShells, Up, Booted, Foreground
<1> QED  BY <1>1, <1>2, <1>3, <1>4, <1>5, <1>6, <1>7 DEF Next, Tick

(***************************************************************************)
(* The theorems.                                                           *)
(***************************************************************************)
(* Whatever programs, faults, keys and ticks do, and in any order, every   *)
(* part of the inductive invariant holds: of every terminal count and      *)
(* every number of process slots.                                          *)
THEOREM Invariance == Spec => []IInv
<1>1. Init => IInv
  BY InitIInv
<1>2. IInv /\ [Next]_vars => IInv'
  BY NextIInv
<1> QED  BY <1>1, <1>2, PTL DEF Spec

(* The kernel's variables hold values of their types.                      *)
THEOREM TypeCorrect == Spec => []TypeOK
<1>1. IInv => TypeOK
  BY DEF IInv
<1> QED  BY <1>1, Invariance, PTL

(* The CPU, current_process_idx, the mapped page, tss.esp0 and the         *)
(* scheduled terminal always agree on which process runs.                  *)
THEOREM AlwaysCoherent == Spec => []Coherent
<1>1. IInv => Coherent
  BY DEF IInv
<1> QED  BY <1>1, Invariance, PTL

(* The frame schedule() restores for a background terminal is always the   *)
(* tick frame of its own foreground process, still on its stack.           *)
THEOREM ContextsLive == Spec => []SavedContexts
<1>1. IInv => SavedContexts
  BY DEF IInv
<1> QED  BY <1>1, Invariance, PTL

(* The frame sys_halt returns to is always the sys_execute frame of a      *)
(* parent that is alive and has waited there since.                        *)
THEOREM ParentsLive == Spec => []ParentsWait
<1>1. IInv => ParentsWait
  BY DEF IInv
<1> QED  BY <1>1, Invariance, PTL

(* Each active process is the foreground of one terminal or waits for one  *)
(* child.                                                                  *)
THEOREM AlwaysStacked == Spec => []Stacked
<1>1. IInv => Stacked
  BY DEF IInv
<1> QED  BY <1>1, Invariance, PTL

(* The base shell of terminal t is process t for ever, halted or killed    *)
(* as often as one likes (sys_halt's "re-executed in the same spot").      *)
THEOREM ShellsKeepSlots == Spec => []BaseShells
<1>1. IInv => BaseShells
  BY DEF IInv
<1> QED  BY <1>1, Invariance, PTL
(***************************************************************************)
(* The counter of running programs.                                        *)
(***************************************************************************)
LEMMA ActiveFinite ==
    ASSUME TypeOK
    PROVE  /\ IsFiniteSet(processes_active)
           /\ Cardinality(processes_active) \in Nat
<1>1. IsFiniteSet(PIDs)
  BY Sizes, FS_Interval, SMT DEF PIDs
<1> QED  BY <1>1, FS_Subset, FS_CardinalityType DEF TypeOK

LEMMA ShellsCounted ==
    ASSUME TypeOK, BaseShells, Booted
    PROVE  NTerm <= Cardinality(processes_active)
<1>1. Terms \subseteq processes_active
  BY Sizes, SMT DEF BaseShells, Booted, Up, Terms
<1>2. Cardinality(Terms) = NTerm
  BY Sizes, FS_Interval, SMT DEF Terms
<1> QED  BY <1>1, <1>2, ActiveFinite, FS_Subset

Counted == num_active_processes = Cardinality(processes_active)

(* Of the steps of the invariant's proof only those that free or take a    *)
(* slot disturb the count.                                                 *)
LEMMA NextCounted == IInv /\ Counted /\ [Next]_vars => Counted'
<1> SUFFICES ASSUME IInv, Counted, [Next]_vars PROVE Counted'
  OBVIOUS
<1> USE DEF Counted
<1>1. /\ IsFiniteSet(processes_active)
      /\ Cardinality(processes_active) \in Nat
      /\ num_active_processes \in Int
  BY ActiveFinite DEF IInv, TypeOK
<1>2. ASSUME SysExecute \/ BootShell PROVE Counted'
  <2>1. PICK p \in PIDs \ processes_active :
           /\ processes_active' = processes_active \cup {p}
           /\ num_active_processes' = num_active_processes + 1
    BY <1>2 DEF SysExecute, BootShell, StartProgram, IsLowestFree, Free
  <2>2. Cardinality(processes_active \cup {p}) = Cardinality(processes_active) + 1
    BY <2>1, <1>1, FS_AddElement
  <2> QED  BY <2>1, <2>2, <1>1
<1>3. ASSUME Halt, Booted PROVE Counted'
  <2>1. /\ current_process_idx \in processes_active
        /\ shell_count > 0
    BY <1>3, Sizes DEF IInv, Coherent, Booted
  <2>2. CASE RestartShell
    <3>1. PICK p \in PIDs :
             /\ IsLowestFree(p, Without(current_process_idx))
             /\ processes_active' = Without(current_process_idx) \cup {p}
             /\ num_active_processes' = num_active_processes - 1 + 1
      BY <2>2 DEF RestartShell, StartProgram
    <3>2. p = current_process_idx
      BY <3>1, <2>1, <2>2, SameSlot DEF IInv, RestartShell
    <3>3. processes_active' = processes_active
      BY <3>1, <3>2, <2>1 DEF Without
    <3>4. num_active_processes' = num_active_processes
      BY <3>1, <1>1
    <3> QED  BY <3>3, <3>4
  <2>3. CASE ReturnToParent
    <3>1. /\ processes_active' = processes_active \ {current_process_idx}
          /\ num_active_processes' = num_active_processes - 1
      BY <2>3 DEF ReturnToParent, Without
    <3>2. Cardinality(processes_active \ {current_process_idx})
             = Cardinality(processes_active) - 1
      BY <2>1, <1>1, FS_RemoveElement
    <3> QED  BY <3>1, <3>2, <1>1
  <2> QED  BY <1>3, <2>2, <2>3 DEF Halt
<1>4. CASE RoundRobin \/ SysExecuteFails \/ Fault \/ Keyboard
           \/ \E t \in Terms : SwitchDisplay(t)
  BY <1>4 DEF RoundRobin, SysExecuteFails, Fault, Keyboard, CtrlC, AltF, SwitchDisplay, table
<1>5. CASE UNCHANGED vars
  BY <1>5 DEF vars, table
<1> QED  BY <1>2, <1>3, <1>4, <1>5 DEF Next, Tick, SysHalt, SigquitHalt

(* num_active_processes is the number of active slots, and once the shells *)
(* are up it is never below their number ("cannot be decremented below 1", *)
(* syscalls.c:49).                                                         *)
THEOREM AlwaysCounted == Spec => []CountRight
<1>1. Init => Counted
  BY FS_EmptySet DEF Init, Counted
<1>2. IInv /\ Counted => CountRight
  BY ShellsCounted DEF IInv, Counted, CountRight
<1> QED  BY <1>1, <1>2, NextCounted, Invariance, PTL DEF Spec

(***************************************************************************)
(* Refinement of TerminalStacks. The stack of a terminal that is up is a   *)
(* chain of parents, and a chain is what Ancestry reads (AncestryOfChain): *)
(* each step only has to say what the new chain is.                        *)
(***************************************************************************)
(* s leads from a base shell to p, each the parent of the next, none twice *)
(* and none a slot that is free when A are occupied.                       *)
Chain(A, parent, p, s) ==
    /\ s \in Seq(A)
    /\ Len(s) > 0 /\ s[Len(s)] = p
    /\ parent[s[1]] = NoProc
    /\ \A k \in 1 .. Len(s) - 1 : parent[s[k + 1]] = s[k]
    /\ \A j, k \in 1 .. Len(s) : s[j] = s[k] => j = k

(* There are no more programs in a chain than slots.                       *)
LEMMA ChainFits ==
    ASSUME NEW A \in SUBSET PIDs, NEW parent, NEW p, NEW s, Chain(A, parent, p, s)
    PROVE  /\ s \in Seq(PIDs) /\ Len(s) \in 1 .. MaxProc
           /\ \A k \in 1 .. Len(s) : s[k] \in A
<1>1. /\ s \in Seq(PIDs) /\ Len(s) \in Nat /\ Len(s) > 0 /\ s \in [1 .. Len(s) -> A]
      /\ \A k \in 1 .. Len(s) : s[k] \in A
  BY LenProperties, ElementOfSeq, SeqMonotonic DEF Chain
<1>2. IsFiniteSet(PIDs) /\ Cardinality(PIDs) = MaxProc
  <2>1. PIDs = 0 .. MaxProc - 1 /\ MaxProc - 1 \in Int /\ 0 \in Int
    BY Sizes DEF PIDs
  <2> QED  BY <2>1, Sizes, FS_Interval
<1>3. s \in Injection(1 .. Len(s), PIDs)
  <2>1. s \in [1 .. Len(s) -> PIDs]
    BY <1>1
  <2> QED  BY <1>1, <2>1 DEF Chain, Injection, IsInjective
<1>4. IsFiniteSet(1 .. Len(s)) /\ Cardinality(1 .. Len(s)) <= Cardinality(PIDs)
  BY <1>2, <1>3, FS_Injection
<1>5. Cardinality(1 .. Len(s)) = Len(s)
  BY <1>1, FS_Interval, Sizes
<1> QED  BY <1>1, <1>2, <1>4, <1>5, Sizes

(* What one reads from p on is the chain, if there is one: the end of it   *)
(* read so far, and the least n at which it were not would follow one at   *)
(* which it is.                                                            *)
LEMMA AncestryOfChain ==
    ASSUME NEW A \in SUBSET PIDs, NEW parent, NEW p, NEW s, Chain(A, parent, p, s)
    PROVE  Ancestry(parent, p) = s
<1> DEFINE L == Len(s)
           first(n) == IF n < L THEN L - n ELSE 1
           end(n) == SubSeq(s, first(n), L)
           ends == [n \in 0 .. MaxProc - 1 |-> end(n)]
           IsRead(f) == f = [n \in 0 .. MaxProc - 1 |->
                                IF n = 0 THEN << p >> ELSE WithParent(parent, f[n - 1])]
           back == CHOOSE f : IsRead(f)
<1>1. /\ s \in Seq(PIDs) /\ L \in 1 .. MaxProc /\ L \in Nat
      /\ \A k \in 1 .. L : s[k] \in PIDs
      /\ MaxProc \in Nat /\ NoProc \notin PIDs
      /\ s[L] = p /\ parent[s[1]] = NoProc
      /\ \A k \in 1 .. L - 1 : parent[s[k + 1]] = s[k]
  <2>1. s \in Seq(PIDs) /\ L \in 1 .. MaxProc
    BY ChainFits
  <2>2. \A k \in 1 .. L : s[k] \in PIDs
    BY <2>1, ElementOfSeq
  <2>3. /\ s[L] = p /\ parent[s[1]] = NoProc
        /\ \A k \in 1 .. L - 1 : parent[s[k + 1]] = s[k]
    BY DEF Chain
  <2> HIDE DEF L
  <2> QED  BY <2>1, <2>2, <2>3, Sizes
<1> HIDE DEF L
<1>2. \A n \in Nat : first(n) \in 1 .. L
  BY <1>1
<1>3. ASSUME NEW n \in Nat
      PROVE  /\ end(n) = << s[first(n)] >> \o SubSeq(s, first(n) + 1, L)
             /\ end(n)[1] = s[first(n)]
  <2>1. first(n) \in 1 .. L /\ L \in first(n) .. L
    BY <1>1, <1>2
  <2> HIDE DEF first
  <2>2. end(n) = << s[first(n)] >> \o SubSeq(s, first(n) + 1, L)
    BY <1>1, <2>1, SubSeqRecursiveFirst DEF L
  <2>3. \A k \in first(n) .. L : s[k] \in PIDs
    BY <1>1, <2>1
  <2>4. /\ \A k \in 1 .. L - first(n) + 1 : end(n)[k] = s[first(n) + k - 1]
    BY <1>1, <2>1, <2>3, SubSeqProperties
  <2>5. 1 \in 1 .. L - first(n) + 1 /\ first(n) + 1 - 1 = first(n)
    BY <1>1, <2>1
  <2> QED  BY <2>2, <2>4, <2>5
<1>4. end(0) = << p >>
  <2>1. first(0) = L
    BY <1>1
  <2>2. SubSeq(s, L + 1, L) = << >>
    BY <1>1, SubSeqEmpty
  <2>3. end(0) = << s[L] >> \o << >>
    BY <1>3, <2>1, <2>2
  <2>4. << s[L] >> \in Seq(PIDs)
    <3>1. s[L] \in PIDs
      BY <1>1
    <3> QED  BY <3>1
  <2>5. << s[L] >> \o << >> = << s[L] >>
    BY <2>4, ConcatEmptySeq
  <2> QED  BY <1>1, <2>3, <2>5
<1>5. ASSUME NEW n \in Nat \ {0} PROVE end(n) = WithParent(parent, end(n - 1))
  <2>1. n - 1 \in Nat /\ end(n - 1)[1] = s[first(n - 1)]
    <3>1. n - 1 \in Nat
      OBVIOUS
    <3> HIDE DEF end, first
    <3> QED  BY <1>3, <3>1
  <2>2. CASE n < L
    <3>1. /\ first(n) = L - n /\ first(n - 1) = first(n) + 1 /\ first(n) \in 1 .. L - 1
      BY <1>1, <2>2
    <3>2. parent[s[first(n - 1)]] = s[first(n)] /\ s[first(n)] \in PIDs
      BY <1>1, <3>1
    <3>3. end(n) = << s[first(n)] >> \o end(n - 1)
      BY <1>3, <3>1
    <3> HIDE DEF end, first
    <3> QED  BY <1>1, <2>1, <3>2, <3>3 DEF WithParent
  <2>3. CASE ~(n < L)
    <3>1. first(n) = 1 /\ first(n - 1) = 1
      BY <1>1, <2>3
    <3>2. end(n) = end(n - 1)
      BY <3>1
    <3> HIDE DEF end, first
    <3> QED  BY <1>1, <2>1, <3>1, <3>2 DEF WithParent
  <2> QED  BY <2>2, <2>3
<1> HIDE DEF end
<1>6. IsRead(ends)
  <2>1. /\ ends = [n \in 0 .. MaxProc - 1 |-> ends[n]]
        /\ \A n \in 0 .. MaxProc - 1 : ends[n] = end(n)
    OBVIOUS
  <2> HIDE DEF ends
  <2>2. ASSUME NEW n \in 0 .. MaxProc - 1
        PROVE  ends[n] = IF n = 0 THEN << p >> ELSE WithParent(parent, ends[n - 1])
    <3>1. CASE n = 0
      BY <1>4, <2>1, <3>1
    <3>2. CASE n # 0
      <4>1. n \in Nat \ {0} /\ n - 1 \in 0 .. MaxProc - 1
        BY <1>1, <3>2
      <4>2. ends[n] = end(n) /\ ends[n - 1] = end(n - 1)
        BY <2>1, <4>1
      <4> QED  BY <1>5, <3>2, <4>1, <4>2
    <3> QED  BY <3>1, <3>2
  <2> QED  BY <2>1, <2>2
<1>7. IsRead(back)
  BY <1>6
<1> HIDE DEF back
<1>8. \A n \in 0 .. MaxProc - 1 : back[n] = end(n)
  <2> DEFINE wrong == {n \in 0 .. MaxProc - 1 : back[n] # end(n)}
  <2> SUFFICES ASSUME wrong # {} PROVE FALSE
    OBVIOUS
  <2>1. PICK m \in wrong : \A k \in wrong : m <= k
    <3>1. wrong \subseteq Nat
      BY <1>1
    <3> HIDE DEF wrong
    <3> QED  BY <3>1, Least
  <2>2. m \in 0 .. MaxProc - 1 /\ back[m] # end(m)
    BY <2>1
  <2>3. back[m] = IF m = 0 THEN << p >> ELSE WithParent(parent, back[m - 1])
    BY <1>7, <2>2
  <2>4. CASE m = 0
    BY <1>4, <2>2, <2>3, <2>4
  <2>5. CASE m # 0
    <3>1. m \in Nat \ {0} /\ m - 1 \in 0 .. MaxProc - 1 /\ ~(m <= m - 1)
      BY <1>1, <2>2, <2>5
    <3>2. back[m - 1] = end(m - 1)
      BY <2>1, <3>1
    <3> QED  BY <1>5, <2>2, <2>3, <2>5, <3>1, <3>2
  <2> QED  BY <2>4, <2>5
<1>9. Ancestry(parent, p) = back[MaxProc - 1]
  BY DEF Ancestry, back
<1>10. MaxProc - 1 \in 0 .. MaxProc - 1 /\ MaxProc - 1 \in Nat /\ first(MaxProc - 1) = 1
  BY <1>1
<1>11. end(MaxProc - 1) = s
  BY <1>1, <1>10, SubSeqFull DEF end, L
<1> QED  BY <1>8, <1>9, <1>10, <1>11

(* A terminal that is up has its chain, so that StackOf is one.            *)
Chained(t) ==
    Up(t) => Chain(processes_active, parent_PID, active_process_PID[t], StackOf(t))

Nested == \A t \in Terms : Chained(t)

LEMMA StackIsChain ==
    ASSUME TypeOK', NEW t \in Terms, NEW s, Up(t)',
           Chain(processes_active', parent_PID', active_process_PID'[t], s)
    PROVE  StackOf(t)' = s /\ Chained(t)'
<1>1. processes_active' \in SUBSET PIDs
  BY DEF TypeOK
<1>2. Ancestry(parent_PID', active_process_PID'[t]) = s
  BY <1>1, AncestryOfChain
<1>3. StackOf(t)' = s
  BY <1>2 DEF StackOf
<1> QED  BY <1>3 DEF Chained

(* A chain that is not touched stays.                                      *)
LEMMA ChainStays ==
    ASSUME NEW A \in SUBSET PIDs, NEW B, NEW parent, NEW new, NEW p, NEW s,
           Chain(A, parent, p, s),
           \A k \in 1 .. Len(s) : s[k] \in B /\ new[s[k]] = parent[s[k]]
    PROVE  Chain(B, new, p, s)
<1>1. /\ s \in Seq(PIDs) /\ Len(s) \in Nat /\ Len(s) > 0
  BY ChainFits
<1>2. s \in Seq(B)
  BY <1>1, SeqDef, LenProperties
<1>3. 1 \in 1 .. Len(s) /\ \A k \in 1 .. Len(s) - 1 : k + 1 \in 1 .. Len(s)
  BY <1>1
<1> QED  BY <1>2, <1>3 DEF Chain

(* No terminal is up at first.                                             *)
LEMMA InitNested == Init => Nested /\ Stacks!Init
<1> SUFFICES ASSUME Init PROVE Nested /\ Stacks!Init
  OBVIOUS
<1>1. shell_count = 0 /\ scheduled_terminal = 0 /\ Terms = Stacks!Terms
  BY DEF Init, Terms, Stacks!Terms
<1>2. \A t \in Terms : ~Up(t)
  BY <1>1, Sizes DEF Up, Terms
<1>3. Nested
  BY <1>2 DEF Nested, Chained
<1>4. ProgramStacks = [t \in Terms |-> << >>]
  BY <1>2 DEF ProgramStacks, StackOf
<1> QED  BY <1>1, <1>3, <1>4 DEF Stacks!Init

(* The stack of a terminal whose processes are all kept, with their        *)
(* parents, is the same.                                                   *)
LEMMA StackKept ==
    ASSUME TypeOK, TypeOK', Nested, NEW t \in Terms, Up(t)' <=> Up(t),
           active_process_PID'[t] = active_process_PID[t],
           Up(t) => \A k \in 1 .. Len(StackOf(t)) :
                       /\ StackOf(t)[k] \in processes_active'
                       /\ parent_PID'[StackOf(t)[k]] = parent_PID[StackOf(t)[k]]
    PROVE  StackOf(t)' = StackOf(t) /\ Chained(t)'
<1>1. CASE ~Up(t)
  BY <1>1 DEF Chained, StackOf
<1>2. CASE Up(t)
  <2>1. Chain(processes_active, parent_PID, active_process_PID[t], StackOf(t))
    BY <1>2 DEF Nested, Chained
  <2> DEFINE s == StackOf(t)
  <2> HIDE DEF s
  <2>2. processes_active \in SUBSET PIDs
    BY DEF TypeOK
  <2>3. Chain(processes_active', parent_PID', active_process_PID[t], s)
    BY <1>2, <2>1, <2>2, ChainStays DEF s
  <2>4. StackOf(t)' = s /\ Chained(t)'
    BY <1>2, <2>3, StackIsChain
  <2> QED  BY <2>4 DEF s
<1> QED  BY <1>1, <1>2

(* An execute pushes the new program on the stack of the scheduled         *)
(* terminal.                                                               *)
LEMMA ExecutePushes ==
    ASSUME IInv, IInv', Nested, SysExecute
    PROVE  Nested' /\ \E p \in Stacks!Programs : Stacks!Execute(p)
<1> DEFINE c == cpu
           u == scheduled_terminal
<1>0. PICK pid \in PIDs :
        /\ IsLowestFree(pid, processes_active)
        /\ processes_active' = processes_active \cup {pid}
        /\ parent_PID' = [parent_PID EXCEPT ![pid] = ParentIf(no_parent_shell_flag)]
        /\ active_process_PID' = [active_process_PID EXCEPT ![u] = pid]
  BY DEF SysExecute, StartProgram
<1>1. /\ shell_count = NTerm /\ shell_count' = shell_count /\ u' = u /\ u \in Terms
      /\ \A t \in Terms : Up(t) /\ Up(t)'
      /\ c \in processes_active /\ c # NoProc
      /\ active_process_PID[u] = c
      /\ ~no_parent_shell_flag /\ current_process_idx = c
      /\ processes_active \in SUBSET PIDs /\ TypeOK /\ TypeOK'
  <2>1. TypeOK /\ TypeOK' /\ Coherent /\ BaseShells
    BY DEF IInv
  <2>2. Booted /\ UNCHANGED <<shell_count, scheduled_terminal>>
    BY DEF SysExecute
  <2>3. shell_count = NTerm /\ shell_count' = shell_count /\ u' = u /\ u \in Terms
    BY <2>1, <2>2 DEF Booted, TypeOK
  <2>4. \A t \in Terms : Up(t) /\ Up(t)'
    BY <2>3, Sizes, SMT DEF Up, Terms
  <2>5. /\ c \in processes_active /\ c # NoProc
        /\ active_process_PID[u] = c /\ current_process_idx = c
        /\ processes_active \in SUBSET PIDs
    BY <2>1, <2>3, Sizes, SMT DEF Coherent, TypeOK
  <2>6. ~no_parent_shell_flag
    BY <2>1, <2>2 DEF BaseShells
  <2> QED  BY <2>1, <2>3, <2>4, <2>5, <2>6
<1>2. /\ pid \notin processes_active /\ parent_PID'[pid] = c
      /\ \A q \in processes_active : parent_PID'[q] = parent_PID[q]
      /\ active_process_PID'[u] = pid
      /\ \A t \in Terms : t # u => active_process_PID'[t] = active_process_PID[t]
  BY <1>0, <1>1 DEF IsLowestFree, Free, ParentIf, TypeOK
<1>3. ASSUME NEW t \in Terms
      PROVE  /\ Chain(processes_active, parent_PID, active_process_PID[t], StackOf(t))
             /\ \A k \in 1 .. Len(StackOf(t)) : StackOf(t)[k] \in processes_active
             /\ StackOf(t) \in Seq(PIDs) /\ Len(StackOf(t)) \in Nat
  <2>1. Chain(processes_active, parent_PID, active_process_PID[t], StackOf(t))
    BY <1>1 DEF Nested, Chained
  <2> QED  BY <1>1, <2>1, ChainFits
<1>4. ASSUME NEW t \in Terms, t # u PROVE StackOf(t)' = StackOf(t) /\ Chained(t)'
  BY <1>0, <1>1, <1>2, <1>3, <1>4, StackKept
<1>5. ASSUME NEW t \in Terms, t = u
      PROVE  StackOf(t)' = Append(StackOf(t), pid) /\ Chained(t)'
  <2> DEFINE s == StackOf(t)
             L == Len(s)
             new == Append(s, pid)
  <2>1. Chain(processes_active, parent_PID, c, s)
    BY <1>1, <1>3, <1>5
  <2>2. L \in Nat /\ L > 0 /\ s \in Seq(processes_active')
        /\ \A k \in 1 .. L : s[k] \in processes_active
    BY <1>0, <1>1, <1>3, <2>1, SeqMonotonic DEF Chain
  <2>3. /\ new \in Seq(processes_active') /\ Len(new) = L + 1 /\ new[L + 1] = pid
        /\ \A k \in 1 .. L : new[k] = s[k]
    BY <1>0, <2>2, AppendProperties
  <2> HIDE DEF new, L, s
  <2>4. /\ s[L] = c /\ parent_PID[s[1]] = NoProc
        /\ \A k \in 1 .. L - 1 : parent_PID[s[k + 1]] = s[k]
        /\ \A j, k \in 1 .. L : s[j] = s[k] => j = k
    BY <2>1 DEF Chain, L
  <2>5. parent_PID'[new[1]] = NoProc
    BY <1>2, <2>2, <2>3, <2>4
  <2>6. ASSUME NEW k \in 1 .. L PROVE parent_PID'[new[k + 1]] = new[k]
    <3>1. CASE k = L
      BY <1>2, <2>2, <2>3, <2>4, <3>1
    <3>2. CASE k # L
      <4>1. k \in 1 .. L - 1 /\ k + 1 \in 1 .. L
        BY <2>2, <3>2
      <4> QED  BY <1>2, <2>2, <2>3, <2>4, <4>1
    <3> QED  BY <3>1, <3>2
  <2>7. \A j, k \in 1 .. L + 1 : new[j] = new[k] => j = k
    BY <1>2, <2>2, <2>3, <2>4
  <2>8. Chain(processes_active', parent_PID', active_process_PID'[t], new)
    BY <1>2, <1>5, <2>2, <2>3, <2>5, <2>6, <2>7 DEF Chain
  <2>9. StackOf(t)' = new /\ Chained(t)'
    BY <1>1, <2>8, StackIsChain
  <2> QED  BY <2>9 DEF new, s
<1>6. Nested'
  BY <1>4, <1>5 DEF Nested
<1>7. Stacks!Execute(pid) /\ pid \in Stacks!Programs
  <2>1. pid \notin Stacks!Running
    <3>1. ASSUME NEW t \in Terms PROVE pid \notin Stacks!ToSet(StackOf(t))
      BY <1>2, <1>3, LenProperties DEF Stacks!ToSet
    <3> QED  BY <3>1 DEF Stacks!Running, Stacks!Terms, Terms, ProgramStacks
  <2>2. ProgramStacks' = [ProgramStacks EXCEPT ![u] = Append(ProgramStacks[u], pid)]
    BY <1>1, <1>4, <1>5 DEF ProgramStacks
  <2> QED  BY <1>1, <2>1, <2>2 DEF Stacks!Execute, Stacks!Programs, PIDs
<1> QED  BY <1>6, <1>7

(* A base shell that halts is there again, in the same slot.               *)
LEMMA RestartKeeps ==
    ASSUME IInv, IInv', Nested, HaltFrame, RestartShell
    PROVE  Nested' /\ ProgramStacks' = ProgramStacks
<1>0. PICK pid \in PIDs :
        /\ IsLowestFree(pid, Without(current_process_idx))
        /\ processes_active' = Without(current_process_idx) \cup {pid}
        /\ parent_PID' = [parent_PID EXCEPT ![pid] = ParentIf(TRUE)]
        /\ active_process_PID' = [active_process_PID EXCEPT ![scheduled_terminal] = pid]
  BY DEF RestartShell, StartProgram
<1>1. /\ shell_count > 0 /\ shell_count' = shell_count
      /\ current_process_idx \in processes_active
      /\ active_process_PID[scheduled_terminal] = current_process_idx
      /\ parent_PID[current_process_idx] = NoProc
      /\ TypeOK /\ TypeOK' /\ BaseShells
  BY Sizes, SMT DEF HaltFrame, RestartShell, Booted, IInv, Coherent, TypeOK
<1>2. pid = current_process_idx
  BY <1>0, <1>1, SameSlot
<1>3. /\ processes_active' = processes_active /\ parent_PID' = parent_PID
      /\ active_process_PID' = active_process_PID
  BY <1>0, <1>1, <1>2 DEF Without, ParentIf, TypeOK
<1>4. ASSUME NEW t \in Terms PROVE StackOf(t)' = StackOf(t) /\ Chained(t)'
  BY <1>1, <1>3 DEF StackOf, Chained, Nested, Up
<1> QED  BY <1>4 DEF Nested, ProgramStacks

(* A halt pops the top program of the scheduled terminal's stack.          *)
LEMMA ReturnPops ==
    ASSUME IInv, IInv', Nested, HaltFrame, ReturnToParent
    PROVE  Nested' /\ Stacks!Finish
<1> DEFINE c == cpu
           u == scheduled_terminal
           q == parent_PID[cpu]
<1>1. /\ shell_count = NTerm /\ shell_count' = shell_count /\ u' = u /\ u \in Terms
      /\ \A t \in Terms : Up(t) /\ Up(t)'
      /\ c \in processes_active /\ c \in PIDs /\ kframe[c] = "none"
      /\ active_process_PID[u] = c /\ current_process_idx = c
      /\ processes_active \in SUBSET PIDs /\ TypeOK /\ TypeOK'
  <2>1. TypeOK /\ TypeOK' /\ Coherent
    BY DEF IInv
  <2>2. Booted /\ UNCHANGED <<shell_count, scheduled_terminal>>
    BY DEF HaltFrame
  <2>3. shell_count = NTerm /\ shell_count' = shell_count /\ u' = u /\ u \in Terms
    BY <2>1, <2>2 DEF Booted, TypeOK
  <2>4. \A t \in Terms : Up(t) /\ Up(t)'
    BY <2>3, Sizes, SMT DEF Up, Terms
  <2>5. /\ c \in processes_active /\ c \in PIDs /\ kframe[c] = "none"
        /\ active_process_PID[u] = c /\ current_process_idx = c
        /\ processes_active \in SUBSET PIDs
    BY <2>1, <2>3, Sizes, SMT DEF Coherent, TypeOK
  <2> QED  BY <2>1, <2>2, <2>3, <2>4, <2>5
<1>2. /\ q # NoProc /\ processes_active' = processes_active \ {c}
      /\ parent_PID' = parent_PID
      /\ active_process_PID' = [active_process_PID EXCEPT ![u] = q]
  BY <1>1 DEF ReturnToParent, Without
<1>3. \A p \in processes_active : parent_PID[p] # c
  <2>1. c # NoProc
    BY <1>1, Sizes
  <2> QED  BY <1>1, <2>1 DEF IInv, ParentsWait
<1>4. ASSUME NEW t \in Terms
      PROVE  /\ Chain(processes_active, parent_PID, active_process_PID[t], StackOf(t))
             /\ \A k \in 1 .. Len(StackOf(t)) : StackOf(t)[k] \in processes_active
             /\ StackOf(t) \in Seq(processes_active) /\ Len(StackOf(t)) \in Nat
  <2>1. Chain(processes_active, parent_PID, active_process_PID[t], StackOf(t))
    BY <1>1 DEF Nested, Chained
  <2>2. StackOf(t) \in Seq(processes_active)
    BY <2>1 DEF Chain
  <2> QED  BY <1>1, <2>1, <2>2, ChainFits, LenProperties
<1>5. ASSUME NEW t \in Terms, t # u PROVE StackOf(t)' = StackOf(t) /\ Chained(t)'
  <2>1. active_process_PID'[t] = active_process_PID[t] /\ active_process_PID[t] # c
    BY <1>1, <1>2, <1>5 DEF IInv, Stacked, TypeOK
  <2> DEFINE s == StackOf(t)
             L == Len(s)
  <2>2. /\ L \in Nat /\ s[L] # c
        /\ \A k \in 1 .. L : s[k] \in processes_active
        /\ \A k \in 1 .. L - 1 : parent_PID[s[k + 1]] = s[k]
    BY <1>4, <2>1 DEF Chain
  <2> HIDE DEF s, L
  <2>3. ASSUME NEW k \in 1 .. L PROVE s[k] # c
    <3>1. CASE k = L
      BY <2>2, <3>1
    <3>2. CASE k # L
      <4>1. k \in 1 .. L - 1 /\ k + 1 \in 1 .. L
        BY <2>2, <3>2
      <4> QED  BY <1>3, <2>2, <4>1
    <3> QED  BY <3>1, <3>2
  <2>4. \A k \in 1 .. Len(StackOf(t)) :
           /\ StackOf(t)[k] \in processes_active'
           /\ parent_PID'[StackOf(t)[k]] = parent_PID[StackOf(t)[k]]
    BY <1>2, <2>2, <2>3 DEF s, L
  <2> QED  BY <1>1, <2>1, <2>4, StackKept
<1>6. ASSUME NEW t \in Terms, t = u
      PROVE  /\ StackOf(t)' = Stacks!Front(StackOf(t)) /\ Chained(t)'
             /\ Len(StackOf(t)) > 1
  <2> DEFINE s == StackOf(t)
             L == Len(s)
             new == SubSeq(s, 1, L - 1)
  <2>1. Chain(processes_active, parent_PID, c, s)
    BY <1>1, <1>4, <1>6
  <2>2. L \in Nat /\ L > 0 /\ \A k \in 1 .. L : s[k] \in processes_active
    BY <1>4, <2>1 DEF Chain
  <2> HIDE DEF L, s
  <2>3. /\ s[L] = c /\ parent_PID[s[1]] = NoProc
        /\ \A k \in 1 .. L - 1 : parent_PID[s[k + 1]] = s[k]
        /\ \A j, k \in 1 .. L : s[j] = s[k] => j = k
    BY <2>1 DEF Chain, L
  <2>4. L > 1 /\ L - 1 \in 1 .. L /\ L \in 1 .. L
    BY <1>2, <2>2, <2>3
  <2>5. q = s[L - 1]
    <3>1. L - 1 \in 1 .. L - 1 /\ (L - 1) + 1 = L
      BY <2>2, <2>4
    <3> QED  BY <2>3, <3>1
  <2>6. \A k \in 1 .. L - 1 : s[k] \in processes_active'
    BY <1>2, <2>2, <2>3, <2>4
  <2>7. /\ new \in Seq(processes_active') /\ Len(new) = L - 1
        /\ \A k \in 1 .. L - 1 : new[k] = s[k]
    <3>1. /\ new \in Seq(processes_active')
          /\ Len(new) = IF 1 <= L - 1 THEN L - 1 - 1 + 1 ELSE 0
          /\ \A k \in 1 .. L - 1 - 1 + 1 : new[k] = s[1 + k - 1]
      BY <2>2, <2>6, SubSeqProperties
    <3> HIDE DEF new
    <3> QED  BY <2>2, <2>4, <3>1
  <2> HIDE DEF new
  <2>8. new[L - 1] = q /\ parent_PID'[new[1]] = NoProc
    BY <1>2, <2>2, <2>3, <2>4, <2>5, <2>7
  <2>9. \A k \in 1 .. (L - 1) - 1 : parent_PID'[new[k + 1]] = new[k]
    BY <1>2, <2>2, <2>3, <2>7
  <2>10. \A j, k \in 1 .. L - 1 : new[j] = new[k] => j = k
    BY <2>2, <2>3, <2>7
  <2>11. active_process_PID'[t] = q
    BY <1>1, <1>2, <1>6 DEF TypeOK
  <2>12. Chain(processes_active', parent_PID', active_process_PID'[t], new)
    BY <2>4, <2>7, <2>8, <2>9, <2>10, <2>11 DEF Chain
  <2>13. StackOf(t)' = new /\ Chained(t)'
    BY <1>1, <2>12, StackIsChain
  <2> QED  BY <2>4, <2>13 DEF new, s, L, Stacks!Front
<1>7. Nested'
  BY <1>5, <1>6 DEF Nested
<1>8. ProgramStacks' = [ProgramStacks EXCEPT ![u] = Stacks!Front(ProgramStacks[u])]
  BY <1>1, <1>5, <1>6 DEF ProgramStacks
<1>9. Len(ProgramStacks[u]) > 1
  BY <1>1, <1>6 DEF ProgramStacks
<1> QED  BY <1>1, <1>7, <1>8, <1>9 DEF Stacks!Finish

(* A boot tick puts the shell of the next terminal on its empty stack.     *)
LEMMA BootBringsUp ==
    ASSUME IInv, IInv', Nested, BootShell
    PROVE  Nested' /\ Stacks!BringUp
<1> DEFINE n == shell_count
<1>0. PICK pid \in PIDs :
        /\ IsLowestFree(pid, processes_active)
        /\ processes_active' = processes_active \cup {pid}
        /\ parent_PID' = [parent_PID EXCEPT ![pid] = ParentIf(TRUE)]
        /\ active_process_PID' = [active_process_PID EXCEPT ![n] = pid]
  BY DEF BootShell, StartProgram
<1>1. /\ ~Booted /\ n \in Terms /\ n \in PIDs /\ n \in Nat /\ n < NTerm
      /\ shell_count' = n + 1 /\ scheduled_terminal' = n
      /\ TypeOK /\ TypeOK' /\ Booting /\ processes_active \in SUBSET PIDs
  <2>1. /\ ~Booted /\ shell_count' = n + 1 /\ scheduled_terminal' = n
        /\ TypeOK /\ TypeOK' /\ Booting
    BY DEF BootShell, IInv
  <2>2. n \in 0 .. NTerm /\ n # NTerm /\ processes_active \in SUBSET PIDs
    BY <2>1 DEF TypeOK, Booted
  <2>3. n \in Terms /\ n \in Nat /\ n < NTerm
    BY <2>2, Sizes, SMT DEF Terms
  <2> QED  BY <2>1, <2>2, <2>3, Sizes
<1>2. pid = n
  BY <1>0, <1>1, BootSlot
<1>3. /\ \A t \in Terms : t # n => (Up(t)' <=> Up(t))
      /\ \A t \in Terms : t = n => Up(t)' /\ ~Up(t)
  <2>1. ~(n < n) /\ \A t \in Nat : t < n + 1 <=> t < n \/ t = n
    BY <1>1
  <2>2. Terms \subseteq Nat
    BY SizesAssumption, SMT DEF Terms
  <2> QED  BY <1>1, <2>1, <2>2 DEF Up
<1>4. /\ n \in processes_active' /\ parent_PID'[n] = NoProc
      /\ active_process_PID'[n] = n
      /\ \A q \in processes_active : parent_PID'[q] = parent_PID[q] /\ q \in processes_active'
      /\ \A t \in Terms : t # n => active_process_PID'[t] = active_process_PID[t]
  <2>1. n \notin processes_active
    BY <1>0, <1>2 DEF IsLowestFree, Free
  <2> QED  BY <1>0, <1>1, <1>2, <2>1 DEF ParentIf, TypeOK
<1>5. ASSUME NEW t \in Terms, t # n PROVE StackOf(t)' = StackOf(t) /\ Chained(t)'
  <2>1. Up(t) => \A k \in 1 .. Len(StackOf(t)) : StackOf(t)[k] \in processes_active
    BY <1>1, ChainFits DEF Nested, Chained
  <2>2. Up(t)' <=> Up(t)
    BY <1>3, <1>5
  <2>3. active_process_PID'[t] = active_process_PID[t]
    BY <1>4, <1>5
  <2> QED  BY <1>1, <1>4, <2>1, <2>2, <2>3, StackKept
<1>6. ASSUME NEW t \in Terms, t = n PROVE StackOf(t)' = << n >> /\ Chained(t)'
  <2>1. << n >> \in Seq(processes_active') /\ Len(<< n >>) = 1 /\ << n >>[1] = n
    <3>1. n \in processes_active'
      BY <1>4
    <3> QED  BY <3>1
  <2> DEFINE s == << n >>
  <2> HIDE DEF s
  <2>2. s \in Seq(processes_active') /\ Len(s) = 1 /\ s[1] = n
    BY <2>1 DEF s
  <2>3. Chain(processes_active', parent_PID', active_process_PID'[t], s)
    BY <1>4, <1>6, <2>2 DEF Chain
  <2>4. StackOf(t)' = s /\ Chained(t)'
    <3>1. Up(t)'
      BY <1>3, <1>6
    <3> QED  BY <1>1, <2>3, <3>1, StackIsChain
  <2> QED  BY <2>4 DEF s
<1>7. Nested'
  BY <1>5, <1>6 DEF Nested
<1>8. ProgramStacks' = [ProgramStacks EXCEPT ![n] = << n >>]
  BY <1>1, <1>5, <1>6 DEF ProgramStacks
<1> QED  BY <1>1, <1>7, <1>8 DEF Stacks!BringUp

(* The steps that write no entry of the table leave the stacks.            *)
LEMMA TableKept ==
    ASSUME Nested, UNCHANGED << processes_active, parent_PID, active_process_PID, shell_count >>
    PROVE  Nested' /\ ProgramStacks' = ProgramStacks
BY DEF Nested, Chained, ProgramStacks, StackOf, Up

(* Every step pushes, pops, brings up a terminal, passes the turn, or      *)
(* changes nothing of the stacks.                                          *)
LEMMA NextRefines ==
    ASSUME IInv, IInv', Nested, [Next]_vars
    PROVE  Nested' /\ [Stacks!Next]_(Stacks!vars)
<1>1. CASE SysExecute
  BY <1>1, ExecutePushes DEF Stacks!Next
<1>2. CASE SysHalt \/ SigquitHalt
  <2>1. HaltFrame /\ Halt
    BY <1>2 DEF SysHalt, SigquitHalt, HaltFrame, SaveContext, IInv, TypeOK, keys
  <2>2. CASE RestartShell
    BY <2>1, <2>2, RestartKeeps DEF HaltFrame, Stacks!vars
  <2>3. CASE ReturnToParent
    BY <2>1, <2>3, ReturnPops DEF Stacks!Next
  <2> QED  BY <2>1, <2>2, <2>3 DEF Halt
<1>3. CASE BootShell
  BY <1>3, BootBringsUp DEF Stacks!Next
<1>4. CASE RoundRobin
  <2>1. /\ UNCHANGED << processes_active, parent_PID, active_process_PID, shell_count >>
        /\ shell_count = NTerm /\ scheduled_terminal' = (scheduled_terminal + 1) % NTerm
    BY <1>4 DEF RoundRobin, NextTerminal, Booted, table
  <2> QED  BY <2>1, TableKept DEF Stacks!PassTurn, Stacks!Next
<1>5. CASE \/ SysExecuteFails \/ Fault \/ Keyboard \/ UNCHANGED vars
           \/ \E t \in Terms : SwitchDisplay(t)
  <2>1. UNCHANGED << processes_active, parent_PID, active_process_PID, shell_count,
                     scheduled_terminal >>
    BY <1>5 DEF SysExecuteFails, Fault, Keyboard, CtrlC, AltF, SwitchDisplay, vars, table
  <2> QED  BY <2>1, TableKept DEF Stacks!vars
<1> QED  BY <1>1, <1>2, <1>3, <1>4, <1>5 DEF Next, Tick

(* Whatever programs, faults, keys and ticks do, the process table is one  *)
(* stack of programs per terminal, for every number of terminals and of    *)
(* slots: the safety part of ImplementsStacks (syscalls.c:43, 178).        *)
THEOREM StacksSafe == Spec => Stacks!Init /\ [][Stacks!Next]_(Stacks!vars)
<1>1. Spec => [](IInv /\ Nested)
  BY InitIInv, NextIInv, InitNested, NextRefines, PTL DEF Spec
<1> QED  BY <1>1, InitNested, NextRefines, PTL DEF Spec

=============================================================================
