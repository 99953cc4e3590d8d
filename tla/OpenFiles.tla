----------------------------- MODULE OpenFiles -----------------------------
(***************************************************************************)
(* What the descriptor calls promise the program that makes them: a table  *)
(* of open files in which open and close are single steps, a descriptor is *)
(* read from where the last read of it stopped, and nothing survives the   *)
(* program.                                                                *)
(***************************************************************************)
EXTENDS Integers

CONSTANTS
    Descriptors,    \* what open may return
    Kinds,          \* kinds of file
    Positions       \* how far a file may have been read

Closed == [kind |-> "closed", pos |-> 0]

VARIABLES
    alive,      \* a program runs
    file        \* file[d]: what is open at d, and how far it has been read

vars == << alive, file >>

Nothing == [d \in Descriptors |-> Closed]

Init == ~alive /\ file = Nothing

Start == ~alive /\ alive' = TRUE /\ UNCHANGED file

(* The lowest free descriptor is taken.                                    *)
Open(d) ==
    /\ alive
    /\ file[d] = Closed
    /\ file'[d].kind \in Kinds
    /\ file' = [file EXCEPT ![d] = [kind |-> file'[d].kind, pos |-> 0]]
    /\ \A e \in Descriptors : e < d => file[e] # Closed
    /\ UNCHANGED alive

Close(d) ==
    /\ alive
    /\ file[d] # Closed
    /\ file' = [file EXCEPT ![d] = Closed]
    /\ UNCHANGED alive

Read(d) ==
    /\ alive
    /\ file[d] # Closed
    /\ file'[d].pos \in Positions
    /\ file' = [file EXCEPT ![d].pos = file'[d].pos]
    /\ UNCHANGED alive

Exit == alive /\ alive' = FALSE /\ file' = Nothing

Next ==
    \/ Start
    \/ \E d \in Descriptors : Open(d)
    \/ \E d \in Descriptors : Close(d)
    \/ \E d \in Descriptors : Read(d)
    \/ Exit

Spec == Init /\ [][Next]_vars

=============================================================================
