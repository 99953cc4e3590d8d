-------------------------------- MODULE Pic --------------------------------
(***************************************************************************)
(* The interrupt controller: two 8259 chips, the slave on line 2 of the    *)
(* master, and the functions of i8259.c that program them.                 *)
(*                                                                         *)
(* A chip is the lines requested (irr), those in service (isr) and those   *)
(* masked (imr).  Of the chips themselves only what the code relies on is  *)
(* here: a request stays until it is taken, a line in service keeps those  *)
(* of its own and of lower priority back, until it is ended by its number. *)
(*                                                                         *)
(* SlaveOnly is not the code: it is send_eoi without the master's half.    *)
(***************************************************************************)
EXTENDS Integers

PIT      == 0
KEYBOARD == 1
CASCADE  == 2
RTC      == 8

Irqs  == {PIT, KEYBOARD, RTC}
Lines == 0 .. 7
Chips == {"master", "slave"}
Pics  == [Chips -> [irr : SUBSET Lines, isr : SUBSET Lines, imr : SUBSET Lines]]

Chip(irq) == IF irq < 8 THEN "master" ELSE "slave"
Line(irq) == irq % 8

-----------------------------------------------------------------------------
enable_irq(pic, irq) == [pic EXCEPT ![Chip(irq)].imr = @ \ {Line(irq)}]

(* The first initialisation word forgets requests and services.            *)
i8259_init ==
    enable_irq([c \in Chips |-> [irr |-> {}, isr |-> {}, imr |-> Lines]], CASCADE)

EndOf(pic, chip, line) == [pic EXCEPT ![chip].isr = @ \ {line}]

SlaveOnly(pic, irq) == EndOf(pic, Chip(irq), Line(irq))
send_eoi(pic, irq) ==
    IF irq >= 8
    THEN EndOf(EndOf(pic, "master", CASCADE), "slave", Line(irq))
    ELSE EndOf(pic, "master", Line(irq))

-----------------------------------------------------------------------------
(* The chips.                                                              *)
Raise(pic, irq)     == [pic EXCEPT ![Chip(irq)].irr = @ \cup {Line(irq)}]
Requested(pic, irq) == Line(irq) \in pic[Chip(irq)].irr

(* The lines a chip would signal, and the one it does.                     *)
Let(chip, irr) == {l \in irr \ chip.imr : \A s \in chip.isr : l < s}
First(lines)   == {l \in lines : \A k \in lines : l <= k}

ToMaster(pic) == pic["master"].irr \cup
                 (IF Let(pic["slave"], pic["slave"].irr) # {} THEN {CASCADE} ELSE {})

Signals(pic, irq) ==
    LET master == First(Let(pic["master"], ToMaster(pic)))
    IN  IF irq < 8
        THEN irq \in master
        ELSE CASCADE \in master /\ Line(irq) \in First(Let(pic["slave"], pic["slave"].irr))

(* The processor takes the interrupt.                                      *)
Serve(pic, chip, line) ==
    [pic EXCEPT ![chip] = [irr |-> @.irr \ {line}, isr |-> @.isr \cup {line}, imr |-> @.imr]]

Take(pic, irq) ==
    IF irq < 8
    THEN Serve(pic, "master", irq)
    ELSE Serve(Serve(pic, "slave", Line(irq)), "master", CASCADE)

=============================================================================
