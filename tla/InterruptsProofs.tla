-------------------------- MODULE InterruptsProofs --------------------------
(***************************************************************************)
(* That a device that waits is let in (LetIn), and that a key does what    *)
(* the keys held down mean (KeysUnderstood), for any keys and any number   *)
(* of them held down.                                                      *)
(*                                                                         *)
(* LetIn says nothing of the handlers, so it is not inductive.  Between    *)
(* two instructions of a program no line is masked or in service because   *)
(* each step of entry unmasks its own and each handler ends exactly what   *)
(* its entry put in service (Unmasked, InService), and a request is there  *)
(* for every code and every tick not yet read (NotForgotten).              *)
(*                                                                         *)
(* KeysUnderstood speaks of the moment a code is read.  It needs that a    *)
(* latch agrees with the keys held down whenever no code of its keys waits *)
(* (Followed).                                                             *)
(***************************************************************************)
EXTENDS Interrupts, TLAPS

(* Only the lines of the three devices are ever requested.                 *)
Wired ==
    /\ pic["master"].irr \subseteq {PIT, KEYBOARD}
    /\ pic["slave"].irr \subseteq {Line(RTC)}

(* What is in service is what the running handler has to end.              *)
InService ==
    /\ pic["master"].isr = IF at = "pit" THEN {PIT}
                           ELSE IF at = "kb" THEN {KEYBOARD}
                           ELSE IF at = "rtc" THEN {CASCADE} ELSE {}
    /\ pic["slave"].isr = IF at = "rtc" THEN {Line(RTC)} ELSE {}

Before(n) ==
    CASE n = 0 -> {"i8259_init"}
      [] n = 1 -> {"i8259_init", "init_keyboard"}
      [] n = 2 -> {"i8259_init", "init_keyboard", "init_rtc"}
      [] n = 3 -> {"i8259_init", "init_keyboard", "init_rtc", "init_pit"}

Unmasked ==
    /\ at \notin Before(0) => CASCADE \notin pic["master"].imr
    /\ at \notin Before(1) => KEYBOARD \notin pic["master"].imr
    /\ at \notin Before(2) => Line(RTC) \notin pic["slave"].imr
    /\ at \notin Before(3) => PIT \notin pic["master"].imr

NotForgotten ==
    /\ code # {} => (KEYBOARD \in pic["master"].irr \/ at = "kb") /\ at # "i8259_init"
    /\ flag => (Line(RTC) \in pic["slave"].irr \/ at = "rtc") /\ at # "i8259_init"

IInv == TypeOK /\ Wired /\ InService /\ Unmasked /\ NotForgotten

-----------------------------------------------------------------------------
(* What the functions on the chips change, line by line.                   *)

USE DEF PIT, KEYBOARD, CASCADE, RTC, Chip, Line, Irqs

LEMMA PicsApart ==
    ASSUME NEW p, p \in Pics
    PROVE  /\ DOMAIN p = Chips
           /\ \A c \in Chips : /\ p[c].irr \subseteq Lines
                               /\ p[c].isr \subseteq Lines
                               /\ p[c].imr \subseteq Lines
  BY DEF Pics, Chips

LEMMA Raised ==
    ASSUME NEW p \in Pics, NEW i \in Irqs
    PROVE  /\ Raise(p, i) \in Pics
           /\ \A c \in Chips : Raise(p, i)[c].isr = p[c].isr /\ Raise(p, i)[c].imr = p[c].imr
           /\ Raise(p, i)["master"].irr = p["master"].irr \cup (IF i < 8 THEN {i} ELSE {})
           /\ Raise(p, i)["slave"].irr = p["slave"].irr \cup (IF i < 8 THEN {} ELSE {0})
  BY DEF Raise, Pics, Chips, Lines

LEMMA Enabled ==
    ASSUME NEW p \in Pics, NEW i \in Irqs \cup {CASCADE}
    PROVE  /\ enable_irq(p, i) \in Pics
           /\ \A c \in Chips : /\ enable_irq(p, i)[c].isr = p[c].isr
                               /\ enable_irq(p, i)[c].irr = p[c].irr
                               /\ enable_irq(p, i)[c].imr \subseteq p[c].imr
           /\ i < 8 => i \notin enable_irq(p, i)["master"].imr
           /\ i = RTC => 0 \notin enable_irq(p, i)["slave"].imr
  BY DEF enable_irq, Pics, Chips, Lines

LEMMA Reset ==
    /\ i8259_init \in Pics
    /\ \A c \in Chips : i8259_init[c].isr = {} /\ i8259_init[c].irr = {}
    /\ CASCADE \notin i8259_init["master"].imr
  BY DEF i8259_init, enable_irq, Pics, Chips, Lines

LEMMA Ended ==
    ASSUME NEW p \in Pics, NEW i \in Irqs
    PROVE  /\ send_eoi(p, i) \in Pics
           /\ \A c \in Chips : send_eoi(p, i)[c].irr = p[c].irr /\ send_eoi(p, i)[c].imr = p[c].imr
           /\ send_eoi(p, i)["master"].isr = p["master"].isr \ (IF i < 8 THEN {i} ELSE {CASCADE})
           /\ send_eoi(p, i)["slave"].isr = p["slave"].isr \ (IF i < 8 THEN {} ELSE {0})
  BY DEF send_eoi, EndOf, Pics, Chips, Lines

LEMMA Served ==
    ASSUME NEW p \in Pics, NEW c \in Chips, NEW l \in Lines
    PROVE  /\ Serve(p, c, l) \in Pics
           /\ \A d \in Chips : Serve(p, c, l)[d].imr = p[d].imr
           /\ \A d \in Chips \ {c} : Serve(p, c, l)[d] = p[d]
           /\ Serve(p, c, l)[c].irr = p[c].irr \ {l}
           /\ Serve(p, c, l)[c].isr = p[c].isr \cup {l}
  BY DEF Serve, Pics

LEMMA Taken ==
    ASSUME NEW p \in Pics, NEW i \in Irqs
    PROVE  /\ Take(p, i) \in Pics
           /\ \A c \in Chips : Take(p, i)[c].imr = p[c].imr
           /\ Take(p, i)["master"].irr = p["master"].irr \ (IF i < 8 THEN {i} ELSE {CASCADE})
           /\ Take(p, i)["master"].isr = p["master"].isr \cup (IF i < 8 THEN {i} ELSE {CASCADE})
           /\ Take(p, i)["slave"].irr = p["slave"].irr \ (IF i < 8 THEN {} ELSE {0})
           /\ Take(p, i)["slave"].isr = p["slave"].isr \cup (IF i < 8 THEN {} ELSE {0})
<1>1. CASE i < 8
  BY <1>1, Served DEF Take, Chips, Lines
<1>2. CASE i = RTC
  <2>1. Serve(p, "slave", 0) \in Pics /\ Take(p, i) = Serve(Serve(p, "slave", 0), "master", CASCADE)
    BY <1>2, Served DEF Take, Chips, Lines
  <2>2. QED
    BY <1>2, <2>1, Served DEF Chips, Lines
<1>3. QED
  BY <1>1, <1>2

-----------------------------------------------------------------------------
(* The outcome of a code is one of the effects.                            *)

LEMMA OutcomesTyped ==
    ASSUME NEW l \in Latches, NEW c \in [key : AllKeys, down : BOOLEAN], NEW r \in BOOLEAN
    PROVE  Outcomes(l, c, r) \subseteq Effects /\ Latched(l, c, r) \in Latches
<1>1. Latched(l, c, r) \in Latches
  BY DEF Latched, Latches, After
<1>2. \A k \in Letters \cup Symbols \cup {Star} : Characters(l, k) \subseteq Effects
  <2> SUFFICES ASSUME NEW k \in Letters \cup Symbols \cup {Star} PROVE Characters(l, k) \subseteq Effects
    OBVIOUS
  <2>1. \A s \in BOOLEAN : Type(k, s) \in Effects
    BY DEF Effects
  <2>2. Nothing \in Effects
    BY DEF Effects
  <2>3. Shifted(l, k) \in BOOLEAN
    BY DEF Shifted, Latches
  <2>4. QED
    BY <2>1, <2>2, <2>3 DEF Characters
<1>3. Outcomes(l, c, r) \subseteq Effects
  BY <1>2 DEF Outcomes, Effects
<1>4. QED
  BY <1>1, <1>3

-----------------------------------------------------------------------------
LEMMA NothingTyped == Nothing \in Effects
  BY DEF Effects

LEMMA InitIInv == Init => IInv
<1> SUFFICES ASSUME Init PROVE IInv
  OBVIOUS
<1>1. pic \in Pics
  BY DEF Init, Pics
<1>2. \A c \in Chips : pic[c].irr = {} /\ pic[c].isr = {} /\ pic[c].imr = {}
  BY DEF Init
<1>3. latches \in Latches
  BY DEF Init, Open, Latches
<1>4. TypeOK
  BY <1>1, <1>3, NothingTyped DEF Init, TypeOK, Starting
<1>5. Wired /\ InService /\ Unmasked /\ NotForgotten
  BY <1>2 DEF Init, Wired, InService, Chips, Unmasked, Before, NotForgotten
<1>6. QED
  BY <1>4, <1>5 DEF IInv

LEMMA NextIInv == IInv /\ [Next]_vars => IInv'
<1> SUFFICES ASSUME IInv, [Next]_vars PROVE IInv'
  OBVIOUS
<1> USE DEF Chips
<1>0. pic \in Pics /\ TypeOK /\ Wired /\ InService /\ Unmasked /\ NotForgotten
  BY DEF IInv, TypeOK
<1>1. CASE StartPic
  <2>1. TypeOK' /\ Wired'
    BY <1>0, <1>1, Reset DEF StartPic, SetUp, keyboard, TypeOK, Starting, Wired
  <2>2. InService' /\ Unmasked' /\ NotForgotten'
    BY <1>0, <1>1, Reset DEF StartPic, SetUp, keyboard, InService, Unmasked, Before, NotForgotten
  <2>3. QED
    BY <2>1, <2>2 DEF IInv
<1>2. CASE StartKeyboard
  <2>1. TypeOK' /\ Wired'
    BY <1>0, <1>2, Enabled DEF StartKeyboard, SetUp, keyboard, TypeOK, Starting, Wired
  <2>2. InService' /\ Unmasked' /\ NotForgotten'
    BY <1>0, <1>2, Enabled
       DEF StartKeyboard, SetUp, keyboard, InService, Unmasked, Before, NotForgotten
  <2>3. QED
    BY <2>1, <2>2 DEF IInv
<1>3. CASE StartRtc
  <2>1. TypeOK' /\ Wired'
    BY <1>0, <1>3, Enabled DEF StartRtc, SetUp, keyboard, TypeOK, Starting, Wired
  <2>2. InService' /\ Unmasked' /\ NotForgotten'
    BY <1>0, <1>3, Enabled
       DEF StartRtc, SetUp, keyboard, InService, Unmasked, Before, NotForgotten
  <2>3. QED
    BY <2>1, <2>2 DEF IInv
<1>4. CASE StartPit
  <2>1. TypeOK' /\ Wired'
    BY <1>0, <1>4, Enabled DEF StartPit, SetUp, keyboard, TypeOK, Starting, Wired
  <2>2. InService' /\ Unmasked' /\ NotForgotten'
    BY <1>0, <1>4, Enabled
       DEF StartPit, SetUp, keyboard, InService, Unmasked, Before, NotForgotten
  <2>3. QED
    BY <2>1, <2>2 DEF IInv
<1>5. CASE StartSti
  BY <1>0, <1>5 DEF StartSti, SetUp, keyboard, IInv, TypeOK, Wired, InService, Unmasked, Before,
                    NotForgotten
<1>6. CASE PitTick
  <2>1. TypeOK' /\ Wired'
    BY <1>0, <1>6, Raised DEF PitTick, keyboard, TypeOK, Wired
  <2>2. InService' /\ Unmasked' /\ NotForgotten'
    BY <1>0, <1>6, Raised DEF PitTick, keyboard, InService, Unmasked, Before, NotForgotten
  <2>3. QED
    BY <2>1, <2>2 DEF IInv
<1>7. CASE RtcTick
  <2>1. TypeOK' /\ Wired'
    BY <1>0, <1>7, Raised DEF RtcTick, keyboard, TypeOK, Wired
  <2>2. InService' /\ Unmasked' /\ NotForgotten'
    BY <1>0, <1>7, Raised DEF RtcTick, keyboard, InService, Unmasked, Before, NotForgotten
  <2>3. QED
    BY <2>1, <2>2 DEF IInv
<1>8. CASE Key
  <2>1. TypeOK' /\ Wired'
    BY <1>0, <1>8, Raised DEF Key, Codes, TypeOK, Wired
  <2>2. InService' /\ Unmasked' /\ NotForgotten'
    BY <1>0, <1>8, Raised DEF Key, InService, Unmasked, Before, NotForgotten
  <2>3. QED
    BY <2>1, <2>2 DEF IInv
<1>9. CASE EnterPit
  <2>1. TypeOK' /\ Wired'
    BY <1>0, <1>9, Taken DEF EnterPit, Enter, keyboard, TypeOK, Handling, Wired
  <2>2. InService' /\ Unmasked' /\ NotForgotten'
    BY <1>0, <1>9, Taken DEF EnterPit, Enter, keyboard, InService, Unmasked, Before, NotForgotten
  <2>3. QED
    BY <2>1, <2>2 DEF IInv
<1>10. CASE EnterKeyboard
  <2>1. TypeOK' /\ Wired'
    BY <1>0, <1>10, Taken DEF EnterKeyboard, Enter, keyboard, TypeOK, Handling, Wired
  <2>2. InService' /\ Unmasked' /\ NotForgotten'
    BY <1>0, <1>10, Taken DEF EnterKeyboard, Enter, keyboard, InService, Unmasked, Before, NotForgotten
  <2>3. QED
    BY <2>1, <2>2 DEF IInv
<1>11. CASE EnterRtc
  <2>1. TypeOK' /\ Wired'
    BY <1>0, <1>11, Taken DEF EnterRtc, Enter, keyboard, TypeOK, Handling, Wired
  <2>2. InService' /\ Unmasked' /\ NotForgotten'
    BY <1>0, <1>11, Taken DEF EnterRtc, Enter, keyboard, InService, Unmasked, Before, NotForgotten
  <2>3. QED
    BY <2>1, <2>2 DEF IInv
<1>12. CASE pit_handler
  <2>1. TypeOK' /\ Wired'
    BY <1>0, <1>12, Ended DEF pit_handler, TypeOK, Wired
  <2>2. InService' /\ Unmasked' /\ NotForgotten'
    BY <1>0, <1>12, Ended DEF pit_handler, InService, Unmasked, Before, NotForgotten
  <2>3. QED
    BY <2>1, <2>2 DEF IInv
<1>13. CASE kb_handler
  <2>1. PICK c \in code : /\ latches' = Latched(latches, c, reading)
                          /\ effect' \in Outcomes(latches, c, reading)
                          /\ muddled' = Muddle(c, reading)
    BY <1>13 DEF kb_handler
  <2>2. c \in [key : AllKeys, down : BOOLEAN] /\ latches \in Latches /\ reading \in BOOLEAN
    BY <1>0, <2>1, InterruptsAssumption DEF TypeOK, Codes
  <2>3. latches' \in Latches /\ effect' \in Effects
    BY <2>1, <2>2, OutcomesTyped
  <2>4. muddled' \subseteq DOMAIN Kinds
    BY <2>1 DEF Muddle
  <2>5. TypeOK' /\ Wired'
    BY <1>0, <1>13, <2>3, <2>4, Ended DEF kb_handler, TypeOK, Handling, Wired
  <2>6. InService' /\ Unmasked' /\ NotForgotten'
    BY <1>0, <1>13, Ended DEF kb_handler, InService, Unmasked, Before, NotForgotten
  <2>7. QED
    BY <2>5, <2>6 DEF IInv
<1>14. CASE rtc_handler
  <2>1. TypeOK' /\ Wired'
    BY <1>0, <1>14, Ended, NothingTyped DEF rtc_handler, TypeOK, Wired
  <2>2. InService' /\ Unmasked' /\ NotForgotten'
    BY <1>0, <1>14, Ended DEF rtc_handler, InService, Unmasked, Before, NotForgotten
  <2>3. QED
    BY <2>1, <2>2 DEF IInv
<1>15. CASE Read \/ Cli \/ Sti
  <2>1. UNCHANGED <<pic, at, code, flag, latches, effect, held, muddled>>
    BY <1>15 DEF Read, Cli, Sti, keyboard
  <2>2. on' \in BOOLEAN /\ reading' \in BOOLEAN
    BY <1>0, <1>15 DEF Read, Cli, Sti, keyboard, TypeOK
  <2>3. TypeOK'
    BY <1>0, <2>1, <2>2 DEF TypeOK
  <2>4. Wired' /\ InService' /\ Unmasked' /\ NotForgotten'
    BY <1>0, <2>1 DEF Wired, InService, Unmasked, Before, NotForgotten
  <2>5. QED
    BY <2>3, <2>4 DEF IInv
<1>16. CASE UNCHANGED vars
  BY <1>0, <1>16 DEF vars, IInv, TypeOK, Wired, InService, Unmasked, Before, NotForgotten
<1>17. QED
  BY <1>1, <1>2, <1>3, <1>4, <1>5, <1>6, <1>7, <1>8, <1>9, <1>10, <1>11, <1>12, <1>13, <1>14,
     <1>15, <1>16 DEF Next, Start, Devices, Handle

LEMMA IInvLetIn == IInv => LetIn
<1> SUFFICES ASSUME IInv, NEW irq \in Irqs, LeftTime(irq), Waiting(irq) PROVE Signals(pic, irq)
  BY DEF LetIn
<1> USE DEF Chips
<1>1. at = "program" /\ \A i \in Irqs : i < irq => ~Requested(pic, i)
  BY DEF LeftTime
<1>2. Requested(pic, irq)
  <2>1. CASE irq = PIT
    BY <2>1 DEF Waiting
  <2>2. CASE irq = KEYBOARD
    BY <1>1, <2>2 DEF Waiting, IInv, NotForgotten, Requested
  <2>3. CASE irq = RTC
    BY <1>1, <2>3 DEF Waiting, IInv, NotForgotten, Requested
  <2>4. QED
    BY <2>1, <2>2, <2>3
<1>3. /\ pic["master"].isr = {} /\ pic["slave"].isr = {}
      /\ PIT \notin pic["master"].imr /\ KEYBOARD \notin pic["master"].imr
      /\ CASCADE \notin pic["master"].imr /\ 0 \notin pic["slave"].imr
      /\ pic["master"].irr \subseteq {PIT, KEYBOARD} /\ pic["slave"].irr \subseteq {0}
  BY <1>1 DEF IInv, InService, Unmasked, Before, Wired
<1>4. ToMaster(pic) \subseteq {PIT, KEYBOARD, CASCADE}
  BY <1>3 DEF ToMaster
<1>5. CASE irq < 8
  <2>1. irq \in ToMaster(pic)
    BY <1>2, <1>5 DEF ToMaster, Requested
  <2>2. \A l \in ToMaster(pic) : irq <= l
    BY <1>1, <1>4, <1>5 DEF ToMaster, Requested
  <2>3. Let(pic["master"], ToMaster(pic)) = ToMaster(pic)
    BY <1>3, <1>4 DEF Let
  <2>4. QED
    BY <1>5, <2>1, <2>2, <2>3 DEF Signals, First
<1>6. CASE irq = RTC
  <2>1. pic["master"].irr = {}
    BY <1>1, <1>3, <1>6 DEF Requested
  <2>2. pic["slave"].irr = {0}
    BY <1>2, <1>3, <1>6 DEF Requested
  <2>3. Let(pic["slave"], pic["slave"].irr) = {0}
    BY <1>3, <2>2 DEF Let
  <2>4. ToMaster(pic) = {CASCADE}
    BY <2>1, <2>3 DEF ToMaster
  <2>5. Let(pic["master"], ToMaster(pic)) = {CASCADE}
    BY <1>3, <2>4 DEF Let
  <2>6. QED
    BY <1>6, <2>3, <2>5 DEF Signals, First
<1>7. QED
  BY <1>5, <1>6

(* AlwaysTyped: the state has its types.                                   *)
THEOREM AlwaysTyped == Spec => []TypeOK
<1>1. IInv => TypeOK
  BY DEF IInv
<1>2. QED
  BY InitIInv, NextIInv, <1>1, PTL DEF Spec

(* AlwaysLetIn (i8259.c, idt.c 89-500, rtc.c 43-69): between two           *)
(* instructions of a program with interrupts on, a device that waits is    *)
(* signalled unless one of higher priority asks.                           *)
THEOREM AlwaysLetIn == Spec => []LetIn
<1>1. QED
  BY InitIInv, NextIInv, IInvLetIn, PTL DEF Spec

-----------------------------------------------------------------------------
(* A latch that is not lost says whether a key of its kind is held down,   *)
(* as soon as the code of the last such key has been handled.  That a key  *)
(* whose code waits went down is to be seen from what is held.             *)
Followed ==
    /\ \A c \in code : c.down <=> c.key \in held
    /\ \A kind \in DOMAIN Kinds :
          \/ kind \in muddled
          \/ \E c \in code : c.key \in Kinds[kind]
          \/ latches[kind] <=> Holds(kind)

LEMMA KindsOfKeys ==
    /\ DOMAIN Kinds = {"shift", "ctrl", "alt"}
    /\ Kinds["shift"] = Shifts /\ Kinds["ctrl"] = Ctrls /\ Kinds["alt"] = Alts
    /\ \A k \in Functions \cup Letters \cup Symbols \cup {Star, "caps"} :
          k \notin Shifts /\ k \notin Ctrls /\ k \notin Alts
    /\ \A k \in Shifts : k \notin Ctrls /\ k \notin Alts
    /\ \A k \in Ctrls : k \notin Shifts /\ k \notin Alts
    /\ \A k \in Alts : k \notin Shifts /\ k \notin Ctrls
  BY DEF Kinds, Shifts, Ctrls, Alts, Functions, Letters, Symbols, Listed, Unlisted, Star

LEMMA LatchOf ==
    ASSUME NEW l \in Latches, NEW c \in [key : AllKeys, down : BOOLEAN], NEW r \in BOOLEAN,
           NEW kind \in DOMAIN Kinds
    PROVE  Latched(l, c, r)[kind] = IF c.key \in Kinds[kind] /\ (kind = "shift" => r)
                                    THEN c.down ELSE l[kind]
  BY KindsOfKeys DEF Latched, After, Latches

LEMMA NextFollowed == IInv /\ Followed /\ [Next]_vars => Followed'
<1> SUFFICES ASSUME IInv, Followed, [Next]_vars PROVE Followed'
  OBVIOUS
<1>1. CASE UNCHANGED <<code, latches, held, muddled>>
  BY <1>1 DEF Followed, Holds
<1>2. CASE Key
  <2>1. PICK c \in Codes : /\ code' = {c}
                           /\ held' = IF c.down THEN held \cup {c.key} ELSE held \ {c.key}
    BY <1>2 DEF Key
  <2>2. code = {} /\ UNCHANGED <<latches, muddled>> /\ c.down \in BOOLEAN
    BY <1>2 DEF Key, Codes
  <2>3. \A kind \in DOMAIN Kinds : c.key \in Kinds[kind] \/ (Holds(kind)' <=> Holds(kind))
    BY <2>1 DEF Holds
  <2>4. QED
    BY <2>1, <2>2, <2>3 DEF Followed
<1>3. CASE kb_handler
  <2>1. PICK c \in code : latches' = Latched(latches, c, reading) /\ muddled' = Muddle(c, reading)
    BY <1>3 DEF kb_handler
  <2>2. /\ c \in [key : AllKeys, down : BOOLEAN] /\ latches \in Latches /\ reading \in BOOLEAN
        /\ code = {c} /\ code' = {} /\ held' = held
    BY <1>3, <2>1, InterruptsAssumption DEF kb_handler, IInv, TypeOK, Codes
  <2>3. ASSUME NEW kind \in DOMAIN Kinds, kind \notin muddled'
        PROVE  latches'[kind] <=> Holds(kind)
    <3>1. latches'[kind] = IF c.key \in Kinds[kind] /\ (kind = "shift" => reading)
                           THEN c.down ELSE latches[kind]
      BY <2>1, <2>2, LatchOf
    <3>2. CASE c.key \in Kinds[kind]
      <4>1. (kind = "shift" => reading) /\ (c.down \/ held \cap Kinds[kind] = {})
        BY <2>1, <2>3, <3>2 DEF Muddle
      <4>2. QED
        BY <2>2, <3>1, <3>2, <4>1 DEF Followed, Holds
    <3>3. CASE c.key \notin Kinds[kind]
      <4>1. kind \notin muddled
        BY <2>1, <2>3, <3>3 DEF Muddle
      <4>2. QED
        BY <2>2, <3>1, <3>3, <4>1 DEF Followed
    <3>4. QED
      BY <3>2, <3>3
  <2>4. QED
    BY <2>2, <2>3 DEF Followed, Holds
<1>4. QED
  BY <1>1, <1>2, <1>3
     DEF Next, Start, StartPic, StartKeyboard, StartRtc, StartPit, StartSti, SetUp, keyboard,
         Devices, PitTick, RtcTick, EnterPit, EnterKeyboard, EnterRtc, Enter, Handle,
         pit_handler, rtc_handler, Read, Cli, Sti, vars

LEMMA OnlyKbHandles ==
    ASSUME [Next]_vars, at = "kb", at' = "kb_rtc"
    PROVE  kb_handler
  BY DEF Next, Start, StartPic, StartKeyboard, StartRtc, StartPit, StartSti, SetUp,
         Devices, PitTick, RtcTick, Key, EnterPit, EnterKeyboard, EnterRtc, Enter, Handle,
         pit_handler, rtc_handler, Read, Cli, Sti, vars

(* Caps lock turns shift round for the letters, and for no other key that  *)
(* is not odd.                                                             *)
LEMMA CharacterOf ==
    ASSUME IInv, latches.shift <=> Holds("shift"), NEW k,
           k \in Letters \/ (k \in Symbols /\ (k \in Listed \/ ~latches.cap))
    PROVE  Characters(latches, k) = {Character(k)}
<1>1. k # Star /\ (k \in Letters => k \notin Listed)
  BY DEF Letters, Listed, Unlisted, Symbols, Star
<1>2. latches.shift \in BOOLEAN /\ latches.cap \in BOOLEAN /\ Holds("shift") \in BOOLEAN
  BY DEF IInv, TypeOK, Latches, Holds
<1>3. Holds("shift") = latches.shift
  <2> HIDE DEF Holds
  <2>1. QED
    BY <1>2, Zenon
<1>4. Character(k) = Type(k, IF latches.cap /\ k \in Letters THEN ~latches.shift ELSE latches.shift)
  BY <1>3, Zenon DEF Character
<1>5. Shifted(latches, k) = IF latches.cap /\ k \in Letters THEN ~latches.shift ELSE latches.shift
  <2>1. (latches.cap /\ k \notin Listed) <=> (latches.cap /\ k \in Letters)
    BY <1>1 DEF Symbols
  <2>2. QED
    BY <2>1, Zenon DEF Shifted
<1>6. QED
  BY <1>1, <1>4, <1>5, Zenon DEF Characters

LEMMA StepUnderstood ==
    ASSUME IInv, Followed, [Next]_vars, NEW c \in code,
           at = "kb", at' = "kb_rtc", c.down, muddled \cap Matter(c.key) = {}, ~Odd(c.key)
    PROVE  effect' = Meaning(c.key)
<1> DEFINE k == c.key
<1>1. effect' \in Outcomes(latches, c, reading) /\ code = {c} /\ c.down
  BY OnlyKbHandles DEF kb_handler, IInv, TypeOK
<1>2. k \in AllKeys /\ latches \in Latches /\ reading \in BOOLEAN
  BY <1>1, InterruptsAssumption DEF IInv, TypeOK, Codes
<1>3. ASSUME NEW kind \in Matter(k), k \notin Kinds[kind] PROVE latches[kind] <=> Holds(kind)
  BY <1>1, <1>3, KindsOfKeys DEF Followed, Matter
<1> HIDE DEF k
<1>4. CASE k \in Functions
  <2>1. latches.alt <=> Holds("alt")
    BY <1>3, <1>4, KindsOfKeys DEF Matter
  <2>2. k # "b" /\ k # "c" /\ k # "l" /\ k \notin Letters \cup Symbols \cup {Star}
    BY <1>4 DEF Functions, Letters, Symbols, Listed, Unlisted, Star
  <2>3. Outcomes(latches, c, reading) = IF latches.alt THEN {Display(k)} ELSE {Nothing}
    BY <1>1, <1>2, <1>4, <2>2 DEF Outcomes, k, Latches
  <2>4. QED
    BY <1>1, <1>4, <2>1, <2>3 DEF Meaning, k
<1>5. CASE k \in Letters
  <2>1. (latches.ctrl <=> Holds("ctrl")) /\ (latches.shift <=> Holds("shift"))
    <3>1. k \notin Functions /\ Matter(k) = {"shift", "ctrl"}
      BY <1>5 DEF Matter, Letters, Functions
    <3>2. QED
      BY <1>3, <1>5, <3>1, KindsOfKeys
  <2>2. Characters(latches, k) = {Character(k)}
    BY <1>5, <2>1, CharacterOf
  <2>3. QED
    <3>1. CASE k \in {"b", "c", "l"} /\ Holds("ctrl")
      BY <1>1, <2>1, <3>1 DEF Outcomes, Meaning, k, Functions, Letters
    <3>2. CASE k \notin {"b", "c", "l"} \/ ~Holds("ctrl")
      BY <1>1, <1>2, <1>5, <2>1, <2>2, <3>2 DEF Outcomes, Meaning, k, Functions, Letters, Latches
    <3>3. QED
      BY <3>1, <3>2
<1>6. CASE k \in Symbols
  <2>1. latches.shift <=> Holds("shift")
    <3>1. k \notin Functions /\ k \notin Letters
      BY <1>6 DEF Symbols, Listed, Unlisted, Letters, Functions
    <3>2. QED
      BY <1>3, <1>6, <3>1, KindsOfKeys DEF Matter
  <2>2. Characters(latches, k) = {Character(k)}
    <3>1. k \in Listed \/ ~latches.cap
      BY <1>6 DEF Odd, Symbols, k
    <3>2. QED
      BY <1>6, <2>1, <3>1, CharacterOf
  <2>3. QED
    BY <1>1, <1>6, <2>2 DEF Outcomes, Meaning, k, Letters, Functions, Symbols, Listed, Unlisted
<1>7. CASE k \in {"caps"} \cup Modifiers
  BY <1>1, <1>7 DEF Outcomes, Meaning, k, Letters, Functions, Symbols, Listed, Unlisted, Star,
                    Modifiers, Shifts, Ctrls, Alts
<1>8. QED
  BY <1>2, <1>4, <1>5, <1>6, <1>7 DEF AllKeys, Odd, k

(* AlwaysUnderstood (idt.c 109-498): kb_handler does what the keys held    *)
(* down mean, for any set of keys and any number of them held down.        *)
THEOREM AlwaysUnderstood == Spec => KeysUnderstood
<1>1. Init => Followed
  BY DEF Init, Followed, Holds, Open, Kinds
<1>2. IInv /\ Followed /\ [Next]_vars =>
        [\A c \in code :
            /\ at = "kb" /\ at' = "kb_rtc"
            /\ c.down
            /\ muddled \cap Matter(c.key) = {}
            /\ ~Odd(c.key)
            => effect' = Meaning(c.key)]_vars
  BY StepUnderstood
<1>3. QED
  BY InitIInv, NextIInv, NextFollowed, <1>1, <1>2, PTL DEF Spec, KeysUnderstood

=============================================================================
