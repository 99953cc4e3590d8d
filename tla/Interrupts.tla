----------------------------- MODULE Interrupts -----------------------------
(***************************************************************************)
(* The devices, the two chips of the interrupt controller and the three    *)
(* handlers: how the kernel sets them up (entry, kernel.c), how a request  *)
(* of the timer, the keyboard or the clock gets to its handler and what    *)
(* the handler must do for the next one to get there, and what             *)
(* kb_handler makes of the keys that are held down.                        *)
(*                                                                         *)
(* The keyboard's controller holds one code until kb_handler reads it, the *)
(* clock keeps still until its register C is read.  No key is pressed      *)
(* between the boot loader's last instruction and i8259_init.              *)
(***************************************************************************)
EXTENDS Pic, Keys, FiniteSets

CONSTANTS
    Pressed,    \* the keys the user has a use for
    MaxHeld     \* how many of them he holds down at a time

ASSUME InterruptsAssumption == Pressed \subseteq AllKeys /\ MaxHeld \in Nat

VARIABLES
    pic,        \* the chips
    on,         \* (IF) does the processor take interrupts?
    at,         \* the step of entry, the handler that runs, or "program"
    code,       \* the code in the keyboard's controller, if any
    flag,       \* has the clock a tick in register C?
    latches,    \* shift, cap, ctrl and alt
    reading,    \* TERMINAL_READ_FLAG of the terminal displayed
    effect,     \* what kb_handler has just brought about
    held,       \* (history) the keys held down, as of the last code
    muddled     \* (history) the latches that can no longer follow the keys

vars == <<pic, on, at, code, flag, latches, reading, effect, held, muddled>>

Starting == {"i8259_init", "init_keyboard", "init_rtc", "init_pit", "sti"}
Handling == {"pit", "kb", "kb_rtc", "rtc"}
Codes    == [key : Pressed, down : BOOLEAN]
Kinds    == [shift |-> Shifts, ctrl |-> Ctrls, alt |-> Alts]

Init ==
    /\ pic = [c \in Chips |-> [irr |-> {}, isr |-> {}, imr |-> {}]]
    /\ on = FALSE
    /\ at = "i8259_init"
    /\ code = {}
    /\ flag = FALSE
    /\ latches = Open
    /\ reading = FALSE
    /\ effect = Nothing
    /\ held = {}
    /\ muddled = {}

-----------------------------------------------------------------------------
(* entry: the controller, the devices' lines one by one, sti.              *)
keyboard == <<code, latches, reading, effect, held, muddled>>

SetUp(from, to, chips) == at = from /\ at' = to /\ pic' = chips /\ UNCHANGED <<flag, keyboard>>

StartPic      == SetUp("i8259_init", "init_keyboard", i8259_init) /\ UNCHANGED on
StartKeyboard == SetUp("init_keyboard", "init_rtc", enable_irq(pic, KEYBOARD)) /\ UNCHANGED on
StartRtc      == SetUp("init_rtc", "init_pit", enable_irq(pic, RTC)) /\ UNCHANGED on
StartPit      == SetUp("init_pit", "sti", enable_irq(pic, PIT)) /\ UNCHANGED on
StartSti      == SetUp("sti", "program", pic) /\ on' = TRUE

-----------------------------------------------------------------------------
(* The devices.  The clock asks from init_rtc on.                          *)
PitTick ==
    /\ pic' = Raise(pic, PIT)
    /\ UNCHANGED <<on, at, flag, keyboard>>

RtcTick ==
    /\ at \notin {"i8259_init", "init_keyboard", "init_rtc"}
    /\ ~flag
    /\ flag' = TRUE
    /\ pic' = Raise(pic, RTC)
    /\ UNCHANGED <<on, at, keyboard>>

(* A key goes down, repeats, or goes up.                                   *)
Key ==
    /\ at # "i8259_init"
    /\ code = {}
    /\ \E c \in Codes :
          /\ ~c.down => c.key \in held
          /\ code' = {c}
          /\ held' = IF c.down THEN held \cup {c.key} ELSE held \ {c.key}
    /\ Cardinality(held') <= MaxHeld
    /\ pic' = Raise(pic, KEYBOARD)
    /\ UNCHANGED <<on, at, flag, latches, reading, effect, muddled>>

-----------------------------------------------------------------------------
(* The gates are interrupt gates: a handler starts with interrupts off.            *)
Enter(irq, handler) ==
    /\ at = "program" /\ on
    /\ Signals(pic, irq)
    /\ pic' = Take(pic, irq)
    /\ on' = FALSE
    /\ at' = handler
    /\ UNCHANGED <<flag, keyboard>>

EnterPit      == Enter(PIT, "pit")
EnterKeyboard == Enter(KEYBOARD, "kb")
EnterRtc      == Enter(RTC, "rtc")

(* Every way through pit_handler and schedule sends the end of interrupt.  *)
(* It may display another terminal, and go on inside a system call.        *)
pit_handler ==
    /\ at = "pit"
    /\ pic' = send_eoi(pic, PIT)
    /\ at' = "program"
    /\ on' \in BOOLEAN
    /\ reading' \in BOOLEAN
    /\ UNCHANGED <<code, flag, latches, effect, held, muddled>>

(* A latch is lost where its key's code is not looked at, and where one    *)
(* key of a kind goes up with the other still down, until the next code.   *)
Muddle(c, seen) ==
    {kind \in DOMAIN Kinds :
        IF c.key \in Kinds[kind]
        THEN (kind = "shift" /\ ~seen) \/ (~c.down /\ held \cap Kinds[kind] # {})
        ELSE kind \in muddled}

(* kb_call does not return: it runs on into rtc_call (asm_macro.S).        *)
kb_handler ==
    /\ at = "kb"
    /\ \E c \in code :
          /\ latches' = Latched(latches, c, reading)
          /\ effect' \in Outcomes(latches, c, reading)
          /\ muddled' = Muddle(c, reading)
    /\ code' = {}
    /\ pic' = send_eoi(pic, KEYBOARD)
    /\ at' = "kb_rtc"
    /\ UNCHANGED <<on, flag, reading, held>>

rtc_handler ==
    /\ at \in {"rtc", "kb_rtc"}
    /\ flag' = FALSE
    /\ pic' = send_eoi(pic, RTC)
    /\ at' = "program"
    /\ on' = TRUE
    /\ effect' = Nothing
    /\ UNCHANGED <<code, latches, reading, held, muddled>>

-----------------------------------------------------------------------------
(* The program and its system calls: t_read starts and ends, and some run  *)
(* with interrupts off for a time.                                                 *)
Read ==
    /\ at = "program"
    /\ reading' = ~reading
    /\ UNCHANGED <<pic, on, at, code, flag, latches, effect, held, muddled>>

Cli == at = "program" /\ on /\ on' = FALSE /\ UNCHANGED <<pic, at, flag, keyboard>>
Sti == at = "program" /\ ~on /\ on' = TRUE /\ UNCHANGED <<pic, at, flag, keyboard>>

Start   == StartPic \/ StartKeyboard \/ StartRtc \/ StartPit \/ StartSti
Devices == PitTick \/ RtcTick \/ Key
Handle  == pit_handler \/ kb_handler \/ rtc_handler

Next ==
    \/ Start
    \/ Devices
    \/ EnterPit \/ EnterKeyboard \/ EnterRtc
    \/ Handle
    \/ Read \/ Cli \/ Sti

(* Start-up and handlers run to their end, and a system call that turned   *)
(* interrupts off turns them on.  An interrupt is strongly fair: the       *)
(* processor takes the one signalled before its next instruction, so it    *)
(* cannot pass it over for ever.                                           *)
Spec ==
    /\ Init /\ [][Next]_vars
    /\ WF_vars(Start \/ Handle) /\ WF_vars(Sti)
    /\ SF_vars(EnterPit) /\ SF_vars(EnterKeyboard) /\ SF_vars(EnterRtc)

-----------------------------------------------------------------------------
(* The keyboard: what the keys held down mean, said without the latches,   *)
(* but for caps lock, which is the code's own.                             *)
Holds(kind) == held \cap Kinds[kind] # {}

Character(k) ==
    LET turned == latches.cap /\ k \in Letters
    IN  Type(k, IF turned THEN ~Holds("shift") ELSE Holds("shift"))

Meaning(k) ==
    IF k \in Functions
    THEN IF Holds("alt") THEN Display(k) ELSE Nothing
    ELSE IF Holds("ctrl") /\ k = "b" THEN Quote
    ELSE IF Holds("ctrl") /\ k = "c" THEN Sigquit
    ELSE IF ~reading \/ k \notin Letters \cup Symbols THEN Nothing
    ELSE IF Holds("ctrl") /\ k = "l" THEN Clear
    ELSE Character(k)

(* The latches a key's meaning depends on.                                 *)
Matter(k) == IF k \in Functions THEN {"alt"}
             ELSE IF k \in Letters THEN {"shift", "ctrl"} ELSE {"shift"}

(* Not as the comments of idt.c have it: caps lock turns the back quote    *)
(* into a tilde, and the star of the keypad with shift is read from behind *)
(* the end of table_kb.                                                    *)
Odd(k) == (k \in Unlisted /\ latches.cap) \/ k = Star

(* KeysUnderstood (idt.c 109-498): when kb_handler handles a key that goes *)
(* down, it does what the keys held down at that time mean, a chord, a     *)
(* cleared screen or the character of the right case, however long the     *)
(* code has waited, and whatever terminal and however many readers came    *)
(* and went since the modifiers were pressed.  Not when the latch for a    *)
(* modifier is lost (Muddle), and not for the keys of Odd.                 *)
KeysUnderstood ==
    [][\A c \in code :
          /\ at = "kb" /\ at' = "kb_rtc"
          /\ c.down
          /\ muddled \cap Matter(c.key) = {}
          /\ ~Odd(c.key)
          => effect' = Meaning(c.key)]_vars

-----------------------------------------------------------------------------
Waiting(irq) ==
    CASE irq = PIT      -> Requested(pic, PIT)
      [] irq = KEYBOARD -> code # {}
      [] irq = RTC      -> flag

LeftTime(irq) == at = "program" /\ on /\ \A i \in Irqs : i < irq => ~Requested(pic, i)

(* RequestsServed (i8259.c 34-68, 153-167; idt.c 89-500; rtc.c 43-69;      *)
(* scheduling.c 84-216): a device that waits for its handler, a timer tick *)
(* not yet taken, a code in the keyboard's controller, a tick in the       *)
(* clock's register C, gets it, if the processor runs with interrupts on   *)
(* and none of higher priority asked for again and again.  No line is left *)
(* masked or in service by a handler or by the start-up.                   *)
RequestsServed ==
    \A irq \in Irqs : []<>LeftTime(irq) => (Waiting(irq) ~> ~Waiting(irq))

(* LetIn: the part of RequestsServed that is about single states.  With    *)
(* interrupts on, a device that waits is the one the controller signals,   *)
(* unless one of higher priority asks: between two instructions of a       *)
(* program nothing is masked, in service or forgotten.                     *)
LetIn == \A irq \in Irqs : LeftTime(irq) /\ Waiting(irq) => Signals(pic, irq)

(* TypeOK: the state has its types.                                        *)
TypeOK ==
    /\ pic \in Pics
    /\ on \in BOOLEAN /\ flag \in BOOLEAN /\ reading \in BOOLEAN
    /\ at \in Starting \cup Handling \cup {"program"}
    /\ code \in {{}} \cup {{c} : c \in Codes}
    /\ latches \in Latches
    /\ effect \in Effects
    /\ held \in SUBSET Pressed
    /\ muddled \in SUBSET DOMAIN Kinds

=============================================================================
