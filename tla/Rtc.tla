-------------------------------- MODULE Rtc --------------------------------
(***************************************************************************)
(* The virtualised real-time clock (rtc.c): one counter, period and flag   *)
(* per terminal, advanced together by rtc_handler and used by the program  *)
(* of a terminal through rtc_write and rtc_read.                           *)
(*                                                                         *)
(* rtc_read and rtc_write run with interrupts on: the handler and a tick   *)
(* fall between any two of their lines.  They index the arrays with        *)
(* scheduled_terminal, so a program's lines are steps of the scheduled     *)
(* terminal.  rtc_handler runs behind an interrupt gate: one step.         *)
(*                                                                         *)
(* Every rtc_open programs the same 512 Hz and rtc_close does nothing, so  *)
(* neither is a step: the hardware's rate is not state, and periods are    *)
(* counted in interrupts.                                                  *)
(*                                                                         *)
(* CountHere, NoWidth and NoReset are not the code: each is the definition *)
(* that follows it with a plausible mistake in it.                         *)
(***************************************************************************)
EXTENDS Integers

CONSTANTS
    NTerm,      \* terminals: 3 in the code
    BASE,       \* rate the periods are computed from: 512 in the code
    INT_MAX     \* the largest int: 2^31 - 1 in the code

ASSUME RtcAssumption ==
    /\ NTerm \in Nat \ {0}
    /\ BASE \in Nat \ {0}
    /\ INT_MAX \in Nat /\ BASE <= INT_MAX

Terms == 0 .. NTerm - 1
Ints  == -INT_MAX - 1 .. INT_MAX

VARIABLES
    rtc_int,            \* interrupts counted for each terminal
    RTC_COUNTER_MAX,    \* period of each terminal, in interrupts
    RTC_FLAG,           \* terminals whose flag is set
    scheduled_terminal,
    at,                 \* where the program of each terminal is in rtc.c
    runs_due,           \* runs of rtc_handler a period has left, in rtc_read
    beats_due           \* RTC interrupts it has left

clock   == << rtc_int, RTC_COUNTER_MAX, RTC_FLAG >>
history == << runs_due, beats_due >>
vars    == << clock, scheduled_terminal, at, history >>

(* "spin": waiting for the flag.  "late": between the two assignments that *)
(* follow the loop.  "written": between the two of rtc_write.  "away":     *)
(* anywhere else.                                                          *)
Places == {"away", "spin", "late", "written"}

Init ==
    /\ rtc_int = [t \in Terms |-> 0]
    /\ RTC_COUNTER_MAX = [t \in Terms |-> 0]
    /\ RTC_FLAG = {}
    /\ scheduled_terminal = 0
    /\ at = [t \in Terms |-> "away"]
    /\ runs_due = [t \in Terms |-> 0]
    /\ beats_due = [t \in Terms |-> 0]

(* An int counts up and wraps.                                             *)
NoWidth(n) == n + 1
Increment(n) == IF n < INT_MAX THEN n + 1 ELSE -INT_MAX - 1

(* 512 / new_freq, truncated towards zero as C does.                       *)
Quotient(f) == IF f > 0 THEN BASE \div f ELSE -(BASE \div (-f))

-----------------------------------------------------------------------------
(* One less for each call of rtc_read that waits for any.                  *)
OneLess(due) == [t \in Terms |->
                    IF at[t] = "spin" /\ due[t] > 0 THEN due[t] - 1 ELSE due[t]]

(* rtc_handler: every counter advances, flags are set and never cleared.   *)
CountHere(count) ==
    /\ rtc_int' = [rtc_int EXCEPT ![scheduled_terminal] = count[scheduled_terminal]]
    /\ RTC_FLAG' = RTC_FLAG \cup
          {t \in Terms : t = scheduled_terminal /\ count[t] >= RTC_COUNTER_MAX[t]}
Count(count) ==
    /\ rtc_int' = count
    /\ RTC_FLAG' = RTC_FLAG \cup {t \in Terms : count[t] >= RTC_COUNTER_MAX[t]}

rtc_handler ==
    /\ Count([t \in Terms |-> Increment(rtc_int[t])])
    /\ runs_due' = OneLess(runs_due)
    /\ UNCHANGED << RTC_COUNTER_MAX, scheduled_terminal, at >>

RtcInterrupt == rtc_handler /\ beats_due' = OneLess(beats_due)

(* The backslash missing after the orl of MY_ASM_MACRO_KEYBOARD leaves     *)
(* keyboard_call without an iret: the CPU runs on into rtc_call.           *)
KeyboardInterrupt == rtc_handler /\ UNCHANGED beats_due

-----------------------------------------------------------------------------
Away == at[scheduled_terminal] = "away"

NoReset == UNCHANGED rtc_int
Reset   == rtc_int' = [rtc_int EXCEPT ![scheduled_terminal] = 0]

(* rtc_write sets the period, then the counter.  new_freq is not checked:  *)
(* a quotient that is zero or negative is a period like any other.         *)
WritePeriod(f) ==
    /\ Away
    /\ f # 0
    /\ RTC_COUNTER_MAX' = [RTC_COUNTER_MAX EXCEPT ![scheduled_terminal] = Quotient(f)]
    /\ at' = [at EXCEPT ![scheduled_terminal] = "written"]
    /\ UNCHANGED << rtc_int, RTC_FLAG, scheduled_terminal, history >>

WriteReset ==
    /\ at[scheduled_terminal] = "written"
    /\ Reset
    /\ at' = [at EXCEPT ![scheduled_terminal] = "away"]
    /\ UNCHANGED << RTC_COUNTER_MAX, RTC_FLAG, scheduled_terminal, history >>

(* A call that finds its flag clear is due a period, one that finds it set *)
(* returns at once.                                                        *)
Period == IF scheduled_terminal \in RTC_FLAG \/ RTC_COUNTER_MAX[scheduled_terminal] < 0
          THEN 0 ELSE RTC_COUNTER_MAX[scheduled_terminal]

ReadStart ==
    /\ Away
    /\ Reset
    /\ at' = [at EXCEPT ![scheduled_terminal] = "spin"]
    /\ runs_due' = [runs_due EXCEPT ![scheduled_terminal] = Period]
    /\ beats_due' = [beats_due EXCEPT ![scheduled_terminal] = Period]
    /\ UNCHANGED << RTC_COUNTER_MAX, RTC_FLAG, scheduled_terminal >>

(* The flag is seen and cleared; an interrupt between the two would set it *)
(* once more, and so changes nothing.                                      *)
ReadWoken ==
    /\ at[scheduled_terminal] = "spin"
    /\ scheduled_terminal \in RTC_FLAG
    /\ RTC_FLAG' = RTC_FLAG \ {scheduled_terminal}
    /\ at' = [at EXCEPT ![scheduled_terminal] = "late"]
    /\ UNCHANGED << rtc_int, RTC_COUNTER_MAX, scheduled_terminal, history >>

(* The call is over, and with it its history.                              *)
Leave ==
    /\ at' = [at EXCEPT ![scheduled_terminal] = "away"]
    /\ runs_due' = [runs_due EXCEPT ![scheduled_terminal] = 0]
    /\ beats_due' = [beats_due EXCEPT ![scheduled_terminal] = 0]

ReadReturn ==
    /\ at[scheduled_terminal] = "late"
    /\ Reset
    /\ Leave
    /\ UNCHANGED << RTC_COUNTER_MAX, RTC_FLAG, scheduled_terminal >>

(* Ctrl+C, wherever the program is.  The clock is left as it stands, as it *)
(* is by a program that ends, or faults on a frequency of zero.            *)
Killed ==
    /\ ~Away
    /\ Leave
    /\ UNCHANGED << clock, scheduled_terminal >>

RoundRobin ==
    /\ scheduled_terminal' = (scheduled_terminal + 1) % NTerm
    /\ UNCHANGED << clock, at, history >>

Freqs == -1 .. BASE + 1

Next ==
    \/ RtcInterrupt
    \/ KeyboardInterrupt
    \/ \E f \in Freqs : WritePeriod(f)
    \/ WriteReset
    \/ ReadStart
    \/ ReadWoken
    \/ ReadReturn
    \/ Killed
    \/ RoundRobin

(* The RTC interrupts periodically, ticks go round the terminals, and a    *)
(* turn of 10 ms is enough for a look at the flag.                         *)
TurnOf(t, A) == scheduled_terminal = t /\ A
Fairness ==
    /\ WF_vars(RtcInterrupt)
    /\ WF_vars(RoundRobin)
    /\ \A t \in Terms : SF_vars(TurnOf(t, ReadWoken)) /\ SF_vars(TurnOf(t, ReadReturn))

Spec == Init /\ [][Next]_vars /\ Fairness

-----------------------------------------------------------------------------
TypeOK ==
    /\ rtc_int \in [Terms -> Ints]
    /\ RTC_COUNTER_MAX \in [Terms -> -BASE .. BASE]
    /\ RTC_FLAG \subseteq Terms
    /\ scheduled_terminal \in Terms
    /\ at \in [Terms -> Places]
    /\ runs_due \in [Terms -> 0 .. BASE]
    /\ beats_due \in [Terms -> 0 .. BASE]

(* A read that found its flag clear lasts a full period of its terminal,   *)
(* counted in runs of the handler: what the other terminals' programs      *)
(* read, write and set, in whatever interleaving, and what an earlier      *)
(* program left in the counter, do not shorten it.                         *)
ReadPaced == \A t \in Terms : at[t] = "late" => runs_due[t] = 0

(* A program that waits in rtc_read is woken, though the interrupts may    *)
(* all arrive during the turns of other terminals.                         *)
ReaderWakes == \A t \in Terms : at[t] = "spin" ~> at[t] # "spin"

(* rtc_handler "is used whenever the RTC generates an interrupts"          *)
(* (rtc.c:38), so a read that waits for its flag lasts a period of the     *)
(* RTC, whatever keys are pressed.                                         *)
ReadTimed == \A t \in Terms : at[t] = "late" => beats_due[t] = 0

=============================================================================
