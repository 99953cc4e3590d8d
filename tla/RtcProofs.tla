----------------------------- MODULE RtcProofs -----------------------------
(***************************************************************************)
(* Proofs about Rtc for every number of terminals, every base rate and     *)
(* every width of an int that holds it.                                    *)
(*                                                                         *)
(* ReadPaced is not inductive.  What makes it so is that the runs of the   *)
(* handler a read is still due and those its terminal has counted together *)
(* never exceed the period, so that the flag stays clear until none is due.*)
(***************************************************************************)
EXTENDS Rtc, TLAPS

Paced == \A t \in Terms : runs_due[t] > 0 =>
    /\ at[t] = "spin"
    /\ t \notin RTC_FLAG
    /\ runs_due[t] + rtc_int[t] <= RTC_COUNTER_MAX[t]

IInv == TypeOK /\ Paced

LEMMA RtcSizes ==
    /\ NTerm \in Nat /\ 0 < NTerm /\ BASE \in Nat /\ 0 < BASE
    /\ INT_MAX \in Nat /\ BASE <= INT_MAX
    /\ 0 \in Terms /\ Terms \subseteq Int
    /\ -INT_MAX - 1 \in Int /\ 0 \in Ints /\ Ints \subseteq Int
BY RtcAssumption, SMT DEF Terms, Ints

(* An int that counts up stays an int, and below INT_MAX it is one more.   *)
LEMMA IncrementInt ==
    ASSUME NEW n \in Ints
    PROVE  /\ Increment(n) \in Ints
           /\ n < INT_MAX => Increment(n) = n + 1
           /\ n >= INT_MAX => Increment(n) < 0
BY RtcSizes, SMT DEF Increment, Ints

(* The quotient of 512 and a number that is not zero is never larger.      *)
LEMMA QuotientBounded ==
    ASSUME NEW b \in Nat, NEW d \in Nat \ {0}
    PROVE  b \div d \in 0 .. b
<1>1. b \div d \in Int /\ b % d \in 0 .. d - 1 /\ b = d * (b \div d) + (b % d)
  BY SMT
<1> DEFINE q == b \div d
<1> HIDE DEF q
<1>2. PICK r \in 0 .. d - 1 : q \in Int /\ b = d * q + r
  BY <1>1 DEF q
<1>3. q >= 0
  <2>1. SUFFICES ASSUME q <= -1 PROVE FALSE
    BY <1>2, SMT
  <2>2. d * q <= d * (-1)
    BY <1>2, <2>1, SMT
  <2> QED  BY <1>2, <2>2, SMT
<1>4. q <= d * q
  BY <1>2, <1>3, SMT
<1> QED  BY <1>2, <1>3, <1>4, SMT DEF q

LEMMA QuotientInRange ==
    ASSUME NEW f \in Int, f # 0
    PROVE  Quotient(f) \in -BASE .. BASE
<1>1. CASE f > 0
  <2>1. BASE \div f \in 0 .. BASE
    BY <1>1, RtcSizes, QuotientBounded
  <2> QED  BY <1>1, <2>1, RtcSizes, SMT DEF Quotient
<1>2. CASE f < 0
  <2>1. BASE \div (-f) \in 0 .. BASE
    BY <1>2, RtcSizes, QuotientBounded
  <2> QED  BY <1>2, <2>1, RtcSizes, SMT DEF Quotient
<1> QED  BY <1>1, <1>2, SMT

LEMMA InitIInv == Init => IInv
<1> SUFFICES ASSUME Init PROVE IInv
  OBVIOUS
<1>1. TypeOK
  <2>1. 0 \in -BASE .. BASE /\ 0 \in 0 .. BASE
    BY RtcSizes, SMT
  <2> QED  BY <2>1, RtcSizes DEF Init, TypeOK, Places
<1>2. Paced
  BY SMT DEF Init, Paced
<1> QED  BY <1>1, <1>2 DEF IInv

LEMMA OneLessTyped ==
    ASSUME NEW due \in [Terms -> 0 .. BASE]
    PROVE  /\ OneLess(due) \in [Terms -> 0 .. BASE]
           /\ \A t \in Terms : at[t] = "spin" /\ due[t] > 0 => OneLess(due)[t] = due[t] - 1
           /\ \A t \in Terms : at[t] # "spin" \/ due[t] = 0 => OneLess(due)[t] = due[t]
<1>1. \A n \in 0 .. BASE : n > 0 => n - 1 \in 0 .. BASE
  BY RtcSizes, SMT
<1>2. \A t \in Terms : due[t] \in 0 .. BASE
  OBVIOUS
<1>3. \A n \in 0 .. BASE : n = 0 => ~(n > 0)
  BY SMT
<1> QED  BY <1>1, <1>2, <1>3 DEF OneLess

(* The handler: a terminal that is due runs counts one more and is due one *)
(* less, and its flag is not set before it is due none.                    *)
LEMMA HandlerPaces ==
    ASSUME IInv, rtc_handler
    PROVE  /\ rtc_int' \in [Terms -> Ints]
           /\ RTC_FLAG' \subseteq Terms
           /\ runs_due' \in [Terms -> 0 .. BASE]
           /\ Paced'
<1> DEFINE count == [t \in Terms |-> Increment(rtc_int[t])]
<1>1. /\ rtc_int' = count
      /\ RTC_FLAG' = RTC_FLAG \cup {t \in Terms : count[t] >= RTC_COUNTER_MAX[t]}
      /\ runs_due' = OneLess(runs_due)
      /\ UNCHANGED << RTC_COUNTER_MAX, at >>
  BY DEF rtc_handler, Count
<1>2. rtc_int' \in [Terms -> Ints] /\ RTC_FLAG' \subseteq Terms
  BY <1>1, IncrementInt DEF IInv, TypeOK
<1>3. runs_due' \in [Terms -> 0 .. BASE]
  BY <1>1, OneLessTyped DEF IInv, TypeOK
<1>4. ASSUME NEW t \in Terms, runs_due'[t] > 0
      PROVE  /\ at'[t] = "spin" /\ t \notin RTC_FLAG'
             /\ runs_due'[t] + rtc_int'[t] <= RTC_COUNTER_MAX'[t]
  <2>1. /\ runs_due[t] \in 0 .. BASE /\ rtc_int[t] \in Ints
        /\ RTC_COUNTER_MAX[t] \in Int /\ RTC_COUNTER_MAX[t] <= BASE
        /\ runs_due[t] \in Int /\ rtc_int[t] \in Int
    <3>1. /\ runs_due[t] \in 0 .. BASE /\ rtc_int[t] \in Ints
          /\ RTC_COUNTER_MAX[t] \in -BASE .. BASE
      BY DEF IInv, TypeOK
    <3>2. rtc_int[t] \in Int
      BY <3>1, RtcSizes
    <3> QED  BY <3>1, <3>2, RtcSizes, SMT
  <2>2. runs_due[t] > 0 /\ at[t] = "spin" /\ runs_due'[t] = runs_due[t] - 1
    <3>1. runs_due[t] # 0
      BY <1>1, <1>4, <2>1, OneLessTyped, SMT DEF IInv, TypeOK
    <3>2. runs_due[t] > 0
      BY <2>1, <3>1, SMT
    <3> QED  BY <1>1, <3>2, OneLessTyped DEF IInv, TypeOK, Paced
  <2>3. t \notin RTC_FLAG /\ runs_due[t] + rtc_int[t] <= RTC_COUNTER_MAX[t]
    BY <2>2 DEF IInv, Paced
  <2>4. rtc_int'[t] = rtc_int[t] + 1
    <3>1. rtc_int[t] < INT_MAX
      BY <2>1, <2>2, <2>3, RtcSizes, SMT
    <3>2. rtc_int'[t] = Increment(rtc_int[t])
      BY <1>1
    <3> QED  BY <2>1, <3>1, <3>2, IncrementInt
  <2>5. runs_due'[t] + rtc_int'[t] <= RTC_COUNTER_MAX[t]
    BY <2>1, <2>2, <2>3, <2>4, RtcSizes, SMT
  <2>6. ~(rtc_int'[t] >= RTC_COUNTER_MAX[t])
    BY <1>4, <2>1, <2>2, <2>4, <2>5, RtcSizes, SMT
  <2> QED  BY <1>1, <2>2, <2>3, <2>5, <2>6
<1> QED  BY <1>2, <1>3, <1>4 DEF Paced

(* A call of rtc_read that starts is due a period when its flag is clear.  *)
LEMMA ReadStartIInv == IInv /\ ReadStart => IInv'
<1> SUFFICES ASSUME IInv, ReadStart PROVE IInv'
  OBVIOUS
<1> DEFINE s == scheduled_terminal
<1>1. /\ s \in Terms
      /\ rtc_int' = [rtc_int EXCEPT ![s] = 0]
      /\ at' = [at EXCEPT ![s] = "spin"]
      /\ runs_due' = [runs_due EXCEPT ![s] = Period]
      /\ beats_due' = [beats_due EXCEPT ![s] = Period]
      /\ UNCHANGED << RTC_COUNTER_MAX, RTC_FLAG, scheduled_terminal >>
  BY DEF IInv, TypeOK, ReadStart, Reset
<1>2. Period \in 0 .. BASE
  <2>1. RTC_COUNTER_MAX[s] \in -BASE .. BASE
    BY <1>1 DEF IInv, TypeOK
  <2> QED  BY <2>1, RtcSizes, SMT DEF Period
<1>3. TypeOK'
  BY <1>1, <1>2, RtcSizes DEF IInv, TypeOK, Places
<1>4. ASSUME NEW t \in Terms, runs_due'[t] > 0
      PROVE  /\ at'[t] = "spin" /\ t \notin RTC_FLAG'
             /\ runs_due'[t] + rtc_int'[t] <= RTC_COUNTER_MAX'[t]
  <2>1. CASE t = s
    <3>1. /\ runs_due'[s] = Period /\ rtc_int'[s] = 0 /\ at'[s] = "spin"
          /\ RTC_COUNTER_MAX[s] \in -BASE .. BASE
      BY <1>1 DEF IInv, TypeOK
    <3>2. s \notin RTC_FLAG /\ Period = RTC_COUNTER_MAX[s]
      BY <1>4, <2>1, <3>1, RtcSizes, SMT DEF Period
    <3> QED  BY <1>1, <1>2, <2>1, <3>1, <3>2, SMT
  <2>2. CASE t # s
    BY <1>1, <1>4, <2>2 DEF IInv, TypeOK, Paced
  <2> QED  BY <2>1, <2>2
<1> QED  BY <1>3, <1>4 DEF IInv, Paced

LEMMA NextIInv == IInv /\ [Next]_vars => IInv'
<1> SUFFICES ASSUME IInv, [Next]_vars PROVE IInv'
  OBVIOUS
<1> USE DEF IInv
<1>0. scheduled_terminal \in Terms
  BY DEF TypeOK
<1>1. CASE RtcInterrupt
  <2>1. beats_due' \in [Terms -> 0 .. BASE]
    BY <1>1, OneLessTyped DEF RtcInterrupt, TypeOK
  <2> QED  BY <1>1, <2>1, HandlerPaces DEF RtcInterrupt, rtc_handler, TypeOK
<1>2. CASE KeyboardInterrupt
  BY <1>2, HandlerPaces DEF KeyboardInterrupt, rtc_handler, TypeOK
<1>3. ASSUME NEW f \in Freqs, WritePeriod(f) PROVE IInv'
  <2>1. f \in Int /\ f # 0
    BY <1>3, RtcSizes, SMT DEF WritePeriod, Freqs
  <2>2. TypeOK'
    BY <1>0, <1>3, <2>1, QuotientInRange, RtcSizes DEF WritePeriod, TypeOK, Places, history
  <2>3. Paced'
    BY <1>0, <1>3, SMT DEF WritePeriod, Away, Paced, TypeOK, history
  <2> QED  BY <2>2, <2>3
<1>4. CASE ReadStart
  BY <1>4, ReadStartIInv
<1>5. CASE ReadWoken
  <2>1. TypeOK'
    BY <1>0, <1>5 DEF ReadWoken, TypeOK, Places, history
  <2>2. Paced'
    BY <1>0, <1>5 DEF ReadWoken, Paced, TypeOK, history
  <2> QED  BY <2>1, <2>2
<1>6. CASE ReadReturn \/ Killed
  <2>1. /\ at' = [at EXCEPT ![scheduled_terminal] = "away"]
        /\ runs_due' = [runs_due EXCEPT ![scheduled_terminal] = 0]
        /\ beats_due' = [beats_due EXCEPT ![scheduled_terminal] = 0]
        /\ rtc_int' = [rtc_int EXCEPT ![scheduled_terminal] = 0] \/ rtc_int' = rtc_int
        /\ UNCHANGED << RTC_COUNTER_MAX, RTC_FLAG, scheduled_terminal >>
    BY <1>6 DEF ReadReturn, Killed, Leave, Reset, clock
  <2>2. 0 \in 0 .. BASE
    BY RtcSizes, SMT
  <2>3. TypeOK'
    BY <1>0, <2>1, <2>2, RtcSizes DEF TypeOK, Places
  <2>4. Paced'
    <3>1. ASSUME NEW t \in Terms, t # scheduled_terminal
          PROVE  /\ runs_due'[t] = runs_due[t] /\ at'[t] = at[t]
                 /\ rtc_int'[t] = rtc_int[t]
      BY <2>1, <3>1 DEF TypeOK
    <3>2. runs_due'[scheduled_terminal] = 0
      BY <1>0, <2>1 DEF TypeOK
    <3> QED  BY <2>1, <3>1, <3>2, SMT DEF Paced
  <2> QED  BY <2>3, <2>4
<1>7. CASE RoundRobin
  <2>1. scheduled_terminal' \in Terms
    BY <1>0, <1>7, RtcSizes, SMT DEF RoundRobin, Terms
  <2> QED  BY <1>7, <2>1 DEF RoundRobin, TypeOK, Paced, clock, history
<1>8. CASE WriteReset
  <2>1. TypeOK'
    BY <1>0, <1>8, RtcSizes DEF WriteReset, Reset, TypeOK, Places, history
  <2>2. Paced'
    BY <1>0, <1>8, SMT DEF WriteReset, Reset, Paced, TypeOK, history
  <2> QED  BY <2>1, <2>2
<1>9. CASE UNCHANGED vars
  BY <1>9 DEF vars, clock, history, TypeOK, Paced
<1> QED  BY <1>1, <1>2, <1>3, <1>4, <1>5, <1>6, <1>7, <1>8, <1>9 DEF Next

THEOREM Invariance == Spec => []IInv
BY InitIInv, NextIInv, PTL DEF Spec

(* The clock's variables keep their types: the counter wraps within an int *)
(* and a period is never longer than the base rate, whatever frequency was *)
(* written (rtc.c:144).                                                    *)
THEOREM AlwaysTyped == Spec => []TypeOK
BY Invariance, PTL DEF IInv

(* A read that finds its flag clear lasts a full period of its own         *)
(* terminal, for every number of terminals sharing the interrupt, every    *)
(* frequency, and though rtc_int overflows between reads (rtc.c:114).      *)
THEOREM AlwaysReadPaced == Spec => []ReadPaced
<1>1. IInv => ReadPaced
  <2>1. SUFFICES ASSUME IInv, NEW t \in Terms, at[t] = "late" PROVE runs_due[t] = 0
    BY DEF ReadPaced
  <2>2. ~(runs_due[t] > 0) /\ runs_due[t] \in 0 .. BASE
    BY <2>1 DEF IInv, TypeOK, Paced
  <2> QED  BY <2>2, SMT
<1> QED  BY <1>1, Invariance, PTL
=============================================================================
