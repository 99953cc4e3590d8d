----------------------------- MODULE ArgsProofs -----------------------------
(***************************************************************************)
(* Proofs that the loops over get_args_buf stay inside it, whatever the    *)
(* programs of the terminals do to each other, and that a program gets its *)
(* own arguments if nobody else wrote there, for every number of           *)
(* terminals, every line, every size of the buffer and of the callers'.    *)
(*                                                                         *)
(* TypeOK allows an index behind the last cell, because sys_getargs does   *)
(* look there; Inside says where an index must be a cell's, or at most the *)
(* size asked for, and makes the types inductive.  LineKept says where     *)
(* t_read and sys_getargs have got to in the line.                         *)
(***************************************************************************)
EXTENDS Args, SequenceTheorems, TLAPS

Inside == \A t \in Terms :
    /\ pc[t] \in {"copy", "clear"} => i[t] \in Cells
    /\ pc[t] = "scan" => i[t] <= nbytes[t]

IInv == TypeOK /\ Inside

LEMMA Sizes0 ==
    /\ CELLS \in Nat /\ CELLS > 0 /\ 0 \in Cells /\ 0 \in 0 .. CELLS
    /\ Cells \subseteq 0 .. CELLS /\ NUL \in Letters
    /\ \A n \in Sizes : Capped(n) \in 0 .. CELLS
<1>1. /\ CELLS \in Nat /\ CELLS > 0 /\ 0 \in Cells /\ 0 \in 0 .. CELLS
      /\ Cells \subseteq 0 .. CELLS
  BY ArgsAssumption, SMT DEF Cells
<1>2. \A n \in Sizes : Capped(n) \in 0 .. CELLS
  <2> SUFFICES ASSUME NEW n \in Sizes PROVE Capped(n) \in 0 .. CELLS
    OBVIOUS
  <2>1. n \in Nat
    BY ArgsAssumption
  <2> QED  BY <1>1, <2>1, SMT DEF Capped
<1>3. NUL \in Letters
  BY DEF Letters
<1> QED  BY <1>1, <1>2, <1>3

LEMMA LineLetters == \A l \in Lines : \A k \in 1 .. Len(l) : l[k] \in Letters
<1> SUFFICES ASSUME NEW l \in Lines, NEW k \in 1 .. Len(l) PROVE l[k] \in Letters
  OBVIOUS
<1>1. DOMAIN l = 1 .. Len(l)
  BY ArgsAssumption
<1>2. l[k] \in Range(l)
  BY <1>1 DEF Range
<1> QED  BY <1>2 DEF Letters

LEMMA Goes ==
    ASSUME IInv, NEW t \in Terms, NEW p \in PCs, NEW k \in 0 .. CELLS, Goto(t, p, k)
    PROVE  /\ pc' \in [Terms -> PCs] /\ i' \in [Terms -> 0 .. CELLS]
           /\ pc'[t] = p /\ i'[t] = k
           /\ \A u \in Terms : u # t => pc'[u] = pc[u] /\ i'[u] = i[u]
BY DEF Goto, IInv, TypeOK

LEMMA CellSet ==
    ASSUME IInv, NEW t \in Terms, NEW c \in Letters, i[t] \in Cells, SetCell(t, c)
    PROVE  get_args_buf' \in [Cells -> Letters] /\ fresh' \in [Terms -> BOOLEAN]
<1>1. get_args_buf' \in [Cells -> Letters]
  BY DEF SetCell, IInv, TypeOK
<1>2. \A u \in Terms : (fresh[u] /\ u = t) \in BOOLEAN
  OBVIOUS
<1> QED  BY <1>1, <1>2, Zenon DEF SetCell

LEMMA Forgets ==
    ASSUME IInv, NEW t \in Terms, Forget(t)
    PROVE  line' \in [Terms -> Lines \cup {<< >>}] /\ fresh' \in [Terms -> BOOLEAN]
BY Zenon DEF Forget, IInv, TypeOK

(* A cell of the command is a cell of the buffer or a '\0'.                *)
LEMMA CommandCells ==
    ASSUME IInv, NEW t \in Terms
    PROVE  Command(t) \in [Cells -> Letters]
<1>1. buf[t] \in [Cells -> Letters]
  BY DEF IInv, TypeOK
<1> QED  BY <1>1, Sizes0 DEF Command

LEMMA NextIInv == IInv /\ [Next]_vars => IInv'
<1> SUFFICES ASSUME IInv, [Next]_vars PROVE IInv'
  OBVIOUS
<1> USE Sizes0
<1>1. ASSUME NEW t \in Terms, NEW l \in Lines, ReadLine(t, l) PROVE IInv'
  <2>1. Entered(buf[t], l) \in [Cells -> Letters]
    <3>1. ASSUME NEW k \in Cells, ~(k >= Len(l)) PROVE l[k + 1] \in Letters
      <4>1. k + 1 \in 1 .. Len(l)
        BY <3>1, ArgsAssumption, SMT DEF Cells
      <4> QED  BY <4>1, LineLetters
    <3>2. \A k \in Cells : buf[t][k] \in Letters
      BY DEF IInv, TypeOK
    <3> QED  BY <3>1, <3>2 DEF Entered
  <2>2. fresh' \in [Terms -> BOOLEAN]
    BY <1>1, Zenon DEF ReadLine, IInv, TypeOK
  <2>3. /\ pc' \in [Terms -> PCs] /\ i' \in [Terms -> 0 .. CELLS]
        /\ pc'[t] = "copy" /\ i'[t] = 0
        /\ \A u \in Terms : u # t => pc'[u] = pc[u] /\ i'[u] = i[u]
    BY <1>1, Goes DEF ReadLine, PCs
  <2> QED  BY <1>1, <2>1, <2>2, <2>3 DEF ReadLine, IInv, TypeOK, Inside
<1>2. ASSUME NEW t \in Terms, CopyCell(t) PROVE IInv'
  <2>1. i[t] \in Cells /\ buf[t][i[t]] \in Letters
    BY <1>2 DEF CopyCell, IInv, TypeOK, Inside
  <2>2. get_args_buf' \in [Cells -> Letters] /\ fresh' \in [Terms -> BOOLEAN]
    BY <1>2, <2>1, CellSet DEF CopyCell
  <2>3. \/ i[t] + 1 \in Cells /\ Goto(t, "copy", i[t] + 1)
        \/ Goto(t, "entered", 0)
    BY <1>2, <2>1 DEF CopyCell, Copied, Cells
  <2>4. /\ pc' \in [Terms -> PCs] /\ i' \in [Terms -> 0 .. CELLS]
        /\ (pc'[t] = "copy" /\ i'[t] \in Cells) \/ pc'[t] = "entered"
        /\ \A u \in Terms : u # t => pc'[u] = pc[u] /\ i'[u] = i[u]
    BY <2>3, Goes DEF PCs
  <2> QED  BY <1>2, <2>2, <2>4 DEF CopyCell, IInv, TypeOK, Inside
<1>3. ASSUME NEW t \in Terms, NextLine(t) PROVE IInv'
  <2>1. line' \in [Terms -> Lines \cup {<< >>}] /\ fresh' \in [Terms -> BOOLEAN]
    BY <1>3, Forgets DEF NextLine
  <2>2. /\ pc' \in [Terms -> PCs] /\ i' \in [Terms -> 0 .. CELLS]
        /\ pc'[t] = "shell"
        /\ \A u \in Terms : u # t => pc'[u] = pc[u] /\ i'[u] = i[u]
    BY <1>3, Goes DEF NextLine, PCs
  <2>3. buf' \in [Terms -> [Cells -> Letters]]
    BY <1>3, CommandCells DEF NextLine, IInv, TypeOK
  <2> QED  BY <1>3, <2>1, <2>2, <2>3 DEF NextLine, IInv, TypeOK, Inside
<1>4. ASSUME NEW t \in Terms, Execute(t) PROVE IInv'
  <2>1. /\ pc' \in [Terms -> PCs] /\ i' \in [Terms -> 0 .. CELLS]
        /\ pc'[t] = "program"
        /\ \A u \in Terms : u # t => pc'[u] = pc[u] /\ i'[u] = i[u]
    BY <1>4, Goes DEF Execute, PCs
  <2>2. Wiped(Command(t)) \in [Cells -> Letters]
    <3>1. \A k \in Cells : Command(t)[k] \in Letters
      BY CommandCells
    <3> QED  BY <3>1 DEF Wiped
  <2>3. buf' \in [Terms -> [Cells -> Letters]]
    BY <1>4, <2>2 DEF Execute, IInv, TypeOK
  <2> QED  BY <1>4, <2>1, <2>3 DEF Execute, IInv, TypeOK, Inside
<1>5. ASSUME NEW t \in Terms, NEW n \in Sizes, GetArgs(t, n) PROVE IInv'
  <2>1. /\ pc' \in [Terms -> PCs] /\ i' \in [Terms -> 0 .. CELLS]
        /\ pc'[t] = "scan" /\ i'[t] = 0
        /\ \A u \in Terms : u # t => pc'[u] = pc[u] /\ i'[u] = i[u]
    BY <1>5, Goes DEF GetArgs, PCs
  <2>2. /\ nbytes' \in [Terms -> 0 .. CELLS] /\ 0 <= nbytes'[t]
        /\ \A u \in Terms : u # t => nbytes'[u] = nbytes[u]
    BY <1>5 DEF GetArgs, IInv, TypeOK
  <2> QED  BY <1>5, <2>1, <2>2 DEF GetArgs, IInv, TypeOK, Inside
<1>6. ASSUME NEW t \in Terms, Scan(t) PROVE IInv'
  <2>1. i[t] \in 0 .. CELLS /\ nbytes[t] \in 0 .. CELLS
    BY DEF IInv, TypeOK
  <2>2. /\ \/ Goto(t, "test", 0) /\ UNCHANGED retval
           \/ Return(t, FAILURE)
           \/ i[t] < nbytes[t] /\ Goto(t, "test", i[t] + 1) /\ UNCHANGED retval
           \/ i[t] < nbytes[t] /\ Goto(t, "scan", i[t] + 1) /\ UNCHANGED retval
        /\ UNCHANGED << get_args_buf, buf, nbytes, arg, line, fresh >>
    BY <1>6 DEF Scan
  <2>3. retval' \in [Terms -> {0, FAILURE}]
    BY <2>2 DEF Return, IInv, TypeOK
  <2>4. \/ Goto(t, "test", 0) \/ Goto(t, "got", 0)
        \/ i[t] + 1 \in 0 .. CELLS /\ i[t] + 1 <= nbytes[t]
           /\ (Goto(t, "test", i[t] + 1) \/ Goto(t, "scan", i[t] + 1))
    BY <2>1, <2>2 DEF Return
  <2>5. /\ pc' \in [Terms -> PCs] /\ i' \in [Terms -> 0 .. CELLS]
        /\ pc'[t] \in {"test", "got"} \/ (pc'[t] = "scan" /\ i'[t] <= nbytes[t])
        /\ \A u \in Terms : u # t => pc'[u] = pc[u] /\ i'[u] = i[u]
    BY <2>4, Goes DEF PCs
  <2> QED  BY <2>2, <2>3, <2>5 DEF IInv, TypeOK, Inside
<1>7. ASSUME NEW t \in Terms, TestStart(t) PROVE IInv'
  <2>1. /\ Return(t, FAILURE) \/ (Goto(t, "take", i[t]) /\ UNCHANGED retval)
        /\ UNCHANGED << get_args_buf, buf, nbytes, arg, line, fresh >>
    BY <1>7 DEF TestStart
  <2>2. retval' \in [Terms -> {0, FAILURE}]
    BY <2>1 DEF Return, IInv, TypeOK
  <2>3. i[t] \in 0 .. CELLS /\ (Goto(t, "got", 0) \/ Goto(t, "take", i[t]))
    BY <2>1 DEF Return, IInv, TypeOK
  <2>4. /\ pc' \in [Terms -> PCs] /\ i' \in [Terms -> 0 .. CELLS]
        /\ pc'[t] \in {"take", "got"}
        /\ \A u \in Terms : u # t => pc'[u] = pc[u] /\ i'[u] = i[u]
    BY <2>3, Goes DEF PCs
  <2> QED  BY <2>1, <2>2, <2>4 DEF IInv, TypeOK, Inside
<1>8. ASSUME NEW t \in Terms, Take(t) PROVE IInv'
  <2> DEFINE more == i[t] < nbytes[t] /\ get_args_buf[i[t]] \notin {NUL, NEWLINE}
  <2>1. /\ arg' = [arg EXCEPT ![t] = IF more THEN Append(@, get_args_buf[i[t]]) ELSE @]
        /\ IF more THEN Goto(t, "take", i[t] + 1) ELSE Goto(t, "clear", 0)
        /\ UNCHANGED << get_args_buf, buf, nbytes, retval, line, fresh >>
    BY <1>8 DEF Take
  <2>2. i[t] \in 0 .. CELLS /\ nbytes[t] \in 0 .. CELLS /\ arg[t] \in Seq(Letters)
    BY DEF IInv, TypeOK
  <2>3. more => i[t] \in Cells /\ i[t] + 1 \in 0 .. CELLS
    BY <2>2 DEF Cells
  <2>4. more => Append(arg[t], get_args_buf[i[t]]) \in Seq(Letters)
    <3>1. more => get_args_buf[i[t]] \in Letters
      BY <2>3 DEF IInv, TypeOK
    <3> QED  BY <2>2, <3>1
  <2> HIDE DEF more
  <2>5. arg' \in [Terms -> Seq(Letters)]
    BY <2>1, <2>2, <2>4 DEF IInv, TypeOK
  <2>6. /\ pc' \in [Terms -> PCs] /\ i' \in [Terms -> 0 .. CELLS]
        /\ pc'[t] = "take" \/ (pc'[t] = "clear" /\ i'[t] \in Cells)
        /\ \A u \in Terms : u # t => pc'[u] = pc[u] /\ i'[u] = i[u]
    BY <2>1, <2>3, Goes DEF PCs
  <2> QED  BY <2>1, <2>5, <2>6 DEF IInv, TypeOK, Inside
<1>9. ASSUME NEW t \in Terms, ClearCell(t) PROVE IInv'
  <2>1. /\ i[t] \in Cells /\ SetCell(t, NUL)
        /\ \/ i[t] < CELLS - 1 /\ Goto(t, "clear", i[t] + 1) /\ UNCHANGED retval
           \/ Return(t, 0)
        /\ UNCHANGED << buf, nbytes, arg, line >>
    BY <1>9 DEF ClearCell, IInv, TypeOK, Inside
  <2>2. get_args_buf' \in [Cells -> Letters] /\ fresh' \in [Terms -> BOOLEAN]
    BY <2>1, CellSet
  <2>3. retval' \in [Terms -> {0, FAILURE}]
    BY <2>1 DEF Return, IInv, TypeOK
  <2>4. \/ i[t] + 1 \in Cells /\ Goto(t, "clear", i[t] + 1)
        \/ Goto(t, "got", 0)
    BY <2>1 DEF Return, Cells
  <2>5. /\ pc' \in [Terms -> PCs] /\ i' \in [Terms -> 0 .. CELLS]
        /\ pc'[t] = "got" \/ (pc'[t] = "clear" /\ i'[t] \in Cells)
        /\ \A u \in Terms : u # t => pc'[u] = pc[u] /\ i'[u] = i[u]
    BY <2>4, Goes DEF PCs
  <2> QED  BY <2>1, <2>2, <2>3, <2>5 DEF IInv, TypeOK, Inside
<1>10. ASSUME NEW t \in Terms, NEW p \in {"program", "shell"}, Leave(t, p) PROVE IInv'
  <2>1. line' \in [Terms -> Lines \cup {<< >>}] /\ fresh' \in [Terms -> BOOLEAN]
    BY <1>10, Forgets DEF Leave
  <2>2. /\ pc' \in [Terms -> PCs] /\ i' \in [Terms -> 0 .. CELLS] /\ pc'[t] = p
        /\ \A u \in Terms : u # t => pc'[u] = pc[u] /\ i'[u] = i[u]
    BY <1>10, Goes DEF Leave, PCs
  <2>3. /\ nbytes' \in [Terms -> 0 .. CELLS] /\ \A u \in Terms : u # t => nbytes'[u] = nbytes[u]
        /\ retval' \in [Terms -> {0, FAILURE}]
    BY <1>10 DEF Leave, IInv, TypeOK
  <2>4. arg' \in [Terms -> Seq(Letters)]
    BY <1>10 DEF Leave, IInv, TypeOK
  <2> QED  BY <1>10, <2>1, <2>2, <2>3, <2>4 DEF Leave, IInv, TypeOK, Inside
<1>11. CASE UNCHANGED vars
  BY <1>11 DEF vars, IInv, TypeOK, Inside
<1>12. ASSUME NEW t \in Terms, GoOn(t) \/ Halt(t) PROVE IInv'
  BY <1>10, <1>12 DEF GoOn, Halt
<1> QED  BY <1>1, <1>2, <1>3, <1>4, <1>5, <1>6, <1>7, <1>8, <1>9, <1>11, <1>12 DEF Next

LEMMA InitIInv == Init => IInv
<1> SUFFICES ASSUME Init PROVE IInv
  OBVIOUS
<1>1. Blank \in [Cells -> Letters] /\ 0 \in 0 .. CELLS
  BY Sizes0 DEF Blank
<1>2. << >> \in Seq(Letters)
  OBVIOUS
<1> QED  BY <1>1, <1>2, Sizes0 DEF Init, IInv, TypeOK, Inside, PCs

(* No loop over get_args_buf leaves it, though a program may ask for more  *)
(* bytes than it has (t_read's copy and sys_getargs).                      *)
THEOREM AlwaysTyped == Spec => []TypeOK
<1>1. IInv => TypeOK
  BY DEF IInv
<1> QED  BY InitIInv, <1>1, NextIInv, PTL DEF Spec

-----------------------------------------------------------------------------
(* What becomes of a line, from t_read to the return of sys_getargs, while *)
(* no other terminal writes into get_args_buf.                             *)
Ends == {SPACE, NEWLINE}

LEMMA Characters == SPACE # NEWLINE /\ SPACE # NUL /\ NEWLINE # NUL
BY DEF SPACE, NEWLINE, NUL

(* The cells of b hold the line, with '\0' for its blanks.                  *)
Printed(l, b) == \A k \in 1 .. Len(l) : b[k - 1] = IF l[k] = SPACE THEN NUL ELSE l[k]

Plain(l, from, to) == \A k \in from .. to : l[k] \notin Ends

(* The command of l ends before s.                                         *)
FirstBlank(l, s) == s \in 1 .. Len(l) - 1 /\ l[s] = SPACE /\ Plain(l, 1, s - 1)

Answer(t) == [retval |-> retval[t], arg |-> arg[t]]

(* What sys_getargs has seen of the line at each of its points.            *)
Asked(t) ==
    LET l == line[t]
    IN  /\ pc[t] = "scan" => i[t] < Len(l) /\ Plain(l, 1, i[t])
        /\ pc[t] = "test" => FirstBlank(l, i[t])
        /\ pc[t] = "take" => \E s \in 1 .. Len(l) :
              /\ FirstBlank(l, s) /\ s <= i[t] /\ i[t] < Len(l)
              /\ Plain(l, s + 1, i[t]) /\ arg[t] = SubSeq(l, s + 1, i[t])
        /\ pc[t] = "clear" => Arguments(l) = [retval |-> 0, arg |-> arg[t]]
        /\ pc[t] = "got" /\ << >> \notin Words(l) => Answer(t) = Arguments(l)

(* What t_read has copied of it, and what the program finds.               *)
Follows(t) ==
    /\ pc[t] \in PCs \ {"take", "clear", "got"} => arg[t] = << >>
    /\ fresh[t] =>
          /\ line[t] \in Lines /\ pc[t] # "shell"
          /\ pc[t] = "copy" =>
                /\ Printed(line[t], buf[t])
                /\ \A k \in 0 .. i[t] - 1 : get_args_buf[k] = buf[t][k]
          /\ pc[t] \in {"entered", "program", "scan", "test", "take"} =>
                Printed(line[t], get_args_buf)
          /\ nbytes[t] = CELLS => Asked(t)

LineKept == \A t \in Terms : Follows(t)

LEMMA LineFacts ==
    ASSUME NEW l \in Lines
    PROVE  /\ l \in Seq(STRING) /\ Len(l) \in Nat /\ 1 <= Len(l) /\ Len(l) <= CELLS
           /\ \A k \in 1 .. Len(l) : (l[k] = NEWLINE <=> k = Len(l)) /\ l[k] # NUL
           /\ l[Len(l)] = NEWLINE /\ Len(l) \in 1 .. Len(l) /\ l # << >>
<1>1. l \in Seq(STRING) /\ Len(l) \in 1 .. CELLS
  BY ArgsAssumption
<1>2. Len(l) \in Nat /\ 1 <= Len(l) /\ Len(l) <= CELLS /\ Len(l) \in 1 .. Len(l)
  BY <1>1, Sizes0, SMT
<1>3. \A k \in 1 .. Len(l) : (l[k] = NEWLINE <=> k = Len(l)) /\ l[k] # NUL
  BY ArgsAssumption
<1> QED  BY <1>1, <1>2, <1>3, EmptySeq

(* A word ends where the first blank or '\n' is.                           *)
LEMMA WordIs ==
    ASSUME NEW l \in Lines, NEW k \in 1 .. Len(l), NEW e \in k .. Len(l),
           l[e] \in Ends, Plain(l, k, e - 1)
    PROVE  WordFrom(l, k) = SubSeq(l, k, e - 1)
<1> DEFINE IsEnd(m) == l[m] \in {SPACE, NEWLINE} /\ \A j \in k .. m - 1 : l[j] \notin {SPACE, NEWLINE}
           end == CHOOSE m \in k .. Len(l) : IsEnd(m)
<1>1. Len(l) \in Nat
  BY LineFacts
<1>2. IsEnd(e)
  BY DEF Ends, Plain
<1>3. end \in k .. Len(l) /\ IsEnd(end)
  <2> HIDE DEF IsEnd
  <2> QED  BY <1>2
<1>4. end = e
  <2> HIDE DEF end
  <2>1. ~(end < e)
    BY <1>1, <1>2, <1>3
  <2>2. ~(e < end)
    BY <1>1, <1>2, <1>3
  <2> QED  BY <1>1, <1>3, <2>1, <2>2
<1> QED  BY <1>4 DEF WordFrom

LEMMA NoArguments ==
    ASSUME NEW l \in Lines, Plain(l, 1, Len(l) - 1)
    PROVE  Arguments(l) = [retval |-> FAILURE, arg |-> << >>]
<1>1. \A k \in 2 .. Len(l) : ~WordStart(l, k)
  <2> SUFFICES ASSUME NEW k \in 2 .. Len(l) PROVE ~WordStart(l, k)
    OBVIOUS
  <2>1. k # 1 /\ k - 1 \in 1 .. Len(l) - 1
    BY LineFacts
  <2> QED  BY <2>1 DEF WordStart, Plain, Ends
<1> QED  BY <1>1 DEF Arguments

LEMMA FirstArgument ==
    ASSUME NEW l \in Lines, NEW s \in 1 .. Len(l), FirstBlank(l, s)
    PROVE  Arguments(l) = [retval |-> 0, arg |-> WordFrom(l, s + 1)]
<1> DEFINE starts == {k \in 2 .. Len(l) : WordStart(l, k)}
           first == CHOOSE k \in starts : \A m \in starts : k <= m
<1>1. Len(l) \in Nat /\ s \in 1 .. Len(l) - 1 /\ l[s] = SPACE /\ Plain(l, 1, s - 1)
  BY LineFacts DEF FirstBlank
<1>2. s + 1 \in starts
  BY <1>1 DEF WordStart
<1>3. ASSUME NEW m \in starts PROVE s + 1 <= m
  <2>1. m \in 2 .. Len(l) /\ l[m - 1] = SPACE
    BY <1>1 DEF WordStart
  <2>2. ~(m - 1 \in 1 .. s - 1)
    BY <1>1, <2>1 DEF Plain, Ends
  <2> QED  BY <1>1, <2>1, <2>2
<1>4. starts \subseteq Nat /\ s + 1 \in Nat
  BY <1>1
<1> HIDE DEF starts
<1>5. first \in starts /\ \A m \in starts : first <= m
  BY <1>2, <1>3
<1> HIDE DEF first
<1>6. first = s + 1
  BY <1>2, <1>3, <1>4, <1>5, SMT
<1> QED  BY <1>2, <1>6 DEF Arguments, starts, first

LEMMA EmptyWord ==
    ASSUME NEW l \in Lines, NEW s \in 1 .. Len(l), FirstBlank(l, s), l[s + 1] = SPACE
    PROVE  << >> \in Words(l)
<1>1. Len(l) \in Nat /\ s \in 1 .. Len(l) - 1 /\ l[s] = SPACE
  BY LineFacts DEF FirstBlank
<1>2. s + 1 \in 1 .. Len(l) /\ WordStart(l, s + 1) /\ s + 1 \in s + 1 .. Len(l)
  BY <1>1 DEF WordStart
<1>3. WordFrom(l, s + 1) = SubSeq(l, s + 1, s)
  <2>1. Plain(l, s + 1, (s + 1) - 1) /\ (s + 1) - 1 = s
    BY <1>1 DEF Plain
  <2> QED  BY <1>2, <2>1, WordIs DEF Ends
<1>4. SubSeq(l, s + 1, s) = << >>
  BY <1>1, SubSeqEmpty
<1> QED  BY <1>2, <1>3, <1>4 DEF Words

(* What a step of one terminal leaves of another: its own variables, and   *)
(* the buffer, or else the other's line is no longer fresh.                *)
Kept(u) ==
    /\ buf'[u] = buf[u] /\ pc'[u] = pc[u] /\ i'[u] = i[u] /\ nbytes'[u] = nbytes[u]
    /\ arg'[u] = arg[u] /\ retval'[u] = retval[u] /\ line'[u] = line[u]
    /\ fresh'[u] => fresh[u] /\ get_args_buf' = get_args_buf

LEMMA KeptFollows ==
    ASSUME NEW u \in Terms, Follows(u), Kept(u)
    PROVE  Follows(u)'
BY Zenon DEF Follows, Kept, Asked, Answer

Writes(t) == CopyCell(t) \/ ClearCell(t)

LEMMA OthersKept ==
    ASSUME IInv, NEW t \in Terms, NEW u \in Terms, u # t,
           \/ \E l \in Lines : ReadLine(t, l)
           \/ Writes(t) \/ NextLine(t) \/ Execute(t)
           \/ \E n \in Sizes : GetArgs(t, n)
           \/ Scan(t) \/ TestStart(t) \/ Take(t) \/ GoOn(t) \/ Halt(t)
    PROVE  Kept(u)
<1> USE DEF IInv, TypeOK, Kept, Goto
<1>1. CASE \E l \in Lines : ReadLine(t, l)
  BY <1>1 DEF ReadLine
<1>2. CASE Writes(t)
  <2>1. fresh'[u] = FALSE
    BY <1>2 DEF Writes, CopyCell, ClearCell, SetCell
  <2>2. CASE CopyCell(t)
    BY <2>1, <2>2 DEF CopyCell
  <2>3. CASE ClearCell(t)
    BY <2>1, <2>3 DEF ClearCell, Return
  <2> QED  BY <1>2, <2>2, <2>3 DEF Writes
<1>3. CASE NextLine(t)
  BY <1>3 DEF NextLine, Forget
<1>4. CASE Execute(t)
  BY <1>4 DEF Execute
<1>5. CASE \E n \in Sizes : GetArgs(t, n)
  BY <1>5 DEF GetArgs
<1>6. CASE Scan(t)
  BY <1>6 DEF Scan, Return
<1>7. CASE TestStart(t)
  BY <1>7 DEF TestStart, Return
<1>8. CASE Take(t)
  BY <1>8 DEF Take
<1>9. CASE GoOn(t) \/ Halt(t)
  BY <1>9 DEF GoOn, Halt, Leave, Forget
<1> QED  BY <1>1, <1>2, <1>3, <1>4, <1>5, <1>6, <1>7, <1>8, <1>9

LEMMA EnteredPrinted ==
    ASSUME NEW l \in Lines, NEW b
    PROVE  Printed(l, Entered(b, l))
<1> SUFFICES ASSUME NEW k \in 1 .. Len(l)
             PROVE  Entered(b, l)[k - 1] = IF l[k] = SPACE THEN NUL ELSE l[k]
  BY DEF Printed
<1>1. k - 1 \in Cells /\ ~(k - 1 >= Len(l)) /\ (k - 1) + 1 = k
  BY LineFacts, Sizes0 DEF Cells
<1> QED  BY <1>1 DEF Entered

LEMMA CopiedPrinted ==
    ASSUME NEW l \in Lines, NEW b, NEW c, Printed(l, b), \A k \in Cells : c[k] = b[k]
    PROVE  Printed(l, c)
<1> SUFFICES ASSUME NEW k \in 1 .. Len(l) PROVE c[k - 1] = b[k - 1]
  BY DEF Printed
<1>1. k - 1 \in Cells
  BY LineFacts, Sizes0 DEF Cells
<1> QED  BY <1>1

(* The cell the program looks at holds the line's letter, or a '\0' for a  *)
(* blank of the line.                                                      *)
LEMMA CellOfLine ==
    ASSUME NEW l \in Lines, NEW b, Printed(l, b), NEW k \in Nat, k < Len(l)
    PROVE  /\ k \in Cells /\ k + 1 \in 1 .. Len(l)
           /\ b[k] = NUL <=> l[k + 1] = SPACE
           /\ b[k] # NUL => b[k] = l[k + 1]
           /\ b[k] = NEWLINE <=> l[k + 1] = NEWLINE
           /\ b[k] # SPACE
<1>1. k \in Cells /\ k + 1 \in 1 .. Len(l) /\ (k + 1) - 1 = k
  BY LineFacts, Sizes0 DEF Cells
<1>2. b[k] = IF l[k + 1] = SPACE THEN NUL ELSE l[k + 1]
  BY <1>1 DEF Printed
<1>3. l[k + 1] # NUL
  BY <1>1, LineFacts
<1> QED  BY <1>1, <1>2, <1>3, Characters

LEMMA PlainMore ==
    ASSUME NEW l, NEW from \in Int, NEW k \in Int, Plain(l, from, k), l[k + 1] \notin Ends
    PROVE  Plain(l, from, k + 1)
<1> SUFFICES ASSUME NEW j \in from .. k + 1 PROVE l[j] \notin Ends
  BY DEF Plain
<1>1. j \in from .. k \/ j = k + 1
  OBVIOUS
<1> QED  BY <1>1 DEF Plain

LEMMA SubSeqMore ==
    ASSUME NEW l \in Lines, NEW from \in 1 .. Len(l), NEW k \in from .. Len(l)
    PROVE  SubSeq(l, from, k) = Append(SubSeq(l, from, k - 1), l[k])
<1>1. l \in Seq(STRING) /\ Len(l) \in Nat
  BY LineFacts
<1>2. SubSeq(l, from, k) = SubSeq(l, from, k - 1) \o << l[k] >>
  BY <1>1, SubSeqRecursiveSecond
<1>3. SubSeq(l, from, k - 1) \in Seq(STRING)
  <2>1. \A j \in from .. k - 1 : l[j] \in STRING
    BY <1>1, ElementOfSeq
  <2> QED  BY <1>1, <2>1, SubSeqProperties
<1>4. l[k] \in STRING
  BY <1>1, ElementOfSeq
<1> QED  BY <1>2, <1>3, <1>4, AppendIsConcat

(* t_read's loop copies every cell of the line.                            *)
LEMMA CopyFollows ==
    ASSUME IInv, NEW t \in Terms, Follows(t), CopyCell(t)
    PROVE  Follows(t)'
<1>1. /\ pc[t] = "copy" /\ SetCell(t, buf[t][i[t]]) /\ i[t] \in Cells
      /\ \/ pc'[t] = "copy" /\ i'[t] = i[t] + 1
         \/ pc'[t] = "entered" /\ i[t] = CELLS - 1
      /\ UNCHANGED << buf, nbytes, arg, retval, line >>
  BY Sizes0 DEF CopyCell, Copied, Goto, IInv, TypeOK, Inside, Cells
<1>2. /\ get_args_buf'[i[t]] = buf[t][i[t]]
      /\ \A k \in Cells : k # i[t] => get_args_buf'[k] = get_args_buf[k]
      /\ fresh'[t] => fresh[t]
  BY <1>1 DEF SetCell, IInv, TypeOK
<1>3. arg'[t] = << >>
  BY <1>1 DEF Follows, PCs
<1>4. ASSUME fresh'[t]
      PROVE  /\ line[t] \in Lines /\ Printed(line[t], buf[t])
             /\ \A k \in 0 .. i[t] : get_args_buf'[k] = buf[t][k]
  <2>1. /\ line[t] \in Lines /\ Printed(line[t], buf[t])
        /\ \A k \in 0 .. i[t] - 1 : get_args_buf[k] = buf[t][k]
    BY <1>1, <1>2, <1>4 DEF Follows
  <2>2. \A k \in 0 .. i[t] : k \in Cells /\ (k = i[t] \/ k \in 0 .. i[t] - 1)
    BY <1>1, Sizes0 DEF Cells
  <2> QED  BY <1>2, <2>1, <2>2
<1>5. CASE pc'[t] = "copy" /\ i'[t] = i[t] + 1
  <2>1. fresh'[t] => \A k \in 0 .. i'[t] - 1 : get_args_buf'[k] = buf[t][k]
    BY <1>1, <1>4, <1>5 DEF Cells
  <2> QED  BY <1>1, <1>3, <1>4, <1>5, <2>1 DEF Follows, Asked
<1>6. CASE pc'[t] = "entered" /\ i[t] = CELLS - 1
  <2>1. fresh'[t] => Printed(line[t], get_args_buf')
    BY <1>4, <1>6, CopiedPrinted, Sizes0 DEF Cells
  <2> QED  BY <1>1, <1>3, <1>4, <1>6, <2>1 DEF Follows, Asked
<1> QED  BY <1>1, <1>5, <1>6

(* The scan stops at the first blank of the line or, in a line of one      *)
(* word, at its end.                                                       *)
LEMMA ScanFollows ==
    ASSUME IInv, NEW t \in Terms, Follows(t), Scan(t)
    PROVE  Follows(t)'
<1> DEFINE l == line[t]
           c == get_args_buf[i[t]]
<1>1. /\ pc[t] = "scan" /\ i[t] \in Nat /\ arg[t] = << >>
      /\ UNCHANGED << get_args_buf, buf, nbytes, arg, line, fresh >>
  BY Sizes0 DEF Scan, Follows, PCs, IInv, TypeOK
<1>2. \/ i[t] = nbytes[t] /\ pc'[t] = "test" /\ i'[t] = 0
      \/ c = NEWLINE /\ pc'[t] = "got" /\ retval'[t] = FAILURE
      \/ c \in Separators /\ pc'[t] = "test" /\ i'[t] = i[t] + 1
      \/ c \notin Separators \cup {NEWLINE} /\ pc'[t] = "scan" /\ i'[t] = i[t] + 1
  BY Zenon DEF Scan, Return, Goto, IInv, TypeOK
<1>3. fresh[t] => l \in Lines /\ Printed(l, get_args_buf)
  BY <1>1 DEF Follows
<1>4. ASSUME fresh[t], nbytes[t] = CELLS PROVE Asked(t)'
  <2>1. l \in Lines /\ Printed(l, get_args_buf) /\ i[t] < Len(l) /\ Plain(l, 1, i[t])
    BY <1>1, <1>3, <1>4 DEF Follows, Asked
  <2> HIDE DEF l
  <2>2. Len(l) \in Nat /\ Len(l) <= CELLS /\ CELLS \in Nat /\ i[t] # nbytes[t]
    BY <1>1, <1>4, <2>1, LineFacts, Sizes0
  <2>3. /\ i[t] + 1 \in 1 .. Len(l)
        /\ c = NUL <=> l[i[t] + 1] = SPACE
        /\ c # NUL => c = l[i[t] + 1]
        /\ c = NEWLINE <=> l[i[t] + 1] = NEWLINE
        /\ c # SPACE
    BY <1>1, <2>1, CellOfLine
  <2>4. l[i[t] + 1] = NEWLINE <=> i[t] + 1 = Len(l)
    BY <2>1, <2>3, LineFacts
  <2>5. CASE c = NEWLINE /\ pc'[t] = "got" /\ retval'[t] = FAILURE
    <3>1. i[t] = Len(l) - 1
      BY <1>1, <2>2, <2>3, <2>4, <2>5
    <3>2. Arguments(l) = [retval |-> FAILURE, arg |-> << >>]
      BY <2>1, <3>1, NoArguments
    <3> QED  BY <1>1, <2>5, <3>2 DEF Asked, Answer, l
  <2>6. CASE c \in Separators /\ pc'[t] = "test" /\ i'[t] = i[t] + 1
    <3>1. l[i[t] + 1] = SPACE /\ i[t] + 1 # Len(l)
      BY <2>3, <2>4, <2>6, Characters DEF Separators
    <3>2. i[t] + 1 \in 1 .. Len(l) - 1 /\ (i[t] + 1) - 1 = i[t]
      BY <1>1, <2>2, <2>3, <3>1
    <3>3. FirstBlank(l, i[t] + 1)
      BY <2>1, <3>1, <3>2 DEF FirstBlank
    <3> QED  BY <1>1, <2>6, <3>3 DEF Asked, l
  <2>7. CASE c \notin Separators \cup {NEWLINE} /\ pc'[t] = "scan" /\ i'[t] = i[t] + 1
    <3>1. l[i[t] + 1] \notin Ends /\ i[t] + 1 # Len(l)
      BY <2>3, <2>4, <2>7 DEF Separators, Ends
    <3>2. Plain(l, 1, i[t] + 1) /\ i[t] + 1 < Len(l)
      BY <1>1, <2>1, <2>2, <2>3, <3>1, PlainMore
    <3> QED  BY <1>1, <2>7, <3>2 DEF Asked, l
  <2> QED  BY <1>2, <2>2, <2>5, <2>6, <2>7
<1> QED  BY <1>1, <1>2, <1>3, <1>4 DEF Follows, PCs

(* A '\0' where the argument should start is a second blank.               *)
LEMMA TestFollows ==
    ASSUME IInv, NEW t \in Terms, Follows(t), TestStart(t)
    PROVE  Follows(t)'
<1> DEFINE l == line[t]
           c == get_args_buf[i[t]]
<1>1. /\ pc[t] = "test" /\ i[t] \in Nat /\ arg[t] = << >>
      /\ UNCHANGED << get_args_buf, buf, nbytes, arg, line, fresh >>
  BY Sizes0 DEF TestStart, Follows, PCs, IInv, TypeOK
<1>2. \/ pc'[t] = "got"
      \/ pc'[t] = "take" /\ i'[t] = i[t]
  BY Zenon DEF TestStart, Return, Goto, IInv, TypeOK
<1>3. fresh[t] => l \in Lines /\ Printed(l, get_args_buf)
  BY <1>1 DEF Follows
<1>4. ASSUME fresh[t], nbytes[t] = CELLS PROVE Asked(t)'
  <2>1. l \in Lines /\ Printed(l, get_args_buf) /\ FirstBlank(l, i[t])
    BY <1>1, <1>3, <1>4 DEF Follows, Asked
  <2>2. /\ Len(l) \in Nat /\ i[t] \in 1 .. Len(l) - 1
        /\ i[t] < Len(l) /\ i[t] \in 1 .. Len(l)
    BY <2>1, LineFacts DEF FirstBlank
  <2>3. i[t] \in Cells /\ (c = NUL <=> l[i[t] + 1] = SPACE)
    BY <1>1, <2>1, <2>2, CellOfLine
  <2>4. \/ c = NUL /\ pc'[t] = "got"
        \/ c # NUL /\ pc'[t] = "take" /\ i'[t] = i[t]
    BY <2>3, Zenon DEF TestStart, Return, Goto, IInv, TypeOK
  <2>5. CASE c = NUL /\ pc'[t] = "got"
    <3>1. << >> \in Words(l)
      BY <2>1, <2>2, <2>3, <2>5, EmptyWord
    <3> QED  BY <1>1, <2>5, <3>1 DEF Asked
  <2>6. CASE c # NUL /\ pc'[t] = "take" /\ i'[t] = i[t]
    <3>1. Plain(l, i[t] + 1, i[t]) /\ SubSeq(l, i[t] + 1, i[t]) = << >>
      BY <1>1, SubSeqEmpty DEF Plain
    <3>2. \E s \in 1 .. Len(l) :
             /\ FirstBlank(l, s) /\ s <= i[t] /\ i[t] < Len(l)
             /\ Plain(l, s + 1, i[t]) /\ arg[t] = SubSeq(l, s + 1, i[t])
      <4>1. i[t] <= i[t]
        BY <1>1
      <4> QED  BY <1>1, <2>1, <2>2, <3>1, <4>1, Zenon
    <3> QED  BY <1>1, <2>6, <3>2 DEF Asked
  <2> QED  BY <2>4, <2>5, <2>6
<1> QED  BY <1>1, <1>2, <1>3, <1>4 DEF Follows, PCs

(* The letters up to the next blank, or to the end of the line, are the    *)
(* word after the command.                                                 *)
LEMMA TakeFollows ==
    ASSUME IInv, NEW t \in Terms, Follows(t), Take(t)
    PROVE  Follows(t)'
<1> DEFINE l == line[t]
           c == get_args_buf[i[t]]
           more == i[t] < nbytes[t] /\ c \notin {NUL, NEWLINE}
<1>1. /\ pc[t] = "take" /\ i[t] \in Nat
      /\ UNCHANGED << get_args_buf, buf, nbytes, line, fresh >>
  BY Sizes0 DEF Take, IInv, TypeOK
<1>2. /\ more => pc'[t] = "take" /\ i'[t] = i[t] + 1 /\ arg'[t] = Append(arg[t], c)
      /\ ~more => pc'[t] = "clear" /\ arg'[t] = arg[t]
  <2> HIDE DEF more
  <2>1. /\ arg' = [arg EXCEPT ![t] = IF more THEN Append(@, get_args_buf[i[t]]) ELSE @]
        /\ IF more THEN Goto(t, "take", i[t] + 1) ELSE Goto(t, "clear", 0)
    BY DEF Take, more
  <2> QED  BY <2>1 DEF Goto, IInv, TypeOK
<1>3. fresh[t] => l \in Lines /\ Printed(l, get_args_buf)
  BY <1>1 DEF Follows
<1>4. ASSUME fresh[t], nbytes[t] = CELLS PROVE Asked(t)'
  <2>1. PICK s \in 1 .. Len(l) :
           /\ FirstBlank(l, s) /\ s <= i[t] /\ i[t] < Len(l)
           /\ Plain(l, s + 1, i[t]) /\ arg[t] = SubSeq(l, s + 1, i[t])
    BY <1>1, <1>4 DEF Follows, Asked
  <2>2. /\ l \in Lines /\ Printed(l, get_args_buf)
        /\ Len(l) \in Nat /\ Len(l) <= CELLS /\ CELLS \in Nat
    BY <1>3, <1>4, LineFacts, Sizes0
  <2> HIDE DEF l
  <2>3. /\ i[t] + 1 \in 1 .. Len(l)
        /\ c = NUL <=> l[i[t] + 1] = SPACE
        /\ c # NUL => c = l[i[t] + 1]
        /\ c = NEWLINE <=> l[i[t] + 1] = NEWLINE
    BY <1>1, <2>1, <2>2, CellOfLine
  <2>4. i[t] + 1 \in s + 1 .. Len(l) /\ s + 1 \in 1 .. Len(l) /\ i[t] < nbytes[t]
    BY <1>1, <1>4, <2>1, <2>2
  <2>5. CASE more
    <3>1. c = l[i[t] + 1] /\ l[i[t] + 1] \notin Ends /\ i[t] + 1 # Len(l)
      BY <2>2, <2>3, <2>5, LineFacts DEF Ends
    <3>2. Plain(l, s + 1, i[t] + 1) /\ s <= i[t] + 1 /\ i[t] + 1 < Len(l)
      BY <1>1, <2>1, <2>2, <2>3, <2>4, <3>1, PlainMore
    <3>3. SubSeq(l, s + 1, i[t] + 1) = Append(arg[t], c)
      <4>1. SubSeq(l, s + 1, i[t] + 1) = Append(SubSeq(l, s + 1, (i[t] + 1) - 1), l[i[t] + 1])
        BY <2>2, <2>4, SubSeqMore
      <4>2. (i[t] + 1) - 1 = i[t]
        BY <1>1
      <4> QED  BY <2>1, <3>1, <4>1, <4>2
    <3> QED  BY <1>1, <1>2, <2>1, <2>5, <3>2, <3>3 DEF Asked, l
  <2>6. CASE ~more
    <3>1. l[i[t] + 1] \in Ends /\ (i[t] + 1) - 1 = i[t]
      BY <1>1, <2>3, <2>4, <2>6 DEF Ends
    <3>2. WordFrom(l, s + 1) = arg[t]
      BY <2>1, <2>2, <2>4, <3>1, WordIs
    <3>3. Arguments(l) = [retval |-> 0, arg |-> arg[t]]
      BY <2>1, <2>2, <3>2, FirstArgument
    <3> QED  BY <1>1, <1>2, <2>6, <3>3 DEF Asked, l
  <2> QED  BY <2>5, <2>6
<1>5. pc'[t] \in {"take", "clear"}
  BY <1>2
<1> QED  BY <1>1, <1>3, <1>4, <1>5 DEF Follows, PCs

LEMMA ClearFollows ==
    ASSUME IInv, NEW t \in Terms, Follows(t), ClearCell(t)
    PROVE  Follows(t)'
<1>1. /\ pc[t] = "clear"
      /\ fresh'[t] => fresh[t]
      /\ pc'[t] = "clear" \/ (pc'[t] = "got" /\ retval'[t] = 0)
      /\ UNCHANGED << buf, nbytes, arg, line >>
  BY DEF ClearCell, SetCell, Return, Goto, IInv, TypeOK
<1>2. fresh'[t] /\ nbytes[t] = CELLS => Arguments(line[t]) = [retval |-> 0, arg |-> arg[t]]
  BY <1>1 DEF Follows, Asked
<1>3. fresh'[t] /\ nbytes[t] = CELLS => Asked(t)'
  BY <1>1, <1>2 DEF Asked, Answer
<1> QED  BY <1>1, <1>3 DEF Follows, PCs

LEMMA NextLineKept == IInv /\ LineKept /\ [Next]_vars => LineKept'
<1> SUFFICES ASSUME IInv, LineKept, [Next]_vars, NEW u \in Terms PROVE Follows(u)'
  BY DEF LineKept
<1> Follows(u)
  BY DEF LineKept
<1>1. CASE UNCHANGED vars
  BY <1>1 DEF vars, Follows, Asked, Answer
<1>2. ASSUME NEW t \in Terms, u # t,
             \/ \E l \in Lines : ReadLine(t, l)
             \/ Writes(t) \/ NextLine(t) \/ Execute(t)
             \/ \E n \in Sizes : GetArgs(t, n)
             \/ Scan(t) \/ TestStart(t) \/ Take(t) \/ GoOn(t) \/ Halt(t)
      PROVE  Follows(u)'
  BY <1>2, OthersKept, KeptFollows
<1>3. ASSUME NEW l \in Lines, ReadLine(u, l) PROVE Follows(u)'
  <2>1. /\ pc'[u] = "copy" /\ i'[u] = 0 /\ line'[u] = l /\ buf'[u] = Entered(buf[u], l)
        /\ arg'[u] = << >>
    BY <1>3 DEF ReadLine, Goto, Follows, PCs, IInv, TypeOK
  <2>2. Printed(l, buf'[u]) /\ \A k \in 0 .. i'[u] - 1 : get_args_buf'[k] = buf'[u][k]
    BY <2>1, EnteredPrinted
  <2> QED  BY <2>1, <2>2 DEF Follows, Asked
<1>4. ASSUME NextLine(u) \/ GoOn(u) \/ Halt(u) PROVE Follows(u)'
  <2>1. ~fresh'[u] /\ arg'[u] = << >>
    BY <1>4 DEF NextLine, GoOn, Halt, Leave, Forget, Follows, PCs, IInv, TypeOK
  <2> QED  BY <2>1 DEF Follows
<1>5. ASSUME Execute(u) PROVE Follows(u)'
  <2>1. /\ pc[u] = "entered" /\ pc'[u] = "program"
        /\ UNCHANGED << get_args_buf, nbytes, arg, retval, line, fresh >>
    BY <1>5 DEF Execute, Goto, IInv, TypeOK
  <2> QED  BY <2>1 DEF Follows, Asked, PCs
<1>6. ASSUME NEW n \in Sizes, GetArgs(u, n) PROVE Follows(u)'
  <2>1. /\ pc[u] = "program" /\ pc'[u] = "scan" /\ i'[u] = 0
        /\ UNCHANGED << get_args_buf, buf, arg, retval, line, fresh >>
    BY <1>6 DEF GetArgs, Goto, IInv, TypeOK
  <2>2. fresh[u] => line[u] \in Lines /\ 0 < Len(line[u]) /\ Plain(line[u], 1, 0)
    BY LineFacts DEF Follows, Plain
  <2> QED  BY <2>1, <2>2 DEF Follows, Asked, PCs
<1> QED
  BY <1>1, <1>2, <1>3, <1>4, <1>5, <1>6, CopyFollows, ScanFollows, TestFollows,
     TakeFollows, ClearFollows DEF Next, Writes

(* What a line's program gets from sys_getargs is the second word of that  *)
(* line, for every line and every size of the buffer, when the program     *)
(* asks once, with room for all cells, and no other terminal has read a    *)
(* line or asked since (t_read's copy, sys_getargs).                       *)
THEOREM AlwaysOwnArguments == Spec => []OwnArguments
<1>1. Init => IInv /\ LineKept
  <2>1. Init => IInv
    BY InitIInv
  <2>2. Init => LineKept
    BY DEF Init, LineKept, Follows
  <2> QED  BY <2>1, <2>2
<1>2. LineKept => OwnArguments
  BY DEF LineKept, Follows, Asked, Answer, OwnArguments
<1> QED  BY <1>1, <1>2, NextIInv, NextLineKept, PTL DEF Spec

=============================================================================
