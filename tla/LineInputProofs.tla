--------------------------- MODULE LineInputProofs ---------------------------
(***************************************************************************)
(* Proofs about LineInput for every size of the buffers, of a tab and of   *)
(* the store of saved lines.                                               *)
(*                                                                         *)
(* LineIntact says what t_read returns; the inductive invariant follows    *)
(* the line until then.  While the user types, kb_buff holds the line      *)
(* (BufferHoldsLine), and once it is entered, still does, with the only    *)
(* newline behind it (LineEntered), or holds no newline if the screen was  *)
(* cleared (ScreenCleared).  What t_read has copied in a pass is the       *)
(* beginning of that line, as long as no key fell into the pass (Copied),  *)
(* and from the newline on it is all of it (Returning).                    *)
(***************************************************************************)
EXTENDS LineInput, LeastNumber, SequenceTheorems, TLAPS

Cut(c) == IF c = Space THEN Nul ELSE c

(* Where t_read is in its pass.                                            *)
Pass ==
    /\ at \in {"copy", "test"} => i < upper_bound
    /\ at = "copy" => Len(buf) = i
    /\ at = "test" => Len(buf) = i + 1
    /\ at = "away" => buf = << >>

SavedLines == \A n \in Lines : Holds(kb_save[n], Blank) /\ ~Holds(kb_save[n], Newline)

LineEntered == ~hurried /\ entered.what = "line" =>
    /\ kb_idx = 0 /\ line = << >>
    /\ at \notin {"wipe", "leave"} =>
          /\ kb_buff[Len(entered.text)] = Newline
          /\ \A k \in Cells : kb_buff[k] = Newline => k = Len(entered.text)
          /\ \A k \in 1 .. Len(entered.text) : kb_buff[k - 1] = entered.text[k]

ScreenCleared ==
    /\ ~hurried /\ entered.what = "clear" =>
          kb_idx = 0 /\ line = << >> /\ ~Holds(kb_buff, Newline)
    /\ ~hurried /\ CLEAR_SCREEN_FLAG = 1 =>
          entered.what = "clear" /\ at \notin {"wipe", "leave"}

CopyOf(s) ==
    /\ \A k \in 1 .. Len(s) : k <= i => buf[k] = Cut(s[k])
    /\ at = "test" /\ i < Len(s) => buf[i + 1] = s[i + 1]

Copied == ~hurried /\ at \in {"copy", "test"} =>
    /\ ~Pending /\ ~keyed => CopyOf(line)
    /\ entered.what = "line" => CopyOf(entered.text)

Returning == ~hurried /\ at \in {"wipe", "leave"} =>
    /\ Pending
    /\ entered.what = "clear" => buf[1] = Nul
    /\ entered.what = "line" =>
          /\ count = Len(entered.text) + 1
          /\ \A k \in 1 .. Len(entered.text) : buf[k] = Cut(entered.text[k])
    /\ at = "wipe" => \A k \in Cells : k < i => kb_buff[k] # Newline
    /\ at = "leave" => ~Holds(kb_buff, Newline)

IInv ==
    /\ TypeOK
    /\ Pass
    /\ SavedLines
    /\ BufferHoldsLine
    /\ LineEntered
    /\ ScreenCleared
    /\ Copied
    /\ Returning

(***************************************************************************)
(* Facts about the constants, the characters and the cells.                *)
(***************************************************************************)
LEMMA LineSizes ==
    /\ B \in Nat /\ B > 1 /\ TAB \in Nat /\ Saved \in Nat /\ Saved > 0
    /\ 0 \in Cells /\ B - 1 \in Cells /\ Cells \subseteq Nat
    /\ 0 \in Lines
BY LineAssumption, SMT DEF Cells, Lines

LEMMA CharsDiffer ==
    /\ Letter \in Chars /\ Space \in Chars /\ Newline \in Chars
    /\ Blank \in Chars /\ Nul \in Chars
    /\ Letter # Newline /\ Space # Newline /\ Blank # Newline /\ Nul # Newline
    /\ Space # Nul
BY Zenon DEF Chars, Letter, Space, Newline, Blank, Nul

LEMMA EmptyLine == << >> \in Seq(Chars) /\ Len(<< >>) = 0 /\ Len(<< >>) < B
<1>1. << >> \in Seq(Chars) /\ Len(<< >>) = 0
  BY EmptySeq
<1> QED  BY <1>1, LineSizes, SMT

LEMMA FirstOfHeld ==
    ASSUME NEW cells, NEW c, Holds(cells, c)
    PROVE  /\ FirstOf(cells, c) \in Cells
           /\ cells[FirstOf(cells, c)] = c
           /\ \A m \in Cells : m < FirstOf(cells, c) => cells[m] # c
<1> DEFINE S == {k \in Cells : cells[k] = c}
<1>1. S \subseteq Nat /\ S # {}
  BY LineSizes DEF Holds
<1>2. PICK k \in S : \A m \in S : k <= m
  BY <1>1, Least
<1>3. \A m \in Cells : m < k => cells[m] # c
  <2> SUFFICES ASSUME NEW m \in Cells, m < k, cells[m] = c PROVE FALSE
    OBVIOUS
  <2>1. k <= m /\ k \in Nat /\ m \in Nat
    BY <1>2, LineSizes
  <2> QED  BY <2>1, SMT
<1> QED  BY <1>2, <1>3 DEF FirstOf

LEMMA InitIInv == Init => IInv
<1> SUFFICES ASSUME Init PROVE IInv
  OBVIOUS
<1>1. upper_bound \in 1 .. B /\ count \in 0 .. B /\ up_arrow_counter \in 0 .. Saved
  BY LineSizes, SMT DEF Init
<1>2. TypeOK
  <2>1. Len(buf) <= upper_bound
    BY <1>1, EmptyLine, SMT DEF Init
  <2> QED  BY <1>1, <2>1, EmptyLine, LineSizes, CharsDiffer
           DEF Init, TypeOK, Places, Full, Nothing
<1>3. \A k \in Cells : kb_buff[k] # Newline
  BY CharsDiffer DEF Init, Full
<1>4. Pass /\ Copied /\ Returning /\ LineEntered /\ ScreenCleared
  BY SMT DEF Init, Pass, Copied, Returning, LineEntered, ScreenCleared, Nothing
<1>5. SavedLines
  BY CharsDiffer, LineSizes DEF Init, SavedLines, Holds, Full
<1>6. BufferHoldsLine
  BY <1>3, EmptyLine, SMT DEF Init, BufferHoldsLine, Holds
<1> QED  BY <1>2, <1>4, <1>5, <1>6 DEF IInv

(***************************************************************************)
(* Keys.  A key either finds the user ahead, and then nothing is claimed   *)
(* any more, or meets the buffer with the line typed so far and t_read not *)
(* about to return.                                                        *)
(***************************************************************************)
LEMMA KeyMeets ==
    ASSUME IInv, NEW l, NEW e, Key(l, e)
    PROVE  /\ UNCHANGED << TERMINAL_READ_FLAG, displayed, at, upper_bound, i, count, buf >>
           /\ keyed' \in BOOLEAN /\ hurried' \in BOOLEAN
           /\ \/ hurried' /\ line' = << >> /\ entered' = Nothing
              \/ /\ ~hurried /\ ~hurried' /\ ~Pending
                 /\ line' = l /\ entered' = e
                 /\ at \notin {"wipe", "leave"} /\ CLEAR_SCREEN_FLAG # 1
                 /\ at \in {"copy", "test"} => ~keyed /\ keyed'
<1> DEFINE ahead == hurried \/ Pending \/ (InPass /\ keyed)
<1>1. /\ hurried' = ahead
      /\ keyed' = (~ahead /\ InPass)
      /\ line' = IF ahead THEN << >> ELSE l
      /\ entered' = IF ahead THEN Nothing ELSE e
      /\ UNCHANGED << TERMINAL_READ_FLAG, displayed, reader >>
  BY DEF Key
<1>2. ahead \in BOOLEAN /\ (~ahead /\ InPass) \in BOOLEAN
  OBVIOUS
<1>3. CASE ahead
  <2>1. hurried' /\ line' = << >> /\ entered' = Nothing
    BY <1>1, <1>3, Zenon
  <2> QED  BY <1>1, <1>2, <2>1, Zenon DEF reader
<1>4. CASE ~ahead
  <2>1. /\ ~hurried /\ ~Pending /\ ~hurried' /\ line' = l /\ entered' = e
        /\ InPass => ~keyed /\ keyed'
    BY <1>1, <1>4, Zenon
  <2>2. at \notin {"wipe", "leave"}
    BY <2>1 DEF IInv, Returning
  <2>3. CLEAR_SCREEN_FLAG # 1
    BY <2>1 DEF IInv, ScreenCleared, Pending
  <2> QED  BY <1>1, <1>2, <2>1, <2>2, <2>3, Zenon DEF reader, InPass
<1> QED  BY <1>3, <1>4

(* Once the user was ahead only the types and the saved lines count.       *)
LEMMA AheadIInv ==
    ASSUME TypeOK', Pass', SavedLines', hurried'
    PROVE  IInv'
BY DEF IInv, BufferHoldsLine, LineEntered, ScreenCleared, Copied, Returning

(* A key that changes neither the flags nor the reader keeps Pass.         *)
LEMMA KeyPass ==
    ASSUME Pass, UNCHANGED << at, upper_bound, i, buf >>
    PROVE  Pass'
BY DEF Pass

LEMMA SavedStay ==
    ASSUME SavedLines, kb_save' = kb_save
    PROVE  SavedLines'
BY DEF SavedLines

(* Characters that are typed go behind the line, and the buffer and the    *)
(* line grow alike.                                                        *)
LEMMA TypedIInv ==
    ASSUME IInv, NEW c \in {Letter, Space}, NEW n \in Nat, Typed(c, n),
           up_arrow_counter' \in 0 .. Saved
    PROVE  IInv'
<1> DEFINE m == Limit(n)
           s == [k \in 1 .. m |-> c]
<1>1. /\ Key(line \o s, entered)
      /\ kb_buff' = [k \in Cells |-> IF k \in kb_idx .. kb_idx + m - 1 THEN c ELSE kb_buff[k]]
      /\ kb_idx' = kb_idx + m
      /\ UNCHANGED << kb_save, CLEAR_SCREEN_FLAG >>
  BY DEF Typed
<1>2. c \in Chars /\ c # Newline
  BY CharsDiffer
<1>3. /\ m \in Nat /\ kb_idx \in Nat /\ kb_idx + m < B /\ kb_idx + m \in Cells
  <2>1. kb_idx \in 0 .. B - 1
    BY DEF IInv, TypeOK, Cells
  <2> QED  BY <2>1, LineSizes, SMT DEF Limit, Cells
<1> HIDE DEF m
<1>4. s \in Seq(Chars) /\ Len(s) = m /\ \A k \in 1 .. m : s[k] = c
  BY <1>2, <1>3, SMT
<1>5. /\ UNCHANGED << TERMINAL_READ_FLAG, displayed, at, upper_bound, i, count, buf >>
      /\ keyed' \in BOOLEAN /\ hurried' \in BOOLEAN
      /\ \/ hurried' /\ line' = << >> /\ entered' = Nothing
         \/ /\ ~hurried /\ ~hurried' /\ ~Pending
            /\ line' = line \o s /\ entered' = entered
            /\ at \notin {"wipe", "leave"} /\ CLEAR_SCREEN_FLAG # 1
            /\ at \in {"copy", "test"} => ~keyed /\ keyed'
  BY <1>1, KeyMeets
<1>6. kb_buff' \in [Cells -> Chars]
  BY <1>1, <1>2 DEF IInv, TypeOK
<1>7. Pass' /\ SavedLines'
  BY <1>1, <1>5, KeyPass, SavedStay DEF IInv
<1>8. CASE hurried'
  <2>1. Nothing \in [what : {"none", "clear", "line"}, text : Seq(Chars)]
        /\ Nothing.text = << >>
    BY EmptyLine DEF Nothing
  <2>2. TypeOK'
    BY <1>1, <1>3, <1>5, <1>6, <1>8, <2>1, EmptyLine DEF IInv, TypeOK
  <2> QED  BY <1>7, <1>8, <2>2, AheadIInv
<1>9. CASE ~hurried'
  <2>1. /\ kb_idx = Len(line) /\ line \in Seq(Chars)
        /\ \A k \in 1 .. kb_idx : kb_buff[k - 1] = line[k]
        /\ ~Holds(kb_buff, Newline)
    BY <1>5, <1>9 DEF IInv, TypeOK, BufferHoldsLine
  <2>2. /\ line' \in Seq(Chars) /\ Len(line') = kb_idx + m
        /\ \A k \in 1 .. kb_idx + m :
              line'[k] = IF k <= kb_idx THEN line[k] ELSE s[k - kb_idx]
    <3> HIDE DEF s
    <3>1. line' = line \o s
      BY <1>5, <1>9
    <3> QED  BY <1>4, <2>1, <3>1, ConcatProperties
  <2>3. TypeOK'
    BY <1>1, <1>3, <1>5, <1>6, <1>9, <2>2 DEF IInv, TypeOK
  <2>4. BufferHoldsLine'
    <3>1. ASSUME NEW k \in 1 .. kb_idx + m PROVE kb_buff'[k - 1] = line'[k]
      <4>0. k \in Nat /\ k - 1 \in Cells
        BY <1>3, LineSizes, SMT DEF Cells
      <4>1. CASE k <= kb_idx
        <5>1. k - 1 \notin kb_idx .. kb_idx + m - 1 /\ k \in 1 .. kb_idx
          BY <1>3, <4>0, <4>1, SMT
        <5> QED  BY <1>1, <2>1, <2>2, <3>1, <4>0, <4>1, <5>1
      <4>2. CASE ~(k <= kb_idx)
        <5>1. k - 1 \in kb_idx .. kb_idx + m - 1 /\ k - kb_idx \in 1 .. m
          BY <1>3, <3>1, <4>0, <4>2, SMT
        <5> QED  BY <1>1, <1>4, <2>2, <3>1, <4>0, <4>2, <5>1
      <4> QED  BY <4>1, <4>2
    <3>2. ~Holds(kb_buff', Newline)
      BY <1>1, <1>2, <2>1 DEF Holds
    <3> QED  BY <1>1, <2>2, <3>1, <3>2 DEF BufferHoldsLine
  <2>5. LineEntered' /\ ScreenCleared' /\ Copied' /\ Returning'
    BY <1>1, <1>5, <1>9, Zenon DEF LineEntered, ScreenCleared, Copied, Returning, Pending,
                           IInv, TypeOK
  <2> QED  BY <1>7, <2>3, <2>4, <2>5 DEF IInv
<1> QED  BY <1>8, <1>9

LEMMA NothingTyped ==
    /\ Nothing \in [what : {"none", "clear", "line"}, text : Seq(Chars)]
    /\ Nothing.text = << >> /\ Nothing.what = "none"
    /\ AClear \in [what : {"none", "clear", "line"}, text : Seq(Chars)]
    /\ AClear.text = << >> /\ AClear.what = "clear"
    /\ \A s \in Seq(Chars) : /\ ALine(s) \in [what : {"none", "clear", "line"}, text : Seq(Chars)]
                             /\ ALine(s).text = s /\ ALine(s).what = "line"
BY EmptyLine DEF Nothing, AClear, ALine

LEMMA BackspaceIInv == IInv /\ KeyBackspace => IInv'
<1> SUFFICES ASSUME IInv, KeyBackspace PROVE IInv'
  OBVIOUS
<1> DEFINE l == SubSeq(line, 1, Len(line) - 1)
<1>1. /\ kb_idx > 0 /\ Key(l, entered)
      /\ kb_idx' = kb_idx - 1
      /\ kb_buff' = [kb_buff EXCEPT ![kb_idx - 1] = Blank]
      /\ up_arrow_counter' = 0
      /\ UNCHANGED << kb_save, CLEAR_SCREEN_FLAG >>
  BY DEF KeyBackspace
<1> HIDE DEF l
<1>2. /\ UNCHANGED << TERMINAL_READ_FLAG, displayed, at, upper_bound, i, count, buf >>
      /\ keyed' \in BOOLEAN /\ hurried' \in BOOLEAN
      /\ \/ hurried' /\ line' = << >> /\ entered' = Nothing
         \/ /\ ~hurried /\ ~hurried' /\ ~Pending
            /\ line' = l /\ entered' = entered
            /\ at \notin {"wipe", "leave"} /\ CLEAR_SCREEN_FLAG # 1
            /\ at \in {"copy", "test"} => ~keyed /\ keyed'
  BY <1>1, KeyMeets
<1>3. kb_idx \in Nat /\ kb_idx \in Int /\ kb_idx - 1 \in Cells
  <2>1. kb_idx \in 0 .. B - 1
    BY DEF IInv, TypeOK, Cells
  <2> QED  BY <1>1, <2>1, LineSizes, SMT DEF Cells
<1>4. /\ kb_buff' \in [Cells -> Chars] /\ kb_buff'[kb_idx - 1] = Blank
      /\ \A k \in Cells : k # kb_idx - 1 => kb_buff'[k] = kb_buff[k]
  BY <1>1, <1>3, CharsDiffer DEF IInv, TypeOK
<1>5. Pass' /\ SavedLines' /\ up_arrow_counter' \in 0 .. Saved
  BY <1>1, <1>2, KeyPass, SavedStay, LineSizes, SMT DEF IInv
<1>6. CASE hurried'
  <2>1. TypeOK'
    BY <1>1, <1>2, <1>3, <1>4, <1>5, <1>6, NothingTyped, EmptyLine DEF IInv, TypeOK
  <2> QED  BY <1>5, <1>6, <2>1, AheadIInv
<1>7. CASE ~hurried'
  <2>1. /\ kb_idx = Len(line) /\ line \in Seq(Chars) /\ Len(line) < B
        /\ \A k \in 1 .. kb_idx : kb_buff[k - 1] = line[k]
        /\ ~Holds(kb_buff, Newline)
    BY <1>2, <1>7 DEF IInv, TypeOK, BufferHoldsLine
  <2>2. /\ line' \in Seq(Chars) /\ Len(line') = kb_idx - 1
        /\ \A k \in 1 .. kb_idx - 1 : line'[k] = line[k]
    <3>1. \A k \in 1 .. Len(line) - 1 : line[k] \in Chars /\ 1 + k - 1 = k
      <4>1. \A k \in 1 .. Len(line) - 1 : k \in 1 .. Len(line) /\ 1 + k - 1 = k
        BY <1>3, <2>1, SMT
      <4> QED  BY <2>1, <4>1, ElementOfSeq
    <3>2. Len(line) - 1 \in Int /\ 1 \in Int
      BY <1>3, <2>1, SMT
    <3>3. /\ l \in Seq(Chars)
          /\ Len(l) = IF 1 <= Len(line) - 1 THEN (Len(line) - 1) - 1 + 1 ELSE 0
          /\ \A k \in 1 .. (Len(line) - 1) - 1 + 1 : l[k] = line[1 + k - 1]
      BY <3>1, <3>2, SubSeqProperties DEF l
    <3>4. Len(l) = kb_idx - 1 /\ (Len(line) - 1) - 1 + 1 = kb_idx - 1
      BY <1>1, <1>3, <2>1, <3>3, SMT
    <3>5. \A k \in 1 .. kb_idx - 1 : l[k] = line[k]
      <4>1. \A k \in 1 .. kb_idx - 1 : l[k] = line[1 + k - 1]
        BY <3>3, <3>4
      <4> QED  BY <2>1, <3>1, <4>1
    <3> QED  BY <1>2, <1>7, <3>3, <3>4, <3>5
  <2>3. Len(line') < B
    BY <1>3, <2>1, <2>2, LineSizes, SMT
  <2>4. TypeOK'
    BY <1>1, <1>2, <1>3, <1>4, <1>5, <1>7, <2>2, <2>3 DEF IInv, TypeOK
  <2>5. BufferHoldsLine'
    <3>1. ASSUME NEW k \in 1 .. kb_idx - 1 PROVE kb_buff'[k - 1] = line'[k]
      <4>1. k \in 1 .. kb_idx /\ k - 1 \in Cells /\ k - 1 # kb_idx - 1
        BY <1>3, <2>1, LineSizes, SMT DEF Cells
      <4> QED  BY <1>4, <2>1, <2>2, <4>1
    <3>2. ~Holds(kb_buff', Newline)
      BY <1>4, <2>1, CharsDiffer DEF Holds
    <3> QED  BY <1>1, <2>2, <3>1, <3>2 DEF BufferHoldsLine
  <2>6. LineEntered' /\ ScreenCleared' /\ Copied' /\ Returning'
    BY <1>1, <1>2, <1>7, Zenon DEF LineEntered, ScreenCleared, Copied, Returning, Pending,
                           IInv, TypeOK
  <2> QED  BY <1>5, <2>4, <2>5, <2>6 DEF IInv
<1> QED  BY <1>6, <1>7

(* The line that is entered is the one in the buffer, its newline is the   *)
(* only one, and what this pass of t_read has copied is its beginning.     *)
LEMMA EnterIInv == IInv /\ KeyEnter => IInv'
<1> SUFFICES ASSUME IInv, KeyEnter PROVE IInv'
  OBVIOUS
<1>1. /\ Key(<< >>, ALine(line))
      /\ kb_buff' = [kb_buff EXCEPT ![kb_idx] = Newline]
      /\ kb_save' = IF kb_idx = 0
                    THEN kb_save
                    ELSE [n \in Lines |-> IF n = 0 THEN NoNewline(kb_buff') ELSE kb_save[n - 1]]
      /\ kb_idx' = 0 /\ up_arrow_counter' = 0
      /\ UNCHANGED CLEAR_SCREEN_FLAG
  BY DEF KeyEnter
<1>2. /\ UNCHANGED << TERMINAL_READ_FLAG, displayed, at, upper_bound, i, count, buf >>
      /\ keyed' \in BOOLEAN /\ hurried' \in BOOLEAN
      /\ \/ hurried' /\ line' = << >> /\ entered' = Nothing
         \/ /\ ~hurried /\ ~hurried' /\ ~Pending
            /\ line' = << >> /\ entered' = ALine(line)
            /\ at \notin {"wipe", "leave"} /\ CLEAR_SCREEN_FLAG # 1
            /\ at \in {"copy", "test"} => ~keyed /\ keyed'
  BY <1>1, KeyMeets
<1>3. /\ kb_idx \in Cells /\ kb_buff' \in [Cells -> Chars] /\ kb_buff'[kb_idx] = Newline
      /\ \A k \in Cells : k # kb_idx => kb_buff'[k] = kb_buff[k]
  BY <1>1, CharsDiffer DEF IInv, TypeOK
<1>4. /\ NoNewline(kb_buff') \in [Cells -> Chars]
      /\ NoNewline(kb_buff')[kb_idx] = Blank
      /\ \A k \in Cells : NoNewline(kb_buff')[k] # Newline
  BY <1>3, CharsDiffer DEF NoNewline
<1>5. kb_save' \in [Lines -> [Cells -> Chars]] /\ SavedLines'
  <2>1. \A n \in Lines : n # 0 => n - 1 \in Lines
    BY LineSizes, SMT DEF Lines
  <2>2. CASE kb_idx = 0
    BY <1>1, <2>2, SavedStay DEF IInv, TypeOK
  <2>3. CASE kb_idx # 0
    <3>1. \A n \in Lines : kb_save'[n] = IF n = 0 THEN NoNewline(kb_buff') ELSE kb_save[n - 1]
      BY <1>1, <2>3
    <3>2. kb_save' \in [Lines -> [Cells -> Chars]]
      BY <1>1, <1>4, <2>1, <2>3 DEF IInv, TypeOK
    <3>3. SavedLines'
      BY <1>3, <1>4, <2>1, <3>1 DEF IInv, SavedLines, Holds
    <3> QED  BY <3>2, <3>3
  <2> QED  BY <2>2, <2>3
<1>6. Pass' /\ up_arrow_counter' \in 0 .. Saved /\ kb_idx' \in Cells
  BY <1>1, <1>2, KeyPass, LineSizes, SMT DEF IInv
<1>7. CASE hurried'
  <2>1. TypeOK'
    BY <1>1, <1>2, <1>3, <1>5, <1>6, <1>7, NothingTyped, EmptyLine DEF IInv, TypeOK
  <2> QED  BY <1>5, <1>6, <1>7, <2>1, AheadIInv
<1>8. CASE ~hurried'
  <2>1. /\ kb_idx = Len(line) /\ line \in Seq(Chars) /\ Len(line) < B
        /\ \A k \in 1 .. kb_idx : kb_buff[k - 1] = line[k]
        /\ ~Holds(kb_buff, Newline)
    BY <1>2, <1>8 DEF IInv, TypeOK, BufferHoldsLine
  <2>2. entered' = ALine(line) /\ entered'.text = line /\ entered'.what = "line"
        /\ line' = << >> /\ entered' \in [what : {"none", "clear", "line"}, text : Seq(Chars)]
    BY <1>2, <1>8, <2>1, NothingTyped
  <2>3. TypeOK'
    BY <1>1, <1>2, <1>3, <1>5, <1>6, <1>8, <2>1, <2>2, EmptyLine DEF IInv, TypeOK
  <2>4. LineEntered'
    <3>1. ASSUME NEW k \in 1 .. kb_idx PROVE kb_buff'[k - 1] = line[k]
      <4>1. k - 1 \in Cells /\ k - 1 # kb_idx
        BY <1>3, LineSizes, SMT DEF Cells
      <4> QED  BY <1>3, <2>1, <4>1
    <3>2. \A k \in Cells : kb_buff'[k] = Newline => k = kb_idx
      BY <1>3, <2>1 DEF Holds
    <3> QED  BY <1>1, <1>3, <2>1, <2>2, <3>1, <3>2 DEF LineEntered
  <2>5. BufferHoldsLine' /\ ScreenCleared' /\ Returning'
    BY <1>1, <1>2, <1>8, <2>2 DEF BufferHoldsLine, ScreenCleared, Returning, Pending
  <2>6. Copied'
    <3>1. SUFFICES ASSUME at \in {"copy", "test"} PROVE CopyOf(line)
      BY <1>2, <1>8, <2>2 DEF Copied, CopyOf, Pending
    <3>2. ~keyed /\ ~hurried /\ ~Pending
      BY <1>2, <1>8, <3>1
    <3> QED  BY <3>1, <3>2 DEF IInv, Copied
  <2> QED  BY <1>5, <1>6, <2>3, <2>4, <2>5, <2>6 DEF IInv
<1> QED  BY <1>7, <1>8

(* A saved line ends at a blank, so the line brought back fits the buffer. *)
LEMMA UpIInv == IInv /\ KeyUp => IInv'
<1> SUFFICES ASSUME IInv, KeyUp PROVE IInv'
  OBVIOUS
<1> DEFINE saved == kb_save[up_arrow_counter]
           end == IF Holds(saved, Blank) THEN FirstOf(saved, Blank) ELSE B
           s == [k \in 1 .. end |-> saved[k - 1]]
<1>1. PICK last \in {k \in Cells : saved[k] = Blank} \cup {B - 1} :
        kb_buff' = [k \in Cells |-> IF k <= last THEN saved[k] ELSE kb_buff[k]]
  BY DEF KeyUp
<1>2. /\ up_arrow_counter < Saved /\ Key(s, entered)
      /\ kb_idx' = end /\ up_arrow_counter' = up_arrow_counter + 1
      /\ UNCHANGED << kb_save, CLEAR_SCREEN_FLAG >>
  BY DEF KeyUp
<1>3. up_arrow_counter \in Lines /\ up_arrow_counter' \in 0 .. Saved
  <2>1. up_arrow_counter \in 0 .. Saved
    BY DEF IInv, TypeOK
  <2> QED  BY <1>2, <2>1, LineSizes, SMT DEF Lines
<1>4. saved \in [Cells -> Chars] /\ Holds(saved, Blank) /\ ~Holds(saved, Newline)
  BY <1>3 DEF IInv, TypeOK, SavedLines
<1>5. /\ end \in Cells /\ saved[end] = Blank
      /\ \A m \in Cells : m < end => saved[m] # Blank
  BY <1>4, FirstOfHeld
<1> HIDE DEF saved, end
<1>6. end \in Nat /\ end < B /\ end <= last /\ last \in Cells
  <2>1. end \in Nat /\ end < B
    BY <1>5, LineSizes, SMT DEF Cells
  <2>2. last \in Cells /\ (saved[last] = Blank \/ last = B - 1)
    BY <1>1, LineSizes
  <2>3. ~(last < end)
    <3>1. CASE saved[last] = Blank
      BY <1>5, <2>2, <3>1
    <3>2. CASE last = B - 1
      BY <2>1, <3>2, LineSizes, SMT
    <3> QED  BY <2>2, <3>1, <3>2
  <2>4. last \in Nat
    BY <2>2, LineSizes
  <2> QED  BY <2>1, <2>2, <2>3, <2>4, SMT
<1>7. s \in Seq(Chars) /\ Len(s) = end /\ \A k \in 1 .. end : s[k] = saved[k - 1]
  <2>1. \A k \in 1 .. end : k - 1 \in Cells
    BY <1>6, LineSizes, SMT DEF Cells
  <2>2. \A k \in 1 .. end : saved[k - 1] \in Chars
    BY <1>4, <2>1
  <2> QED  BY <1>6, <2>2, SMT
<1> HIDE DEF s
<1>8. /\ UNCHANGED << TERMINAL_READ_FLAG, displayed, at, upper_bound, i, count, buf >>
      /\ keyed' \in BOOLEAN /\ hurried' \in BOOLEAN
      /\ \/ hurried' /\ line' = << >> /\ entered' = Nothing
         \/ /\ ~hurried /\ ~hurried' /\ ~Pending
            /\ line' = s /\ entered' = entered
            /\ at \notin {"wipe", "leave"} /\ CLEAR_SCREEN_FLAG # 1
            /\ at \in {"copy", "test"} => ~keyed /\ keyed'
  BY <1>2, KeyMeets
<1>9. kb_buff' \in [Cells -> Chars]
  BY <1>1, <1>4 DEF IInv, TypeOK
<1>10. Pass' /\ SavedLines'
  BY <1>2, <1>8, KeyPass, SavedStay DEF IInv
<1>11. CASE hurried'
  <2>1. TypeOK'
    BY <1>2, <1>3, <1>5, <1>8, <1>9, <1>11, NothingTyped, EmptyLine DEF IInv, TypeOK
  <2> QED  BY <1>10, <1>11, <2>1, AheadIInv
<1>12. CASE ~hurried'
  <2>1. TypeOK'
    BY <1>2, <1>3, <1>5, <1>6, <1>7, <1>8, <1>9, <1>12 DEF IInv, TypeOK
  <2>2. BufferHoldsLine'
    <3>1. ~Holds(kb_buff, Newline)
      BY <1>8, <1>12 DEF IInv, BufferHoldsLine
    <3>2. ~Holds(kb_buff', Newline)
      BY <1>1, <1>4, <3>1 DEF Holds
    <3>3. ASSUME NEW k \in 1 .. end PROVE kb_buff'[k - 1] = s[k]
      <4>1. k - 1 \in Cells /\ k - 1 <= last
        <5>1. last \in Nat
          BY <1>6, LineSizes
        <5> QED  BY <1>6, <5>1, LineSizes, SMT DEF Cells
      <4> QED  BY <1>1, <1>7, <4>1
    <3> QED  BY <1>2, <1>7, <1>8, <1>12, <3>2, <3>3 DEF BufferHoldsLine
  <2>3. LineEntered' /\ ScreenCleared' /\ Copied' /\ Returning'
    BY <1>2, <1>8, <1>12, Zenon DEF LineEntered, ScreenCleared, Copied, Returning, Pending,
                           IInv, TypeOK
  <2> QED  BY <1>10, <2>1, <2>2, <2>3 DEF IInv
<1> QED  BY <1>11, <1>12

LEMMA CtrlLIInv == IInv /\ KeyCtrlL => IInv'
<1> SUFFICES ASSUME IInv, KeyCtrlL PROVE IInv'
  OBVIOUS
<1>1. /\ Key(<< >>, AClear)
      /\ kb_buff' = [k \in Cells |-> IF k < B - 1 THEN Blank ELSE kb_buff[k]]
      /\ kb_idx' = 0 /\ up_arrow_counter' = 0 /\ CLEAR_SCREEN_FLAG' = 1
      /\ UNCHANGED kb_save
  BY DEF KeyCtrlL
<1>2. /\ UNCHANGED << TERMINAL_READ_FLAG, displayed, at, upper_bound, i, count, buf >>
      /\ keyed' \in BOOLEAN /\ hurried' \in BOOLEAN
      /\ \/ hurried' /\ line' = << >> /\ entered' = Nothing
         \/ /\ ~hurried /\ ~hurried' /\ ~Pending
            /\ line' = << >> /\ entered' = AClear
            /\ at \notin {"wipe", "leave"} /\ CLEAR_SCREEN_FLAG # 1
            /\ at \in {"copy", "test"} => ~keyed /\ keyed'
  BY <1>1, KeyMeets
<1>3. kb_buff' \in [Cells -> Chars] /\ kb_idx' \in Cells /\ up_arrow_counter' \in 0 .. Saved
  <2>1. up_arrow_counter' \in 0 .. Saved
    BY <1>1, LineSizes, SMT
  <2> QED  BY <1>1, <2>1, CharsDiffer, LineSizes DEF IInv, TypeOK
<1>4. Pass' /\ SavedLines'
  BY <1>1, <1>2, KeyPass, SavedStay DEF IInv
<1>5. TypeOK'
  BY <1>1, <1>2, <1>3, NothingTyped, EmptyLine DEF IInv, TypeOK
<1>6. CASE hurried'
  BY <1>4, <1>5, <1>6, AheadIInv
<1>7. CASE ~hurried'
  <2>1. entered'.what = "clear" /\ line' = << >>
    BY <1>2, <1>7, NothingTyped
  <2>2. ~Holds(kb_buff, Newline)
    BY <1>2, <1>7 DEF IInv, BufferHoldsLine
  <2>3. ~Holds(kb_buff', Newline)
    BY <1>1, <2>2, CharsDiffer DEF Holds
  <2>4. BufferHoldsLine' /\ LineEntered' /\ ScreenCleared' /\ Returning' /\ Copied'
    BY <1>1, <1>2, <1>7, <2>1, <2>3
       DEF BufferHoldsLine, LineEntered, ScreenCleared, Returning, Copied, Pending
  <2> QED  BY <1>4, <1>5, <2>4 DEF IInv
<1> QED  BY <1>6, <1>7

(* Of the state only up_arrow_counter, displayed and TERMINAL_READ_FLAG    *)
(* change.                                                                 *)
LEMMA StayIInv ==
    ASSUME IInv,
           up_arrow_counter' \in 0 .. Saved, displayed' \in BOOLEAN, TERMINAL_READ_FLAG' \in {0, 1},
           UNCHANGED << kb_buff, kb_idx, kb_save, CLEAR_SCREEN_FLAG, at, upper_bound, i, count,
                        buf, line, entered, keyed, hurried >>
    PROVE  IInv'
<1>1. TypeOK'
  BY DEF IInv, TypeOK
<1>2. Pass' /\ SavedLines' /\ BufferHoldsLine' /\ LineEntered' /\ ScreenCleared'
  BY DEF IInv, Pass, SavedLines, BufferHoldsLine, LineEntered, ScreenCleared, Pending
<1>3. Copied' /\ Returning'
  BY DEF IInv, Copied, CopyOf, Returning, Pending
<1> QED  BY <1>1, <1>2, <1>3 DEF IInv

LEMMA KeyboardIInv == IInv /\ Keyboard => IInv'
<1> SUFFICES ASSUME IInv, Keyboard PROVE IInv'
  OBVIOUS
<1>1. CASE KeyTab
  <2>1. up_arrow_counter' \in 0 .. Saved
    BY <1>1 DEF KeyTab, IInv, TypeOK
  <2> QED  BY <1>1, <2>1, TypedIInv, LineSizes DEF KeyTab
<1>2. ASSUME NEW c \in {Letter, Space}, KeyChar(c) PROVE IInv'
  <2>1. up_arrow_counter' \in 0 .. Saved /\ 1 \in Nat
    BY <1>2, LineSizes, SMT DEF KeyChar
  <2> QED  BY <1>2, <2>1, TypedIInv DEF KeyChar
<1>3. CASE KeyOther
  <2>1. /\ up_arrow_counter' \in 0 .. Saved
        /\ UNCHANGED << kb_buff, kb_idx, kb_save, TERMINAL_READ_FLAG, CLEAR_SCREEN_FLAG,
                        displayed, reader, ghost >>
    BY <1>3, LineSizes, SMT DEF KeyOther
  <2>2. displayed' \in BOOLEAN /\ TERMINAL_READ_FLAG' \in {0, 1}
    BY <2>1 DEF IInv, TypeOK
  <2> QED  BY <2>1, <2>2, StayIInv DEF reader, ghost
<1> QED  BY <1>1, <1>2, <1>3, BackspaceIInv, EnterIInv, UpIInv, CtrlLIInv DEF Keyboard

(***************************************************************************)
(* t_read.                                                                 *)
(***************************************************************************)
LEMMA ReadStartIInv ==
    ASSUME IInv, NEW n \in ReadSizes, ReadStart(n)
    PROVE  IInv'
<1>1. /\ at = "away" /\ at' = "look" /\ TERMINAL_READ_FLAG' = 1 /\ upper_bound' = n
      /\ hurried' = (Holds(kb_buff, Newline) \/ (hurried /\ kb_idx # 0))
      /\ line' = IF kb_idx = 0 THEN << >> ELSE line
      /\ entered' = IF CLEAR_SCREEN_FLAG = 1 THEN AClear ELSE Nothing
      /\ keyed' = FALSE
      /\ UNCHANGED << kb_buff, kb_idx, kb_save, up_arrow_counter, CLEAR_SCREEN_FLAG,
                      displayed, i, count, buf >>
  BY DEF ReadStart, keyboard
<1>2. n \in 1 .. B /\ buf = << >> /\ Len(buf) <= n
  <2>1. n \in 1 .. B
    BY LineAssumption
  <2>2. buf = << >>
    BY <1>1 DEF IInv, Pass
  <2> QED  BY <2>1, <2>2, EmptyLine, SMT
<1>3. hurried' \in BOOLEAN
  BY <1>1
<1>4. TypeOK'
  <2>1. line' \in Seq(Chars) /\ Len(line') < B
    BY <1>1, EmptyLine DEF IInv, TypeOK
  <2>2. /\ entered' \in [what : {"none", "clear", "line"}, text : Seq(Chars)]
        /\ Len(entered'.text) < B
    BY <1>1, EmptyLine, NothingTyped
  <2> QED  BY <1>1, <1>2, <1>3, <2>1, <2>2 DEF IInv, TypeOK, Places
<1>5. Pass' /\ SavedLines' /\ Copied' /\ Returning' /\ LineEntered'
  BY <1>1, NothingTyped DEF Pass, SavedLines, IInv, Copied, Returning, LineEntered
<1>6. CASE hurried'
  BY <1>4, <1>5, <1>6, AheadIInv
<1>7. CASE ~hurried'
  <2>1. ~Holds(kb_buff, Newline) /\ (kb_idx # 0 => ~hurried)
    BY <1>1, <1>7
  <2>2. kb_idx # 0 => ~Pending
    BY <2>1 DEF IInv, LineEntered, ScreenCleared, TypeOK, Pending
  <2>3. CASE kb_idx = 0
    <3>1. ScreenCleared'
      BY <1>1, <2>1, <2>3, NothingTyped DEF ScreenCleared, IInv, TypeOK
    <3>2. \A k \in 1 .. 0 : FALSE
      BY SMT
    <3>3. BufferHoldsLine'
      BY <1>1, <2>1, <2>3, <3>2, EmptyLine DEF BufferHoldsLine
    <3> QED  BY <1>4, <1>5, <3>1, <3>3 DEF IInv
  <2>4. CASE kb_idx # 0
    <3>1. ~hurried /\ ~Pending /\ CLEAR_SCREEN_FLAG # 1
      BY <2>1, <2>2, <2>4 DEF IInv, ScreenCleared, Pending
    <3>2. ScreenCleared'
      BY <1>1, <2>4, <3>1, NothingTyped DEF ScreenCleared
    <3>3. BufferHoldsLine'
      BY <1>1, <2>1, <2>4, <3>1 DEF BufferHoldsLine, IInv
    <3> QED  BY <1>4, <1>5, <3>2, <3>3 DEF IInv
  <2> QED  BY <2>3, <2>4
<1> QED  BY <1>6, <1>7

LEMMA ReadLookIInv == IInv /\ ReadLook => IInv'
<1> SUFFICES ASSUME IInv, ReadLook PROVE IInv'
  OBVIOUS
<1>1. /\ at = "look" /\ at' = "copy" /\ i' = 0 /\ buf' = << >> /\ keyed' = FALSE
      /\ UNCHANGED << kb_buff, kb_idx, kb_save, up_arrow_counter, TERMINAL_READ_FLAG,
                      CLEAR_SCREEN_FLAG, displayed, upper_bound, count, line, entered, hurried >>
  BY DEF ReadLook, keyboard
<1>2. upper_bound \in Nat /\ 0 < upper_bound
  <2>1. upper_bound \in 1 .. B
    BY DEF IInv, TypeOK
  <2> QED  BY <2>1, LineSizes, SMT
<1>3. TypeOK'
  <2>1. << >> \in Seq(Chars) /\ Len(<< >>) <= upper_bound
    BY <1>2, EmptyLine, SMT
  <2> QED  BY <1>1, <2>1, LineSizes DEF IInv, TypeOK, Places
<1>4. Pass' /\ SavedLines' /\ BufferHoldsLine' /\ LineEntered' /\ ScreenCleared' /\ Returning'
  BY <1>1, <1>2, EmptyLine
     DEF IInv, Pass, SavedLines, BufferHoldsLine, LineEntered, ScreenCleared, Returning, Pending
<1>5. Copied'
  <2>1. \A s : \A k \in 1 .. Len(s) : ~(k <= 0) \/ k \notin Nat
    BY SMT
  <2>2. \A s : \A k \in 1 .. Len(s) : ~(k <= 0)
    BY SMT
  <2> QED  BY <1>1, <2>2 DEF Copied, CopyOf
<1> QED  BY <1>3, <1>4, <1>5 DEF IInv

(* What is copied into the cell is what kb_buff has there, which is the    *)
(* next character of the line, if the line has one more.                   *)
LEMMA ReadCopyIInv == IInv /\ ReadCopy => IInv'
<1> SUFFICES ASSUME IInv, ReadCopy PROVE IInv'
  OBVIOUS
<1>1. /\ at = "copy" /\ at' = "test" /\ buf' = Append(buf, kb_buff[i])
      /\ UNCHANGED << kb_buff, kb_idx, kb_save, up_arrow_counter, TERMINAL_READ_FLAG,
                      CLEAR_SCREEN_FLAG, displayed, upper_bound, i, count,
                      line, entered, keyed, hurried >>
  BY DEF ReadCopy, keyboard, ghost
<1>2. /\ upper_bound \in Nat /\ i \in Nat /\ i < upper_bound /\ i \in Cells
      /\ kb_buff[i] \in Chars /\ buf \in Seq(Chars) /\ Len(buf) = i
  <2>1. upper_bound \in 1 .. B /\ i \in Cells
    BY DEF IInv, TypeOK
  <2> QED  BY <1>1, <2>1, LineSizes DEF IInv, TypeOK, Pass
<1>3. /\ buf' \in Seq(Chars) /\ Len(buf') = i + 1
      /\ \A k \in 1 .. i : buf'[k] = buf[k]
      /\ buf'[i + 1] = kb_buff[i]
  BY <1>1, <1>2, AppendProperties
<1>4. TypeOK'
  <2>1. Len(buf') <= upper_bound
    BY <1>2, <1>3, SMT
  <2> QED  BY <1>1, <1>3, <2>1 DEF IInv, TypeOK, Places
<1>5. Pass' /\ SavedLines' /\ BufferHoldsLine' /\ LineEntered' /\ ScreenCleared' /\ Returning'
  BY <1>1, <1>3
     DEF IInv, Pass, SavedLines, BufferHoldsLine, LineEntered, ScreenCleared, Returning, Pending
<1>6. ASSUME NEW s, Len(s) \in Nat, CopyOf(s), \A k \in 1 .. Len(s) : kb_buff[k - 1] = s[k]
      PROVE  CopyOf(s)'
  <2>1. ASSUME NEW k \in 1 .. Len(s), k <= i PROVE buf'[k] = Cut(s[k])
    <3>1. k \in 1 .. i
      BY <1>2, <2>1, SMT
    <3> QED  BY <1>3, <1>6, <2>1, <3>1 DEF CopyOf
  <2>2. ASSUME i < Len(s) PROVE buf'[i + 1] = s[i + 1]
    <3>1. i + 1 \in 1 .. Len(s) /\ (i + 1) - 1 = i
      BY <1>2, <1>6, <2>2, SMT
    <3>2. kb_buff[(i + 1) - 1] = s[i + 1]
      BY <1>6, <3>1
    <3> QED  BY <1>3, <3>1, <3>2
  <2> QED  BY <1>1, <2>1, <2>2 DEF CopyOf
<1>7. Copied'
  <2>1. ASSUME ~hurried, ~Pending, ~keyed PROVE CopyOf(line)'
    <3>1. Len(line) \in Nat /\ \A k \in 1 .. Len(line) : kb_buff[k - 1] = line[k]
      BY <2>1, LenProperties DEF IInv, TypeOK, BufferHoldsLine
    <3>2. CopyOf(line)
      BY <1>1, <2>1 DEF IInv, Copied
    <3> QED  BY <1>1, <1>6, <3>1, <3>2 DEF CopyOf
  <2>2. ASSUME ~hurried, entered.what = "line" PROVE CopyOf(entered.text)'
    <3>1. /\ Len(entered.text) \in Nat
          /\ \A k \in 1 .. Len(entered.text) : kb_buff[k - 1] = entered.text[k]
      BY <1>1, <2>2, LenProperties DEF IInv, TypeOK, LineEntered
    <3>2. CopyOf(entered.text)
      BY <1>1, <2>2 DEF IInv, Copied
    <3> QED  BY <1>1, <1>6, <3>1, <3>2 DEF CopyOf
  <2> QED  BY <1>1, <2>1, <2>2 DEF Copied, Pending
<1> QED  BY <1>4, <1>5, <1>7 DEF IInv

(* The space that is read again is the one just copied.                    *)
LEMMA CutSpace ==
    ASSUME TypeOK, Pass, at = "test"
    PROVE  /\ upper_bound \in Nat /\ i \in Nat /\ i \in Cells /\ i < upper_bound
           /\ upper_bound <= B /\ buf \in Seq(Chars) /\ Len(buf) = i + 1
           /\ SpaceCut \in Seq(Chars) /\ Len(SpaceCut) = i + 1
           /\ \A k \in 1 .. i : SpaceCut[k] = buf[k]
           /\ SpaceCut[i + 1] = IF kb_buff[i] = Space THEN Nul ELSE buf[i + 1]
<1>1. /\ upper_bound \in Nat /\ i \in Nat /\ i \in Cells /\ i < upper_bound
      /\ upper_bound <= B /\ buf \in Seq(Chars) /\ Len(buf) = i + 1
  <2>1. upper_bound \in 1 .. B /\ i \in Cells
    BY DEF TypeOK
  <2>2. upper_bound \in Nat /\ upper_bound <= B
    BY <2>1, LineSizes, SMT
  <2> QED  BY <2>1, <2>2, LineSizes DEF TypeOK, Pass
<1>2. CASE kb_buff[i] = Space
  <2>1. SpaceCut = [buf EXCEPT ![i + 1] = Nul]
    BY <1>2 DEF SpaceCut
  <2>2. i + 1 \in 1 .. Len(buf) /\ \A k \in 1 .. i : k \in 1 .. Len(buf) /\ k # i + 1
    BY <1>1, SMT
  <2>3. /\ SpaceCut \in Seq(Chars) /\ Len(SpaceCut) = Len(buf)
        /\ \A k \in 1 .. Len(buf) : SpaceCut[k] = IF k = i + 1 THEN Nul ELSE buf[k]
    BY <1>1, <2>1, <2>2, CharsDiffer, ExceptSeq
  <2> QED  BY <1>1, <1>2, <2>2, <2>3
<1>3. CASE kb_buff[i] # Space
  BY <1>1, <1>3 DEF SpaceCut
<1> QED  BY <1>1, <1>2, <1>3

LEMMA ReadOnIInv == IInv /\ ReadOn => IInv'
<1> SUFFICES ASSUME IInv, ReadOn PROVE IInv'
  OBVIOUS
<1>1. /\ at = "test" /\ kb_buff[i] # Newline /\ buf' = SpaceCut
      /\ UNCHANGED << kb_buff, kb_idx, kb_save, up_arrow_counter, TERMINAL_READ_FLAG,
                      CLEAR_SCREEN_FLAG, displayed, upper_bound, count,
                      line, entered, keyed, hurried >>
  BY DEF ReadOn, keyboard, ghost
<1>2. /\ upper_bound \in Nat /\ i \in Nat /\ i \in Cells /\ i < upper_bound
      /\ upper_bound <= B /\ buf' \in Seq(Chars) /\ Len(buf') = i + 1
      /\ \A k \in 1 .. i : buf'[k] = buf[k]
      /\ buf'[i + 1] = IF kb_buff[i] = Space THEN Nul ELSE buf[i + 1]
  BY <1>1, CutSpace DEF IInv
<1>3. \/ at' = "look" /\ i' = 0
      \/ at' = "copy" /\ i' = i + 1 /\ i + 1 < upper_bound
  <2>1. CASE PassOver
    BY <2>1 DEF ReadOn
  <2>2. CASE ~PassOver
    <3>1. i + 1 < upper_bound
      BY <1>2, <2>2, SMT DEF PassOver
    <3> QED  BY <2>2, <3>1 DEF ReadOn
  <2> QED  BY <2>1, <2>2
<1>4. i' \in Cells
  BY <1>2, <1>3, LineSizes, SMT DEF Cells
<1>5. TypeOK'
  <2>1. Len(buf') <= upper_bound
    BY <1>2, SMT
  <2> QED  BY <1>1, <1>2, <1>3, <1>4, <2>1 DEF IInv, TypeOK, Places
<1>6. Pass' /\ SavedLines' /\ BufferHoldsLine' /\ LineEntered' /\ ScreenCleared' /\ Returning'
  <2>1. Pass'
    BY <1>1, <1>2, <1>3 DEF Pass
  <2> QED  BY <1>1, <1>3, <2>1
     DEF IInv, SavedLines, BufferHoldsLine, LineEntered, ScreenCleared, Returning, Pending
<1>7. ASSUME NEW s, Len(s) \in Nat, CopyOf(s), at' = "copy",
             \A k \in 1 .. Len(s) : kb_buff[k - 1] = s[k]
      PROVE  CopyOf(s)'
  <2>1. i' = i + 1
    BY <1>3, <1>7
  <2>2. ASSUME NEW k \in 1 .. Len(s), k <= i + 1 PROVE buf'[k] = Cut(s[k])
    <3>1. CASE k = i + 1
      <4>1. i < Len(s) /\ k - 1 = i
        BY <1>2, <1>7, <3>1, SMT
      <4>2. buf[i + 1] = s[k] /\ kb_buff[i] = s[k]
        BY <1>1, <1>7, <3>1, <4>1 DEF CopyOf
      <4> QED  BY <1>2, <3>1, <4>2 DEF Cut
    <3>2. CASE k # i + 1
      <4>1. k \in 1 .. i /\ k <= i
        BY <1>2, <2>2, <3>2, SMT
      <4> QED  BY <1>2, <1>7, <4>1 DEF CopyOf
    <3> QED  BY <3>1, <3>2
  <2> QED  BY <1>7, <2>1, <2>2 DEF CopyOf
<1>8. Copied'
  <2>1. ASSUME ~hurried, ~Pending, ~keyed, at' = "copy" PROVE CopyOf(line)'
    <3>1. Len(line) \in Nat /\ \A k \in 1 .. Len(line) : kb_buff[k - 1] = line[k]
      BY <2>1, LenProperties DEF IInv, TypeOK, BufferHoldsLine
    <3>2. CopyOf(line)
      BY <1>1, <2>1 DEF IInv, Copied
    <3> QED  BY <1>1, <1>7, <2>1, <3>1, <3>2 DEF CopyOf
  <2>2. ASSUME ~hurried, entered.what = "line", at' = "copy" PROVE CopyOf(entered.text)'
    <3>1. /\ Len(entered.text) \in Nat
          /\ \A k \in 1 .. Len(entered.text) : kb_buff[k - 1] = entered.text[k]
      BY <1>1, <2>2, LenProperties DEF IInv, TypeOK, LineEntered
    <3>2. CopyOf(entered.text)
      BY <1>1, <2>2 DEF IInv, Copied
    <3> QED  BY <1>1, <1>7, <2>2, <3>1, <3>2 DEF CopyOf
  <2> QED  BY <1>1, <1>3, <2>1, <2>2 DEF Copied, Pending
<1> QED  BY <1>5, <1>6, <1>8 DEF IInv

(* The newline that is found is the one behind the line that was entered,  *)
(* so the pass has copied all of the line.                                 *)
LEMMA ReadNewlineIInv == IInv /\ ReadNewline => IInv'
<1> SUFFICES ASSUME IInv, ReadNewline PROVE IInv'
  OBVIOUS
<1>1. /\ at = "test" /\ kb_buff[i] = Newline /\ count' = i + 1 /\ i' = 0 /\ at' = "wipe"
      /\ UNCHANGED << kb_buff, kb_idx, kb_save, up_arrow_counter, TERMINAL_READ_FLAG,
                      CLEAR_SCREEN_FLAG, displayed, upper_bound, buf,
                      line, entered, keyed, hurried >>
  BY DEF ReadNewline, keyboard, ghost
<1>2. i \in Nat /\ i \in Cells /\ count' \in 0 .. B
  <2>1. i \in Nat /\ i \in Cells
    BY <1>1, CutSpace DEF IInv
  <2> QED  BY <1>1, <2>1, LineSizes, SMT DEF Cells
<1>3. TypeOK'
  BY <1>1, <1>2, LineSizes DEF IInv, TypeOK, Places
<1>4. Pass' /\ SavedLines' /\ Copied'
  BY <1>1 DEF IInv, Pass, SavedLines, Copied
<1>5. CASE hurried
  BY <1>1, <1>3, <1>4, <1>5, AheadIInv
<1>6. CASE ~hurried
  <2>1. entered.what = "line" /\ Pending
    <3>1. Holds(kb_buff, Newline)
      BY <1>1, <1>2 DEF Holds
    <3>2. Pending /\ entered.what # "clear"
      BY <1>6, <3>1 DEF IInv, BufferHoldsLine, ScreenCleared
    <3> QED  BY <3>2 DEF IInv, TypeOK, Pending
  <2>2. i = Len(entered.text) /\ CopyOf(entered.text) /\ CLEAR_SCREEN_FLAG # 1
    BY <1>1, <1>2, <1>6, <2>1 DEF IInv, LineEntered, ScreenCleared, Copied
  <2>3. \A k \in 1 .. Len(entered.text) : buf[k] = Cut(entered.text[k])
    <3>1. \A k \in 1 .. Len(entered.text) : k <= i
      BY <1>2, <2>2, SMT
    <3> QED  BY <2>2, <3>1 DEF CopyOf
  <2>4. \A k \in Cells : ~(k < 0)
    BY SMT DEF Cells
  <2>5. Returning'
    BY <1>1, <2>1, <2>2, <2>3, <2>4 DEF Returning, Pending
  <2>6. BufferHoldsLine' /\ LineEntered' /\ ScreenCleared'
    BY <1>1, <1>6, <2>1, <2>2
       DEF IInv, BufferHoldsLine, LineEntered, ScreenCleared, Pending
  <2> QED  BY <1>3, <1>4, <2>5, <2>6 DEF IInv
<1> QED  BY <1>5, <1>6

LEMMA ReadClearedIInv == IInv /\ ReadCleared => IInv'
<1> SUFFICES ASSUME IInv, ReadCleared PROVE IInv'
  OBVIOUS
<1>1. /\ at = "test" /\ CLEAR_SCREEN_FLAG = 1 /\ CLEAR_SCREEN_FLAG' = 0
      /\ buf' = [SpaceCut EXCEPT ![1] = Nul] /\ count' = i + 1 /\ i' = 0 /\ at' = "wipe"
      /\ UNCHANGED << kb_buff, kb_idx, kb_save, up_arrow_counter, TERMINAL_READ_FLAG,
                      displayed, upper_bound, line, entered, keyed, hurried >>
  BY DEF ReadCleared, keyboard, ghost
<1>2. /\ upper_bound \in Nat /\ i \in Nat /\ i \in Cells /\ i < upper_bound
      /\ SpaceCut \in Seq(Chars) /\ Len(SpaceCut) = i + 1
  BY <1>1, CutSpace DEF IInv
<1>3. buf' \in Seq(Chars) /\ Len(buf') = i + 1 /\ buf'[1] = Nul
  <2>1. 1 \in 1 .. Len(SpaceCut)
    BY <1>2, SMT
  <2> HIDE DEF SpaceCut
  <2> QED  BY <1>1, <1>2, <2>1, CharsDiffer, ExceptSeq
<1>4. Len(buf') <= upper_bound /\ count' \in 0 .. B
  BY <1>1, <1>2, <1>3, LineSizes, SMT DEF Cells
<1>5. TypeOK'
  BY <1>1, <1>2, <1>3, <1>4, LineSizes DEF IInv, TypeOK, Places
<1>6. Pass' /\ SavedLines' /\ Copied'
  BY <1>1 DEF IInv, Pass, SavedLines, Copied
<1>7. CASE hurried
  BY <1>1, <1>5, <1>6, <1>7, AheadIInv
<1>8. CASE ~hurried
  <2>1. entered.what = "clear" /\ Pending
    BY <1>1, <1>8 DEF IInv, ScreenCleared, Pending
  <2>2. \A k \in Cells : ~(k < 0)
    BY SMT DEF Cells
  <2>3. Returning'
    BY <1>1, <1>3, <2>1, <2>2 DEF Returning, Pending
  <2>4. BufferHoldsLine' /\ LineEntered' /\ ScreenCleared'
    BY <1>1, <1>8, <2>1
       DEF IInv, BufferHoldsLine, LineEntered, ScreenCleared, Pending
  <2> QED  BY <1>5, <1>6, <2>3, <2>4 DEF IInv
<1> QED  BY <1>7, <1>8

LEMMA ReadWipeIInv == IInv /\ ReadWipe => IInv'
<1> SUFFICES ASSUME IInv, ReadWipe PROVE IInv'
  OBVIOUS
<1>1. /\ at = "wipe" /\ kb_buff' = [kb_buff EXCEPT ![i] = Blank]
      /\ UNCHANGED << kb_idx, kb_save, up_arrow_counter, TERMINAL_READ_FLAG,
                      CLEAR_SCREEN_FLAG, displayed, upper_bound, count, buf,
                      line, entered, keyed, hurried >>
  BY DEF ReadWipe, keyboard, ghost
<1>2. i \in Cells /\ i \in Nat /\ i < B
  <2>1. i \in Cells
    BY DEF IInv, TypeOK
  <2> QED  BY <2>1, LineSizes, SMT DEF Cells
<1>3. /\ kb_buff' \in [Cells -> Chars] /\ kb_buff'[i] = Blank
      /\ \A k \in Cells : k # i => kb_buff'[k] = kb_buff[k]
  BY <1>1, <1>2, CharsDiffer DEF IInv, TypeOK
<1>4. \/ at' = "leave" /\ i' = 0 /\ i + 1 = B
      \/ at' = "wipe" /\ i' = i + 1 /\ i + 1 < B
  <2>1. CASE AllWiped
    BY <2>1 DEF ReadWipe, AllWiped
  <2>2. CASE ~AllWiped
    <3>1. i + 1 < B
      BY <1>2, <2>2, LineSizes, SMT DEF AllWiped
    <3> QED  BY <2>2, <3>1 DEF ReadWipe
  <2> QED  BY <2>1, <2>2
<1>5. i' \in Cells
  BY <1>2, <1>4, LineSizes, SMT DEF Cells
<1>6. TypeOK'
  BY <1>1, <1>3, <1>4, <1>5 DEF IInv, TypeOK, Places
<1>7. Pass' /\ SavedLines' /\ Copied'
  BY <1>1, <1>4 DEF IInv, Pass, SavedLines, Copied
<1>8. CASE hurried
  BY <1>1, <1>6, <1>7, <1>8, AheadIInv
<1>9. CASE ~hurried
  <2>1. \A k \in Cells : k < i + 1 => kb_buff'[k] # Newline
    <3> SUFFICES ASSUME NEW k \in Cells, k < i + 1 PROVE kb_buff'[k] # Newline
      OBVIOUS
    <3>1. CASE k = i
      BY <1>3, <3>1, CharsDiffer
    <3>2. CASE k # i
      <4>1. k < i
        BY <1>2, <3>2, LineSizes, SMT DEF Cells
      <4>2. kb_buff[k] # Newline
        BY <1>1, <1>9, <4>1 DEF IInv, Returning
      <4> QED  BY <1>3, <3>2, <4>2
    <3> QED  BY <3>1, <3>2
  <2>2. i + 1 = B => ~Holds(kb_buff', Newline)
    <3>1. i + 1 = B => \A k \in Cells : k < i + 1
      BY LineSizes, SMT DEF Cells
    <3> QED  BY <2>1, <3>1 DEF Holds
  <2>3. Pending /\ CLEAR_SCREEN_FLAG # 1
    BY <1>1, <1>9 DEF IInv, Returning, ScreenCleared
  <2>4. Returning'
    BY <1>1, <1>4, <1>9, <2>1, <2>2, <2>3 DEF IInv, Returning, Pending
  <2>5. entered.what = "clear" => ~Holds(kb_buff', Newline)
    BY <1>3, <1>9, CharsDiffer DEF IInv, ScreenCleared, Holds
  <2>6. BufferHoldsLine' /\ LineEntered' /\ ScreenCleared'
    BY <1>1, <1>4, <1>9, <2>3, <2>5
       DEF IInv, BufferHoldsLine, LineEntered, ScreenCleared, Pending
  <2> QED  BY <1>6, <1>7, <2>4, <2>6 DEF IInv
<1> QED  BY <1>8, <1>9

LEMMA ReadReturnIInv == IInv /\ ReadReturn => IInv'
<1> SUFFICES ASSUME IInv, ReadReturn PROVE IInv'
  OBVIOUS
<1>1. /\ at = "leave" /\ TERMINAL_READ_FLAG' = 0 /\ at' = "away" /\ buf' = << >>
      /\ count' = 0 /\ entered' = Nothing
      /\ UNCHANGED << kb_buff, kb_idx, kb_save, up_arrow_counter, CLEAR_SCREEN_FLAG,
                      displayed, upper_bound, i, line, keyed, hurried >>
  BY DEF ReadReturn, keyboard
<1>2. TypeOK'
  <2>1. 0 \in 0 .. B /\ 0 <= upper_bound
    <3>1. upper_bound \in 1 .. B
      BY DEF IInv, TypeOK
    <3> QED  BY <3>1, LineSizes, SMT
  <2> QED  BY <1>1, <2>1, EmptyLine, NothingTyped DEF IInv, TypeOK, Places
<1>3. Pass' /\ SavedLines' /\ Copied' /\ Returning' /\ LineEntered'
  BY <1>1, NothingTyped DEF IInv, Pass, SavedLines, Copied, Returning, LineEntered
<1>4. CASE hurried
  BY <1>1, <1>2, <1>3, <1>4, AheadIInv
<1>5. CASE ~hurried
  <2>1. /\ Pending /\ ~Holds(kb_buff, Newline) /\ CLEAR_SCREEN_FLAG # 1
    BY <1>1, <1>5 DEF IInv, Returning, ScreenCleared
  <2>2. kb_idx = 0 /\ line = << >>
    BY <1>5, <2>1 DEF IInv, LineEntered, ScreenCleared, Pending, TypeOK
  <2>3. \A k \in 1 .. 0 : FALSE
    BY SMT
  <2>4. BufferHoldsLine' /\ ScreenCleared'
    BY <1>1, <2>1, <2>2, <2>3, EmptyLine, NothingTyped DEF BufferHoldsLine, ScreenCleared
  <2> QED  BY <1>2, <1>3, <2>4 DEF IInv
<1> QED  BY <1>4, <1>5

(***************************************************************************)
(* The halting of the program, and the specification.                      *)
(***************************************************************************)
LEMMA HaltIInv ==
    ASSUME IInv, NEW base \in BOOLEAN, Halt(base)
    PROVE  IInv'
<1>1. /\ at' = "away" /\ i' = 0 /\ buf' = << >> /\ count' = 0
      /\ kb_idx' = (IF base THEN kb_idx ELSE 0) /\ line' = (IF base THEN line ELSE << >>)
      /\ entered' = Nothing /\ hurried' = (hurried \/ Pending)
      /\ UNCHANGED << kb_buff, kb_save, up_arrow_counter, TERMINAL_READ_FLAG,
                      CLEAR_SCREEN_FLAG, displayed, upper_bound, keyed >>
  BY DEF Halt
<1>2. TypeOK'
  <2>1. 0 \in 0 .. B /\ 0 <= upper_bound
    <3>1. upper_bound \in 1 .. B
      BY DEF IInv, TypeOK
    <3> QED  BY <3>1, LineSizes, SMT
  <2>2. hurried' \in BOOLEAN
    BY <1>1
  <2>3. kb_idx' \in Cells /\ line' \in Seq(Chars) /\ Len(line') < B
    BY <1>1, EmptyLine, LineSizes DEF IInv, TypeOK
  <2> QED  BY <1>1, <2>1, <2>2, <2>3, EmptyLine, LineSizes, NothingTyped
           DEF IInv, TypeOK, Places
<1>3. Pass' /\ SavedLines' /\ Copied' /\ Returning' /\ LineEntered'
  BY <1>1, NothingTyped DEF IInv, Pass, SavedLines, Copied, Returning, LineEntered
<1>4. CASE hurried'
  BY <1>2, <1>3, <1>4, AheadIInv
<1>5. CASE ~hurried'
  <2>1. ~hurried /\ ~Pending
    BY <1>1, <1>5
  <2>2. /\ kb_idx = Len(line) /\ \A k \in 1 .. kb_idx : kb_buff[k - 1] = line[k]
        /\ ~Holds(kb_buff, Newline) /\ CLEAR_SCREEN_FLAG # 1
    BY <2>1 DEF IInv, BufferHoldsLine, ScreenCleared, Pending
  <2>3. \A k \in 1 .. 0 : FALSE
    BY SMT
  <2>4. BufferHoldsLine'
    <3>1. CASE base
      BY <1>1, <2>2, <3>1 DEF BufferHoldsLine
    <3>2. CASE ~base
      BY <1>1, <2>2, <2>3, <3>2, EmptyLine DEF BufferHoldsLine
    <3> QED  BY <3>1, <3>2
  <2>5. ScreenCleared'
    BY <1>1, <2>2, NothingTyped DEF ScreenCleared
  <2> QED  BY <1>2, <1>3, <2>4, <2>5 DEF IInv
<1> QED  BY <1>4, <1>5

LEMMA NextIInv == IInv /\ [Next]_vars => IInv'
<1> SUFFICES ASSUME IInv, [Next]_vars PROVE IInv'
  OBVIOUS
<1>1. CASE Keyboard
  BY <1>1, KeyboardIInv
<1>2. ASSUME NEW n \in ReadSizes, ReadStart(n) PROVE IInv'
  BY <1>2, ReadStartIInv
<1>3. CASE t_read
  BY <1>3, ReadLookIInv, ReadCopyIInv, ReadOnIInv, ReadNewlineIInv, ReadClearedIInv,
     ReadWipeIInv, ReadReturnIInv DEF t_read
<1>4. ASSUME NEW base \in BOOLEAN, Halt(base) PROVE IInv'
  BY <1>4, HaltIInv
<1>5. CASE SwitchDisplay
  <2>1. /\ displayed' \in BOOLEAN
        /\ UNCHANGED << kb_buff, kb_idx, kb_save, up_arrow_counter, TERMINAL_READ_FLAG,
                        CLEAR_SCREEN_FLAG, at, upper_bound, i, count, buf,
                        line, entered, keyed, hurried >>
    BY <1>5 DEF SwitchDisplay, keyboard, reader, ghost
  <2>2. up_arrow_counter' \in 0 .. Saved /\ TERMINAL_READ_FLAG' \in {0, 1}
    BY <2>1 DEF IInv, TypeOK
  <2> QED  BY <2>1, <2>2, StayIInv
<1>6. CASE UNCHANGED vars
  <2>1. UNCHANGED << kb_buff, kb_idx, kb_save, up_arrow_counter, TERMINAL_READ_FLAG,
                     CLEAR_SCREEN_FLAG, displayed, at, upper_bound, i, count, buf,
                     line, entered, keyed, hurried >>
    BY <1>6 DEF vars, keyboard, reader, ghost
  <2>2. /\ up_arrow_counter' \in 0 .. Saved /\ TERMINAL_READ_FLAG' \in {0, 1}
        /\ displayed' \in BOOLEAN
    BY <2>1 DEF IInv, TypeOK
  <2> QED  BY <2>1, <2>2, StayIInv
<1> QED  BY <1>1, <1>2, <1>3, <1>4, <1>5, <1>6 DEF Next

LEMMA Invariance == Spec => []IInv
BY InitIInv, NextIInv, PTL DEF Spec

(* t_read's index stays inside kb_buff, what it has written inside the     *)
(* bytes the caller asked for, and kb_idx leaves room for the newline.     *)
THEOREM AlwaysTyped == Spec => []TypeOK
<1>1. IInv => TypeOK
  BY DEF IInv
<1> QED  BY <1>1, Invariance, PTL

(* kb_buff holds the line the user sees, whatever t_read, Ctrl+C and the   *)
(* displaying of other terminals did, unless the user was ahead.           *)
THEOREM AlwaysBufferHoldsLine == Spec => []BufferHoldsLine
<1>1. IInv => BufferHoldsLine
  BY DEF IInv
<1> QED  BY <1>1, Invariance, PTL

(* t_read returns for a line or a cleared screen only, and with the line,  *)
(* though the keys come at any point of its scan.                          *)
THEOREM AlwaysLineIntact == Spec => []LineIntact
<1>1. IInv => LineIntact
  <2> SUFFICES ASSUME IInv, at = "leave", ~hurried
               PROVE  \/ entered.what = "clear" /\ buf[1] = Nul
                      \/ /\ entered.what = "line"
                         /\ count = Len(entered.text) + 1
                         /\ \A k \in 1 .. count - 1 :
                               buf[k] = IF entered.text[k] = Space THEN Nul ELSE entered.text[k]
    BY DEF LineIntact
  <2>1. entered.what \in {"clear", "line"} /\ Len(entered.text) \in Nat
    BY LenProperties DEF IInv, TypeOK, Returning, Pending
  <2>2. CASE entered.what = "clear"
    BY <2>2 DEF IInv, Returning
  <2>3. CASE entered.what = "line"
    <3>1. /\ count = Len(entered.text) + 1
          /\ \A k \in 1 .. Len(entered.text) : buf[k] = Cut(entered.text[k])
      BY <2>3 DEF IInv, Returning
    <3>2. count - 1 = Len(entered.text)
      BY <2>1, <3>1, SMT
    <3> QED  BY <2>3, <3>1, <3>2 DEF Cut
  <2> QED  BY <2>1, <2>2, <2>3
<1> QED  BY <1>1, Invariance, PTL

(* Every saved line ends within its cells, for every size of the buffers.  *)
THEOREM AlwaysSavedLinesEnd == Spec => []SavedLinesEnd
<1>1. IInv => SavedLinesEnd
  BY DEF IInv, SavedLines, SavedLinesEnd
<1> QED  BY <1>1, Invariance, PTL

=============================================================================
