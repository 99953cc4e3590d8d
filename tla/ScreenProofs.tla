---------------------------- MODULE ScreenProofs ----------------------------
(***************************************************************************)
(* Proofs about Screen for every number of terminals and every size of the *)
(* screen.                                                                 *)
(*                                                                         *)
(* CursorResumes, CursorShown and VidmapFollows are inductive together     *)
(* with the types, with Chosen: a putc that writes has chosen video memory *)
(* or its terminal's own page, and with Steady: an update_cursor that      *)
(* nothing has overtaken is the displayed terminal's, has the place of now *)
(* and finds the registers as it left them.  Shown is inductive relative   *)
(* to them, once it is known what one character makes of a page that shows a  *)
(* text (PutShows): the text with the character behind it.                 *)
(***************************************************************************)
EXTENDS Screen, SequenceTheorems, TLAPS

Chosen == \A t \in Terms : pc[t] = "putc" => chosen[t] \in {VIDEO, t}

Steady == \A t \in Terms :
    pc[t] \in Updates /\ t \notin late =>
        /\ t = displayed_terminal
        /\ aim[t] = screen[t]
        /\ pc[t] = "low" => index = "low"
        /\ pc[t] = "high" => index = "high"
        /\ pc[t] \in {"sent", "high"} => crtc["low"] = CursorAt(aim[t])["low"]

IInv ==
    /\ TypeOK
    /\ Chosen
    /\ CursorResumes
    /\ CursorShown
    /\ Steady
    /\ VidmapFollows

(***************************************************************************)
(* Facts about the constants and about Put.                                *)
(***************************************************************************)
LEMMA ScreenSizes ==
    /\ NTerm \in Nat /\ 0 < NTerm /\ MaxOut \in Nat
    /\ 0 \in Terms /\ Terms \subseteq Mem /\ Terms \subseteq Int
    /\ VIDEO \in Mem /\ VIDEO \notin Terms /\ Unset \notin Mem
    /\ Origin \in Places /\ Start \in Places
    /\ 0 \in Cols /\ 0 \in Rows /\ 1 \in Rows
BY ScreenAssumption, ConsoleAssumption, SMT
   DEF Terms, Mem, VIDEO, Unset, Origin, Start, Places, Rows, Cols

LEMMA PageOfMem == ASSUME NEW t \in Terms PROVE PageOf(t) \in Mem
BY ScreenSizes DEF PageOf

(* Two terminals never have their pictures on the same page.               *)
LEMMA PageOfOnce ==
    ASSUME NEW t \in Terms, NEW u \in Terms, PageOf(t) = PageOf(u)
    PROVE  t = u
BY ScreenSizes DEF PageOf

LEMMA WriteTyped ==
    ASSUME NEW page \in Pages, NEW at \in Places, NEW c \in Glyphs
    PROVE  Write(page, at, c) \in Pages
<1>1. at.y \in Rows /\ at.x \in Cols
  BY DEF Places
<1>2. [page[at.y] EXCEPT ![at.x] = c] \in [Cols -> Glyphs \cup {BLANK}]
  BY <1>1 DEF Pages
<1>3. Write(page, at, c) = [page EXCEPT ![at.y] = [page[at.y] EXCEPT ![at.x] = c]]
  BY <1>1 DEF Write, Pages
<1> QED  BY <1>1, <1>2, <1>3 DEF Pages

LEMMA ScrollTyped == ASSUME NEW page \in Pages PROVE Scroll(page) \in Pages
<1>1. Blanks \in [Cols -> Glyphs \cup {BLANK}]
  BY DEF Blanks
<1>2. \A row \in Rows : row < NUM_ROWS - 1 => row + 1 \in Rows
  BY ConsoleAssumption, SMT DEF Rows
<1> QED  BY <1>1, <1>2 DEF Scroll, Pages

(* Every character leaves a page that is one, and a place on the screen.   *)
LEMMA PutTyped ==
    ASSUME NEW page \in Pages, NEW at \in Places, NEW c \in Chars
    PROVE  Put(page, at, c).page \in Pages /\ Put(page, at, c).at \in Places
<1>0. /\ at.x \in 0 .. NUM_COLS - 1 /\ at.y \in 0 .. NUM_ROWS - 1
      /\ NUM_ROWS \in Nat /\ NUM_ROWS > 1 /\ NUM_COLS \in Nat /\ NUM_COLS > 1
      /\ c # "\t" /\ c # "\r"
  BY ConsoleAssumption DEF Places, Rows, Cols, Chars
<1>1. \A row \in Rows : LineStart(row) \in Places
  BY ScreenSizes DEF LineStart, Places
<1>2. ~LastRow(at) => at.y + 1 \in Rows
  BY <1>0, SMT DEF LastRow, Rows
<1>3. at.y \in Rows /\ at.x \in Cols
  BY DEF Places
<1>4. ~LastCol(at) => [at EXCEPT !.x = @ + 1] \in Places
  <2>1. ~LastCol(at) => at.x + 1 \in Cols
    BY <1>0, SMT DEF LastCol, Cols
  <2> QED  BY <2>1 DEF Places
<1>5. CASE c = "\n"
  <2>1. CASE ~LastRow(at)
    <3>1. Put(page, at, c) = [page |-> page, at |-> LineStart(at.y + 1)]
      BY <1>0, <1>5, <2>1 DEF Put
    <3> QED  BY <3>1, <1>1, <1>2, <2>1
  <2>2. CASE LastRow(at)
    <3>1. Put(page, at, c) = [page |-> Scroll(page), at |-> LineStart(at.y)]
      BY <1>0, <1>5, <2>2 DEF Put
    <3> QED  BY <3>1, <1>1, <1>3, ScrollTyped
  <2> QED  BY <2>1, <2>2
<1>6. CASE c # "\n"
  <2>0. c \in Glyphs /\ Write(page, at, c) \in Pages
    BY <1>6, WriteTyped DEF Chars
  <2>1. CASE LastRow(at) /\ LastCol(at)
    <3>1. Put(page, at, c) = [page |-> Scroll(Write(page, at, c)), at |-> LineStart(at.y)]
      BY <1>0, <1>6, <2>1 DEF Put
    <3> QED  BY <3>1, <1>1, <1>3, <2>0, ScrollTyped
  <2>2. CASE ~LastRow(at) /\ LastCol(at)
    <3>1. Put(page, at, c) = [page |-> Write(page, at, c), at |-> LineStart(at.y + 1)]
      BY <1>0, <1>6, <2>2 DEF Put
    <3> QED  BY <3>1, <1>1, <1>2, <2>0, <2>2
  <2>3. CASE ~LastCol(at)
    <3>1. Put(page, at, c) = [page |-> Write(page, at, c), at |-> [at EXCEPT !.x = @ + 1]]
      BY <1>0, <1>6, <2>3 DEF Put
    <3> QED  BY <3>1, <1>4, <2>0, <2>3
  <2> QED  BY <2>1, <2>2, <2>3
<1> QED  BY <1>5, <1>6

(***************************************************************************)
(* Facts about the lines of a text, and the page that shows them.          *)
(***************************************************************************)
LEMMA TextFacts ==
    ASSUME NEW ls \in Texts
    PROVE  /\ ls \in Seq(Seq(Glyphs)) /\ Len(ls) \in Nat /\ Len(ls) >= 1
           /\ \A k \in 1 .. Len(ls) : ls[k] \in Seq(Glyphs) /\ Len(ls[k]) \in Nat
<1>1. ls \in Seq(Seq(Glyphs)) /\ Len(ls) \in Nat /\ Len(ls) # 0
  BY EmptySeq DEF Texts
<1>2. \A k \in 1 .. Len(ls) : ls[k] \in Seq(Glyphs)
  BY <1>1, ElementOfSeq
<1> QED  BY <1>1, <1>2, LenProperties

LEMMA NoLinesText == NoLines \in Texts /\ Len(NoLines) = 1 /\ NoLines[1] = << >>
BY EmptySeq DEF NoLines, Texts

LEMMA NewLineText ==
    ASSUME NEW ls \in Texts
    PROVE  LET new == Append(ls, << >>)
           IN  /\ new \in Texts /\ Len(new) = Len(ls) + 1 /\ new[Len(ls) + 1] = << >>
               /\ \A k \in 1 .. Len(ls) : new[k] = ls[k]
<1>1. ls \in Seq(Seq(Glyphs)) /\ << >> \in Seq(Glyphs)
  BY TextFacts, EmptySeq
<1> QED  BY <1>1, AppendProperties DEF Texts

LEMMA AddGlyphText ==
    ASSUME NEW ls \in Texts, NEW c \in Glyphs
    PROVE  LET new  == AddGlyph(ls, c)
               last == Len(ls)
           IN  /\ new \in Texts /\ Len(new) = last
               /\ \A k \in 1 .. last : k # last => new[k] = ls[k]
               /\ Len(new[last]) = Len(ls[last]) + 1
               /\ new[last][Len(ls[last]) + 1] = c
               /\ \A j \in 1 .. Len(ls[last]) : new[last][j] = ls[last][j]
<1> DEFINE last == Len(ls)
           longer == Append(ls[last], c)
<1>1. ls \in Seq(Seq(Glyphs)) /\ last \in 1 .. Len(ls) /\ ls[last] \in Seq(Glyphs)
  BY TextFacts
<1>2. /\ longer \in Seq(Glyphs) /\ Len(longer) = Len(ls[last]) + 1
      /\ longer[Len(ls[last]) + 1] = c
      /\ \A j \in 1 .. Len(ls[last]) : longer[j] = ls[last][j]
  BY <1>1, AppendProperties
<1>3. AddGlyph(ls, c) = [ls EXCEPT ![last] = longer]
  BY DEF AddGlyph
<1> HIDE DEF longer
<1>4. /\ AddGlyph(ls, c) \in Seq(Seq(Glyphs)) /\ Len(AddGlyph(ls, c)) = last
      /\ \A k \in 1 .. last : AddGlyph(ls, c)[k] = IF k = last THEN longer ELSE ls[k]
  BY <1>1, <1>2, <1>3, ExceptSeq
<1>5. AddGlyph(ls, c) # << >>
  BY <1>1, <1>4, EmptySeq, TextFacts
<1> QED  BY <1>1, <1>2, <1>4, <1>5 DEF Texts

(* The last line is the last row of the screen once there are as many      *)
(* lines as rows.                                                          *)
LEMMA RowsOfLines ==
    ASSUME NEW ls \in Texts
    PROVE  /\ Above(ls) \in Nat /\ Above(ls) <= Len(ls) - 1
           /\ Len(ls) - Above(ls) - 1 \in Rows
           /\ Len(ls) < NUM_ROWS => Above(ls) = 0
           /\ Len(ls) >= NUM_ROWS => Above(ls) = Len(ls) - NUM_ROWS
           /\ PlaceBehind(ls).y = Len(ls) - Above(ls) - 1
           /\ PlaceBehind(ls).x = Len(ls[Len(ls)])
           /\ LastRow(PlaceBehind(ls)) <=> Len(ls) >= NUM_ROWS
<1>1. Len(ls) \in Nat /\ Len(ls) >= 1 /\ NUM_ROWS \in Nat /\ NUM_ROWS > 1
  BY TextFacts, ConsoleAssumption
<1>2. /\ PlaceBehind(ls).y = Len(ls) - Above(ls) - 1
      /\ PlaceBehind(ls).x = Len(ls[Len(ls)])
  BY DEF PlaceBehind
<1> QED  BY <1>1, <1>2 DEF Above, Rows, LastRow

(* A glyph written behind the text is the page of the longer text.         *)
LEMMA WriteShows ==
    ASSUME NEW ls \in Texts, NEW c \in Glyphs, Len(ls[Len(ls)]) < NUM_COLS
    PROVE  Write(PageShowing(ls), PlaceBehind(ls), c) = PageShowing(AddGlyph(ls, c))
<1> DEFINE new == AddGlyph(ls, c)
           at  == PlaceBehind(ls)
           last == Len(ls)
<1>1. /\ last \in Nat /\ last >= 1 /\ Len(ls[last]) \in Nat
      /\ Above(ls) \in Nat /\ at.y = last - Above(ls) - 1 /\ at.y \in Rows
      /\ at.x = Len(ls[last]) /\ NUM_COLS \in Nat /\ NUM_ROWS \in Nat
  BY TextFacts, RowsOfLines, ConsoleAssumption
<1>2. at.x \in Cols
  BY <1>1 DEF Cols
<1>3. /\ Len(new) = last
      /\ \A k \in 1 .. last : k # last => new[k] = ls[k]
      /\ Len(new[last]) = Len(ls[last]) + 1
      /\ new[last][Len(ls[last]) + 1] = c
      /\ \A j \in 1 .. Len(ls[last]) : new[last][j] = ls[last][j]
  BY AddGlyphText
<1>4. Above(new) = Above(ls)
  BY <1>3 DEF Above
<1> HIDE DEF new, at
<1>5. ASSUME NEW row \in Rows, NEW col \in Cols
      PROVE  Cell(new, row, col) = IF row = at.y /\ col = at.x THEN c ELSE Cell(ls, row, col)
  <2> DEFINE n == Above(ls) + row + 1
  <2>1. n \in Nat /\ n >= 1 /\ (n = last <=> row = at.y) /\ col \in Nat
    BY <1>1, <1>5 DEF Rows, Cols
  <2>2. Cell(new, row, col) = IF n <= last /\ col < Len(new[n]) THEN new[n][col + 1] ELSE BLANK
    BY <1>3, <1>4 DEF Cell
  <2>3. Cell(ls, row, col) = IF n <= last /\ col < Len(ls[n]) THEN ls[n][col + 1] ELSE BLANK
    BY DEF Cell
  <2> HIDE DEF n
  <2>4. CASE n > last
    BY <1>1, <2>1, <2>2, <2>3, <2>4
  <2>5. CASE n < last
    <3>1. new[n] = ls[n]
      BY <1>1, <1>3, <2>1, <2>5
    <3> QED  BY <1>1, <2>1, <2>2, <2>3, <2>5, <3>1
  <2>6. CASE n = last /\ col < Len(ls[last])
    <3>1. new[last][col + 1] = ls[last][col + 1]
      BY <1>1, <1>3, <2>1, <2>6
    <3> QED  BY <1>1, <1>3, <2>1, <2>2, <2>3, <2>6, <3>1
  <2>7. CASE n = last /\ col >= Len(ls[last])
    BY <1>1, <1>3, <2>1, <2>2, <2>3, <2>7
  <2> QED  BY <1>1, <2>1, <2>4, <2>5, <2>6, <2>7
<1>6. PageShowing(ls) \in [Rows -> [Cols -> {Cell(ls, row, col) : row \in Rows, col \in Cols}]]
  BY DEF PageShowing
<1>7. Write(PageShowing(ls), at, c) =
        [row \in Rows |-> [col \in Cols |->
            IF row = at.y /\ col = at.x THEN c ELSE Cell(ls, row, col)]]
  BY <1>1, <1>2 DEF Write, PageShowing
<1> QED  BY <1>5, <1>7 DEF PageShowing, new, at

(* A new line scrolls the page once every row has a line.                  *)
LEMMA NewLineShows ==
    ASSUME NEW ls \in Texts
    PROVE  PageShowing(Append(ls, << >>)) =
               IF Len(ls) < NUM_ROWS THEN PageShowing(ls) ELSE Scroll(PageShowing(ls))
<1> DEFINE new == Append(ls, << >>)
           n == Len(ls)
<1>1. /\ n \in Nat /\ n >= 1 /\ NUM_ROWS \in Nat /\ NUM_ROWS > 1
      /\ \A k \in 1 .. n : Len(ls[k]) \in Nat
  BY TextFacts, ConsoleAssumption
<1>2. /\ Len(new) = n + 1 /\ new[n + 1] = << >> /\ Len(new[n + 1]) = 0
      /\ \A k \in 1 .. n : new[k] = ls[k]
  BY NewLineText, EmptySeq
<1> HIDE DEF new
<1>3. /\ Above(ls) = IF n > NUM_ROWS THEN n - NUM_ROWS ELSE 0
      /\ Above(new) = IF n + 1 > NUM_ROWS THEN n + 1 - NUM_ROWS ELSE 0
  <2>1. Above(new) = IF Len(new) > NUM_ROWS THEN Len(new) - NUM_ROWS ELSE 0
    BY DEF Above
  <2>2. Above(ls) = IF n > NUM_ROWS THEN n - NUM_ROWS ELSE 0
    BY DEF Above
  <2> QED  BY <1>1, <1>2, <2>1, <2>2
<1>4. CASE n < NUM_ROWS
  <2>1. Above(ls) = 0 /\ Above(new) = 0
    BY <1>1, <1>3, <1>4
  <2>2. ASSUME NEW row \in Rows, NEW col \in Cols
        PROVE  Cell(new, row, col) = Cell(ls, row, col)
    <3>1. row + 1 \in Nat /\ row + 1 >= 1 /\ 0 + row + 1 = row + 1 /\ col \in Nat
      BY <2>2 DEF Rows, Cols
    <3>2. /\ Cell(ls, row, col) = IF row + 1 <= n /\ col < Len(ls[row + 1])
                                  THEN ls[row + 1][col + 1] ELSE BLANK
          /\ Cell(new, row, col) = IF row + 1 <= n + 1 /\ col < Len(new[row + 1])
                                   THEN new[row + 1][col + 1] ELSE BLANK
      BY <1>2, <2>1, <3>1 DEF Cell
    <3> QED  BY <1>1, <1>2, <3>1, <3>2
  <2> QED  BY <1>4, <2>2 DEF PageShowing, new
<1>5. CASE n >= NUM_ROWS
  <2>1. Above(new) = Above(ls) + 1 /\ Above(ls) = n - NUM_ROWS /\ Above(ls) \in Nat
    BY <1>1, <1>3, <1>5
  <2>2. ASSUME NEW row \in Rows, NEW col \in Cols
        PROVE  Cell(new, row, col) =
                   IF row < NUM_ROWS - 1 THEN Cell(ls, row + 1, col) ELSE BLANK
    <3> DEFINE k == Above(ls) + (row + 1) + 1
    <3>1. /\ k \in Nat /\ k >= 1 /\ Above(new) + row + 1 = k /\ col \in Nat
          /\ row < NUM_ROWS - 1 => k <= n
          /\ ~(row < NUM_ROWS - 1) => k = n + 1
      <4>1. /\ row \in Nat /\ row <= NUM_ROWS - 1 /\ col \in Nat
            /\ n \in Nat /\ NUM_ROWS \in Nat
        BY <1>1, <2>2 DEF Rows, Cols
      <4>2. /\ Above(ls) \in Nat /\ Above(ls) = n - NUM_ROWS
            /\ Above(new) = Above(ls) + 1
        BY <2>1
      <4> HIDE DEF n
      <4>3. k = Above(ls) + row + 2 /\ k = n - NUM_ROWS + row + 2
        BY <4>1, <4>2
      <4> HIDE DEF k
      <4>4. k \in Nat /\ k >= 1 /\ Above(new) + row + 1 = k
        BY <4>1, <4>2, <4>3
      <4>5. /\ row < NUM_ROWS - 1 => k <= n
            /\ ~(row < NUM_ROWS - 1) => k = n + 1
        BY <4>1, <4>3
      <4> QED  BY <4>1, <4>4, <4>5
    <3>2. /\ Cell(ls, row + 1, col) = IF k <= n /\ col < Len(ls[k]) THEN ls[k][col + 1] ELSE BLANK
          /\ Cell(new, row, col) = IF k <= n + 1 /\ col < Len(new[k]) THEN new[k][col + 1] ELSE BLANK
      BY <1>2, <3>1 DEF Cell
    <3> HIDE DEF k
    <3> QED  BY <1>1, <1>2, <3>1, <3>2
  <2>3. \A row \in Rows : row < NUM_ROWS - 1 =>
            PageShowing(ls)[row + 1] = [col \in Cols |-> Cell(ls, row + 1, col)]
    BY <1>1 DEF PageShowing, Rows
  <2>4. Scroll(PageShowing(ls)) = [row \in Rows |-> [col \in Cols |->
            IF row < NUM_ROWS - 1 THEN Cell(ls, row + 1, col) ELSE BLANK]]
    BY <2>3 DEF Scroll, Blanks
  <2> QED  BY <1>1, <1>5, <2>2, <2>4 DEF PageShowing, new
<1> QED  BY <1>1, <1>4, <1>5

LEMMA AddCharText ==
    ASSUME NEW ls \in Texts, NEW c \in Chars
    PROVE  AddChar(ls, c) \in Texts
<1>1. c # "\n" => c \in Glyphs
  BY DEF Chars
<1>2. Append(ls, << >>) \in Texts
  BY NewLineText
<1>3. c \in Glyphs => AddGlyph(ls, c) \in Texts /\ Append(AddGlyph(ls, c), << >>) \in Texts
  BY AddGlyphText, NewLineText
<1>4. \/ AddChar(ls, c) = Append(ls, << >>)
      \/ c # "\n" /\ AddChar(ls, c) = Append(AddGlyph(ls, c), << >>)
      \/ c # "\n" /\ AddChar(ls, c) = AddGlyph(ls, c)
  BY DEF AddChar
<1> QED  BY <1>1, <1>2, <1>3, <1>4

(* What putc makes of a page that shows a text shows the text with the     *)
(* character behind it, at the edges and in the last row too.              *)
LEMMA PutShows ==
    ASSUME NEW page, NEW at \in Places, NEW ls \in Texts, NEW c \in Chars,
           Shows(page, at, ls)
    PROVE  Shows(Put(page, at, c).page, Put(page, at, c).at, AddChar(ls, c))
<1> DEFINE n == Len(ls)
           glyph == AddGlyph(ls, c)
<1>1. page = PageShowing(ls) /\ at = PlaceBehind(ls)
  BY DEF Shows
<1>2. /\ n \in Nat /\ n >= 1 /\ Len(ls[n]) \in Nat /\ Above(ls) \in Nat
      /\ at.y = n - Above(ls) - 1 /\ at.x = Len(ls[n])
      /\ LastRow(at) <=> n >= NUM_ROWS
      /\ NUM_ROWS \in Nat /\ NUM_ROWS > 1 /\ NUM_COLS \in Nat /\ NUM_COLS > 1
  BY <1>1, TextFacts, RowsOfLines, ConsoleAssumption
<1>3. at.x \in 0 .. NUM_COLS - 1 /\ (LastCol(at) <=> Len(ls[n]) = NUM_COLS - 1)
  BY <1>2 DEF Places, Cols, LastCol
<1>4. c # "\t" /\ c # "\r"
  BY ConsoleAssumption DEF Chars
<1>5. ASSUME NEW ks \in Texts, Len(ks) = n
      PROVE  /\ PlaceBehind(Append(ks, << >>)) =
                   IF LastRow(at) THEN LineStart(at.y) ELSE LineStart(at.y + 1)
             /\ PageShowing(Append(ks, << >>)) =
                   IF LastRow(at) THEN Scroll(PageShowing(ks)) ELSE PageShowing(ks)
  <2> DEFINE new == Append(ks, << >>)
  <2>1. Len(new) = n + 1 /\ new[n + 1] = << >> /\ Len(new[n + 1]) = 0
    BY <1>5, NewLineText, EmptySeq
  <2>2. PageShowing(new) = IF n < NUM_ROWS THEN PageShowing(ks) ELSE Scroll(PageShowing(ks))
    BY <1>5, NewLineShows
  <2> HIDE DEF new
  <2>3. Above(new) = IF n + 1 > NUM_ROWS THEN n + 1 - NUM_ROWS ELSE 0
    <3>1. Above(new) = IF Len(new) > NUM_ROWS THEN Len(new) - NUM_ROWS ELSE 0
      BY DEF Above
    <3> QED  BY <1>2, <2>1, <3>1
  <2>4. Above(ls) = IF n > NUM_ROWS THEN n - NUM_ROWS ELSE 0
    BY DEF Above
  <2>5. (n + 1) - Above(new) - 1 = IF LastRow(at) THEN at.y ELSE at.y + 1
    <3>1. CASE n >= NUM_ROWS
      <4>1. Above(new) = n + 1 - NUM_ROWS /\ Above(ls) = n - NUM_ROWS
        BY <1>2, <2>3, <2>4, <3>1
      <4>2. LastRow(at)
        BY <1>2, <3>1
      <4>3. (n + 1) - Above(new) - 1 = at.y
        BY <1>2, <4>1
      <4> QED  BY <4>2, <4>3
    <3>2. CASE n < NUM_ROWS
      <4>1. Above(new) = 0 /\ Above(ls) = 0
        BY <1>2, <2>3, <2>4, <3>2
      <4>2. ~LastRow(at)
        BY <1>2, <3>2
      <4>3. (n + 1) - Above(new) - 1 = at.y + 1
        BY <1>2, <4>1
      <4> QED  BY <4>2, <4>3
    <3> QED  BY <1>2, <3>1, <3>2
  <2>6. PlaceBehind(new) = LineStart(IF LastRow(at) THEN at.y ELSE at.y + 1)
    <3>1. PlaceBehind(new) = [x |-> Len(new[Len(new)]), y |-> Len(new) - Above(new) - 1]
      BY DEF PlaceBehind
    <3>2. PlaceBehind(new) = [x |-> 0, y |-> (n + 1) - Above(new) - 1]
      BY <2>1, <3>1
    <3> QED  BY <2>5, <3>2 DEF LineStart
  <2> QED  BY <1>2, <2>2, <2>6 DEF new
<1>6. CASE c = "\n"
  <2>1. AddChar(ls, c) = Append(ls, << >>)
    BY <1>6 DEF AddChar
  <2>2. Put(page, at, c) = IF LastRow(at)
                           THEN [page |-> Scroll(page), at |-> LineStart(at.y)]
                           ELSE [page |-> page, at |-> LineStart(at.y + 1)]
    BY <1>4, <1>6 DEF Put
  <2> QED  BY <1>1, <1>5, <2>1, <2>2 DEF Shows
<1>7. CASE c # "\n"
  <2>1. c \in Glyphs
    BY <1>7 DEF Chars
  <2>2. /\ glyph \in Texts /\ Len(glyph) = n /\ Len(glyph[n]) = Len(ls[n]) + 1
        /\ Write(page, at, c) = PageShowing(glyph)
    BY <1>1, <1>2, <1>3, <2>1, AddGlyphText, WriteShows
  <2>3. CASE LastCol(at)
    <3>1. AddChar(ls, c) = Append(glyph, << >>)
      BY <1>3, <1>7, <2>3 DEF AddChar
    <3>2. Put(page, at, c) =
              IF LastRow(at)
              THEN [page |-> Scroll(Write(page, at, c)), at |-> LineStart(at.y)]
              ELSE [page |-> Write(page, at, c), at |-> LineStart(at.y + 1)]
      BY <1>4, <1>7, <2>3 DEF Put
    <3> QED  BY <1>5, <2>2, <3>1, <3>2 DEF Shows
  <2>4. CASE ~LastCol(at)
    <3>1. AddChar(ls, c) = glyph
      BY <1>3, <1>7, <2>4 DEF AddChar
    <3>2. Put(page, at, c) = [page |-> Write(page, at, c), at |-> [at EXCEPT !.x = @ + 1]]
      BY <1>4, <1>7, <2>4 DEF Put
    <3>3. PlaceBehind(glyph) = [at EXCEPT !.x = @ + 1]
      <4>1. Above(glyph) = Above(ls)
        BY <2>2 DEF Above
      <4>2. at = [x |-> Len(ls[n]), y |-> n - Above(ls) - 1]
        BY <1>1 DEF PlaceBehind
      <4>3. PlaceBehind(glyph) = [x |-> Len(ls[n]) + 1, y |-> n - Above(ls) - 1]
        BY <2>2, <4>1 DEF PlaceBehind
      <4> QED  BY <4>2, <4>3
    <3> QED  BY <2>2, <3>1, <3>2, <3>3 DEF Shows
  <2> QED  BY <2>3, <2>4
<1> QED  BY <1>6, <1>7

(* What is put on page p for terminal t: the types stay, nothing but p and *)
(* the place of t changes, and a terminal that is not displayed is away.   *)
LEMMA PutOnKeeps ==
    ASSUME TypeOK, NEW t \in Terms, NEW p \in Mem, NEW c \in Chars, PutOn(t, p, c)
    PROVE  /\ mem' \in [Mem -> Pages]
           /\ screen' \in [Terms -> Places]
           /\ away' \in [Terms -> BOOLEAN]
           /\ whole' \in [Terms -> BOOLEAN]
           /\ lines' \in [Terms -> Texts]
           /\ out' \in 0 .. MaxOut
           /\ \A q \in Mem : q # p => mem'[q] = mem[q]
           /\ \A u \in Terms : u # t => screen'[u] = screen[u] /\ away'[u] = away[u]
           /\ t # displayed_terminal => away'[t]
<1> DEFINE put == Put(mem[p], screen[t], c)
<1>1. mem[p] \in Pages /\ screen[t] \in Places
  BY DEF TypeOK
<1>2. put.page \in Pages /\ put.at \in Places
  BY <1>1, PutTyped
<1>3. /\ mem' = [mem EXCEPT ![p] = put.page]
      /\ screen' = [screen EXCEPT ![t] = put.at]
      /\ away' = [away EXCEPT ![t] = away[t] \/ t # displayed_terminal]
      /\ out < MaxOut /\ out' = out + 1
  BY DEF PutOn, Counted
<1> HIDE DEF put
<1>4. whole' \in [Terms -> BOOLEAN]
  BY DEF PutOn, TypeOK
<1>5. lines' \in [Terms -> Texts]
  <2>1. lines' = [u \in Terms |-> IF ~whole'[u] THEN NoLines
                                ELSE IF u = t THEN AddChar(lines[u], c) ELSE lines[u]]
    BY DEF PutOn
  <2>2. NoLines \in Texts /\ \A u \in Terms : lines[u] \in Texts
    BY NoLinesText DEF TypeOK
  <2>3. \A ls \in Texts : AddChar(ls, c) \in Texts
    BY AddCharText
  <2> QED  BY <2>1, <2>2, <2>3
<1>6. out' \in 0 .. MaxOut
  BY <1>3, ScreenSizes, SMT DEF TypeOK
<1>7. away' \in [Terms -> BOOLEAN]
  <2>1. (away[t] \/ t # displayed_terminal) \in BOOLEAN
    OBVIOUS
  <2> QED  BY <1>3, <2>1, Zenon DEF TypeOK
<1>8. /\ \A u \in Terms : u # t => away'[u] = away[u]
      /\ t # displayed_terminal => away'[t]
  BY <1>3, Zenon DEF TypeOK
<1> QED  BY <1>2, <1>3, <1>4, <1>5, <1>6, <1>7, <1>8 DEF TypeOK

LEMMA PageChosenMem == ASSUME TypeOK PROVE PageChosen \in Mem
BY ScreenSizes DEF PageChosen, TypeOK

(***************************************************************************)
(* The hardware's cursor.                                                  *)
(***************************************************************************)
LEMMA CursorAtTyped == ASSUME NEW at \in Places PROVE CursorAt(at) \in [Registers -> Bytes]
<1> DEFINE pos == at.y * NUM_COLS + at.x
<1>1. BYTE \in Nat /\ BYTE > 0 /\ NUM_COLS \in Nat
  BY ScreenAssumption, ConsoleAssumption
<1>2. at.x \in Nat /\ at.y \in Nat
  BY ConsoleAssumption DEF Places, Rows, Cols
<1>3. pos \in Nat
  <2>1. at.y * NUM_COLS \in Nat
    BY <1>1, <1>2
  <2> QED  BY <1>2, <2>1
<1>4. CursorAt(at) = [r \in Registers |-> IF r = "low" THEN pos % BYTE
                                          ELSE (pos \div BYTE) % BYTE]
  BY DEF CursorAt
<1> HIDE DEF pos
<1>5. pos % BYTE \in Bytes
  BY <1>1, <1>3 DEF Bytes
<1>6. pos \div BYTE \in Nat
  BY <1>1, <1>3
<1>7. (pos \div BYTE) % BYTE \in Bytes
  BY <1>1, <1>6 DEF Bytes
<1> QED  BY <1>4, <1>5, <1>7

(* update_cursor with interrupts off puts all right that concerns it.      *)
LEMMA UpdateKeeps ==
    ASSUME NEW at \in Places, update_cursor(at), screen'[displayed_terminal'] = at
    PROVE  /\ crtc' \in [Registers -> Bytes] /\ index' \in Registers
           /\ late' \subseteq Terms /\ strayed' \in BOOLEAN
           /\ CursorShown' /\ Steady'
<1>1. /\ crtc' = CursorAt(at) /\ index' = "high" /\ strayed' = FALSE
      /\ late' = {t \in Terms : pc'[t] \in Updates}
  BY DEF update_cursor, AllUpdating
<1>2. CursorShown'
  BY <1>1 DEF CursorShown
<1>3. Steady'
  BY <1>1 DEF Steady
<1> QED  BY <1>1, <1>2, <1>3, CursorAtTyped DEF Registers

(* A step that writes no register, and leaves the updates that are under   *)
(* way and the place of the displayed terminal, unless its program is now  *)
(* behind the characters of a putc.                                        *)
LEMMA CursorKeeps ==
    ASSUME CursorShown, Steady, displayed_terminal \in Terms,
           UNCHANGED << crtc, index, strayed, displayed_terminal >>,
           \A t \in Terms : pc'[t] \in Updates =>
               /\ pc'[t] = pc[t] /\ aim'[t] = aim[t] /\ screen'[t] = screen[t]
               /\ t \in late => t \in late',
           pc'[displayed_terminal] \notin {"moved"} \cup Updates =>
               /\ pc[displayed_terminal] \notin {"moved"} \cup Updates
               /\ screen'[displayed_terminal] = screen[displayed_terminal]
    PROVE  CursorShown' /\ Steady'
<1>1. CursorShown'
  BY DEF CursorShown
<1>2. Steady'
  BY DEF Steady
<1> QED  BY <1>1, <1>2

(* What the running program prints keeps both cursors right.               *)
LEMMA OutputKeeps ==
    ASSUME IInv, NEW c \in Chars, Output(c), displayed_terminal' = displayed_terminal,
           \A t \in Terms \ {scheduled_terminal} : pc'[t] = pc[t] /\ aim'[t] = aim[t],
           pc'[scheduled_terminal] = "user"
    PROVE  /\ mem' \in [Mem -> Pages] /\ screen' \in [Terms -> Places]
           /\ crtc' \in [Registers -> Bytes] /\ index' \in Registers
           /\ late' \subseteq Terms /\ strayed' \in BOOLEAN
           /\ away' \in [Terms -> BOOLEAN] /\ whole' \in [Terms -> BOOLEAN]
           /\ lines' \in [Terms -> Texts] /\ out' \in 0 .. MaxOut
           /\ \A u \in Terms : u # scheduled_terminal =>
                 screen'[u] = screen[u] /\ away'[u] = away[u]
           /\ scheduled_terminal # displayed_terminal => away'[scheduled_terminal]
           /\ CursorShown' /\ Steady'
<1> DEFINE u == scheduled_terminal
<1>1. /\ u \in Terms /\ PageChosen \in Mem
      /\ PutOn(u, PageChosen, c) /\ CursorTo(screen'[u])
  BY PageChosenMem DEF IInv, TypeOK, Output
<1>2. TypeOK
  BY DEF IInv
<1>3. /\ mem' \in [Mem -> Pages] /\ screen' \in [Terms -> Places]
      /\ away' \in [Terms -> BOOLEAN] /\ whole' \in [Terms -> BOOLEAN]
      /\ lines' \in [Terms -> Texts] /\ out' \in 0 .. MaxOut
      /\ \A t \in Terms : t # u => screen'[t] = screen[t] /\ away'[t] = away[t]
      /\ u # displayed_terminal => away'[u]
  BY <1>1, <1>2, PutOnKeeps
<1>4. CASE u = displayed_terminal
  <2>1. update_cursor(screen'[u]) /\ screen'[u] \in Places
    BY <1>1, <1>3, <1>4 DEF CursorTo
  <2> QED  BY <1>3, <1>4, <2>1, UpdateKeeps
<1>5. CASE u # displayed_terminal
  <2>1. late' = late \cap AllUpdating /\ UNCHANGED << crtc, index, strayed >>
    BY <1>1, <1>5 DEF CursorTo
  <2>2. crtc' \in [Registers -> Bytes] /\ index' \in Registers
        /\ late' \subseteq Terms /\ strayed' \in BOOLEAN
    BY <1>2, <2>1 DEF TypeOK
  <2>3. ASSUME NEW t \in Terms, pc'[t] \in Updates
        PROVE  /\ pc'[t] = pc[t] /\ aim'[t] = aim[t] /\ screen'[t] = screen[t]
               /\ t \in late => t \in late'
    <3>1. t # u
      BY <2>3 DEF Updates, Halves
    <3> QED  BY <1>3, <2>1, <2>3, <3>1 DEF AllUpdating
  <2>4. /\ displayed_terminal \in Terms /\ pc'[displayed_terminal] = pc[displayed_terminal]
        /\ screen'[displayed_terminal] = screen[displayed_terminal]
    BY <1>2, <1>3, <1>5 DEF TypeOK
  <2>5. CursorShown' /\ Steady'
    BY <2>1, <2>3, <2>4, CursorKeeps DEF IInv
  <2> QED  BY <1>3, <2>2, <2>5
<1> QED  BY <1>4, <1>5

(***************************************************************************)
(* The invariant holds initially.                                          *)
(***************************************************************************)
LEMMA ClearedTyped == Cleared \in Pages /\ Prompt \in Pages /\ Mark \in Glyphs
<1>1. Cleared \in Pages
  BY DEF Cleared, Blanks, Pages
<1>2. Mark \in Glyphs
  BY ConsoleAssumption DEF Mark
<1>3. [col \in Cols |-> IF col < PROMPT THEN Mark ELSE BLANK] \in [Cols -> Glyphs \cup {BLANK}]
  BY <1>2
<1>4. Prompt \in Pages
  BY <1>1, <1>3 DEF Prompt, Pages
<1> QED  BY <1>1, <1>2, <1>4

LEMMA HeaderText ==
    /\ Header \in Texts /\ Len(Header) = 2 /\ Header[1] = << >>
    /\ Len(Header[2]) = PROMPT /\ \A k \in 1 .. PROMPT : Header[2][k] = Mark
<1>1. PROMPT \in Nat
  BY ScreenAssumption, ConsoleAssumption, SMT DEF Cols
<1> DEFINE line == [k \in 1 .. PROMPT |-> Mark]
<1>2. line \in Seq(Glyphs) /\ Len(line) = PROMPT
  BY <1>1, ClearedTyped, SMT
<1>3. << >> \in Seq(Glyphs)
  BY EmptySeq
<1>4. \A k \in 1 .. PROMPT : line[k] = Mark
  OBVIOUS
<1> HIDE DEF line
<1>5. /\ << << >>, line >> \in Seq(Seq(Glyphs)) /\ Len(<< << >>, line >>) = 2
      /\ << << >>, line >>[1] = << >> /\ << << >>, line >>[2] = line
  BY <1>2, <1>3, SMT
<1>6. << << >>, line >> # << >>
  BY <1>5, EmptySeq
<1>7. Header = << << >>, line >>
  BY DEF Header, line
<1> QED  BY <1>2, <1>4, <1>5, <1>6, <1>7 DEF Texts

LEMMA InitIInv == Init => IInv
<1> SUFFICES ASSUME Init PROVE IInv
  OBVIOUS
<1>1. /\ mem \in [Mem -> Pages]
      /\ screen \in [Terms -> Places]
      /\ lines \in [Terms -> Texts]
      /\ \A t \in Terms : t # 0 => screen[t] = Start
  BY ClearedTyped, HeaderText, NoLinesText, ScreenSizes DEF Init
<1>2. out \in 0 .. MaxOut
  BY ScreenSizes, SMT DEF Init
<1>3. crtc \in [Registers -> Bytes] /\ index \in Registers
  BY <1>1, ScreenSizes, CursorAtTyped DEF Init, Registers
<1>4. pc \in [Terms -> PCs] /\ aim \in [Terms -> Places]
  BY ScreenSizes DEF Init, PCs
<1>5. TypeOK
  BY <1>1, <1>2, <1>3, <1>4, ScreenSizes DEF Init, TypeOK
<1>6. CursorResumes /\ CursorShown /\ VidmapFollows /\ Chosen
  BY <1>1, ScreenSizes DEF Init, CursorResumes, CursorShown, VidmapFollows, Chosen
<1>7. Steady
  BY DEF Init, Steady, Updates, Halves
<1> QED  BY <1>5, <1>6, <1>7 DEF IInv

(***************************************************************************)
(* The steps that print.                                                   *)
(***************************************************************************)
LEMMA WriteIInv == IInv /\ t_write => IInv'
<1> SUFFICES ASSUME IInv, t_write PROVE IInv'
  OBVIOUS
<1>1. PICK c \in Chars : Output(c)
  BY DEF t_write
<1>2. /\ UNCHANGED << saved, displayed_terminal, scheduled_terminal, vmem_page_table,
                      pc, chosen, aim, reading, overtaken >>
      /\ pc'[scheduled_terminal] = "user"
  BY DEF t_write, Here
<1>3. TypeOK' /\ CursorShown' /\ Steady'
  <2>1. /\ mem' \in [Mem -> Pages] /\ screen' \in [Terms -> Places]
        /\ crtc' \in [Registers -> Bytes] /\ index' \in Registers
        /\ late' \subseteq Terms /\ strayed' \in BOOLEAN
        /\ away' \in [Terms -> BOOLEAN] /\ whole' \in [Terms -> BOOLEAN]
        /\ lines' \in [Terms -> Texts] /\ out' \in 0 .. MaxOut
        /\ CursorShown' /\ Steady'
    BY <1>1, <1>2, OutputKeeps
  <2> QED  BY <1>2, <2>1 DEF IInv, TypeOK
<1>4. Chosen' /\ VidmapFollows'
  BY <1>2 DEF IInv, Chosen, VidmapFollows, PageOf
<1>5. CursorResumes'
  BY <1>1, <1>2, OutputKeeps, Zenon DEF IInv, TypeOK, CursorResumes
<1> QED  BY <1>3, <1>4, <1>5 DEF IInv

LEMMA SigquitIInv == IInv /\ Sigquit => IInv'
<1> SUFFICES ASSUME IInv, Sigquit PROVE IInv'
  OBVIOUS
<1> DEFINE s == scheduled_terminal
<1>1. PICK c \in Chars : Output(c)
  BY DEF Sigquit
<1>2. /\ s \in Terms /\ displayed_terminal \in Terms
      /\ pc' = [pc EXCEPT ![s] = "user"]
      /\ chosen' = [chosen EXCEPT ![s] = Unset]
      /\ aim' = [aim EXCEPT ![s] = Origin]
      /\ UNCHANGED << displayed_terminal, scheduled_terminal, vmem_page_table, reading,
                      overtaken >>
  BY DEF Sigquit, Goto, Choose, IInv, TypeOK
<1>3. saved' \in [Terms -> Places] /\ \A t \in Terms : t # s => saved'[t] = saved[t]
  <2>1. CASE CursorForPrompt
    <3>1. saved[s] \in Places /\ PROMPT \in Cols
      BY <1>2, ScreenAssumption DEF IInv, TypeOK
    <3>2. [saved[s] EXCEPT !.x = PROMPT] \in Places
      BY <3>1 DEF Places
    <3>3. saved' = [saved EXCEPT ![s] = [saved[s] EXCEPT !.x = PROMPT]]
      BY <1>2, <2>1 DEF CursorForPrompt, IInv, TypeOK
    <3> QED  BY <1>2, <3>2, <3>3 DEF IInv, TypeOK
  <2>2. CASE UNCHANGED saved
    BY <2>2 DEF IInv, TypeOK
  <2> QED  BY <2>1, <2>2 DEF Sigquit
<1>4. /\ mem' \in [Mem -> Pages] /\ screen' \in [Terms -> Places]
      /\ crtc' \in [Registers -> Bytes] /\ index' \in Registers
      /\ late' \subseteq Terms /\ strayed' \in BOOLEAN
      /\ away' \in [Terms -> BOOLEAN] /\ whole' \in [Terms -> BOOLEAN]
      /\ lines' \in [Terms -> Texts] /\ out' \in 0 .. MaxOut
      /\ \A u \in Terms : u # s => screen'[u] = screen[u] /\ away'[u] = away[u]
      /\ s # displayed_terminal => away'[s]
      /\ CursorShown' /\ Steady'
  <2>1. \A t \in Terms \ {s} : pc'[t] = pc[t] /\ aim'[t] = aim[t]
    BY <1>2 DEF IInv, TypeOK
  <2>2. pc'[s] = "user"
    BY <1>2 DEF IInv, TypeOK
  <2> QED  BY <1>1, <1>2, <2>1, <2>2, OutputKeeps
<1>7. TypeOK'
  BY <1>2, <1>3, <1>4, ScreenSizes DEF IInv, TypeOK, PCs
<1>5. Chosen' /\ VidmapFollows'
  BY <1>2 DEF IInv, TypeOK, Chosen, VidmapFollows, PageOf
<1>6. CursorResumes'
  <2>1. SUFFICES ASSUME NEW t \in Terms, t # displayed_terminal, ~away'[t]
                 PROVE  saved'[t] = screen'[t]
    BY <1>2 DEF CursorResumes
  <2>2. t # s
    BY <1>4, <2>1
  <2>3. saved'[t] = saved[t] /\ screen'[t] = screen[t] /\ away'[t] = away[t]
    BY <1>3, <1>4, <2>2
  <2> QED  BY <2>1, <2>3 DEF IInv, CursorResumes
<1> QED  BY <1>4, <1>5, <1>6, <1>7 DEF IInv

LEMMA PutcCellsIInv == IInv /\ PutcCells => IInv'
<1> SUFFICES ASSUME IInv, PutcCells PROVE IInv'
  OBVIOUS
<1> DEFINE s == scheduled_terminal
<1>1. PICK c \in Chars : PutOn(s, chosen[s], c)
  BY DEF PutcCells
<1>2. /\ s \in Terms /\ pc[s] = "putc" /\ chosen[s] \in Mem
      /\ pc' = [pc EXCEPT ![s] = "moved"]
      /\ chosen' = [chosen EXCEPT ![s] = Unset]
      /\ UNCHANGED << cursor, saved, displayed_terminal, scheduled_terminal,
                      vmem_page_table, aim, reading, overtaken >>
  BY ScreenSizes DEF PutcCells, Here, Goto, Choose, IInv, TypeOK, Chosen
<1>3. /\ mem' \in [Mem -> Pages] /\ screen' \in [Terms -> Places]
      /\ away' \in [Terms -> BOOLEAN] /\ whole' \in [Terms -> BOOLEAN]
      /\ lines' \in [Terms -> Texts] /\ out' \in 0 .. MaxOut
      /\ \A u \in Terms : u # s => screen'[u] = screen[u] /\ away'[u] = away[u]
      /\ s # displayed_terminal => away'[s]
  BY <1>1, <1>2, PutOnKeeps DEF IInv
<1>4. TypeOK'
  BY <1>2, <1>3 DEF IInv, TypeOK, PCs, cursor
<1>5. Chosen' /\ VidmapFollows'
  BY <1>2 DEF IInv, TypeOK, Chosen, VidmapFollows, PageOf
<1>6. CursorResumes'
  BY <1>2, <1>3, Zenon DEF IInv, CursorResumes
<1>7. CursorShown' /\ Steady'
  <2>1. /\ displayed_terminal \in Terms
        /\ UNCHANGED << crtc, index, late, strayed >>
        /\ pc'[s] = "moved" /\ \A t \in Terms : t # s => pc'[t] = pc[t]
    BY <1>2 DEF IInv, TypeOK, cursor
  <2>2. \A t \in Terms : pc'[t] \in Updates => t # s
    BY <2>1 DEF Updates, Halves
  <2> QED  BY <1>2, <1>3, <2>1, <2>2, CursorKeeps DEF IInv
<1> QED  BY <1>4, <1>5, <1>6, <1>7 DEF IInv

LEMMA EchoIInv == ASSUME NEW c \in Chars PROVE IInv /\ Echo(c) => IInv'
<1> SUFFICES ASSUME IInv, Echo(c) PROVE IInv'
  OBVIOUS
<1> DEFINE d == displayed_terminal
<1>1. /\ d \in Terms /\ PutOn(d, VIDEO, c) /\ VIDEO \in Mem
      /\ update_cursor(screen'[d])
      /\ UNCHANGED << saved, displayed_terminal, scheduled_terminal, vmem_page_table,
                      pc, chosen, aim, reading, overtaken >>
  BY ScreenSizes DEF Echo, IInv, TypeOK
<1>2. /\ mem' \in [Mem -> Pages] /\ screen' \in [Terms -> Places]
      /\ away' \in [Terms -> BOOLEAN] /\ whole' \in [Terms -> BOOLEAN]
      /\ lines' \in [Terms -> Texts] /\ out' \in 0 .. MaxOut
      /\ \A u \in Terms : u # d => screen'[u] = screen[u] /\ away'[u] = away[u]
  BY <1>1, PutOnKeeps DEF IInv
<1>3. /\ crtc' \in [Registers -> Bytes] /\ index' \in Registers
      /\ late' \subseteq Terms /\ strayed' \in BOOLEAN
      /\ CursorShown' /\ Steady'
  BY <1>1, <1>2, UpdateKeeps
<1>4. TypeOK'
  BY <1>1, <1>2, <1>3 DEF IInv, TypeOK
<1>5. Chosen' /\ VidmapFollows'
  BY <1>1 DEF IInv, Chosen, VidmapFollows, PageOf
<1>6. CursorResumes'
  BY <1>1, <1>2, Zenon DEF IInv, CursorResumes
<1> QED  BY <1>3, <1>4, <1>5, <1>6 DEF IInv

(***************************************************************************)
(* The steps that change terminals or pages.                               *)
(***************************************************************************)
LEMMA ClearScreenIInv == IInv /\ ClearScreen => IInv'
<1> SUFFICES ASSUME IInv, ClearScreen PROVE IInv'
  OBVIOUS
<1> DEFINE d == displayed_terminal
<1>1. /\ d \in Terms
      /\ out < MaxOut /\ out' = out + 1
      /\ mem' = [mem EXCEPT ![VIDEO] = Cleared]
      /\ screen' = [screen EXCEPT ![d] = Origin]
      /\ update_cursor(Origin)
      /\ lines' = [lines EXCEPT ![d] = NoLines]
      /\ whole' = [whole EXCEPT ![d] = TRUE]
      /\ UNCHANGED << saved, displayed_terminal, scheduled_terminal, vmem_page_table,
                      pc, chosen, aim, reading, overtaken, away >>
  BY DEF ClearScreen, Counted, IInv, TypeOK
<1>2. out' \in 0 .. MaxOut
  BY <1>1, ScreenSizes, SMT DEF IInv, TypeOK
<1>3. mem' \in [Mem -> Pages] /\ lines' \in [Terms -> Texts]
  BY <1>1, ClearedTyped, NoLinesText DEF IInv, TypeOK
<1>4. /\ crtc' \in [Registers -> Bytes] /\ index' \in Registers
      /\ late' \subseteq Terms /\ strayed' \in BOOLEAN
      /\ CursorShown' /\ Steady'
  <2>1. Origin \in Places /\ screen'[displayed_terminal'] = Origin
    BY <1>1, ScreenSizes DEF IInv, TypeOK
  <2> QED  BY <1>1, <2>1, UpdateKeeps
<1>5. TypeOK'
  BY <1>1, <1>2, <1>3, <1>4, ScreenSizes DEF IInv, TypeOK
<1>6. Chosen' /\ VidmapFollows'
  BY <1>1 DEF IInv, Chosen, VidmapFollows, PageOf
<1>7. CursorResumes'
  BY <1>1 DEF IInv, TypeOK, CursorResumes
<1> QED  BY <1>4, <1>5, <1>6, <1>7 DEF IInv

LEMMA SwitchDisplayIInv ==
    ASSUME NEW d \in Terms PROVE IInv /\ SwitchDisplay(d) => IInv'
<1> SUFFICES ASSUME IInv, SwitchDisplay(d) PROVE IInv'
  OBVIOUS
<1> DEFINE o == displayed_terminal
<1>1. /\ o \in Terms
      /\ vmem_page_table' = [t \in Terms |-> IF t = d THEN VIDEO ELSE t]
      /\ mem' = [SavePicture EXCEPT ![VIDEO] = SavePicture[d]]
      /\ saved' = [saved EXCEPT ![o] = screen[o]]
      /\ displayed_terminal' = d
      /\ screen' = [screen EXCEPT ![d] = saved'[d]]
      /\ update_cursor(saved'[d])
      /\ overtaken' = [t \in Terms |-> FALSE]
      /\ away' = [away EXCEPT ![d] = FALSE]
      /\ UNCHANGED << scheduled_terminal, pc, chosen, aim, reading, out >>
  BY DEF SwitchDisplay, VmemFor, SaveCursor, Restored, IInv, TypeOK
<1>2. SavePicture \in [Mem -> Pages] /\ mem' \in [Mem -> Pages]
  BY <1>1, ScreenSizes DEF SavePicture, IInv, TypeOK
<1>3. saved' \in [Terms -> Places] /\ screen' \in [Terms -> Places]
  BY <1>1 DEF IInv, TypeOK
<1>4. whole' \in [Terms -> BOOLEAN]
  <2>1. whole' = [whole EXCEPT ![d] = whole[d] /\ ~away[d]]
    BY DEF SwitchDisplay
  <2>2. (whole[d] /\ ~away[d]) \in BOOLEAN
    OBVIOUS
  <2> QED  BY <2>1, <2>2, Zenon DEF IInv, TypeOK
<1>5. lines' \in [Terms -> Texts]
  BY NoLinesText DEF SwitchDisplay, IInv, TypeOK
<1>6. vmem_page_table' \in [Terms -> Mem \cup {Unset}]
  BY <1>1, ScreenSizes
<1>7. /\ crtc' \in [Registers -> Bytes] /\ index' \in Registers
      /\ late' \subseteq Terms /\ strayed' \in BOOLEAN
      /\ CursorShown' /\ Steady'
  <2>1. saved'[d] \in Places /\ screen'[displayed_terminal'] = saved'[d]
    BY <1>1, <1>3 DEF IInv, TypeOK
  <2> QED  BY <1>1, <2>1, UpdateKeeps
<1>8. TypeOK'
  BY <1>1, <1>2, <1>3, <1>4, <1>5, <1>6, <1>7 DEF IInv, TypeOK
<1>9. Chosen' /\ VidmapFollows'
  BY <1>1 DEF IInv, Chosen, VidmapFollows, PageOf
<1>10. CursorResumes'
  BY <1>1 DEF IInv, TypeOK, CursorResumes
<1> QED  BY <1>7, <1>8, <1>9, <1>10 DEF IInv

LEMMA HaltIInv == IInv /\ Halt => IInv'
<1> SUFFICES ASSUME IInv, Halt PROVE IInv'
  OBVIOUS
<1> DEFINE s == scheduled_terminal
<1>1. /\ s \in Terms
      /\ saved' = [saved EXCEPT ![s] = [saved[s] EXCEPT !.x = PROMPT]]
      /\ away' = [away EXCEPT ![s] = away[s] \/ s # displayed_terminal]
      /\ UNCHANGED << mem, screen, cursor, displayed_terminal, scheduled_terminal,
                      vmem_page_table, pc, chosen, aim, reading, overtaken, lines, whole, out >>
  BY DEF Halt, CursorForPrompt, view, IInv, TypeOK
<1>2. saved' \in [Terms -> Places]
  <2>1. saved[s] \in Places /\ PROMPT \in Cols
    BY <1>1, ScreenAssumption DEF IInv, TypeOK
  <2>2. [saved[s] EXCEPT !.x = PROMPT] \in Places
    BY <2>1 DEF Places
  <2> QED  BY <1>1, <2>2 DEF IInv, TypeOK
<1>3. away' \in [Terms -> BOOLEAN]
  <2>1. (away[s] \/ s # displayed_terminal) \in BOOLEAN
    OBVIOUS
  <2> QED  BY <1>1, <2>1, Zenon DEF IInv, TypeOK
<1>4. TypeOK'
  BY <1>1, <1>2, <1>3 DEF IInv, TypeOK, cursor
<1>5. Chosen' /\ VidmapFollows' /\ CursorShown' /\ Steady'
  BY <1>1 DEF IInv, Chosen, VidmapFollows, PageOf, CursorShown, Steady, cursor
<1>6. CursorResumes'
  <2>1. \A t \in Terms : t # s => saved'[t] = saved[t] /\ away'[t] = away[t]
    BY <1>1, Zenon DEF IInv, TypeOK
  <2>2. s # displayed_terminal => away'[s]
    BY <1>1, Zenon DEF IInv, TypeOK
  <2> QED  BY <1>1, <2>1, <2>2, Zenon DEF IInv, CursorResumes
<1> QED  BY <1>4, <1>5, <1>6 DEF IInv

LEMMA DrawIInv ==
    ASSUME NEW at \in Places, NEW c \in Glyphs PROVE IInv /\ Draw(at, c) => IInv'
<1> SUFFICES ASSUME IInv, Draw(at, c) PROVE IInv'
  OBVIOUS
<1> DEFINE p == vmem_page_table[scheduled_terminal]
<1>1. /\ p \in Mem
      /\ mem' = [mem EXCEPT ![p] = Write(mem[p], at, c)]
      /\ out < MaxOut /\ out' = out + 1
      /\ UNCHANGED << screen, cursor, saved, displayed_terminal, scheduled_terminal,
                      vmem_page_table, pc, chosen, aim, reading, overtaken, away >>
  BY DEF Draw, Counted, IInv, TypeOK
<1>2. mem' \in [Mem -> Pages]
  BY <1>1, WriteTyped DEF IInv, TypeOK
<1>3. whole' \in [Terms -> BOOLEAN]
  BY DEF Draw
<1>4. lines' \in [Terms -> Texts]
  BY NoLinesText DEF Draw, IInv, TypeOK
<1>5. out' \in 0 .. MaxOut
  BY <1>1, ScreenSizes, SMT DEF IInv, TypeOK
<1>6. TypeOK'
  BY <1>1, <1>2, <1>3, <1>4, <1>5 DEF IInv, TypeOK, cursor
<1>7. Chosen' /\ VidmapFollows' /\ CursorShown' /\ Steady' /\ CursorResumes'
  BY <1>1 DEF IInv, Chosen, VidmapFollows, PageOf, CursorShown, Steady, CursorResumes, cursor
<1> QED  BY <1>6, <1>7 DEF IInv

(* A step of the running program that leaves both cursors, neither from    *)
(* nor into the middle of an update of the hardware's.                     *)
LEMMA AsideKeeps ==
    ASSUME IInv, NEW p \in PCs, pc' = [pc EXCEPT ![scheduled_terminal] = p],
           {pc[scheduled_terminal], p} \subseteq PCs \ ({"moved"} \cup Updates),
           UNCHANGED << screen, cursor, displayed_terminal, aim >>
    PROVE  pc' \in [Terms -> PCs] /\ CursorShown' /\ Steady'
<1> DEFINE s == scheduled_terminal
<1>1. /\ s \in Terms /\ displayed_terminal \in Terms
      /\ UNCHANGED << crtc, index, late, strayed >>
      /\ pc'[s] = p /\ \A t \in Terms : t # s => pc'[t] = pc[t]
      /\ pc' \in [Terms -> PCs]
  BY DEF IInv, TypeOK, cursor
<1>2. CursorShown' /\ Steady'
  BY <1>1, CursorKeeps DEF IInv
<1> QED  BY <1>1, <1>2

(* The steps that leave pictures and notes alone.                          *)
LEMMA QuietIInv ==
    IInv /\ (PutcStart \/ ReadStart \/ ReadReturn \/ VidmapStart \/ VidmapSet) => IInv'
<1> SUFFICES ASSUME IInv,
                    PutcStart \/ ReadStart \/ ReadReturn \/ VidmapStart \/ VidmapSet
             PROVE  IInv'
  OBVIOUS
<1> DEFINE s == scheduled_terminal
<1>1. s \in Terms /\ displayed_terminal \in Terms /\ PageChosen = PageOf(s)
      /\ PageChosen \in Mem /\ PageChosen \in {VIDEO, s}
  BY PageChosenMem DEF IInv, TypeOK, PageChosen, PageOf
<1>2. {"user", "putc", "reading", "vidmap"} \subseteq PCs \ ({"moved"} \cup Updates)
  BY DEF PCs, Updates, Halves
<1>3. CASE PutcStart \/ VidmapStart
  <2>1. PICK p \in {"putc", "vidmap"} :
           /\ pc[s] = "user" /\ pc' = [pc EXCEPT ![s] = p]
           /\ chosen' = [chosen EXCEPT ![s] = PageChosen]
           /\ UNCHANGED << view, saved, displayed_terminal, scheduled_terminal,
                           vmem_page_table, aim, reading, overtaken, notes >>
    BY <1>3 DEF PutcStart, VidmapStart, Here, Goto, Choose
  <2>2. pc' \in [Terms -> PCs] /\ CursorShown' /\ Steady'
    BY <1>2, <2>1, AsideKeeps DEF view
  <2>3. TypeOK'
    BY <1>1, <2>1, <2>2 DEF IInv, TypeOK, view, cursor, notes
  <2>4. Chosen' /\ VidmapFollows' /\ CursorResumes'
    BY <1>1, <2>1
       DEF IInv, TypeOK, Chosen, VidmapFollows, PageOf, CursorResumes, view, notes
  <2> QED  BY <2>2, <2>3, <2>4 DEF IInv
<1>4. CASE ReadStart \/ ReadReturn
  <2>1. PICK p \in {"reading", "user"}, r \in BOOLEAN :
           /\ pc[s] \in {"reading", "user"} /\ pc' = [pc EXCEPT ![s] = p]
           /\ reading' = [reading EXCEPT ![s] = r]
           /\ UNCHANGED << view, saved, displayed_terminal, scheduled_terminal,
                           vmem_page_table, chosen, aim, overtaken, notes >>
    BY <1>4 DEF ReadStart, ReadReturn, Here, Goto
  <2>2. pc' \in [Terms -> PCs] /\ CursorShown' /\ Steady'
    BY <1>2, <2>1, AsideKeeps DEF view
  <2>3. TypeOK'
    BY <1>1, <2>1, <2>2 DEF IInv, TypeOK, view, cursor, notes
  <2>4. Chosen' /\ VidmapFollows' /\ CursorResumes'
    BY <1>1, <2>1
       DEF IInv, TypeOK, Chosen, VidmapFollows, PageOf, CursorResumes, view, notes
  <2> QED  BY <2>2, <2>3, <2>4 DEF IInv
<1>5. CASE VidmapSet
  <2>1. /\ pc[s] = "vidmap" /\ pc' = [pc EXCEPT ![s] = "user"]
        /\ chosen' = [chosen EXCEPT ![s] = Unset]
        /\ vmem_page_table' = [vmem_page_table EXCEPT ![s] = chosen[s]]
        /\ overtaken' = [overtaken EXCEPT ![s] = chosen[s] # PageOf(s)]
        /\ UNCHANGED << view, saved, displayed_terminal, scheduled_terminal, aim,
                        reading, notes >>
    BY <1>5 DEF VidmapSet, Here, Goto, Choose
  <2>2. overtaken' \in [Terms -> BOOLEAN]
    <3>1. (chosen[s] # PageOf(s)) \in BOOLEAN
      OBVIOUS
    <3> QED  BY <2>1, <3>1, Zenon DEF IInv, TypeOK
  <2>3. pc' \in [Terms -> PCs] /\ CursorShown' /\ Steady'
    BY <1>2, <2>1, AsideKeeps DEF view
  <2>4. TypeOK'
    BY <1>1, <2>1, <2>2, <2>3 DEF IInv, TypeOK, view, cursor, notes
  <2>5. Chosen' /\ CursorResumes'
    BY <1>1, <2>1 DEF IInv, TypeOK, Chosen, CursorResumes, view, notes
  <2>6. VidmapFollows'
    <3>1. /\ vmem_page_table'[s] = chosen[s]
          /\ overtaken'[s] <=> chosen[s] # PageOf(s)
          /\ \A t \in Terms : t # s => /\ vmem_page_table'[t] = vmem_page_table[t]
                                       /\ overtaken'[t] = overtaken[t]
      BY <1>1, <2>1, Zenon DEF IInv, TypeOK
    <3>2. \A t \in Terms : PageOf(t)' = PageOf(t)
      BY <2>1 DEF PageOf
    <3> QED  BY <3>1, <3>2, Zenon DEF IInv, VidmapFollows
  <2> QED  BY <2>3, <2>4, <2>5, <2>6 DEF IInv
<1> QED  BY <1>3, <1>4, <1>5

(***************************************************************************)
(* update_cursor with interrupts on, a write of a register at a time.      *)
(***************************************************************************)

(* What every step of it leaves alone.                                     *)
LEMMA UpdateAside ==
    ASSUME IInv, NEW p \in {"cursor", "low", "sent", "high", "user"},
           pc' = [pc EXCEPT ![scheduled_terminal] = p],
           UNCHANGED << mem, screen, saved, displayed_terminal, scheduled_terminal,
                        vmem_page_table, chosen, reading, overtaken, notes >>,
           crtc' \in [Registers -> Bytes], index' \in Registers,
           late' \subseteq Terms, strayed' \in BOOLEAN, aim' \in [Terms -> Places]
    PROVE  /\ TypeOK' /\ Chosen' /\ CursorResumes' /\ VidmapFollows'
           /\ pc'[scheduled_terminal] = p
           /\ \A t \in Terms : t # scheduled_terminal => pc'[t] = pc[t]
<1>1. TypeOK'
  BY DEF IInv, TypeOK, PCs, Updates, Halves, notes
<1>2. /\ pc'[scheduled_terminal] = p
      /\ \A t \in Terms : t # scheduled_terminal => pc'[t] = pc[t]
  BY DEF IInv, TypeOK
<1>3. Chosen' /\ CursorResumes' /\ VidmapFollows'
  BY <1>2 DEF IInv, Chosen, CursorResumes, VidmapFollows, PageOf, notes
<1> QED  BY <1>1, <1>2, <1>3

LEMMA PutcCursorIInv == IInv /\ PutcCursor => IInv'
<1> SUFFICES ASSUME IInv, PutcCursor PROVE IInv'
  OBVIOUS
<1> DEFINE s == scheduled_terminal
<1>1. /\ s \in Terms /\ displayed_terminal \in Terms /\ pc[s] = "moved"
      /\ UNCHANGED << view, saved, displayed_terminal, scheduled_terminal, vmem_page_table,
                      chosen, reading, overtaken, notes >>
  BY DEF PutcCursor, Here, IInv, TypeOK
<1>2. UNCHANGED << mem, screen, crtc, index, late, strayed >>
  BY <1>1 DEF view, cursor
<1>3. /\ crtc' \in [Registers -> Bytes] /\ index' \in Registers
      /\ late' \subseteq Terms /\ strayed' \in BOOLEAN
  BY <1>2 DEF IInv, TypeOK
<1>4. CASE s = displayed_terminal
  <2>1. pc' = [pc EXCEPT ![s] = "cursor"] /\ aim' = [aim EXCEPT ![s] = screen[s]]
    BY <1>4 DEF PutcCursor, Goto
  <2>2. /\ aim' \in [Terms -> Places] /\ aim'[s] = screen[s]
        /\ \A t \in Terms : t # s => aim'[t] = aim[t]
    BY <1>1, <2>1 DEF IInv, TypeOK
  <2>3. /\ TypeOK' /\ Chosen' /\ CursorResumes' /\ VidmapFollows'
        /\ pc'[s] = "cursor" /\ \A t \in Terms : t # s => pc'[t] = pc[t]
    BY <1>1, <1>2, <1>3, <2>1, <2>2, UpdateAside
  <2>4. CursorShown'
    BY <1>1, <1>4, <2>3 DEF CursorShown, Updates
  <2>5. Steady'
    BY <1>1, <1>2, <1>4, <2>2, <2>3 DEF IInv, Steady
  <2> QED  BY <2>3, <2>4, <2>5 DEF IInv
<1>5. CASE s # displayed_terminal
  <2>1. pc' = [pc EXCEPT ![s] = "user"] /\ aim' = aim
    BY <1>5 DEF PutcCursor, Goto
  <2>2. /\ TypeOK' /\ Chosen' /\ CursorResumes' /\ VidmapFollows'
        /\ pc'[s] = "user" /\ \A t \in Terms : t # s => pc'[t] = pc[t]
    BY <1>1, <1>2, <1>3, <2>1, UpdateAside DEF IInv, TypeOK
  <2>3. "user" \notin Updates
    BY DEF Updates, Halves
  <2>4. CursorShown' /\ Steady'
    BY <1>1, <1>2, <1>5, <2>1, <2>2, <2>3, CursorKeeps DEF IInv
  <2> QED  BY <2>2, <2>4 DEF IInv
<1> QED  BY <1>4, <1>5

LEMMA SelectIInv == IInv /\ (SelectLow \/ SelectHigh) => IInv'
<1> SUFFICES ASSUME IInv, SelectLow \/ SelectHigh PROVE IInv'
  OBVIOUS
<1> DEFINE s == scheduled_terminal
<1>1. PICK r \in Registers, from \in {"cursor", "sent"}, to \in {"low", "high"} :
         /\ Select(r, from, to)
         /\ to = r /\ (from = "sent" <=> r = "high")
  BY DEF SelectLow, SelectHigh, Registers
<1>2. /\ s \in Terms /\ displayed_terminal \in Terms /\ pc[s] = from
      /\ pc' = [pc EXCEPT ![s] = to] /\ index' = r
      /\ late' = late \cup {t \in Terms \ {s} : pc[t] \in Halves}
      /\ UNCHANGED << mem, screen, crtc, strayed, saved, displayed_terminal,
                      scheduled_terminal, vmem_page_table, chosen, aim, reading,
                      overtaken, notes >>
  BY <1>1 DEF Select, Here, Goto, Overtake, IInv, TypeOK
<1>3. /\ crtc' \in [Registers -> Bytes] /\ index' \in Registers
      /\ late' \subseteq Terms /\ strayed' \in BOOLEAN /\ aim' \in [Terms -> Places]
  BY <1>2 DEF IInv, TypeOK
<1>4. /\ TypeOK' /\ Chosen' /\ CursorResumes' /\ VidmapFollows'
      /\ pc'[s] = to /\ \A t \in Terms : t # s => pc'[t] = pc[t]
  BY <1>2, <1>3, UpdateAside
<1>5. {from, to} \subseteq Updates
  BY DEF Updates, Halves
<1>6. CursorShown'
  BY <1>2, <1>4, <1>5 DEF IInv, CursorShown
<1>7. Steady'
  <2>1. SUFFICES ASSUME NEW t \in Terms, pc'[t] \in Updates, t \notin late'
                 PROVE  /\ t = displayed_terminal
                        /\ aim[t] = screen[t]
                        /\ pc'[t] = "low" => r = "low"
                        /\ pc'[t] = "high" => r = "high"
                        /\ pc'[t] \in {"sent", "high"} =>
                               crtc["low"] = CursorAt(aim[t])["low"]
    BY <1>2 DEF Steady
  <2>2. t \notin late /\ (t # s => pc[t] \notin Halves)
    BY <1>2, <2>1
  <2>3. CASE t = s
    BY <1>1, <1>2, <1>4, <1>5, <2>2, <2>3 DEF IInv, Steady
  <2>4. CASE t # s
    <3>1. pc'[t] = "cursor" /\ pc[t] = "cursor"
      BY <1>4, <2>1, <2>2, <2>4 DEF Updates
    <3> QED  BY <2>1, <2>2, <3>1 DEF IInv, Steady
  <2> QED  BY <2>3, <2>4
<1> QED  BY <1>4, <1>6, <1>7 DEF IInv

(* A byte that is sent is one of a register.                               *)
LEMMA SendTyped ==
    ASSUME IInv, NEW r \in Registers, Send(r)
    PROVE  /\ Byte(r) \in Bytes
           /\ crtc' = [crtc EXCEPT ![index] = Byte(r)]
           /\ crtc' \in [Registers -> Bytes] /\ index' \in Registers
           /\ UNCHANGED << mem, screen, index, saved, displayed_terminal,
                           scheduled_terminal, vmem_page_table, chosen, reading,
                           overtaken, notes >>
<1>1. CursorAt(aim[scheduled_terminal]) \in [Registers -> Bytes]
  BY CursorAtTyped DEF IInv, TypeOK
<1>2. Byte(r) \in Bytes
  BY <1>1 DEF Byte
<1> QED  BY <1>2 DEF Send, IInv, TypeOK

LEMMA SendLowIInv == IInv /\ SendLow => IInv'
<1> SUFFICES ASSUME IInv, SendLow PROVE IInv'
  OBVIOUS
<1> DEFINE s == scheduled_terminal
<1>1. "low" \in Registers /\ Send("low")
  BY DEF SendLow, Registers
<1>2. /\ s \in Terms /\ displayed_terminal \in Terms /\ pc[s] = "low"
      /\ pc' = [pc EXCEPT ![s] = "sent"] /\ aim' = aim
      /\ late' = late \cup {t \in Terms \ {s} : pc[t] \in Halves}
      /\ strayed' = (strayed \/ s \in late)
  BY DEF SendLow, Here, Goto, Overtake, IInv, TypeOK
<1>3. /\ crtc' = [crtc EXCEPT ![index] = Byte("low")]
      /\ crtc' \in [Registers -> Bytes] /\ index' \in Registers
      /\ UNCHANGED << mem, screen, index, saved, displayed_terminal, scheduled_terminal,
                      vmem_page_table, chosen, reading, overtaken, notes >>
  BY <1>1, SendTyped
<1>4. late' \subseteq Terms /\ strayed' \in BOOLEAN /\ aim' \in [Terms -> Places]
  BY <1>2 DEF IInv, TypeOK
<1>5. /\ TypeOK' /\ Chosen' /\ CursorResumes' /\ VidmapFollows'
      /\ pc'[s] = "sent" /\ \A t \in Terms : t # s => pc'[t] = pc[t]
  BY <1>2, <1>3, <1>4, UpdateAside
<1>6. {"low", "sent"} \subseteq Updates
  BY DEF Updates, Halves
<1>7. CursorShown'
  <2>1. CASE s \in late
    BY <1>2, <2>1 DEF CursorShown
  <2>2. CASE s \notin late
    <3>1. s = displayed_terminal
      BY <1>2, <1>6, <2>2 DEF IInv, Steady
    <3> QED  BY <1>3, <1>5, <1>6, <3>1 DEF CursorShown
  <2> QED  BY <2>1, <2>2
<1>8. Steady'
  <2>1. SUFFICES ASSUME NEW t \in Terms, pc'[t] \in Updates, t \notin late'
                 PROVE  /\ t = displayed_terminal
                        /\ aim[t] = screen[t]
                        /\ pc'[t] = "low" => index = "low"
                        /\ pc'[t] = "high" => index = "high"
                        /\ pc'[t] \in {"sent", "high"} =>
                               crtc'["low"] = CursorAt(aim[t])["low"]
    BY <1>2, <1>3 DEF Steady
  <2>2. t \notin late /\ (t # s => pc[t] \notin Halves)
    BY <1>2, <2>1
  <2>3. CASE t = s
    <3>1. t = displayed_terminal /\ aim[t] = screen[t] /\ index = "low"
      BY <1>2, <1>6, <2>2, <2>3 DEF IInv, Steady
    <3>2. crtc'["low"] = CursorAt(aim[t])["low"]
      BY <1>1, <1>3, <2>3, <3>1 DEF Byte, IInv, TypeOK
    <3> QED  BY <1>5, <2>3, <3>1, <3>2
  <2>4. CASE t # s
    <3>1. pc'[t] = "cursor" /\ pc[t] = "cursor"
      BY <1>5, <2>1, <2>2, <2>4 DEF Updates
    <3> QED  BY <2>1, <2>2, <3>1 DEF IInv, Steady
  <2> QED  BY <2>3, <2>4
<1> QED  BY <1>5, <1>7, <1>8 DEF IInv

(* With the high byte of an update that nothing overtook both registers    *)
(* have the place of the displayed terminal.                               *)
LEMMA SendHighIInv == IInv /\ SendHigh => IInv'
<1> SUFFICES ASSUME IInv, SendHigh PROVE IInv'
  OBVIOUS
<1> DEFINE s == scheduled_terminal
<1>1. "high" \in Registers /\ Send("high")
  BY DEF SendHigh, Registers
<1>2. /\ s \in Terms /\ displayed_terminal \in Terms /\ pc[s] = "high"
      /\ pc' = [pc EXCEPT ![s] = "user"] /\ aim' = [aim EXCEPT ![s] = Origin]
      /\ late' = {t \in Terms : t # s /\ (t \in late \/ pc[t] \in Halves)}
      /\ strayed' = (s \in late)
  BY DEF SendHigh, Here, Goto, IInv, TypeOK
<1>3. /\ crtc' = [crtc EXCEPT ![index] = Byte("high")]
      /\ crtc' \in [Registers -> Bytes] /\ index' \in Registers
      /\ UNCHANGED << mem, screen, index, saved, displayed_terminal, scheduled_terminal,
                      vmem_page_table, chosen, reading, overtaken, notes >>
  BY <1>1, SendTyped
<1>4. /\ late' \subseteq Terms /\ strayed' \in BOOLEAN /\ aim' \in [Terms -> Places]
      /\ \A t \in Terms : t # s => aim'[t] = aim[t]
  BY <1>2, ScreenSizes DEF IInv, TypeOK
<1>5. /\ TypeOK' /\ Chosen' /\ CursorResumes' /\ VidmapFollows'
      /\ pc'[s] = "user" /\ \A t \in Terms : t # s => pc'[t] = pc[t]
  BY <1>2, <1>3, <1>4, UpdateAside
<1>6. "high" \in Updates /\ "user" \notin Updates
  BY DEF Updates, Halves
<1>7. CursorShown'
  <2>1. CASE s \in late
    BY <1>2, <2>1 DEF CursorShown
  <2>2. CASE s \notin late
    <3>1. /\ s = displayed_terminal /\ aim[s] = screen[s] /\ index = "high"
          /\ crtc["low"] = CursorAt(aim[s])["low"]
      BY <1>2, <1>6, <2>2 DEF IInv, Steady
    <3>2. /\ crtc' \in [Registers -> Bytes]
          /\ crtc'["low"] = CursorAt(aim[s])["low"]
          /\ crtc'["high"] = CursorAt(aim[s])["high"]
      BY <1>3, <3>1 DEF Byte, Registers, IInv, TypeOK
    <3>3. CursorAt(aim[s]) \in [Registers -> Bytes]
      BY <1>2, CursorAtTyped DEF IInv, TypeOK
    <3>4. crtc' = CursorAt(screen'[displayed_terminal'])
      BY <1>3, <3>1, <3>2, <3>3 DEF Registers
    <3> QED  BY <3>4 DEF CursorShown
  <2> QED  BY <2>1, <2>2
<1>8. Steady'
  <2>1. SUFFICES ASSUME NEW t \in Terms, pc'[t] \in Updates, t \notin late'
                 PROVE  /\ t = displayed_terminal
                        /\ aim'[t] = screen[t]
                        /\ pc'[t] = "cursor"
    BY <1>3 DEF Steady
  <2>2. t # s
    BY <1>5, <1>6, <2>1
  <2>3. t \notin late /\ pc[t] \notin Halves
    BY <1>2, <2>1, <2>2
  <2>4. pc'[t] = "cursor" /\ pc[t] = "cursor"
    BY <1>5, <2>1, <2>2, <2>3 DEF Updates
  <2> QED  BY <1>4, <2>1, <2>2, <2>3, <2>4 DEF IInv, Steady
<1> QED  BY <1>5, <1>7, <1>8 DEF IInv

(* A key that reads the cursor overtakes every update that has begun.      *)
LEMMA ReadCursorIInv == IInv /\ ReadCursor => IInv'
<1> SUFFICES ASSUME IInv, ReadCursor PROVE IInv'
  OBVIOUS
<1>1. /\ index' = "high"
      /\ late' = late \cup {t \in Terms : pc[t] \in Halves}
      /\ UNCHANGED << mem, screen, crtc, strayed, saved, displayed_terminal,
                      scheduled_terminal, vmem_page_table, pc, chosen, aim, reading,
                      overtaken, notes >>
  BY DEF ReadCursor
<1>2. TypeOK'
  BY <1>1 DEF IInv, TypeOK, Registers, notes
<1>3. Chosen' /\ CursorResumes' /\ CursorShown' /\ VidmapFollows'
  BY <1>1 DEF IInv, Chosen, CursorResumes, CursorShown, VidmapFollows, PageOf, notes
<1>4. Steady'
  <2>1. SUFFICES ASSUME NEW t \in Terms, pc[t] \in Updates, t \notin late'
                 PROVE  /\ t = displayed_terminal
                        /\ aim[t] = screen[t]
                        /\ pc[t] = "cursor"
    BY <1>1 DEF Steady
  <2>2. t \notin late /\ pc[t] \notin Halves
    BY <1>1, <2>1
  <2>3. pc[t] = "cursor"
    BY <2>1, <2>2 DEF Updates
  <2> QED  BY <2>1, <2>2, <2>3 DEF IInv, Steady
<1> QED  BY <1>2, <1>3, <1>4 DEF IInv

LEMMA NextIInv == IInv /\ [Next]_vars => IInv'
<1> SUFFICES ASSUME IInv, [Next]_vars PROVE IInv'
  OBVIOUS
<1>1. CASE RoundRobin
  <2>1. scheduled_terminal' \in Terms
    BY <1>1, ScreenSizes, SMT DEF RoundRobin, Terms, IInv, TypeOK
  <2>2. UNCHANGED << view, saved, displayed_terminal, vmem_page_table, pc, chosen,
                     aim, reading, overtaken, notes >>
    BY <1>1 DEF RoundRobin
  <2> QED  BY <2>1, <2>2
           DEF IInv, TypeOK, Chosen, VidmapFollows, PageOf, CursorShown, Steady,
               CursorResumes, view, cursor, notes
<1>2. CASE RestartShell \/ UNCHANGED vars
  BY <1>2 DEF RestartShell, vars, view, cursor, notes, IInv, TypeOK, Chosen,
              VidmapFollows, PageOf, CursorShown, Steady, CursorResumes
<1>3. ASSUME NEW at \in {Origin}, NEW c \in Glyphs, Draw(at, c) PROVE IInv'
  BY <1>3, DrawIInv, ScreenSizes
<1> QED  BY <1>1, <1>2, <1>3, WriteIInv, PutcCellsIInv, EchoIInv, ClearScreenIInv,
            SwitchDisplayIInv, HaltIInv, SigquitIInv, QuietIInv, PutcCursorIInv,
            SelectIInv, SendLowIInv, SendHighIInv, ReadCursorIInv DEF Next

THEOREM Invariance == Spec => []IInv
BY InitIInv, NextIInv, PTL DEF Spec

(* Every cell of every page holds a character that shows or a blank, and   *)
(* every cursor is on the screen, whatever is printed, scrolled and        *)
(* exchanged (lib.c:463, scheduling.c:114).                                *)
THEOREM AlwaysTyped == Spec => []TypeOK
BY Invariance, PTL DEF IInv

(* A terminal whose program was quiet in the background comes back with    *)
(* the cursor it had (scheduling.c:114).                                   *)
THEOREM AlwaysCursorResumes == Spec => []CursorResumes
BY Invariance, PTL DEF IInv

(* The hardware's cursor is where the displayed terminal prints next,      *)
(* however prints, keys and switches fall together, until a program that   *)
(* was interrupted between the test of lib.c:276 and the last write of     *)
(* update_cursor (keyboard.c:88) goes on with it too late.                 *)
THEOREM AlwaysCursorShown == Spec => []CursorShown
BY Invariance, PTL DEF IInv

(* The page sys_vidmap hands out follows its terminal (syscalls.c:563).    *)
THEOREM AlwaysVidmapFollows == Spec => []VidmapFollows
BY Invariance, PTL DEF IInv

(***************************************************************************)
(* What a step does to the pictures.                                       *)
(***************************************************************************)
LEMMA SwitchKeeps ==
    ASSUME IInv, NEW d \in Terms, SwitchDisplay(d), NEW t \in Terms
    PROVE  Picture(t)' = Picture(t)
<1> DEFINE o == displayed_terminal
<1>1. /\ o \in Terms /\ d \in Mem /\ o \in Mem /\ t \in Mem /\ VIDEO \in Mem
      /\ d # VIDEO /\ o # VIDEO /\ t # VIDEO
      /\ mem \in [Mem -> Pages]
  BY ScreenSizes DEF IInv, TypeOK
<1>2. /\ SavePicture = [mem EXCEPT ![o] = mem[VIDEO]]
      /\ mem' = [SavePicture EXCEPT ![VIDEO] = SavePicture[d]]
      /\ displayed_terminal' = d
  BY DEF SwitchDisplay, SavePicture
<1>3. mem'[VIDEO] = SavePicture[d] /\ mem'[t] = SavePicture[t]
  BY <1>1, <1>2
<1>4. CASE t = d
  <2>1. Picture(t)' = SavePicture[d]
    BY <1>2, <1>3, <1>4 DEF Picture, PageOf
  <2>2. SavePicture[d] = IF d = o THEN mem[VIDEO] ELSE mem[d]
    BY <1>1, <1>2
  <2> QED  BY <1>4, <2>1, <2>2 DEF Picture, PageOf
<1>5. CASE t # d
  <2>1. Picture(t)' = SavePicture[t]
    BY <1>2, <1>3, <1>5 DEF Picture, PageOf
  <2>2. SavePicture[t] = IF t = o THEN mem[VIDEO] ELSE mem[t]
    BY <1>1, <1>2
  <2> QED  BY <2>1, <2>2 DEF Picture, PageOf
<1> QED  BY <1>4, <1>5

(* What is put on the page of terminal t is seen on t alone.               *)
LEMMA PutOnOwn ==
    ASSUME IInv, NEW t \in Terms, NEW c \in Chars, PutOn(t, PageOf(t), c),
           displayed_terminal' = displayed_terminal, NEW u \in Terms, u # t
    PROVE  Picture(u)' = Picture(u)
<1>1. PageOf(u) # PageOf(t) /\ PageOf(u) \in Mem /\ PageOf(t) \in Mem
  BY PageOfOnce, PageOfMem
<1>2. mem'[PageOf(u)] = mem[PageOf(u)]
  BY <1>1, PutOnKeeps DEF IInv
<1> QED  BY <1>2 DEF Picture, PageOf

(* Every other step but a drawing leaves mem and displayed_terminal.       *)
LEMMA PicturesStay ==
    ASSUME mem' = mem, displayed_terminal' = displayed_terminal, NEW u \in Terms
    PROVE  Picture(u)' = Picture(u)
BY DEF Picture, PageOf

LEMMA DrawOwn ==
    ASSUME IInv, ~overtaken[scheduled_terminal],
           NEW at \in Places, NEW c \in Glyphs, Draw(at, c),
           NEW u \in Terms, u # scheduled_terminal
    PROVE  Picture(u)' = Picture(u)
<1> DEFINE s == scheduled_terminal
<1>1. s \in Terms /\ vmem_page_table[s] = PageOf(s)
  BY DEF IInv, TypeOK, Draw, VidmapFollows
<1>2. /\ mem' = [mem EXCEPT ![PageOf(s)] = Write(mem[PageOf(s)], at, c)]
      /\ displayed_terminal' = displayed_terminal
  BY <1>1 DEF Draw
<1>3. PageOf(u) # PageOf(s) /\ PageOf(u) \in Mem /\ PageOf(s) \in Mem
  BY <1>1, PageOfOnce, PageOfMem
<1>4. mem'[PageOf(u)] = mem[PageOf(u)]
  BY <1>2, <1>3 DEF IInv, TypeOK
<1> QED  BY <1>2, <1>4 DEF Picture, PageOf

(* Switching terminals loses and changes no picture (scheduling.c:107).    *)
THEOREM AlwaysSwitchKeepsPictures == Spec => SwitchKeepsPictures
<1>1. ASSUME IInv, [Next]_vars
      PROVE  [displayed_terminal' # displayed_terminal =>
                 \A t \in Terms : Picture(t)' = Picture(t)]_vars
  <2>1. ASSUME NEW d \in Terms, SwitchDisplay(d)
        PROVE  \A t \in Terms : Picture(t)' = Picture(t)
    BY <1>1, <2>1, SwitchKeeps
  <2>2. \/ \E d \in Terms : SwitchDisplay(d)
        \/ displayed_terminal' = displayed_terminal
    BY <1>1 DEF Next, vars, t_write, PutcStart, PutcCells, PutcCursor, SelectLow, SendLow,
                SelectHigh, SendHigh, Select, Send, ReadStart, ReadReturn, ReadCursor,
                Echo, ClearScreen, RoundRobin, Halt, RestartShell, Sigquit, VidmapStart,
                VidmapSet, Draw
  <2> QED  BY <2>1, <2>2
<1> QED  BY <1>1, Invariance, PTL DEF Spec, SwitchKeepsPictures

(* A program changes the picture of its own terminal only, and a key that  *)
(* of the displayed one, with any number of terminals printing, drawing    *)
(* and being exchanged (scheduling.c:121), but for the exchange inside a   *)
(* putc or sys_vidmap.                                                     *)
THEOREM AlwaysOwnScreens == Spec => OwnScreens
<1>1. ASSUME IInv, Next, OwnPage(scheduled_terminal),
             NEW u \in Terms, Picture(u)' # Picture(u)
      PROVE  u = scheduled_terminal \/ (u = displayed_terminal /\ reading[u])
  <2> DEFINE s == scheduled_terminal
  <2>0. s \in Terms /\ displayed_terminal \in Terms /\ PageChosen = PageOf(s)
    BY <1>1 DEF IInv, TypeOK, PageChosen, PageOf
  <2>1. CASE t_write \/ Sigquit
    <3>1. PICK c \in Chars : PutOn(s, PageOf(s), c)
      BY <2>0, <2>1 DEF t_write, Sigquit, Output
    <3>2. displayed_terminal' = displayed_terminal
      BY <2>1 DEF t_write, Sigquit
    <3> QED  BY <1>1, <2>0, <3>1, <3>2, PutOnOwn
  <2>2. CASE PutcCells
    <3>1. PICK c \in Chars : PutOn(s, PageOf(s), c)
      BY <1>1, <2>2 DEF PutcCells, Here, OwnPage
    <3>2. displayed_terminal' = displayed_terminal
      BY <2>2 DEF PutcCells
    <3> QED  BY <1>1, <2>0, <3>1, <3>2, PutOnOwn
  <2>3. ASSUME NEW c \in Chars, Echo(c)
        PROVE  u = displayed_terminal /\ reading[u]
    <3>1. PutOn(displayed_terminal, PageOf(displayed_terminal), c)
      BY <2>3 DEF Echo, PageOf
    <3>2. displayed_terminal' = displayed_terminal /\ reading[displayed_terminal]
      BY <2>3 DEF Echo
    <3> QED  BY <1>1, <2>0, <3>1, <3>2, PutOnOwn
  <2>4. CASE ClearScreen
    <3>1. /\ mem' = [mem EXCEPT ![VIDEO] = Cleared]
          /\ displayed_terminal' = displayed_terminal /\ reading[displayed_terminal]
      BY <2>4 DEF ClearScreen
    <3>2. u # displayed_terminal => PageOf(u) # VIDEO /\ PageOf(u) \in Mem
      BY ScreenSizes, PageOfMem DEF PageOf
    <3>3. u # displayed_terminal => mem'[PageOf(u)] = mem[PageOf(u)]
      BY <1>1, <3>1, <3>2 DEF IInv, TypeOK
    <3> QED  BY <1>1, <3>1, <3>3 DEF Picture, PageOf
  <2>5. ASSUME NEW d \in Terms, SwitchDisplay(d) PROVE FALSE
    BY <1>1, <2>5, SwitchKeeps
  <2>6. ASSUME NEW at \in {Origin}, NEW c \in Glyphs, Draw(at, c) PROVE u = s
    BY <1>1, <2>6, DrawOwn, ScreenSizes DEF OwnPage
  <2>7. CASE \/ PutcStart \/ PutcCursor \/ SelectLow \/ SendLow \/ SelectHigh
             \/ SendHigh \/ ReadStart \/ ReadReturn \/ ReadCursor \/ RoundRobin
             \/ Halt \/ RestartShell \/ VidmapStart \/ VidmapSet
    <3>1. mem' = mem /\ displayed_terminal' = displayed_terminal
      BY <2>7 DEF PutcStart, PutcCursor, SelectLow, SendLow, SelectHigh, SendHigh, Select,
                  Send, ReadStart, ReadReturn, ReadCursor, RoundRobin, Halt,
                  RestartShell, VidmapStart, VidmapSet, vars, view
    <3> QED  BY <1>1, <3>1, PicturesStay
  <2> QED  BY <1>1, <2>1, <2>2, <2>3, <2>4, <2>5, <2>6, <2>7 DEF Next
<1>2. ASSUME IInv, [Next]_vars
      PROVE  [OwnPage(scheduled_terminal) =>
                 \A t \in Terms : Picture(t)' # Picture(t) =>
                     t = scheduled_terminal \/ (t = displayed_terminal /\ reading[t])]_vars
  BY <1>1, <1>2, Zenon
<1> QED  BY <1>2, Invariance, PTL DEF Spec, OwnScreens

(***************************************************************************)
(* Shown is kept by every step that keeps IInv.                            *)
(***************************************************************************)
LEMMA EmptyShows == Cleared = PageShowing(NoLines) /\ Origin = PlaceBehind(NoLines)
<1>1. /\ Len(NoLines) = 1 /\ NoLines[1] = << >> /\ Len(<< >>) = 0
      /\ NUM_ROWS \in Nat /\ NUM_ROWS > 1
  BY NoLinesText, EmptySeq, ConsoleAssumption
<1>2. Above(NoLines) = 0
  BY <1>1 DEF Above
<1>3. ASSUME NEW row \in Rows, NEW col \in Cols PROVE Cell(NoLines, row, col) = BLANK
  <2>1. row \in Nat /\ col \in Nat /\ 0 + row + 1 = row + 1
    BY <1>3 DEF Rows, Cols
  <2>2. Cell(NoLines, row, col) = IF row + 1 <= 1 /\ col < Len(NoLines[row + 1])
                                  THEN NoLines[row + 1][col + 1] ELSE BLANK
    BY <1>1, <1>2, <2>1 DEF Cell
  <2>3. row + 1 <= 1 => row + 1 = 1
    BY <2>1
  <2> QED  BY <1>1, <2>1, <2>2, <2>3
<1>4. Cleared = PageShowing(NoLines)
  BY <1>3 DEF Cleared, Blanks, PageShowing
<1>5. PlaceBehind(NoLines) = [x |-> 0, y |-> 0]
  BY <1>1, <1>2 DEF PlaceBehind
<1> QED  BY <1>4, <1>5 DEF Origin

LEMMA HeaderShows == Prompt = PageShowing(Header) /\ Start = PlaceBehind(Header)
<1>1. /\ Len(Header) = 2 /\ Header[1] = << >> /\ Len(<< >>) = 0
      /\ Len(Header[2]) = PROMPT /\ \A k \in 1 .. PROMPT : Header[2][k] = Mark
      /\ NUM_ROWS \in Nat /\ NUM_ROWS > 1
  BY HeaderText, EmptySeq, ConsoleAssumption
<1>2. Above(Header) = 0 /\ 1 \in Rows /\ PROMPT \in Nat
  BY <1>1, ScreenSizes, ScreenAssumption DEF Above, Cols
<1>3. ASSUME NEW row \in Rows, NEW col \in Cols
      PROVE  Cell(Header, row, col) = IF row = 1 /\ col < PROMPT THEN Mark ELSE BLANK
  <2>1. row \in Nat /\ col \in Nat /\ 0 + row + 1 = row + 1
    BY <1>3 DEF Rows, Cols
  <2>2. Cell(Header, row, col) = IF row + 1 <= 2 /\ col < Len(Header[row + 1])
                                 THEN Header[row + 1][col + 1] ELSE BLANK
    BY <1>1, <1>2, <2>1 DEF Cell
  <2>3. CASE row = 0
    BY <1>1, <2>1, <2>2, <2>3
  <2>4. CASE row = 1
    BY <1>1, <1>2, <2>1, <2>2, <2>4
  <2>5. CASE row > 1
    BY <2>1, <2>2, <2>5
  <2> QED  BY <2>1, <2>3, <2>4, <2>5
<1>4. PageShowing(Header) = [row \in Rows |-> [col \in Cols |->
          IF row = 1 /\ col < PROMPT THEN Mark ELSE BLANK]]
  BY <1>3 DEF PageShowing
<1>5. Prompt = [row \in Rows |-> IF row = 1
                                 THEN [col \in Cols |-> IF col < PROMPT THEN Mark ELSE BLANK]
                                 ELSE [col \in Cols |-> BLANK]]
  BY <1>2 DEF Prompt, Cleared, Blanks
<1>6. \A row \in Rows : Prompt[row] = PageShowing(Header)[row]
  BY <1>4, <1>5
<1>7. Prompt = PageShowing(Header)
  BY <1>4, <1>5, <1>6
<1>8. PlaceBehind(Header) = [x |-> PROMPT, y |-> 1]
  BY <1>1, <1>2 DEF PlaceBehind
<1> QED  BY <1>7, <1>8 DEF Start

LEMMA InitShown == Init => Shown
<1> SUFFICES ASSUME Init, NEW t \in Terms
             PROVE  Shows(Picture(t), screen[t], lines[t])
  BY DEF Shown
<1>1. /\ displayed_terminal = 0 /\ VIDEO \in Mem /\ t \in Mem /\ t # VIDEO /\ VIDEO # 0
  BY ScreenSizes DEF Init
<1>2. CASE t = 0 /\ Blank
  <2>1. Picture(t) = Cleared /\ screen[t] = Origin /\ lines[t] = NoLines
    BY <1>1, <1>2, ScreenSizes DEF Init, Picture, PageOf
  <2> QED  BY <2>1, EmptyShows DEF Shows
<1>3. CASE ~(t = 0 /\ Blank)
  <2>1. Picture(t) = Prompt /\ screen[t] = Start /\ lines[t] = Header
    BY <1>1, <1>3, ScreenSizes DEF Init, Picture, PageOf
  <2> QED  BY <2>1, HeaderShows DEF Shows
<1> QED  BY <1>2, <1>3

(* A terminal whose picture, place and lines stay goes on showing them.    *)
LEMMA StaysShown ==
    ASSUME Shown, NEW u \in Terms, whole'[u] => whole[u], Picture(u)' = Picture(u),
           screen'[u] = screen[u], lines'[u] = lines[u]
    PROVE  whole'[u] => Shows(Picture(u)', screen'[u], lines'[u])
BY DEF Shown

(* A character put on video memory or on the terminal's own page is behind *)
(* the terminal's lines, or the terminal whose picture it spoils is out.   *)
LEMMA PutOnShown ==
    ASSUME IInv, Shown, NEW t \in Terms, NEW p \in {VIDEO, t}, NEW c \in Chars,
           PutOn(t, p, c), displayed_terminal' = displayed_terminal
    PROVE  Shown'
<1> SUFFICES ASSUME NEW u \in Terms, whole'[u]
             PROVE  Shows(Picture(u)', screen'[u], lines'[u])
  BY DEF Shown
<1> DEFINE put == Put(mem[p], screen[t], c)
<1>1. /\ p \in Mem /\ t # VIDEO /\ u # VIDEO /\ displayed_terminal \in Terms
      /\ screen[t] \in Places /\ lines[t] \in Texts /\ mem \in [Mem -> Pages]
      /\ screen \in [Terms -> Places]
  BY ScreenSizes DEF IInv, TypeOK
<1>2. /\ mem' = [mem EXCEPT ![p] = put.page]
      /\ screen' = [screen EXCEPT ![t] = put.at]
      /\ lines'[u] = IF u = t THEN AddChar(lines[u], c) ELSE lines[u]
      /\ whole[u]
      /\ p # PageOf(t) => u # t
      /\ p # PageOf(t) /\ p = VIDEO => u # displayed_terminal
  BY DEF PutOn
<1> HIDE DEF put
<1>3. PageOf(u)' = PageOf(u) /\ PageOf(u) \in Mem /\ Picture(u)' = mem'[PageOf(u)]
  BY PageOfMem DEF PageOf, Picture
<1>4. CASE u = t /\ p = PageOf(t)
  <2>1. Shows(mem[p], screen[t], lines[t])
    BY <1>2, <1>4 DEF Shown, Picture
  <2>2. Shows(put.page, put.at, AddChar(lines[t], c))
    BY <1>1, <2>1, PutShows DEF put
  <2>3. Picture(u)' = put.page /\ screen'[u] = put.at /\ lines'[u] = AddChar(lines[t], c)
    BY <1>1, <1>2, <1>3, <1>4
  <2> QED  BY <2>2, <2>3
<1>5. CASE u # t
  <2>1. PageOf(u) # p
    BY <1>1, <1>2, <1>5 DEF PageOf
  <2>2. Picture(u)' = Picture(u) /\ screen'[u] = screen[u] /\ lines'[u] = lines[u]
    BY <1>1, <1>2, <1>3, <1>5, <2>1 DEF Picture
  <2> QED  BY <1>2, <2>2, StaysShown
<1> QED  BY <1>2, <1>4, <1>5

LEMMA ClearScreenShown == IInv /\ Shown /\ ClearScreen => Shown'
<1> SUFFICES ASSUME IInv, Shown, ClearScreen, NEW u \in Terms, whole'[u]
             PROVE  Shows(Picture(u)', screen'[u], lines'[u])
  BY DEF Shown
<1> DEFINE d == displayed_terminal
<1>1. /\ mem' = [mem EXCEPT ![VIDEO] = Cleared]
      /\ screen' = [screen EXCEPT ![d] = Origin]
      /\ lines' = [lines EXCEPT ![d] = NoLines]
      /\ whole' = [whole EXCEPT ![d] = TRUE]
      /\ displayed_terminal' = d
      /\ d \in Terms /\ u \in Mem /\ u # VIDEO /\ VIDEO \in Mem
      /\ mem \in [Mem -> Pages] /\ screen \in [Terms -> Places]
      /\ lines \in [Terms -> Texts] /\ whole \in [Terms -> BOOLEAN]
  BY ScreenSizes DEF ClearScreen, IInv, TypeOK
<1>2. CASE u = d
  <2>1. Picture(u)' = Cleared /\ screen'[u] = Origin /\ lines'[u] = NoLines
    BY <1>1, <1>2 DEF Picture, PageOf
  <2> QED  BY <2>1, EmptyShows DEF Shows
<1>3. CASE u # d
  <2>1. Picture(u)' = Picture(u) /\ screen'[u] = screen[u] /\ lines'[u] = lines[u]
    BY <1>1, <1>3 DEF Picture, PageOf
  <2>2. whole'[u] => whole[u]
    BY <1>1, <1>3, Zenon
  <2> QED  BY <2>1, <2>2, StaysShown
<1> QED  BY <1>2, <1>3

(* The terminal that comes back shows its lines if it was not away, for    *)
(* then its cursor is where it was.                                        *)
LEMMA SwitchShown == ASSUME NEW d \in Terms PROVE IInv /\ Shown /\ SwitchDisplay(d) => Shown'
<1> SUFFICES ASSUME IInv, Shown, SwitchDisplay(d), NEW u \in Terms, whole'[u]
             PROVE  Shows(Picture(u)', screen'[u], lines'[u])
  BY DEF Shown
<1> DEFINE o == displayed_terminal
<1>1. /\ o \in Terms
      /\ saved' = [saved EXCEPT ![o] = screen[o]]
      /\ screen' = [screen EXCEPT ![d] = saved'[d]]
      /\ whole' = [whole EXCEPT ![d] = whole[d] /\ ~away[d]]
      /\ lines' = [lines EXCEPT ![d] = IF whole'[d] THEN lines[d] ELSE NoLines]
      /\ screen \in [Terms -> Places] /\ saved \in [Terms -> Places]
      /\ lines \in [Terms -> Texts] /\ whole \in [Terms -> BOOLEAN]
  BY DEF SwitchDisplay, SaveCursor, IInv, TypeOK
<1>2. Picture(u)' = Picture(u)
  BY SwitchKeeps
<1>3. whole[u] /\ (u = d => ~away[d])
  BY <1>1, Zenon
<1>4. lines'[u] = lines[u]
  BY <1>1
<1>5. screen'[u] = screen[u]
  <2>1. CASE u # d
    BY <1>1, <2>1
  <2>2. CASE u = d /\ d = o
    BY <1>1, <2>2
  <2>3. CASE u = d /\ d # o
    BY <1>1, <1>3, <2>3 DEF IInv, CursorResumes
  <2> QED  BY <2>1, <2>2, <2>3
<1> QED  BY <1>2, <1>3, <1>4, <1>5, StaysShown

LEMMA DrawShown ==
    ASSUME NEW at \in Places, NEW c \in Glyphs
    PROVE  IInv /\ Shown /\ Draw(at, c) => Shown'
<1> SUFFICES ASSUME IInv, Shown, Draw(at, c), NEW u \in Terms, whole'[u]
             PROVE  Shows(Picture(u)', screen'[u], lines'[u])
  BY DEF Shown
<1> DEFINE p == vmem_page_table[scheduled_terminal]
<1>1. /\ mem' = [mem EXCEPT ![p] = Write(mem[p], at, c)]
      /\ whole[u] /\ p # PageOf(u) /\ lines'[u] = lines[u]
      /\ screen' = screen /\ displayed_terminal' = displayed_terminal
      /\ mem \in [Mem -> Pages] /\ PageOf(u) \in Mem
  BY PageOfMem DEF Draw, IInv, TypeOK
<1>2. Picture(u)' = Picture(u)
  BY <1>1 DEF Picture, PageOf
<1> QED  BY <1>1, <1>2, StaysShown

LEMMA NextShown == IInv /\ Shown /\ [Next]_vars => Shown'
<1> SUFFICES ASSUME IInv, Shown, [Next]_vars PROVE Shown'
  OBVIOUS
<1> DEFINE s == scheduled_terminal
<1>0. s \in Terms /\ displayed_terminal \in Terms /\ PageChosen \in {VIDEO, s}
  BY DEF IInv, TypeOK, PageChosen
<1>1. CASE t_write \/ Sigquit
  <2>1. PICK c \in Chars : PutOn(s, PageChosen, c)
    BY <1>1 DEF t_write, Sigquit, Output
  <2>2. displayed_terminal' = displayed_terminal
    BY <1>1 DEF t_write, Sigquit
  <2> QED  BY <1>0, <2>1, <2>2, PutOnShown
<1>2. CASE PutcCells
  <2>1. PICK c \in Chars : PutOn(s, chosen[s], c)
    BY <1>2 DEF PutcCells
  <2>2. displayed_terminal' = displayed_terminal /\ chosen[s] \in {VIDEO, s}
    BY <1>0, <1>2 DEF PutcCells, Here, IInv, Chosen
  <2> QED  BY <1>0, <2>1, <2>2, PutOnShown
<1>3. ASSUME NEW c \in Chars, Echo(c) PROVE Shown'
  BY <1>0, <1>3, PutOnShown DEF Echo
<1>4. ASSUME NEW at \in {Origin}, NEW c \in Glyphs, Draw(at, c) PROVE Shown'
  BY <1>4, DrawShown, ScreenSizes
<1>5. CASE \/ PutcStart \/ PutcCursor \/ SelectLow \/ SendLow \/ SelectHigh
           \/ SendHigh \/ ReadStart \/ ReadReturn \/ ReadCursor \/ RoundRobin
           \/ Halt \/ RestartShell \/ VidmapStart \/ VidmapSet \/ UNCHANGED vars
  <2>1. /\ mem' = mem /\ displayed_terminal' = displayed_terminal
        /\ screen' = screen /\ lines' = lines /\ whole' = whole
    BY <1>5 DEF PutcStart, PutcCursor, SelectLow, SendLow, SelectHigh, SendHigh, Select,
                Send, ReadStart, ReadReturn, ReadCursor, RoundRobin, Halt,
                RestartShell, VidmapStart, VidmapSet, vars, view, notes
  <2> QED  BY <2>1, PicturesStay, StaysShown DEF Shown
<1> QED  BY <1>1, <1>2, <1>3, <1>4, <1>5, ClearScreenShown, SwitchShown DEF Next

(* Every terminal shows the last lines of what was printed on it and typed *)
(* at it, on a screen of any size, through scrolling and every exchange of *)
(* pages, but for what Shown leaves out (lib.c:463, scheduling.c:107).     *)
THEOREM AlwaysShown == Spec => []Shown
<1>1. Init => IInv /\ Shown
  BY InitIInv, InitShown
<1>2. (IInv /\ Shown) /\ [Next]_vars => (IInv /\ Shown)'
  BY NextIInv, NextShown
<1> QED  BY <1>1, <1>2, PTL DEF Spec

=============================================================================
