------------------------------ MODULE Console ------------------------------
(***************************************************************************)
(* What putc and putc_kb (lib.c) do to a page of video memory and to a     *)
(* terminal's screen_x and screen_y, as functions of them: the two have    *)
(* the same branches and differ in the page and the terminal they take.    *)
(*                                                                         *)
(* A page is its rows from the top, each a function from columns.          *)
(*                                                                         *)
(* ScrollLess and BeyondCol are not the code: each is the next definition  *)
(* with a plausible mistake in it.                                         *)
(***************************************************************************)
EXTENDS Integers, Sequences

CONSTANTS
    NUM_ROWS,   \* 25 in the code
    NUM_COLS,   \* 80 in the code
    Glyphs      \* characters that show

ASSUME ConsoleAssumption ==
    /\ NUM_ROWS \in Nat /\ NUM_ROWS > 1
    /\ NUM_COLS \in Nat /\ NUM_COLS > 1
    /\ Glyphs # {} /\ Glyphs \cap {"\n", "\r", "\t"} = {}

Rows  == 0 .. NUM_ROWS - 1
Cols  == 0 .. NUM_COLS - 1
Chars == Glyphs \cup {"\n"}

BLANK   == " "
Places  == [x : Cols, y : Rows]
Origin  == [x |-> 0, y |-> 0]
Blanks  == [col \in Cols |-> BLANK]
Cleared == [row \in Rows |-> Blanks]
Pages   == [Rows -> [Cols -> Glyphs \cup {BLANK}]]

Write(page, at, c)   == [page EXCEPT ![at.y][at.x] = c]
ScrollLess(page)     == [row \in Rows |-> IF row < NUM_ROWS - 1 THEN page[row + 1] ELSE page[row]]
Scroll(page)         == [row \in Rows |-> IF row < NUM_ROWS - 1 THEN page[row + 1] ELSE Blanks]
LineStart(row)       == [x |-> 0, y |-> row]

LastRow(at)   == at.y = NUM_ROWS - 1
BeyondCol(at) == at.x = NUM_COLS
LastCol(at)   == at.x = NUM_COLS - 1

(* The page and the place after character c was put on page at place at.   *)
Put(page, at, c) ==
    CASE c = "\t" ->
            [page |-> page, at |-> at]
      [] c \in {"\n", "\r"} /\ ~LastRow(at) ->
            [page |-> page, at |-> LineStart(at.y + 1)]
      [] c = "\n" /\ LastRow(at) ->
            [page |-> Scroll(page), at |-> LineStart(at.y)]
      [] c # "\n" /\ LastRow(at) /\ LastCol(at) ->
            [page |-> Scroll(Write(page, at, c)), at |-> LineStart(at.y)]
      [] c \notin {"\t", "\n", "\r"} /\ ~LastRow(at) /\ LastCol(at) ->
            [page |-> Write(page, at, c), at |-> LineStart(at.y + 1)]
      [] OTHER ->
            [page |-> Write(page, at, c), at |-> [at EXCEPT !.x = @ + 1]]

-----------------------------------------------------------------------------
(* For reference: the lines of what is put on a screen, broken at "\n" and *)
(* after NUM_COLS characters, and the screen that shows the last of them.  *)
Texts   == Seq(Seq(Glyphs)) \ {<< >>}
NoLines == << << >> >>

AddGlyph(lines, c) == [lines EXCEPT ![Len(lines)] = Append(@, c)]

AddChar(lines, c) ==
    CASE c = "\n"                                            -> Append(lines, << >>)
      [] c # "\n" /\ Len(lines[Len(lines)]) = NUM_COLS - 1    -> Append(AddGlyph(lines, c), << >>)
      [] OTHER                                               -> AddGlyph(lines, c)

Above(lines) == IF Len(lines) > NUM_ROWS THEN Len(lines) - NUM_ROWS ELSE 0

Cell(lines, row, col) ==
    LET n == Above(lines) + row + 1
    IN  IF n <= Len(lines) /\ col < Len(lines[n]) THEN lines[n][col + 1] ELSE BLANK

PageShowing(lines)  == [row \in Rows |-> [col \in Cols |-> Cell(lines, row, col)]]
PlaceBehind(lines)  == [x |-> Len(lines[Len(lines)]), y |-> Len(lines) - Above(lines) - 1]
Shows(page, at, lines) == page = PageShowing(lines) /\ at = PlaceBehind(lines)

=============================================================================
