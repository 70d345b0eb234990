------------------------------ MODULE Terminal ------------------------------
(***************************************************************************)
(* The terminal of terminal.c: video memory from 0xB8000 on, and a row and *)
(* a column that move through it.  A terminal is a record; every operation *)
(* gives the terminal after it.  Characters are bytes.  Nothing scrolls    *)
(* and nothing stops the row at the height of the screen: the rows from    *)
(* VGA_HEIGHT on lie behind the screen.                                    *)
(***************************************************************************)
EXTENDS Integers, Sequences

CONSTANTS
  VGA_WIDTH, VGA_HEIGHT,
  MaxRows    \* the rows of memory that are modelled, on and behind the screen

ASSUME TerminalAssumption ==
  /\ VGA_WIDTH \in Nat /\ VGA_WIDTH > 1
  /\ VGA_HEIGHT \in Nat \ {0}
  /\ MaxRows \in Nat /\ MaxRows >= VGA_HEIGHT

BACKSPACE == 8
TAB       == 9
NEWLINE   == 10
SPACE     == 32
White     == 15

\* A cell of video memory is a uint16_t.
UINT16_MAX == 65535

Cells == 0 .. (MaxRows * VGA_WIDTH - 1)

\* char is signed: a byte above 127 sets every bit of the colour.
terminal_make_char(c, color) ==
  IF c > 127 THEN 255 * 256 + c ELSE color * 256 + c

\* The cell where the next character goes.
Position(t) == t.row * VGA_WIDTH + t.col

\* terminal_putchar at the cursor.
terminal_putchar(t, c, color) ==
  [t EXCEPT !.cells[Position(t)] = terminal_make_char(c, color)]

\* Mutant of Advance: one column too many.
AdvanceLate(t) ==
  IF t.col + 1 > VGA_WIDTH THEN [t EXCEPT !.row = @ + 1, !.col = 0]
                           ELSE [t EXCEPT !.col = @ + 1]

\* The last lines of terminal_writechar: on to the next column, or row.
Advance(t) ==
  IF t.col + 1 >= VGA_WIDTH THEN [t EXCEPT !.row = @ + 1, !.col = 0]
                            ELSE [t EXCEPT !.col = @ + 1]

\* Mutant of StepBack: the row is not taken back.
StepBackInRow(t) ==
  IF t.col = 0 THEN [t EXCEPT !.col = VGA_WIDTH - 1]
               ELSE [t EXCEPT !.col = @ - 1]

\* Twice in terminal_backspace: from column 0 to the end of the row before.
StepBack(t) ==
  IF t.col = 0 THEN [t EXCEPT !.row = @ - 1, !.col = VGA_WIDTH - 1]
               ELSE [t EXCEPT !.col = @ - 1]

\* A character that is not a control character.
WriteGlyph(t, c, color) == Advance(terminal_putchar(t, c, color))

\* The space that it writes moves the cursor forward, so it steps back twice.
terminal_backspace(t) ==
  IF t.col = 0 /\ t.row = 0
    THEN t
    ELSE StepBack(WriteGlyph(StepBack(t), SPACE, White))

NewLine(t) == [t EXCEPT !.row = @ + 1, !.col = 0]

\* A tab leaves the cells it passes as they are.
Tab(t) ==
  IF t.col + 4 >= VGA_WIDTH THEN NewLine(t) ELSE [t EXCEPT !.col = @ + 4]

terminal_writechar(t, c, color) ==
  CASE c = NEWLINE   -> NewLine(t)
    [] c = TAB       -> Tab(t)
    [] c = BACKSPACE -> terminal_backspace(t)
    [] OTHER         -> WriteGlyph(t, c, color)

print(t, text) ==
  LET after[k \in 0 .. Len(text)] ==
        IF k = 0 THEN t ELSE terminal_writechar(after[k - 1], text[k], White)
  IN  after[Len(text)]

\* The screen is blank, in black; what lies behind it stays.
terminal_initialize(t) ==
  [row   |-> 0,
   col   |-> 0,
   cells |-> [a \in Cells |-> IF a < VGA_HEIGHT * VGA_WIDTH
                                THEN terminal_make_char(SPACE, 0)
                                ELSE t.cells[a]]]

=============================================================================
