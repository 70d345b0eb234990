----------------------------- MODULE ShellProofs -----------------------------
(***************************************************************************)
(* The shell and its terminal, for any screen, any keys and lines of any   *)
(* length: what readline echoes is what is in its buffer, nothing typed    *)
(* changes what stands before the line, the buffer with its index is the   *)
(* line that the user edits, the command has the words of that line as its *)
(* arguments, and the number that a program prints stands on the screen.   *)
(***************************************************************************)
EXTENDS Shell, NumberFacts, SequenceTheorems, FiniteSetTheorems

\* What is written to a terminal, what its cells hold, and the terminals.
Bytes == 0 .. 255

Glyphs == 0 .. UINT16_MAX

Term == [row : Nat, col : 0 .. (VGA_WIDTH - 1), cells : [Cells -> Glyphs]]

-----------------------------------------------------------------------------
\* The cursor, a row and a column, and the cell that it stands for.
LEMMA PositionTyped ==
  ASSUME NEW t \in Term
  PROVE  /\ Position(t) \in Nat
         /\ Position(t) = 0 <=> t.row = 0 /\ t.col = 0
         /\ t.row < MaxRows => Position(t) \in Cells
<1>1. PICK W \in Nat \ {0}, row \in Nat, col \in Nat, M \in Nat :
        /\ W = VGA_WIDTH /\ M = MaxRows
        /\ row = t.row /\ col = t.col /\ col < W
  BY TerminalAssumption DEF Term
<1>2. PICK p \in Int : p = W * row
  OBVIOUS
<1>3. /\ p \in Nat
      /\ p = 0 <=> row = 0
  BY <1>2, ProductAtLeast
<1>4. Position(t) = p + col
  BY <1>1, <1>2 DEF Position
<1>5. ASSUME row < M
      PROVE  Position(t) \in Cells
  <2>1. W * row + W <= W * M
    BY <1>5, ProductGrows
  <2>2. PICK q \in Int : q = W * M /\ q = MaxRows * VGA_WIDTH
    BY <1>1
  <2>3. p + W <= q
    BY <1>2, <2>1, <2>2
  <2>4. p + col \in 0 .. (q - 1)
    BY <1>1, <1>3, <2>3
  <2> QED
    BY <1>4, <2>2, <2>4 DEF Cells
<1> QED
  BY <1>1, <1>3, <1>4, <1>5

\* The cursor in another row.
MovedTo(t, r, c) == [t EXCEPT !.row = r, !.col = c]

LEMMA RowMoves ==
  ASSUME NEW t \in Term, NEW r \in Nat, NEW c \in 0 .. (VGA_WIDTH - 1), NEW u,
         u = MovedTo(t, r, c)
  PROVE  u.row = r /\ u.col = c /\ u.cells = t.cells /\ u \in Term
<1>1. PICK v : v = [t EXCEPT !.row = r]
  OBVIOUS
<1>2. /\ v \in Term /\ v.row = r /\ v.cells = t.cells
      /\ DOMAIN v = DOMAIN t
  BY <1>1 DEF Term
<1>3. u = [v EXCEPT !.col = c]
  BY <1>1 DEF MovedTo
<1> QED
  BY <1>2, <1>3 DEF Term

LEMMA AdvanceMoves ==
  ASSUME NEW t \in Term
  PROVE  /\ Advance(t) \in Term
         /\ Advance(t).cells = t.cells
         /\ Position(Advance(t)) = Position(t) + 1
<1>1. PICK W \in Nat \ {0}, row \in Nat, col \in Nat :
        /\ W = VGA_WIDTH /\ W > 1
        /\ row = t.row /\ col = t.col /\ col < W
  BY TerminalAssumption DEF Term
<1>3. PICK u : u = Advance(t)
  OBVIOUS
<1>4. CASE col + 1 >= W
  <2>1. u = MovedTo(t, row + 1, 0)
    BY <1>1, <1>3, <1>4 DEF Advance, MovedTo
  <2>2. u.row = row + 1 /\ u.col = 0 /\ u.cells = t.cells /\ u \in Term
    <3>1. PICK r \in Nat, c \in 0 .. (VGA_WIDTH - 1) : r = row + 1 /\ c = 0
      BY <1>1
    <3>2. u.row = r /\ u.col = c /\ u.cells = t.cells /\ u \in Term
      BY <2>1, <3>1, RowMoves
    <3> QED
      BY <3>1, <3>2
  <2>3. (row + 1) * W = row * W + W
    OBVIOUS
  <2>4. col = W - 1
    BY <1>1, <1>4
  <2>5. Position(u) = (row + 1) * W
    BY <1>1, <2>2 DEF Position
  <2>6. Position(t) = row * W + col
    BY <1>1 DEF Position
  <2>7. row * W \in Int
    OBVIOUS
  <2> QED
    BY <1>3, <2>2, <2>3, <2>4, <2>5, <2>6, <2>7
<1>5. CASE ~ (col + 1 >= W)
  <2>1. u = [t EXCEPT !.col = col + 1]
    BY <1>1, <1>3, <1>5 DEF Advance
  <2>2. u.row = row /\ u.col = col + 1 /\ u.cells = t.cells /\ u \in Term
    BY <1>1, <1>5, <2>1 DEF Term
  <2>3. row * W \in Int
    OBVIOUS
  <2>4. Position(u) = row * W + (col + 1) /\ Position(t) = row * W + col
    BY <1>1, <2>2 DEF Position
  <2> QED
    BY <1>3, <2>2, <2>3, <2>4
<1> QED
  BY <1>4, <1>5

LEMMA StepBackMoves ==
  ASSUME NEW t \in Term, Position(t) # 0
  PROVE  /\ StepBack(t) \in Term
         /\ StepBack(t).cells = t.cells
         /\ Position(StepBack(t)) = Position(t) - 1
<1>1. PICK W \in Nat \ {0}, row \in Nat, col \in Nat :
        /\ W = VGA_WIDTH /\ W > 1
        /\ row = t.row /\ col = t.col /\ col < W
  BY TerminalAssumption DEF Term
<1>2. ~ (row = 0 /\ col = 0)
  BY <1>1, PositionTyped
<1>3. PICK u : u = StepBack(t)
  OBVIOUS
<1>4. CASE col = 0
  <2>1. u = MovedTo(t, row - 1, W - 1)
    BY <1>1, <1>3, <1>4 DEF StepBack, MovedTo
  <2>2. /\ u.row = row - 1 /\ u.col = W - 1 /\ u.cells = t.cells
        /\ u \in Term
    <3>1. PICK r \in Nat, c \in 0 .. (VGA_WIDTH - 1) :
            r = row - 1 /\ c = W - 1
      BY <1>1, <1>2, <1>4
    <3>2. u.row = r /\ u.col = c /\ u.cells = t.cells /\ u \in Term
      BY <2>1, <3>1, RowMoves
    <3> QED
      BY <3>1, <3>2
  <2>3. (row - 1) * W = row * W - W
    OBVIOUS
  <2>4. Position(u) = (row - 1) * W + (W - 1)
    BY <1>1, <2>2 DEF Position
  <2>5. Position(t) = row * W + col
    BY <1>1 DEF Position
  <2>6. row * W \in Int
    OBVIOUS
  <2> QED
    BY <1>3, <1>4, <2>2, <2>3, <2>4, <2>5, <2>6
<1>5. CASE col # 0
  <2>1. u = [t EXCEPT !.col = col - 1]
    BY <1>1, <1>3, <1>5 DEF StepBack
  <2>2. u.row = row /\ u.col = col - 1 /\ u.cells = t.cells /\ u \in Term
    BY <1>1, <1>5, <2>1 DEF Term
  <2>3. row * W \in Int
    OBVIOUS
  <2>4. Position(u) = row * W + (col - 1) /\ Position(t) = row * W + col
    BY <1>1, <2>2 DEF Position
  <2> QED
    BY <1>3, <2>2, <2>3, <2>4
<1> QED
  BY <1>4, <1>5

\* terminal_writechar of a newline, and of a tab: the cells stay.
LEMMA NewLineMoves ==
  ASSUME NEW t \in Term
  PROVE  /\ NewLine(t) \in Term
         /\ NewLine(t).cells = t.cells
         /\ Position(NewLine(t)) >= Position(t) + 1
<1>1. PICK W \in Nat \ {0}, row \in Nat, col \in Nat :
        /\ W = VGA_WIDTH /\ W > 1
        /\ row = t.row /\ col = t.col /\ col < W
  BY TerminalAssumption DEF Term
<1>2. PICK u : u = NewLine(t)
  OBVIOUS
<1>3. u = MovedTo(t, row + 1, 0)
  BY <1>1, <1>2 DEF NewLine, MovedTo
<1>4. PICK r \in Nat, c \in 0 .. (VGA_WIDTH - 1) : r = row + 1 /\ c = 0
  BY <1>1
<1>5. u.row = row + 1 /\ u.col = 0 /\ u.cells = t.cells /\ u \in Term
  <2>1. u.row = r /\ u.col = c /\ u.cells = t.cells /\ u \in Term
    BY <1>3, <1>4, RowMoves
  <2> QED
    BY <1>4, <2>1
<1>6. (row + 1) * W = row * W + W
  OBVIOUS
<1>7. Position(u) = (row + 1) * W /\ Position(t) = row * W + col
  BY <1>1, <1>5 DEF Position
<1>8. row * W \in Int
  OBVIOUS
<1> QED
  BY <1>1, <1>2, <1>5, <1>6, <1>7, <1>8

LEMMA TabMoves ==
  ASSUME NEW t \in Term
  PROVE  /\ Tab(t) \in Term
         /\ Tab(t).cells = t.cells
         /\ Position(Tab(t)) >= Position(t) + 1
<1>1. PICK W \in Nat \ {0}, row \in Nat, col \in Nat :
        /\ W = VGA_WIDTH /\ W > 1
        /\ row = t.row /\ col = t.col /\ col < W
  BY TerminalAssumption DEF Term
<1>2. CASE col + 4 >= W
  BY <1>1, <1>2, NewLineMoves DEF Tab
<1>3. CASE ~ (col + 4 >= W)
  <2>1. PICK u : u = Tab(t)
    OBVIOUS
  <2>2. u = [t EXCEPT !.col = col + 4]
    BY <1>1, <1>3, <2>1 DEF Tab
  <2>3. u.row = row /\ u.col = col + 4 /\ u.cells = t.cells /\ u \in Term
    BY <1>1, <1>3, <2>2 DEF Term
  <2>4. row * W \in Int
    OBVIOUS
  <2>5. Position(u) = row * W + (col + 4) /\ Position(t) = row * W + col
    BY <1>1, <2>3 DEF Position
  <2> QED
    BY <2>1, <2>3, <2>4, <2>5
<1> QED
  BY <1>2, <1>3

\* A character goes to the cell of the cursor, which moves on by one cell.
Writes(t, u, a) ==
  \A b \in Cells : b # a => u.cells[b] = t.cells[b]

LEMMA GlyphTyped ==
  ASSUME NEW c \in Bytes
  PROVE  terminal_make_char(c, White) \in Glyphs
<1>1. PICK d \in Int : d = c /\ 0 <= d /\ d <= 255
  BY DEF Bytes
<1>2. PICK g \in Int : g = terminal_make_char(c, White)
  BY <1>1 DEF terminal_make_char, White
<1>3. g = 65280 + d \/ g = 3840 + d
  BY <1>1, <1>2 DEF terminal_make_char, White
<1>4. 0 <= g /\ g <= UINT16_MAX /\ UINT16_MAX \in Int
  BY <1>1, <1>3 DEF UINT16_MAX
<1> QED
  BY <1>2, <1>4 DEF Glyphs

LEMMA GlyphWrites ==
  ASSUME NEW t \in Term, NEW c \in Bytes, NEW u,
         u = WriteGlyph(t, c, White)
  PROVE  /\ u \in Term
         /\ Position(u) = Position(t) + 1
         /\ Writes(t, u, Position(t))
         /\ Position(t) \in Cells =>
              u.cells[Position(t)] = terminal_make_char(c, White)
<1>1. PICK p \in Nat, g \in Glyphs, cells \in [Cells -> Glyphs] :
        /\ p = Position(t) /\ g = terminal_make_char(c, White)
        /\ cells = t.cells
  BY PositionTyped, GlyphTyped DEF Term
<1>2. PICK v : v = terminal_putchar(t, c, White)
  OBVIOUS
<1>3. v = [t EXCEPT !.cells = [cells EXCEPT ![p] = g]]
  BY <1>1, <1>2 DEF terminal_putchar
<1>4. PICK new : new = [cells EXCEPT ![p] = g]
  OBVIOUS
<1>5. /\ new \in [Cells -> Glyphs]
      /\ \A b \in Cells : b # p => new[b] = cells[b]
      /\ p \in Cells => new[p] = g
  BY <1>4
<1>6. /\ v \in Term /\ v.cells = new /\ v.row = t.row /\ v.col = t.col
  BY <1>3, <1>4, <1>5 DEF Term
<1>7. Position(v) = p
  BY <1>1, <1>6 DEF Position
<1>8. u = Advance(v)
  BY <1>2 DEF WriteGlyph
<1>9. u \in Term /\ u.cells = new /\ Position(u) = p + 1
  BY <1>6, <1>7, <1>8, AdvanceMoves
<1> QED
  BY <1>1, <1>5, <1>9 DEF Writes

\* terminal_backspace: the cell before the cursor is blank, and the cursor
\* is there.
LEMMA BackspaceErases ==
  ASSUME NEW t \in Term, NEW u, u = terminal_backspace(t), Position(t) # 0
  PROVE  /\ u \in Term
         /\ Position(u) = Position(t) - 1
         /\ Writes(t, u, Position(t) - 1)
<1>1. ~ (t.col = 0 /\ t.row = 0) /\ Position(t) \in Nat
  BY PositionTyped
<1>2. PICK back : back = StepBack(t)
  OBVIOUS
<1>3. back \in Term /\ back.cells = t.cells /\ Position(back) = Position(t) - 1
  BY <1>2, StepBackMoves
<1>4. PICK blank : blank = WriteGlyph(back, SPACE, White)
  OBVIOUS
<1>5. SPACE \in Bytes
  BY DEF SPACE, Bytes
<1>6. /\ blank \in Term /\ Position(blank) = Position(back) + 1
      /\ Writes(back, blank, Position(back))
  BY <1>3, <1>4, <1>5, GlyphWrites
<1>7. u = StepBack(blank)
  BY <1>1, <1>2, <1>4 DEF terminal_backspace
<1>8. Position(blank) = Position(t)
  BY <1>1, <1>3, <1>6
<1>9. u \in Term /\ u.cells = blank.cells /\ Position(u) = Position(t) - 1
  BY <1>6, <1>7, <1>8, StepBackMoves
<1> QED
  BY <1>3, <1>6, <1>9 DEF Writes

LEMMA BackspaceAtOrigin ==
  ASSUME NEW t \in Term, Position(t) = 0
  PROVE  terminal_backspace(t) = t
BY PositionTyped DEF terminal_backspace

\* The four cases of terminal_writechar.
LEMMA WriteIs ==
  ASSUME NEW t, NEW c
  PROVE  /\ c = NEWLINE => putchar(t, c) = NewLine(t)
         /\ c = TAB => putchar(t, c) = Tab(t)
         /\ c = BACKSPACE => putchar(t, c) = terminal_backspace(t)
         /\ c \notin {NEWLINE, TAB, BACKSPACE} =>
              putchar(t, c) = WriteGlyph(t, c, White)
<1>1. NEWLINE # TAB /\ NEWLINE # BACKSPACE /\ TAB # BACKSPACE
  BY DEF NEWLINE, TAB, BACKSPACE
<1> QED
  BY <1>1 DEF putchar, terminal_writechar

LEMMA WriteTyped ==
  ASSUME NEW t \in Term, NEW c \in Bytes
  PROVE  putchar(t, c) \in Term
<1>1. CASE c = NEWLINE
  BY <1>1, NewLineMoves, WriteIs
<1>2. CASE c = TAB
  BY <1>2, TabMoves, WriteIs
<1>3. CASE c = BACKSPACE
  <2>1. putchar(t, c) = terminal_backspace(t)
    BY <1>3, WriteIs
  <2>2. terminal_backspace(t) \in Term
    BY BackspaceErases, BackspaceAtOrigin
  <2> QED
    BY <2>1, <2>2
<1>4. CASE c \notin {NEWLINE, TAB, BACKSPACE}
  <2>1. putchar(t, c) = WriteGlyph(t, c, White)
    BY <1>4, WriteIs
  <2> QED
    BY <2>1, GlyphWrites
<1> QED
  BY <1>1, <1>2, <1>3, <1>4

\* The loop of print, from terminal to terminal.
Prints(t, text, f) ==
  /\ f \in [0 .. Len(text) -> Term]
  /\ f[0] = t /\ \A k \in 1 .. Len(text) : f[k] = putchar(f[k - 1], text[k])
  /\ print(t, text) = f[Len(text)]

LEMMA PrintRuns ==
  ASSUME NEW t \in Term, NEW text \in Seq(Bytes)
  PROVE  \E f : Prints(t, text, f)
<1>1. PICK n \in Nat : n = Len(text)
  OBVIOUS
<1> DEFINE write(u, k) == terminal_writechar(u, text[k], White)
           turn(f) == [k \in 0 .. n |-> IF k = 0 THEN t ELSE write(f[k - 1], k)]
           after == CHOOSE f : f = turn(f)
           step == [k \in 1 .. n |-> [u \in Term |-> write(u, k)]]
<1>2. print(t, text) = after[n]
  BY <1>1 DEF print
<1>3. \A k \in 1 .. n : \A u \in Term : write(u, k) \in Term
  <2> SUFFICES ASSUME NEW k \in 1 .. n, NEW u \in Term
               PROVE  write(u, k) \in Term
    OBVIOUS
  <2>1. PICK c \in Bytes : c = text[k]
    BY <1>1
  <2> QED
    BY <2>1, WriteTyped DEF putchar
<1>4. /\ \A f : \A k \in 0 .. n :
           turn(f)[k] = IF k = 0 THEN t ELSE write(f[k - 1], k)
      /\ \A f : DOMAIN turn(f) = 0 .. n
  OBVIOUS
<1>5. step \in Steps(n, Term)
  <2> HIDE DEF write
  <2> QED
    BY <1>3 DEF Steps
<1>6. \A k \in 1 .. n : \A u \in Term : step[k][u] = write(u, k)
  <2> HIDE DEF write
  <2> QED
    OBVIOUS
<1> HIDE DEF step, write
<1>7. PICK g : Loop(n, Term, t, step, g)
  BY <1>5, LoopRuns
<1>8. /\ g \in [0 .. n -> Term] /\ g[0] = t
      /\ \A k \in 1 .. n : g[k] = step[k][g[k - 1]]
  BY <1>7 DEF Loop
<1>9. ASSUME NEW k \in 1 .. n
      PROVE  k - 1 \in 0 .. n /\ g[k - 1] \in Term /\ g[k] = write(g[k - 1], k)
  <2>1. k - 1 \in 0 .. n
    OBVIOUS
  <2> QED
    BY <1>6, <1>8, <2>1
<1>10. g = turn(g)
  <2>1. ASSUME NEW k \in 0 .. n
        PROVE  g[k] = IF k = 0 THEN t ELSE write(g[k - 1], k)
    BY <1>8, <1>9
  <2> QED
    BY <1>8, <2>1
<1> HIDE DEF turn
<1>11. after = turn(after)
  BY <1>10
<1> HIDE DEF after
<1> DEFINE T == {k \in 0 .. n : after[k] = g[k]}
<1>12. 0 \in T
  BY <1>4, <1>8, <1>11
<1>13. ASSUME NEW k \in 1 .. n, k - 1 \in T
       PROVE  k \in T
  BY <1>4, <1>9, <1>11, <1>13
<1>14. after[n] = g[n]
  <2> HIDE DEF T
  <2>1. \A k \in 0 .. n : k \in T
    BY <1>12, <1>13, TurnByTurn
  <2>2. n \in T
    BY <2>1
  <2> QED
    BY <2>2 DEF T
<1> QED
  BY <1>1, <1>2, <1>8, <1>9, <1>14 DEF Prints, write, putchar

LEMMA PrintTyped ==
  ASSUME NEW t \in Term, NEW text \in Seq(Bytes)
  PROVE  print(t, text) \in Term
<1>1. PICK f : Prints(t, text, f)
  BY PrintRuns
<1>2. Len(text) \in 0 .. Len(text)
  OBVIOUS
<1> QED
  BY <1>1, <1>2 DEF Prints

\* The cleared terminal.
LEMMA InitializeTyped ==
  ASSUME NEW t, t.cells \in [Cells -> Glyphs]
  PROVE  /\ terminal_initialize(t) \in Term
         /\ Position(terminal_initialize(t)) \in Nat
<1>1. PICK blank : blank = terminal_make_char(SPACE, 0)
  OBVIOUS
<1>2. blank \in Glyphs
  <2>1. blank = 32 /\ UINT16_MAX \in Int /\ 32 <= UINT16_MAX
    BY <1>1 DEF terminal_make_char, SPACE, UINT16_MAX
  <2> QED
    BY <2>1 DEF Glyphs
<1>3. PICK cells : cells = [a \in Cells |-> IF a < VGA_HEIGHT * VGA_WIDTH
                                             THEN blank ELSE t.cells[a]]
  OBVIOUS
<1>4. cells \in [Cells -> Glyphs]
  BY <1>2, <1>3
<1>5. terminal_initialize(t) = [row |-> 0, col |-> 0, cells |-> cells]
  BY <1>1, <1>3 DEF terminal_initialize
<1>6. 0 \in 0 .. (VGA_WIDTH - 1)
  BY TerminalAssumption
<1>7. terminal_initialize(t) \in Term
  BY <1>4, <1>5, <1>6 DEF Term
<1> QED
  BY <1>7, PositionTyped

-----------------------------------------------------------------------------
(***************************************************************************)
(* The numbers that programs print.  First the value of digits, and the    *)
(* powers of ten.                                                          *)
(***************************************************************************)
Evaluates(digits, n, v) ==
  /\ v \in [0 .. n -> Int] /\ v[0] = 0
  /\ \A k \in 1 .. n : v[k] = 10 * v[k - 1] + (digits[k] - ZERO)
  /\ ValueOf(digits) = v[n]

LEMMA ValueRuns ==
  ASSUME NEW digits \in Seq(Int), NEW n \in Nat, n = Len(digits)
  PROVE  \E v : Evaluates(digits, n, v)
<1> DEFINE onward(a, k) == 10 * a + (digits[k] - ZERO)
           turn(f) == [k \in 0 .. Len(digits) |->
                         IF k = 0 THEN 0 ELSE onward(f[k - 1], k)]
           value == CHOOSE f : f = turn(f)
           step == [k \in 1 .. n |-> [a \in Int |-> onward(a, k)]]
<1>1. ValueOf(digits) = value[n]
  BY DEF ValueOf
<1>2. step \in Steps(n, Int)
  <2>1. \A k \in 1 .. n : \A a \in Int : onward(a, k) \in Int
    BY DEF ZERO
  <2> HIDE DEF onward
  <2> QED
    BY <2>1 DEF Steps
<1>3. \A k \in 1 .. n : \A a \in Int : step[k][a] = onward(a, k)
  <2> HIDE DEF onward
  <2> QED
    OBVIOUS
<1> HIDE DEF onward, step
<1>4. PICK g : Loop(n, Int, 0, step, g)
  <2>1. PICK S : S = Int
    OBVIOUS
  <2>2. PICK a \in S : a = 0
    BY <2>1
  <2>3. step \in Steps(n, S)
    BY <1>2, <2>1
  <2>4. PICK g : Loop(n, S, a, step, g)
    BY <2>2, <2>3, LoopRuns
  <2>5. Loop(n, Int, 0, step, g)
    BY <2>1, <2>2, <2>4 DEF Loop
  <2> QED
    BY <2>5
<1>5. /\ g \in [0 .. n -> Int] /\ g[0] = 0
      /\ \A k \in 1 .. n : k - 1 \in 0 .. n /\ g[k] = onward(g[k - 1], k)
  <2>1. /\ g \in [0 .. n -> Int] /\ g[0] = 0
        /\ \A k \in 1 .. n : g[k] = step[k][g[k - 1]]
    BY <1>4 DEF Loop
  <2>2. ASSUME NEW k \in 1 .. n
        PROVE  k - 1 \in 0 .. n /\ g[k - 1] \in Int
    <3>1. k - 1 \in 0 .. n
      OBVIOUS
    <3> QED
      BY <2>1, <3>1
  <2>3. ASSUME NEW k \in 1 .. n
        PROVE  g[k] = onward(g[k - 1], k)
    <3>1. PICK a \in Int : a = g[k - 1]
      BY <2>2
    <3>2. step[k][a] = onward(a, k)
      BY <1>3
    <3> QED
      BY <2>1, <3>1, <3>2
  <2> QED
    BY <2>1, <2>2, <2>3
<1>6. g = turn(g)
  <2>1. \A k \in 0 .. n : g[k] = IF k = 0 THEN 0 ELSE onward(g[k - 1], k)
    BY <1>5
  <2> QED
    BY <1>5, <2>1
<1>7. value = turn(value)
  <2> HIDE DEF turn
  <2> QED
    BY <1>6
<1> HIDE DEF value
<1>8. \A k \in 0 .. n : value[k] = IF k = 0 THEN 0 ELSE onward(value[k - 1], k)
  BY <1>7
<1> DEFINE T == {k \in 0 .. n : value[k] = g[k]}
<1>9. 0 \in T
  BY <1>5, <1>8
<1>10. ASSUME NEW k \in 1 .. n, k - 1 \in T
       PROVE  k \in T
  BY <1>5, <1>8, <1>10
<1>11. value[n] = g[n]
  <2> HIDE DEF T
  <2>1. \A k \in 0 .. n : k \in T
    BY <1>9, <1>10, TurnByTurn
  <2>2. n \in T
    BY <2>1
  <2> QED
    BY <2>2 DEF T
<1> QED
  BY <1>1, <1>5, <1>11 DEF Evaluates, onward

\* One digit more.
LEMMA ValueGrows ==
  ASSUME NEW s \in Seq(Int), NEW c \in Int
  PROVE  ValueOf(Append(s, c)) = 10 * ValueOf(s) + (c - ZERO)
<1>1. PICK n \in Nat : n = Len(s)
  OBVIOUS
<1>2. PICK t \in Seq(Int), m \in Nat :
        /\ t = Append(s, c) /\ m = n + 1 /\ Len(t) = m
        /\ t[m] = c /\ \A k \in 1 .. n : t[k] = s[k]
  <2>1. PICK t \in Seq(Int) : t = Append(s, c)
    <3>1. Append(s, c) \in Seq(Int)
      OBVIOUS
    <3> QED
      BY <3>1, Zenon
  <2>2. PICK m \in Nat : m = n + 1
    OBVIOUS
  <2>3. Len(t) = m /\ t[m] = c /\ \A k \in 1 .. n : t[k] = s[k]
    BY <1>1, <2>1, <2>2
  <2> QED
    BY <2>1, <2>2, <2>3
<1>3. PICK v : Evaluates(s, n, v)
  BY <1>1, ValueRuns
<1>4. PICK w : Evaluates(t, m, w)
  BY <1>2, ValueRuns
<1> DEFINE T == {k \in 0 .. n : w[k] = v[k]}
<1>5. 0 \in T
  BY <1>3, <1>4 DEF Evaluates
<1>6. ASSUME NEW k \in 1 .. n, k - 1 \in T
      PROVE  k \in T
  <2>1. k \in 1 .. m
    BY <1>2
  <2>2. w[k] = 10 * w[k - 1] + (t[k] - ZERO) /\ v[k] = 10 * v[k - 1] + (s[k] - ZERO)
    BY <1>3, <1>4, <2>1 DEF Evaluates
  <2> QED
    BY <1>2, <1>6, <2>2
<1>7. w[n] = v[n]
  <2> HIDE DEF T
  <2>1. \A k \in 0 .. n : k \in T
    BY <1>5, <1>6, TurnByTurn
  <2>2. n \in T
    BY <2>1
  <2> QED
    BY <2>2 DEF T
<1>8. m \in 1 .. m /\ m - 1 = n
  BY <1>2
<1>9. w[m] = 10 * w[n] + (c - ZERO)
  BY <1>2, <1>4, <1>8 DEF Evaluates
<1> QED
  BY <1>2, <1>3, <1>4, <1>7, <1>9 DEF Evaluates

Powers(n, p) ==
  /\ p \in [0 .. n -> Nat] /\ p[0] = 1
  /\ \A k \in 1 .. n : p[k] = 10 * p[k - 1]
  /\ PowerOfTen(n) = p[n]

LEMMA PowerRuns ==
  ASSUME NEW n \in Nat
  PROVE  \E p : Powers(n, p)
<1> DEFINE turn(f) == [k \in 0 .. n |-> IF k = 0 THEN 1 ELSE 10 * f[k - 1]]
           power == CHOOSE f : f = turn(f)
           step == [k \in 1 .. n |-> [a \in Nat |-> 10 * a]]
<1>1. PowerOfTen(n) = power[n]
  BY DEF PowerOfTen
<1>2. step \in Steps(n, Nat)
  BY DEF Steps
<1>3. \A k \in 1 .. n : \A a \in Nat : step[k][a] = 10 * a
  OBVIOUS
<1> HIDE DEF step
<1>4. PICK g : Loop(n, Nat, 1, step, g)
  <2>1. PICK S : S = Nat
    OBVIOUS
  <2>2. PICK a \in S : a = 1
    BY <2>1
  <2>3. step \in Steps(n, S)
    BY <1>2, <2>1
  <2>4. PICK g : Loop(n, S, a, step, g)
    BY <2>2, <2>3, LoopRuns
  <2>5. Loop(n, Nat, 1, step, g)
    BY <2>1, <2>2, <2>4 DEF Loop
  <2> QED
    BY <2>5
<1>5. /\ g \in [0 .. n -> Nat] /\ g[0] = 1
      /\ \A k \in 1 .. n : k - 1 \in 0 .. n /\ g[k] = 10 * g[k - 1]
  <2>1. /\ g \in [0 .. n -> Nat] /\ g[0] = 1
        /\ \A k \in 1 .. n : g[k] = step[k][g[k - 1]]
    BY <1>4 DEF Loop
  <2>2. ASSUME NEW k \in 1 .. n
        PROVE  k - 1 \in 0 .. n /\ g[k - 1] \in Nat
    BY <2>1
  <2> QED
    BY <1>3, <2>1, <2>2
<1>6. g = turn(g)
  <2>1. \A k \in 0 .. n : g[k] = IF k = 0 THEN 1 ELSE 10 * g[k - 1]
    BY <1>5
  <2> QED
    BY <1>5, <2>1
<1>7. power = turn(power)
  <2> HIDE DEF turn
  <2> QED
    BY <1>6
<1> HIDE DEF power
<1>8. \A k \in 0 .. n : power[k] = IF k = 0 THEN 1 ELSE 10 * power[k - 1]
  BY <1>7
<1> DEFINE T == {k \in 0 .. n : power[k] = g[k]}
<1>9. 0 \in T
  BY <1>5, <1>8
<1>10. ASSUME NEW k \in 1 .. n, k - 1 \in T
       PROVE  k \in T
  BY <1>5, <1>8, <1>10
<1>11. power[n] = g[n]
  <2> HIDE DEF T
  <2>1. \A k \in 0 .. n : k \in T
    BY <1>9, <1>10, TurnByTurn
  <2>2. n \in T
    BY <2>1
  <2> QED
    BY <2>2 DEF T
<1> QED
  BY <1>1, <1>5, <1>11 DEF Powers

LEMMA PowersOfTen ==
  /\ PowerOfTen(0) = 1
  /\ \A n \in Nat : PowerOfTen(n) \in Nat
  /\ \A n \in Nat : PowerOfTen(n + 1) = 10 * PowerOfTen(n)
<1>1. PowerOfTen(0) = 1
  BY PowerRuns DEF Powers
<1>2. ASSUME NEW n \in Nat
      PROVE  PowerOfTen(n) \in Nat /\ PowerOfTen(n + 1) = 10 * PowerOfTen(n)
  <2>1. PICK p : Powers(n, p)
    BY PowerRuns
  <2>2. PICK m \in Nat : m = n + 1
    OBVIOUS
  <2>3. PICK q : Powers(m, q)
    BY PowerRuns
  <2> DEFINE T == {k \in 0 .. n : q[k] = p[k]}
  <2>4. 0 \in T
    BY <2>1, <2>3 DEF Powers
  <2>5. ASSUME NEW k \in 1 .. n, k - 1 \in T
        PROVE  k \in T
    <3>1. k \in 1 .. m
      BY <2>2
    <3>2. q[k] = 10 * q[k - 1] /\ p[k] = 10 * p[k - 1]
      BY <2>1, <2>3, <3>1 DEF Powers
    <3> QED
      BY <2>5, <3>2
  <2>6. q[n] = p[n]
    <3> HIDE DEF T
    <3>1. \A k \in 0 .. n : k \in T
      BY <2>4, <2>5, TurnByTurn
    <3>2. n \in T
      BY <3>1
    <3> QED
      BY <3>2 DEF T
  <2>7. m \in 1 .. m /\ m - 1 = n
    BY <2>2
  <2>8. q[m] = 10 * q[n]
    BY <2>3, <2>7 DEF Powers
  <2>9. p[n] \in Nat
    BY <2>1 DEF Powers
  <2> QED
    BY <2>1, <2>2, <2>3, <2>6, <2>8, <2>9 DEF Powers
<1> QED
  BY <1>1, <1>2

\* The digits of a number: its value, without a zero before it, and no more
\* of them than it needs.
Digit == ZERO .. (ZERO + 9)

Spells(s, m) ==
  /\ s \in Seq(Digit)
  /\ ValueOf(s) = m
  /\ m = 0 => s = << >>
  /\ m # 0 => Len(s) > 0 /\ s[1] # ZERO
  /\ \A k \in Nat : m < PowerOfTen(k) => Len(s) <= k

LEMMA NothingSpells == Spells(<< >>, 0)
<1>1. << >> \in Seq(Int) /\ Len(<< >>) = 0
  OBVIOUS
<1>2. ValueOf(<< >>) = 0
  <2>1. PICK n \in Nat : n = 0
    OBVIOUS
  <2>2. PICK s \in Seq(Int) : s = << >> /\ n = Len(s)
    BY <1>1, <2>1
  <2>3. PICK v : Evaluates(s, n, v)
    BY <2>2, ValueRuns
  <2> QED
    BY <2>1, <2>2, <2>3 DEF Evaluates
<1> QED
  BY <1>1, <1>2 DEF Spells

\* The last digit.
LEMMA DigitAdded ==
  ASSUME NEW m \in Nat \ {0}, NEW q \in Nat, NEW r \in 0 .. 9, NEW s,
         m = 10 * q + r, Spells(s, q)
  PROVE  Spells(Append(s, ZERO + r), m)
<1>1. PICK c \in Digit : c = ZERO + r
  BY DEF Digit, ZERO
<1>2. c \in Int /\ Digit \subseteq Int
  BY DEF Digit, ZERO
<1>3. s \in Seq(Digit) /\ s \in Seq(Int) /\ ValueOf(s) = q
  <2>1. s \in Seq(Digit) /\ ValueOf(s) = q
    BY DEF Spells
  <2>2. s \in [1 .. Len(s) -> Digit] /\ Len(s) \in Nat
    BY <2>1
  <2>3. s \in [1 .. Len(s) -> Int]
    BY <1>2, <2>2
  <2> QED
    BY <2>1, <2>2, <2>3
<1>4. PICK t : t = Append(s, c)
  OBVIOUS
<1>5. /\ t \in Seq(Digit) /\ Len(t) = Len(s) + 1 /\ t[Len(s) + 1] = c
      /\ Len(s) > 0 => t[1] = s[1]
  BY <1>3, <1>4
<1>6. ValueOf(t) = m
  <2>1. ValueOf(t) = 10 * ValueOf(s) + (c - ZERO)
    BY <1>2, <1>3, <1>4, ValueGrows
  <2> QED
    BY <1>1, <1>3, <2>1 DEF ZERO
<1>7. Len(t) > 0 /\ t[1] # ZERO
  <2>1. CASE q = 0
    BY <1>1, <1>5, <2>1 DEF Spells, ZERO
  <2>2. CASE q # 0
    BY <1>3, <1>5, <2>2 DEF Spells
  <2> QED
    BY <2>1, <2>2
<1>8. ASSUME NEW k \in Nat, m < PowerOfTen(k)
      PROVE  Len(t) <= k
  <2>1. k # 0
    BY <1>8, PowersOfTen
  <2>2. PICK j \in Nat : k = j + 1
    BY <2>1
  <2>3. PICK p \in Nat : p = PowerOfTen(j) /\ PowerOfTen(k) = 10 * p
    BY <2>2, PowersOfTen
  <2>4. q < p
    BY <1>8, <2>3
  <2>5. Len(s) <= j
    BY <2>3, <2>4 DEF Spells
  <2> QED
    BY <1>3, <1>5, <2>2, <2>5
<1> QED
  BY <1>1, <1>4, <1>5, <1>6, <1>7, <1>8 DEF Spells

\* The quotient and the remainder by ten.
LEMMA TenthIsLess ==
  ASSUME NEW m \in Nat \ {0}
  PROVE  /\ m \div 10 \in 0 .. (m - 1)
         /\ m % 10 \in 0 .. 9
         /\ m = 10 * (m \div 10) + (m % 10)
OBVIOUS

\* What the loop of itoa does: a function from the numbers that it meets to
\* their digits.
Dividing(D, n) ==
  /\ D \in [0 .. n -> Seq(Int)]
  /\ \A m \in 0 .. n :
       D[m] = IF m = 0 THEN << >> ELSE Append(D[m \div 10], ZERO + (m % 10))

LEMMA DividingRuns ==
  ASSUME NEW n \in Nat
  PROVE  \E D : Dividing(D, n)
<1> DEFINE S == [0 .. n -> Seq(Int)]
           none == [m \in 0 .. n |-> << >>]
           digit(f, m) == Append(f[m \div 10], ZERO + (m % 10))
           step == [k \in 1 .. n |-> [f \in S |-> [f EXCEPT ![k] = digit(f, k)]]]
<1>1. none \in S
  OBVIOUS
<1>2. ASSUME NEW k \in 1 .. n
      PROVE  k \div 10 \in 0 .. (k - 1) /\ k \div 10 \in 0 .. n /\ k \in 0 .. n
             /\ ZERO + (k % 10) \in Int
  BY TenthIsLess DEF ZERO
<1>3. \A k \in 1 .. n, f \in S : [f EXCEPT ![k] = digit(f, k)] \in S
  <2> SUFFICES ASSUME NEW k \in 1 .. n, NEW f \in S
               PROVE  [f EXCEPT ![k] = digit(f, k)] \in S
    OBVIOUS
  <2>1. f[k \div 10] \in Seq(Int)
    BY <1>2
  <2>2. digit(f, k) \in Seq(Int)
    BY <1>2, <2>1
  <2> HIDE DEF digit
  <2> QED
    BY <2>2
<1> HIDE DEF S, none, digit
<1>4. step \in Steps(n, S)
  BY <1>3 DEF Steps
<1>5. \A k \in 1 .. n, f \in S : step[k][f] = [f EXCEPT ![k] = digit(f, k)]
  OBVIOUS
<1> HIDE DEF step
<1>6. PICK g : Loop(n, S, none, step, g)
  BY <1>1, <1>4, LoopRuns
<1>7. /\ g \in [0 .. n -> S] /\ g[0] = none
      /\ \A k \in 1 .. n : g[k] = [g[k - 1] EXCEPT ![k] = digit(g[k - 1], k)]
  <2>1. /\ g \in [0 .. n -> S] /\ g[0] = none
        /\ \A k \in 1 .. n : g[k] = step[k][g[k - 1]]
    BY <1>6 DEF Loop
  <2>2. \A k \in 1 .. n : k - 1 \in 0 .. n
    OBVIOUS
  <2> QED
    BY <1>5, <2>1, <2>2
<1> DEFINE Done(k) == /\ g[k][0] = << >>
                      /\ \A m \in 1 .. k : g[k][m] = digit(g[k], m)
           T == {k \in 0 .. n : Done(k)}
<1>8. 0 \in T
  BY <1>7 DEF none
<1>9. ASSUME NEW k \in 1 .. n, k - 1 \in T
      PROVE  k \in T
  <2>1. PICK l \in 0 .. n : l = k - 1 /\ Done(l)
    BY <1>9
  <2>2. PICK f \in S : f = g[l] /\ g[k] = [f EXCEPT ![k] = digit(f, k)]
    BY <1>7, <2>1
  <2>3. DOMAIN f = 0 .. n
    BY DEF S
  <2>4. /\ g[k][k] = digit(f, k)
        /\ \A m \in 0 .. n : m # k => g[k][m] = f[m]
    BY <2>2, <2>3
  <2>5. ASSUME NEW m \in 1 .. k
        PROVE  g[k][m] = digit(g[k], m)
    <3>1. m \in 1 .. n /\ m \div 10 \in 0 .. n /\ m \div 10 # k
      BY <1>2
    <3>2. digit(g[k], m) = digit(f, m)
      BY <2>4, <3>1 DEF digit
    <3>3. CASE m = k
      BY <2>4, <3>2, <3>3
    <3>4. CASE m # k
      <4>1. m \in 1 .. l
        BY <2>1, <3>4
      <4> QED
        BY <2>1, <2>2, <2>4, <3>1, <3>2, <3>4, <4>1
    <3> QED
      BY <3>3, <3>4
  <2>6. g[k][0] = << >>
    BY <2>1, <2>2, <2>4
  <2> QED
    BY <2>5, <2>6
<1>10. Done(n)
  <2> HIDE DEF T
  <2>1. \A k \in 0 .. n : k \in T
    BY <1>8, <1>9, TurnByTurn
  <2>2. n \in T
    BY <2>1
  <2> QED
    BY <2>2 DEF T
<1>11. g[n] \in S
  BY <1>7
<1>12. Dividing(g[n], n)
  <2>1. g[n] \in [0 .. n -> Seq(Int)]
    BY <1>11 DEF S
  <2>2. ASSUME NEW m \in 0 .. n
        PROVE  g[n][m] = IF m = 0 THEN << >>
                         ELSE Append(g[n][m \div 10], ZERO + (m % 10))
    <3>1. CASE m = 0
      BY <1>10, <3>1
    <3>2. CASE m # 0
      <4>1. m \in 1 .. n
        BY <3>2
      <4>2. g[n][m] = digit(g[n], m)
        BY <1>10, <4>1
      <4> QED
        BY <3>2, <4>2 DEF digit
    <3> QED
      BY <3>1, <3>2
  <2> QED
    BY <2>1, <2>2 DEF Dividing
<1> QED
  BY <1>12

\* The digits of itoa are those of the number.
LEMMA DigitsSpell ==
  ASSUME NEW n \in Int, NEW a \in Nat, a = IF n < 0 THEN -n ELSE n
  PROVE  Spells(Digits(n), a)
<1> DEFINE turn(f) == [m \in 0 .. a |->
                         IF m = 0 THEN << >>
                         ELSE Append(f[m \div 10], ZERO + (m % 10))]
           D == CHOOSE f : f = turn(f)
<1>1. Digits(n) = D[a]
  BY DEF Digits
<1>2. PICK g : Dividing(g, a)
  BY DividingRuns
<1>3. g = turn(g)
  <2>1. /\ g \in [0 .. a -> Seq(Int)]
        /\ \A m \in 0 .. a : g[m] = turn(g)[m]
    BY <1>2 DEF Dividing
  <2>2. DOMAIN turn(g) = 0 .. a /\ g = [m \in 0 .. a |-> g[m]]
    BY <2>1
  <2> QED
    BY <2>1, <2>2
<1>4. D = turn(D)
  <2> HIDE DEF turn
  <2> QED
    BY <1>3
<1> HIDE DEF D
<1>5. \A m \in 0 .. a : D[m] = IF m = 0 THEN << >>
                               ELSE Append(D[m \div 10], ZERO + (m % 10))
  BY <1>4
<1> DEFINE Wrong == {m \in 0 .. a : ~ Spells(D[m], m)}
<1>6. Wrong = {}
  <2> SUFFICES ASSUME Wrong # {}
               PROVE  FALSE
    OBVIOUS
  <2>1. Wrong \subseteq Nat
    OBVIOUS
  <2>2. PICK m \in Wrong : \A k \in Wrong : m <= k
    BY <2>1, LeastNumber
  <2>3. m \in 0 .. a /\ ~ Spells(D[m], m)
    BY <2>2
  <2>4. m # 0
    BY <1>5, <2>3, NothingSpells
  <2>5. PICK q \in Nat, r \in 0 .. 9 :
          /\ q = m \div 10 /\ r = m % 10 /\ m = 10 * q + r /\ q < m
    BY <2>3, <2>4, TenthIsLess
  <2>6. q \in 0 .. a /\ q \notin Wrong
    <3> HIDE DEF Wrong
    <3> QED
      BY <2>2, <2>3, <2>5
  <2>7. Spells(D[q], q)
    BY <2>6
  <2>8. Spells(Append(D[q], ZERO + r), m)
    BY <2>3, <2>4, <2>5, <2>7, DigitAdded
  <2>9. D[m] = Append(D[q], ZERO + r)
    BY <1>5, <2>3, <2>4, <2>5
  <2> QED
    BY <2>3, <2>8, <2>9
<1>7. a \in 0 .. a
  OBVIOUS
<1> QED
  BY <1>1, <1>6, <1>7

(***************************************************************************)
(* The text of itoa: digits and a sign, and, unless it is zero or there is *)
(* no room for all of its digits, the number in decimal.                   *)
(***************************************************************************)
Fits(n) == /\ n # 0
           /\ -n < PowerOfTen(TextSize - 3) /\ n < PowerOfTen(TextSize - 3)

Figures == Digit \cup {MINUS}

LEMMA ItoaPrints ==
  ASSUME NEW n \in Int
  PROVE  /\ itoa(n, TextSize) \in Seq(Figures)
         /\ Fits(n) => IsDecimal(itoa(n, TextSize), n)
<1>1. PICK a \in Nat : a = IF n < 0 THEN -n ELSE n
  OBVIOUS
<1>2. PICK s : s = Digits(n)
  OBVIOUS
<1>3. Spells(s, a)
  BY <1>1, <1>2, DigitsSpell
<1>4. s \in Seq(Digit)
  BY <1>3 DEF Spells
<1>5. s \in Seq(Figures)
  <2>1. s \in [1 .. Len(s) -> Digit] /\ Len(s) \in Nat
    BY <1>4
  <2>2. s \in [1 .. Len(s) -> Figures]
    BY <2>1 DEF Figures
  <2> QED
    BY <2>1, <2>2
<1> DEFINE sign == IF n < 0 THEN <<MINUS>> ELSE << >>
           zero == IF TextSize - 1 - Len(s) = 1 THEN <<ZERO>> ELSE << >>
<1>6. itoa(n, TextSize) = sign \o zero \o s
  BY <1>2 DEF itoa
<1>7. sign \in Seq(Figures) /\ zero \in Seq(Figures)
  <2>1. MINUS \in Figures /\ ZERO \in Figures
    BY DEF Figures, Digit, MINUS, ZERO
  <2> QED
    BY <2>1
<1>8. ASSUME Fits(n)
      PROVE  IsDecimal(itoa(n, TextSize), n)
  <2>1. PICK k \in Nat : k = TextSize - 3
    BY ShellAssumption
  <2>2. a < PowerOfTen(k)
    BY <1>1, <1>8, <2>1 DEF Fits
  <2>3. Len(s) <= k
    BY <1>3, <2>2 DEF Spells
  <2>4. zero = << >>
    BY <1>4, <2>1, <2>3, ShellAssumption
  <2>5. PICK text : text = itoa(n, TextSize)
    OBVIOUS
  <2>6. /\ n < 0 => text[1] = MINUS
        /\ s = IF n < 0 THEN SubSeq(text, 2, Len(text)) ELSE text
    <3>1. CASE n < 0
      <4>1. text = <<MINUS>> \o s
        BY <1>4, <1>6, <2>4, <2>5, <3>1
      <4>2. PICK m \in Nat : m = Len(s)
        BY <1>4
      <4>3. /\ Len(text) = m + 1 /\ text[1] = MINUS
            /\ \A b \in 1 .. m : text[b + 1] = s[b]
        BY <1>4, <4>1, <4>2
      <4>4. PICK c \in Int, d \in Int : c = 2 /\ d = m + 1
        OBVIOUS
      <4>5. \A b \in c .. d : text[b] \in Digit
        <5> SUFFICES ASSUME NEW b \in c .. d
                     PROVE  text[b] \in Digit
          OBVIOUS
        <5>1. PICK l \in 1 .. m : b = l + 1
          BY <4>4
        <5> QED
          BY <1>4, <4>2, <4>3, <5>1
      <4>6. PICK u : u = SubSeq(text, c, d)
        OBVIOUS
      <4>7. /\ u \in Seq(Digit)
            /\ Len(u) = IF c <= d THEN d - c + 1 ELSE 0
            /\ \A b \in 1 .. (d - c + 1) : u[b] = text[c + b - 1]
        BY <4>5, <4>6, SubSeqProperties
      <4>8. Len(u) = m /\ \A b \in 1 .. m : u[b] = s[b]
        BY <4>3, <4>4, <4>7
      <4>9. u = s
        <5>1. u = [b \in 1 .. m |-> u[b]] /\ s = [b \in 1 .. m |-> s[b]]
          BY <1>4, <4>2, <4>7, <4>8
        <5> QED
          BY <4>8, <5>1
      <4> QED
        BY <3>1, <4>3, <4>4, <4>6, <4>9
    <3>2. CASE ~(n < 0)
      BY <1>4, <1>6, <2>4, <2>5, <3>2
    <3> QED
      BY <3>1, <3>2
  <2>7. \A j \in DOMAIN s : s[j] \in ZERO .. (ZERO + 9)
    <3>1. \A j \in DOMAIN s : s[j] \in Digit
      BY <1>4
    <3> QED
      BY <3>1, Zenon DEF Digit
  <2>8. s # << >> /\ s[1] # ZERO /\ ValueOf(s) = IF n < 0 THEN -n ELSE n
    BY <1>1, <1>3, <1>8 DEF Spells, Fits
  <2> QED
    BY <2>5, <2>6, <2>7, <2>8, Zenon DEF IsDecimal
<1>9. itoa(n, TextSize) \in Seq(Figures)
  <2>1. \A x \in Seq(Figures), y \in Seq(Figures) : x \o y \in Seq(Figures)
    OBVIOUS
  <2> HIDE DEF sign, zero
  <2> QED
    BY <1>5, <1>6, <1>7, <2>1
<1> QED
  BY <1>8, <1>9

\* printf of a number is what itoa makes of it.
LEMMA PrintfNumber ==
  ASSUME NEW n \in Int
  PROVE  printf(<<PERCENT, LETTERI>>, <<n>>, TextSize) = itoa(n, TextSize)
<1>1. PICK format : format = <<PERCENT, LETTERI>>
  OBVIOUS
<1>2. Len(format) = 2 /\ format[1] = PERCENT /\ format[2] = LETTERI
  BY <1>1
<1> DEFINE value(r, text) == [text   |-> r.text \o text, percent |-> FALSE,
                              values |-> Tail(r.values)]
           step(r, c) ==
             CASE r.percent /\ c = LETTERI -> value(r, itoa(Head(r.values), TextSize))
               [] r.percent /\ c = LETTERS -> value(r, Head(r.values))
               [] ~r.percent /\ c = PERCENT -> [r EXCEPT !.percent = TRUE]
               [] OTHER -> [r EXCEPT !.text = Append(@, c), !.percent = FALSE]
           begin == [text |-> << >>, percent |-> FALSE, values |-> <<n>>]
           turn(f) == [k \in 0 .. Len(format) |->
                         IF k = 0 THEN begin ELSE step(f[k - 1], format[k])]
           after == CHOOSE f : f = turn(f)
<1>3. printf(format, <<n>>, TextSize) = after[Len(format)].text
  BY DEF printf
<1>4. PICK one : one = [text |-> << >>, percent |-> TRUE, values |-> <<n>>]
  OBVIOUS
<1>5. step(begin, PERCENT) = one
  BY <1>4 DEF PERCENT, LETTERI, LETTERS
<1>6. PICK two : two = value(one, itoa(n, TextSize))
  OBVIOUS
<1>7. step(one, LETTERI) = two
  BY <1>4, <1>6 DEF PERCENT, LETTERI, LETTERS
<1>8. two.text = itoa(n, TextSize)
  BY <1>4, <1>6, ItoaPrints
<1> HIDE DEF step, begin
<1>9. after = turn(after)
  <2> DEFINE f == [k \in 0 .. Len(format) |->
                     IF k = 0 THEN begin ELSE IF k = 1 THEN one ELSE two]
  <2>1. \A k \in 0 .. Len(format) : f[k] = turn(f)[k]
    <3> SUFFICES ASSUME NEW k \in 0 .. Len(format)
                 PROVE  f[k] = turn(f)[k]
      OBVIOUS
    <3>1. k = 0 \/ k = 1 \/ k = 2
      BY <1>2
    <3>2. 0 \in 0 .. Len(format) /\ 1 \in 0 .. Len(format)
      BY <1>2
    <3>3. CASE k = 0
      BY <3>3
    <3>4. CASE k = 1
      BY <1>2, <1>5, <3>2, <3>4
    <3>5. CASE k = 2
      BY <1>2, <1>7, <3>2, <3>5
    <3> QED
      BY <3>1, <3>3, <3>4, <3>5
  <2>2. f = turn(f)
    BY <2>1
  <2> HIDE DEF turn
  <2> QED
    BY <2>2
<1> HIDE DEF after
<1>10. \A k \in 0 .. Len(format) :
         after[k] = IF k = 0 THEN begin ELSE step(after[k - 1], format[k])
  BY <1>9
<1>11. after[0] = begin
  BY <1>2, <1>10
<1>12. after[1] = one
  BY <1>2, <1>5, <1>10, <1>11
<1>13. after[2] = two
  BY <1>2, <1>7, <1>10, <1>12
<1> QED
  BY <1>1, <1>2, <1>3, <1>8, <1>13

LEMMA FiguresAreBytes ==
  /\ Figures \subseteq Bytes
  /\ NEWLINE \notin Figures /\ TAB \notin Figures /\ BACKSPACE \notin Figures
BY DEF Figures, Digit, Bytes, ZERO, MINUS, NEWLINE, TAB, BACKSPACE

-----------------------------------------------------------------------------
\* The first of some offsets is one of them.
LEMMA FirstIn ==
  ASSUME NEW S, S \subseteq Nat, S # {}
  PROVE  First(S) \in S /\ \A b \in S : First(S) <= b
BY LeastNumber DEF First

Buffers == {buf \in [0 .. LineSize -> Bytes] : buf[LineSize] = NUL}

Pointers == {NoPointer} \cup 0 .. LineSize

\* The copy of a line keeps the NUL at the end of the stack buffer.
LEMMA CopyTyped ==
  ASSUME NEW dest \in Buffers, NEW src \in [Offsets -> Bytes],
         \E b \in Offsets : src[b] = NUL
  PROVE  strncpy(dest, src) \in Buffers
<1>1. LineSize \in Nat /\ LineSize > 1
  BY ShellAssumption
<1>2. PICK S : S = {b \in DOMAIN src : b >= 0 /\ src[b] \in {NUL}}
  OBVIOUS
<1>3. S \subseteq Offsets /\ S \subseteq Nat /\ S # {}
  BY <1>1, <1>2 DEF Offsets
<1>4. PICK end : end = First(S)
  OBVIOUS
<1>5. end \in Offsets
  BY <1>3, <1>4, FirstIn
<1>6. strncpy(dest, src) =
        [b \in 0 .. LineSize |-> IF b < end THEN src[b]
                                 ELSE IF b = end THEN NUL ELSE dest[b]]
  <2>1. DOMAIN dest = 0 .. LineSize
    BY DEF Buffers
  <2> QED
    BY <1>2, <1>4, <2>1 DEF strncpy, Scan
<1>7. NUL \in Bytes
  BY DEF NUL, Bytes
<1>8. ASSUME NEW b \in 0 .. LineSize
      PROVE  (IF b < end THEN src[b] ELSE IF b = end THEN NUL ELSE dest[b])
                \in Bytes
  <2>1. b < end => src[b] \in Bytes
    BY <1>1, <1>5 DEF Offsets
  <2>2. dest[b] \in Bytes
    BY DEF Buffers
  <2> QED
    BY <1>7, <2>1, <2>2
<1>9. ~ (LineSize < end) /\ LineSize # end /\ LineSize \in 0 .. LineSize
  BY <1>1, <1>5 DEF Offsets
<1>10. dest[LineSize] = NUL
  BY DEF Buffers
<1> QED
  BY <1>6, <1>8, <1>9, <1>10 DEF Buffers

\* strtok stays in the buffer: the NUL at its end stops both of its loops.
\* When it gives no token its pointer is null.
LEMMA TokenTyped ==
  ASSUME NEW p \in Pointers, NEW buf \in Buffers, NEW str \in {NoPointer, 0}
  PROVE  /\ strtok(p, buf, str).sp \in Pointers
         /\ strtok(p, buf, str).buf \in Buffers
         /\ strtok(p, buf, str).token = NoPointer =>
              strtok(p, buf, str).sp = NoPointer
<1>1. LineSize \in Nat /\ LineSize > 1 /\ NoPointer = -1
  BY ShellAssumption DEF NoPointer
<1>2. /\ DOMAIN buf = 0 .. LineSize /\ buf[LineSize] = NUL
      /\ LineSize \in 0 .. LineSize /\ buf \in [0 .. LineSize -> Bytes]
  BY <1>1 DEF Buffers
<1>3. PICK r : r = strtok(p, buf, str)
  OBVIOUS
<1>4. PICK from \in Pointers : from = IF p = NoPointer THEN str ELSE p
  BY <1>1 DEF Pointers
<1>5. CASE from = NoPointer
  <2>1. r = [sp |-> p, buf |-> buf, token |-> NoPointer]
    BY <1>3, <1>4, <1>5 DEF strtok
  <2>2. p = NoPointer
    BY <1>4, <1>5
  <2> QED
    BY <1>3, <2>1, <2>2
<1>6. CASE from # NoPointer
  <2>1. from \in 0 .. LineSize
    BY <1>6 DEF Pointers
  <2>2. PICK S : S = {b \in DOMAIN buf : b >= from /\ buf[b] # BLANK}
    OBVIOUS
  <2>3. S \subseteq Nat /\ S # {} /\ S \subseteq 0 .. LineSize
    BY <1>1, <1>2, <2>1, <2>2 DEF BLANK, NUL
  <2>4. PICK begin \in 0 .. LineSize : begin = First(S)
    BY <2>3, FirstIn
  <2>5. PICK E : E = {b \in DOMAIN buf : b >= begin /\ buf[b] \in {NUL, BLANK}}
    OBVIOUS
  <2>6. E \subseteq Nat /\ E # {} /\ E \subseteq 0 .. LineSize
    BY <1>1, <1>2, <2>4, <2>5
  <2>7. PICK end \in 0 .. LineSize : end = First(E)
    BY <2>6, FirstIn
  <2>8. r = IF buf[begin] = NUL
              THEN [sp |-> NoPointer, buf |-> buf, token |-> NoPointer]
              ELSE [sp    |-> IF buf[end] = NUL THEN end ELSE end + 1,
                    buf   |-> [buf EXCEPT ![end] = NUL],
                    token |-> begin]
    BY <1>3, <1>4, <1>6, <2>2, <2>4, <2>5, <2>7 DEF strtok, Scan
  <2>9. (IF buf[end] = NUL THEN end ELSE end + 1) \in Pointers
    BY <1>1, <1>2, <2>7 DEF Pointers
  <2>10. NoPointer \in Pointers
    BY DEF Pointers
  <2>11. [buf EXCEPT ![end] = NUL] \in Buffers
    <3>1. NUL \in Bytes
      BY DEF NUL, Bytes
    <3> QED
      BY <1>2, <3>1 DEF Buffers
  <2>12. begin # NoPointer
    BY <1>1, <2>4
  <2> QED
    BY <1>3, <2>8, <2>9, <2>10, <2>11, <2>12
<1> QED
  BY <1>5, <1>6

-----------------------------------------------------------------------------
(***************************************************************************)
(* The types, with what they rest on: readline leaves room for the NUL,    *)
(* the line that is handed over has one, and the buffer that strtok cuts   *)
(* ends with one.  Without a token strtok holds no pointer.                *)
(***************************************************************************)
Places == {"prompt", "loop", "key", "entered", "malloc", "system", "done"}

TInv ==
  /\ term \in Term
  /\ pc \in Places
  /\ i \in Offsets
  /\ pc = "key" => i < LineSize - 1
  /\ out \in [Offsets -> Bytes]
  /\ pc = "entered" => \E b \in Offsets : out[b] = NUL
  /\ scommand \in Buffers
  /\ sp \in Pointers
  /\ token = NoPointer => sp = NoPointer
  /\ used \in 0 .. MaxAllocations

LEMMA KeysAreBytes ==
  ASSUME NEW k \in Keys
  PROVE  k \in Bytes /\ k # BACKSPACE /\ k # NEWLINE
BY ShellAssumption DEF Bytes

LEMMA CursorIsByte ==
  /\ Cursor \in Bytes /\ Cursor \notin {NEWLINE, TAB, BACKSPACE}
  /\ NUL \in Bytes /\ NEWLINE \in Bytes /\ BACKSPACE \in Bytes
BY DEF Cursor, Bytes, NUL, NEWLINE, TAB, BACKSPACE

\* What call 1 prints of a text: a copy, or what its buffer held.
LEMMA CopyIsBytes ==
  ASSUME PrintsBytes, NEW t \in Term, NEW text \in Seq(Bytes),
         NEW copy \in {text} \cup Leftovers
  PROVE  print(t, copy) \in Term
<1>1. Leftovers \subseteq Seq(Bytes)
  BY Zenon DEF PrintsBytes, Bytes
<1>2. copy \in Seq(Bytes)
  BY <1>1
<1> QED
  BY <1>2, PrintTyped

LEMMA NewlineIsText == <<NEWLINE>> \in Seq(Bytes)
BY CursorIsByte

LEMMA InitTypes ==
  ASSUME PrintsBytes, Init
  PROVE  TInv
<1>1. term \in Term
  <2>1. PICK t : t = [cells |-> [a \in Cells |-> 0]]
    OBVIOUS
  <2>2. t.cells \in [Cells -> Glyphs]
    <3>1. UINT16_MAX \in Nat
      BY DEF UINT16_MAX
    <3>2. 0 \in Glyphs
      BY <3>1 DEF Glyphs
    <3>3. t.cells = [a \in Cells |-> 0]
      BY <2>1
    <3> QED
      BY <3>2, <3>3
  <2>3. PICK u \in Term : u = terminal_initialize(t)
    BY <2>2, InitializeTyped
  <2>4. Banner \in Seq(Bytes)
    BY Zenon DEF PrintsBytes, Bytes
  <2>5. PICK copy \in {Banner} \cup Leftovers : term = print(u, copy)
    BY <2>1, <2>3 DEF Init
  <2> QED
    BY <2>4, <2>5, CopyIsBytes
<1>2. LineSize \in Nat /\ LineSize > 1 /\ MaxAllocations \in Nat
  BY ShellAssumption
<1>3. /\ i \in Offsets /\ out \in [Offsets -> Bytes]
      /\ used \in 0 .. MaxAllocations
  BY <1>2, CursorIsByte DEF Init, Offsets
<1>4. scommand \in Buffers
  BY <1>2, CursorIsByte DEF Init, Buffers
<1> QED
  BY <1>1, <1>3, <1>4 DEF Init, TInv, Places, Pointers

\* The buffer of readline after a byte is put in.
LEMMA OutTyped ==
  ASSUME TInv, NEW j \in Offsets, NEW c \in Bytes,
         out' = [out EXCEPT ![j] = c]
  PROVE  /\ out' \in [Offsets -> Bytes] /\ out'[j] = c
         /\ \A b \in Offsets : b # j => out'[b] = out[b]
BY DEF TInv

LEMMA PromptTypes ==
  ASSUME PrintsBytes, TInv, ShowPrompt
  PROVE  TInv'
<1>1. PICK copy \in {cwd} \cup Leftovers :
        term' = print(term, printf(PromptFormat, <<copy>>, TextSize))
  BY DEF ShowPrompt
<1>4. term' \in Term
  <2>1. PICK text : text = printf(PromptFormat, <<copy>>, TextSize)
    OBVIOUS
  <2>2. text \in Seq(Bytes)
    BY <2>1, Zenon DEF PrintsBytes, Bytes
  <2>3. print(term, text) \in Term
    BY <2>2, PrintTyped DEF TInv
  <2> QED
    BY <1>1, <2>1, <2>3
<1>2. 0 \in Offsets
  BY ShellAssumption DEF Offsets
<1>3. /\ pc' = "loop" /\ i' = 0
      /\ UNCHANGED <<out, scommand, sp, token, used>>
  BY DEF ShowPrompt, parser
<1> QED
  BY <1>2, <1>3, <1>4 DEF TInv, Places

LEMMA ReadlineTypes ==
  ASSUME TInv,
         \/ ShowCursor \/ LineFull \/ KeyEnter
         \/ KeyBackspaceAtStart \/ KeyBackspace \/ \E k \in Keys : Key(k)
  PROVE  TInv'
<1>1. /\ LineSize \in Nat /\ LineSize > 1 /\ i \in Offsets /\ i \in Nat
      /\ term \in Term
  BY ShellAssumption DEF Offsets, TInv
<1>2. ASSUME NEW c \in Bytes
      PROVE  putchar(term, c) \in Term
  BY <1>1, WriteTyped
<1>3. PICK back \in Term : back = putchar(term, BACKSPACE)
  BY <1>2, CursorIsByte
<1>4. ASSUME NEW c \in Bytes
      PROVE  putchar(back, c) \in Term
  BY <1>3, WriteTyped
<1>5. CASE ShowCursor
  <2>1. /\ term' \in Term /\ pc' = "key" /\ i < LineSize - 1
        /\ UNCHANGED <<i, out, scommand, sp, token, used>>
    BY <1>2, <1>5, CursorIsByte DEF ShowCursor, readline, parser
  <2> QED
    BY <2>1 DEF TInv, Places
<1>6. CASE LineFull \/ KeyEnter
  <2>1. /\ out' = [out EXCEPT ![i] = NUL] /\ pc' = "entered"
        /\ UNCHANGED <<term, i, scommand, sp, token, used>>
    BY <1>6 DEF LineFull, KeyEnter, parser
  <2>2. out' \in [Offsets -> Bytes] /\ out'[i] = NUL
    BY <1>1, <2>1, OutTyped, CursorIsByte
  <2> QED
    BY <1>1, <2>1, <2>2 DEF TInv, Places
<1>7. CASE KeyBackspaceAtStart
  <2>1. /\ term' \in Term /\ pc' = "loop"
        /\ UNCHANGED <<i, out, scommand, sp, token, used>>
    BY <1>3, <1>7 DEF KeyBackspaceAtStart, readline, parser
  <2> QED
    BY <2>1 DEF TInv, Places
<1>8. CASE KeyBackspace
  <2>1. PICK j \in Offsets : j = i - 1
    BY <1>1, <1>8 DEF KeyBackspace, Offsets
  <2>2. /\ term' \in Term /\ pc' = "loop" /\ i' = j
        /\ out' = [out EXCEPT ![j] = NUL]
        /\ UNCHANGED <<scommand, sp, token, used>>
    BY <1>3, <1>4, <1>8, <2>1, CursorIsByte DEF KeyBackspace, parser
  <2>3. out' \in [Offsets -> Bytes]
    BY <2>2, OutTyped, CursorIsByte
  <2> QED
    BY <2>1, <2>2, <2>3 DEF TInv, Places
<1>9. ASSUME NEW k \in Keys, Key(k)
      PROVE  TInv'
  <2>1. k \in Bytes
    BY KeysAreBytes
  <2>2. PICK j \in Offsets : j = i + 1
    BY <1>1, <1>9 DEF Key, TInv, Offsets
  <2>3. /\ term' \in Term /\ pc' = "loop" /\ i' = j
        /\ out' = [out EXCEPT ![i] = k]
        /\ UNCHANGED <<scommand, sp, token, used>>
    BY <1>3, <1>4, <1>9, <2>1, <2>2 DEF Key, parser
  <2>4. out' \in [Offsets -> Bytes]
    BY <1>1, <2>1, <2>3, OutTyped
  <2> QED
    BY <2>2, <2>3, <2>4 DEF TInv, Places
<1> QED
  BY <1>5, <1>6, <1>7, <1>8, <1>9

LEMMA ParseTypes ==
  ASSUME PrintsBytes, TInv, ParseBegins \/ ParseToken \/ ParseRefused
  PROVE  TInv'
<1>1. /\ term \in Term /\ sp \in Pointers /\ scommand \in Buffers
      /\ out \in [Offsets -> Bytes] /\ used \in 0 .. MaxAllocations
  BY DEF TInv
<1>2. CASE ParseBegins
  <2>1. PICK copy \in Buffers : copy = strncpy(scommand, out)
    <3>1. \E b \in Offsets : out[b] = NUL
      BY <1>2 DEF ParseBegins, TInv
    <3> QED
      BY <1>1, <3>1, CopyTyped
  <2>2. PICK r : r = strtok(sp, copy, 0)
    OBVIOUS
  <2>3. /\ r.sp \in Pointers /\ r.buf \in Buffers
        /\ r.token = NoPointer => r.sp = NoPointer
    BY <1>1, <2>2, TokenTyped
  <2>4. term' \in Term
    BY <1>1, <1>2, CopyIsBytes, NewlineIsText DEF ParseBegins
  <2>5. /\ sp' = r.sp /\ scommand' = r.buf /\ token' = r.token
        /\ pc' \in {"done", "malloc"} /\ UNCHANGED <<i, out, used>>
    BY <1>2, <2>1, <2>2 DEF ParseBegins, readline
  <2> QED
    BY <2>3, <2>4, <2>5 DEF TInv, Places
<1>3. CASE ParseToken
  <2>1. PICK r : r = strtok(sp, scommand, NoPointer)
    OBVIOUS
  <2>2. /\ r.sp \in Pointers /\ r.buf \in Buffers
        /\ r.token = NoPointer => r.sp = NoPointer
    BY <1>1, <2>1, TokenTyped DEF Pointers
  <2>3. /\ sp' = r.sp /\ scommand' = r.buf /\ token' = r.token
        /\ used' = used + 1
        /\ used < MaxAllocations
        /\ pc' \in {"system", "malloc"} /\ UNCHANGED <<term, i, out>>
    BY <1>3, <2>1 DEF ParseToken, readline
  <2>4. used' \in 0 .. MaxAllocations
    BY <1>1, <2>3, ShellAssumption
  <2> QED
    BY <2>2, <2>3, <2>4 DEF TInv, Places
<1>4. CASE ParseRefused
  <2>1. /\ pc' \in {"done", "system"}
        /\ UNCHANGED <<term, i, out, scommand, sp, token, used>>
    BY <1>4 DEF ParseRefused, readline, parser
  <2> QED
    BY <2>1 DEF TInv, Places
<1> QED
  BY <1>2, <1>3, <1>4

LEMMA SystemTypes ==
  ASSUME PrintsBytes, TInv,
         \/ SystemFails \/ CommandDone
         \/ \E n \in Numbers, clear \in BOOLEAN : SystemRuns(n, clear)
  PROVE  TInv'
<1>1. term \in Term /\ term.cells \in [Cells -> Glyphs]
  BY DEF TInv, Term
<1>2. CASE SystemFails
  <2>1. pc' = "done" /\ UNCHANGED <<term, i, out, scommand, sp, token, used>>
    BY <1>2 DEF SystemFails, readline, parser
  <2> QED
    BY <2>1 DEF TInv, Places
<1>3. CASE CommandDone
  <2>1. term' \in Term
    BY <1>1, <1>3, CopyIsBytes, NewlineIsText DEF CommandDone
  <2>2. pc' = "prompt" /\ UNCHANGED <<i, out, scommand, sp, token, used>>
    BY <1>3 DEF CommandDone, readline, parser
  <2> QED
    BY <2>1, <2>2 DEF TInv, Places
<1>4. ASSUME NEW n \in Numbers, NEW clear \in BOOLEAN, SystemRuns(n, clear)
      PROVE  TInv'
  <2>1. PICK t : t = IF clear THEN terminal_initialize(term) ELSE term
    OBVIOUS
  <2>2. t \in Term
    BY <1>1, <2>1, InitializeTyped
  <2>3. PICK text : text = printf(<<PERCENT, LETTERI>>, <<n>>, TextSize)
    OBVIOUS
  <2>4. text \in Seq(Bytes)
    <3>1. n \in Int
      BY ShellAssumption
    <3>2. text \in Seq(Figures)
      BY <2>3, <3>1, PrintfNumber, ItoaPrints
    <3>3. text \in [1 .. Len(text) -> Bytes] /\ Len(text) \in Nat
      BY <3>2, FiguresAreBytes
    <3> QED
      BY <3>3
  <2>5. PICK copy \in {text} \cup Leftovers : term' = print(t, copy)
    BY <1>4, <2>1, <2>3 DEF SystemRuns
  <2>6. term' \in Term
    BY <2>2, <2>4, <2>5, CopyIsBytes
  <2>7. pc' = "done" /\ UNCHANGED <<i, out, scommand, sp, token, used>>
    BY <1>4 DEF SystemRuns, readline, parser
  <2> QED
    BY <2>6, <2>7 DEF TInv, Places
<1> QED
  BY <1>2, <1>3, <1>4

\* Prompts, keys, commands and their output keep the types.
THEOREM ShellInductive ==
  ASSUME PrintsBytes
  PROVE  Spec => []TInv
<1>1. Init => TInv
  BY InitTypes
<1>2. TInv /\ [Next]_vars => TInv'
  <2> SUFFICES ASSUME TInv, [Next]_vars
               PROVE  TInv'
    OBVIOUS
  <2>1. CASE UNCHANGED vars
    BY <2>1 DEF TInv, vars, readline, parser
  <2>2. CASE SessionEnds
    BY <2>1, <2>2 DEF SessionEnds
  <2> QED
    BY <2>1, <2>2, PromptTypes, ReadlineTypes, ParseTypes, SystemTypes
       DEF Next
<1> QED
  BY <1>1, <1>2, PTL DEF Spec

-----------------------------------------------------------------------------
(***************************************************************************)
(* The readline invariant: the cursor is never before the end of the line, *)
(* and, unless a tab was typed, exactly there, with the line before it.    *)
(***************************************************************************)
LineOnScreen ==
  \A b \in 0 .. (i - 1) :
    term.cells[start + b] = terminal_make_char(out[b], White)

RInv ==
  /\ start \in Cells
  /\ tabs \in Nat
  /\ pc = "loop" =>
       /\ Position(term) >= start + i
       /\ tabs = 0 => Position(term) = start + i /\ LineOnScreen
  /\ pc = "key" =>
       /\ Position(term) >= start + i + 1
       /\ tabs = 0 => /\ Position(term) = start + i + 1
                      /\ LineOnScreen
                      /\ term.cells[start + i] = terminal_make_char(Cursor, White)

LEMMA CellsBelow ==
  ASSUME NEW p \in Cells, NEW a \in Nat, a <= p
  PROVE  a \in Cells
<1>1. PICK top \in Int : top = MaxRows * VGA_WIDTH - 1
  BY TerminalAssumption
<1>2. p \in 0 .. top
  BY <1>1 DEF Cells
<1>3. a \in 0 .. top
  BY <1>2
<1> QED
  BY <1>1, <1>3 DEF Cells

LEMMA CellsAreNumbers == Cells \subseteq Nat /\ 0 \in Cells
<1>1. PICK W \in Nat \ {0}, M \in Nat \ {0} : W = VGA_WIDTH /\ M = MaxRows
  BY TerminalAssumption
<1>2. W * M >= W /\ W * M = M * W
  BY ProductAtLeast
<1>3. PICK top \in Int : top = M * W - 1
  OBVIOUS
<1>4. 0 <= top
  BY <1>2, <1>3
<1> QED
  BY <1>1, <1>3, <1>4 DEF Cells

\* What the invariants say of the cursor while a line is read.
LEMMA CursorPlace ==
  ASSUME TInv, RInv, InMemory
  PROVE  /\ Position(term) \in Nat /\ Position(term) \in Cells
         /\ start \in Nat /\ i \in Nat /\ term \in Term
         /\ out \in [Offsets -> Bytes] /\ i \in Offsets
  BY PositionTyped, CellsAreNumbers, ShellAssumption
     DEF TInv, RInv, InMemory, Offsets

\* The cursor is drawn where the line ends.
LEMMA CursorDrawn ==
  ASSUME TInv, RInv, InMemory, ShowCursor
  PROVE  /\ RInv'
         /\ \A a \in 0 .. (start - 1) : term'.cells[a] = term.cells[a]
<1>1. PICK p \in Nat : p = Position(term) /\ p \in Cells /\ p >= start + i
  BY CursorPlace DEF RInv, ShowCursor
<1>2. start \in Nat /\ i \in Nat /\ term \in Term
  BY CursorPlace
<1>3. /\ term' = WriteGlyph(term, Cursor, White) /\ pc' = "key" /\ pc = "loop"
      /\ UNCHANGED <<i, out, start, tabs>>
  BY WriteIs, CursorIsByte DEF ShowCursor, readline, history
<1>4. /\ Position(term') = p + 1
      /\ \A b \in Cells : b # p => term'.cells[b] = term.cells[b]
      /\ term'.cells[p] = terminal_make_char(Cursor, White)
  <2>1. PICK u : u = WriteGlyph(term, Cursor, White)
    OBVIOUS
  <2>2. /\ Position(u) = Position(term) + 1
        /\ Writes(term, u, Position(term))
        /\ Position(term) \in Cells =>
             u.cells[Position(term)] = terminal_make_char(Cursor, White)
    BY <1>2, <2>1, GlyphWrites, CursorIsByte
  <2> QED
    BY <1>1, <1>3, <2>1, <2>2 DEF Writes
<1>5. ASSUME tabs = 0
      PROVE  /\ Position(term') = start + i + 1
             /\ \A b \in 0 .. (i - 1) :
                  term'.cells[start + b] = terminal_make_char(out[b], White)
             /\ term'.cells[start + i] = terminal_make_char(Cursor, White)
  <2>1. p = start + i /\ LineOnScreen
    BY <1>1, <1>3, <1>5 DEF RInv
  <2>2. ASSUME NEW b \in 0 .. (i - 1)
        PROVE  term'.cells[start + b] = terminal_make_char(out[b], White)
    <3>1. PICK a \in Nat : a = start + b /\ a < p
      BY <1>2, <2>1
    <3>2. a \in Cells
      BY <1>1, <3>1, CellsBelow
    <3>3. term'.cells[a] = term.cells[a]
      BY <1>4, <3>1, <3>2
    <3> QED
      BY <2>1, <3>1, <3>3 DEF LineOnScreen
  <2> QED
    BY <1>2, <1>4, <2>1, <2>2
<1>6. RInv'
  BY <1>1, <1>2, <1>3, <1>4, <1>5 DEF RInv, LineOnScreen
<1>7. ASSUME NEW a \in 0 .. (start - 1)
      PROVE  term'.cells[a] = term.cells[a]
  <2>1. a \in Nat /\ a < p
    BY <1>1, <1>2
  <2>2. a \in Cells
    BY <1>1, <2>1, CellsBelow
  <2> QED
    BY <1>4, <2>1, <2>2
<1> QED
  BY <1>6, <1>7

\* The first thing that a key does: the cursor is taken away.
LEMMA CursorErased ==
  ASSUME TInv, RInv, InMemory, pc = "key", NEW back,
         back = putchar(term, BACKSPACE)
  PROVE  /\ back \in Term
         /\ Position(back) = Position(term) - 1
         /\ Position(back) \in Nat /\ Position(back) \in Cells
         /\ Position(back) >= start + i
         /\ \A b \in Cells : b # Position(back) => back.cells[b] = term.cells[b]
<1>1. PICK p \in Nat : p = Position(term) /\ p \in Cells /\ p >= start + i + 1
  BY CursorPlace DEF RInv
<1>2. start \in Nat /\ i \in Nat /\ term \in Term /\ p # 0
  BY <1>1, CursorPlace
<1>3. back = terminal_backspace(term)
  BY WriteIs
<1>4. /\ back \in Term /\ Position(back) = Position(term) - 1
      /\ Writes(term, back, Position(term) - 1)
  BY <1>1, <1>2, <1>3, BackspaceErases
<1>5. PICK q \in Nat : q = p - 1 /\ q = Position(back)
  BY <1>1, <1>2, <1>4
<1>6. q \in Cells
  BY <1>1, <1>5, CellsBelow
<1>7. q >= start + i
  BY <1>1, <1>2, <1>5
<1>8. Position(term) - 1 = q
  BY <1>1, <1>5
<1>9. \A b \in Cells : b # q => back.cells[b] = term.cells[b]
  BY <1>4, <1>8 DEF Writes
<1> QED
  BY <1>4, <1>5, <1>6, <1>7, <1>9

LEMMA BackspaceAtStartShown ==
  ASSUME TInv, RInv, InMemory, KeyBackspaceAtStart
  PROVE  /\ RInv'
         /\ \A a \in 0 .. (start - 1) : term'.cells[a] = term.cells[a]
<1>1. /\ pc = "key" /\ i = 0 /\ term' = putchar(term, BACKSPACE) /\ pc' = "loop"
      /\ UNCHANGED <<i, out, start, tabs>>
  BY DEF KeyBackspaceAtStart, readline, history
<1>2. PICK back : back = putchar(term, BACKSPACE)
  OBVIOUS
<1>3. PICK q \in Nat :
        /\ q = Position(back) /\ q = Position(term) - 1 /\ q \in Cells
        /\ q >= start + i
        /\ \A b \in Cells : b # q => back.cells[b] = term.cells[b]
  BY <1>1, <1>2, CursorErased
<1>4. start \in Nat /\ Position(term) \in Nat
  BY CursorPlace
<1>5. tabs = 0 => q = start + i
  BY <1>1, <1>3, <1>4 DEF RInv
<1>6. RInv'
  BY <1>1, <1>2, <1>3, <1>5 DEF RInv, LineOnScreen
<1>7. ASSUME NEW a \in 0 .. (start - 1)
      PROVE  term'.cells[a] = term.cells[a]
  <2>1. a \in Nat /\ a < q
    BY <1>1, <1>3, <1>4
  <2>2. a \in Cells
    BY <1>3, <2>1, CellsBelow
  <2> QED
    BY <1>1, <1>2, <1>3, <2>1, <2>2
<1> QED
  BY <1>6, <1>7

LEMMA BackspaceShown ==
  ASSUME TInv, RInv, InMemory, KeyBackspace
  PROVE  /\ RInv'
         /\ \A a \in 0 .. (start - 1) : term'.cells[a] = term.cells[a]
<1>1. PICK back : back = putchar(term, BACKSPACE)
  OBVIOUS
<1>2. /\ pc = "key" /\ i >= 1 /\ term' = putchar(back, BACKSPACE)
      /\ pc' = "loop" /\ out' = [out EXCEPT ![i - 1] = NUL] /\ i' = i - 1
      /\ UNCHANGED <<start, tabs>>
  BY <1>1 DEF KeyBackspace
<1>3. PICK q \in Nat :
        /\ q = Position(back) /\ q = Position(term) - 1 /\ q \in Cells
        /\ q >= start + i /\ back \in Term
        /\ \A b \in Cells : b # q => back.cells[b] = term.cells[b]
  BY <1>1, <1>2, CursorErased
<1>4. /\ start \in Nat /\ i \in Nat /\ Position(term) \in Nat
      /\ out \in [Offsets -> Bytes] /\ i \in Offsets
  BY CursorPlace
<1>5. PICK r \in Nat : r = q - 1 /\ q # 0 /\ r >= start + (i - 1)
  BY <1>2, <1>3, <1>4
<1>6. Position(term') = r /\ \A b \in Cells : b # r => term'.cells[b] = back.cells[b]
  <2>1. PICK u : u = terminal_backspace(back)
    OBVIOUS
  <2>2. term' = u
    BY <1>2, <2>1, WriteIs
  <2>3. Position(u) = Position(back) - 1 /\ Writes(back, u, Position(back) - 1)
    BY <1>3, <1>5, <2>1, BackspaceErases
  <2>4. Position(back) - 1 = r
    BY <1>3, <1>5
  <2> QED
    BY <2>2, <2>3, <2>4 DEF Writes
<1>7. ASSUME NEW a \in Nat, a < r
      PROVE  term'.cells[a] = term.cells[a]
  <2>1. a \in Cells
    BY <1>3, <1>5, <1>7, CellsBelow
  <2> QED
    BY <1>3, <1>5, <1>6, <1>7, <2>1
<1>8. ASSUME tabs = 0
      PROVE  /\ r = start + i'
             /\ \A b \in 0 .. (i' - 1) :
                  term'.cells[start + b] = terminal_make_char(out'[b], White)
  <2>1. Position(term) = start + i + 1 /\ LineOnScreen
    BY <1>2, <1>8 DEF RInv
  <2>2. r = start + (i - 1)
    BY <1>3, <1>4, <1>5, <2>1
  <2>3. ASSUME NEW b \in 0 .. (i' - 1)
        PROVE  term'.cells[start + b] = terminal_make_char(out'[b], White)
    <3>1. b \in 0 .. (i - 1) /\ b < i - 1
      BY <1>2, <1>4
    <3>2. PICK a \in Nat : a = start + b /\ a < r
      BY <1>4, <2>2, <3>1
    <3>3. term'.cells[a] = term.cells[a]
      BY <1>7, <3>2
    <3>4. out'[b] = out[b]
      BY <1>2, <1>4, <3>1, ShellAssumption DEF Offsets
    <3> QED
      BY <2>1, <3>1, <3>2, <3>3, <3>4 DEF LineOnScreen
  <2> QED
    BY <1>2, <2>2, <2>3
<1>9. RInv'
  BY <1>2, <1>4, <1>5, <1>6, <1>8 DEF RInv, LineOnScreen
<1>10. ASSUME NEW a \in 0 .. (start - 1)
       PROVE  term'.cells[a] = term.cells[a]
  <2>1. a \in Nat /\ a < r
    BY <1>2, <1>4, <1>5
  <2> QED
    BY <1>7, <2>1
<1> QED
  BY <1>9, <1>10

LEMMA TabShown ==
  ASSUME TInv, RInv, InMemory, TAB \in Keys, Key(TAB)
  PROVE  /\ RInv'
         /\ \A a \in 0 .. (start - 1) : term'.cells[a] = term.cells[a]
<1>1. PICK back : back = putchar(term, BACKSPACE)
  OBVIOUS
<1>2. /\ pc = "key" /\ term' = putchar(back, TAB)
      /\ pc' = "loop" /\ i' = i + 1 /\ start' = start /\ tabs' = tabs + 1
  BY <1>1 DEF Key
<1>3. PICK q \in Nat :
        /\ q = Position(back) /\ q \in Cells
        /\ q >= start + i /\ back \in Term
        /\ \A b \in Cells : b # q => back.cells[b] = term.cells[b]
  BY <1>1, <1>2, CursorErased
<1>4. start \in Nat /\ i \in Nat
  BY CursorPlace
<1>5. term' \in Term /\ term'.cells = back.cells /\ Position(term') >= q + 1
  BY <1>2, <1>3, TabMoves, WriteIs
<1>6. Position(term') \in Nat
  BY <1>5, PositionTyped
<1>7. tabs' \in Nat /\ tabs' # 0 /\ Position(term') >= start + i'
  BY <1>2, <1>3, <1>4, <1>5, <1>6 DEF RInv
<1>8. RInv'
  BY <1>2, <1>7 DEF RInv
<1>9. ASSUME NEW a \in 0 .. (start - 1)
      PROVE  term'.cells[a] = term.cells[a]
  <2>1. a \in Nat /\ a < q
    BY <1>3, <1>4
  <2>2. a \in Cells
    BY <1>3, <2>1, CellsBelow
  <2> QED
    BY <1>3, <1>5, <2>1, <2>2
<1> QED
  BY <1>8, <1>9

LEMMA KeyShown ==
  ASSUME TInv, RInv, InMemory, NEW k \in Keys, k # TAB, Key(k)
  PROVE  /\ RInv'
         /\ \A a \in 0 .. (start - 1) : term'.cells[a] = term.cells[a]
<1>1. PICK back : back = putchar(term, BACKSPACE)
  OBVIOUS
<1>2. /\ pc = "key" /\ term' = putchar(back, k)
      /\ pc' = "loop" /\ i' = i + 1 /\ out' = [out EXCEPT ![i] = k]
      /\ UNCHANGED <<start, tabs>>
  BY <1>1 DEF Key
<1>3. PICK q \in Nat :
        /\ q = Position(back) /\ q = Position(term) - 1 /\ q \in Cells
        /\ q >= start + i /\ back \in Term
        /\ \A b \in Cells : b # q => back.cells[b] = term.cells[b]
  BY <1>1, <1>2, CursorErased
<1>4. /\ start \in Nat /\ i \in Nat /\ Position(term) \in Nat
      /\ out \in [Offsets -> Bytes] /\ i \in Offsets
  BY CursorPlace
<1>5. k \in Bytes /\ k \notin {NEWLINE, TAB, BACKSPACE}
  BY KeysAreBytes
<1>6. /\ Position(term') = q + 1
      /\ \A b \in Cells : b # q => term'.cells[b] = term.cells[b]
      /\ term'.cells[q] = terminal_make_char(k, White)
  <2>1. PICK u : u = WriteGlyph(back, k, White)
    OBVIOUS
  <2>2. term' = u
    BY <1>2, <1>5, <2>1, WriteIs
  <2>3. /\ Position(u) = Position(back) + 1
        /\ Writes(back, u, Position(back))
        /\ Position(back) \in Cells =>
             u.cells[Position(back)] = terminal_make_char(k, White)
    BY <1>3, <1>5, <2>1, GlyphWrites
  <2> QED
    BY <1>3, <2>2, <2>3 DEF Writes
<1>7. ASSUME NEW a \in Nat, a < q
      PROVE  term'.cells[a] = term.cells[a]
  <2>1. a \in Cells
    BY <1>3, <1>7, CellsBelow
  <2> QED
    BY <1>6, <1>7, <2>1
<1>8. ASSUME tabs = 0
      PROVE  /\ q + 1 = start + i'
             /\ \A b \in 0 .. (i' - 1) :
                  term'.cells[start + b] = terminal_make_char(out'[b], White)
  <2>1. Position(term) = start + i + 1 /\ LineOnScreen
    BY <1>2, <1>8 DEF RInv
  <2>2. q = start + i
    BY <1>3, <1>4, <2>1
  <2>3. ASSUME NEW b \in 0 .. (i' - 1)
        PROVE  term'.cells[start + b] = terminal_make_char(out'[b], White)
    <3>1. CASE b = i
      <4>1. out'[b] = k
        BY <1>2, <1>4, <3>1
      <4> QED
        BY <1>6, <2>2, <3>1, <4>1
    <3>2. CASE b # i
      <4>1. b \in 0 .. (i - 1)
        BY <1>2, <1>4, <3>2
      <4>2. PICK a \in Nat : a = start + b /\ a < q
        BY <1>4, <2>2, <4>1
      <4>3. term'.cells[a] = term.cells[a]
        BY <1>7, <4>2
      <4>4. out'[b] = out[b]
        BY <1>2, <1>4, <3>2, <4>1, ShellAssumption DEF Offsets
      <4> QED
        BY <2>1, <4>1, <4>2, <4>3, <4>4 DEF LineOnScreen
    <3> QED
      BY <3>1, <3>2
  <2> QED
    BY <1>2, <1>4, <2>2, <2>3
<1>9. RInv'
  BY <1>2, <1>3, <1>4, <1>6, <1>8 DEF RInv, LineOnScreen
<1>10. ASSUME NEW a \in 0 .. (start - 1)
       PROVE  term'.cells[a] = term.cells[a]
  <2>1. a \in Nat /\ a < q
    BY <1>3, <1>4
  <2> QED
    BY <1>7, <2>1
<1> QED
  BY <1>9, <1>10

-----------------------------------------------------------------------------
LEMMA ReadlineKeeps ==
  ASSUME TInv, TInv', RInv, InMemory, InMemory', [Next]_vars
  PROVE  /\ RInv'
         /\ pc \in {"loop", "key"} =>
              \A a \in 0 .. (start - 1) : term'.cells[a] = term.cells[a]
<1>1. CASE UNCHANGED vars \/ SessionEnds
  <2>1. UNCHANGED <<term, pc, i, out, start, tabs>>
    BY <1>1 DEF SessionEnds, vars, readline, history
  <2> QED
    BY <2>1 DEF RInv, LineOnScreen
<1>2. CASE ShowPrompt
  <2>1. /\ pc = "prompt" /\ pc' = "loop" /\ i' = 0 /\ tabs' = 0
        /\ start' = Position(term')
    BY <1>2 DEF ShowPrompt
  <2>2. PICK t \in Term : t = term' /\ t.row < MaxRows
    BY DEF TInv, InMemory
  <2>3. Position(t) \in Cells /\ Position(t) \in Nat
    BY <2>2, PositionTyped
  <2>4. start' \in Cells /\ start' \in Nat /\ Position(term') = start'
    BY <2>1, <2>2, <2>3
  <2> QED
    BY <2>1, <2>4 DEF RInv, LineOnScreen
<1>3. CASE LineFull \/ KeyEnter
  BY <1>3 DEF LineFull, KeyEnter, history, RInv
<1>4. CASE \E k \in Keys : Key(k)
  BY <1>4, TabShown, KeyShown
<1>5. CASE \/ ParseBegins \/ ParseToken \/ ParseRefused
           \/ SystemFails \/ CommandDone
           \/ \E n \in Numbers, clear \in BOOLEAN : SystemRuns(n, clear)
  <2>1. /\ pc \notin {"loop", "key"} /\ pc' \notin {"loop", "key"}
        /\ UNCHANGED <<start, tabs>>
    BY <1>5 DEF ParseBegins, ParseToken, ParseRefused, SystemFails,
                CommandDone, SystemRuns, history
  <2> QED
    BY <2>1 DEF RInv
<1> QED
  BY <1>1, <1>2, <1>3, <1>4, <1>5, CursorDrawn, BackspaceAtStartShown,
     BackspaceShown DEF Next

\* As long as the rows that are modelled are enough, the line on the screen
\* is that of readline.
THEOREM ReadlineInductive ==
  ASSUME PrintsBytes
  PROVE  Spec /\ []InMemory => []RInv
<1>1. Init => RInv
  BY CellsAreNumbers DEF Init, RInv
<1>2. TInv /\ TInv' /\ RInv /\ InMemory /\ InMemory' /\ [Next]_vars => RInv'
  BY ReadlineKeeps
<1> QED
  BY <1>1, <1>2, ShellInductive, PTL DEF Spec

\* The buffers of readline and of the parser hold bytes, and the pointers of
\* strtok stay inside of theirs, for any keys, lines and commands.
THEOREM ShellTypeOK ==
  ASSUME PrintsBytes
  PROVE  Spec /\ []InMemory => []TypeOK
<1>1. TInv /\ InMemory => TypeOK
  <2> SUFFICES ASSUME TInv, InMemory PROVE TypeOK
    OBVIOUS
  <2>1. /\ term.row \in 0 .. (MaxRows - 1) /\ term.col \in 0 .. (VGA_WIDTH - 1)
        /\ term.cells \in [Cells -> Glyphs]
    BY TerminalAssumption DEF TInv, InMemory, Term
  <2>2. term.cells \in [Cells -> 0 .. UINT16_MAX]
    BY <2>1, Zenon DEF Glyphs
  <2>3. /\ i \in Offsets /\ out \in [Offsets -> Bytes]
        /\ scommand \in [0 .. LineSize -> Bytes]
        /\ sp \in {NoPointer} \cup 0 .. LineSize
        /\ used \in 0 .. MaxAllocations
    BY DEF TInv, Buffers, Pointers
  <2>4. /\ out \in [Offsets -> 0 .. 255]
        /\ scommand \in [0 .. LineSize -> 0 .. 255]
    BY <2>3, Zenon DEF Bytes
  <2> QED
    BY <2>1, <2>2, <2>3, <2>4, Zenon DEF TypeOK
<1> QED
  BY <1>1, ShellInductive, PTL

(***************************************************************************)
(* While boios_terminal_readline waits for a key, the terminal shows the   *)
(* line in its buffer and then the cursor: on a screen of any width, over  *)
(* the ends of rows, after any keys and backspaces but tabs.               *)
(***************************************************************************)
THEOREM LineIsShown ==
  ASSUME PrintsBytes
  PROVE  Spec /\ []InMemory => []LineShown
<1>1. RInv => LineShown
  BY DEF RInv, LineShown, LineOnScreen
<1> QED
  BY <1>1, ReadlineInductive, PTL

\* Nothing typed in readline, backspaces and tabs included, changes a cell
\* before the line.
THEOREM PromptIsKept ==
  ASSUME PrintsBytes
  PROVE  Spec /\ []InMemory => PromptKept
<1> DEFINE Kept == (pc \in {"loop", "key"}) =>
                     (\A a \in 0 .. (start - 1) : term'.cells[a] = term.cells[a])
<1>1. TInv /\ TInv' /\ RInv /\ InMemory /\ InMemory' /\ [Next]_vars
        => [Kept]_vars
  BY ReadlineKeeps
<1>2. PromptKept <=> [][Kept]_vars
  BY DEF PromptKept
<1> HIDE DEF Kept
<1> QED
  BY <1>1, <1>2, ShellInductive, ReadlineInductive, PTL DEF Spec

-----------------------------------------------------------------------------
\* The line that the editor has, and how a step of readline changes it.
Edited == [b \in 1 .. i |-> out[b - 1]]

LEMMA EditedTyped ==
  ASSUME TInv
  PROVE  Edited \in Seq(Bytes) /\ Len(Edited) = i /\ i \in Nat
<1>1. i \in Nat /\ i <= LineSize - 1 /\ LineSize \in Nat
  BY ShellAssumption DEF TInv, Offsets
<1>2. ASSUME NEW b \in 1 .. i
      PROVE  out[b - 1] \in Bytes
  <2>1. b - 1 \in Offsets
    BY <1>1 DEF Offsets
  <2> QED
    BY <2>1 DEF TInv
<1>3. Edited \in [1 .. i -> Bytes]
  BY <1>2 DEF Edited
<1> QED
  BY <1>1, <1>3

LEMMA EditedGrows ==
  ASSUME TInv, TInv', NEW k \in Keys, Key(k)
  PROVE  Edited' = Append(Edited, k)
<1>1. /\ i \in Nat /\ i \in Offsets /\ i' = i + 1 /\ out \in [Offsets -> Bytes]
      /\ out' = [out EXCEPT ![i] = k]
  BY EditedTyped DEF Key, TInv
<1>2. ASSUME NEW b \in 1 .. i
      PROVE  out'[b - 1] = out[b - 1]
  <2>1. b - 1 \in Offsets /\ b - 1 # i
    BY <1>1, ShellAssumption DEF Offsets
  <2> QED
    BY <1>1, <2>1
<1>3. out'[(i + 1) - 1] = k
  BY <1>1
<1>4. Edited' = [b \in 1 .. (i + 1) |-> out'[b - 1]]
  BY <1>1 DEF Edited
<1>5. Append(Edited, k) = [b \in 1 .. (i + 1) |-> IF b <= i THEN Edited[b] ELSE k]
  <2>1. PICK s \in Seq(Bytes) : s = Edited /\ Len(s) = i
    BY EditedTyped
  <2>2. k \in Bytes
    BY KeysAreBytes
  <2>3. PICK t : t = Append(s, k)
    OBVIOUS
  <2>4. /\ t \in Seq(Bytes) /\ Len(t) = Len(s) + 1
        /\ \A b \in 1 .. Len(s) : t[b] = s[b]
        /\ t[Len(s) + 1] = k
    BY <2>2, <2>3, AppendProperties
  <2>5. PICK n \in Nat : n = i + 1 /\ n = Len(s) + 1 /\ n = Len(t)
    BY <1>1, <2>1, <2>4
  <2>6. t \in [1 .. n -> Bytes]
    BY <2>4, <2>5
  <2>7. ASSUME NEW b \in 1 .. n
        PROVE  t[b] = IF b <= i THEN s[b] ELSE k
    BY <1>1, <2>1, <2>4, <2>5
  <2>8. t = [b \in 1 .. n |-> IF b <= i THEN s[b] ELSE k]
    BY <2>6, <2>7
  <2> QED
    BY <2>1, <2>3, <2>5, <2>8
<1>6. ASSUME NEW b \in 1 .. (i + 1)
      PROVE  out'[b - 1] = IF b <= i THEN Edited[b] ELSE k
  <2>1. CASE b <= i
    <3>1. b \in 1 .. i
      BY <1>1, <2>1
    <3> QED
      BY <1>2, <2>1, <3>1 DEF Edited
  <2>2. CASE ~ (b <= i)
    <3>1. b = i + 1
      BY <1>1, <2>2
    <3> QED
      BY <1>3, <2>2, <3>1
  <2> QED
    BY <2>1, <2>2
<1> QED
  BY <1>4, <1>5, <1>6

LEMMA EditedShrinks ==
  ASSUME TInv, TInv', KeyBackspace
  PROVE  Edited # << >> /\ Edited' = SubSeq(Edited, 1, Len(Edited) - 1)
<1>1. /\ i \in Nat /\ i >= 1 /\ i \in Offsets /\ i' = i - 1
      /\ out \in [Offsets -> Bytes] /\ Len(Edited) = i
      /\ out' = [out EXCEPT ![i - 1] = NUL]
  BY EditedTyped DEF KeyBackspace, TInv
<1>2. PICK last \in Nat : last = i - 1
  BY <1>1
<1>3. ASSUME NEW b \in 1 .. last
      PROVE  out'[b - 1] = Edited[b]
  <2>1. b - 1 \in Offsets /\ b - 1 # i - 1 /\ b \in 1 .. i
    BY <1>1, <1>2, ShellAssumption DEF Offsets
  <2> QED
    BY <1>1, <2>1 DEF Edited
<1>4. Edited' = [b \in 1 .. last |-> out'[b - 1]]
  BY <1>1, <1>2 DEF Edited
<1>5. SubSeq(Edited, 1, last) = [b \in 1 .. last |-> Edited[b]]
  BY <1>2, EditedTyped
<1>6. Edited # << >>
  BY <1>1
<1> QED
  BY <1>1, <1>2, <1>3, <1>4, <1>5, <1>6

LEMMA EditedStays ==
  ASSUME TInv, i' = i,
         \/ out' = out
         \/ \E c : out' = [out EXCEPT ![i] = c]
  PROVE  Edited' = Edited
<1>1. i \in Nat /\ i \in Offsets /\ out \in [Offsets -> Bytes]
  BY EditedTyped DEF TInv
<1>2. ASSUME NEW b \in 1 .. i
      PROVE  out'[b - 1] = out[b - 1]
  <2>1. b - 1 \in Offsets /\ b - 1 # i
    BY <1>1, ShellAssumption DEF Offsets
  <2> QED
    BY <1>1, <2>1
<1> QED
  BY <1>2 DEF Edited

(***************************************************************************)
(* The buffer and the index of boios_terminal_readline implement the line  *)
(* editor, for any keys and any length of a line.                          *)
(***************************************************************************)
THEOREM ReadlineImplementsEditor ==
  ASSUME PrintsBytes
  PROVE  Spec => ImplementsEditor
<1> DEFINE editing == pc \in {"loop", "key"}
<1>1. Init => Editor!Init
  BY DEF Init, Editor!Init
<1>2. TInv /\ TInv' /\ [Next]_vars => [Editor!Next]_<<Edited, editing>>
  <2> SUFFICES ASSUME TInv, TInv', [Next]_vars
               PROVE  Editor!Next \/ UNCHANGED <<Edited, editing>>
    OBVIOUS
  <2>1. CASE \/ UNCHANGED vars \/ SessionEnds \/ ShowCursor
             \/ KeyBackspaceAtStart
             \/ ParseBegins \/ ParseToken \/ ParseRefused
             \/ SystemFails \/ CommandDone
             \/ \E n \in Numbers, clear \in BOOLEAN : SystemRuns(n, clear)
    <3>1. /\ i' = i /\ out' = out
          /\ pc \in {"loop", "key"} <=> pc' \in {"loop", "key"}
      BY <2>1 DEF vars, SessionEnds, ShowCursor, KeyBackspaceAtStart,
                  ParseBegins, ParseToken, ParseRefused, SystemFails,
                  CommandDone, SystemRuns, readline
    <3>2. Edited' = Edited
      BY <3>1, EditedStays
    <3> QED
      BY <3>1, <3>2
  <2>2. CASE ShowPrompt
    <3>1. pc = "prompt" /\ pc' = "loop" /\ i' = 0
      BY <2>2 DEF ShowPrompt
    <3>2. Edited' = << >>
      BY <3>1 DEF Edited
    <3> QED
      BY <3>1, <3>2 DEF Editor!Next, Editor!Begin, Edited
  <2>3. CASE LineFull \/ KeyEnter
    <3>1. /\ pc \in {"loop", "key"} /\ pc' = "entered" /\ i' = i
          /\ out' = [out EXCEPT ![i] = NUL]
      BY <2>3 DEF LineFull, KeyEnter
    <3>2. Edited' = Edited
      BY <3>1, EditedStays
    <3> QED
      BY <3>1, <3>2 DEF Editor!Next, Editor!Enter, Edited
  <2>4. CASE KeyBackspace
    <3>1. pc = "key" /\ pc' = "loop"
      BY <2>4 DEF KeyBackspace
    <3>2. Edited # << >> /\ Edited' = SubSeq(Edited, 1, Len(Edited) - 1)
      BY <2>4, EditedShrinks
    <3> QED
      BY <3>1, <3>2 DEF Editor!Next, Editor!Erase, Edited
  <2>5. ASSUME NEW k \in Keys, Key(k)
        PROVE  Editor!Next
    <3>1. pc = "key" /\ pc' = "loop"
      BY <2>5 DEF Key
    <3>2. Edited' = Append(Edited, k)
      BY <2>5, EditedGrows
    <3>3. Len(Edited) < LineSize - 1
      BY <3>1, EditedTyped DEF TInv
    <3> QED
      BY <3>1, <3>2, <3>3 DEF Editor!Next, Editor!Type, Edited
  <2> QED
    BY <2>1, <2>2, <2>3, <2>4, <2>5 DEF Next
<1>3. Editor!Spec <=> Editor!Init /\ [][Editor!Next]_<<Edited, editing>>
  BY DEF Editor!Spec, Editor!vars, Edited
<1> QED
  BY <1>1, <1>2, <1>3, ShellInductive, PTL DEF Spec, ImplementsEditor

-----------------------------------------------------------------------------
(***************************************************************************)
(* The words of a text and how many start before a place.                  *)
(***************************************************************************)
LEMMA StartsCounted ==
  ASSUME NEW text \in Seq(Bytes), NEW a \in Nat
  PROVE  /\ IsFiniteSet(WordStarts(text))
         /\ Cardinality(WordStarts(text)) \in Nat
         /\ \A B \in SUBSET WordStarts(text) : IsFiniteSet(B)
         /\ WordsBefore(text, a) \in Nat
         /\ WordsBefore(text, a) <= Cardinality(WordStarts(text))
<1>1. PICK S : S = WordStarts(text)
  OBVIOUS
<1>2. PICK B : B = {b \in S : b < a}
  OBVIOUS
<1>3. IsFiniteSet(S) /\ Cardinality(S) \in Nat
  <2>1. PICK n \in Nat : n = Len(text)
    OBVIOUS
  <2>2. IsFiniteSet(1 .. n)
    BY FS_Interval
  <2>3. S \in SUBSET (1 .. n)
    BY <1>1, <2>1 DEF WordStarts
  <2>4. IsFiniteSet(S)
    BY <2>2, <2>3, FS_Subset
  <2> QED
    BY <2>4, FS_CardinalityType
<1>4. B \in SUBSET S
  BY <1>2
<1>5. IsFiniteSet(B) /\ Cardinality(B) <= Cardinality(S)
  BY <1>3, <1>4, FS_Subset
<1>6. Cardinality(B) \in Nat
  BY <1>5, FS_CardinalityType
<1>7. WordsBefore(text, a) = Cardinality(B)
  BY <1>1, <1>2 DEF WordsBefore
<1>8. \A C \in SUBSET S : IsFiniteSet(C)
  BY <1>3, FS_Subset
<1> QED
  BY <1>1, <1>3, <1>5, <1>6, <1>7, <1>8

\* As many words start before two places if none starts between them.
LEMMA StartsSame ==
  ASSUME NEW text \in Seq(Bytes), NEW a \in Nat, NEW b \in Nat, a <= b,
         \A c \in WordStarts(text) : ~ (a <= c /\ c < b)
  PROVE  WordsBefore(text, a) = WordsBefore(text, b)
<1>1. WordStarts(text) \subseteq Nat
  BY DEF WordStarts
<1>2. {c \in WordStarts(text) : c < a} = {c \in WordStarts(text) : c < b}
  BY <1>1
<1> QED
  BY <1>2 DEF WordsBefore

\* And one more if one does.
LEMMA StartsNext ==
  ASSUME NEW text \in Seq(Bytes), NEW a \in WordStarts(text), NEW b \in Nat,
         a < b,
         \A c \in WordStarts(text) : ~ (a < c /\ c < b)
  PROVE  WordsBefore(text, b) = WordsBefore(text, a) + 1
<1>1. WordStarts(text) \subseteq Nat
  BY DEF WordStarts
<1>2. PICK A, B : /\ A = {c \in WordStarts(text) : c < a}
                  /\ B = {c \in WordStarts(text) : c < b}
  OBVIOUS
<1>3. B = A \cup {a} /\ a \notin A
  BY <1>1, <1>2
<1>4. IsFiniteSet(A)
  <2>1. A \in SUBSET WordStarts(text)
    BY <1>2
  <2> QED
    BY <2>1, StartsCounted
<1>5. Cardinality(B) = Cardinality(A) + 1
  BY <1>3, <1>4, FS_AddElement
<1> QED
  BY <1>2, <1>5 DEF WordsBefore

\* More words start before a later start.
LEMMA StartsOrdered ==
  ASSUME NEW text \in Seq(Bytes),
         NEW a \in WordStarts(text), NEW b \in WordStarts(text), a < b
  PROVE  WordsBefore(text, a) < WordsBefore(text, b)
<1>1. WordStarts(text) \subseteq Nat /\ a \in Nat /\ b \in Nat
  BY DEF WordStarts
<1>2. PICK A, B : /\ A = {c \in WordStarts(text) : c < a}
                  /\ B = {c \in WordStarts(text) : c < b}
  OBVIOUS
<1>3. IsFiniteSet(A) /\ IsFiniteSet(B)
  <2>1. A \in SUBSET WordStarts(text) /\ B \in SUBSET WordStarts(text)
    BY <1>2
  <2> QED
    BY <2>1, StartsCounted
<1>4. A \cup {a} \in SUBSET B /\ a \notin A
  BY <1>1, <1>2
<1>5. Cardinality(A \cup {a}) = Cardinality(A) + 1
  BY <1>3, <1>4, FS_AddElement
<1>6. Cardinality(A \cup {a}) <= Cardinality(B)
  BY <1>3, <1>4, FS_Subset
<1>7. Cardinality(A) \in Nat /\ Cardinality(B) \in Nat
  BY <1>3, FS_CardinalityType
<1> QED
  BY <1>2, <1>5, <1>6, <1>7 DEF WordsBefore

\* The word that starts at a has the number of words before it, and one.
LEMMA WordNumbered ==
  ASSUME NEW text \in Seq(Bytes), NEW a \in WordStarts(text)
  PROVE  /\ WordsBefore(text, a) + 1 \in 1 .. Cardinality(WordStarts(text))
         /\ Words(text)[WordsBefore(text, a) + 1] = WordAt(text, a)
<1>1. a \in 1 .. Len(text) /\ Len(text) \in Nat
  BY DEF WordStarts
<1>0. WordsBefore(text, a) \in Nat
  BY <1>1, StartsCounted
<1>2. PICK w \in Nat : w = WordsBefore(text, a) + 1
  BY <1>0
<1>3. PICK n \in Nat : n = Len(text) + 1 /\ a < n
  BY <1>1
<1>4. WordsBefore(text, n) = Cardinality(WordStarts(text))
  <2>1. {b \in WordStarts(text) : b < n} = WordStarts(text)
    BY <1>1, <1>3 DEF WordStarts
  <2> QED
    BY <2>1 DEF WordsBefore
<1>5. w \in 1 .. Cardinality(WordStarts(text))
  <2>1. PICK A, B : /\ A = {c \in WordStarts(text) : c < a}
                    /\ B = WordStarts(text)
    OBVIOUS
  <2>2. IsFiniteSet(A) /\ IsFiniteSet(B)
    <3>1. A \in SUBSET WordStarts(text) /\ B \in SUBSET WordStarts(text)
      BY <2>1
    <3> QED
      BY <3>1, StartsCounted
  <2>3. A \cup {a} \in SUBSET B /\ a \notin A
    BY <1>1, <2>1
  <2>4. Cardinality(A \cup {a}) = Cardinality(A) + 1
    BY <2>2, <2>3, FS_AddElement
  <2>5. Cardinality(A \cup {a}) <= Cardinality(B)
    BY <2>2, <2>3, FS_Subset
  <2>6. Cardinality(A) \in Nat /\ Cardinality(B) \in Nat
    BY <2>2, FS_CardinalityType
  <2> QED
    BY <1>2, <2>1, <2>4, <2>5, <2>6 DEF WordsBefore
<1>6. ASSUME NEW b \in WordStarts(text), WordsBefore(text, b) = w - 1
      PROVE  b = a
  <2>1. b \in Nat /\ a \in Nat
    BY <1>1 DEF WordStarts
  <2>2. WordsBefore(text, b) = WordsBefore(text, a)
    BY <1>0, <1>2, <1>6
  <2>3. ~ (a < b) /\ ~ (b < a)
    BY <1>0, <2>2, StartsOrdered
  <2> QED
    BY <2>1, <2>3
<1>7. (CHOOSE b \in WordStarts(text) : WordsBefore(text, b) = w - 1) = a
  <2>1. WordsBefore(text, a) = w - 1
    BY <1>0, <1>2
  <2> QED
    BY <1>6, <2>1
<1>8. Words(text)[w] = WordAt(text, a)
  BY <1>5, <1>7 DEF Words
<1> QED
  BY <1>2, <1>5, <1>8

-----------------------------------------------------------------------------
(***************************************************************************)
(* strtok has cut r words from the text of a buffer, up to offset p: from  *)
(* there on the text is still in the buffer, and p is not inside a word.   *)
(***************************************************************************)
Uncut(buf, text, p, r) ==
  /\ p \in 0 .. Len(text)
  /\ \A b \in p .. (Len(text) - 1) : buf[b] = text[b + 1]
  /\ buf[Len(text)] = NUL
  /\ p = 0 \/ p = Len(text) \/ text[p] = BLANK
  /\ WordsBefore(text, p + 1) = r

\* At offset a of the buffer is the text of the word after r others.
CutAt(buf, text, a, r) ==
  /\ a + 1 \in WordStarts(text)
  /\ WordsBefore(text, a + 1) = r
  /\ Text(buf, a) = WordAt(text, a + 1)

\* Texts that a buffer has room for.
Lines == {text \in Seq(Bytes) : /\ Len(text) < LineSize
                                /\ \A b \in 1 .. Len(text) : text[b] # NUL}

\* The first nonblank from p on, and the blank, or the end, that follows it,
\* as strtok finds them in a buffer.
BeginsAt(buf, text, p, n, begin) ==
  /\ begin \in p .. n
  /\ begin = First({b \in DOMAIN buf : b >= p /\ buf[b] # BLANK})
  /\ \A b \in p .. (begin - 1) : text[b + 1] = BLANK
  /\ begin < n => text[begin + 1] # BLANK /\ buf[begin] = text[begin + 1]
  /\ begin = n => buf[begin] = NUL

EndsAt(buf, text, begin, n, end) ==
  /\ end \in (begin + 1) .. n
  /\ end = Scan(buf, begin, {NUL, BLANK})
  /\ \A b \in begin .. (end - 1) : text[b + 1] # BLANK
  /\ end < n => buf[end] # NUL /\ text[end + 1] = BLANK
  /\ end = n => buf[end] = NUL

LEMMA TokenFound ==
  ASSUME NEW buf \in Buffers, NEW text \in Lines, NEW p, NEW r,
         Uncut(buf, text, p, r), NEW n \in Nat, n = Len(text)
  PROVE  \E begin \in Nat : BeginsAt(buf, text, p, n, begin)
<1>1. LineSize \in Nat /\ DOMAIN buf = 0 .. LineSize /\ n < LineSize
  BY ShellAssumption DEF Buffers, Lines
<1>2. /\ p \in 0 .. n /\ p \in Nat
      /\ \A b \in p .. (n - 1) : buf[b] = text[b + 1]
      /\ buf[n] = NUL
  BY DEF Uncut
<1>3. PICK S : S = {b \in DOMAIN buf : b >= p /\ buf[b] # BLANK}
  OBVIOUS
<1>4. n \in S /\ S \subseteq Nat
  BY <1>1, <1>2, <1>3 DEF NUL, BLANK
<1>5. PICK begin \in Nat : begin = First(S)
  BY <1>4, FirstIn
<1>6. begin \in S /\ \A b \in S : begin <= b
  BY <1>4, <1>5, FirstIn
<1>7. begin \in p .. n
  BY <1>2, <1>3, <1>4, <1>6
<1>8. ASSUME NEW b \in p .. (begin - 1)
      PROVE  text[b + 1] = BLANK
  <2>1. b \in DOMAIN buf /\ b \in p .. (n - 1) /\ ~ (begin <= b)
    BY <1>1, <1>2, <1>7
  <2>2. b \notin S
    BY <1>6, <2>1
  <2> QED
    BY <1>2, <1>3, <2>1, <2>2
<1>9. begin < n => text[begin + 1] # BLANK /\ buf[begin] = text[begin + 1]
  BY <1>2, <1>3, <1>6, <1>7
<1> QED
  BY <1>2, <1>3, <1>5, <1>7, <1>8, <1>9 DEF BeginsAt

LEMMA EndFound ==
  ASSUME NEW buf \in Buffers, NEW text \in Lines, NEW p, NEW r,
         Uncut(buf, text, p, r), NEW n \in Nat, n = Len(text),
         NEW begin \in Nat, BeginsAt(buf, text, p, n, begin), begin < n
  PROVE  \E end \in Nat : EndsAt(buf, text, begin, n, end)
<1>1. LineSize \in Nat /\ DOMAIN buf = 0 .. LineSize /\ n < LineSize
  BY ShellAssumption DEF Buffers, Lines
<1>2. /\ p \in 0 .. n /\ p \in Nat /\ begin \in p .. n
      /\ text[begin + 1] # BLANK
      /\ \A b \in p .. (n - 1) : buf[b] = text[b + 1]
      /\ buf[n] = NUL
  BY DEF Uncut, BeginsAt
<1>3. PICK S : S = {b \in DOMAIN buf : b >= begin /\ buf[b] \in {NUL, BLANK}}
  OBVIOUS
<1>4. n \in S /\ S \subseteq Nat
  BY <1>1, <1>2, <1>3
<1>5. PICK end \in Nat : end = First(S)
  BY <1>4, FirstIn
<1>6. end \in S /\ \A b \in S : end <= b
  BY <1>4, <1>5, FirstIn
<1>7. \A b \in p .. (n - 1) : buf[b] # NUL
  <2>1. ASSUME NEW b \in p .. (n - 1)
        PROVE  buf[b] # NUL
    <3>1. b + 1 \in 1 .. Len(text)
      BY <1>2
    <3> QED
      BY <1>2, <3>1 DEF Lines
  <2> QED
    BY <2>1
<1>8. end \in (begin + 1) .. n
  <2>1. begin \notin S
    BY <1>2, <1>3, <1>7
  <2> QED
    BY <1>2, <1>3, <1>4, <1>6, <2>1
<1>9. ASSUME NEW b \in begin .. (end - 1)
      PROVE  text[b + 1] # BLANK
  <2>1. b \in DOMAIN buf /\ b \in p .. (n - 1) /\ ~ (end <= b)
    BY <1>1, <1>2, <1>8
  <2>2. b \notin S
    BY <1>6, <2>1
  <2> QED
    BY <1>2, <1>3, <2>1, <2>2
<1>10. end < n => buf[end] # NUL /\ text[end + 1] = BLANK
  BY <1>2, <1>3, <1>6, <1>7, <1>8
<1>11. end = Scan(buf, begin, {NUL, BLANK})
  BY <1>3, <1>5 DEF Scan
<1> QED
  BY <1>2, <1>8, <1>9, <1>10, <1>11 DEF EndsAt

\* The word that starts behind begin ends at end, in the text and in the
\* buffer when it has been cut.
LEMMA WordCut ==
  ASSUME NEW buf \in Buffers, NEW text \in Lines, NEW n \in Nat, n = Len(text),
         NEW begin \in Nat, NEW end \in (begin + 1) .. n,
         \A b \in begin .. (end - 1) : buf[b] = text[b + 1],
         \A b \in begin .. (end - 1) : text[b + 1] # BLANK,
         end < n => text[end + 1] = BLANK,
         buf[end] = NUL
  PROVE  Text(buf, begin) = WordAt(text, begin + 1)
<1>1. LineSize \in Nat /\ DOMAIN buf = 0 .. LineSize /\ n < LineSize
  BY ShellAssumption DEF Buffers, Lines
<1>2. Scan(buf, begin, {NUL}) = end
  <2>1. PICK S : S = {b \in DOMAIN buf : b >= begin /\ buf[b] \in {NUL}}
    OBVIOUS
  <2>2. end \in S /\ S \subseteq Nat
    BY <1>1, <2>1
  <2>3. PICK m \in Nat : m = First(S)
    BY <2>2, FirstIn
  <2>4. m \in S /\ \A b \in S : m <= b
    BY <2>2, <2>3, FirstIn
  <2>5. ~ (m < end)
    <3> SUFFICES ASSUME m < end
                 PROVE  FALSE
      OBVIOUS
    <3>1. m \in begin .. (end - 1) /\ m + 1 \in 1 .. Len(text)
      BY <2>1, <2>4
    <3>2. text[m + 1] # NUL
      BY <3>1 DEF Lines
    <3> QED
      BY <2>1, <2>4, <3>1, <3>2
  <2>6. m = end
    BY <2>2, <2>3, <2>4, <2>5
  <2> QED
    BY <2>1, <2>3, <2>6 DEF Scan
<1>3. First({b \in (begin + 1) .. n : b = n \/ text[b + 1] = BLANK}) = end
  <2>1. PICK S : S = {b \in (begin + 1) .. n : b = n \/ text[b + 1] = BLANK}
    OBVIOUS
  <2>2. end \in S /\ S \subseteq Nat
    BY <2>1
  <2>3. PICK m \in Nat : m = First(S)
    BY <2>2, FirstIn
  <2>4. m \in S /\ \A b \in S : m <= b
    BY <2>2, <2>3, FirstIn
  <2>5. ~ (m < end)
    <3> SUFFICES ASSUME m < end
                 PROVE  FALSE
      OBVIOUS
    <3>1. m \in begin .. (end - 1) /\ m # n
      BY <2>1, <2>4
    <3> QED
      BY <2>1, <2>4, <3>1
  <2>6. m = end
    BY <2>2, <2>3, <2>4, <2>5
  <2> QED
    BY <2>1, <2>3, <2>6
<1>4. WordAt(text, begin + 1) = SubSeq(text, begin + 1, end)
  BY <1>3 DEF WordAt
<1>5. PICK l \in Nat : l = end - begin
  OBVIOUS
<1>6. SubSeq(text, begin + 1, end) = [j \in 1 .. l |-> text[begin + j]]
  <2>1. text \in Seq(Bytes)
    BY DEF Lines
  <2>2. PICK a, e \in 1 .. n : a = begin + 1 /\ e = end /\ a <= e
    OBVIOUS
  <2>3. PICK s : s = SubSeq(text, a, e)
    OBVIOUS
  <2>4. /\ s \in Seq(Bytes) /\ Len(s) = e - a + 1
        /\ \A j \in 1 .. (e - a + 1) : s[j] = text[a + j - 1]
    <3>1. \A j \in a .. e : text[j] \in Bytes
      BY <2>1
    <3> QED
      BY <2>2, <2>3, <3>1, SubSeqProperties
  <2>5. e - a + 1 = l
    BY <1>5, <2>2
  <2>6. s \in [1 .. l -> Bytes]
    BY <2>4, <2>5
  <2>7. ASSUME NEW j \in 1 .. l
        PROVE  s[j] = text[begin + j]
    <3>1. a + j - 1 = begin + j
      BY <2>2
    <3> QED
      BY <2>4, <2>5, <3>1
  <2> QED
    BY <2>2, <2>3, <2>6, <2>7
<1>7. Text(buf, begin) = [j \in 1 .. l |-> buf[begin + j - 1]]
  BY <1>2, <1>5 DEF Text
<1>8. ASSUME NEW j \in 1 .. l
      PROVE  buf[begin + j - 1] = text[begin + j]
  <2>0. begin + j - 1 \in begin .. (end - 1)
    BY <1>5
  <2>1. PICK b \in begin .. (end - 1) : b = begin + j - 1 /\ b + 1 = begin + j
    BY <2>0
  <2>2. buf[b] = text[b + 1]
    OBVIOUS
  <2> QED
    BY <2>1, <2>2
<1> QED
  BY <1>4, <1>6, <1>7, <1>8

\* What strtok gives when r words have been cut: no token if there are no
\* more, or the next word.
TokenOf(t, text, r) ==
  IF t.token = NoPointer
    THEN t.sp = NoPointer /\ r = Cardinality(WordStarts(text))
    ELSE CutAt(t.buf, text, t.token, r) /\ Uncut(t.buf, text, t.sp, r + 1)

LEMMA NextToken ==
  ASSUME NEW buf \in Buffers, NEW text \in Lines, NEW p, NEW r \in Nat,
         Uncut(buf, text, p, r),
         NEW q, NEW str, p = IF q = NoPointer THEN str ELSE q
  PROVE  TokenOf(strtok(q, buf, str), text, r)
<1>1. PICK n \in Nat : n = Len(text)
  BY DEF Lines
<1>2. LineSize \in Nat /\ DOMAIN buf = 0 .. LineSize /\ n < LineSize
  BY <1>1, ShellAssumption DEF Buffers, Lines
<1>3. /\ p \in 0 .. n /\ p \in Nat /\ p # NoPointer /\ NoPointer = -1
      /\ \A b \in p .. (n - 1) : buf[b] = text[b + 1]
      /\ buf[n] = NUL
      /\ p = 0 \/ p = n \/ text[p] = BLANK
      /\ WordsBefore(text, p + 1) = r
  BY <1>1 DEF Uncut, NoPointer
<1>4. text \in Seq(Bytes)
  BY DEF Lines
<1>5. \A c \in WordStarts(text) : /\ c \in 1 .. n /\ text[c] # BLANK
                                  /\ c = 1 \/ text[c - 1] = BLANK
  BY <1>1 DEF WordStarts
<1>0. PICK begin \in Nat : BeginsAt(buf, text, p, n, begin)
  BY <1>1, TokenFound
<1>6. /\ begin \in p .. n
      /\ begin = First({b \in DOMAIN buf : b >= p /\ buf[b] # BLANK})
      /\ \A b \in p .. (begin - 1) : text[b + 1] = BLANK
      /\ begin < n => text[begin + 1] # BLANK /\ buf[begin] = text[begin + 1]
      /\ begin = n => buf[begin] = NUL
  BY <1>0 DEF BeginsAt
<1>7. PICK t : t = strtok(q, buf, str)
  OBVIOUS
<1>8. WordsBefore(text, begin + 1) = r
  <2>0. p + 1 \in Nat /\ begin + 1 \in Nat /\ p + 1 <= begin + 1
    BY <1>3, <1>6
  <2>1. PICK a, b \in Nat : a = p + 1 /\ b = begin + 1 /\ a <= b
    BY <2>0
  <2>2. ASSUME NEW c \in WordStarts(text), a <= c, c < b
        PROVE  FALSE
    <3>1. PICK d \in p .. (begin - 1) : d = c - 1 /\ d + 1 = c
      <4>1. c - 1 \in p .. (begin - 1)
        BY <1>3, <1>5, <2>1, <2>2
      <4> QED
        BY <1>5, <4>1
    <3> QED
      BY <1>5, <1>6, <3>1
  <2>3. WordsBefore(text, a) = WordsBefore(text, b)
    BY <1>4, <2>1, <2>2, StartsSame
  <2> QED
    BY <1>3, <2>1, <2>3
<1>9. CASE begin = n
  <2>1. t.token = NoPointer /\ t.sp = NoPointer
    BY <1>3, <1>6, <1>7, <1>9 DEF strtok
  <2>2. {c \in WordStarts(text) : c < n + 1} = WordStarts(text)
    BY <1>5
  <2>3. r = Cardinality(WordStarts(text))
    BY <1>8, <1>9, <2>2 DEF WordsBefore
  <2> QED
    BY <1>7, <2>1, <2>3 DEF TokenOf
<1>10. CASE begin < n
  <2>0. PICK end \in Nat : EndsAt(buf, text, begin, n, end)
    BY <1>1, <1>0, <1>10, EndFound
  <2>1. /\ end \in (begin + 1) .. n
        /\ end = Scan(buf, begin, {NUL, BLANK})
        /\ \A b \in begin .. (end - 1) : text[b + 1] # BLANK
        /\ end < n => buf[end] # NUL /\ text[end + 1] = BLANK
        /\ end = n => buf[end] = NUL
    BY <2>0 DEF EndsAt
  <2>2. buf[begin] # NUL
    <3>1. begin + 1 \in 1 .. Len(text)
      BY <1>1, <1>3, <1>10
    <3> QED
      BY <1>6, <1>10, <3>1 DEF Lines
  <2>3. PICK cut, next : /\ cut = [buf EXCEPT ![end] = NUL]
                         /\ next = IF end = n THEN end ELSE end + 1
    OBVIOUS
  <2>4. t = [sp |-> next, buf |-> cut, token |-> begin]
    <3>1. buf[end] = NUL <=> end = n
      BY <2>1
    <3> QED
      BY <1>3, <1>6, <1>7, <2>1, <2>2, <2>3, <3>1 DEF strtok
  <2>5. t.sp = next /\ t.buf = cut /\ t.token = begin /\ begin # NoPointer
    BY <1>3, <2>4
  <2>6. begin + 1 \in WordStarts(text)
    <3>1. begin = 0 \/ text[begin] = BLANK
      <4>1. CASE begin = p
        BY <1>3, <1>10, <4>1
      <4>2. CASE begin # p
        <5>1. PICK b \in p .. (begin - 1) : b + 1 = begin
          <6>1. begin - 1 \in p .. (begin - 1) /\ (begin - 1) + 1 = begin
            BY <1>3, <1>6, <4>2
          <6> QED
            BY <6>1
        <5> QED
          BY <1>6, <5>1
      <4> QED
        BY <4>1, <4>2
    <3>2. begin + 1 \in 1 .. n /\ (begin + 1) - 1 = begin
      BY <1>3, <1>10
    <3> QED
      BY <1>1, <1>6, <1>10, <3>1, <3>2 DEF WordStarts
  <2>7. /\ cut[end] = NUL
        /\ \A b \in 0 .. n : b # end => cut[b] = buf[b]
    BY <1>2, <1>3, <2>1, <2>3
  <2>8. cut \in Buffers
    <3>1. NUL \in Bytes /\ LineSize # end /\ LineSize \in 0 .. LineSize
      BY <1>2, <2>1 DEF NUL, Bytes
    <3>2. buf \in [0 .. LineSize -> Bytes] /\ buf[LineSize] = NUL
      BY DEF Buffers
    <3>3. cut \in [0 .. LineSize -> Bytes] /\ cut[LineSize] = NUL
      BY <2>3, <3>1, <3>2
    <3> QED
      BY <3>3 DEF Buffers
  <2>9. CutAt(cut, text, begin, r)
    <3>1. ASSUME NEW b \in begin .. (end - 1)
          PROVE  cut[b] = text[b + 1]
      <4>1. b \in p .. (n - 1) /\ b \in 0 .. n /\ b # end
        BY <1>3, <1>6, <2>1
      <4> QED
        BY <1>3, <2>7, <4>1
    <3>2. begin \in Nat
      BY <1>3
    <3>3. Text(cut, begin) = WordAt(text, begin + 1)
      BY <1>1, <2>1, <2>7, <2>8, <3>1, <3>2, WordCut
    <3> QED
      BY <1>8, <2>6, <3>3 DEF CutAt
  <2>10. WordsBefore(text, next + 1) = r + 1
    <3>1. PICK a, b \in Nat : a = begin + 1 /\ b = next + 1 /\ a < b
      BY <1>3, <2>1, <2>3
    <3>2. ASSUME NEW c \in WordStarts(text), a < c, c < b
          PROVE  FALSE
      <4>1. CASE c <= end
        <5>1. PICK d \in begin .. (end - 1) : d + 1 = c - 1
          <6>1. c - 2 \in begin .. (end - 1) /\ (c - 2) + 1 = c - 1
            BY <1>3, <1>5, <3>1, <3>2, <4>1
          <6> QED
            BY <6>1
        <5>2. c # 1
          BY <1>3, <1>5, <3>1, <3>2
        <5> QED
          BY <1>5, <2>1, <5>1, <5>2
      <4>2. CASE ~ (c <= end)
        <5>1. end < n /\ c = end + 1
          BY <1>3, <1>5, <2>1, <2>3, <3>1, <3>2, <4>2
        <5> QED
          BY <1>5, <2>1, <5>1
      <4> QED
        BY <4>1, <4>2
    <3>3. WordsBefore(text, b) = WordsBefore(text, a) + 1
      <4>1. a \in WordStarts(text)
        BY <2>6, <3>1
      <4> QED
        BY <1>4, <3>1, <3>2, <4>1, StartsNext
    <3> QED
      BY <1>8, <3>1, <3>3
  <2>11. Uncut(cut, text, next, r + 1)
    <3>1. next \in 0 .. n /\ next >= end /\ (next = end => end = n)
      BY <1>3, <2>1, <2>3
    <3>2. ASSUME NEW b \in next .. (n - 1)
          PROVE  cut[b] = text[b + 1]
      <4>1. b \in p .. (n - 1) /\ b \in 0 .. n /\ b # end
        BY <1>3, <1>6, <2>1, <2>3, <3>1
      <4> QED
        BY <1>3, <2>7, <4>1
    <3>3. cut[n] = NUL
      BY <1>3, <2>1, <2>7
    <3>4. next = n \/ text[next] = BLANK
      BY <2>1, <2>3
    <3> QED
      BY <1>1, <2>10, <3>1, <3>2, <3>3, <3>4 DEF Uncut
  <2> QED
    BY <1>7, <2>5, <2>9, <2>11 DEF TokenOf
<1> QED
  BY <1>3, <1>6, <1>9, <1>10

-----------------------------------------------------------------------------
(***************************************************************************)
(* The parser's invariant: the history line is what readline holds, and,   *)
(* unless strtok still goes on in an earlier line, after a malloc failed,  *)
(* the arguments are the words that strtok has cut, the token is the next  *)
(* one, and strtok's pointer is null again when the line has been used up. *)
(***************************************************************************)
Arguments(text, r) ==
  [w \in 1 .. r |-> Truncated(Words(text)[w], ArgumentSize)]

LineHeld ==
  /\ line = Edited
  /\ \A b \in 0 .. (i - 1) : out[b] # NUL
  /\ pc = "entered" => out[i] = NUL

Cutting ==
  \E r \in Nat : /\ args = Arguments(line, r)
                 /\ CutAt(scommand, line, token, r)
                 /\ Uncut(scommand, line, sp, r + 1)

HasWords ==
  \E r \in 0 .. Cardinality(WordStarts(line)) :
    /\ args = Arguments(line, r)
    /\ refused = "no" => r = Cardinality(WordStarts(line))

WInv ==
  /\ LineHeld
  /\ refused # "before" =>
       /\ refused = "no" /\ pc # "malloc" => sp = NoPointer
       /\ pc \in {"loop", "key", "entered", "malloc"} => refused = "no"
       /\ pc = "malloc" => Cutting
       /\ pc = "system" => HasWords

\* The line that readline holds is one that the parser has room for.
LEMMA LineRoom ==
  ASSUME TInv, LineHeld
  PROVE  line \in Lines
<1>1. i \in Nat /\ i <= LineSize - 1 /\ LineSize \in Nat
  BY ShellAssumption DEF TInv, Offsets
<1>2. line \in Seq(Bytes) /\ Len(line) = i
  BY EditedTyped DEF LineHeld
<1>3. ASSUME NEW b \in 1 .. Len(line)
      PROVE  line[b] # NUL
  <2>1. b \in 1 .. i /\ b - 1 \in 0 .. (i - 1)
    BY <1>1, <1>2
  <2>2. line[b] = out[b - 1]
    BY <2>1 DEF LineHeld, Edited
  <2> QED
    BY <2>1, <2>2 DEF LineHeld
<1> QED
  BY <1>1, <1>2, <1>3 DEF Lines

\* The copy of the line, of which nothing has been cut.
LEMMA CopyUncut ==
  ASSUME TInv, LineHeld, pc = "entered"
  PROVE  Uncut(strncpy(scommand, out), line, 0, 0)
<1>1. LineSize \in Nat /\ i \in Nat /\ i <= LineSize - 1 /\ i \in Offsets
  BY ShellAssumption DEF TInv, Offsets
<1>2. /\ DOMAIN out = Offsets /\ DOMAIN scommand = 0 .. LineSize
      /\ line = Edited /\ out[i] = NUL
      /\ \A b \in 0 .. (i - 1) : out[b] # NUL
  BY DEF TInv, LineHeld, Buffers
<1>3. Len(line) = i /\ line \in Seq(Bytes)
  BY <1>2, EditedTyped
<1>4. Scan(out, 0, {NUL}) = i
  <2>1. PICK S : S = {b \in DOMAIN out : b >= 0 /\ out[b] \in {NUL}}
    OBVIOUS
  <2>2. i \in S /\ S \subseteq Nat
    BY <1>1, <1>2, <2>1 DEF Offsets
  <2>3. PICK m \in Nat : m = First(S)
    BY <2>2, FirstIn
  <2>4. m \in S /\ \A b \in S : m <= b
    BY <2>2, <2>3, FirstIn
  <2>5. ~ (m < i)
    <3> SUFFICES ASSUME m < i
                 PROVE  FALSE
      OBVIOUS
    <3>1. m \in 0 .. (i - 1)
      BY <1>1
    <3> QED
      BY <1>2, <2>1, <2>4, <3>1
  <2>6. m = i
    BY <1>1, <2>2, <2>3, <2>4, <2>5
  <2> QED
    BY <2>1, <2>3, <2>6 DEF Scan
<1>5. PICK copy : copy = strncpy(scommand, out)
  OBVIOUS
<1>6. copy = [b \in 0 .. LineSize |-> IF b < i THEN out[b]
                                      ELSE IF b = i THEN NUL ELSE scommand[b]]
  BY <1>2, <1>4, <1>5 DEF strncpy
<1>7. ASSUME NEW b \in 0 .. (i - 1)
      PROVE  copy[b] = line[b + 1]
  <2>1. b \in 0 .. LineSize /\ b < i /\ b + 1 \in 1 .. i /\ (b + 1) - 1 = b
    BY <1>1
  <2>2. copy[b] = out[b]
    BY <1>6, <2>1
  <2>3. line[b + 1] = out[b]
    BY <1>2, <2>1 DEF Edited
  <2> QED
    BY <2>2, <2>3
<1>8. copy[i] = NUL
  BY <1>1, <1>6
<1>9. WordsBefore(line, 0 + 1) = 0
  <2>1. {b \in WordStarts(line) : b < 0 + 1} = {}
    BY <1>3 DEF WordStarts
  <2> QED
    BY <2>1, FS_EmptySet DEF WordsBefore
<1> QED
  BY <1>1, <1>3, <1>5, <1>7, <1>8, <1>9 DEF Uncut

\* One more argument.
LEMMA ArgumentsGrow ==
  ASSUME NEW text, NEW r \in Nat
  PROVE  Append(Arguments(text, r), Truncated(Words(text)[r + 1], ArgumentSize))
           = Arguments(text, r + 1)
<1>1. PICK f : f = [w \in 1 .. (r + 1) |-> Truncated(Words(text)[w], ArgumentSize)]
  OBVIOUS
<1>2. PICK S : S = {f[w] : w \in 1 .. (r + 1)}
  OBVIOUS
<1>3. PICK x \in S : x = Truncated(Words(text)[r + 1], ArgumentSize)
  <2>1. r + 1 \in 1 .. (r + 1)
    OBVIOUS
  <2> QED
    BY <1>1, <1>2, <2>1
<1>4. PICK s \in Seq(S) : s = Arguments(text, r) /\ Len(s) = r
  <2>1. PICK g : g = Arguments(text, r)
    OBVIOUS
  <2>2. g = [w \in 1 .. r |-> f[w]]
    BY <1>1, <2>1 DEF Arguments
  <2>3. g \in [1 .. r -> S]
    BY <1>2, <2>2
  <2> QED
    BY <2>1, <2>3
<1>5. PICK t : t = Append(s, x)
  OBVIOUS
<1>6. /\ t \in Seq(S) /\ Len(t) = Len(s) + 1
      /\ \A w \in 1 .. Len(s) : t[w] = s[w]
      /\ t[Len(s) + 1] = x
  BY <1>5, AppendProperties
<1>7. t \in [1 .. (r + 1) -> S]
  BY <1>4, <1>6
<1>8. ASSUME NEW w \in 1 .. (r + 1)
      PROVE  t[w] = f[w]
  <2>1. CASE w = r + 1
    BY <1>1, <1>3, <1>4, <1>6, <2>1
  <2>2. CASE w # r + 1
    <3>1. w \in 1 .. r
      BY <2>2
    <3>2. s[w] = f[w]
      BY <1>1, <1>4, <3>1 DEF Arguments
    <3> QED
      BY <1>4, <1>6, <3>1, <3>2
  <2> QED
    BY <2>1, <2>2
<1>9. t = f
  BY <1>1, <1>7, <1>8
<1> QED
  BY <1>1, <1>3, <1>4, <1>5, <1>9 DEF Arguments

\* Every step keeps the line of the editor and of readline the same.
LEMMA LineKept ==
  ASSUME TInv, TInv', LineHeld, [Next]_vars
  PROVE  LineHeld'
<1>1. /\ i \in Nat /\ i \in Offsets /\ LineSize \in Nat
      /\ out \in [Offsets -> Bytes]
      /\ line = Edited /\ \A b \in 0 .. (i - 1) : out[b] # NUL
  BY ShellAssumption DEF TInv, Offsets, LineHeld
<1>2. ASSUME NEW b \in 0 .. (i - 1)
      PROVE  b \in Offsets /\ b # i
  BY <1>1 DEF Offsets
<1>3. CASE \/ UNCHANGED vars \/ SessionEnds \/ ShowCursor
           \/ KeyBackspaceAtStart
           \/ ParseBegins \/ ParseToken \/ ParseRefused
           \/ SystemFails \/ CommandDone
           \/ \E n \in Numbers, clear \in BOOLEAN : SystemRuns(n, clear)
  <2>1. /\ i' = i /\ out' = out /\ line' = line
        /\ pc' = "entered" => pc = "entered"
    BY <1>3 DEF vars, SessionEnds, ShowCursor, KeyBackspaceAtStart,
                ParseBegins, ParseToken, ParseRefused, SystemFails,
                CommandDone, SystemRuns, readline, history
  <2>2. Edited' = Edited
    BY <2>1, EditedStays
  <2>3. pc' = "entered" => out'[i'] = NUL
    BY <2>1 DEF LineHeld
  <2> QED
    BY <1>1, <2>1, <2>2, <2>3 DEF LineHeld
<1>4. CASE ShowPrompt
  <2>1. i' = 0 /\ line' = << >> /\ pc' = "loop"
    BY <1>4 DEF ShowPrompt
  <2>2. Edited' = << >>
    BY <2>1 DEF Edited
  <2>3. \A b \in 0 .. (i' - 1) : FALSE
    BY <2>1
  <2> QED
    BY <2>1, <2>2, <2>3 DEF LineHeld
<1>5. CASE LineFull \/ KeyEnter
  <2>1. /\ i' = i /\ line' = line /\ out' = [out EXCEPT ![i] = NUL]
    BY <1>5 DEF LineFull, KeyEnter, history
  <2>2. Edited' = Edited
    BY <2>1, EditedStays
  <2>3. out'[i'] = NUL
    BY <1>1, <2>1
  <2>4. \A b \in 0 .. (i - 1) : out'[b] # NUL
    BY <1>1, <1>2, <2>1
  <2> QED
    BY <1>1, <2>1, <2>2, <2>3, <2>4 DEF LineHeld
<1>6. CASE KeyBackspace
  <2>1. /\ i' = i - 1 /\ i >= 1 /\ line' = SubSeq(line, 1, Len(line) - 1)
        /\ out' = [out EXCEPT ![i - 1] = NUL] /\ pc' = "loop"
    BY <1>6 DEF KeyBackspace
  <2>2. Edited' = SubSeq(Edited, 1, Len(Edited) - 1)
    BY <1>6, EditedShrinks
  <2>3. ASSUME NEW b \in 0 .. (i' - 1)
        PROVE  out'[b] # NUL
    <3>1. b \in 0 .. (i - 1) /\ b # i - 1 /\ b \in Offsets
      BY <1>1, <2>1 DEF Offsets
    <3> QED
      BY <1>1, <2>1, <3>1
  <2> QED
    BY <1>1, <2>1, <2>2, <2>3 DEF LineHeld
<1>7. ASSUME NEW k \in Keys, Key(k)
      PROVE  LineHeld'
  <2>1. /\ i' = i + 1 /\ line' = Append(line, k)
        /\ out' = [out EXCEPT ![i] = k] /\ pc' = "loop"
    BY <1>7 DEF Key
  <2>2. Edited' = Append(Edited, k)
    BY <1>7, EditedGrows
  <2>3. k # NUL
    BY ShellAssumption DEF NUL
  <2>4. ASSUME NEW b \in 0 .. (i' - 1)
        PROVE  out'[b] # NUL
    <3>1. CASE b = i
      BY <1>1, <2>1, <2>3, <3>1
    <3>2. CASE b # i
      <4>1. b \in 0 .. (i - 1)
        BY <1>1, <2>1, <3>2
      <4> QED
        BY <1>1, <1>2, <2>1, <4>1
    <3> QED
      BY <3>1, <3>2
  <2> QED
    BY <1>1, <2>1, <2>2, <2>4 DEF LineHeld
<1> QED
  BY <1>3, <1>4, <1>5, <1>6, <1>7 DEF Next

\* The first call of strtok for a line.
LEMMA FirstCut ==
  ASSUME TInv, WInv, LineHeld', ParseBegins
  PROVE  WInv'
<1> SUFFICES ASSUME refused' # "before"
             PROVE  WInv'
  BY DEF WInv
<1>1. refused = "no" /\ refused' = "no" /\ sp = NoPointer /\ line' = line
      /\ LineHeld /\ pc = "entered"
  BY DEF ParseBegins, history, WInv
<1>2. line \in Lines
  BY <1>1, LineRoom
<1>3. PICK copy \in Buffers : copy = strncpy(scommand, out)
  <2>1. /\ scommand \in Buffers /\ out \in [Offsets -> Bytes]
        /\ \E b \in Offsets : out[b] = NUL
    BY <1>1 DEF TInv
  <2>2. strncpy(scommand, out) \in Buffers
    BY <2>1, CopyTyped
  <2> QED
    BY <2>2
<1>4. Uncut(copy, line, 0, 0)
  BY <1>1, <1>3, CopyUncut
<1>5. PICK t : t = strtok(sp, copy, 0)
  OBVIOUS
<1>6. TokenOf(t, line, 0)
  BY <1>1, <1>2, <1>3, <1>4, <1>5, NextToken
<1>7. /\ sp' = t.sp /\ scommand' = t.buf /\ token' = t.token /\ args' = << >>
      /\ pc' = IF t.token = NoPointer THEN "done" ELSE "malloc"
  BY <1>3, <1>5 DEF ParseBegins
<1>8. CASE t.token = NoPointer
  BY <1>1, <1>6, <1>7, <1>8 DEF TokenOf, WInv
<1>9. CASE t.token # NoPointer
  <2>1. args' = Arguments(line, 0)
    BY <1>7 DEF Arguments
  <2>2. CutAt(scommand', line', token', 0) /\ Uncut(scommand', line', sp', 0 + 1)
    BY <1>1, <1>6, <1>7, <1>9 DEF TokenOf
  <2>3. args' = Arguments(line', 0)
    BY <1>1, <2>1
  <2>4. Cutting'
    BY <2>2, <2>3 DEF Cutting
  <2> QED
    BY <1>1, <1>7, <1>9, <2>4 DEF WInv
<1> QED
  BY <1>8, <1>9

\* The word of the token, and the next call of strtok.
LEMMA NextCut ==
  ASSUME TInv, WInv, LineHeld', ParseToken
  PROVE  WInv'
<1> SUFFICES ASSUME refused' # "before"
             PROVE  WInv'
  BY DEF WInv
<1>1. refused = "no" /\ refused' = "no" /\ line' = line
      /\ LineHeld /\ pc = "malloc" /\ Cutting
  BY DEF ParseToken, history, WInv
<1>2. line \in Lines /\ scommand \in Buffers /\ line \in Seq(Bytes)
  BY <1>1, LineRoom DEF TInv, Lines
<1>3. PICK r \in Nat : /\ args = Arguments(line, r)
                       /\ CutAt(scommand, line, token, r)
                       /\ Uncut(scommand, line, sp, r + 1)
  BY <1>1 DEF Cutting
<1>4. PICK n \in Nat : n = r + 1
  OBVIOUS
<1>5. Words(line)[n] = Text(scommand, token)
  <2>1. PICK a \in WordStarts(line) : a = token + 1
    BY <1>3 DEF CutAt
  <2>2. WordsBefore(line, a) = r /\ Text(scommand, token) = WordAt(line, a)
    BY <1>3, <2>1 DEF CutAt
  <2>3. Words(line)[WordsBefore(line, a) + 1] = WordAt(line, a)
    BY <1>2, WordNumbered
  <2> QED
    BY <1>4, <2>2, <2>3
<1>6. PICK t : t = strtok(sp, scommand, NoPointer)
  OBVIOUS
<1>7. TokenOf(t, line, n)
  <2>1. sp = IF sp = NoPointer THEN NoPointer ELSE sp
    OBVIOUS
  <2>2. Uncut(scommand, line, sp, n)
    BY <1>3, <1>4
  <2> QED
    BY <1>2, <1>6, <2>1, <2>2, NextToken
<1>8. /\ sp' = t.sp /\ scommand' = t.buf /\ token' = t.token
      /\ args' = Append(args, Truncated(Text(scommand, token), ArgumentSize))
      /\ pc' = IF t.token = NoPointer THEN "system" ELSE "malloc"
  BY <1>6 DEF ParseToken
<1>9. args' = Arguments(line', n)
  BY <1>1, <1>3, <1>4, <1>5, <1>8, ArgumentsGrow
<1>10. CASE t.token = NoPointer
  <2>1. sp' = NoPointer /\ n = Cardinality(WordStarts(line'))
    BY <1>1, <1>7, <1>8, <1>10 DEF TokenOf
  <2>2. n \in 0 .. Cardinality(WordStarts(line'))
    BY <1>4, <2>1
  <2>3. HasWords'
    BY <1>9, <2>1, <2>2 DEF HasWords
  <2> QED
    BY <1>1, <1>8, <1>10, <2>1, <2>3 DEF WInv
<1>11. CASE t.token # NoPointer
  <2>1. CutAt(scommand', line', token', n) /\ Uncut(scommand', line', sp', n + 1)
    BY <1>1, <1>7, <1>8, <1>11 DEF TokenOf
  <2>2. Cutting'
    BY <1>9, <2>1 DEF Cutting
  <2> QED
    BY <1>1, <1>8, <1>11, <2>2 DEF WInv
<1> QED
  BY <1>10, <1>11

\* A malloc that fails leaves the words so far.
LEMMA CutStops ==
  ASSUME TInv, WInv, LineHeld', ParseRefused
  PROVE  WInv'
<1> SUFFICES ASSUME refused' # "before"
             PROVE  WInv'
  BY DEF WInv
<1>1. /\ refused' = "now" /\ refused = "no" /\ Cutting /\ LineHeld
      /\ pc' \in {"done", "system"} /\ UNCHANGED <<line, args>>
  BY DEF ParseRefused, parser, WInv
<1>2. line \in Seq(Bytes)
  BY <1>1, LineRoom DEF Lines
<1>3. PICK r \in Nat : args = Arguments(line, r) /\ CutAt(scommand, line, token, r)
  BY <1>1 DEF Cutting
<1>4. r \in 0 .. Cardinality(WordStarts(line))
  <2>1. PICK a \in WordStarts(line) : a = token + 1
    BY <1>3 DEF CutAt
  <2>2. a \in Nat /\ WordsBefore(line, a) = r
    BY <1>2, <1>3, <2>1 DEF CutAt, WordStarts
  <2>3. /\ Cardinality(WordStarts(line)) \in Nat
        /\ WordsBefore(line, a) <= Cardinality(WordStarts(line))
    BY <1>2, <2>2, StartsCounted
  <2> QED
    BY <2>2, <2>3
<1>5. HasWords'
  BY <1>1, <1>3, <1>4 DEF HasWords
<1> QED
  BY <1>1, <1>5 DEF WInv

LEMMA NextWords ==
  ASSUME TInv, TInv', WInv, [Next]_vars
  PROVE  WInv'
<1>1. LineHeld'
  BY LineKept DEF WInv
<1>2. CASE ParseBegins \/ ParseToken \/ ParseRefused
  BY <1>1, <1>2, FirstCut, NextCut, CutStops
<1>3. CASE ShowPrompt
  <2>1. /\ pc' = "loop" /\ sp' = sp
        /\ refused' # "before" => token = NoPointer /\ refused' = "no"
    BY <1>3 DEF ShowPrompt, parser
  <2>2. token = NoPointer => sp = NoPointer
    BY DEF TInv
  <2> QED
    BY <1>1, <2>1, <2>2 DEF WInv
<1>4. CASE UNCHANGED vars \/ SessionEnds
  <2>1. UNCHANGED <<pc, readline, parser, history>>
    BY <1>4 DEF SessionEnds, vars
  <2> QED
    BY <1>1, <2>1 DEF WInv, Cutting, HasWords, readline, parser, history
<1>5. CASE \/ ShowCursor \/ LineFull \/ KeyEnter \/ KeyBackspaceAtStart
           \/ KeyBackspace \/ \E k \in Keys : Key(k)
  <2>1. /\ UNCHANGED <<sp, refused>>
        /\ pc \in {"loop", "key"} /\ pc' \in {"loop", "key", "entered"}
    BY <1>5 DEF ShowCursor, LineFull, KeyEnter, KeyBackspaceAtStart,
                KeyBackspace, Key, parser, history
  <2> QED
    BY <1>1, <2>1 DEF WInv
<1>6. CASE \/ SystemFails \/ CommandDone
           \/ \E n \in Numbers, clear \in BOOLEAN : SystemRuns(n, clear)
  <2>1. /\ UNCHANGED <<sp, refused>>
        /\ pc \in {"system", "done"} /\ pc' \in {"done", "prompt"}
    BY <1>6 DEF SystemFails, CommandDone, SystemRuns, parser, history
  <2> QED
    BY <1>1, <2>1 DEF WInv
<1> QED
  BY <1>2, <1>3, <1>4, <1>5, <1>6 DEF Next

LEMMA WordsAre ==
  ASSUME TInv, WInv
  PROVE  ArgumentsAreWords
<1> SUFFICES ASSUME pc \in {"malloc", "system"}, refused # "before"
             PROVE  LET words == [w \in DOMAIN Words(line) |->
                                   Truncated(Words(line)[w], ArgumentSize)]
                    IN  args = IF pc = "system" /\ refused = "no"
                                 THEN words ELSE SubSeq(words, 1, Len(args))
  BY DEF ArgumentsAreWords
<1> DEFINE words == [w \in DOMAIN Words(line) |->
                       Truncated(Words(line)[w], ArgumentSize)]
<1>1. line \in Seq(Bytes)
  BY LineRoom DEF WInv, Lines
<1>2. PICK n \in Nat : n = Cardinality(WordStarts(line))
  BY <1>1, StartsCounted
<1>3. words = Arguments(line, n)
  BY <1>2 DEF Words, Arguments
<1>4. \E r \in 0 .. n : /\ args = Arguments(line, r)
                        /\ pc = "system" /\ refused = "no" => r = n
  <2>1. CASE pc = "system"
    BY <1>2, <2>1 DEF WInv, HasWords
  <2>2. CASE pc = "malloc"
    <3>1. PICK r \in Nat : /\ args = Arguments(line, r)
                           /\ CutAt(scommand, line, token, r)
      BY <2>2 DEF WInv, Cutting
    <3>2. PICK a \in WordStarts(line) : a = token + 1
      BY <3>1 DEF CutAt
    <3>3. a \in Nat /\ WordsBefore(line, a) = r
      BY <1>1, <3>1, <3>2 DEF CutAt, WordStarts
    <3>4. WordsBefore(line, a) <= n
      BY <1>1, <1>2, <3>3, StartsCounted
    <3> QED
      BY <2>2, <3>1, <3>3, <3>4
  <2> QED
    BY <2>1, <2>2
<1>5. PICK r \in 0 .. n : /\ args = Arguments(line, r)
                          /\ pc = "system" /\ refused = "no" => r = n
  BY <1>4
<1>6. SubSeq(words, 1, Len(args)) = args
  <2>1. Len(args) = r
    BY <1>5 DEF Arguments
  <2>2. PICK s : s = words
    OBVIOUS
  <2>3. PICK S : S = {s[w] : w \in 1 .. n}
    OBVIOUS
  <2>4. \A w \in 1 .. r : s[w] \in S /\ s[w] = args[w]
    BY <1>3, <1>5, <2>2, <2>3 DEF Arguments
  <2>5. PICK t : t = SubSeq(s, 1, r)
    OBVIOUS
  <2>6. /\ t \in Seq(S) /\ Len(t) = IF 1 <= r THEN r - 1 + 1 ELSE 0
        /\ \A w \in 1 .. (r - 1 + 1) : t[w] = s[1 + w - 1]
    BY <2>4, <2>5, SubSeqProperties
  <2>7. t \in [1 .. r -> S] /\ \A w \in 1 .. r : t[w] = s[w]
    BY <2>6
  <2>8. args = [w \in 1 .. r |-> args[w]]
    BY <1>5 DEF Arguments
  <2>9. t = args
    BY <2>4, <2>7, <2>8
  <2> QED
    BY <2>1, <2>2, <2>5, <2>9
<1> QED
  BY <1>3, <1>5, <1>6

(***************************************************************************)
(* The command that the kernel is asked to run has the words of the line   *)
(* that the user edited as its arguments, for lines, arguments and keys of *)
(* any kind: strtok, which keeps a pointer from call to call and over the  *)
(* lines, loses none, repeats none and takes none from an earlier line.  A *)
(* malloc that fails leaves the pointer in its line, and the lines until   *)
(* strtok comes to the end of a text are left out; whatever was cut in     *)
(* between, commands have the words of their lines again after that.       *)
(***************************************************************************)
THEOREM CommandsHaveTheWords ==
  ASSUME PrintsBytes
  PROVE  Spec => []ArgumentsAreWords
<1>1. Init => WInv
  <2> SUFFICES ASSUME Init
               PROVE  WInv
    OBVIOUS
  <2>1. i = 0 /\ line = << >> /\ pc = "prompt" /\ sp = NoPointer
    BY DEF Init
  <2>2. Edited = << >> /\ \A b \in 0 .. (i - 1) : FALSE
    BY <2>1 DEF Edited
  <2> QED
    BY <2>1, <2>2 DEF WInv, LineHeld
<1>2. TInv /\ TInv' /\ WInv /\ [Next]_vars => WInv'
  BY NextWords
<1>3. TInv /\ WInv => ArgumentsAreWords
  BY WordsAre
<1> QED
  BY <1>1, <1>2, <1>3, ShellInductive, PTL DEF Spec

-----------------------------------------------------------------------------
\* Characters that are not control characters stand where the cursor was,
\* one after the other, and the cursor behind them.
Shows(u, p, text, n) ==
  /\ u \in Term /\ Position(u) = p + n
  /\ \A b \in 1 .. n :
       p + b - 1 \in Cells =>
         u.cells[p + b - 1] = terminal_make_char(text[b], White)

LEMMA PrintShows ==
  ASSUME NEW t \in Term, NEW text \in Seq(Bytes),
         \A b \in 1 .. Len(text) : text[b] \notin {NEWLINE, TAB, BACKSPACE}
  PROVE  Shows(print(t, text), Position(t), text, Len(text))
<1>1. PICK n \in Nat : n = Len(text)
  OBVIOUS
<1>2. PICK p \in Nat : p = Position(t)
  BY PositionTyped
<1>3. PICK f : Prints(t, text, f)
  BY PrintRuns
<1> DEFINE T == {k \in 0 .. n : Shows(f[k], p, text, k)}
<1>4. 0 \in T
  BY <1>1, <1>2, <1>3 DEF Prints, Shows
<1>5. ASSUME NEW k \in 1 .. n, k - 1 \in T
      PROVE  k \in T
  <2>1. PICK l \in 0 .. n : l = k - 1 /\ Shows(f[l], p, text, l)
    BY <1>5
  <2>2. PICK u \in Term : u = f[l]
    BY <2>1 DEF Shows
  <2>3. PICK c \in Bytes : c = text[k] /\ c \notin {NEWLINE, TAB, BACKSPACE}
    BY <1>1
  <2>4. PICK v : v = f[k]
    OBVIOUS
  <2>5. v = WriteGlyph(u, c, White)
    BY <1>1, <1>3, <2>1, <2>2, <2>3, <2>4, WriteIs DEF Prints
  <2>6. PICK q \in Nat : q = Position(u) /\ q = p + l
    BY <2>1, <2>2 DEF Shows
  <2>7. /\ v \in Term /\ Position(v) = q + 1
        /\ \A b \in Cells : b # q => v.cells[b] = u.cells[b]
        /\ q \in Cells => v.cells[q] = terminal_make_char(c, White)
    <3>1. /\ v \in Term
          /\ Position(v) = Position(u) + 1
          /\ Writes(u, v, Position(u))
          /\ Position(u) \in Cells =>
               v.cells[Position(u)] = terminal_make_char(c, White)
      BY <2>5, GlyphWrites
    <3> QED
      BY <2>6, <3>1 DEF Writes
  <2>8. ASSUME NEW b \in 1 .. k, p + b - 1 \in Cells
        PROVE  v.cells[p + b - 1] = terminal_make_char(text[b], White)
    <3>1. CASE b = k
      <4>1. p + b - 1 = q
        BY <2>1, <2>6, <3>1
      <4> QED
        BY <2>3, <2>7, <2>8, <3>1, <4>1
    <3>2. CASE b # k
      <4>1. b \in 1 .. l /\ p + b - 1 # q
        BY <2>1, <2>6, <3>2
      <4>2. u.cells[p + b - 1] = terminal_make_char(text[b], White)
        BY <2>1, <2>2, <2>8, <4>1 DEF Shows
      <4> QED
        BY <2>7, <2>8, <4>1, <4>2
    <3> QED
      BY <3>1, <3>2
  <2> QED
    BY <2>1, <2>4, <2>6, <2>7, <2>8 DEF Shows
<1>6. Shows(f[n], p, text, n)
  <2> HIDE DEF T
  <2>1. \A k \in 0 .. n : k \in T
    BY <1>4, <1>5, TurnByTurn
  <2>2. n \in T
    BY <2>1
  <2> QED
    BY <2>2 DEF T
<1> QED
  BY <1>1, <1>2, <1>3, <1>6 DEF Prints

\* The character in a cell.
LEMMA CharOfGlyph ==
  ASSUME NEW c \in Bytes
  PROVE  terminal_make_char(c, White) % 256 = c
<1>1. PICK d \in Int : d = c /\ 0 <= d /\ d <= 255
  BY DEF Bytes
<1>2. terminal_make_char(c, White) = 65280 + d \/ terminal_make_char(c, White) = 3840 + d
  BY <1>1 DEF terminal_make_char, White
<1>3. (65280 + d) % 256 = d /\ (3840 + d) % 256 = d
  BY <1>1
<1> QED
  BY <1>1, <1>2, <1>3

\* What is on the terminal is the text that was printed.
TextAt(t, a, n) == [b \in 1 .. n |-> t.cells[a + b - 1] % 256]

LEMMA TextPrinted ==
  ASSUME NEW t \in Term, NEW text \in Seq(Figures), NEW u,
         u = print(t, text), u.row < MaxRows
  PROVE  TextAt(u, Position(t), Position(u) - Position(t)) = text
<1>1. PICK n \in Nat : n = Len(text)
  OBVIOUS
<1>2. PICK p \in Nat : p = Position(t)
  BY PositionTyped
<1>3. PICK s \in Seq(Bytes) : /\ s = text /\ Len(s) = n
                              /\ \A b \in 1 .. n : /\ s[b] \in Bytes
                                                   /\ s[b] \notin {NEWLINE, TAB, BACKSPACE}
  <2>1. \A b \in 1 .. n : text[b] \in Bytes /\ text[b] \notin {NEWLINE, TAB, BACKSPACE}
    BY <1>1, FiguresAreBytes
  <2>2. text \in [1 .. n -> Bytes]
    BY <1>1, <2>1
  <2>3. text \in Seq(Bytes)
    BY <2>2
  <2> QED
    BY <1>1, <2>1, <2>3
<1>4. Shows(u, p, s, n)
  BY <1>2, <1>3, PrintShows
<1>5. PICK q \in Nat : q = Position(u) /\ q = p + n /\ q \in Cells
  BY <1>4, PositionTyped DEF Shows
<1>6. ASSUME NEW b \in 1 .. n
      PROVE  u.cells[p + b - 1] % 256 = s[b]
  <2>1. PICK a \in Nat : a = p + b - 1 /\ a <= q
    BY <1>5
  <2>2. a \in Cells
    BY <1>5, <2>1, CellsBelow
  <2>3. u.cells[a] = terminal_make_char(s[b], White)
    BY <1>4, <2>1, <2>2 DEF Shows
  <2> QED
    BY <1>3, <2>1, <2>3, CharOfGlyph
<1>7. Position(u) - Position(t) = n
  BY <1>2, <1>5
<1>8. s = [b \in 1 .. n |-> s[b]]
  BY <1>3
<1> QED
  BY <1>2, <1>3, <1>6, <1>7, <1>8 DEF TextAt

(***************************************************************************)
(* Only a command that printed a number has one to show, from the step     *)
(* that prints it on until the next prompt.                                *)
(***************************************************************************)
NInv ==
  /\ pc \in {"loop", "key", "entered", "malloc", "system"} => shown = NoNumber
  /\ NumberShown

LEMMA NumberPrinted ==
  ASSUME TInv, InMemory', NEW n \in Numbers, NEW clear \in BOOLEAN,
         SystemRuns(n, clear)
  PROVE  NInv'
<1>1. n \in Int
  BY ShellAssumption
<1>2. PICK t \in Term : t = IF clear THEN terminal_initialize(term) ELSE term
  BY InitializeTyped DEF TInv, Term
<1>3. PICK text \in Seq(Figures) : text = itoa(n, TextSize)
  BY <1>1, ItoaPrints
<1>4. PICK copy :
        /\ term' = print(t, copy)
        /\ shown' = IF copy = text THEN [number |-> n, at |-> Position(t)]
                                   ELSE NoNumber
  BY <1>1, <1>2, <1>3, PrintfNumber DEF SystemRuns
<1>5. CASE copy # text
  BY <1>4, <1>5 DEF SystemRuns, NInv, NumberShown
<1> SUFFICES ASSUME copy = text
             PROVE  NInv'
  BY <1>5
<1>6. TextAt(term', Position(t), Position(term') - Position(t)) = text
  BY <1>4, TextPrinted DEF InMemory
<1>7. Fits(n) => IsDecimal(text, n)
  BY <1>1, <1>3, ItoaPrints
<1>8. /\ shown'.number = n /\ shown'.at = Position(t)
      /\ pc' = "done"
  BY <1>4 DEF SystemRuns
<1>9. NumberShown'
  <2> SUFFICES ASSUME Fits(n)
               PROVE  IsDecimal(TextAt(term', Position(t), Position(term') - Position(t)), n)
    BY <1>8, Zenon DEF NumberShown, Fits, TextAt
  <2> QED
    BY <1>6, <1>7
<1> QED
  BY <1>8, <1>9 DEF NInv

LEMMA NumberStays ==
  ASSUME TInv, InMemory', NInv, [Next]_vars
  PROVE  NInv'
<1>1. CASE UNCHANGED vars \/ SessionEnds
  <2>1. UNCHANGED <<pc, term, shown>>
    BY <1>1 DEF SessionEnds, vars, history
  <2> QED
    BY <2>1 DEF NInv, NumberShown
<1>2. ASSUME NEW n \in Numbers, NEW clear \in BOOLEAN, SystemRuns(n, clear)
      PROVE  NInv'
  BY <1>2, NumberPrinted
<1>3. CASE ShowPrompt
  BY <1>3 DEF ShowPrompt, NInv, NumberShown
<1>4. CASE CommandDone
  BY <1>4 DEF CommandDone, NInv, NumberShown
<1>5. CASE \/ ShowCursor \/ LineFull \/ KeyEnter
           \/ KeyBackspaceAtStart \/ KeyBackspace \/ \E k \in Keys : Key(k)
           \/ ParseBegins \/ ParseToken \/ ParseRefused \/ SystemFails
  <2>1. pc \in {"loop", "key", "entered", "malloc", "system"} /\ shown' = shown
    BY <1>5 DEF ShowCursor, LineFull, KeyEnter, KeyBackspaceAtStart,
                KeyBackspace, Key, ParseBegins, ParseToken, ParseRefused,
                SystemFails, history
  <2>2. shown' = NoNumber
    BY <2>1 DEF NInv
  <2> QED
    BY <2>2 DEF NInv, NumberShown
<1> QED
  BY <1>1, <1>2, <1>3, <1>4, <1>5 DEF Next

(***************************************************************************)
(* The number that a program prints with printf("%i") is on the terminal   *)
(* in decimal, before the cursor: for any number but zero that leaves the  *)
(* text of itoa the room it needs, on a screen of any width, wherever the  *)
(* cursor was, over the ends of rows, and on a cleared screen, unless call *)
(* 1 had no memory for the text.                                           *)
(***************************************************************************)
THEOREM NumbersAreShown ==
  ASSUME PrintsBytes
  PROVE  Spec /\ []InMemory => []NumberShown
<1>1. Init => NInv
  BY DEF Init, NInv, NumberShown
<1>2. TInv /\ InMemory' /\ NInv /\ [Next]_vars => NInv'
  BY NumberStays
<1>3. NInv => NumberShown
  BY DEF NInv
<1> QED
  BY <1>1, <1>2, <1>3, ShellInductive, PTL DEF Spec

=============================================================================
