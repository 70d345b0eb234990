-------------------------------- MODULE Shell --------------------------------
(***************************************************************************)
(* The shell (programs/shell) over the user library: it shows a prompt,    *)
(* reads a line with boios_terminal_readline, which echoes the keys on the *)
(* terminal, cuts the line into arguments with boios_parse_command, which  *)
(* allocates a struct for each, and has the kernel run the command.        *)
(*                                                                         *)
(* The keys come from the queue of module Keyboard: any key may be next.   *)
(* Programs that the shell starts are those of module Process: the shell   *)
(* goes on when they have ended.  What they leave on the screen is some    *)
(* number, printed, and perhaps they cleared the screen before.            *)
(***************************************************************************)
EXTENDS Terminal, UserLibrary

CONSTANTS
  Keys,             \* the characters that are typed, besides the two below
  Banner,           \* "boios v0.0.1\n"
  cwd,              \* the working directory, as the shell sets it
  PromptFormat,     \* "%s >> "
  LineSize,         \* the size of the buffers for a line, 1024 in the code
  ArgumentSize,     \* the size of command_argument.argument
  MaxAllocations,   \* BOIOS_MAX_PROGRAM_ALLOCATIONS
  Numbers,          \* what programs print
  TextSize,         \* the size of the text of itoa
  NoNumber,
  Leftovers,        \* texts that a buffer of the kernel's stack may hold
  MaxTurns,         \* bound: the lines that are typed in a session
  MaxTabs,          \* bound: the tabs that are typed in a line
  MaxMisprints      \* bound: the texts that are printed wrong in a session

ASSUME ShellAssumption ==
  /\ Keys \subseteq (1 .. 255) \ {BACKSPACE, NEWLINE, 13}
  /\ LineSize \in Nat /\ LineSize > 1
  /\ ArgumentSize \in Nat \ {0}
  /\ MaxAllocations \in Nat
  /\ Numbers \subseteq Int /\ NoNumber \notin Numbers
  /\ TextSize \in Nat /\ TextSize > 3
  /\ MaxTurns \in Nat /\ MaxTabs \in Nat /\ MaxMisprints \in Nat

VARIABLES
  term,       \* the terminal
  pc,         \* where the shell is
  i, out,     \* of boios_terminal_readline
  sp,         \* the static of strtok
  scommand,   \* of boios_parse_command: the same stack bytes at every call
  token,      \* the token for which memory is being asked
  args,       \* the list of struct command_argument
  used,       \* allocations of the shell: no struct is ever freed
  line,       \* history: the line, as the user edited it
  start,      \* history: where the line starts on the terminal
  tabs,       \* history: the tabs typed in this line
  refused,    \* history: whether a malloc failed, in this line (now) or in a
              \* line before, since strtok last came to the end of a text
  shown,      \* history: the number the last command printed, and where
  turns,      \* history: the lines so far
  misprints   \* history: the texts that were printed wrong so far

readline == <<i, out>>
parser   == <<sp, scommand, token, args, used>>
history  == <<line, start, tabs, refused, shown, turns, misprints>>
vars     == <<term, pc, readline, parser, history>>

Cursor == 179

putchar(t, c) == terminal_writechar(t, c, White)

Offsets == 0 .. (LineSize - 1)

(***************************************************************************)
(* Call 1 copies the text into a buffer on its stack.  When there is no    *)
(* memory for that, it prints what the buffer held.                        *)
(***************************************************************************)
Copies(text, copy) ==
  \/ copy = text /\ UNCHANGED misprints
  \/ /\ misprints < MaxMisprints
     /\ copy \in Leftovers
     /\ misprints' = misprints + 1

-----------------------------------------------------------------------------
\* After shell_init, which shows pictures and clears the screen at its end.
Init ==
  /\ \E copy \in {Banner} \cup Leftovers :
       /\ term = print(terminal_initialize([cells |-> [a \in Cells |-> 0]]), copy)
       /\ misprints = IF copy = Banner THEN 0 ELSE 1
  /\ misprints <= MaxMisprints
  /\ pc = "prompt"
  /\ i = 0
  /\ out = [b \in Offsets |-> NUL]
  /\ sp = NoPointer
  /\ scommand = [b \in 0 .. LineSize |-> NUL]
  /\ token = NoPointer
  /\ args = <<>>
  /\ used = 0
  /\ line = <<>>
  /\ start = 0
  /\ tabs = 0
  /\ refused = "no"
  /\ shown = NoNumber
  /\ turns = 0

\* The prompt, of which call 1 prints the directory, and the call of
\* boios_terminal_readline.
ShowPrompt ==
  /\ pc = "prompt"
  /\ turns < MaxTurns
  /\ turns' = turns + 1
  /\ \E copy \in {cwd} \cup Leftovers :
       /\ Copies(cwd, copy)
       /\ term' = print(term, printf(PromptFormat, <<copy>>, TextSize))
  /\ pc' = "loop"
  /\ i' = 0
  /\ line' = <<>>
  /\ start' = Position(term')
  /\ tabs' = 0
  /\ refused' = IF token = NoPointer THEN "no" ELSE "before"
  /\ shown' = NoNumber
  /\ UNCHANGED <<out, parser>>

\* The bound of the model: the user types no more lines.
SessionEnds == pc = "prompt" /\ turns = MaxTurns /\ UNCHANGED vars

\* The loop of boios_terminal_readline: the cursor, and then a key.
ShowCursor ==
  /\ pc = "loop"
  /\ i < LineSize - 1
  /\ term' = putchar(term, Cursor)
  /\ pc' = "key"
  /\ UNCHANGED <<readline, parser, history>>

LineFull ==
  /\ pc = "loop"
  /\ i >= LineSize - 1
  /\ out' = [out EXCEPT ![i] = NUL]
  /\ pc' = "entered"
  /\ UNCHANGED <<term, i, parser, history>>

\* Enter: the cursor stays on the screen.
KeyEnter ==
  /\ pc = "key"
  /\ out' = [out EXCEPT ![i] = NUL]
  /\ pc' = "entered"
  /\ UNCHANGED <<term, i, parser, history>>

\* Mutant of KeyBackspaceAtStart: the backspace is echoed all the same.
KeyBackspaceAtStart_echoed ==
  /\ pc = "key"
  /\ i = 0
  /\ term' = putchar(putchar(term, BACKSPACE), BACKSPACE)
  /\ pc' = "loop"
  /\ UNCHANGED <<readline, parser, history>>

\* Backspace in an empty line takes only the cursor away.
KeyBackspaceAtStart ==
  /\ pc = "key"
  /\ i = 0
  /\ term' = putchar(term, BACKSPACE)
  /\ pc' = "loop"
  /\ UNCHANGED <<readline, parser, history>>

\* Mutant of KeyBackspace: i goes back by one too few.
KeyBackspace_short ==
  /\ pc = "key"
  /\ i >= 1
  /\ term' = putchar(putchar(term, BACKSPACE), BACKSPACE)
  /\ out' = [out EXCEPT ![i - 1] = NUL]
  /\ line' = SubSeq(line, 1, Len(line) - 1)
  /\ pc' = "loop"
  /\ UNCHANGED <<i, parser, start, tabs, refused, shown, turns, misprints>>

\* Backspace takes the cursor and the last character away.
KeyBackspace ==
  /\ pc = "key"
  /\ i >= 1
  /\ term' = putchar(putchar(term, BACKSPACE), BACKSPACE)
  /\ out' = [out EXCEPT ![i - 1] = NUL]
  /\ i' = i - 1
  /\ line' = SubSeq(line, 1, Len(line) - 1)
  /\ pc' = "loop"
  /\ UNCHANGED <<parser, start, tabs, refused, shown, turns, misprints>>

\* Any other key replaces the cursor.
Key(k) ==
  /\ pc = "key"
  /\ k = TAB => tabs < MaxTabs
  /\ term' = putchar(putchar(term, BACKSPACE), k)
  /\ out' = [out EXCEPT ![i] = k]
  /\ i' = i + 1
  /\ line' = Append(line, k)
  /\ tabs' = IF k = TAB THEN tabs + 1 ELSE tabs
  /\ pc' = "loop"
  /\ UNCHANGED <<parser, start, refused, shown, turns, misprints>>

-----------------------------------------------------------------------------
(***************************************************************************)
(* The shell prints a newline and calls boios_system_run, which copies the *)
(* line, and then boios_parse_command, which copies it again and asks for  *)
(* the first token.  Without one the command is not run.                   *)
(***************************************************************************)
ParseBegins ==
  /\ pc = "entered"
  /\ \E r \in {strtok(sp, strncpy(scommand, out), 0)} :
       /\ sp' = r.sp
       /\ scommand' = r.buf
       /\ token' = r.token
       /\ pc' = IF r.token = NoPointer THEN "done" ELSE "malloc"
  /\ \E copy \in {<<NEWLINE>>} \cup Leftovers :
       Copies(<<NEWLINE>>, copy) /\ term' = print(term, copy)
  /\ args' = <<>>
  /\ UNCHANGED <<readline, used, line, start, tabs, refused, shown, turns>>

\* boios_malloc gives a struct for the token; then the next token.
ParseToken ==
  /\ pc = "malloc"
  /\ used < MaxAllocations
  /\ used' = used + 1
  /\ args' = Append(args, Truncated(Text(scommand, token), ArgumentSize))
  /\ \E r \in {strtok(sp, scommand, NoPointer)} :
       /\ sp' = r.sp
       /\ scommand' = r.buf
       /\ token' = r.token
       /\ pc' = IF r.token = NoPointer THEN "system" ELSE "malloc"
  /\ UNCHANGED <<term, readline, history>>

\* boios_malloc fails, as the shell has used up its allocations or the heap
\* is empty: no command, or one with the arguments so far.
ParseRefused ==
  /\ pc = "malloc"
  /\ pc' = IF args = <<>> THEN "done" ELSE "system"
  /\ refused' = IF refused = "before" THEN "before" ELSE "now"
  /\ UNCHANGED <<term, readline, parser, line, start, tabs, shown, turns, misprints>>

-----------------------------------------------------------------------------
\* boios_system: there is no such program, or it cannot be loaded.
SystemFails ==
  /\ pc = "system"
  /\ pc' = "done"
  /\ UNCHANGED <<term, readline, parser, history>>

\* The program runs, clears the screen or not, prints printf("%i", n), and
\* ends.
SystemRuns(n, clear) ==
  /\ pc = "system"
  /\ \E t \in {IF clear THEN terminal_initialize(term) ELSE term} :
     \E text \in {printf(<<PERCENT, LETTERI>>, <<n>>, TextSize)} :
     \E copy \in {text} \cup Leftovers :
       /\ Copies(text, copy)
       /\ term' = print(t, copy)
       /\ shown' = IF copy = text THEN [number |-> n, at |-> Position(t)]
                                 ELSE NoNumber
  /\ pc' = "done"
  /\ UNCHANGED <<readline, parser, line, start, tabs, refused, turns>>

\* boios_system_run returned: a newline, and the next turn of the shell.
CommandDone ==
  /\ pc = "done"
  /\ \E copy \in {<<NEWLINE>>} \cup Leftovers :
       Copies(<<NEWLINE>>, copy) /\ term' = print(term, copy)
  /\ pc' = "prompt"
  /\ UNCHANGED <<readline, parser, line, start, tabs, refused, shown, turns>>

Next ==
  \/ ShowPrompt \/ SessionEnds
  \/ ShowCursor \/ LineFull
  \/ KeyEnter \/ KeyBackspaceAtStart \/ KeyBackspace \/ \E k \in Keys : Key(k)
  \/ ParseBegins \/ ParseToken \/ ParseRefused
  \/ SystemFails
  \/ \E n \in Numbers, clear \in BOOLEAN : SystemRuns(n, clear)
  \/ CommandDone

Spec == Init /\ [][Next]_vars

-----------------------------------------------------------------------------
\* The buffers hold bytes, and the cursor is in a row.
TypeOK ==
  /\ term.row \in 0 .. (MaxRows - 1) /\ term.col \in 0 .. (VGA_WIDTH - 1)
  /\ term.cells \in [Cells -> 0 .. UINT16_MAX]
  /\ i \in Offsets
  /\ out \in [Offsets -> 0 .. 255]
  /\ scommand \in [0 .. LineSize -> 0 .. 255]
  /\ sp \in {NoPointer} \cup 0 .. LineSize
  /\ used \in 0 .. MaxAllocations

(***************************************************************************)
(* While readline waits for a key, the terminal shows the line that is in  *)
(* its buffer, from where the prompt ended, over the ends of rows, and     *)
(* then the cursor, whatever was typed and erased.  A tab moves the        *)
(* terminal by up to four columns and a backspace by one, so lines with    *)
(* tabs are left out.                                                      *)
(***************************************************************************)
LineShown ==
  (pc = "key" /\ tabs = 0) =>
    /\ \A b \in 0 .. (i - 1) :
         term.cells[start + b] = terminal_make_char(out[b], White)
    /\ term.cells[start + i] = terminal_make_char(Cursor, White)
    /\ Position(term) = start + i + 1

(***************************************************************************)
(* Nothing that is typed in readline, backspaces and tabs included,        *)
(* changes what stands before the line: the prompt and the output of       *)
(* earlier commands.                                                       *)
(***************************************************************************)
PromptKept ==
  [][(pc \in {"loop", "key"}) =>
       (\A a \in 0 .. (start - 1) : term'.cells[a] = term.cells[a])]_vars

\* Where the words of a text start: after a blank, or at its beginning.
WordStarts(text) ==
  {a \in 1 .. Len(text) : text[a] # BLANK /\ (a = 1 \/ text[a - 1] = BLANK)}

\* The word that starts at a, up to a blank or the end.
WordAt(text, a) ==
  SubSeq(text, a, First({b \in a .. Len(text) :
                           b = Len(text) \/ text[b + 1] = BLANK}))

\* How many words start before a.
WordsBefore(text, a) == Cardinality({b \in WordStarts(text) : b < a})

\* The words of a text, in the order in which they stand.
Words(text) ==
  [w \in 1 .. Cardinality(WordStarts(text)) |->
     WordAt(text, CHOOSE a \in WordStarts(text) :
                    WordsBefore(text, a) = w - 1)]

(***************************************************************************)
(* The command that the kernel is asked to run has the words of the line   *)
(* that the user edited as arguments, cut to the size of an argument: none *)
(* is lost, repeated or taken from an earlier line.  After a malloc failed *)
(* the command has the first words, and strtok goes on in that line when   *)
(* the next one is parsed.  So this is not said of lines that follow a     *)
(* failure, until strtok comes to the end of a text; after that, commands  *)
(* have the words of their lines again.                                    *)
(***************************************************************************)
ArgumentsAreWords ==
  LET words  == [w \in DOMAIN Words(line) |->
                   Truncated(Words(line)[w], ArgumentSize)]
      prefix == SubSeq(words, 1, Len(args))
  IN  (pc \in {"malloc", "system"} /\ refused # "before") =>
        args = IF pc = "system" /\ refused = "no" THEN words ELSE prefix

\* The number that digits stand for, and the powers of ten.
ValueOf(digits) ==
  LET value[k \in 0 .. Len(digits)] ==
        IF k = 0 THEN 0 ELSE 10 * value[k - 1] + (digits[k] - ZERO)
  IN  value[Len(digits)]

PowerOfTen(k) ==
  LET power[j \in 0 .. k] == IF j = 0 THEN 1 ELSE 10 * power[j - 1]
  IN  power[k]

\* Whether a text is a number in decimal, by its value.
IsDecimal(text, n) ==
  LET digits == IF n < 0 THEN SubSeq(text, 2, Len(text)) ELSE text
  IN  /\ (n < 0) => (text[1] = MINUS)
      /\ \A k \in DOMAIN digits : digits[k] \in ZERO .. (ZERO + 9)
      /\ digits # <<>> /\ digits[1] # ZERO
      /\ ValueOf(digits) = (IF n < 0 THEN -n ELSE n)

(***************************************************************************)
(* What printf("%i") of a program leaves before the cursor is the number   *)
(* in decimal, unless call 1 had no memory to copy it.  The test in itoa   *)
(* that is meant for zero applies to numbers that fill the text, so zero,  *)
(* which shows nothing, and numbers of as many digits as there is room for *)
(* are left out.                                                           *)
(***************************************************************************)
NumberShown ==
  (pc = "done" /\ shown # NoNumber) =>
    LET n    == shown.number
        text == [b \in 1 .. (Position(term) - shown.at) |->
                   term.cells[shown.at + b - 1] % 256]
    IN  (n # 0 /\ -n < PowerOfTen(TextSize - 3) /\ n < PowerOfTen(TextSize - 3)) =>
          IsDecimal(text, n)

\* The buffer of readline and its index are the line that the user edits.
Editor == INSTANCE LineEditor WITH
  line      <- [b \in 1 .. i |-> out[b - 1]],
  editing   <- pc \in {"loop", "key"},
  MaxLength <- LineSize - 1

ImplementsEditor == Editor!Spec

-----------------------------------------------------------------------------
(***************************************************************************)
(* What the theorems ask: the banner, the prompt and whatever call 1 may   *)
(* print instead of a text are bytes, and no row is reached that is not    *)
(* modelled.                                                               *)
(***************************************************************************)
PrintsBytes ==
  /\ Banner \in Seq(0 .. 255)
  /\ Leftovers \subseteq Seq(0 .. 255)
  /\ \A copy \in {cwd} \cup Leftovers :
       printf(PromptFormat, <<copy>>, TextSize) \in Seq(0 .. 255)

InMemory == term.row < MaxRows

=============================================================================
