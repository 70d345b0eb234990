------------------------------ MODULE Keyboard ------------------------------
(***************************************************************************)
(* The keyboard of boiOS: the interrupt handler of classic.c, which turns  *)
(* scan codes into characters, and the buffer of keyboard.c, which each    *)
(* process has.  The handler writes to the buffer of the process that has  *)
(* the focus; the system call getkey reads that of the process that runs.  *)
(* Which processes these are is decided in module Process; here they       *)
(* change at any time.                                                     *)
(*                                                                         *)
(* The buffer is a ring: tail and head count up, and an index is the count *)
(* modulo the size.  A slot that holds the character 0 is empty.           *)
(***************************************************************************)
EXTENDS Integers, Sequences

CONSTANTS
  Procs,
  BufferSize,     \* BOIOS_KEYBOARD_BUFFER_SIZE
  IntModulus,     \* 2^32: tail and head are ints, and wrap
  ScanSetOne,     \* keyboard_scan_set_one: the characters of the keys from 0
  PastTable,      \* the bytes that may follow it in memory
  Scancodes,      \* what the keyboard sends
  KeyReleased,    \* CLASSIC_KEYBOARD_KEY_RELEASED, the top bit of a scan code
  CapsLock,       \* CLASSIC_KEYBOARD_CAPS_LOCK
  TypeAhead       \* how many keys are typed before the program reads one

ASSUME KeyboardAssumption ==
  /\ BufferSize \in Nat \ {0}
  /\ IntModulus \in Nat \ {0}
  /\ IntModulus % BufferSize = 0 /\ BufferSize < IntModulus
  /\ ScanSetOne \in Seq(0 .. 255)
  /\ PastTable \subseteq 0 .. 255
  /\ Scancodes \subseteq Nat
  /\ TypeAhead \in Nat

VARIABLES
  buffer,     \* process->keyboard.buffer
  tail,       \* process->keyboard.tail
  head,       \* process->keyboard.head
  capslock,   \* classic_keyboard.capslock_state, TRUE for on
  focus,      \* process_current()
  running,    \* task_current()->process
  typed       \* history: the characters pushed and not yet popped

vars == <<buffer, tail, head, capslock, focus, running, typed>>

-----------------------------------------------------------------------------
Index == 0 .. (BufferSize - 1)

\* What classic_keyboard_scancode_to_char reads: the table, and past it.
TableBytes == PastTable \cup {ScanSetOne[i] : i \in DOMAIN ScanSetOne}

\* What may be in a slot: nothing, such a byte, or the small letter of one.
Chars == {0} \cup TableBytes \cup {c + 32 : c \in TableBytes \cap 65 .. 90}

keyboard_get_tail_index(p) == tail[p] % BufferSize

\* Mutant of LetterCase: caps lock works the other way round.
LetterCaseSwapped(c) == IF capslock /\ c \in 65 .. 90 THEN c + 32 ELSE c

\* Mutant of LetterCase: everything from A on is taken for a letter.
LetterCaseFromA(c) == IF ~capslock /\ c >= 65 THEN c + 32 ELSE c

\* Capital letters become small ones, unless caps lock is on.
LetterCase(c) == IF ~capslock /\ c \in 65 .. 90 THEN c + 32 ELSE c

(***************************************************************************)
(* The table has Len(ScanSetOne) characters, for the scan codes from 0.    *)
(* The scan code after the last passes the test too, and reads the byte    *)
(* that follows the table.                                                 *)
(***************************************************************************)
classic_keyboard_scancode_to_char(scancode) ==
  CASE scancode > Len(ScanSetOne) -> {0}
    [] scancode = Len(ScanSetOne) -> {LetterCase(c) : c \in PastTable}
    [] OTHER -> {LetterCase(ScanSetOne[scancode + 1])}

\* Mutant of Advance: a counter that wraps at its sign.
AdvanceToSign(n) == (n + 1) % (IntModulus - 1)

\* One more, as an int, which indexes the same slot as the unsigned number.
Advance(n) == (n + 1) % IntModulus

\* Mutant of keyboard_push: tail moves before the slot is written.
keyboard_push_late(p, c) ==
  /\ buffer' = [buffer EXCEPT ![p][Advance(tail[p]) % BufferSize] = c]
  /\ tail' = [tail EXCEPT ![p] = Advance(@)]
  /\ typed' = [typed EXCEPT ![p] = Append(@, c)]

\* Mutant of keyboard_push: task_current()->process instead of
\* process_current().
keyboard_push_to_running(p, c) ==
  /\ buffer' = [buffer EXCEPT ![running][keyboard_get_tail_index(running)] = c]
  /\ tail' = [tail EXCEPT ![running] = Advance(@)]
  /\ typed' = [typed EXCEPT ![running] = Append(@, c)]

\* There is no test for a full buffer.
keyboard_push(p, c) ==
  /\ buffer' = [buffer EXCEPT ![p][keyboard_get_tail_index(p)] = c]
  /\ tail' = [tail EXCEPT ![p] = Advance(@)]
  /\ typed' = [typed EXCEPT ![p] = Append(@, c)]

-----------------------------------------------------------------------------
\* process_init clears the buffers, classic_keyboard_init caps lock.
Init ==
  /\ buffer = [p \in Procs |-> [i \in Index |-> 0]]
  /\ tail = [p \in Procs |-> 0]
  /\ head = [p \in Procs |-> 0]
  /\ capslock = FALSE
  /\ focus \in Procs
  /\ running = focus
  /\ typed = [p \in Procs |-> << >>]

\* A key is let go: classic_keyboard_handle_interrupt returns at once.
KeyUp(scancode) ==
  /\ scancode >= KeyReleased
  /\ UNCHANGED vars

\* A key is pressed.  The caps lock key changes the state, then goes on.
KeyDown(scancode) ==
  /\ scancode < KeyReleased
  /\ Len(typed[focus]) < TypeAhead
  /\ capslock' = IF scancode = CapsLock THEN ~capslock ELSE capslock
  /\ \E character \in classic_keyboard_scancode_to_char(scancode)' :
       IF character # 0
         THEN keyboard_push(focus, character)
         ELSE UNCHANGED <<buffer, tail, typed>>
  /\ UNCHANGED <<head, focus, running>>

\* isr80h_command2_get_key, when keyboard_pop finds a character.
GetKey ==
  LET p == running
      i == head[p] % BufferSize
  IN
  /\ buffer[p][i] # 0
  /\ buffer' = [buffer EXCEPT ![p][i] = 0]
  /\ head' = [head EXCEPT ![p] = Advance(@)]
  /\ typed' = [typed EXCEPT ![p] = Tail(@)]
  /\ UNCHANGED <<tail, capslock, focus, running>>

\* keyboard_pop finds no character, and returns 0.
GetNoKey ==
  /\ buffer[running][head[running] % BufferSize] = 0
  /\ UNCHANGED vars

\* Another process runs, or gets the focus.
Switch ==
  /\ focus' \in Procs
  /\ running' \in Procs
  /\ UNCHANGED <<buffer, tail, head, capslock, typed>>

Next ==
  \/ \E scancode \in Scancodes : KeyUp(scancode) \/ KeyDown(scancode)
  \/ GetKey \/ GetNoKey
  \/ Switch

Spec == Init /\ [][Next]_vars

-----------------------------------------------------------------------------
\* Counts are below the modulus, and slots hold bytes of the table or small
\* letters.
TypeOK ==
  /\ buffer \in [Procs -> [Index -> Chars]]
  /\ tail \in [Procs -> 0 .. (IntModulus - 1)]
  /\ head \in [Procs -> 0 .. (IntModulus - 1)]
  /\ capslock \in BOOLEAN
  /\ focus \in Procs
  /\ running \in Procs

(***************************************************************************)
(* The ring holds what was typed and not read, in order, from head to      *)
(* tail, and every other slot is empty: so a zero slot at head means that  *)
(* there is nothing to read, also after the counts have wrapped.           *)
(***************************************************************************)
RingHoldsTyped ==
  \A p \in Procs :
    /\ (tail[p] - head[p]) % IntModulus = Len(typed[p])
    /\ \A k \in 0 .. (BufferSize - 1) :
         buffer[p][(head[p] + k) % BufferSize] =
           IF k < Len(typed[p]) THEN typed[p][k + 1] ELSE 0

(***************************************************************************)
(* A push gives the character the case that caps lock has after the key:   *)
(* with caps lock off no capital letter is ever pushed, whatever byte      *)
(* follows the table, and with caps lock on every character is pushed as   *)
(* it is in memory.                                                        *)
(***************************************************************************)
CaseFollowsCapsLock ==
  [][\A p \in Procs :
       Len(typed'[p]) > Len(typed[p]) =>
         LET c == typed'[p][Len(typed'[p])] IN
         IF capslock'
           THEN c \in TableBytes
           ELSE c \notin 65 .. 90]_vars

(***************************************************************************)
(* For each process, the ring, its counts and its zero slots implement a   *)
(* queue: a key goes to the queue of the process that has the focus when   *)
(* it is pressed, and what getkey takes out of the slot of head is the     *)
(* oldest key of the process that runs, whatever the focus did since.      *)
(***************************************************************************)
Unread(p) ==
  [k \in 1 .. ((tail[p] - head[p]) % IntModulus) |->
     buffer[p][(head[p] + k - 1) % BufferSize]]

Queue == INSTANCE KeyQueue WITH queue <- [p \in Procs |-> Unread(p)]

ImplementsQueue == Queue!Spec

=============================================================================
