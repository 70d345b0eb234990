----------------------------- MODULE UserLibrary -----------------------------
(***************************************************************************)
(* The functions of the user library (programs/stdlib) that compute on     *)
(* texts: strtok and strncpy of string.c, itoa of stdlib.c and printf of   *)
(* stdio.c.  A buffer is a function from offsets to bytes, and a pointer   *)
(* into it an offset.                                                      *)
(***************************************************************************)
EXTENDS Integers, SequencesExt

NoPointer == -1
NUL       == 0
BLANK     == 32

First(S) == CHOOSE a \in S : \A b \in S : a <= b

\* The first offset from a on with a byte of the set.
Scan(buf, a, bytes) == First({b \in DOMAIN buf : b >= a /\ buf[b] \in bytes})

\* strncpy to a buffer that is large enough: the bytes behind the NUL stay.
strncpy(dest, src) ==
  LET end == Scan(src, 0, {NUL}) IN
  [b \in DOMAIN dest |-> IF b < end THEN src[b]
                         ELSE IF b = end THEN NUL ELSE dest[b]]

\* The text at a pointer, and what strncpy leaves of it in count bytes.
Text(buf, a) == [j \in 1 .. (Scan(buf, a, {NUL}) - a) |-> buf[a + j - 1]]

Truncated(text, count) ==
  IF Len(text) < count THEN text ELSE SubSeq(text, 1, count - 1)

\* Mutant of strtok: the position is kept when the text has been used up.
strtok_keeps_position(sp, buf, str) ==
  LET from  == IF sp = NoPointer THEN str ELSE sp
      start == First({b \in DOMAIN buf : b >= from /\ buf[b] # BLANK})
      end   == Scan(buf, start, {NUL, BLANK})
  IN  CASE from = NoPointer -> [sp |-> sp, buf |-> buf, token |-> NoPointer]
        [] from # NoPointer /\ buf[start] = NUL ->
             [sp |-> start, buf |-> buf, token |-> NoPointer]
        [] OTHER ->
             [sp    |-> IF buf[end] = NUL THEN end ELSE end + 1,
              buf   |-> [buf EXCEPT ![end] = NUL],
              token |-> start]

(***************************************************************************)
(* strtok(str, " "), with the static sp: the token, and sp and the buffer  *)
(* after it.  str counts only while sp is null.  The blank after the token *)
(* is overwritten; at the end of the text sp is left at the NUL, and the   *)
(* next call, which finds no token, makes it null.                         *)
(***************************************************************************)
strtok(sp, buf, str) ==
  LET from  == IF sp = NoPointer THEN str ELSE sp
      start == First({b \in DOMAIN buf : b >= from /\ buf[b] # BLANK})
      end   == Scan(buf, start, {NUL, BLANK})
  IN  CASE from = NoPointer -> [sp |-> sp, buf |-> buf, token |-> NoPointer]
        [] from # NoPointer /\ buf[start] = NUL ->
             [sp |-> NoPointer, buf |-> buf, token |-> NoPointer]
        [] OTHER ->
             [sp    |-> IF buf[end] = NUL THEN end ELSE end + 1,
              buf   |-> [buf EXCEPT ![end] = NUL],
              token |-> start]

-----------------------------------------------------------------------------
ZERO  == 48
MINUS == 45

\* The loop of itoa; it works on -i, but the digits are the same.
Digits(i) ==
  LET n == IF i < 0 THEN -i ELSE i
      digits[m \in 0 .. n] ==
        IF m = 0 THEN <<>> ELSE Append(digits[m \div 10], ZERO + (m % 10))
  IN  digits[n]

\* Mutant of itoa: the sign is lost.
itoa_unsigned(i, size) ==
  LET digits == Digits(i)
      loc    == size - 1 - Len(digits)
  IN  IF loc = 1 THEN <<ZERO>> \o digits ELSE digits

\* itoa, with a text of size bytes.  The test of loc is for location 1.
itoa(i, size) ==
  LET digits == Digits(i)
      loc    == size - 1 - Len(digits)
  IN  (IF i < 0 THEN <<MINUS>> ELSE <<>>)
        \o (IF loc = 1 THEN <<ZERO>> ELSE <<>>) \o digits

PERCENT == 37
LETTERI == 105
LETTERS == 115

\* What printf prints of a format and its values: after a percent sign, i
\* stands for a number, s for a text, and any other character for itself.
printf(format, values, size) ==
  LET value(r, text) == [text   |-> r.text \o text, percent |-> FALSE,
                         values |-> Tail(r.values)]
      step(r, c) ==
        CASE r.percent /\ c = LETTERI -> value(r, itoa(Head(r.values), size))
          [] r.percent /\ c = LETTERS -> value(r, Head(r.values))
          [] ~r.percent /\ c = PERCENT -> [r EXCEPT !.percent = TRUE]
          [] OTHER -> [r EXCEPT !.text = Append(@, c), !.percent = FALSE]
      begin == [text |-> <<>>, percent |-> FALSE, values |-> values]
      after[k \in 0 .. Len(format)] ==
        IF k = 0 THEN begin ELSE step(after[k - 1], format[k])
  IN  after[Len(format)].text

=============================================================================
