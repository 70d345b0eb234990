----------------------------- MODULE LineEditor -----------------------------
(***************************************************************************)
(* What the user expects of the command line: keys add a character at the  *)
(* end, backspace removes the last one, and enter, or a full line, hands   *)
(* the line over.                                                          *)
(***************************************************************************)
EXTENDS Naturals, Sequences

CONSTANTS Keys, MaxLength

VARIABLES
  line,       \* what has been typed, without what was erased
  editing     \* whether the user is typing

vars == <<line, editing>>

Init == line = <<>> /\ ~editing

Begin == ~editing /\ editing' /\ line' = <<>>

Type ==
  /\ editing /\ editing'
  /\ Len(line) < MaxLength
  /\ \E k \in Keys : line' = Append(line, k)

Erase ==
  /\ editing /\ editing'
  /\ line # <<>>
  /\ line' = SubSeq(line, 1, Len(line) - 1)

Enter == editing /\ ~editing' /\ line' = line

Next == Begin \/ Type \/ Erase \/ Enter

Spec == Init /\ [][Next]_vars

=============================================================================
