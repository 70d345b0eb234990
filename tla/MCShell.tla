------------------------------ MODULE MCShell ------------------------------
(***************************************************************************)
(* The shell with a screen of two rows of five columns.                    *)
(***************************************************************************)
EXTENDS Shell

\* A version of one letter.
MCBanner == <<98, NEWLINE>>

\* The directory ":" and the format "%s>>", so that a line begins two columns
\* before the end of a row.
MCCwd          == <<58>>
MCPromptFormat == <<PERCENT, LETTERS, 62, 62>>

\* What a buffer may hold: a letter.
MCLeftovers == {<<98>>}

\* Zero, one digit, the largest number that fits, and a negative one.
MCNumbers == {0, -7, 99}

\* And no row is reached that is not there: those of the banner, and in a turn
\* those of the keys, the output and the newlines.
ASSUME MCAssumption ==
  /\ PrintsBytes
  /\ Len(MCBanner) + MaxTurns * (LineSize + MaxTabs + 5) + MaxMisprints <= MaxRows

=============================================================================
