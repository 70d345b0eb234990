---------------------------- MODULE KernelString ----------------------------
(***************************************************************************)
(* The functions of string.c that the file system uses.  A text is the     *)
(* sequence of its bytes before the terminator.                            *)
(***************************************************************************)
EXTENDS Integers, Sequences

isdigit(c) == c \in 48 .. 57

tonumericdigit(c) == c - 48

tolower(c) == IF c \in 65 .. 90 THEN c + 32 ELSE c

\* Whether the result is 0, for a limit that neither text reaches.
istrncmp(str1, str2) ==
  /\ Len(str1) = Len(str2)
  /\ \A i \in DOMAIN str1 : tolower(str1[i]) = tolower(str2[i])

=============================================================================
