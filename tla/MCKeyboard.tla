----------------------------- MODULE MCKeyboard -----------------------------
(***************************************************************************)
(* The keyboard with small buffers, a table of four keys and a released    *)
(* bit above it.                                                           *)
(***************************************************************************)
EXTENDS Keyboard

\* No key, a digit, a letter and the caps lock key.
MCScanSetOne == <<0, 49, 65, 0>>

=============================================================================
