---------------------------- MODULE MCInterrupts ----------------------------
(***************************************************************************)
(* Interrupts and sleep with a few tasks and a clock that wraps soon.      *)
(***************************************************************************)
EXTENDS Interrupts

\* No sleep, a sleep shorter than a tick, sleeps of one tick and of three,
\* and a negative one.
MCMillis == {0, 5, 10, 30, -10}

=============================================================================
