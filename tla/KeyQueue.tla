------------------------------ MODULE KeyQueue ------------------------------
(***************************************************************************)
(* What a program may expect of the keyboard: a queue of its own, in which *)
(* the keys wait that are typed while it has the focus, and from which it  *)
(* reads them, when it runs, in the order in which they were typed, each   *)
(* once.                                                                   *)
(***************************************************************************)
EXTENDS Sequences

CONSTANT Procs

VARIABLES
  queue,
  focus,     \* the process whose queue the keys go to
  running    \* the process that reads

vars == <<queue, focus, running>>

Init ==
  /\ queue = [p \in Procs |-> << >>]
  /\ focus \in Procs
  /\ running = focus

\* Some character is typed.
Type ==
  /\ queue'[focus] # << >>
  /\ queue' = [queue EXCEPT
                 ![focus] = Append(@, queue'[focus][Len(queue'[focus])])]
  /\ UNCHANGED <<focus, running>>

\* The oldest one is read.
Read ==
  /\ queue[running] # << >>
  /\ queue' = [queue EXCEPT ![running] = Tail(@)]
  /\ UNCHANGED <<focus, running>>

\* Another process gets the focus, or runs: no key moves.
Switch ==
  /\ focus' \in Procs
  /\ running' \in Procs
  /\ UNCHANGED queue

Next == Type \/ Read \/ Switch

Spec == Init /\ [][Next]_vars

=============================================================================
