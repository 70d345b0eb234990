------------------------------ MODULE MCProcess ------------------------------
(***************************************************************************)
(* Processes and tasks with a process table of a few slots.  The addresses *)
(* of tasks and of processes are interchangeable.                          *)
(***************************************************************************)
EXTENDS Process, TLC

Symmetry == Permutations(Tasks) \cup Permutations(Procs)

=============================================================================
