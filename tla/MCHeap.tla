------------------------------- MODULE MCHeap -------------------------------
(***************************************************************************)
(* The kernel heap with a table of a few blocks, and the loops of heap.c.  *)
(***************************************************************************)
EXTENDS HeapLoops

=============================================================================
