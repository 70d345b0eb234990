----------------------------- MODULE HeapLoops -----------------------------
(***************************************************************************)
(* The loops of heap.c written turn by turn, as the code writes them, and  *)
(* what relates them to the operators of Heap.                             *)
(***************************************************************************)
EXTENDS Heap

\* The state of heap_get_start_block after k turns of its loop.
ScanAfter(n) ==
  LET turn[k \in 0 .. TotalEntries] ==
        IF k = 0
          THEN [block_start |-> -1, current_block |-> 0, broke |-> FALSE]
          ELSE LET was == turn[k - 1] IN
               CASE was.broke -> was
                 [] ~was.broke /\ entries[k - 1].taken ->
                      [block_start |-> -1, current_block |-> 0, broke |-> FALSE]
                 [] OTHER ->
                      [block_start   |-> IF was.block_start = -1
                                           THEN k - 1 ELSE was.block_start,
                       current_block |-> was.current_block + 1,
                       broke         |-> was.current_block + 1 = n]
  IN  turn[TotalEntries].block_start

\* The table after heap_mark_blocks_taken wrote block i, and the entry that
\* it will write next.
MarkAfter(start, n) ==
  LET end == start + n - 1
      turn[k \in 0 .. n] ==
        IF k = 0
          THEN [table |-> entries,
                entry |-> [taken |-> TRUE, first |-> TRUE, next |-> n > 1]]
          ELSE LET was == turn[k - 1]
                   i   == start + k - 1
               IN  [table |-> [was.table EXCEPT ![i] = was.entry],
                    entry |-> [taken |-> TRUE, first |-> FALSE,
                               next  |-> i # end - 1]]
  IN  turn[n].table

\* The table after heap_mark_blocks_free walked to block i.
FreeAfter(start) ==
  LET turn[i \in start .. TotalEntries] ==
        IF i = start
          THEN [table |-> entries, go |-> TRUE]
          ELSE LET was == turn[i - 1] IN
               IF was.go
                 THEN [table |-> [was.table EXCEPT ![i - 1] = EntryFree],
                       go    |-> was.table[i - 1].next]
                 ELSE was
  IN  turn[TotalEntries].table

(***************************************************************************)
(* The loop of heap_get_start_block returns the block that the operator    *)
(* of Heap describes, for every number of blocks and whatever the table    *)
(* holds; -1, for no memory, when the operator admits no block.            *)
(***************************************************************************)
ScanAgrees ==
  \A n \in 0 .. (TotalEntries + 1) : \A s \in Blocks :
    heap_get_start_block(entries, n, s) <=> ScanAfter(n) = s

(***************************************************************************)
(* The loops of heap_mark_blocks_taken and heap_mark_blocks_free leave the *)
(* table that the operators of Heap describe, wherever they start.         *)
(***************************************************************************)
MarksAgree ==
  \A s \in Blocks :
    /\ heap_mark_blocks_free(entries, s) = FreeAfter(s)
    /\ \A n \in 0 .. (TotalEntries - s) :
         heap_mark_blocks_taken(entries, s, n) = MarkAfter(s, n)

=============================================================================
