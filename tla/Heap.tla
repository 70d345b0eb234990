-------------------------------- MODULE Heap --------------------------------
(***************************************************************************)
(* The kernel heap of boiOS: heap.c, and kheap.c, which gives the kernel   *)
(* its only instance.  A table has one entry for each block of the data    *)
(* pool.  An allocation is a run of blocks: the first carries IS_FIRST and *)
(* every block but the last carries HAS_NEXT.  The address of the first    *)
(* block is all that the client gets, and all that kfree is given back.    *)
(*                                                                         *)
(* Handlers run with interrupts off, so every operation is one step.       *)
(***************************************************************************)
EXTENDS Integers

CONSTANTS
  TotalEntries,   \* table->total_entries, BOIOS_HEAP_SIZE_BYTES / BLOCK_SIZE
  BlockSize,      \* BOIOS_HEAP_BLOCK_SIZE
  StartAddress,   \* BOIOS_HEAP_ADDRESS
  Word,           \* 2^32: size_t and uint32_t arithmetic is modulo Word
  Sizes           \* the sizes that clients ask for

(***************************************************************************)
(* What heap_create checks with heap_validate_alignment and                *)
(* heap_validate_table.  kheap_init passes constants that satisfy it.      *)
(***************************************************************************)
ASSUME HeapAssumption ==
  /\ TotalEntries \in Nat \ {0}
  /\ BlockSize \in Nat \ {0}
  /\ StartAddress \in Nat \ {0}
  /\ StartAddress % BlockSize = 0
  /\ Word \in Nat \ {0}
  /\ Sizes \subseteq 0 .. (Word - 1)

VARIABLES
  entries,   \* table->entries
  owned      \* history: allocations handed out and not yet freed

vars == <<entries, owned>>

-----------------------------------------------------------------------------
Blocks == 0 .. (TotalEntries - 1)

\* HEAP_BLOCK_TABLE_ENTRY: the type nibble and the two flag bits.
Entry == [taken : BOOLEAN, first : BOOLEAN, next : BOOLEAN]

EntryFree == [taken |-> FALSE, first |-> FALSE, next |-> FALSE]

\* Mutant of heap_block_to_address: the address of the block after.
heap_block_to_address_of_next(block) ==
  StartAddress + (block + 1) * BlockSize

heap_block_to_address(block) == StartAddress + block * BlockSize

heap_address_to_block(address) == (address - StartAddress) \div BlockSize

\* The sum wraps when val is in the last block of the address space.
heap_align_value_to_upper(val) ==
  IF val % BlockSize = 0
    THEN val
    ELSE (val - (val % BlockSize) + BlockSize) % Word

TotalBlocks(size) == heap_align_value_to_upper(size) \div BlockSize

\* Blocks s .. s+n-1 are in the table and free.
FreeRun(table, s, n) ==
  /\ s + n <= TotalEntries
  /\ \A i \in s .. (s + n - 1) : ~table[i].taken

\* Every block from s to the end of the table is free.
FreeTail(table, s) == \A i \in s .. (TotalEntries - 1) : ~table[i].taken

\* Mutant of heap_get_start_block: a taken block does not reset the scan.
heap_get_start_block_no_reset(table, n, block) ==
  /\ ~table[block].taken
  /\ \A s \in 0 .. (block - 1) : table[s].taken

(***************************************************************************)
(* block is what the scan returns for n blocks: the first run of n free    *)
(* blocks or, when the scan meets the end of the table before it counted   *)
(* n, the start of the free run it was still counting.                     *)
(***************************************************************************)
heap_get_start_block(table, n, block) ==
  IF n > 0 /\ \E s \in Blocks : FreeRun(table, s, n)
    THEN /\ FreeRun(table, block, n)
         /\ \A s \in 0 .. (block - 1) : ~FreeRun(table, s, n)
    ELSE /\ FreeTail(table, block)
         /\ \A s \in 0 .. (block - 1) : ~FreeTail(table, s)

\* Mutant of heap_mark_blocks_taken: the loop stops before the last block.
heap_mark_blocks_taken_short(table, start, n) ==
  [i \in Blocks |->
     IF i \in start .. (start + n - 2)
       THEN [taken |-> TRUE, first |-> i = start, next |-> i # start + n - 1]
       ELSE table[i]]

\* Mutant of heap_mark_blocks_taken: the last block has HAS_NEXT too.
heap_mark_blocks_taken_no_end(table, start, n) ==
  [i \in Blocks |->
     IF i \in start .. (start + n - 1)
       THEN [taken |-> TRUE, first |-> i = start, next |-> TRUE]
       ELSE table[i]]

(***************************************************************************)
(* Entries past the end of the table are written too.  Nothing reads them  *)
(* back, so they are not part of the state.                                *)
(***************************************************************************)
heap_mark_blocks_taken(table, start, n) ==
  [i \in Blocks |->
     IF i \in start .. (start + n - 1)
       THEN [taken |-> TRUE, first |-> i = start, next |-> i # start + n - 1]
       ELSE table[i]]

\* The blocks a walk from block visits: it goes on while HAS_NEXT is set.
Chain(table, block) ==
  {i \in Blocks : i >= block /\ \A j \in block .. (i - 1) : table[j].next}

\* Mutant of heap_mark_blocks_free: only the first block is freed.
heap_mark_blocks_free_first(table, block) ==
  IF block < 0 THEN table ELSE [table EXCEPT ![block] = EntryFree]

\* Mutant of heap_mark_blocks_free: the block after the last is freed too.
heap_mark_blocks_free_too_far(table, block) ==
  IF block < 0
    THEN table
    ELSE [i \in Blocks |->
            IF i \in Chain(table, block) \/ (i - 1) \in Chain(table, block)
              THEN EntryFree ELSE table[i]]

(***************************************************************************)
(* For the null pointer the block is negative and the walk starts in low   *)
(* memory.  It stops there: the byte 0x55 of the boot signature, two bytes *)
(* below the table, has no HAS_NEXT bit.                                   *)
(***************************************************************************)
heap_mark_blocks_free(table, block) ==
  IF block < 0
    THEN table
    ELSE [i \in Blocks |-> IF i \in Chain(table, block) THEN EntryFree
                                                        ELSE table[i]]

heap_free(table, ptr) ==
  heap_mark_blocks_free(table, heap_address_to_block(ptr))

-----------------------------------------------------------------------------
\* heap_create marks every entry free.
heap_create ==
  /\ entries = [i \in Blocks |-> EntryFree]
  /\ owned = {}

\* heap_malloc finds a start block.  A request of no block gets an address
\* too, but nothing is marked, and the client owns nothing.
Malloc(size) ==
  LET n == TotalBlocks(size) IN
  \E s \in Blocks :
    /\ heap_get_start_block(entries, n, s)
    /\ entries' = heap_mark_blocks_taken(entries, s, n)
    /\ owned' = IF n = 0
                  THEN owned
                  ELSE owned \cup {[ptr    |-> heap_block_to_address(s),
                                    blocks |-> n]}

\* No start block: heap_malloc returns the null pointer.
MallocFails(size) ==
  /\ \A s \in Blocks : ~heap_get_start_block(entries, TotalBlocks(size), s)
  /\ UNCHANGED vars

\* kfree of an allocation of at least one block.
Free(a) ==
  /\ entries' = heap_free(entries, a.ptr)
  /\ owned' = owned \ {a}

\* kfree(0), which process_terminate_allocations calls for each unused slot.
FreeNull ==
  /\ entries' = heap_free(entries, 0)
  /\ UNCHANGED owned

Init == heap_create

\* Clients free what they own, and not what they got for a request of no
\* block: that address may be somebody else's by then.
Next ==
  \/ \E size \in Sizes : Malloc(size) \/ MallocFails(size)
  \/ \E a \in owned : Free(a)
  \/ FreeNull

Spec == Init /\ [][Next]_vars

-----------------------------------------------------------------------------
StartBlock(a) == heap_address_to_block(a.ptr)

LastBlock(a) == StartBlock(a) + a.blocks - 1

BlocksOf(a) == StartBlock(a) .. LastBlock(a)

\* Allocations have at least one block and start in the table.
TypeOK ==
  /\ entries \in [Blocks -> Entry]
  /\ \A a \in owned : /\ a \in [ptr : Int, blocks : Nat \ {0}]
                      /\ StartBlock(a) \in Blocks

(***************************************************************************)
(* heap_malloc never hands out a block that some client still holds: two   *)
(* outstanding allocations share no block, not even past the end of the    *)
(* pool, where heap_mark_blocks_taken may run.                             *)
(***************************************************************************)
OwnedDisjoint ==
  \A a, b \in owned : a # b => BlocksOf(a) \cap BlocksOf(b) = {}

(***************************************************************************)
(* The flags of heap_mark_blocks_taken survive until the allocation is     *)
(* freed: for each outstanding allocation, IS_FIRST is on its first block  *)
(* only and HAS_NEXT on all blocks but the last.  heap_mark_blocks_free    *)
(* has nothing else to tell where the allocation ends.                     *)
(***************************************************************************)
ChainIntact ==
  \A a \in owned : \A i \in BlocksOf(a) \cap Blocks :
    entries[i] = [taken |-> TRUE,
                  first |-> i = StartBlock(a),
                  next  |-> i # LastBlock(a)]

(***************************************************************************)
(* No block is lost: heap_mark_blocks_free gives back every block of the   *)
(* run, so a taken entry always belongs to an outstanding allocation.      *)
(***************************************************************************)
NoBlockLost ==
  \A i \in Blocks : entries[i].taken => \E a \in owned : i \in BlocksOf(a)

(***************************************************************************)
(* The table, its flags and its addresses implement a pool in which every  *)
(* block has one holder: what heap_malloc marks was held by nobody, and    *)
(* heap_free gives back the blocks of one allocation and touches no other. *)
(***************************************************************************)
Pool == INSTANCE BlockPool WITH held <- {BlocksOf(a) : a \in owned}

ImplementsPool == Pool!Spec

(***************************************************************************)
(* "find the first block which has following blocks that fit the size"     *)
(* (heap.c:33): an outstanding allocation lies inside the data pool.  The  *)
(* code breaks this when the free run at the end of the table is too short.*)
(***************************************************************************)
AllocationFits == \A a \in owned : BlocksOf(a) \subseteq Blocks

=============================================================================
