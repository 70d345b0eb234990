----------------------------- MODULE HeapProofs -----------------------------
(***************************************************************************)
(* The kernel heap is correct for a table of any size: no block is handed  *)
(* out twice, a release gives back exactly one allocation, no block is     *)
(* lost, and the table implements the pool of BlockPool.                   *)
(*                                                                         *)
(* None of the three invariants is inductive alone.  That a fresh run      *)
(* overlaps nobody needs ChainIntact (what is held is marked taken); that  *)
(* a release leaves the other chains alone needs OwnedDisjoint; and that   *)
(* the walk of heap_mark_blocks_free ends where the allocation ends needs  *)
(* the flags of ChainIntact.                                               *)
(***************************************************************************)
EXTENDS HeapLoops, NumberFacts, TLAPS

IInv == TypeOK /\ OwnedDisjoint /\ ChainIntact /\ NoBlockLost

-----------------------------------------------------------------------------
\* Arithmetic of addresses: a block number survives the trip through the
\* address that heap_malloc returns and that heap_free is given.
LEMMA DivMul ==
  ASSUME NEW k \in Int, NEW d \in Nat \ {0}
  PROVE  (k * d) \div d = k
  BY SMTT(30)

\* heap_address_to_block undoes heap_block_to_address.
LEMMA AddressRoundTrip ==
  ASSUME NEW block \in Int
  PROVE  /\ heap_block_to_address(block) \in Int
         /\ heap_address_to_block(heap_block_to_address(block)) = block
<1>1. (StartAddress + block * BlockSize) - StartAddress = block * BlockSize
  BY HeapAssumption
<1> QED
  BY <1>1, DivMul, HeapAssumption
  DEF heap_address_to_block, heap_block_to_address

\* The null pointer is below the pool: its block number is negative.
LEMMA NullBelowPool == heap_address_to_block(0) < 0
<1>1. ASSUME NEW s \in Nat \ {0}, NEW d \in Nat \ {0}
      PROVE  (0 - s) \div d < 0
  BY SMTT(30)
<1> QED
  BY <1>1, HeapAssumption DEF heap_address_to_block

\* heap_malloc asks for a natural number of blocks, whatever the size.
LEMMA TotalBlocksNat ==
  ASSUME NEW size \in Sizes
  PROVE  TotalBlocks(size) \in Nat
<1>1. ASSUME NEW k \in Nat, NEW d \in Nat \ {0}
      PROVE  k \div d \in Nat
  BY SMTT(30)
<1>2. size \in Nat
  BY HeapAssumption
<1>3. heap_align_value_to_upper(size) \in Nat
  BY <1>2, HeapAssumption DEF heap_align_value_to_upper
<1> QED
  BY <1>1, <1>3, HeapAssumption DEF TotalBlocks

-----------------------------------------------------------------------------
\* The scan of heap_get_start_block returns blocks that are free, as far as
\* they are in the table.
LEMMA StartBlockFree ==
  ASSUME NEW n \in Nat, NEW s \in Blocks, heap_get_start_block(entries, n, s)
  PROVE  \A i \in s .. (s + n - 1) : i \in Blocks => ~entries[i].taken
<1>1. FreeRun(entries, s, n) \/ FreeTail(entries, s)
  BY DEF heap_get_start_block
<1>2. CASE FreeRun(entries, s, n)
  BY <1>2 DEF FreeRun
<1>3. CASE FreeTail(entries, s)
  <2>1. \A i \in s .. (s + n - 1) : i \in Blocks => i \in s .. (TotalEntries - 1)
    BY HeapAssumption DEF Blocks
  <2> QED
    BY <1>3, <2>1 DEF FreeTail
<1> QED
  BY <1>1, <1>2, <1>3

\* A block that an outstanding allocation shares with some run implies one
\* that lies in the table: both start there.
LEMMA SharedInTable ==
  ASSUME TypeOK, NEW a \in owned, NEW s \in Blocks, NEW n \in Nat,
         NEW x \in BlocksOf(a), x \in s .. (s + n - 1)
  PROVE  \E i \in BlocksOf(a) \cap Blocks : i \in s .. (s + n - 1)
<1>1. /\ StartBlock(a) \in Blocks
      /\ a.blocks \in Nat
  BY DEF TypeOK
<1>2. CASE x < TotalEntries
  BY <1>1, <1>2, HeapAssumption DEF BlocksOf, LastBlock, Blocks
<1>3. CASE x >= TotalEntries
  <2>1. TotalEntries - 1 \in BlocksOf(a) \cap Blocks
    BY <1>1, <1>3, HeapAssumption DEF BlocksOf, LastBlock, Blocks
  <2>2. TotalEntries - 1 \in s .. (s + n - 1)
    BY <1>1, <1>3, HeapAssumption DEF BlocksOf, LastBlock, Blocks
  <2> QED
    BY <2>1, <2>2
<1> QED
  BY <1>1, <1>2, <1>3, HeapAssumption DEF BlocksOf, LastBlock, Blocks

\* The walk of heap_mark_blocks_free visits the blocks of the allocation it
\* starts from, and no other.
LEMMA ChainIsAllocation ==
  ASSUME IInv, NEW a \in owned
  PROVE  Chain(entries, StartBlock(a)) = BlocksOf(a) \cap Blocks
<1> DEFINE first == StartBlock(a)
           last  == LastBlock(a)
<1>1. /\ first \in Blocks
      /\ a.blocks \in Nat \ {0}
      /\ last = first + a.blocks - 1
  BY DEF IInv, TypeOK, LastBlock
<1>2. /\ first \in Int
      /\ last \in Int
      /\ first <= last
      /\ 0 <= first
  BY <1>1, HeapAssumption DEF Blocks
<1>3. ASSUME NEW j \in Blocks, j \in first .. last
      PROVE  entries[j].next <=> j # last
  <2>1. entries[j] = [taken |-> TRUE, first |-> j = first, next |-> j # last]
    BY <1>3 DEF IInv, ChainIntact, BlocksOf
  <2>2. entries[j].next = (j # last)
    BY <2>1, SMT
  <2> QED
    BY <2>2, Zenon
<1> HIDE DEF first, last
<1>4. ASSUME NEW i \in Blocks
      PROVE  (i >= first /\ \A j \in first .. (i - 1) : entries[j].next)
               <=> i \in first .. last
  <2>1. ASSUME i >= first, \A j \in first .. (i - 1) : entries[j].next
        PROVE  i \in first .. last
    <3>1. SUFFICES ASSUME i > last PROVE FALSE
      BY <1>2, <2>1, HeapAssumption DEF Blocks
    <3>2. last \in first .. (i - 1) /\ last \in Blocks
      BY <1>2, <3>1, HeapAssumption DEF Blocks
    <3> QED
      BY <1>2, <1>3, <2>1, <3>2
  <2>2. ASSUME i \in first .. last
        PROVE  i >= first /\ \A j \in first .. (i - 1) : entries[j].next
    <3>1. ASSUME NEW j \in first .. (i - 1)
          PROVE  entries[j].next
      <4>1. j \in Blocks /\ j \in first .. last /\ j # last
        BY <1>2, <2>2, HeapAssumption DEF Blocks
      <4> QED
        BY <1>3, <4>1
    <3> QED
      BY <1>2, <2>2, <3>1, HeapAssumption DEF Blocks
  <2> QED
    BY <2>1, <2>2
<1> QED
  BY <1>4 DEF Chain, BlocksOf, first, last

-----------------------------------------------------------------------------
\* What a successful heap_malloc of n > 0 blocks adds overlaps no allocation.
LEMMA MallocDisjoint ==
  ASSUME IInv, NEW n \in Nat, NEW s \in Blocks,
         heap_get_start_block(entries, n, s), NEW a \in owned
  PROVE  BlocksOf(a) \cap (s .. (s + n - 1)) = {}
<1>1. SUFFICES ASSUME NEW x \in BlocksOf(a), x \in s .. (s + n - 1)
               PROVE  FALSE
  OBVIOUS
<1>2. PICK i \in BlocksOf(a) \cap Blocks : i \in s .. (s + n - 1)
  BY <1>1, SharedInTable DEF IInv
<1>3. entries[i].taken = TRUE
  <2>1. entries[i] = [taken |-> TRUE,
                      first |-> i = StartBlock(a), next |-> i # LastBlock(a)]
    BY <1>2 DEF IInv, ChainIntact
  <2> QED
    BY <2>1
<1> QED
  BY <1>2, <1>3, StartBlockFree

\* A successful heap_malloc preserves the invariant.
LEMMA MallocPreserves ==
  ASSUME IInv, NEW size \in Sizes, Malloc(size)
  PROVE  IInv'
<1> DEFINE n == TotalBlocks(size)
<1>1. n \in Nat
  BY TotalBlocksNat
<1> HIDE DEF n
<1>2. PICK s \in Blocks :
        /\ heap_get_start_block(entries, n, s)
        /\ entries' = heap_mark_blocks_taken(entries, s, n)
        /\ owned' = IF n = 0
                      THEN owned
                      ELSE owned \cup {[ptr    |-> heap_block_to_address(s),
                                        blocks |-> n]}
  BY DEF Malloc, n
<1>3. s \in Int
  BY HeapAssumption DEF Blocks
<1>4. entries \in [Blocks -> Entry]
  BY DEF IInv, TypeOK
<1>5. \A i \in Blocks :
        /\ i \in s .. (s + n - 1) =>
             entries'[i] = [taken |-> TRUE, first |-> i = s, next |-> i # s + n - 1]
        /\ i \notin s .. (s + n - 1) => entries'[i] = entries[i]
  BY <1>2 DEF heap_mark_blocks_taken
<1>6. entries' \in [Blocks -> Entry]
  BY <1>2, <1>4 DEF heap_mark_blocks_taken, Entry
<1>7. CASE n = 0
  <2>0. \A i \in Blocks : i \notin s .. (s + n - 1)
    BY <1>3, <1>7, HeapAssumption DEF Blocks
  <2>1. \A i \in Blocks : entries'[i] = entries[i]
    BY <1>5, <2>0, Zenon
  <2>2. owned' = owned
    BY <1>2, <1>7
  <2>3. TypeOK'
    BY <1>6, <2>2 DEF IInv, TypeOK, StartBlock
  <2>4. OwnedDisjoint'
    BY <2>2 DEF IInv, OwnedDisjoint, BlocksOf, StartBlock, LastBlock
  <2>5. ChainIntact'
    BY <2>1, <2>2 DEF IInv, ChainIntact, BlocksOf, StartBlock, LastBlock
  <2>6. NoBlockLost'
    BY <2>1, <2>2 DEF IInv, NoBlockLost, BlocksOf, StartBlock, LastBlock
  <2> QED
    BY <2>3, <2>4, <2>5, <2>6 DEF IInv
<1>8. CASE n # 0
  <2> DEFINE new == [ptr |-> heap_block_to_address(s), blocks |-> n]
  <2>1. owned' = owned \cup {new}
    BY <1>2, <1>8
  <2>2. /\ new \in [ptr : Int, blocks : Nat \ {0}]
        /\ StartBlock(new) = s
        /\ LastBlock(new) = s + n - 1
        /\ BlocksOf(new) = s .. (s + n - 1)
    BY <1>1, <1>3, <1>8, AddressRoundTrip DEF StartBlock, LastBlock, BlocksOf
  <2> HIDE DEF new
  <2>3. \A a \in owned : BlocksOf(a) \cap BlocksOf(new) = {}
    BY <1>1, <1>2, <2>2, MallocDisjoint
  <2>4. TypeOK'
    BY <1>4, <1>6, <2>1, <2>2 DEF IInv, TypeOK, StartBlock
  <2>5. OwnedDisjoint'
    BY <2>1, <2>3 DEF IInv, OwnedDisjoint, BlocksOf, StartBlock, LastBlock
  <2>6. ChainIntact'
    <3>1. SUFFICES ASSUME NEW a \in owned', NEW i \in BlocksOf(a) \cap Blocks
                   PROVE  entries'[i] = [taken |-> TRUE,
                                         first |-> i = StartBlock(a),
                                         next  |-> i # LastBlock(a)]
      BY DEF ChainIntact, BlocksOf, StartBlock, LastBlock
    <3>2. CASE a = new
      BY <1>5, <2>2, <3>2
    <3>3. CASE a \in owned
      <4>1. i \notin s .. (s + n - 1)
        BY <2>2, <2>3, <3>3
      <4> QED
        BY <1>5, <3>3, <4>1 DEF IInv, ChainIntact
    <3> QED
      BY <2>1, <3>2, <3>3
  <2>7. NoBlockLost'
    <3>1. SUFFICES ASSUME NEW i \in Blocks, entries'[i].taken
                   PROVE  \E a \in owned' : i \in BlocksOf(a)
      BY DEF NoBlockLost, BlocksOf, StartBlock, LastBlock
    <3>2. CASE i \in s .. (s + n - 1)
      BY <2>1, <2>2, <3>2
    <3>3. CASE i \notin s .. (s + n - 1)
      BY <1>5, <2>1, <3>1, <3>3 DEF IInv, NoBlockLost
    <3> QED
      BY <3>2, <3>3
  <2> QED
    BY <2>4, <2>5, <2>6, <2>7 DEF IInv
<1> QED
  BY <1>7, <1>8

\* heap_free of an outstanding allocation preserves the invariant.
LEMMA FreePreserves ==
  ASSUME IInv, NEW a \in owned, Free(a)
  PROVE  IInv'
<1>1. /\ entries \in [Blocks -> Entry]
      /\ StartBlock(a) \in Blocks
      /\ a.blocks \in Nat \ {0}
  BY DEF IInv, TypeOK
<1>2. /\ owned' = owned \ {a}
      /\ entries' = heap_mark_blocks_free(entries, StartBlock(a))
  BY DEF Free, heap_free, StartBlock
<1>3. ~(StartBlock(a) < 0)
  BY <1>1, HeapAssumption DEF Blocks
<1>4. entries' = [i \in Blocks |-> IF i \in BlocksOf(a) \cap Blocks
                                     THEN EntryFree ELSE entries[i]]
  BY <1>2, <1>3, ChainIsAllocation DEF heap_mark_blocks_free
<1>5. \A i \in Blocks :
        /\ i \in BlocksOf(a) => entries'[i] = EntryFree
        /\ i \notin BlocksOf(a) => entries'[i] = entries[i]
  BY <1>4
<1>6. entries' \in [Blocks -> Entry]
  BY <1>1, <1>4 DEF Entry, EntryFree
<1>7. \A b \in owned' : b \in owned /\ BlocksOf(a) \cap BlocksOf(b) = {}
  BY <1>2 DEF IInv, OwnedDisjoint
<1>8. TypeOK'
  BY <1>2, <1>6, <1>7 DEF IInv, TypeOK, StartBlock
<1>9. OwnedDisjoint'
  BY <1>7 DEF IInv, OwnedDisjoint, BlocksOf, StartBlock, LastBlock
<1>10. ChainIntact'
  <2>1. SUFFICES ASSUME NEW b \in owned', NEW i \in BlocksOf(b) \cap Blocks
                 PROVE  entries'[i] = [taken |-> TRUE,
                                       first |-> i = StartBlock(b),
                                       next  |-> i # LastBlock(b)]
    BY DEF ChainIntact, BlocksOf, StartBlock, LastBlock
  <2> QED
    BY <1>5, <1>7 DEF IInv, ChainIntact
<1>11. NoBlockLost'
  <2>1. SUFFICES ASSUME NEW i \in Blocks, entries'[i].taken
                 PROVE  \E b \in owned' : i \in BlocksOf(b)
    BY DEF NoBlockLost, BlocksOf, StartBlock, LastBlock
  <2>2. i \notin BlocksOf(a)
    BY <1>5, <2>1 DEF EntryFree
  <2>3. PICK b \in owned : i \in BlocksOf(b)
    BY <1>5, <2>1, <2>2 DEF IInv, NoBlockLost
  <2> QED
    BY <1>2, <2>2, <2>3
<1> QED
  BY <1>8, <1>9, <1>10, <1>11 DEF IInv

\* The steps that change nothing.
LEMMA IdlePreserves ==
  ASSUME IInv, UNCHANGED vars
  PROVE  IInv'
  BY DEF vars, IInv, TypeOK, OwnedDisjoint, ChainIntact, NoBlockLost,
         BlocksOf, StartBlock, LastBlock

\* kfree(0) leaves the table alone.
LEMMA FreeNullIdle ==
  ASSUME FreeNull
  PROVE  UNCHANGED vars
  BY NullBelowPool DEF FreeNull, heap_free, heap_mark_blocks_free, vars

-----------------------------------------------------------------------------
\* The invariant is inductive: heap_create establishes it and every call of
\* heap_malloc and heap_free that a client may make preserves it.
THEOREM HeapInductive == Spec => []IInv
<1>1. Init => IInv
  BY DEF Init, heap_create, IInv, TypeOK, OwnedDisjoint, ChainIntact,
         NoBlockLost, Entry, EntryFree
<1>2. IInv /\ [Next]_vars => IInv'
  <2>1. SUFFICES ASSUME IInv, [Next]_vars PROVE IInv'
    OBVIOUS
  <2>2. ASSUME NEW size \in Sizes, Malloc(size) PROVE IInv'
    BY <2>1, <2>2, MallocPreserves
  <2>3. ASSUME NEW size \in Sizes, MallocFails(size) PROVE IInv'
    BY <2>1, <2>3, IdlePreserves DEF MallocFails
  <2>4. ASSUME NEW a \in owned, Free(a) PROVE IInv'
    BY <2>1, <2>4, FreePreserves
  <2>5. CASE FreeNull
    BY <2>1, <2>5, FreeNullIdle, IdlePreserves
  <2>6. CASE UNCHANGED vars
    BY <2>1, <2>6, IdlePreserves
  <2> QED
    BY <2>1, <2>2, <2>3, <2>4, <2>5, <2>6 DEF Next
<1> QED
  BY <1>1, <1>2, PTL DEF Spec

\* The table keeps its shape, and every allocation starts in it.
THEOREM HeapTypeOK == Spec => []TypeOK
<1>1. IInv => TypeOK
  BY DEF IInv
<1> QED
  BY <1>1, HeapInductive, PTL

\* heap_malloc never hands out a block that a client still holds.
THEOREM HeapOwnedDisjoint == Spec => []OwnedDisjoint
<1>1. IInv => OwnedDisjoint
  BY DEF IInv
<1> QED
  BY <1>1, HeapInductive, PTL

\* The flags that heap_mark_blocks_free walks along stay intact.
THEOREM HeapChainIntact == Spec => []ChainIntact
<1>1. IInv => ChainIntact
  BY DEF IInv
<1> QED
  BY <1>1, HeapInductive, PTL

\* A taken block always belongs to an outstanding allocation.
THEOREM HeapNoBlockLost == Spec => []NoBlockLost
<1>1. IInv => NoBlockLost
  BY DEF IInv
<1> QED
  BY <1>1, HeapInductive, PTL

-----------------------------------------------------------------------------
\* Every step of the heap is a step of the pool, or leaves the pool alone.
LEMMA StepIsPoolStep ==
  ASSUME IInv, [Next]_vars
  PROVE  [Pool!Next]_{BlocksOf(a) : a \in owned}
<1> DEFINE Held(A) == {BlocksOf(a) : a \in A}
<1>1. Held(owned)' = Held(owned')
  BY DEF BlocksOf, StartBlock, LastBlock
<1>2. ASSUME NEW size \in Sizes, Malloc(size)
      PROVE  Pool!Alloc \/ Held(owned') = Held(owned)
  <2> DEFINE n == TotalBlocks(size)
  <2>1. n \in Nat
    BY TotalBlocksNat
  <2>2. PICK s \in Blocks :
          /\ heap_get_start_block(entries, n, s)
          /\ \/ owned' = owned
             \/ /\ n # 0
                /\ owned' = owned \cup
                      {[ptr |-> heap_block_to_address(s), blocks |-> n]}
    BY <1>2 DEF Malloc
  <2> HIDE DEF n
  <2>3. CASE n # 0 /\ owned' = owned \cup
                 {[ptr |-> heap_block_to_address(s), blocks |-> n]}
    <3> DEFINE new == [ptr |-> heap_block_to_address(s), blocks |-> n]
    <3>1. BlocksOf(new) = s .. (s + n - 1) /\ s \in BlocksOf(new)
      BY <2>1, <2>3, AddressRoundTrip, HeapAssumption
      DEF StartBlock, LastBlock, BlocksOf, Blocks
    <3> HIDE DEF new
    <3>2. \A a \in owned : BlocksOf(a) \cap BlocksOf(new) = {}
      BY <2>1, <2>2, <3>1, MallocDisjoint
    <3>3. owned' = owned \cup {new}
      BY <2>3 DEF new
    <3>4. Held(owned') = Held(owned) \cup {BlocksOf(new)}
      BY <3>3
    <3>5. BlocksOf(new) # {} /\ BlocksOf(new) \cap UNION Held(owned) = {}
      BY <3>1, <3>2
    <3> QED
      BY <1>1, <3>4, <3>5 DEF Pool!Alloc
  <2> QED
    BY <2>2, <2>3
<1>3. ASSUME NEW a \in owned, Free(a)
      PROVE  Pool!Release
  <2>1. owned' = owned \ {a}
    BY <1>3 DEF Free
  <2>2. \A b \in owned \ {a} : BlocksOf(b) # BlocksOf(a)
    <3>1. StartBlock(a) \in BlocksOf(a)
      BY HeapAssumption DEF IInv, TypeOK, BlocksOf, LastBlock, Blocks
    <3> QED
      BY <3>1 DEF IInv, OwnedDisjoint
  <2>3. Held(owned') = Held(owned) \ {BlocksOf(a)}
    BY <2>1, <2>2
  <2> QED
    BY <1>1, <2>3 DEF Pool!Release
<1>4. ASSUME UNCHANGED vars
      PROVE  Held(owned') = Held(owned)
  BY <1>4 DEF vars
<1>5. ASSUME NEW size \in Sizes, MallocFails(size)
      PROVE  Held(owned') = Held(owned)
  BY <1>5 DEF MallocFails, vars
<1>6. CASE FreeNull
  BY <1>1, <1>4, <1>6, FreeNullIdle
<1> QED
  BY <1>1, <1>2, <1>3, <1>4, <1>5, <1>6 DEF Next, Pool!Next

\* The kernel heap implements the pool: a block has one holder at a time and
\* heap_free gives back one allocation, whatever the size of the table.
THEOREM HeapImplementsPool == Spec => ImplementsPool
<1>1. Init => Pool!Init
  BY DEF Init, heap_create, Pool!Init
<1>2. IInv /\ [Next]_vars => [Pool!Next]_{BlocksOf(a) : a \in owned}
  BY StepIsPoolStep
<1> QED
  BY <1>1, <1>2, HeapInductive, PTL DEF Spec, ImplementsPool, Pool!Spec

-----------------------------------------------------------------------------
\* The loop of heap_mark_blocks_taken, which carries the flags of the block
\* that comes next, leaves what the operator describes.
LEMMA MarkLoop ==
  ASSUME entries \in [Blocks -> Entry],
         NEW s \in Blocks, NEW n \in 0 .. (TotalEntries - s)
  PROVE  MarkAfter(s, n) = heap_mark_blocks_taken(entries, s, n)
<1> DEFINE end == s + n - 1
           Flags(k) == [taken |-> TRUE, first |-> k = s, next |-> k # end]
           Next1(k) == IF k = 0
                         THEN [taken |-> TRUE, first |-> TRUE, next |-> n > 1]
                         ELSE [taken |-> TRUE, first |-> FALSE,
                               next  |-> s + k - 1 # end - 1]
           step(was, k) == [table |-> [was.table EXCEPT ![s + k - 1] = was.entry],
                            entry |-> [taken |-> TRUE, first |-> FALSE,
                                       next  |-> s + k - 1 # end - 1]]
           turn(r) == [k \in 0 .. n |->
                         IF k = 0
                           THEN [table |-> entries, entry |-> Next1(0)]
                           ELSE step(r[k - 1], k)]
           loop == CHOOSE r : r = turn(r)
           Marked(k) == [i \in Blocks |-> IF i \in s .. (s + k - 1)
                                            THEN Flags(i) ELSE entries[i]]
           w == [k \in 0 .. n |-> [table |-> Marked(k), entry |-> Next1(k)]]
<1>1. MarkAfter(s, n) = loop[n].table
  BY DEF MarkAfter
<1>2. /\ s \in Nat /\ n \in Nat /\ s + n <= TotalEntries
      /\ TotalEntries \in Nat
  BY HeapAssumption DEF Blocks
<1>3. \A k \in 1 .. n :
        [Marked(k - 1) EXCEPT ![s + k - 1] = Next1(k - 1)] = Marked(k)
  <2> SUFFICES ASSUME NEW k \in 1 .. n
               PROVE  [Marked(k - 1) EXCEPT ![s + k - 1] = Next1(k - 1)] = Marked(k)
    OBVIOUS
  <2>1. s + k - 1 \in Blocks
    BY <1>2 DEF Blocks
  <2>2. Next1(k - 1) = Flags(s + k - 1)
    <3>1. CASE k = 1
      <4>1. /\ (n > 1) <=> (s + k - 1 # end)
            /\ TRUE <=> (s + k - 1 = s)
        BY <1>2, <3>1
      <4>2. /\ (n > 1) = (s + k - 1 # end)
            /\ TRUE = (s + k - 1 = s)
        BY <1>2, <3>1, <4>1, SMT
      <4>3. k - 1 = 0
        BY <3>1
      <4> QED
        BY <4>2, <4>3, Zenon
    <3>2. CASE k # 1
      <4>1. /\ (s + (k - 1) - 1 # end - 1) <=> (s + k - 1 # end)
            /\ FALSE <=> (s + k - 1 = s)
        BY <1>2, <3>2
      <4>2. /\ (s + (k - 1) - 1 # end - 1) = (s + k - 1 # end)
            /\ FALSE = (s + k - 1 = s)
        BY <4>1, Zenon
      <4>3. k - 1 # 0
        BY <3>2
      <4> HIDE DEF end
      <4> QED
        BY <4>2, <4>3, Zenon
    <3> QED
      BY <3>1, <3>2
  <2>3. ASSUME NEW i \in Blocks, i # s + k - 1
        PROVE  i \in s .. (s + (k - 1) - 1) <=> i \in s .. (s + k - 1)
    BY <1>2, <2>3 DEF Blocks
  <2>4. s + k - 1 \in s .. (s + k - 1)
    BY <1>2
  <2> HIDE DEF Flags, Next1
  <2> QED
    BY <2>1, <2>2, <2>3, <2>4
<1>4. Marked(0) = entries
  <2>1. \A i \in Blocks : i \notin s .. (s + 0 - 1)
    BY <1>2 DEF Blocks
  <2> HIDE DEF Flags
  <2> QED
    BY <2>1
<1>5. turn(w) = w
  <2> HIDE DEF Marked
  <2>1. ASSUME NEW k \in 0 .. n
        PROVE  turn(w)[k] = w[k]
    <3>1. CASE k = 0
      BY <1>4, <3>1
    <3>2. CASE k # 0
      <4>1. k \in 1 .. n /\ k - 1 \in 0 .. n
        BY <3>2
      <4>2. turn(w)[k] = step(w[k - 1], k)
        BY <3>2
      <4>3. w[k - 1].table = Marked(k - 1) /\ w[k - 1].entry = Next1(k - 1)
        BY <4>1
      <4>4. w[k] = [table |-> Marked(k), entry |-> Next1(k)]
        OBVIOUS
      <4> QED
        BY <1>3, <3>2, <4>1, <4>2, <4>3, <4>4
    <3> QED
      BY <3>1, <3>2
  <2> HIDE DEF step, Next1
  <2> QED
    BY <2>1
<1>6. loop = turn(loop)
  <2> HIDE DEF turn, w
  <2> QED
    BY <1>5
<1> HIDE DEF loop
<1>7. \A k \in 0 .. n : loop[k] = w[k]
  <2> DEFINE T == {k \in 0 .. n : loop[k] = w[k]}
  <2>1. \A k \in 0 .. n :
          /\ w[k] = IF k = 0 THEN [table |-> entries, entry |-> Next1(0)]
                             ELSE step(w[k - 1], k)
          /\ loop[k] = IF k = 0 THEN [table |-> entries, entry |-> Next1(0)]
                                ELSE step(loop[k - 1], k)
    <3> DEFINE v == w
    <3>1. v = turn(v)
      BY <1>5
    <3> HIDE DEF v, step, Next1
    <3>2. \A k \in 0 .. n :
            /\ v[k] = IF k = 0 THEN [table |-> entries, entry |-> Next1(0)]
                               ELSE step(v[k - 1], k)
            /\ loop[k] = IF k = 0 THEN [table |-> entries, entry |-> Next1(0)]
                                  ELSE step(loop[k - 1], k)
      BY <1>6, <3>1
    <3> QED
      BY <3>2 DEF v
  <2> HIDE DEF w, step, Next1
  <2>2. 0 \in T
    BY <1>2, <2>1
  <2>3. \A k \in 1 .. n : k - 1 \in T => k \in T
    BY <2>1
  <2>4. n \in Nat
    BY <1>2
  <2> HIDE DEF T
  <2>5. \A k \in 0 .. n : k \in T
    BY <2>2, <2>3, <2>4, TurnByTurn
  <2> QED
    BY <2>5 DEF T
<1>8. loop[n].table = Marked(n)
  <2>1. n \in 0 .. n /\ loop[n] = w[n]
    BY <1>2, <1>7
  <2> HIDE DEF Marked, Next1
  <2>2. w[n] = [table |-> Marked(n), entry |-> Next1(n)]
    BY <2>1
  <2> HIDE DEF w
  <2> QED
    BY <2>1, <2>2
<1> QED
  BY <1>1, <1>8 DEF heap_mark_blocks_taken

\* The walk of heap_mark_blocks_free, which reads HAS_NEXT of a block before it
\* clears it, frees what the operator describes.
LEMMA FreeLoop ==
  ASSUME entries \in [Blocks -> Entry], NEW s \in Blocks
  PROVE  heap_mark_blocks_free(entries, s) = FreeAfter(s)
<1> DEFINE step(was, i) ==
             IF was.go
               THEN [table |-> [was.table EXCEPT ![i - 1] = EntryFree],
                     go    |-> was.table[i - 1].next]
               ELSE was
           after(r, i) == IF i = s THEN [table |-> entries, go |-> TRUE]
                                   ELSE step(r[i - 1], i)
           turn(r) == [i \in s .. TotalEntries |-> after(r, i)]
           loop == CHOOSE r : r = turn(r)
           C == Chain(entries, s)
           Cleared(i) == [b \in Blocks |-> IF b < i /\ b \in C
                                             THEN EntryFree ELSE entries[b]]
           Go(i) == \A j \in s .. (i - 1) : entries[j].next
<1>1. FreeAfter(s) = loop[TotalEntries].table
  BY DEF FreeAfter
<1>2. s \in Nat /\ TotalEntries \in Nat /\ s < TotalEntries
  BY HeapAssumption DEF Blocks
<1>3. C \subseteq Blocks /\ \A b \in Blocks : b \in C <=> b >= s /\ Go(b)
  BY DEF Chain
<1>4. \A b \in Blocks : entries[b].next \in BOOLEAN
  BY DEF Entry
<1> HIDE DEF C
<1>5. ASSUME NEW i \in (s + 1) .. TotalEntries
      PROVE  /\ i - 1 \in Blocks /\ i - 1 \in s .. TotalEntries
             /\ Go(i) = (Go(i - 1) /\ entries[i - 1].next)
             /\ Go(i - 1) => Cleared(i) = [Cleared(i - 1) EXCEPT ![i - 1] = EntryFree]
             /\ ~Go(i - 1) => Cleared(i) = Cleared(i - 1)
             /\ Cleared(i - 1)[i - 1] = entries[i - 1]
  <2>1. i - 1 \in Blocks /\ i - 1 \in s .. TotalEntries
    BY <1>2 DEF Blocks
  <2>2. Go(i) <=> (Go(i - 1) /\ entries[i - 1].next)
    <3>1. \A j : j \in s .. (i - 1) <=> j \in s .. (i - 1 - 1) \/ j = i - 1
      BY <1>2
    <3> QED
      BY <3>1
  <2>3. Go(i) = (Go(i - 1) /\ entries[i - 1].next)
    BY <2>2
  <2>4. Go(i - 1) <=> i - 1 \in C
    BY <1>2, <1>3, <2>1
  <2> HIDE DEF Go
  <2>5. \A b \in Blocks : b < i <=> b < i - 1 \/ b = i - 1
    BY DEF Blocks
  <2>6. Cleared(i - 1)[i - 1] = entries[i - 1]
    BY <2>1 DEF Blocks
  <2>7. ASSUME Go(i - 1)
        PROVE  Cleared(i) = [Cleared(i - 1) EXCEPT ![i - 1] = EntryFree]
    BY <2>1, <2>4, <2>5, <2>7
  <2>8. ASSUME ~Go(i - 1)
        PROVE  Cleared(i) = Cleared(i - 1)
    BY <2>1, <2>4, <2>5, <2>8
  <2> QED
    BY <2>1, <2>3, <2>6, <2>7, <2>8
<1>6. Cleared(s) = entries /\ Go(s) = TRUE
  <2>1. \A b \in Blocks : b \in C => ~ (b < s)
    BY <1>2, <1>3 DEF Blocks
  <2>2. Go(s) <=> TRUE
    BY <1>2
  <2>3. Go(s) = TRUE
    BY <2>2
  <2> HIDE DEF Go
  <2>4. Cleared(s) = entries
    BY <2>1
  <2> QED
    BY <2>3, <2>4
<1> HIDE DEF Go, Cleared
<1> DEFINE State(i) == [table |-> Cleared(i), go |-> Go(i)]
<1>15. /\ State(s) = [table |-> entries, go |-> TRUE]
       /\ \A i : State(i).table = Cleared(i) /\ State(i).go = Go(i)
  BY <1>6
<1> HIDE DEF State
<1>16. PICK w : w = [i \in s .. TotalEntries |-> State(i)]
  OBVIOUS
<1>17. \A i \in s .. TotalEntries : w[i] = State(i)
  BY <1>16
<1>7. \A i \in s .. TotalEntries :
        w[i] = IF i = s THEN [table |-> entries, go |-> TRUE]
                        ELSE step(w[i - 1], i)
  <2> SUFFICES ASSUME NEW i \in s .. TotalEntries
               PROVE  w[i] = IF i = s THEN [table |-> entries, go |-> TRUE]
                                      ELSE step(w[i - 1], i)
    OBVIOUS
  <2>1. CASE i = s
    BY <1>15, <1>17, <2>1
  <2>2. CASE i # s
    <3>1. i \in (s + 1) .. TotalEntries
      BY <1>2, <2>2
    <3>2. w[i - 1] = State(i - 1) /\ w[i] = State(i)
      BY <1>5, <1>17, <3>1
    <3>3. State(i) = step(State(i - 1), i)
      <4>1. CASE Go(i - 1)
        <5>1. Go(i) = entries[i - 1].next
          BY <1>4, <1>5, <3>1, <4>1
        <5>2. Cleared(i - 1)[i - 1].next = entries[i - 1].next
          BY <1>5, <3>1
        <5> QED
          BY <1>5, <1>15, <3>1, <4>1, <5>1, <5>2 DEF State
      <4>2. CASE ~Go(i - 1)
        <5>1. ~Go(i)
          BY <1>5, <3>1, <4>2
        <5>2. Go(i) = Go(i - 1)
          BY <4>2, <5>1 DEF Go
        <5> QED
          BY <1>5, <1>15, <3>1, <4>2, <5>2 DEF State
      <4> QED
        BY <4>1, <4>2
    <3> HIDE DEF step
    <3> QED
      BY <2>2, <3>2, <3>3
  <2> HIDE DEF step
  <2> QED
    BY <2>1, <2>2
<1> HIDE DEF step
<1>8. turn(w) = w
  <2>1. \A i \in s .. TotalEntries : w[i] = after(w, i)
    BY <1>7
  <2>2. w = [i \in s .. TotalEntries |-> w[i]]
    BY <1>16, Zenon
  <2> HIDE DEF after
  <2> QED
    BY <2>1, <2>2, Zenon
<1>9. loop = turn(loop)
  <2> HIDE DEF turn
  <2> QED
    BY <1>8
<1> HIDE DEF loop
<1>10. \A i \in s .. TotalEntries :
         loop[i] = IF i = s THEN [table |-> entries, go |-> TRUE]
                            ELSE step(loop[i - 1], i)
  BY <1>9
<1>11. loop[TotalEntries] = w[TotalEntries]
  <2> HIDE DEF turn
  <2> DEFINE n == TotalEntries - s
             T == {k \in 0 .. n : loop[s + k] = w[s + k]}
  <2>1. n \in Nat /\ s + n = TotalEntries
    BY <1>2
  <2>2. 0 \in T
    <3>1. s + 0 = s /\ s \in s .. TotalEntries /\ 0 \in 0 .. n
      BY <1>2, <2>1
    <3> HIDE DEF n
    <3> QED
      BY <1>2, <1>7, <1>10, <3>1
  <2>3. ASSUME NEW k \in 1 .. n, k - 1 \in T
        PROVE  k \in T
    <3>1. PICK i \in s .. TotalEntries : i = s + k /\ i # s /\ i - 1 = s + (k - 1)
      BY <1>2, <2>1
    <3>2. loop[i - 1] = w[i - 1]
      BY <2>3, <3>1
    <3>3. loop[i] = w[i]
      BY <1>7, <1>10, <3>1, <3>2
    <3> QED
      BY <3>1, <3>3
  <2> HIDE DEF T, n
  <2>4. \A k \in 0 .. n : k \in T
    BY <2>1, <2>2, <2>3, TurnByTurn
  <2>5. loop[s + n] = w[s + n]
    BY <2>1, <2>4 DEF T
  <2> QED
    BY <2>1, <2>5
<1>12. w[TotalEntries].table = Cleared(TotalEntries)
  <2>1. TotalEntries \in s .. TotalEntries
    BY <1>2
  <2> QED
    BY <1>15, <1>17, <2>1
<1>13. heap_mark_blocks_free(entries, s)
         = [b \in Blocks |-> IF b \in C THEN EntryFree ELSE entries[b]]
  BY <1>2 DEF heap_mark_blocks_free, C
<1>14. \A b \in Blocks : b < TotalEntries
  BY HeapAssumption DEF Blocks
<1> QED
  BY <1>1, <1>11, <1>12, <1>13, <1>14 DEF Cleared

-----------------------------------------------------------------------------
\* The loops of heap_mark_blocks_taken and heap_mark_blocks_free leave what
\* their operators describe, wherever they start, in a table of any size.
THEOREM HeapMarksAgree == Spec => []MarksAgree
<1>1. IInv => MarksAgree
  BY MarkLoop, FreeLoop DEF IInv, TypeOK, MarksAgree
<1> QED
  BY <1>1, HeapInductive, PTL

-----------------------------------------------------------------------------
(***************************************************************************)
(* What the scan of heap_get_start_block knows before block k, when it has *)
(* not stopped: the free run that ends at k and no run of n before it; and *)
(* when it has: the first run of n.                                        *)
(***************************************************************************)
Scanned(n, k, was) ==
  LET start == k - was.current_block IN
  /\ start >= 0
  /\ was.block_start = IF was.current_block = 0 THEN -1 ELSE start
  /\ \A i \in start .. (k - 1) : ~entries[i].taken
  /\ start = 0 \/ entries[start - 1].taken
  /\ n > 0 => /\ was.current_block < n
              /\ \A b \in 0 .. (start - 1) : ~FreeRun(entries, b, n)

Found(n, was) ==
  /\ n > 0 /\ was.block_start \in Blocks
  /\ FreeRun(entries, was.block_start, n)
  /\ \A b \in 0 .. (was.block_start - 1) : ~FreeRun(entries, b, n)

ScanState == [block_start : Int, current_block : Nat, broke : BOOLEAN]

\* One turn of the scan, which looks at the block before k.
ScanTurn(n, k, was) ==
  CASE was.broke -> was
    [] ~was.broke /\ entries[k - 1].taken ->
         [block_start |-> -1, current_block |-> 0, broke |-> FALSE]
    [] OTHER ->
         [block_start   |-> IF was.block_start = -1 THEN k - 1 ELSE was.block_start,
          current_block |-> was.current_block + 1,
          broke         |-> was.current_block + 1 = n]

LEMMA ScanTurnType ==
  ASSUME NEW n \in Nat, NEW k \in 1 .. TotalEntries, NEW was \in ScanState
  PROVE  ScanTurn(n, k, was) \in ScanState
<1>1. CASE was.broke
  BY <1>1 DEF ScanTurn
<1>2. CASE ~was.broke /\ entries[k - 1].taken
  BY <1>2 DEF ScanTurn, ScanState
<1>3. CASE ~was.broke /\ ~entries[k - 1].taken
  BY <1>3 DEF ScanTurn, ScanState
<1> QED
  BY <1>1, <1>2, <1>3

\* A taken block ends the run: no run of n starts before the next block.
LEMMA ScanResets ==
  ASSUME NEW n \in Nat, NEW k \in 1 .. TotalEntries, NEW was \in ScanState,
         Scanned(n, k - 1, was), entries[k - 1].taken,
         NEW now \in ScanState, now.block_start = -1, now.current_block = 0
  PROVE  Scanned(n, k, now)
<1>1. k \in Nat /\ was.current_block \in Nat /\ TotalEntries \in Nat
  BY HeapAssumption DEF ScanState
<1>2. PICK start \in Nat : start = k - 1 - was.current_block
  BY <1>1 DEF Scanned
<1>3. ASSUME n > 0, NEW b \in 0 .. (k - 1)
      PROVE  ~FreeRun(entries, b, n)
  <2>1. CASE b < start
    BY <1>1, <1>2, <1>3, <2>1 DEF Scanned
  <2>2. CASE ~ (b < start)
    <3>1. was.current_block < n
      BY <1>3 DEF Scanned
    <3>2. k - 1 \in b .. (b + n - 1)
      BY <1>1, <1>2, <2>2, <3>1
    <3> QED
      BY <3>2 DEF FreeRun
  <2> QED
    BY <2>1, <2>2
<1>4. k - now.current_block = k /\ k - 1 \in Int
  BY <1>1
<1>5. \A i \in k .. (k - 1) : FALSE
  BY <1>1
<1> QED
  BY <1>1, <1>3, <1>4, <1>5 DEF Scanned

\* A free block makes the run longer, and stops the scan when it has n blocks.
LEMMA ScanGrows ==
  ASSUME NEW n \in Nat, NEW k \in 1 .. TotalEntries, NEW was \in ScanState,
         Scanned(n, k - 1, was), ~entries[k - 1].taken,
         NEW now \in ScanState,
         now.block_start = IF was.block_start = -1 THEN k - 1 ELSE was.block_start,
         now.current_block = was.current_block + 1
  PROVE  IF now.current_block = n THEN Found(n, now) ELSE Scanned(n, k, now)
<1>1. /\ k \in Nat /\ k <= TotalEntries /\ was.current_block \in Nat
      /\ TotalEntries \in Nat
  BY HeapAssumption DEF ScanState
<1>2. PICK start \in Nat : start = k - 1 - was.current_block
  BY <1>1 DEF Scanned
<1>3. start = k - now.current_block
  BY <1>1, <1>2
<1>4. now.block_start = start
  BY <1>1, <1>2 DEF Scanned
<1>5. \A i \in start .. (k - 1) : ~entries[i].taken
  <2> SUFFICES ASSUME NEW i \in start .. (k - 1)
               PROVE  ~entries[i].taken
    OBVIOUS
  <2>1. i = k - 1 \/ i \in start .. (k - 1 - 1)
    BY <1>1, <1>2
  <2> QED
    BY <1>2, <2>1 DEF Scanned
<1>6. /\ start = 0 \/ entries[start - 1].taken
      /\ n > 0 => /\ was.current_block < n
                  /\ \A b \in 0 .. (start - 1) : ~FreeRun(entries, b, n)
  BY <1>2 DEF Scanned
<1>7. CASE now.current_block = n
  <2>1. n > 0 /\ start + n = k
    BY <1>1, <1>2, <1>7
  <2>2. start \in Blocks
    BY <1>1, <2>1 DEF Blocks
  <2>3. FreeRun(entries, start, n)
    BY <1>1, <1>5, <2>1 DEF FreeRun
  <2> QED
    BY <1>4, <1>6, <1>7, <2>1, <2>2, <2>3 DEF Found
<1>8. CASE now.current_block # n
  <2>1. now.current_block # 0 /\ n > 0 => now.current_block < n
    BY <1>1, <1>6, <1>8
  <2> QED
    BY <1>3, <1>4, <1>5, <1>6, <1>8, <2>1 DEF Scanned
<1> QED
  BY <1>7, <1>8

LEMMA ScanKeeps ==
  ASSUME NEW n \in Nat, NEW k \in 1 .. TotalEntries, NEW was \in ScanState,
         IF was.broke THEN Found(n, was) ELSE Scanned(n, k - 1, was)
  PROVE  LET now == ScanTurn(n, k, was) IN
         IF now.broke THEN Found(n, now) ELSE Scanned(n, k, now)
<1>1. PICK now \in ScanState : now = ScanTurn(n, k, was)
  BY ScanTurnType
<1>2. CASE was.broke
  <2>1. now = was
    BY <1>1, <1>2 DEF ScanTurn
  <2> QED
    BY <1>1, <1>2, <2>1
<1>3. CASE ~was.broke /\ entries[k - 1].taken
  <2>1. now = [block_start |-> -1, current_block |-> 0, broke |-> FALSE]
    BY <1>1, <1>3 DEF ScanTurn
  <2>2. now.block_start = -1 /\ now.current_block = 0 /\ ~now.broke
    BY <2>1
  <2> QED
    BY <1>1, <1>3, <2>2, ScanResets
<1>4. CASE ~was.broke /\ ~entries[k - 1].taken
  <2>1. now = [block_start   |-> IF was.block_start = -1
                                   THEN k - 1 ELSE was.block_start,
               current_block |-> was.current_block + 1,
               broke         |-> was.current_block + 1 = n]
    BY <1>1, <1>4 DEF ScanTurn
  <2>2. /\ now.block_start = IF was.block_start = -1
                               THEN k - 1 ELSE was.block_start
        /\ now.current_block = was.current_block + 1
        /\ now.broke <=> now.current_block = n
    BY <2>1
  <2> QED
    BY <1>1, <1>4, <2>2, ScanGrows
<1> QED
  BY <1>2, <1>3, <1>4

\* The scan has a result, which is that of TotalEntries turns.
LEMMA ScanLoop ==
  ASSUME NEW n \in Nat
  PROVE  \E was \in ScanState :
           /\ ScanAfter(n) = was.block_start
           /\ IF was.broke THEN Found(n, was) ELSE Scanned(n, TotalEntries, was)
<1> DEFINE base == [block_start |-> -1, current_block |-> 0, broke |-> FALSE]
           after(r, k) == IF k = 0 THEN base ELSE ScanTurn(n, k, r[k - 1])
           turn(r) == [k \in 0 .. TotalEntries |-> after(r, k)]
           loop == CHOOSE r : r = turn(r)
<1>1. ScanAfter(n) = loop[TotalEntries].block_start
  BY DEF ScanAfter, ScanTurn
<1>2. TotalEntries \in Nat
  BY HeapAssumption
<1>3. base \in ScanState
  BY DEF ScanState
<1>4. PICK step : step = [k \in 1 .. TotalEntries |->
                            [was \in ScanState |-> ScanTurn(n, k, was)]]
  OBVIOUS
<1>5. step \in Steps(TotalEntries, ScanState)
  <2>1. \A k \in 1 .. TotalEntries :
          [was \in ScanState |-> ScanTurn(n, k, was)] \in [ScanState -> ScanState]
    BY ScanTurnType
  <2> QED
    BY <1>4, <2>1 DEF Steps
<1> HIDE DEF base
<1>6. PICK g : Loop(TotalEntries, ScanState, base, step, g)
  BY <1>2, <1>3, <1>5, LoopRuns
<1>7. g \in [0 .. TotalEntries -> ScanState]
  BY <1>6 DEF Loop
<1>8. \A k \in 0 .. TotalEntries : g[k] = after(g, k)
  <2> SUFFICES ASSUME NEW k \in 0 .. TotalEntries
               PROVE  g[k] = after(g, k)
    OBVIOUS
  <2>1. CASE k = 0
    BY <1>6, <2>1 DEF Loop
  <2>2. CASE k # 0
    <3>1. k \in 1 .. TotalEntries /\ g[k - 1] \in ScanState
      BY <1>2, <1>7, <2>2
    <3>2. g[k] = step[k][g[k - 1]]
      BY <1>6, <3>1 DEF Loop
    <3> QED
      BY <1>4, <2>2, <3>1, <3>2
  <2> QED
    BY <2>1, <2>2
<1>9. turn(g) = g
  <2>1. g = [k \in 0 .. TotalEntries |-> g[k]]
    BY <1>7
  <2> HIDE DEF after
  <2> QED
    BY <1>8, <2>1, Zenon
<1>10. loop = turn(loop)
  <2> HIDE DEF turn
  <2> QED
    BY <1>9
<1> HIDE DEF loop
<1>11. \A k \in 0 .. TotalEntries : loop[k] = after(loop, k)
  <2> HIDE DEF after
  <2> QED
    BY <1>10
<1> DEFINE Right(k, was) ==
             /\ was \in ScanState
             /\ IF was.broke THEN Found(n, was) ELSE Scanned(n, k, was)
           T == {k \in 0 .. TotalEntries : Right(k, loop[k])}
<1>12. Right(0, base)
  <2>1. base.block_start = -1 /\ base.current_block = 0 /\ ~base.broke
    BY DEF base
  <2>2. \A i \in 0 .. (0 - 1) : FALSE
    OBVIOUS
  <2> QED
    BY <1>3, <2>1, <2>2 DEF Scanned
<1>13. 0 \in T
  <2>1. loop[0] = base /\ 0 \in 0 .. TotalEntries
    BY <1>2, <1>11
  <2> HIDE DEF Right
  <2> QED
    BY <1>12, <2>1
<1>14. ASSUME NEW k \in 1 .. TotalEntries, k - 1 \in T
       PROVE  k \in T
  <2>1. Right(k - 1, loop[k - 1])
    BY <1>14
  <2>2. loop[k] = ScanTurn(n, k, loop[k - 1])
    BY <1>11
  <2>3. Right(k, loop[k])
    BY <2>1, <2>2, ScanTurnType, ScanKeeps
  <2> HIDE DEF Right
  <2> QED
    BY <2>3
<1> HIDE DEF Right, T
<1>15. \A k \in 0 .. TotalEntries : k \in T
  BY <1>2, <1>13, <1>14, TurnByTurn
<1>16. Right(TotalEntries, loop[TotalEntries])
  BY <1>2, <1>15 DEF T
<1> QED
  BY <1>1, <1>16 DEF Right

\* A scan that stopped returns the first run of n blocks.
LEMMA ScanFound ==
  ASSUME NEW n \in Nat, NEW was \in ScanState, Found(n, was), NEW s \in Blocks
  PROVE  heap_get_start_block(entries, n, s) <=> was.block_start = s
<1>1. PICK b \in Blocks : b = was.block_start
  BY DEF Found
<1>2. /\ n > 0 /\ FreeRun(entries, b, n)
      /\ \A c \in 0 .. (b - 1) : ~FreeRun(entries, c, n)
  BY <1>1 DEF Found
<1>3. heap_get_start_block(entries, n, s)
        <=> /\ FreeRun(entries, s, n)
            /\ \A c \in 0 .. (s - 1) : ~FreeRun(entries, c, n)
  BY <1>2 DEF heap_get_start_block
<1>4. s < b \/ s = b \/ b < s
  BY DEF Blocks
<1>5. CASE s < b
  <2>1. s \in 0 .. (b - 1)
    BY <1>5 DEF Blocks
  <2> QED
    BY <1>1, <1>2, <1>3, <1>5, <2>1 DEF Blocks
<1>6. CASE b < s
  <2>1. b \in 0 .. (s - 1)
    BY <1>6 DEF Blocks
  <2> QED
    BY <1>1, <1>2, <1>3, <1>6, <2>1 DEF Blocks
<1>7. CASE s = b
  BY <1>1, <1>2, <1>3, <1>7
<1> QED
  BY <1>4, <1>5, <1>6, <1>7

\* A scan to the end of the table returns the free run that it was counting.
LEMMA ScanEnds ==
  ASSUME NEW n \in Nat, NEW was \in ScanState,
         Scanned(n, TotalEntries, was), NEW s \in Blocks
  PROVE  heap_get_start_block(entries, n, s) <=> was.block_start = s
<1>1. TotalEntries \in Nat \ {0} /\ was.current_block \in Nat /\ s \in Nat
      /\ s < TotalEntries
  BY HeapAssumption DEF ScanState, Blocks
<1>2. PICK start \in Nat : start = TotalEntries - was.current_block
  BY <1>1 DEF Scanned
<1>3. /\ was.block_start = IF was.current_block = 0 THEN -1 ELSE start
      /\ \A i \in start .. (TotalEntries - 1) : ~entries[i].taken
      /\ start = 0 \/ entries[start - 1].taken
      /\ n > 0 => /\ was.current_block < n
                  /\ \A b \in 0 .. (start - 1) : ~FreeRun(entries, b, n)
  BY <1>2 DEF Scanned
<1>4. ASSUME n > 0, NEW b \in Blocks
      PROVE  ~FreeRun(entries, b, n)
  <2>1. CASE b < start
    BY <1>2, <1>3, <1>4, <2>1 DEF Blocks
  <2>2. CASE ~ (b < start)
    <3>1. b + n > TotalEntries
      BY <1>1, <1>2, <1>3, <1>4, <2>2 DEF Blocks
    <3> QED
      BY <1>1, <3>1 DEF FreeRun, Blocks
  <2> QED
    BY <2>1, <2>2
<1>5. heap_get_start_block(entries, n, s)
        <=> /\ FreeTail(entries, s)
            /\ \A c \in 0 .. (s - 1) : ~FreeTail(entries, c)
  BY <1>4 DEF heap_get_start_block
<1>6. FreeTail(entries, start)
  BY <1>3 DEF FreeTail
<1>7. ASSUME NEW c \in Nat, c < start
      PROVE  ~FreeTail(entries, c)
  <2>1. start - 1 \in c .. (TotalEntries - 1) /\ start # 0
    BY <1>1, <1>2, <1>7
  <2> QED
    BY <1>3, <2>1 DEF FreeTail
<1>8. CASE s < start
  <2>1. was.block_start # s
    BY <1>1, <1>3, <1>8
  <2> QED
    BY <1>1, <1>5, <1>7, <1>8, <2>1
<1>9. CASE start < s
  <2>1. was.block_start # s /\ start \in 0 .. (s - 1)
    BY <1>1, <1>2, <1>3, <1>9
  <2> QED
    BY <1>5, <1>6, <2>1
<1>10. CASE s = start
  <2>1. was.block_start = s
    BY <1>1, <1>2, <1>3, <1>10
  <2>2. \A c \in 0 .. (s - 1) : ~FreeTail(entries, c)
    BY <1>1, <1>7, <1>10
  <2> QED
    BY <1>5, <1>6, <1>10, <2>1, <2>2
<1> QED
  BY <1>1, <1>8, <1>9, <1>10

\* The loop of heap_get_start_block finds the block that the operator
\* describes, or none as the operator does, in a table of any size, for any
\* number of blocks and whatever the table holds (heap.c).
THEOREM HeapScanAgrees == Spec => []ScanAgrees
<1>1. ScanAgrees
  <2> SUFFICES ASSUME NEW n \in 0 .. (TotalEntries + 1), NEW s \in Blocks
               PROVE  heap_get_start_block(entries, n, s) <=> ScanAfter(n) = s
    BY DEF ScanAgrees
  <2>1. n \in Nat
    BY HeapAssumption
  <2>2. PICK was \in ScanState :
          /\ ScanAfter(n) = was.block_start
          /\ IF was.broke THEN Found(n, was)
                          ELSE Scanned(n, TotalEntries, was)
    BY <2>1, ScanLoop
  <2> QED
    BY <2>1, <2>2, ScanFound, ScanEnds
<1> QED
  BY <1>1, PTL

=============================================================================
