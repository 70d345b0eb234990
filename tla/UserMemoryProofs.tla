-------------------------- MODULE UserMemoryProofs --------------------------
(***************************************************************************)
(* The memory of user programs: what one program can write belongs to no   *)
(* other program and holds nothing of the kernel, for any size of the heap *)
(* and of its pages, any number of programs, and any files.                *)
(*                                                                         *)
(* The second part: a program finds its file at the addresses that its     *)
(* headers name, if the file is linked as the linker script says.          *)
(***************************************************************************)
EXTENDS UserMemory, NumberFacts

\* The page of the first block of the heap.
Base == StartAddress \div BlockSize

\* The pages of a run of n blocks from s on.
RunPages(s, n) == (Base + s) .. (Base + s + n - 1)

(***************************************************************************)
(* A claim: process p uses the blocks that it got for a request of size    *)
(* bytes at ptr.  A claim has the first block, s, and the number, n.       *)
(***************************************************************************)
Claim(p, use, i, ptr, size) ==
  [by |-> p, use |-> use, slot |-> i,
   s |-> H!heap_address_to_block(ptr), n |-> H!TotalBlocks(size)]

Extent(r) == r.s .. (r.s + r.n - 1)

PagesOf(r) == RunPages(r.s, r.n)

\* The heap h keeps the claims R apart, and has the marks of each.
Holds(h, R) ==
  /\ h \in [H!Blocks -> H!Entry]
  /\ \A r \in R : /\ r.s \in H!Blocks /\ r.n \in Nat \ {0}
                  /\ \A i \in Extent(r) : i \in H!Blocks =>
                       h[i] = [taken |-> TRUE, first |-> i = r.s,
                               next  |-> i # r.s + r.n - 1]
  /\ \A q, r \in R : q # r => q.s # r.s

\* The blocks of a claim are free.
Freed(h, r) == \A i \in Extent(r) : i \in H!Blocks => ~h[i].taken

\* No block is taken in g that was not in h.
Shrinks(h, g) == \A b \in H!Blocks : g[b].taken => h[b].taken

\* What p has from malloc.
Alloc(p, allocs) ==
  {Claim(p, "malloc", i, allocs[i].ptr, allocs[i].size) :
     i \in {j \in Slots : allocs[j].ptr # 0}}

\* What the code of p may write besides.
Fixed(p, prog, file, stk) ==
  {Claim(p, "stack", 0, stk, BlockSize),
   Claim(p, "file", 0, prog.elf_memory, file.size)}

\* What the kernel keeps for p.
Kernel(p, rec, prog, tsk) ==
  {Claim(p, "record", 0, rec, BlockSize), Claim(p, "task", 0, tsk, BlockSize)}
    \cup (IF prog.at = 0 THEN {} ELSE {Claim(p, "at", 0, prog.at, BlockSize - 1)})

FixedOf(p) == Fixed(p, program[p], image[p], stack[p])

KernelOf(p) == Kernel(p, record[p], program[p], task[p])

Claims(p) == FixedOf(p) \cup KernelOf(p) \cup Alloc(p, allocations[p])

\* The slots of a process: what is in use was mapped.
AllocOK(allocs) ==
  /\ allocs \in [Slots -> [ptr : Addresses, size : 0 .. (Word - 1)]]
  /\ \A i \in Slots :
       /\ allocs[i].ptr = 0 => allocs[i].size = 0
       /\ allocs[i].ptr # 0 =>
            /\ H!TotalBlocks(allocs[i].size) # 0
            /\ PG!Mappable(allocs[i].ptr, allocs[i].ptr,
                           End(allocs[i].ptr, allocs[i].size))

(***************************************************************************)
(* A directory in which the claims A are mapped to themselves, and nothing *)
(* is writable but these and the frames of the claims F.                   *)
(***************************************************************************)
DirOK(dir, F, A) ==
  /\ dir \in [PG!Pages -> PG!PageEntry]
  /\ \A r \in A : \A v \in PagesOf(r) :
       v \in PG!Pages /\ dir[v] = [frame |-> v, flags |-> "write"]
  /\ \A v \in PG!Pages :
       dir[v].flags = "write" =>
         \/ \E r \in F : dir[v].frame \in PagesOf(r)
         \/ \E r \in A : v \in PagesOf(r)

\* The inductive invariant.
UInv ==
  /\ TypeOK
  /\ Holds(table, UNION {Claims(p) : p \in loaded})
  /\ \A p \in loaded :
       /\ image[p] # NoImage
       /\ AllocOK(allocations[p])
       /\ DirOK(directory[p], FixedOf(p), Alloc(p, allocations[p]))

-----------------------------------------------------------------------------
\* A multiple of the size of a page, and its page.
LEMMA Multiple ==
  ASSUME NEW q \in Int
  PROVE  /\ BlockSize * q \in Int
         /\ (BlockSize * q) % BlockSize = 0
         /\ (BlockSize * q) \div BlockSize = q
<1>1. BlockSize \in Nat \ {0}
  BY UserMemoryAssumption
<1>2. PICK a \in Int, r \in 0 .. (BlockSize - 1) :
        a = BlockSize * q /\ r = 0 /\ a = BlockSize * q + r
  BY <1>1
<1> QED
  BY <1>1, <1>2, RemainderUnique

\* An aligned address is a multiple.
LEMMA AlignedIsMultiple ==
  ASSUME NEW a \in Int, a % BlockSize = 0
  PROVE  a \div BlockSize \in Int /\ a = BlockSize * (a \div BlockSize)
<1>1. BlockSize \in Nat \ {0}
  BY UserMemoryAssumption
<1> QED
  BY <1>1, QuotientRemainder

\* The heap lies in the address space, and pages divide both.
LEMMA Layout ==
  /\ BlockSize \in Nat \ {0} /\ TotalEntries \in Nat \ {0}
  /\ Word \in Nat \ {0} /\ PG!TotalPages \in Nat \ {0}
  /\ Base \in Nat \ {0}
  /\ StartAddress = BlockSize * Base
  /\ Word = BlockSize * PG!TotalPages
  /\ Base + TotalEntries <= PG!TotalPages
<1>1. /\ BlockSize \in Nat \ {0} /\ TotalEntries \in Nat \ {0}
      /\ StartAddress \in Nat \ {0} /\ Word \in Nat
      /\ StartAddress % BlockSize = 0 /\ Word % BlockSize = 0
      /\ StartAddress + TotalEntries * BlockSize <= Word
  BY UserMemoryAssumption
<1>2. /\ Base \in Int /\ StartAddress = BlockSize * Base
  BY <1>1, AlignedIsMultiple DEF Base
<1>3. /\ PG!TotalPages \in Int /\ Word = BlockSize * PG!TotalPages
  BY <1>1, AlignedIsMultiple DEF PG!TotalPages
<1>4. PICK zero \in Int : zero = 0 /\ BlockSize * zero = 0
  BY <1>1
<1>5. Base > 0
  BY <1>1, <1>2, <1>4, ProductGrows
<1>6. PICK end \in Int : end = Base + TotalEntries
  BY <1>1, <1>2
<1>7. BlockSize * end = StartAddress + TotalEntries * BlockSize
  BY <1>1, <1>2, <1>6
<1>8. BlockSize * end <= BlockSize * PG!TotalPages
  BY <1>1, <1>3, <1>7
<1>9. end <= PG!TotalPages
  BY <1>1, <1>3, <1>6, <1>8, ProductGrows
<1> QED
  BY <1>1, <1>2, <1>3, <1>5, <1>6, <1>9

\* The address of a block, its page, and the way back.
LEMMA BlockAddress ==
  ASSUME NEW b \in H!Blocks
  PROVE  /\ H!heap_block_to_address(b) = BlockSize * (Base + b)
         /\ H!heap_block_to_address(b) \in 1 .. (Word - 1)
         /\ H!heap_block_to_address(b) % BlockSize = 0
         /\ PageOf(H!heap_block_to_address(b)) = Base + b
         /\ Base + b \in PG!Pages
         /\ H!heap_address_to_block(H!heap_block_to_address(b)) = b
<1>1. /\ BlockSize \in Nat \ {0} /\ TotalEntries \in Nat \ {0}
      /\ Word \in Nat \ {0} /\ PG!TotalPages \in Nat \ {0}
      /\ Base \in Nat \ {0}
      /\ StartAddress = BlockSize * Base
      /\ Word = BlockSize * PG!TotalPages
      /\ Base + TotalEntries <= PG!TotalPages
  BY Layout
<1>2. b \in Int /\ 0 <= b /\ b < TotalEntries
  BY <1>1 DEF H!Blocks
<1>3. PICK q \in Int : q = Base + b /\ 0 < q /\ q < PG!TotalPages
  BY <1>1, <1>2
<1>4. PICK zero \in Int : zero = 0 /\ BlockSize * zero = 0
  BY <1>1
<1>5. H!heap_block_to_address(b) = BlockSize * q
  BY <1>1, <1>2, <1>3 DEF H!heap_block_to_address
<1>6. BlockSize * q \in 1 .. (Word - 1)
  <2>1. BlockSize * zero + BlockSize <= BlockSize * q
    BY <1>1, <1>3, <1>4, ProductGrows
  <2>2. BlockSize * q + BlockSize <= BlockSize * PG!TotalPages
    BY <1>1, <1>3, ProductGrows
  <2>3. BlockSize * q \in Int
    BY <1>1
  <2> QED
    BY <1>1, <1>4, <2>1, <2>2, <2>3
<1>7. (BlockSize * q) % BlockSize = 0 /\ (BlockSize * q) \div BlockSize = q
  BY Multiple
<1>8. H!heap_address_to_block(BlockSize * q) = b
  <2>1. BlockSize * q - StartAddress = BlockSize * b
    BY <1>1, <1>2, <1>3
  <2>2. (BlockSize * b) \div BlockSize = b
    BY <1>2, Multiple
  <2> QED
    BY <2>1, <2>2 DEF H!heap_address_to_block
<1> QED
  BY <1>1, <1>3, <1>5, <1>6, <1>7, <1>8 DEF PageOf, PG!Pages

\* The null pointer is below the heap.
LEMMA NullBelowHeap == H!heap_address_to_block(0) < 0
<1>1. /\ BlockSize \in Nat \ {0} /\ Base \in Nat \ {0}
      /\ StartAddress = BlockSize * Base
  BY Layout
<1>2. PICK q \in Int : q = -Base
  BY <1>1
<1>3. 0 - StartAddress = BlockSize * q
  BY <1>1, <1>2
<1>4. (BlockSize * q) \div BlockSize = q
  BY Multiple
<1> QED
  BY <1>1, <1>2, <1>3, <1>4 DEF H!heap_address_to_block

-----------------------------------------------------------------------------
\* The number of blocks of a request that gets any.
LEMMA TotalBlocksOf ==
  ASSUME NEW size \in 0 .. (Word - 1), NEW c \in Int,
         NEW r \in 0 .. (BlockSize - 1), size = BlockSize * c + r,
         H!TotalBlocks(size) # 0
  PROVE  /\ H!TotalBlocks(size) = IF r = 0 THEN c ELSE c + 1
         /\ H!TotalBlocks(size) \in 1 .. (PG!TotalPages - 1)
         /\ c \in 0 .. (PG!TotalPages - 1)
<1>1. /\ BlockSize \in Nat \ {0} /\ Word \in Nat \ {0}
      /\ PG!TotalPages \in Nat \ {0} /\ Word = BlockSize * PG!TotalPages
  BY Layout
<1>2. size % BlockSize = r /\ size \div BlockSize = c /\ size \in Int
  BY <1>1, RemainderUnique
<1>3. c < PG!TotalPages
  <2>1. BlockSize * c < BlockSize * PG!TotalPages /\ BlockSize * c \in Int
    BY <1>1
  <2> QED
    BY <1>1, <2>1, ProductGrows
<1>4. c >= 0
  <2>1. PICK minus \in Int : minus = -1 /\ BlockSize * minus = -BlockSize
    BY <1>1
  <2>2. BlockSize * c \in Int /\ BlockSize * c > BlockSize * minus
    BY <1>1, <2>1
  <2>3. ~ (c <= minus)
    BY <1>1, <2>1, <2>2, ProductGrows
  <2> QED
    BY <2>1, <2>3
<1>5. CASE r = 0
  <2>1. H!TotalBlocks(size) = c
    BY <1>2, <1>5 DEF H!TotalBlocks, H!heap_align_value_to_upper
  <2> QED
    BY <1>1, <1>3, <1>4, <1>5, <2>1
<1>6. CASE r # 0
  <2>1. PICK d \in Int : d = c + 1
    OBVIOUS
  <2>2. size - r + BlockSize = BlockSize * d
    BY <1>1, <2>1
  <2>3. H!TotalBlocks(size) = ((BlockSize * d) % Word) \div BlockSize
    BY <1>2, <1>6, <2>2 DEF H!TotalBlocks, H!heap_align_value_to_upper
  <2>4. CASE d = PG!TotalPages
    <3>1. PICK q \in Int, z \in 0 .. (Word - 1) :
            q = 1 /\ z = 0 /\ Word = Word * q + z
      BY <1>1
    <3>2. Word % Word = 0
      BY <1>1, <3>1, RemainderUnique
    <3>3. 0 \div BlockSize = 0
      BY <1>1
    <3> QED
      BY <1>1, <2>3, <2>4, <3>2, <3>3
  <2>5. CASE d # PG!TotalPages
    <3>1. d < PG!TotalPages
      BY <1>1, <1>3, <2>1, <2>5
    <3>2. BlockSize * d \in 0 .. (Word - 1)
      <4>1. BlockSize * d + BlockSize <= BlockSize * PG!TotalPages
        BY <1>1, <3>1, ProductGrows
      <4>2. BlockSize * d \in Int /\ BlockSize * d >= 0
        BY <1>1, <1>2, <2>2
      <4> QED
        BY <1>1, <4>1, <4>2
    <3>3. (BlockSize * d) % Word = BlockSize * d
      BY <1>1, <3>2, RemainderSmall
    <3>4. (BlockSize * d) \div BlockSize = d
      BY Multiple
    <3> QED
      BY <1>1, <1>3, <1>4, <1>6, <2>1, <2>3, <3>1, <3>3, <3>4
  <2> QED
    BY <2>4, <2>5
<1> QED
  BY <1>5, <1>6

\* An address modulo Word: q pages and r bytes, in the address space or behind.
LEMMA Wrapped ==
  ASSUME NEW q \in 0 .. (2 * PG!TotalPages - 1),
         NEW r \in 0 .. (BlockSize - 1)
  PROVE  (BlockSize * q + r) % Word =
           IF q < PG!TotalPages THEN BlockSize * q + r
                                ELSE BlockSize * (q - PG!TotalPages) + r
<1>1. /\ BlockSize \in Nat \ {0} /\ Word \in Nat \ {0}
      /\ PG!TotalPages \in Nat \ {0} /\ Word = BlockSize * PG!TotalPages
  BY Layout
<1>2. ASSUME NEW p \in 0 .. (PG!TotalPages - 1)
      PROVE  BlockSize * p + r \in 0 .. (Word - 1)
  <2>1. p \in Int /\ p < PG!TotalPages /\ p >= 0
    BY <1>1
  <2>2. BlockSize * p + BlockSize <= BlockSize * PG!TotalPages
    BY <1>1, <2>1, ProductGrows
  <2>3. BlockSize * p \in Nat
    BY <1>1
  <2> QED
    BY <1>1, <2>2, <2>3
<1>3. CASE q < PG!TotalPages
  <2>1. BlockSize * q + r \in 0 .. (Word - 1)
    BY <1>1, <1>2, <1>3
  <2>2. PICK a \in 0 .. (Word - 1) : a = BlockSize * q + r
    BY <2>1
  <2>3. a % Word = a
    BY <1>1, RemainderSmall
  <2> QED
    BY <1>3, <2>2, <2>3
<1>4. CASE q >= PG!TotalPages
  <2>1. PICK p \in 0 .. (PG!TotalPages - 1) : p = q - PG!TotalPages
    BY <1>1, <1>4
  <2>2. PICK a \in Int, z \in 0 .. (Word - 1), one \in Int :
          a = BlockSize * q + r /\ z = BlockSize * p + r /\ one = 1
    BY <1>1, <1>2
  <2>3. a = Word * one + z
    <3>1. BlockSize * q = BlockSize * PG!TotalPages + BlockSize * p
      BY <1>1, <2>1
    <3> QED
      BY <1>1, <2>2, <3>1
  <2>4. a % Word = z
    BY <1>1, <2>3, RemainderUnique
  <2> QED
    BY <1>1, <1>4, <2>1, <2>2, <2>4
<1> QED
  BY <1>1, <1>3, <1>4

\* paging_align_address gives an aligned address.
LEMMA AlignAddress ==
  ASSUME NEW q \in 0 .. (PG!TotalPages - 1), NEW r \in 0 .. (BlockSize - 1)
  PROVE  PG!paging_align_address(BlockSize * q + r) =
           IF r = 0 THEN BlockSize * q
           ELSE IF q + 1 < PG!TotalPages THEN BlockSize * (q + 1) ELSE 0
<1>1. /\ BlockSize \in Nat \ {0} /\ Word \in Nat \ {0}
      /\ PG!TotalPages \in Nat \ {0} /\ Word = BlockSize * PG!TotalPages
  BY Layout
<1>2. PICK a \in Int : a = BlockSize * q + r
  BY <1>1
<1>3. a % BlockSize = r
  BY <1>1, <1>2, RemainderUnique
<1>4. CASE r = 0
  BY <1>1, <1>2, <1>3, <1>4 DEF PG!paging_align_address, PG!paging_is_aligned
<1>5. CASE r # 0
  <2>1. PICK d \in 0 .. (2 * PG!TotalPages - 1), z \in 0 .. (BlockSize - 1) :
          d = q + 1 /\ z = 0
    BY <1>1
  <2>2. a + BlockSize - r = BlockSize * d + z
    BY <1>1, <1>2, <2>1
  <2>3. PG!paging_align_address(a) = (BlockSize * d + z) % Word
    BY <1>3, <1>5, <2>2 DEF PG!paging_align_address, PG!paging_is_aligned
  <2>4. (BlockSize * d + z) % Word =
           IF d < PG!TotalPages THEN BlockSize * d + z
                                ELSE BlockSize * (d - PG!TotalPages) + z
    BY Wrapped
  <2>5. CASE d < PG!TotalPages
    BY <1>1, <1>2, <1>5, <2>1, <2>3, <2>4, <2>5
  <2>6. CASE ~ (d < PG!TotalPages)
    <3>1. d - PG!TotalPages = 0
      BY <1>1, <2>1, <2>6
    <3>2. BlockSize * (d - PG!TotalPages) = 0
      BY <1>1, <3>1
    <3> QED
      BY <1>1, <1>2, <1>5, <2>1, <2>3, <2>4, <2>6, <3>2
  <2> QED
    BY <2>5, <2>6
<1> QED
  BY <1>4, <1>5

\* The mapping of an allocation ends where its blocks end.
LEMMA EndOfRun ==
  ASSUME NEW b \in H!Blocks, NEW size \in 0 .. (Word - 1),
         NEW ptr, ptr = H!heap_block_to_address(b),
         H!TotalBlocks(size) # 0,
         PG!Mappable(ptr, ptr, End(ptr, size))
  PROVE  /\ H!TotalBlocks(size) \in Nat \ {0}
         /\ End(ptr, size) = BlockSize * (Base + b + H!TotalBlocks(size))
         /\ Base + b + H!TotalBlocks(size) < PG!TotalPages
<1>1. /\ BlockSize \in Nat \ {0} /\ Word \in Nat \ {0}
      /\ PG!TotalPages \in Nat \ {0} /\ Word = BlockSize * PG!TotalPages
      /\ Base \in Nat \ {0} /\ TotalEntries \in Nat \ {0}
      /\ Base + TotalEntries <= PG!TotalPages
  BY Layout
<1>2. PICK q \in 1 .. (PG!TotalPages - 1) : q = Base + b /\ ptr = BlockSize * q
  <2>1. b \in Int /\ 0 <= b /\ b < TotalEntries
    BY <1>1 DEF H!Blocks
  <2> QED
    BY <1>1, <2>1, BlockAddress
<1>3. PICK c \in Int, r \in 0 .. (BlockSize - 1) : size = BlockSize * c + r
  <2>1. size \in Int
    BY <1>1
  <2> QED
    <3>1. PICK c, r : c = size \div BlockSize /\ r = size % BlockSize
      OBVIOUS
    <3>2. c \in Int /\ r \in 0 .. (BlockSize - 1) /\ size = BlockSize * c + r
      BY <1>1, <2>1, <3>1, QuotientRemainder
    <3> QED
      BY <3>2
<1>4. PICK n \in 1 .. (PG!TotalPages - 1) :
        /\ n = H!TotalBlocks(size) /\ n = IF r = 0 THEN c ELSE c + 1
        /\ c \in 0 .. (PG!TotalPages - 1)
  BY <1>3, TotalBlocksOf
<1>5. PICK p \in 0 .. (2 * PG!TotalPages - 1) : p = q + c
  BY <1>1, <1>4
<1>6. ptr + size = BlockSize * p + r
  <2>1. BlockSize * p = BlockSize * q + BlockSize * c
    BY <1>1, <1>5
  <2> QED
    BY <1>1, <1>2, <1>3, <2>1
<1>7. End(ptr, size) >= ptr
  BY DEF PG!Mappable
<1>8. BlockSize * q >= BlockSize
  <2>1. PICK one \in Int : one = 1 /\ BlockSize * one = BlockSize
    BY <1>1
  <2> QED
    BY <1>1, <2>1, ProductGrows
<1>9. CASE p < PG!TotalPages
  <2>1. (BlockSize * p + r) % Word = BlockSize * p + r
    BY <1>9, Wrapped
  <2>2. PICK p2 \in 0 .. (PG!TotalPages - 1) : p2 = p
    BY <1>1, <1>9
  <2>3. PG!paging_align_address(BlockSize * p2 + r) =
           IF r = 0 THEN BlockSize * p2
           ELSE IF p2 + 1 < PG!TotalPages THEN BlockSize * (p2 + 1) ELSE 0
    BY AlignAddress
  <2>4. End(ptr, size) = PG!paging_align_address(BlockSize * p2 + r)
    BY <1>6, <2>1, <2>2 DEF End
  <2>5. r # 0 => p2 + 1 < PG!TotalPages
    BY <1>1, <1>2, <1>7, <1>8, <2>3, <2>4
  <2>6. q + n = IF r = 0 THEN p2 ELSE p2 + 1
    BY <1>4, <1>5, <2>2
  <2> QED
    BY <1>1, <1>2, <1>4, <2>2, <2>3, <2>4, <2>5, <2>6
<1>10. CASE p >= PG!TotalPages
  <2>1. PICK p2 \in 0 .. (PG!TotalPages - 1) : p2 = p - PG!TotalPages
    BY <1>1, <1>10
  <2>2. (BlockSize * p + r) % Word = BlockSize * p2 + r
    BY <1>1, <1>10, <2>1, Wrapped
  <2>3. PG!paging_align_address(BlockSize * p2 + r) =
           IF r = 0 THEN BlockSize * p2
           ELSE IF p2 + 1 < PG!TotalPages THEN BlockSize * (p2 + 1) ELSE 0
    BY AlignAddress
  <2>4. End(ptr, size) = PG!paging_align_address(BlockSize * p2 + r)
    BY <1>6, <2>2 DEF End
  <2>5. PICK e \in Int : e = IF r = 0 THEN p2 ELSE p2 + 1
    BY <1>1
  <2>6. e < q
    BY <1>1, <1>4, <1>5, <2>1, <2>5
  <2>7. BlockSize * e + BlockSize <= BlockSize * q
    BY <1>1, <2>6, ProductGrows
  <2>8. End(ptr, size) = BlockSize * e \/ End(ptr, size) = 0
    BY <2>3, <2>4, <2>5
  <2>9. BlockSize * e \in Int /\ BlockSize * q \in Int
    BY <1>1
  <2> QED
    BY <1>1, <1>2, <1>7, <1>8, <2>7, <2>8, <2>9
<1> QED
  BY <1>1, <1>9, <1>10

-----------------------------------------------------------------------------
(***************************************************************************)
(* What paging_map_to does to an entry: it stays, or it gets the flags and *)
(* a frame between the physical addresses.                                 *)
(***************************************************************************)
LEMMA MapFrames ==
  ASSUME NEW dir \in [PG!Pages -> PG!PageEntry], NEW flags \in PG!Flags,
         NEW virtual \in Int, NEW physical \in Int,
         NEW end \in 0 .. (Word - 1), physical >= 0
  PROVE  LET new == PG!paging_map_to(dir, virtual, physical, end, flags) IN
         /\ new \in [PG!Pages -> PG!PageEntry]
         /\ \A v \in PG!Pages :
              \/ new[v] = dir[v]
              \/ /\ PG!Mappable(virtual, physical, end)
                 /\ new[v].flags = flags
                 /\ new[v].frame \in PageOf(physical) .. (PageOf(end) - 1)
<1>1. /\ BlockSize \in Nat \ {0} /\ Word \in Nat \ {0}
      /\ PG!TotalPages \in Nat \ {0} /\ Word = BlockSize * PG!TotalPages
  BY Layout
<1> DEFINE new == PG!paging_map_to(dir, virtual, physical, end, flags)
<1>2. CASE ~ PG!Mappable(virtual, physical, end)
  BY <1>2 DEF PG!paging_map_to
<1>3. CASE PG!Mappable(virtual, physical, end)
  <2>1. PICK v0 \in Int : v0 = virtual \div BlockSize
    BY <1>1, QuotientRemainder
  <2>2. PICK p \in Int, e \in Int :
          /\ p = physical \div BlockSize /\ physical = BlockSize * p
          /\ e = end \div BlockSize /\ end = BlockSize * e
    <3>1. end \in Int /\ physical % BlockSize = 0 /\ end % BlockSize = 0
      BY <1>1, <1>3 DEF PG!Mappable, PG!paging_is_aligned
    <3> QED
      BY <1>1, <3>1, AlignedIsMultiple
  <2>3. 0 <= p /\ p <= e /\ e < PG!TotalPages
    <3>1. BlockSize * p >= 0 /\ BlockSize * p <= BlockSize * e
          /\ BlockSize * e < BlockSize * PG!TotalPages
      BY <1>1, <1>3, <2>2 DEF PG!Mappable
    <3>2. PICK zero \in Int : zero = 0 /\ BlockSize * zero = 0
      BY <1>1
    <3>3. BlockSize * p \in Int /\ BlockSize * e \in Int
          /\ BlockSize * PG!TotalPages \in Int
      BY <1>1
    <3>4. zero <= p
      BY <1>1, <3>1, <3>2, ProductGrows
    <3>5. p <= e
      BY <1>1, <3>1, ProductGrows
    <3>6. ~ (PG!TotalPages <= e)
      BY <1>1, <3>1, <3>3, ProductGrows
    <3> QED
      BY <1>1, <3>2, <3>4, <3>5, <3>6
  <2>4. (end - physical) \div BlockSize = e - p
    <3>1. PICK d \in Int : d = e - p
      BY <2>2
    <3>2. end - physical = BlockSize * d
      BY <1>1, <2>2, <3>1
    <3> QED
      BY <3>1, <3>2, Multiple
  <2> DEFINE turn(v) == (v - v0) % PG!TotalPages
             frame(v) == (p + turn(v)) % PG!TotalPages
  <2>5. new = [v \in PG!Pages |->
                 IF turn(v) < e - p THEN [frame |-> frame(v), flags |-> flags]
                                    ELSE dir[v]]
    BY <1>3, <2>1, <2>2, <2>4
    DEF PG!paging_map_to, PG!paging_map_range, PG!paging_get_indexes
  <2>6. \A v \in PG!Pages :
          /\ turn(v) \in Int /\ turn(v) >= 0
          /\ turn(v) < e - p => frame(v) = p + turn(v) /\ frame(v) \in PG!Pages
    <3> SUFFICES ASSUME NEW v \in PG!Pages
                 PROVE  /\ turn(v) \in Int /\ turn(v) >= 0
                        /\ turn(v) < e - p => /\ frame(v) = p + turn(v)
                                              /\ frame(v) \in PG!Pages
      OBVIOUS
    <3>1. PICK a \in Int : a = v - v0
      BY <1>1 DEF PG!Pages
    <3>2. PICK t \in 0 .. (PG!TotalPages - 1) : t = a % PG!TotalPages
      BY <1>1, QuotientRemainder
    <3>3. t < e - p => (p + t) % PG!TotalPages = p + t /\ p + t \in PG!Pages
      <4> SUFFICES ASSUME t < e - p
                   PROVE  (p + t) % PG!TotalPages = p + t /\ p + t \in PG!Pages
        OBVIOUS
      <4> HIDE DEF turn, frame, new
      <4>0. p \in Int /\ e \in Int /\ t \in Int /\ PG!TotalPages \in Int
        BY <1>1, <2>2, <3>2
      <4>1. p + t \in 0 .. (PG!TotalPages - 1)
        BY <2>3, <3>2, <4>0
      <4>2. PICK f \in 0 .. (PG!TotalPages - 1) : f = p + t
        BY <4>1
      <4>3. f % PG!TotalPages = f
        BY <1>1, RemainderSmall
      <4> QED
        BY <4>1, <4>2, <4>3 DEF PG!Pages
    <3> QED
      BY <1>1, <3>1, <3>2, <3>3
  <2> HIDE DEF turn, frame, new
  <2>7. \A v \in PG!Pages :
          /\ new[v] \in PG!PageEntry
          /\ \/ new[v] = dir[v]
             \/ new[v].flags = flags /\ new[v].frame \in p .. (e - 1)
    <3> SUFFICES ASSUME NEW v \in PG!Pages
                 PROVE  /\ new[v] \in PG!PageEntry
                        /\ \/ new[v] = dir[v]
                           \/ new[v].flags = flags /\ new[v].frame \in p .. (e - 1)
      OBVIOUS
    <3>1. CASE turn(v) < e - p
      <4>1. new[v] = [frame |-> frame(v), flags |-> flags]
        BY <2>5, <3>1
      <4>2. frame(v) \in p .. (e - 1) /\ frame(v) \in PG!Pages
        BY <2>2, <2>6, <3>1
      <4> QED
        BY <4>1, <4>2 DEF PG!PageEntry
    <3>2. CASE ~ (turn(v) < e - p)
      BY <2>5, <3>2
    <3> QED
      BY <3>1, <3>2
  <2>8. new \in [PG!Pages -> PG!PageEntry]
    BY <2>5, <2>7
  <2> QED
    BY <1>3, <2>2, <2>7, <2>8 DEF new, PageOf
<1> QED
  BY <1>2, <1>3

\* The mapping of an allocation: its pages, and no others, become themselves.
LEMMA MapOwnPages ==
  ASSUME NEW dir \in [PG!Pages -> PG!PageEntry], NEW flags \in PG!Flags,
         NEW b \in H!Blocks, NEW size \in 0 .. (Word - 1),
         NEW ptr, ptr = H!heap_block_to_address(b),
         H!TotalBlocks(size) # 0,
         PG!Mappable(ptr, ptr, End(ptr, size))
  PROVE  /\ RunPages(b, H!TotalBlocks(size)) \subseteq PG!Pages
         /\ MapAllocation(dir, ptr, size, flags) =
              [v \in PG!Pages |->
                 IF v \in RunPages(b, H!TotalBlocks(size))
                   THEN [frame |-> v, flags |-> flags] ELSE dir[v]]
<1>1. /\ BlockSize \in Nat \ {0} /\ Word \in Nat \ {0}
      /\ PG!TotalPages \in Nat \ {0} /\ Word = BlockSize * PG!TotalPages
      /\ Base \in Nat \ {0} /\ TotalEntries \in Nat \ {0}
  BY Layout
<1>2. PICK n \in Nat \ {0} :
        /\ n = H!TotalBlocks(size)
        /\ End(ptr, size) = BlockSize * (Base + b + n)
        /\ Base + b + n < PG!TotalPages
  BY EndOfRun
<1>3. PICK q \in 1 .. (PG!TotalPages - 1) :
        q = Base + b /\ ptr = BlockSize * q /\ ptr \div BlockSize = q
  <2>1. b \in Int /\ 0 <= b
    BY <1>1 DEF H!Blocks
  <2> QED
    BY <1>1, <1>2, <2>1, BlockAddress DEF PageOf
<1>4. (End(ptr, size) - ptr) \div BlockSize = n
  <2>1. BlockSize * (q + n) = BlockSize * q + BlockSize * n
    BY <1>1, <1>2, <1>3
  <2>2. End(ptr, size) - ptr = BlockSize * n
    BY <1>1, <1>2, <1>3, <2>1
  <2> QED
    BY <1>2, <2>2, Multiple
<1> DEFINE turn(v) == (v - q) % PG!TotalPages
           frame(v) == (q + turn(v)) % PG!TotalPages
           new == [v \in PG!Pages |->
                     IF turn(v) < n THEN [frame |-> frame(v), flags |-> flags]
                                    ELSE dir[v]]
<1>5. PG!paging_map_to(dir, ptr, ptr, End(ptr, size), flags) = new
  BY <1>3, <1>4
  DEF PG!paging_map_to, PG!paging_map_range, PG!paging_get_indexes
<1>6. MapAllocation(dir, ptr, size, flags) = new
  BY <1>5 DEF MapAllocation, Computed
<1>7. ASSUME NEW v \in PG!Pages
      PROVE  /\ turn(v) < n <=> v \in q .. (q + n - 1)
             /\ v \in q .. (q + n - 1) => frame(v) = v
  <2>1. v \in Int /\ 0 <= v /\ v < PG!TotalPages
    BY <1>1 DEF PG!Pages
  <2>2. CASE v >= q
    <3>1. PICK a \in 0 .. (PG!TotalPages - 1) : a = v - q
      BY <1>1, <2>1, <2>2
    <3>2. a % PG!TotalPages = a
      BY <1>1, RemainderSmall
    <3>3. PICK w \in 0 .. (PG!TotalPages - 1) : w = v
      BY <1>1, <2>1
    <3>4. w % PG!TotalPages = w
      BY <1>1, RemainderSmall
    <3>5. turn(v) = v - q /\ q + turn(v) = v
      BY <2>1, <3>1, <3>2
    <3>6. frame(v) = v
      BY <3>3, <3>4, <3>5
    <3> QED
      BY <1>2, <2>1, <2>2, <3>5, <3>6
  <2>3. CASE v < q
    <3>1. PICK a \in Int, r \in 0 .. (PG!TotalPages - 1), minus \in Int :
            a = v - q /\ r = a + PG!TotalPages /\ minus = -1
      BY <1>1, <2>1, <2>3
    <3>2. a = PG!TotalPages * minus + r
      BY <1>1, <3>1
    <3>3. a % PG!TotalPages = r
      BY <1>1, <3>2, RemainderUnique
    <3>4. turn(v) = r
      BY <3>1, <3>3
    <3>5. ~ (r < n)
      BY <1>1, <1>2, <1>3, <2>1, <3>1
    <3>6. ~ (v \in q .. (q + n - 1))
      BY <1>2, <2>1, <2>3
    <3> QED
      BY <3>4, <3>5, <3>6
  <2> QED
    BY <1>3, <2>1, <2>2, <2>3
<1>8. RunPages(b, n) = q .. (q + n - 1)
  BY <1>3 DEF RunPages
<1>9. q .. (q + n - 1) \subseteq PG!Pages
  <2> HIDE DEF turn, frame, new
  <2>1. q \in Int /\ n \in Int /\ PG!TotalPages \in Int /\ 0 < q
    BY <1>1, <1>2, <1>3
  <2>2. q + n < PG!TotalPages
    BY <1>2, <1>3
  <2> QED
    BY <2>1, <2>2 DEF PG!Pages
<1> HIDE DEF turn, frame
<1>10. new = [v \in PG!Pages |-> IF v \in q .. (q + n - 1)
                                   THEN [frame |-> v, flags |-> flags]
                                   ELSE dir[v]]
  BY <1>7
<1> QED
  BY <1>2, <1>6, <1>8, <1>9, <1>10

-----------------------------------------------------------------------------
\* Blocks are numbers.
LEMMA BlockFacts ==
  ASSUME NEW b \in H!Blocks
  PROVE  b \in Int /\ b \in Nat /\ 0 <= b /\ b < TotalEntries
BY Layout DEF H!Blocks

LEMMA LowestIn ==
  ASSUME NEW S, S \subseteq Nat, S # {}
  PROVE  Lowest(S) \in S
<1>1. \E m \in S : \A k \in S : m <= k
  BY LeastNumber
<1> QED
  BY <1>1 DEF Lowest

\* The number of blocks of any request.
LEMMA TotalBlocksNat ==
  ASSUME NEW size \in 0 .. (Word - 1)
  PROVE  H!TotalBlocks(size) \in Nat
<1>1. CASE H!TotalBlocks(size) = 0
  BY <1>1
<1>2. CASE H!TotalBlocks(size) # 0
  <2>1. size \in Int /\ BlockSize \in Nat \ {0}
    BY Layout
  <2>2. PICK c \in Int, r \in 0 .. (BlockSize - 1) : size = BlockSize * c + r
    BY <2>1, QuotientRemainder
  <2>3. H!TotalBlocks(size) \in 1 .. (PG!TotalPages - 1)
    BY <1>2, <2>2, TotalBlocksOf
  <2> QED
    BY <2>3
<1> QED
  BY <1>1, <1>2

\* The address of a claim that is in the heap.
LEMMA ClaimAddress ==
  ASSUME NEW ptr \in Addresses, H!heap_address_to_block(ptr) \in H!Blocks
  PROVE  ptr # 0 /\ ptr = H!heap_block_to_address(H!heap_address_to_block(ptr))
<1>1. ptr # 0
  BY NullBelowHeap, BlockFacts
<1>2. PICK b \in H!Blocks : ptr = H!heap_block_to_address(b)
  BY <1>1 DEF Addresses
<1> QED
  BY <1>1, <1>2, BlockAddress

\* Two claims share no block, not even behind the end of the table: the second
\* would start inside the first, whose blocks are not marked as the start.
LEMMA ApartOrdered ==
  ASSUME NEW h, NEW R, Holds(h, R), NEW q \in R, NEW r \in R, q.s < r.s
  PROVE  Extent(q) \cap Extent(r) = {}
<1>1. /\ q.s \in Int /\ r.s \in Int /\ q.n \in Int /\ r.n \in Int /\ r.n > 0
      /\ r.s \in H!Blocks
  BY BlockFacts DEF Holds
<1> SUFFICES ASSUME NEW i \in Extent(q), i \in Extent(r)
             PROVE  FALSE
  OBVIOUS
<1>2. r.s \in Extent(q) /\ r.s \in Extent(r)
  BY <1>1 DEF Extent
<1>3. h[r.s].first = (r.s = q.s)
  BY <1>1, <1>2 DEF Holds
<1>4. h[r.s].first = (r.s = r.s)
  BY <1>1, <1>2 DEF Holds
<1> QED
  BY <1>1, <1>3, <1>4

LEMMA Apart ==
  ASSUME NEW h, NEW R, Holds(h, R), NEW q \in R, NEW r \in R, q # r
  PROVE  /\ Extent(q) \cap Extent(r) = {}
         /\ PagesOf(q) \cap PagesOf(r) = {}
<1>1. /\ q.s \in Int /\ r.s \in Int /\ q.n \in Int /\ r.n \in Int
      /\ q.s # r.s
  BY BlockFacts DEF Holds
<1>2. Extent(q) \cap Extent(r) = {}
  <2>1. CASE q.s < r.s
    BY <2>1, ApartOrdered
  <2>2. CASE r.s < q.s
    <3>1. Extent(r) \cap Extent(q) = {}
      BY <2>2, ApartOrdered
    <3> QED
      BY <3>1
  <2> QED
    BY <1>1, <2>1, <2>2
<1>3. ASSUME NEW v \in PagesOf(q), v \in PagesOf(r)
      PROVE  FALSE
  <2>1. Base \in Int
    BY Layout
  <2>2. PICK i \in Int : i = v - Base
    BY <1>1, <1>3, <2>1 DEF PagesOf, RunPages
  <2>3. i \in Extent(q) /\ i \in Extent(r)
    BY <1>1, <1>3, <2>1, <2>2 DEF PagesOf, RunPages, Extent
  <2> QED
    BY <1>2, <2>3
<1> QED
  BY <1>2, <1>3

\* A heap holds some of what it holds.
LEMMA HoldsSome ==
  ASSUME NEW h, NEW R, NEW Q, Holds(h, R), Q \subseteq R
  PROVE  Holds(h, Q)
BY DEF Holds

\* Free blocks that are marked for a new claim.
LEMMA MarkHolds ==
  ASSUME NEW h, NEW R, Holds(h, R), NEW r, r.s \in H!Blocks,
         r.n \in Nat \ {0},
         \A i \in Extent(r) : i \in H!Blocks => ~h[i].taken
  PROVE  /\ Holds(H!heap_mark_blocks_taken(h, r.s, r.n), R \cup {r})
         /\ r \notin R
<1> DEFINE g == H!heap_mark_blocks_taken(h, r.s, r.n)
<1>1. r.s \in Int /\ r.n \in Int /\ r.n > 0
  BY BlockFacts
<1>2. g = [i \in H!Blocks |->
             IF i \in Extent(r)
               THEN [taken |-> TRUE, first |-> i = r.s,
                     next |-> i # r.s + r.n - 1]
               ELSE h[i]]
  BY DEF H!heap_mark_blocks_taken, Extent
<1> HIDE DEF g
<1>3. g \in [H!Blocks -> H!Entry]
  <2>1. \A i \in H!Blocks : g[i] \in H!Entry
    BY <1>2 DEF Holds, H!Entry
  <2> QED
    BY <1>2, <2>1
<1>4. \A i \in Extent(r) : i \in H!Blocks =>
        g[i] = [taken |-> TRUE, first |-> i = r.s, next |-> i # r.s + r.n - 1]
  BY <1>2
<1>5. ASSUME NEW q \in R
      PROVE  /\ q.s \in H!Blocks /\ q.n \in Nat \ {0} /\ q.s # r.s
             /\ \A i \in Extent(q) : i \in H!Blocks =>
                  g[i] = [taken |-> TRUE, first |-> i = q.s,
                          next |-> i # q.s + q.n - 1]
  <2>1. q.s \in H!Blocks /\ q.n \in Nat \ {0}
    BY DEF Holds
  <2>2. \A i \in Extent(q) : i \in H!Blocks =>
          /\ h[i] = [taken |-> TRUE, first |-> i = q.s,
                     next |-> i # q.s + q.n - 1]
          /\ i \notin Extent(r)
    BY DEF Holds
  <2>3. q.s \in Extent(q) /\ r.s \in Extent(r)
    BY <1>1, <2>1, BlockFacts DEF Extent
  <2> QED
    BY <1>2, <2>1, <2>2, <2>3
<1>6. \A p, q \in R : p # q => p.s # q.s
  BY DEF Holds
<1> QED
  BY <1>3, <1>4, <1>5, <1>6 DEF Holds, g

(***************************************************************************)
(* kzalloc returns 0 and changes nothing, or finds a block and marks that  *)
(* and the ones behind it, which were free.                                *)
(***************************************************************************)
LEMMA KzallocMarks ==
  ASSUME NEW h \in [H!Blocks -> H!Entry], NEW size \in 0 .. (Word - 1)
  PROVE  LET got == kzalloc(h, size)
             n   == H!TotalBlocks(size)
         IN  \/ got = [heap |-> h, ptr |-> 0]
             \/ \E s \in H!Blocks :
                  /\ got = [heap |-> H!heap_mark_blocks_taken(h, s, n),
                            ptr  |-> H!heap_block_to_address(s)]
                  /\ \A i \in s .. (s + n - 1) : i \in H!Blocks => ~h[i].taken
<1> DEFINE n == H!TotalBlocks(size)
           starts == Starts(h, n)
<1>1. CASE starts = {}
  BY <1>1 DEF kzalloc
<1>2. CASE starts # {}
  <2>1. n \in Nat
    BY TotalBlocksNat
  <2>2. starts \subseteq H!Blocks
    BY DEF Starts
  <2>3. PICK s \in starts : s = Lowest(starts)
    BY <1>2, <2>2, LowestIn, BlockFacts
  <2>4. s \in H!Blocks
    BY <2>2, <2>3
  <2>5. kzalloc(h, size) = [heap |-> H!heap_mark_blocks_taken(h, s, n),
                            ptr  |-> H!heap_block_to_address(s)]
    BY <1>2, <2>3 DEF kzalloc, Taken, Computed
  <2>6. \/ H!FreeRun(h, s, n)
        \/ H!FreeTail(h, s)
    BY <2>3 DEF Starts
  <2>7. \A i \in s .. (s + n - 1) : i \in H!Blocks => ~h[i].taken
    <3>1. CASE H!FreeRun(h, s, n)
      BY <3>1 DEF H!FreeRun
    <3>2. CASE H!FreeTail(h, s)
      BY <2>1, <2>4, <3>2, BlockFacts DEF H!FreeTail, H!Blocks
    <3> QED
      BY <2>6, <3>1, <3>2
  <2> QED
    BY <2>4, <2>5, <2>7
<1> QED
  BY <1>1, <1>2

\* The blocks of a request that got some are a new claim.
LEMMA KzallocHolds ==
  ASSUME NEW h, NEW R, Holds(h, R), NEW size \in 0 .. (Word - 1),
         H!TotalBlocks(size) # 0, NEW got, got = kzalloc(h, size),
         got.ptr # 0, NEW p, NEW use, NEW i
  PROVE  /\ got.ptr \in Addresses
         /\ H!heap_address_to_block(got.ptr) \in H!Blocks
         /\ Holds(got.heap, R \cup {Claim(p, use, i, got.ptr, size)})
         /\ Claim(p, use, i, got.ptr, size) \notin R
<1>1. h \in [H!Blocks -> H!Entry]
  BY DEF Holds
<1> DEFINE n == H!TotalBlocks(size)
<1>2. n \in Nat \ {0}
  BY TotalBlocksNat
<1>3. PICK s \in H!Blocks :
         /\ got = [heap |-> H!heap_mark_blocks_taken(h, s, n),
                   ptr  |-> H!heap_block_to_address(s)]
         /\ \A j \in s .. (s + n - 1) : j \in H!Blocks => ~h[j].taken
  BY <1>1, KzallocMarks
<1>4. PICK r : r = Claim(p, use, i, got.ptr, size)
  OBVIOUS
<1>5. H!heap_address_to_block(got.ptr) = s
  BY <1>3, BlockAddress
<1>6. r.s = s /\ r.n = n
  BY <1>4, <1>5 DEF Claim
<1>7. \A j \in Extent(r) : j \in H!Blocks => ~h[j].taken
  BY <1>3, <1>6 DEF Extent
<1> HIDE DEF n
<1>8. /\ Holds(H!heap_mark_blocks_taken(h, r.s, r.n), R \cup {r})
      /\ r \notin R
  BY <1>2, <1>6, <1>7, MarkHolds
<1> QED
  BY <1>3, <1>4, <1>5, <1>6, <1>8 DEF Addresses

\* Whatever a request got: the claims stay.
LEMMA KzallocKeeps ==
  ASSUME NEW h, NEW R, Holds(h, R), NEW size \in 0 .. (Word - 1)
  PROVE  Holds(kzalloc(h, size).heap, R)
<1>1. h \in [H!Blocks -> H!Entry]
  BY DEF Holds
<1> DEFINE n == H!TotalBlocks(size)
<1>2. n \in Nat
  BY TotalBlocksNat
<1>3. CASE kzalloc(h, size).ptr # 0 /\ n # 0
  <2>1. PICK got : got = kzalloc(h, size)
    OBVIOUS
  <2>2. PICK r : r = Claim(0, "any", 0, got.ptr, size)
    OBVIOUS
  <2>3. Holds(got.heap, R \cup {r})
    BY <1>3, <2>1, <2>2, KzallocHolds
  <2> QED
    BY <2>1, <2>3, HoldsSome
<1>4. CASE kzalloc(h, size).ptr = 0
  <2>1. \A s \in H!Blocks : H!heap_block_to_address(s) # 0
    BY BlockAddress
  <2>2. kzalloc(h, size) = [heap |-> h, ptr |-> 0]
    BY <1>1, <1>4, <2>1, KzallocMarks
  <2> QED
    BY <2>2
<1>5. CASE n = 0
  <2>1. \A s \in H!Blocks : H!heap_mark_blocks_taken(h, s, 0) = h
    BY <1>1, BlockFacts DEF H!heap_mark_blocks_taken
  <2>2. kzalloc(h, size).heap = h
    BY <1>1, <1>5, <2>1, KzallocMarks
  <2> QED
    BY <2>2
<1> QED
  BY <1>3, <1>4, <1>5

\* kfree gives back the blocks of one claim and keeps the others.
LEMMA KfreeHolds ==
  ASSUME NEW h, NEW R, Holds(h, R), NEW r \in R, NEW ptr,
         ptr = H!heap_block_to_address(r.s)
  PROVE  /\ Holds(kfree(h, ptr), R \ {r})
         /\ Freed(kfree(h, ptr), r)
<1>1. /\ r.s \in H!Blocks /\ r.n \in Nat \ {0}
      /\ h \in [H!Blocks -> H!Entry]
      /\ \A i \in Extent(r) : i \in H!Blocks =>
           h[i] = [taken |-> TRUE, first |-> i = r.s,
                   next  |-> i # r.s + r.n - 1]
  BY DEF Holds
<1>2. r.s \in Nat /\ r.n \in Nat /\ r.n > 0
  BY <1>1, BlockFacts
<1> DEFINE g == kfree(h, ptr)
<1>0. \A i \in Extent(r) : i \in H!Blocks =>
        (h[i].next <=> i # r.s + r.n - 1)
  <2>1. \A i \in Extent(r) : i \in H!Blocks =>
          h[i].next = (i # r.s + r.n - 1)
    BY <1>1
  <2> QED
    BY <2>1
<1>3. H!Chain(h, r.s) = {i \in H!Blocks : i \in Extent(r)}
  <2>1. ASSUME NEW i \in H!Blocks, i \in Extent(r)
        PROVE  i \in H!Chain(h, r.s)
    <3>1. i \in Int /\ i < TotalEntries /\ TotalEntries \in Int
      BY BlockFacts, Layout
    <3>2. \A j \in r.s .. (i - 1) : j \in Extent(r) /\ j \in H!Blocks /\ j # r.s + r.n - 1
      BY <1>2, <2>1, <3>1 DEF Extent, H!Blocks
    <3> QED
      BY <1>0, <1>2, <2>1, <3>1, <3>2 DEF H!Chain, Extent
  <2>2. ASSUME NEW i \in H!Chain(h, r.s)
        PROVE  i \in H!Blocks /\ i \in Extent(r)
    <3>1. i \in H!Blocks /\ i \in Int /\ i >= r.s /\ i < TotalEntries
      BY BlockFacts DEF H!Chain
    <3>2. CASE i > r.s + r.n - 1
      <4>1. PICK last \in Int : last = r.s + r.n - 1
        BY <1>2
      <4>2. last \in r.s .. (i - 1) /\ last \in Extent(r) /\ last \in H!Blocks
        BY <1>2, <3>1, <3>2, <4>1, Layout DEF Extent, H!Blocks
      <4>3. h[last].next
        BY <4>2 DEF H!Chain
      <4> QED
        BY <1>0, <4>1, <4>2, <4>3
    <3> QED
      BY <1>2, <3>1, <3>2 DEF Extent
  <2> QED
    BY <2>1, <2>2
<1>4. g = [i \in H!Blocks |-> IF i \in Extent(r) THEN H!EntryFree ELSE h[i]]
  <2>1. H!heap_address_to_block(ptr) = r.s /\ ~ (r.s < 0)
    BY <1>1, <1>2, BlockAddress
  <2> QED
    BY <1>3, <2>1 DEF kfree, Computed, H!heap_free, H!heap_mark_blocks_free
<1> HIDE DEF g
<1>5. g \in [H!Blocks -> H!Entry]
  <2>1. \A i \in H!Blocks : g[i] \in H!Entry
    BY <1>1, <1>4 DEF H!Entry, H!EntryFree
  <2> QED
    BY <1>4, <2>1
<1>6. ASSUME NEW q \in R, q # r
      PROVE  /\ q.s \in H!Blocks /\ q.n \in Nat \ {0}
             /\ \A i \in Extent(q) : i \in H!Blocks =>
                  g[i] = [taken |-> TRUE, first |-> i = q.s,
                          next |-> i # q.s + q.n - 1]
  <2>1. Extent(q) \cap Extent(r) = {}
    BY <1>6, Apart
  <2> QED
    BY <1>4, <2>1 DEF Holds
<1>7. \A p, q \in R : p # q => p.s # q.s
  BY DEF Holds
<1>8. \A i \in Extent(r) : i \in H!Blocks => ~g[i].taken
  BY <1>4 DEF H!EntryFree
<1> QED
  BY <1>5, <1>6, <1>7, <1>8 DEF Holds, Freed, g

\* What is got and given back at once changes no claim.
LEMMA GotAndGiven ==
  ASSUME NEW h, NEW R, Holds(h, R), NEW size \in 0 .. (Word - 1),
         H!TotalBlocks(size) # 0, NEW got, got = kzalloc(h, size),
         got.ptr # 0
  PROVE  Holds(kfree(got.heap, got.ptr), R)
<1>1. PICK c : c = Claim(0, "new", 0, got.ptr, size)
  OBVIOUS
<1>2. /\ Holds(got.heap, R \cup {c}) /\ c \notin R
      /\ got.ptr \in Addresses
      /\ H!heap_address_to_block(got.ptr) \in H!Blocks
  BY <1>1, KzallocHolds
<1>3. got.ptr = H!heap_block_to_address(c.s)
  BY <1>1, <1>2, ClaimAddress DEF Claim
<1>4. PICK Q : Q = R \cup {c}
  OBVIOUS
<1>5. Holds(got.heap, Q) /\ c \in Q
  BY <1>2, <1>4
<1>6. Holds(kfree(got.heap, got.ptr), Q \ {c})
  BY <1>3, <1>5, KfreeHolds
<1>7. Q \ {c} = R
  BY <1>2, <1>4
<1> QED
  BY <1>6, <1>7

\* kfree marks no block as taken.
LEMMA KfreeShrinks ==
  ASSUME NEW h, NEW ptr, NEW b \in H!Blocks, kfree(h, ptr)[b].taken
  PROVE  h[b].taken
<1>1. kfree(h, ptr)[b] = h[b] \/ kfree(h, ptr)[b] = H!EntryFree
  BY DEF kfree, Computed, H!heap_free, H!heap_mark_blocks_free
<1>2. kfree(h, ptr)[b] # H!EntryFree
  <2>1. H!EntryFree.taken = FALSE
    BY DEF H!EntryFree
  <2> QED
    BY <2>1
<1> QED
  BY <1>1, <1>2

\* kfree(0) does nothing.
LEMMA KfreeNull ==
  ASSUME NEW h
  PROVE  kfree(h, 0) = h
BY NullBelowHeap DEF kfree, Computed, H!heap_free, H!heap_mark_blocks_free

-----------------------------------------------------------------------------
\* The memory of p, in a heap that keeps the claims R too.
MemoryOK(p, m, R, F) ==
  /\ m \in [heap        : [H!Blocks -> H!Entry],
            allocations : [Slots -> [ptr : Addresses, size : 0 .. (Word - 1)]],
            directory   : [PG!Pages -> PG!PageEntry],
            ptr         : Addresses]
  /\ AllocOK(m.allocations)
  /\ Holds(m.heap, R \cup Alloc(p, m.allocations))
  /\ DirOK(m.directory, F, Alloc(p, m.allocations))

\* None of R is from a malloc of p.
Foreign(p, R) == \A r \in R : ~ (r.by = p /\ r.use = "malloc")

LEMMA SlotsNat == Slots \subseteq Nat /\ 0 \in Addresses /\ 0 \in 0 .. (Word - 1)
BY UserMemoryAssumption, Layout DEF Slots, Addresses

\* The claim of a slot.
LEMMA SlotClaim ==
  ASSUME NEW p, NEW allocs, AllocOK(allocs), NEW i \in Slots,
         allocs[i].ptr # 0,
         NEW c, c = Claim(p, "malloc", i, allocs[i].ptr, allocs[i].size)
  PROVE  /\ c \in Alloc(p, allocs)
         /\ c.by = p /\ c.use = "malloc" /\ c.slot = i
         /\ c.n = H!TotalBlocks(allocs[i].size)
         /\ c.s \in H!Blocks /\ allocs[i].ptr = H!heap_block_to_address(c.s)
         /\ allocs[i].size \in 0 .. (Word - 1)
         /\ H!TotalBlocks(allocs[i].size) # 0
         /\ PG!Mappable(allocs[i].ptr, allocs[i].ptr,
                        End(allocs[i].ptr, allocs[i].size))
<1>1. allocs[i] \in [ptr : Addresses, size : 0 .. (Word - 1)]
  BY DEF AllocOK
<1>2. PICK b \in H!Blocks : allocs[i].ptr = H!heap_block_to_address(b)
  BY <1>1 DEF Addresses
<1>3. H!heap_address_to_block(allocs[i].ptr) = b
  BY <1>2, BlockAddress
<1>4. c.s = b /\ c.by = p /\ c.use = "malloc" /\ c.slot = i
      /\ c.n = H!TotalBlocks(allocs[i].size)
  BY <1>3 DEF Claim
<1>5. c \in Alloc(p, allocs)
  BY DEF Alloc
<1> QED
  BY <1>1, <1>2, <1>4, <1>5 DEF AllocOK

\* Every claim of a malloc is that of a slot.
LEMMA ClaimSlot ==
  ASSUME NEW p, NEW allocs, NEW c \in Alloc(p, allocs)
  PROVE  \E i \in Slots : /\ allocs[i].ptr # 0
                          /\ c = Claim(p, "malloc", i, allocs[i].ptr,
                                       allocs[i].size)
BY DEF Alloc

\* No two slots have the same address.
LEMMA SlotUnique ==
  ASSUME NEW p, NEW allocs, AllocOK(allocs), NEW h, NEW R,
         Holds(h, R \cup Alloc(p, allocs)), NEW i \in Slots, NEW j \in Slots,
         allocs[i].ptr # 0, allocs[i].ptr = allocs[j].ptr
  PROVE  i = j
<1>1. PICK c : c = Claim(p, "malloc", i, allocs[i].ptr, allocs[i].size)
  OBVIOUS
<1>2. PICK d : d = Claim(p, "malloc", j, allocs[j].ptr, allocs[j].size)
  OBVIOUS
<1>3. c \in Alloc(p, allocs) /\ c.slot = i
  BY <1>1, SlotClaim
<1>4. d \in Alloc(p, allocs) /\ d.slot = j
  BY <1>2, SlotClaim
<1>5. c.s = d.s
  BY <1>1, <1>2 DEF Claim
<1> QED
  BY <1>3, <1>4, <1>5 DEF Holds

\* The slots after one was set.
SlotSet(allocs, new, i, e) ==
  /\ new \in [Slots -> [ptr : Addresses, size : 0 .. (Word - 1)]]
  /\ new[i] = e
  /\ \A j \in Slots : j # i => new[j] = allocs[j]

\* A slot that is taken, or given up.
LEMMA SlotTaken ==
  ASSUME NEW p, NEW allocs, AllocOK(allocs), NEW i \in Slots,
         allocs[i].ptr = 0,
         NEW ptr \in Addresses, ptr # 0, NEW size \in 0 .. (Word - 1),
         H!TotalBlocks(size) # 0, PG!Mappable(ptr, ptr, End(ptr, size)),
         NEW c, c = Claim(p, "malloc", i, ptr, size),
         NEW e, e = [ptr |-> ptr, size |-> size],
         NEW new, SlotSet(allocs, new, i, e)
  PROVE  /\ AllocOK(new)
         /\ Alloc(p, new) = Alloc(p, allocs) \cup {c}
<1>1. /\ allocs \in [Slots -> [ptr : Addresses, size : 0 .. (Word - 1)]]
      /\ new \in [Slots -> [ptr : Addresses, size : 0 .. (Word - 1)]]
  BY DEF AllocOK, SlotSet
<1>2. /\ new[i].ptr = ptr /\ new[i].size = size
      /\ \A j \in Slots : j # i => new[j] = allocs[j]
  BY DEF SlotSet
<1>3. AllocOK(new)
  BY <1>1, <1>2 DEF AllocOK
<1>4. {j \in Slots : new[j].ptr # 0} = {j \in Slots : allocs[j].ptr # 0} \cup {i}
  BY <1>2
<1>5. Alloc(p, new) = Alloc(p, allocs) \cup {c}
  <2>1. ASSUME NEW d \in Alloc(p, new)
        PROVE  d \in Alloc(p, allocs) \cup {c}
    BY <1>2, <2>1 DEF Alloc
  <2>2. ASSUME NEW d \in Alloc(p, allocs)
        PROVE  d \in Alloc(p, new)
    <3>1. PICK j \in Slots :
             /\ allocs[j].ptr # 0
             /\ d = Claim(p, "malloc", j, allocs[j].ptr, allocs[j].size)
      BY ClaimSlot
    <3>2. new[j] = allocs[j]
      BY <1>2, <3>1
    <3> QED
      BY <3>1, <3>2 DEF Alloc
  <2>3. c \in Alloc(p, new)
    BY <1>2 DEF Alloc
  <2> QED
    BY <2>1, <2>2, <2>3
<1> QED
  BY <1>3, <1>5

LEMMA SlotGivenUp ==
  ASSUME NEW p, NEW allocs, AllocOK(allocs), NEW i \in Slots,
         NEW ptr, ptr = allocs[i].ptr, ptr # 0, NEW size, size = allocs[i].size,
         NEW c, c = Claim(p, "malloc", i, ptr, size),
         NEW e, e = NoAllocation, NEW new, SlotSet(allocs, new, i, e)
  PROVE  /\ AllocOK(new)
         /\ Alloc(p, new) = Alloc(p, allocs) \ {c}
<1>1. /\ allocs \in [Slots -> [ptr : Addresses, size : 0 .. (Word - 1)]]
      /\ new \in [Slots -> [ptr : Addresses, size : 0 .. (Word - 1)]]
  BY DEF AllocOK, SlotSet
<1>2. /\ new[i].ptr = 0 /\ new[i].size = 0
      /\ \A j \in Slots : j # i => new[j] = allocs[j]
  BY DEF NoAllocation, SlotSet
<1>3. AllocOK(new)
  BY <1>1, <1>2 DEF AllocOK
<1>5. c.slot = i
  BY DEF Claim
<1>6. ASSUME NEW d \in Alloc(p, new)
      PROVE  d \in Alloc(p, allocs) /\ d # c
  <2>1. PICK j \in Slots :
           /\ new[j].ptr # 0
           /\ d = Claim(p, "malloc", j, new[j].ptr, new[j].size)
    BY DEF Alloc
  <2>2. j # i /\ new[j] = allocs[j]
    BY <1>2, <2>1
  <2>3. d.slot = j
    BY <2>1 DEF Claim
  <2> QED
    BY <1>5, <2>1, <2>2, <2>3 DEF Alloc
<1>7. ASSUME NEW d \in Alloc(p, allocs), d # c
      PROVE  d \in Alloc(p, new)
  <2>1. PICK j \in Slots :
           /\ allocs[j].ptr # 0
           /\ d = Claim(p, "malloc", j, allocs[j].ptr, allocs[j].size)
    BY ClaimSlot
  <2>2. j # i /\ new[j] = allocs[j]
    BY <1>2, <1>7, <2>1
  <2> QED
    BY <2>1, <2>2 DEF Alloc
<1>8. Alloc(p, new) = Alloc(p, allocs) \ {c}
  BY <1>6, <1>7
<1> QED
  BY <1>3, <1>8

-----------------------------------------------------------------------------
\* The directory of a process that gets an allocation.
LEMMA MapGrows ==
  ASSUME NEW dir, NEW F, NEW A, DirOK(dir, F, A),
         NEW c, c.s \in H!Blocks, NEW ptr, ptr = H!heap_block_to_address(c.s),
         NEW size \in 0 .. (Word - 1), c.n = H!TotalBlocks(size), c.n # 0,
         PG!Mappable(ptr, ptr, End(ptr, size))
  PROVE  DirOK(MapAllocation(dir, ptr, size, "write"), F, A \cup {c})
<1>1. dir \in [PG!Pages -> PG!PageEntry]
  BY DEF DirOK
<1>2. "write" \in PG!Flags
  BY DEF PG!Flags
<1> DEFINE new == MapAllocation(dir, ptr, size, "write")
<1>3. /\ PagesOf(c) \subseteq PG!Pages
      /\ new = [v \in PG!Pages |-> IF v \in PagesOf(c)
                                     THEN [frame |-> v, flags |-> "write"]
                                     ELSE dir[v]]
  <2>1. PICK b \in H!Blocks : b = c.s
    OBVIOUS
  <2>2. /\ RunPages(b, H!TotalBlocks(size)) \subseteq PG!Pages
        /\ new = [v \in PG!Pages |->
                    IF v \in RunPages(b, H!TotalBlocks(size))
                      THEN [frame |-> v, flags |-> "write"] ELSE dir[v]]
    BY <1>1, <1>2, <2>1, MapOwnPages
  <2> QED
    BY <2>1, <2>2 DEF PagesOf
<1> HIDE DEF new
<1>4. \A v \in PG!Pages : new[v] \in PG!PageEntry
  BY <1>1, <1>2, <1>3 DEF PG!PageEntry
<1>5. new \in [PG!Pages -> PG!PageEntry]
  BY <1>3, <1>4
<1>6. \A r \in A \cup {c} : \A v \in PagesOf(r) :
        v \in PG!Pages /\ new[v] = [frame |-> v, flags |-> "write"]
  BY <1>3 DEF DirOK
<1>7. ASSUME NEW v \in PG!Pages, new[v].flags = "write"
      PROVE  \/ \E r \in F : new[v].frame \in PagesOf(r)
             \/ \E r \in A \cup {c} : v \in PagesOf(r)
  BY <1>3, <1>7 DEF DirOK
<1> QED
  BY <1>5, <1>6, <1>7 DEF DirOK, new

\* The directory of a process that gives one up.
LEMMA MapShrinks ==
  ASSUME NEW dir, NEW F, NEW A, DirOK(dir, F, A), NEW h, NEW R, Holds(h, R),
         A \subseteq R,
         NEW c \in A, NEW ptr, ptr = H!heap_block_to_address(c.s),
         NEW size \in 0 .. (Word - 1), c.n = H!TotalBlocks(size),
         PG!Mappable(ptr, ptr, End(ptr, size))
  PROVE  DirOK(MapAllocation(dir, ptr, size, "absent"), F, A \ {c})
<1>1. dir \in [PG!Pages -> PG!PageEntry]
  BY DEF DirOK
<1>2. "absent" \in PG!Flags /\ c.s \in H!Blocks /\ c.n # 0
  BY DEF PG!Flags, Holds
<1> DEFINE new == MapAllocation(dir, ptr, size, "absent")
<1>3. /\ PagesOf(c) \subseteq PG!Pages
      /\ new = [v \in PG!Pages |-> IF v \in PagesOf(c)
                                     THEN [frame |-> v, flags |-> "absent"]
                                     ELSE dir[v]]
  <2>1. PICK b \in H!Blocks : b = c.s
    BY <1>2
  <2>2. /\ RunPages(b, H!TotalBlocks(size)) \subseteq PG!Pages
        /\ new = [v \in PG!Pages |->
                    IF v \in RunPages(b, H!TotalBlocks(size))
                      THEN [frame |-> v, flags |-> "absent"] ELSE dir[v]]
    BY <1>1, <1>2, <2>1, MapOwnPages
  <2> QED
    BY <2>1, <2>2 DEF PagesOf
<1> HIDE DEF new
<1>4. \A v \in PG!Pages : new[v] \in PG!PageEntry
  BY <1>1, <1>2, <1>3 DEF PG!PageEntry
<1>5. new \in [PG!Pages -> PG!PageEntry]
  BY <1>3, <1>4
<1>6. ASSUME NEW r \in A \ {c}, NEW v \in PagesOf(r)
      PROVE  v \in PG!Pages /\ new[v] = [frame |-> v, flags |-> "write"]
  <2>1. PagesOf(r) \cap PagesOf(c) = {}
    <3>1. r \in R /\ c \in R /\ r # c
      OBVIOUS
    <3> QED
      BY <3>1, Apart
  <2>2. v \in PG!Pages /\ dir[v] = [frame |-> v, flags |-> "write"]
    BY DEF DirOK
  <2> QED
    BY <1>3, <2>1, <2>2
<1>7. ASSUME NEW v \in PG!Pages, new[v].flags = "write"
      PROVE  \/ \E r \in F : new[v].frame \in PagesOf(r)
             \/ \E r \in A \ {c} : v \in PagesOf(r)
  <2>1. v \notin PagesOf(c) /\ new[v] = dir[v]
    BY <1>3, <1>7
  <2> QED
    BY <1>7, <2>1 DEF DirOK
<1> QED
  BY <1>5, <1>6, <1>7 DEF DirOK, new

\* process_malloc keeps the order of things.
LEMMA MallocOK ==
  ASSUME NEW p, NEW m, NEW R, NEW F, MemoryOK(p, m, R, F), Foreign(p, R),
         NEW size \in 0 .. (Word - 1), H!TotalBlocks(size) # 0
  PROVE  MemoryOK(p, process_malloc(m, size), R, F)
<1> DEFINE A == Alloc(p, m.allocations)
           free == {i \in Slots : m.allocations[i].ptr = 0}
           M == [heap        : [H!Blocks -> H!Entry],
                 allocations : [Slots -> [ptr : Addresses,
                                          size : 0 .. (Word - 1)]],
                 directory   : [PG!Pages -> PG!PageEntry],
                 ptr         : Addresses]
<1>1. PICK got : got = kzalloc(m.heap, size)
  OBVIOUS
<1>2. PICK new : new = process_malloc(m, size)
  OBVIOUS
<1>3. /\ m \in M /\ AllocOK(m.allocations) /\ Holds(m.heap, R \cup A)
      /\ DirOK(m.directory, F, A)
  BY DEF MemoryOK
<1>4. CASE got.ptr = 0
  <2>1. new = [m EXCEPT !.ptr = 0]
    BY <1>1, <1>2, <1>4 DEF process_malloc
  <2>2. /\ new \in M /\ new.heap = m.heap /\ new.allocations = m.allocations
        /\ new.directory = m.directory
    BY <1>3, <2>1, SlotsNat
  <2> QED
    BY <1>2, <1>3, <2>2 DEF MemoryOK
<1>5. CASE got.ptr # 0 /\ (free = {} \/ ~PG!Mappable(got.ptr, got.ptr, End(got.ptr, size)))
  <2>1. new = [m EXCEPT !.ptr = 0, !.heap = kfree(got.heap, got.ptr)]
    BY <1>1, <1>2, <1>5 DEF process_malloc
  <2>7. Holds(kfree(got.heap, got.ptr), R \cup A)
    BY <1>1, <1>3, <1>5, GotAndGiven
  <2>8. kfree(got.heap, got.ptr) \in [H!Blocks -> H!Entry]
    BY <2>7 DEF Holds
  <2>9. /\ new \in M /\ new.heap = kfree(got.heap, got.ptr)
        /\ new.allocations = m.allocations /\ new.directory = m.directory
    BY <1>3, <2>1, <2>8, SlotsNat
  <2> QED
    BY <1>2, <1>3, <2>7, <2>9 DEF MemoryOK
<1>6. CASE /\ got.ptr # 0 /\ free # {}
           /\ PG!Mappable(got.ptr, got.ptr, End(got.ptr, size))
  <2>1. PICK i \in Slots : i = Lowest(free) /\ m.allocations[i].ptr = 0
    <3>1. free \subseteq Nat
      BY SlotsNat
    <3>2. Lowest(free) \in free
      BY <1>6, <3>1, LowestIn
    <3> QED
      BY <3>2
  <2>2. PICK allocs : allocs = [m.allocations EXCEPT ![i] =
                                  [ptr |-> got.ptr, size |-> size]]
    OBVIOUS
  <2>3. PICK dir : dir = MapAllocation(m.directory, got.ptr, size, "write")
    OBVIOUS
  <2>4. new = [heap |-> got.heap, allocations |-> allocs, directory |-> dir,
               ptr |-> got.ptr]
    BY <1>1, <1>2, <1>6, <2>1, <2>2, <2>3 DEF process_malloc
  <2>5. PICK c : c = Claim(p, "malloc", i, got.ptr, size)
    OBVIOUS
  <2>6. /\ Holds(got.heap, (R \cup A) \cup {c})
        /\ got.ptr \in Addresses
        /\ H!heap_address_to_block(got.ptr) \in H!Blocks
    BY <1>1, <1>3, <1>6, <2>5, KzallocHolds
  <2>7. /\ got.ptr = H!heap_block_to_address(c.s) /\ c.s \in H!Blocks
        /\ c.n = H!TotalBlocks(size)
    BY <2>5, <2>6, ClaimAddress DEF Claim
  <2>8. AllocOK(allocs) /\ Alloc(p, allocs) = A \cup {c}
    <3>1. PICK old : old = m.allocations
      OBVIOUS
    <3>0. PICK ptr \in Addresses : ptr = got.ptr
      BY <2>6
    <3>2. /\ AllocOK(old) /\ old[i].ptr = 0 /\ ptr # 0
          /\ PG!Mappable(ptr, ptr, End(ptr, size))
      BY <1>3, <1>6, <2>1, <3>1, <3>0
    <3>5. PICK e : e = [ptr |-> ptr, size |-> size]
      OBVIOUS
    <3>6. SlotSet(old, allocs, i, e)
      BY <2>2, <3>0, <3>1, <3>2, <3>5 DEF SlotSet, AllocOK
    <3>3. c = Claim(p, "malloc", i, ptr, size)
      BY <2>5, <3>0
    <3>4. AllocOK(allocs) /\ Alloc(p, allocs) = Alloc(p, old) \cup {c}
      BY <3>2, <3>3, <3>5, <3>6, SlotTaken
    <3> QED
      BY <3>1, <3>4
  <2>9. DirOK(dir, F, A \cup {c})
    BY <1>3, <1>6, <2>3, <2>7, MapGrows
  <2>10. new \in M
    <3>1. got.heap \in [H!Blocks -> H!Entry]
      BY <2>6 DEF Holds
    <3>2. dir \in [PG!Pages -> PG!PageEntry]
      BY <2>9 DEF DirOK
    <3>3. allocs \in [Slots -> [ptr : Addresses, size : 0 .. (Word - 1)]]
      BY <2>8 DEF AllocOK
    <3> QED
      BY <2>4, <2>6, <3>1, <3>2, <3>3
  <2>11. Holds(got.heap, R \cup (A \cup {c}))
    <3>1. (R \cup A) \cup {c} = R \cup (A \cup {c})
      OBVIOUS
    <3> QED
      BY <2>6, <3>1
  <2> HIDE DEF A
  <2>12. MemoryOK(p, new, R, F)
    BY <2>4, <2>8, <2>9, <2>10, <2>11 DEF MemoryOK
  <2> QED
    BY <1>2, <2>12
<1> QED
  BY <1>4, <1>5, <1>6

\* What process_free does with a pointer that is not null.
LEMMA FreeFound ==
  ASSUME NEW p, NEW m, NEW R, NEW F, MemoryOK(p, m, R, F),
         NEW j \in Slots, NEW ptr, ptr = m.allocations[j].ptr, ptr # 0
  PROVE  process_free(m, ptr) =
           [heap        |-> kfree(m.heap, ptr),
            allocations |-> [m.allocations EXCEPT ![j] = NoAllocation],
            directory   |-> MapAllocation(m.directory, ptr,
                                          m.allocations[j].size, "absent"),
            ptr         |-> 0]
<1> DEFINE found == {i \in Slots : m.allocations[i].ptr = ptr}
           rest  == [i \in Slots |-> IF i \in found THEN NoAllocation
                                                    ELSE m.allocations[i]]
<1>1. PICK allocs : allocs = m.allocations
  OBVIOUS
<1>2. /\ AllocOK(allocs) /\ Holds(m.heap, R \cup Alloc(p, allocs))
      /\ allocs \in [Slots -> [ptr : Addresses, size : 0 .. (Word - 1)]]
  BY <1>1 DEF MemoryOK, AllocOK
<1>3. \A i \in Slots : allocs[i].ptr = ptr <=> i = j
  BY <1>1, <1>2, SlotUnique
<1>4. found = {j}
  BY <1>1, <1>3
<1>5. Lowest(found) = j
  <2>1. found \subseteq Nat /\ found # {}
    BY <1>4, SlotsNat
  <2> QED
    BY <1>4, <2>1, LowestIn
<1>6. rest = [m.allocations EXCEPT ![j] = NoAllocation]
  BY <1>1, <1>2, <1>4
<1>7. PG!Mappable(ptr, ptr, End(ptr, m.allocations[j].size))
  BY <1>1, <1>2 DEF AllocOK
<1>8. process_free(m, ptr) =
         Memory(kfree(m.heap, ptr), rest,
                MapAllocation(m.directory, ptr, m.allocations[j].size, "absent"))
  BY <1>4, <1>5, <1>7, Zenon DEF process_free
<1> QED
  BY <1>6, <1>8 DEF Memory, Computed

\* What it does with the null pointer, and with one that is not found.
LEMMA FreeNothing ==
  ASSUME NEW p, NEW m, NEW R, NEW F, MemoryOK(p, m, R, F), NEW ptr,
         ptr = 0 \/ \A j \in Slots : m.allocations[j].ptr # ptr
  PROVE  /\ process_free(m, ptr).heap = m.heap
         /\ process_free(m, ptr).allocations = m.allocations
         /\ process_free(m, ptr).directory = m.directory
         /\ process_free(m, ptr) \in {m, [m EXCEPT !.ptr = 0]}
<1> DEFINE found == {i \in Slots : m.allocations[i].ptr = ptr}
           size  == m.allocations[Lowest(found)].size
           rest  == [i \in Slots |-> IF i \in found THEN NoAllocation
                                                    ELSE m.allocations[i]]
<1>1. CASE found = {} \/ ~PG!Mappable(ptr, ptr, End(ptr, size))
  <2>1. process_free(m, ptr) = m
    BY <1>1, Zenon DEF process_free
  <2> QED
    BY <2>1
<1>2. CASE ~ (found = {} \/ ~PG!Mappable(ptr, ptr, End(ptr, size)))
  <2>1. ptr = 0
    BY <1>2
  <2>2. process_free(m, ptr) =
           Memory(kfree(m.heap, ptr), rest,
                  MapAllocation(m.directory, ptr, size, "absent"))
    BY <1>2, Zenon DEF process_free
  <2>3. Lowest(found) \in found
    BY <1>2, SlotsNat, LowestIn
  <2>4. /\ m.allocations \in [Slots -> [ptr : Addresses, size : 0 .. (Word - 1)]]
        /\ \A i \in Slots : m.allocations[i].ptr = 0 => m.allocations[i].size = 0
        /\ m.directory \in [PG!Pages -> PG!PageEntry]
    BY DEF MemoryOK, AllocOK
  <2>5. size = 0
    BY <2>1, <2>3, <2>4
  <2>6. rest = m.allocations
    <3>1. \A i \in Slots : rest[i] = m.allocations[i]
      BY <2>1, <2>4 DEF NoAllocation
    <3> QED
      BY <2>4, <3>1
  <2>7. End(0, 0) = 0
    <3>1. /\ BlockSize \in Nat \ {0} /\ Word \in Nat \ {0}
      BY Layout
    <3>2. 0 % Word = 0 /\ 0 % BlockSize = 0
      BY <3>1
    <3> QED
      BY <3>2 DEF End, PG!paging_align_address, PG!paging_is_aligned
  <2>8. MapAllocation(m.directory, 0, 0, "absent") = m.directory
    <3>1. BlockSize \in Nat \ {0} /\ PG!TotalPages \in Nat \ {0}
      BY Layout
    <3>2. (0 - 0) \div BlockSize = 0
      BY <3>1
    <3>3. PICK a : a = 0 \div BlockSize
      OBVIOUS
    <3>4. a \in Int
      BY <3>1, <3>3
    <3>5. \A v \in PG!Pages : ~ ((v - a) % PG!TotalPages < 0)
      BY <3>1, <3>4, QuotientRemainder DEF PG!Pages
    <3>6. PG!Mappable(0, 0, 0)
      BY <1>2, <2>1, <2>5, <2>7
    <3>7. PG!paging_map_to(m.directory, 0, 0, 0, "absent") = m.directory
      BY <2>4, <3>2, <3>3, <3>5, <3>6
      DEF PG!paging_map_to, PG!paging_map_range, PG!paging_get_indexes
    <3> QED
      BY <2>7, <3>7 DEF MapAllocation, Computed
  <2>9. process_free(m, ptr) = Memory(m.heap, m.allocations, m.directory)
    BY <2>1, <2>2, <2>5, <2>6, <2>8, KfreeNull
  <2>10. Memory(m.heap, m.allocations, m.directory) = [m EXCEPT !.ptr = 0]
    BY DEF Memory, Computed, MemoryOK
  <2> QED
    BY <2>9, <2>10 DEF Memory, Computed
<1> QED
  BY <1>1, <1>2

\* process_free keeps the order of things, and takes back the claim.
LEMMA FreeOK ==
  ASSUME NEW p, NEW m, NEW R, NEW F, MemoryOK(p, m, R, F), Foreign(p, R),
         NEW ptr \in Addresses
  PROVE  MemoryOK(p, process_free(m, ptr), R, F)
<1>1. CASE ptr = 0 \/ \A j \in Slots : m.allocations[j].ptr # ptr
  <2>1. PICK new : new = process_free(m, ptr)
    OBVIOUS
  <2>2. /\ new.heap = m.heap /\ new.allocations = m.allocations
        /\ new.directory = m.directory /\ new \in {m, [m EXCEPT !.ptr = 0]}
    BY <1>1, <2>1, FreeNothing
  <2>3. MemoryOK(p, new, R, F)
    BY <2>2, SlotsNat DEF MemoryOK
  <2> QED
    BY <2>1, <2>3
<1>2. CASE ptr # 0 /\ \E j \in Slots : m.allocations[j].ptr = ptr
  <2>1. PICK allocs, A : allocs = m.allocations /\ A = Alloc(p, allocs)
    OBVIOUS
  <2>2. PICK j \in Slots : allocs[j].ptr = ptr
    BY <1>2, <2>1
  <2>3. /\ AllocOK(allocs) /\ Holds(m.heap, R \cup A)
        /\ DirOK(m.directory, F, A)
    BY <2>1 DEF MemoryOK
  <2>4. PICK new : new = process_free(m, ptr)
    OBVIOUS
  <2>5. new = [heap        |-> kfree(m.heap, ptr),
               allocations |-> [allocs EXCEPT ![j] = NoAllocation],
               directory   |-> MapAllocation(m.directory, ptr, allocs[j].size,
                                             "absent"),
               ptr         |-> 0]
    BY <1>2, <2>1, <2>2, <2>4, FreeFound
  <2>6. PICK c : c = Claim(p, "malloc", j, allocs[j].ptr, allocs[j].size)
    OBVIOUS
  <2>7. /\ c \in A /\ c.by = p /\ c.use = "malloc"
        /\ c.n = H!TotalBlocks(allocs[j].size)
        /\ ptr = H!heap_block_to_address(c.s)
        /\ allocs[j].size \in 0 .. (Word - 1)
        /\ PG!Mappable(ptr, ptr, End(ptr, allocs[j].size))
    BY <1>2, <2>1, <2>2, <2>3, <2>6, SlotClaim
  <2>8. Holds(new.heap, R \cup (A \ {c}))
    <3>1. PICK Q : Q = R \cup A
      OBVIOUS
    <3>2. Holds(kfree(m.heap, ptr), Q \ {c})
      BY <2>3, <2>7, <3>1, KfreeHolds
    <3>3. Q \ {c} = R \cup (A \ {c})
      BY <2>7, <3>1 DEF Foreign
    <3> QED
      BY <2>5, <3>2, <3>3
  <2>9. AllocOK(new.allocations) /\ Alloc(p, new.allocations) = A \ {c}
    <3>1. PICK rest : rest = [allocs EXCEPT ![j] = NoAllocation]
      OBVIOUS
    <3>2. SlotSet(allocs, rest, j, NoAllocation)
      BY <2>3, <3>1, SlotsNat DEF AllocOK, NoAllocation, SlotSet
    <3>3. AllocOK(rest) /\ Alloc(p, rest) = Alloc(p, allocs) \ {c}
      <4>1. PICK e : e = NoAllocation
        OBVIOUS
      <4>2. PICK size : size = allocs[j].size
        OBVIOUS
      <4>3. /\ ptr # 0 /\ SlotSet(allocs, rest, j, e)
            /\ c = Claim(p, "malloc", j, ptr, size)
        BY <1>2, <2>2, <2>6, <3>2, <4>1, <4>2
      <4> QED
        BY <2>2, <2>3, <4>1, <4>2, <4>3, SlotGivenUp
    <3> QED
      BY <2>1, <2>5, <3>1, <3>3
  <2>10. DirOK(new.directory, F, A \ {c})
    <3>1. PICK size \in 0 .. (Word - 1) : size = allocs[j].size
      BY <2>7
    <3>0. PICK Q : Q = R \cup A
      OBVIOUS
    <3>2. /\ Holds(m.heap, Q) /\ A \subseteq Q /\ c.n = H!TotalBlocks(size)
          /\ PG!Mappable(ptr, ptr, End(ptr, size))
      BY <2>3, <2>7, <3>1, <3>0
    <3>3. DirOK(MapAllocation(m.directory, ptr, size, "absent"), F, A \ {c})
      BY <2>3, <2>7, <3>2, MapShrinks
    <3> QED
      BY <2>5, <3>1, <3>3
  <2>11. new \in [heap        : [H!Blocks -> H!Entry],
                  allocations : [Slots -> [ptr : Addresses,
                                           size : 0 .. (Word - 1)]],
                  directory   : [PG!Pages -> PG!PageEntry],
                  ptr         : Addresses]
    <3>1. new.heap \in [H!Blocks -> H!Entry]
      BY <2>8 DEF Holds
    <3>2. new.allocations \in [Slots -> [ptr : Addresses, size : 0 .. (Word - 1)]]
      BY <2>9 DEF AllocOK
    <3>3. new.directory \in [PG!Pages -> PG!PageEntry]
      BY <2>10 DEF DirOK
    <3> QED
      BY <2>5, <3>1, <3>2, <3>3, SlotsNat
  <2>12. MemoryOK(p, new, R, F)
    BY <2>8, <2>9, <2>10, <2>11 DEF MemoryOK
  <2> QED
    BY <2>4, <2>12
<1> QED
  BY <1>1, <1>2

-----------------------------------------------------------------------------
\* The requests of the kernel for a struct, a stack or a text take one block.
LEMMA OneBlock ==
  /\ BlockSize \in 0 .. (Word - 1) /\ H!TotalBlocks(BlockSize) = 1
  /\ BlockSize - 1 \in 0 .. (Word - 1) /\ H!TotalBlocks(BlockSize - 1) = 1
<1>1. /\ BlockSize \in Nat \ {0} /\ Word \in Nat \ {0}
      /\ PG!TotalPages \in Nat \ {0} /\ Word = BlockSize * PG!TotalPages
      /\ Base \in Nat \ {0} /\ TotalEntries \in Nat \ {0}
      /\ Base + TotalEntries <= PG!TotalPages
  BY Layout
<1>2. BlockSize > 1
  BY UserMemoryAssumption
<1>3. PICK one \in Int : one = 1 /\ BlockSize * one = BlockSize
  BY <1>1
<1>4. BlockSize * one + BlockSize <= BlockSize * PG!TotalPages
  BY <1>1, <1>3, ProductGrows
<1>5. BlockSize + BlockSize <= Word
  BY <1>1, <1>3, <1>4
<1>6. BlockSize \in 0 .. (Word - 1) /\ BlockSize - 1 \in 0 .. (Word - 1)
  BY <1>1, <1>5
<1>7. (BlockSize * one) % BlockSize = 0 /\ (BlockSize * one) \div BlockSize = one
  BY Multiple
<1>8. H!TotalBlocks(BlockSize) = 1
  BY <1>3, <1>7 DEF H!TotalBlocks, H!heap_align_value_to_upper
<1>9. PICK low \in 0 .. (BlockSize - 1) : low = BlockSize - 1 /\ low # 0
  BY <1>1, <1>2
<1>10. low % BlockSize = low
  BY <1>1, RemainderSmall
<1>11. PICK full \in 0 .. (Word - 1) : full = BlockSize
  BY <1>6
<1>12. full % Word = full
  BY <1>1, RemainderSmall
<1>13. low - low + BlockSize = BlockSize
  BY <1>1
<1>14. H!TotalBlocks(BlockSize - 1) = 1
  BY <1>3, <1>7, <1>9, <1>10, <1>11, <1>12, <1>13
  DEF H!TotalBlocks, H!heap_align_value_to_upper
<1> QED
  BY <1>6, <1>8, <1>14

\* The copy of a text leaves the directory as it was.
LEMMA TextOK ==
  ASSUME NEW p, NEW m, NEW R, NEW F, MemoryOK(p, m, R, F)
  PROVE  MemoryOK(p, copy_string_from_task(m, BlockSize - 1), R, F)
<1> DEFINE A == Alloc(p, m.allocations)
           max == BlockSize - 1
<1>1. PICK tmp : tmp = kzalloc(m.heap, max)
  OBVIOUS
<1>2. PICK new : new = copy_string_from_task(m, max)
  OBVIOUS
<1>3. /\ m \in [heap        : [H!Blocks -> H!Entry],
                allocations : [Slots -> [ptr : Addresses,
                                         size : 0 .. (Word - 1)]],
                directory   : [PG!Pages -> PG!PageEntry],
                ptr         : Addresses]
      /\ AllocOK(m.allocations) /\ Holds(m.heap, R \cup A)
      /\ DirOK(m.directory, F, A)
  BY DEF MemoryOK
<1>4. CASE max >= BlockSize \/ tmp.ptr = 0
  <2>1. new = m
    BY <1>1, <1>2, <1>4 DEF copy_string_from_task
  <2> QED
    BY <1>2, <2>1
<1>5. CASE ~ (max >= BlockSize \/ tmp.ptr = 0)
  <2> DEFINE old    == PG!paging_get(m.directory, tmp.ptr)
             mapped == PG!paging_map(m.directory, tmp.ptr, tmp.ptr, "write")
  <2>1. new = Memory(kfree(tmp.heap, tmp.ptr), m.allocations,
                     PG!paging_set(mapped, tmp.ptr, old))
    BY <1>1, <1>2, <1>5, Zenon DEF copy_string_from_task
  <2>2. /\ max \in 0 .. (Word - 1) /\ H!TotalBlocks(max) # 0
    BY OneBlock
  <2>3. Holds(kfree(tmp.heap, tmp.ptr), R \cup A)
    <3> HIDE DEF A, max
    <3> QED
      BY <1>1, <1>3, <1>5, <2>2, GotAndGiven
  <2>4. tmp.ptr \in Addresses
    <3> HIDE DEF A, max
    <3> QED
      BY <1>1, <1>3, <1>5, <2>2, KzallocHolds
  <2>5. PG!paging_set(mapped, tmp.ptr, old) = m.directory
    <3>1. PICK b \in H!Blocks : tmp.ptr = H!heap_block_to_address(b)
      BY <1>5, <2>4 DEF Addresses
    <3>2. tmp.ptr % BlockSize = 0 /\ tmp.ptr \div BlockSize \in PG!Pages
      BY <3>1, BlockAddress DEF PageOf
    <3> QED
      BY <1>3, <3>2
      DEF PG!paging_set, PG!paging_map, PG!paging_get, PG!paging_is_aligned,
          PG!paging_get_indexes
  <2> HIDE DEF mapped, old
  <2>6. new = [heap |-> kfree(tmp.heap, tmp.ptr),
               allocations |-> m.allocations, directory |-> m.directory,
               ptr |-> 0]
    BY <2>1, <2>5 DEF Memory, Computed
  <2>7. kfree(tmp.heap, tmp.ptr) \in [H!Blocks -> H!Entry]
    BY <2>3 DEF Holds
  <2>8. MemoryOK(p, new, R, F)
    BY <1>3, <2>3, <2>6, <2>7, SlotsNat DEF MemoryOK
  <2> QED
    BY <1>2, <2>8
<1> QED
  BY <1>4, <1>5

\* The memories of p that are in order.
Memories(p, R, F) ==
  {m \in [heap        : [H!Blocks -> H!Entry],
          allocations : [Slots -> [ptr : Addresses, size : 0 .. (Word - 1)]],
          directory   : [PG!Pages -> PG!PageEntry],
          ptr         : Addresses] : MemoryOK(p, m, R, F)}

LEMMA InMemories ==
  ASSUME NEW p, NEW R, NEW F, NEW m
  PROVE  m \in Memories(p, R, F) <=> MemoryOK(p, m, R, F)
BY DEF Memories, MemoryOK

\* process_inject_arguments, for any number of arguments, stays where
\* process_malloc of a block stays.
LEMMA InjectIn ==
  ASSUME NEW S, NEW m \in S, NEW argc \in Nat,
         \A x \in S : process_malloc(x, BlockSize) \in S
  PROVE  process_inject_arguments(m, argc) \in S
<1> DEFINE again(x) == IF x.ptr = 0 THEN x ELSE process_malloc(x, BlockSize)
           loop(t) == [k \in 0 .. argc |-> IF k = 0
                                             THEN process_malloc(m, BlockSize)
                                             ELSE again(t[k - 1])]
           turn == CHOOSE t : t = loop(t)
<1>1. \A x \in S : again(x) \in S
  OBVIOUS
<1>3. process_malloc(m, BlockSize) \in S
  OBVIOUS
<1>4. process_inject_arguments(m, argc) = IF argc = 0 THEN m ELSE turn[argc]
  BY DEF process_inject_arguments
<1> HIDE DEF again
<1>5. turn = loop(turn)
  <2>1. PICK step : step = [k \in 1 .. argc |-> [x \in S |-> again(x)]]
    OBVIOUS
  <2>2. step \in Steps(argc, S)
    BY <1>1, <2>1 DEF Steps
  <2>3. PICK a \in S : a = process_malloc(m, BlockSize)
    BY <1>3
  <2>4. PICK g : Loop(argc, S, a, step, g)
    BY <2>2, LoopRuns
  <2>5. /\ g \in [0 .. argc -> S] /\ g[0] = a
        /\ \A k \in 1 .. argc : g[k] = again(g[k - 1])
    BY <2>1, <2>4 DEF Loop
  <2>6. \A k \in 0 .. argc : k # 0 => k \in 1 .. argc
    OBVIOUS
  <2>7. g = loop(g)
    BY <2>3, <2>5, <2>6
  <2> QED
    BY <2>7
<1> HIDE DEF turn
<1> DEFINE T == {k \in 0 .. argc : turn[k] \in S}
<1>6. 0 \in T
  BY <1>3, <1>5
<1>7. \A k \in 1 .. argc : k - 1 \in T => k \in T
  <2> SUFFICES ASSUME NEW k \in 1 .. argc, k - 1 \in T
               PROVE  k \in T
    OBVIOUS
  <2>1. turn[k - 1] \in S /\ turn[k] = again(turn[k - 1]) /\ k \in 0 .. argc
    BY <1>5
  <2> QED
    BY <1>1, <2>1
<1> HIDE DEF T
<1>8. \A k \in 0 .. argc : k \in T
  BY <1>6, <1>7, TurnByTurn
<1>9. turn[argc] \in S
  BY <1>8 DEF T
<1> QED
  BY <1>4, <1>9

\* So it keeps the order of things.
LEMMA InjectOK ==
  ASSUME NEW p, NEW m, NEW R, NEW F, MemoryOK(p, m, R, F), Foreign(p, R),
         NEW argc \in Nat
  PROVE  MemoryOK(p, process_inject_arguments(m, argc), R, F)
<1>1. PICK S : S = Memories(p, R, F)
  OBVIOUS
<1>2. ASSUME NEW x \in S
      PROVE  process_malloc(x, BlockSize) \in S
  <2>1. MemoryOK(p, x, R, F)
    BY <1>1, InMemories
  <2>2. BlockSize \in 0 .. (Word - 1) /\ H!TotalBlocks(BlockSize) # 0
    BY OneBlock
  <2>3. MemoryOK(p, process_malloc(x, BlockSize), R, F)
    BY <2>1, <2>2, MallocOK
  <2> QED
    BY <1>1, <2>3, InMemories
<1>3. m \in S
  BY <1>1, InMemories
<1>4. process_inject_arguments(m, argc) \in S
  BY <1>2, <1>3, InjectIn
<1> QED
  BY <1>1, <1>4, InMemories

\* process_free of what is in slot j.
LEMMA FreeSlot ==
  ASSUME NEW p, NEW m, NEW R, NEW F, MemoryOK(p, m, R, F), NEW j \in Slots,
         NEW new, new = process_free(m, m.allocations[j].ptr)
  PROVE  /\ new.allocations[j].ptr = 0
         /\ \A i \in Slots : i # j => new.allocations[i] = m.allocations[i]
         /\ \A b \in H!Blocks : new.heap[b].taken => m.heap[b].taken
         /\ \/ new.allocations[j] = m.allocations[j]
            \/ Freed(new.heap, Claim(p, "malloc", j, m.allocations[j].ptr,
                                      m.allocations[j].size))
<1>1. PICK allocs, ptr : allocs = m.allocations /\ ptr = allocs[j].ptr
  OBVIOUS
<1>2. CASE ptr = 0
  <2>1. new.heap = m.heap /\ new.allocations = m.allocations
    BY <1>1, <1>2, FreeNothing
  <2> QED
    BY <1>1, <1>2, <2>1
<1>3. CASE ptr # 0
  <2>1. new = [heap        |-> kfree(m.heap, ptr),
               allocations |-> [allocs EXCEPT ![j] = NoAllocation],
               directory   |-> MapAllocation(m.directory, ptr, allocs[j].size,
                                             "absent"),
               ptr         |-> 0]
    BY <1>1, <1>3, FreeFound
  <2>2. allocs \in [Slots -> [ptr : Addresses, size : 0 .. (Word - 1)]]
    BY <1>1 DEF MemoryOK, AllocOK
  <2>3. /\ new.allocations[j].ptr = 0
        /\ \A i \in Slots : i # j => new.allocations[i] = allocs[i]
        /\ new.heap = kfree(m.heap, ptr)
    BY <2>1, <2>2 DEF NoAllocation
  <2>4. \A b \in H!Blocks : new.heap[b].taken => m.heap[b].taken
    BY <2>3, KfreeShrinks
  <2>5. PICK c : c = Claim(p, "malloc", j, allocs[j].ptr, allocs[j].size)
    OBVIOUS
  <2>6. PICK Q : Q = R \cup Alloc(p, allocs)
    OBVIOUS
  <2>7. c \in Q /\ ptr = H!heap_block_to_address(c.s) /\ Holds(m.heap, Q)
    BY <1>1, <1>3, <2>5, <2>6, SlotClaim DEF MemoryOK
  <2>8. Freed(new.heap, c)
    <3>1. PICK h : h = m.heap
      OBVIOUS
    <3>2. Holds(h, Q)
      BY <2>7, <3>1
    <3>3. Freed(kfree(h, ptr), c)
      BY <2>7, <3>2, KfreeHolds
    <3> QED
      BY <2>3, <3>1, <3>3
  <2> QED
    BY <1>1, <2>3, <2>4, <2>5, <2>8
<1> QED
  BY <1>2, <1>3

(***************************************************************************)
(* The memory x, when k slots of the memory m were freed: no block is      *)
(* taken that was not, and the blocks of these slots are free.             *)
(***************************************************************************)
GivenBack(p, m, x, k) ==
  /\ \A b \in H!Blocks : x.heap[b].taken => m.heap[b].taken
  /\ \A i \in Slots : i < k => x.allocations[i].ptr = 0
  /\ \A i \in Slots :
       \/ x.allocations[i] = m.allocations[i]
       \/ Freed(x.heap, Claim(p, "malloc", i, m.allocations[i].ptr,
                               m.allocations[i].size))

LEMMA GivesBackSlot ==
  ASSUME NEW p, NEW m, NEW R, NEW F, NEW x, MemoryOK(p, x, R, F),
         NEW j \in Slots, GivenBack(p, m, x, j),
         NEW new, new = process_free(x, x.allocations[j].ptr)
  PROVE  GivenBack(p, m, new, j + 1)
<1>1. /\ new.allocations[j].ptr = 0
      /\ \A i \in Slots : i # j => new.allocations[i] = x.allocations[i]
      /\ \A b \in H!Blocks : new.heap[b].taken => x.heap[b].taken
      /\ \/ new.allocations[j] = x.allocations[j]
         \/ Freed(new.heap, Claim(p, "malloc", j, x.allocations[j].ptr,
                                  x.allocations[j].size))
  BY FreeSlot
<1>2. \A b \in H!Blocks : new.heap[b].taken => m.heap[b].taken
  BY <1>1 DEF GivenBack
<1>3. \A i \in Slots : i < j + 1 => new.allocations[i].ptr = 0
  <2>1. \A i \in Slots : i < j + 1 => i = j \/ i < j
    BY SlotsNat
  <2>2. \A i \in Slots : i < j => x.allocations[i].ptr = 0
    BY DEF GivenBack
  <2>3. \A i \in Slots : i < j => i # j
    BY SlotsNat
  <2> QED
    BY <1>1, <2>1, <2>2, <2>3
<1>4. ASSUME NEW i \in Slots
      PROVE  \/ new.allocations[i] = m.allocations[i]
             \/ Freed(new.heap, Claim(p, "malloc", i, m.allocations[i].ptr,
                                      m.allocations[i].size))
  <2>1. PICK c : c = Claim(p, "malloc", i, m.allocations[i].ptr,
                           m.allocations[i].size)
    OBVIOUS
  <2>2. x.allocations[i] = m.allocations[i] \/ Freed(x.heap, c)
    BY <2>1 DEF GivenBack
  <2>3. \/ new.allocations[i] = x.allocations[i]
        \/ x.allocations[i] = m.allocations[i] => Freed(new.heap, c)
    BY <1>1, <2>1
  <2>4. Freed(x.heap, c) => Freed(new.heap, c)
    BY <1>1 DEF Freed
  <2> QED
    BY <2>1, <2>2, <2>3, <2>4
<1> QED
  BY <1>2, <1>3, <1>4 DEF GivenBack

\* process_terminate_allocations gives back all of them.
LEMMA TerminateOK ==
  ASSUME NEW p, NEW m, NEW R, NEW F, MemoryOK(p, m, R, F), Foreign(p, R)
  PROVE  /\ MemoryOK(p, process_terminate_allocations(m), R, F)
         /\ GivenBack(p, m, process_terminate_allocations(m), MaxAllocations)
<1> DEFINE n == MaxAllocations
           next(k, x) == process_free(x, x.allocations[k - 1].ptr)
           S == Memories(p, R, F)
           loop(t) == [k \in 0 .. n |-> IF k = 0 THEN m ELSE next(k, t[k - 1])]
           turn == CHOOSE t : t = loop(t)
<1>0. n \in Nat
  BY UserMemoryAssumption
<1>1. ASSUME NEW x \in S, NEW k \in 1 .. n
      PROVE  next(k, x) \in S
  <2>1. MemoryOK(p, x, R, F)
    BY InMemories
  <2>2. PICK j \in Slots : j = k - 1
    BY <1>0 DEF Slots
  <2>3. PICK ptr \in Addresses : ptr = x.allocations[j].ptr
    BY <2>1 DEF MemoryOK
  <2>4. MemoryOK(p, process_free(x, ptr), R, F)
    BY <2>1, FreeOK
  <2>5. process_free(x, ptr) \in S
    BY <2>4, InMemories
  <2> QED
    BY <2>2, <2>3, <2>5
<1>2. m \in S
  BY InMemories
<1>4. process_terminate_allocations(m) = turn[n]
  BY DEF process_terminate_allocations
<1> HIDE DEF next, S, n
<1>5. turn = loop(turn)
  <2>1. PICK step : step = [k \in 1 .. n |-> [x \in S |-> next(k, x)]]
    OBVIOUS
  <2>2. step \in Steps(n, S)
    BY <1>1, <2>1 DEF Steps
  <2>4. PICK g : Loop(n, S, m, step, g)
    BY <1>0, <1>2, <2>2, LoopRuns
  <2>5. /\ g \in [0 .. n -> S] /\ g[0] = m
        /\ \A k \in 1 .. n : g[k] = step[k][g[k - 1]]
    BY <2>4 DEF Loop
  <2>6. \A k \in 1 .. n : g[k] = next(k, g[k - 1])
    <3> SUFFICES ASSUME NEW k \in 1 .. n
                 PROVE  g[k] = next(k, g[k - 1])
      OBVIOUS
    <3>1. g[k - 1] \in S
      BY <1>0, <2>5
    <3> QED
      BY <2>1, <2>5, <3>1
  <2>7. \A k \in 0 .. n : k # 0 => k \in 1 .. n
    BY <1>0
  <2>8. g = loop(g)
    BY <2>5, <2>6, <2>7
  <2> QED
    BY <2>8
<1> HIDE DEF turn
<1>6. \A k \in 0 .. n : turn[k] \in S /\ GivenBack(p, m, turn[k], k)
  <2> DEFINE Out == {k \in 0 .. n : ~ (turn[k] \in S /\ GivenBack(p, m, turn[k], k))}
  <2> SUFFICES ASSUME Out # {}
               PROVE  FALSE
    OBVIOUS
  <2>1. Out \subseteq Nat
    BY <1>0
  <2>2. PICK k \in Out : \A j \in Out : k <= j
    BY <2>1, LeastNumber
  <2>3. k \in 0 .. n /\ ~ (turn[k] \in S /\ GivenBack(p, m, turn[k], k))
    BY <2>2
  <2>4. k # 0
    <3>1. 0 \in 0 .. n
      BY <1>0
    <3>2. turn[0] = m
      BY <1>5, <3>1
    <3>3. GivenBack(p, m, m, 0)
      BY SlotsNat DEF GivenBack
    <3> QED
      BY <1>2, <2>3, <3>2, <3>3
  <2>5. PICK l \in 0 .. n : l = k - 1
    BY <1>0, <2>3, <2>4
  <2>6. l \notin Out
    <3> HIDE DEF Out
    <3> QED
      BY <1>0, <2>2, <2>3, <2>5
  <2>7. turn[l] \in S /\ GivenBack(p, m, turn[l], l) /\ turn[k] = next(k, turn[l])
    BY <1>5, <2>3, <2>4, <2>5, <2>6
  <2>8. turn[k] \in S
    <3>1. k \in 1 .. n
      BY <1>0, <2>3, <2>4
    <3> QED
      BY <1>1, <2>7, <3>1
  <2>9. GivenBack(p, m, turn[k], k)
    <3>1. PICK x, new : x = turn[l] /\ new = turn[k]
      OBVIOUS
    <3>2. PICK j \in Slots : j = l
      BY <1>0, <2>3, <2>5 DEF Slots, n
    <3>3. MemoryOK(p, x, R, F)
      BY <2>7, <3>1, InMemories DEF S
    <3>4. new = process_free(x, x.allocations[j].ptr) /\ GivenBack(p, m, x, j)
      BY <2>5, <2>7, <3>1, <3>2 DEF next
    <3>5. GivenBack(p, m, new, j + 1)
      BY <3>3, <3>4, GivesBackSlot
    <3>6. j + 1 = k
      BY <2>3, <2>5, <3>2
    <3> QED
      BY <3>1, <3>5, <3>6
  <2> QED
    BY <2>3, <2>8, <2>9
<1>7. n \in 0 .. n
  BY <1>0
<1> QED
  BY <1>4, <1>6, <1>7, InMemories DEF S, n

-----------------------------------------------------------------------------
\* The struct elf_file for a file in memory.
ElfFile(at, memory) ==
  [at : {at}, elf_memory : {memory}, virtual_base : Nat, virtual_end : Nat,
   physical_base : Nat, physical_end : Nat]

\* The turns of elf_process_pheaders.
ElfTurns(t, at, memory, phdrs) ==
  /\ \A k \in 0 .. Len(phdrs) : t[k] \in ElfFile(at, memory)
  /\ t[0] = [at |-> at, elf_memory |-> memory,
             virtual_base |-> 0, virtual_end |-> 0,
             physical_base |-> 0, physical_end |-> 0]
  /\ \A k \in 1 .. Len(phdrs) :
       t[k] = IF phdrs[k].p_type = ELF!PT_LOAD
                THEN ELF!elf_process_phdr_pt_load(t[k - 1], phdrs[k])
                ELSE t[k - 1]
  /\ ELF!elf_load(at, memory, phdrs) = t[Len(phdrs)]

\* elf_load keeps both addresses in every turn, whatever the program headers
\* say.
LEMMA ElfLoadRuns ==
  ASSUME NEW at \in Int, NEW memory \in Int,
         NEW phdrs \in Seq(ELF!ProgramHeader)
  PROVE  \E t : ElfTurns(t, at, memory, phdrs)
<1> DEFINE n == Len(phdrs)
           S == ElfFile(at, memory)
           f == [at |-> at, elf_memory |-> memory,
                 virtual_base |-> 0, virtual_end |-> 0,
                 physical_base |-> 0, physical_end |-> 0]
           next(k, x) == IF phdrs[k].p_type = ELF!PT_LOAD
                           THEN ELF!elf_process_phdr_pt_load(x, phdrs[k])
                           ELSE x
           loop(t) ==
             [k \in 0 .. n |->
                CASE k = 0 -> f
                  [] k > 0 /\ phdrs[k].p_type = ELF!PT_LOAD ->
                       ELF!elf_process_phdr_pt_load(t[k - 1], phdrs[k])
                  [] OTHER -> t[k - 1]]
           turn == CHOOSE t : t = loop(t)
<1>1. n \in Nat /\ \A k \in 1 .. n : phdrs[k] \in ELF!ProgramHeader
  OBVIOUS
<1>2. ASSUME NEW x \in S, NEW k \in 1 .. n
      PROVE  next(k, x) \in S
  <2>1. PICK phdr \in ELF!ProgramHeader : phdr = phdrs[k]
    BY <1>1
  <2>2. /\ phdr.p_vaddr \in Nat /\ phdr.p_filesz \in Nat
        /\ phdr.p_offset \in Nat
    BY DEF ELF!ProgramHeader
  <2>3. /\ Word \in Nat \ {0} /\ x.elf_memory = memory
    BY Layout DEF ElfFile
  <2>4. PICK physical \in Nat :
          physical = ELF!elf_phdr_phys_address(x.elf_memory, phdr)
    <3>1. PICK sum \in Int : sum = memory + phdr.p_offset
      BY <2>2
    <3>2. sum % Word \in Nat
      BY <2>3, QuotientRemainder
    <3> QED
      BY <2>3, <3>1, <3>2 DEF ELF!elf_phdr_phys_address
  <2>5. PICK end \in Nat : end = (phdr.p_vaddr + phdr.p_filesz) % Word
    BY <2>2, <2>3
  <2>6. PICK last \in Nat : last = (physical + phdr.p_filesz) % Word
    BY <2>2, <2>3
  <2> DEFINE g == IF x.virtual_base >= phdr.p_vaddr \/ x.virtual_base = 0
                    THEN [x EXCEPT !.virtual_base = phdr.p_vaddr,
                                   !.physical_base = physical]
                    ELSE x
             z == IF g.virtual_end <= end \/ g.virtual_end = 0
                    THEN [g EXCEPT !.virtual_end = end, !.physical_end = last]
                    ELSE g
  <2>7. ELF!elf_process_phdr_pt_load(x, phdr) = z
    BY <2>4, <2>5, <2>6 DEF ELF!elf_process_phdr_pt_load
  <2>8. g \in S
    BY <2>2 DEF ElfFile
  <2> HIDE DEF g
  <2>9. z \in S
    BY <2>8 DEF ElfFile
  <2> HIDE DEF z, S
  <2> QED
    BY <2>1, <2>7, <2>9
<1>3. f \in S
  BY DEF ElfFile
<1>4. ELF!elf_load(at, memory, phdrs) = turn[n]
  BY DEF ELF!elf_load, ELF!elf_process_pheaders
<1> HIDE DEF S, f, n
<1>5. \A t : \A k \in 0 .. n :
        loop(t)[k] = IF k = 0 THEN f ELSE next(k, t[k - 1])
  BY <1>1
<1> HIDE DEF next
<1>6. turn = loop(turn)
  <2>1. PICK step : step = [k \in 1 .. n |-> [x \in S |-> next(k, x)]]
    OBVIOUS
  <2>2. step \in Steps(n, S)
    BY <1>2, <2>1 DEF Steps
  <2>3. PICK a \in S : a = f
    BY <1>3
  <2>4. PICK g : Loop(n, S, a, step, g)
    BY <1>1, <2>2, LoopRuns
  <2>5. /\ g \in [0 .. n -> S] /\ g[0] = f
        /\ \A k \in 1 .. n : g[k] = step[k][g[k - 1]]
    BY <2>3, <2>4 DEF Loop
  <2>6. \A k \in 1 .. n : g[k] = next(k, g[k - 1])
    <3> SUFFICES ASSUME NEW k \in 1 .. n
                 PROVE  g[k] = next(k, g[k - 1])
      OBVIOUS
    <3>1. g[k - 1] \in S
      BY <1>1, <2>5
    <3> QED
      BY <2>1, <2>5, <3>1
  <2>7. \A k \in 0 .. n : k # 0 => k \in 1 .. n
    BY <1>1
  <2>8. \A k \in 0 .. n : g[k] = loop(g)[k]
    <3> HIDE DEF loop
    <3> QED
      BY <1>5, <2>5, <2>6, <2>7
  <2>9. g = loop(g)
    BY <2>5, <2>8
  <2> QED
    BY <2>9
<1>7. \A k \in 0 .. n : turn[k] = IF k = 0 THEN f ELSE next(k, turn[k - 1])
  <2> HIDE DEF loop, turn
  <2> QED
    BY <1>5, <1>6
<1> HIDE DEF turn
<1>8. \A k \in 0 .. n : turn[k] \in S
  <2> DEFINE Out == {k \in 0 .. n : turn[k] \notin S}
  <2> SUFFICES ASSUME Out # {}
               PROVE  FALSE
    OBVIOUS
  <2>1. Out \subseteq Nat
    BY <1>1
  <2>2. PICK k \in Out : \A j \in Out : k <= j
    BY <2>1, LeastNumber
  <2>3. k \in 0 .. n /\ turn[k] \notin S
    BY <2>2
  <2>4. k # 0
    BY <1>3, <1>7, <2>3
  <2>5. PICK l \in 0 .. n : l = k - 1
    BY <1>1, <2>3, <2>4
  <2>6. l \notin Out
    <3> HIDE DEF Out
    <3> QED
      BY <1>1, <2>2, <2>3, <2>5
  <2>7. turn[l] \in S /\ turn[k] = next(k, turn[l]) /\ k \in 1 .. n
    BY <1>1, <1>7, <2>3, <2>4, <2>5, <2>6
  <2> QED
    BY <1>2, <2>3, <2>7
<1>9. \A k \in 1 .. n : k \in 0 .. n /\ k # 0
  BY <1>1
<1>10. \A k \in 1 .. n : turn[k] = next(k, turn[k - 1])
  BY <1>7, <1>9
<1>11. 0 \in 0 .. n
  BY <1>1
<1>12. turn[0] = f
  BY <1>7, <1>11
<1>13. ElfTurns(turn, at, memory, phdrs)
  BY <1>4, <1>8, <1>10, <1>12 DEF ElfTurns, S, f, n, next
<1> QED
  BY <1>13

\* The struct keeps its fields and both addresses.
LEMMA ElfLoads ==
  ASSUME NEW at \in Int, NEW memory \in Int,
         NEW phdrs \in Seq(ELF!ProgramHeader)
  PROVE  ELF!elf_load(at, memory, phdrs) \in ElfFile(at, memory)
<1>1. PICK t : ElfTurns(t, at, memory, phdrs)
  BY ElfLoadRuns
<1>2. Len(phdrs) \in 0 .. Len(phdrs)
  OBVIOUS
<1> QED
  BY <1>1, <1>2 DEF ElfTurns

LEMMA NoProgramFields == NoProgram \in ElfFile(0, 0)
<1>1. <<>> \in Seq(ELF!ProgramHeader) /\ 0 \in Int
  OBVIOUS
<1> QED
  BY <1>1, ElfLoads DEF NoProgram

-----------------------------------------------------------------------------
\* The end of a mapping is an address.
LEMMA EndTyped ==
  ASSUME NEW ptr \in Int, NEW size \in Int
  PROVE  End(ptr, size) \in 0 .. (Word - 1)
<1>1. BlockSize \in Nat \ {0} /\ Word \in Nat \ {0}
  BY Layout
<1>2. PICK a \in 0 .. (Word - 1) : a = (ptr + size) % Word
  <2>1. PICK sum \in Int : sum = ptr + size
    OBVIOUS
  <2> QED
    BY <1>1, <2>1, QuotientRemainder
<1>3. PICK up \in Int : up = a + BlockSize - (a % BlockSize)
  BY <1>1
<1>4. up % Word \in 0 .. (Word - 1)
  BY <1>1, QuotientRemainder
<1> QED
  BY <1>2, <1>3, <1>4 DEF End, PG!paging_align_address

\* The mapping of a whole claim.
LEMMA MapClaim ==
  ASSUME NEW dir, NEW F, DirOK(dir, F, {}), NEW c \in F, c.s \in H!Blocks,
         NEW ptr, ptr = H!heap_block_to_address(c.s),
         NEW size \in 0 .. (Word - 1), c.n = H!TotalBlocks(size), c.n # 0,
         NEW virtual \in Int
  PROVE  DirOK(PG!paging_map_to(dir, virtual, ptr, End(ptr, size), "write"),
               F, {})
<1>1. PICK end, new :
        /\ end = End(ptr, size)
        /\ new = PG!paging_map_to(dir, virtual, ptr, end, "write")
  OBVIOUS
<1>2. /\ ptr \in Int /\ ptr >= 0 /\ size \in Int /\ Word \in Nat /\ Base \in Nat
      /\ PageOf(ptr) = Base + c.s /\ c.s \in Int
  BY Layout, BlockAddress, BlockFacts
<1>3. end \in 0 .. (Word - 1)
  BY <1>1, <1>2, EndTyped
<1>4. "write" \in PG!Flags /\ dir \in [PG!Pages -> PG!PageEntry]
  BY DEF PG!Flags, DirOK
<1>5. /\ new \in [PG!Pages -> PG!PageEntry]
      /\ \A v \in PG!Pages :
           \/ new[v] = dir[v]
           \/ /\ PG!Mappable(virtual, ptr, end)
              /\ new[v].flags = "write"
              /\ new[v].frame \in PageOf(ptr) .. (PageOf(end) - 1)
  BY <1>1, <1>2, <1>3, <1>4, MapFrames
<1>6. ASSUME PG!Mappable(virtual, ptr, end)
      PROVE  PageOf(ptr) .. (PageOf(end) - 1) = PagesOf(c)
  <2>1. PG!Mappable(ptr, ptr, end)
    BY <1>6 DEF PG!Mappable
  <2>2. PICK b \in H!Blocks : b = c.s
    OBVIOUS
  <2>3. PICK n \in Nat : n = c.n /\ end = BlockSize * (Base + b + n)
    <3>1. H!TotalBlocks(size) # 0 /\ ptr = H!heap_block_to_address(b)
      BY <2>2
    <3> QED
      BY <1>1, <2>1, <3>1, EndOfRun
  <2>4. PICK q \in Int : q = Base + b + n
    BY <1>2, <2>2, <2>3
  <2>5. PageOf(end) = q
    BY <2>3, <2>4, Multiple DEF PageOf
  <2>6. Base + c.s + c.n - 1 = q - 1
    <3>1. c.n = n /\ c.s = b /\ b \in Int /\ Base \in Int
      BY <1>2, <2>2, <2>3
    <3> QED
      BY <2>4, <3>1
  <2> QED
    BY <1>2, <2>5, <2>6 DEF PagesOf, RunPages
<1>7. \A v \in PG!Pages : new[v].flags = "write" =>
        \E r \in F : new[v].frame \in PagesOf(r)
  BY <1>5, <1>6 DEF DirOK
<1>8. DirOK(new, F, {})
  BY <1>5, <1>7 DEF DirOK
<1> QED
  BY <1>1, <1>8

\* The mapping of a segment of an ELF file.
LEMMA MapSegment ==
  ASSUME SegmentsInFile, NEW file \in Images,
         ELF!elf_validate_loaded(file.header),
         NEW k \in DOMAIN file.phdrs, NEW prog,
         NEW dir, NEW F, DirOK(dir, F, {}), NEW c \in F, c.s \in H!Blocks,
         prog.elf_memory = H!heap_block_to_address(c.s),
         c.n = H!TotalBlocks(file.size), c.n \in Nat,
         NEW s, s = Segment(prog, file.phdrs[k])
  PROVE  DirOK(PG!paging_map_to(dir, s.virtual, s.start, s.end, s.flags), F, {})
<1>1. PICK phdr \in ELF!ProgramHeader : phdr = file.phdrs[k]
  <2>1. file.phdrs \in Seq(ELF!ProgramHeader)
    BY UserMemoryAssumption
  <2> QED
    BY <2>1
<1>2. /\ phdr.p_vaddr \in Nat /\ phdr.p_memsz \in Nat /\ phdr.p_offset \in Nat
      /\ phdr.writable \in BOOLEAN
  BY DEF ELF!ProgramHeader
<1>3. /\ BlockSize \in Nat \ {0} /\ Word \in Nat \ {0} /\ Base \in Nat
  BY Layout
<1>4. PICK memory \in Int : /\ memory = prog.elf_memory /\ memory >= 0
                            /\ memory = H!heap_block_to_address(c.s)
                            /\ PageOf(memory) = Base + c.s
  BY <1>3, BlockAddress
<1>5. PICK physical \in 0 .. (Word - 1) :
        physical = ELF!elf_phdr_phys_address(memory, phdr)
  <2>1. PICK sum \in Int : sum = memory + phdr.p_offset
    BY <1>2
  <2> QED
    BY <1>3, <2>1, QuotientRemainder DEF ELF!elf_phdr_phys_address
<1>6. /\ s.virtual = phdr.p_vaddr - (phdr.p_vaddr % BlockSize)
      /\ s.start = physical - (physical % BlockSize)
      /\ s.end = End(physical, phdr.p_memsz)
      /\ s.flags = IF phdr.writable THEN "write" ELSE "read"
      /\ s = Segment([elf_memory |-> memory], phdr)
  BY <1>1, <1>4, <1>5 DEF Segment, PG!paging_align_to_lower_page
<1>7. PICK virtual \in Int, start \in Int, end \in 0 .. (Word - 1),
           flags \in PG!Flags :
        /\ virtual = s.virtual /\ start = s.start /\ end = s.end
        /\ flags = s.flags /\ start >= 0
  <2>1. s.virtual \in Int
    BY <1>2, <1>3, <1>6
  <2>2. s.start \in Int /\ s.start >= 0
    <3>1. /\ physical \div BlockSize \in Int /\ physical \in Int
          /\ physical % BlockSize \in 0 .. (BlockSize - 1)
          /\ physical = BlockSize * (physical \div BlockSize)
                          + (physical % BlockSize)
      BY <1>3, QuotientRemainder
    <3>2. PICK q \in Int, r \in 0 .. (BlockSize - 1) :
            q = physical \div BlockSize /\ r = physical % BlockSize
      BY <3>1
    <3>3. PICK minus \in Int : minus = -1 /\ BlockSize * minus = -BlockSize
      BY <1>3
    <3>4. BlockSize * q > BlockSize * minus /\ BlockSize * q \in Int
      BY <1>3, <3>1, <3>2, <3>3
    <3>5. ~ (q <= minus)
      BY <1>3, <3>3, <3>4, ProductGrows
    <3>6. PICK zero \in Int : zero = 0 /\ BlockSize * zero = 0
      BY <1>3
    <3>7. BlockSize * zero <= BlockSize * q
      BY <1>3, <3>3, <3>5, <3>6, ProductGrows
    <3> QED
      BY <1>3, <1>6, <3>1, <3>2, <3>4, <3>6, <3>7
  <2>3. s.end \in 0 .. (Word - 1)
    <3>1. PICK a \in Int, size \in Int : a = physical /\ size = phdr.p_memsz
      BY <1>2, <1>3
    <3>2. End(a, size) \in 0 .. (Word - 1)
      BY EndTyped
    <3> QED
      BY <1>6, <3>1, <3>2
  <2>4. s.flags \in PG!Flags
    BY <1>2, <1>6 DEF PG!Flags
  <2> QED
    BY <2>1, <2>2, <2>3, <2>4
<1>8. PICK new : new = PG!paging_map_to(dir, virtual, start, end, flags)
  OBVIOUS
<1>9. dir \in [PG!Pages -> PG!PageEntry]
  BY DEF DirOK
<1>10. /\ new \in [PG!Pages -> PG!PageEntry]
       /\ \A v \in PG!Pages :
            \/ new[v] = dir[v]
            \/ /\ PG!Mappable(virtual, start, end)
               /\ new[v].flags = flags
               /\ new[v].frame \in PageOf(start) .. (PageOf(end) - 1)
  <2>1. start >= 0
    BY <1>7
  <2> QED
    BY <1>8, <1>9, <2>1, MapFrames
<1>11. ASSUME PG!Mappable(virtual, start, end), flags = "write"
       PROVE  PageOf(start) .. (PageOf(end) - 1) \subseteq PagesOf(c)
  <2>1. phdr.writable
    BY <1>2, <1>6, <1>7, <1>11
  <2>2. PICK b \in H!Blocks : b = c.s
    OBVIOUS
  <2>3. /\ PageOf(memory) <= PageOf(start)
        /\ PageOf(end) <= PageOf(memory) + H!TotalBlocks(file.size)
    <3>1. SegmentInFile(file, phdr, b)
      BY <1>1, <2>1 DEF SegmentsInFile
    <3> QED
      BY <1>4, <1>6, <1>7, <1>11, <2>2, <3>1 DEF SegmentInFile
  <2>4. c.s \in Int /\ PageOf(start) \in Int /\ PageOf(end) \in Int
    <3>1. start \div BlockSize \in Int /\ end \div BlockSize \in Int
      BY <1>3
    <3> QED
      BY <3>1, BlockFacts DEF PageOf
  <2> QED
    BY <1>3, <1>4, <2>3, <2>4 DEF PagesOf, RunPages
<1>12. \A v \in PG!Pages : new[v].flags = "write" =>
         \E r \in F : new[v].frame \in PagesOf(r)
  BY <1>10, <1>11 DEF DirOK
<1>13. DirOK(new, F, {})
  BY <1>10, <1>12 DEF DirOK
<1> QED
  BY <1>7, <1>8, <1>13

\* process_map_elf: what it maps writable is in the file.
LEMMA MapElf ==
  ASSUME SegmentsInFile, NEW file \in Images,
         ELF!elf_validate_loaded(file.header), NEW prog,
         NEW dir, NEW F, DirOK(dir, F, {}), NEW c \in F, c.s \in H!Blocks,
         prog.elf_memory = H!heap_block_to_address(c.s),
         c.n = H!TotalBlocks(file.size), c.n \in Nat
  PROVE  DirOK(process_map_elf(dir, prog, file.phdrs), F, {})
<1> DEFINE phdrs == file.phdrs
           n == Len(phdrs)
           S == {d \in [PG!Pages -> PG!PageEntry] : DirOK(d, F, {})}
           seg(k) == Segment(prog, phdrs[k])
           next(k, x) == PG!paging_map_to(x, seg(k).virtual, seg(k).start,
                                          seg(k).end, seg(k).flags)
           loop(t) == [k \in 0 .. n |-> IF k = 0 THEN dir ELSE next(k, t[k - 1])]
           turn == CHOOSE t : t = loop(t)
<1>1. n \in Nat /\ DOMAIN file.phdrs = 1 .. n
  <2>1. file.phdrs \in Seq(ELF!ProgramHeader)
    BY UserMemoryAssumption
  <2> QED
    BY <2>1
<1>2. ASSUME NEW x \in S, NEW k \in 1 .. n
      PROVE  next(k, x) \in S
  <2>1. PICK s : s = seg(k)
    OBVIOUS
  <2>2. k \in DOMAIN file.phdrs /\ DirOK(x, F, {})
    BY <1>1
  <2>3. DirOK(PG!paging_map_to(x, s.virtual, s.start, s.end, s.flags), F, {})
    BY <2>1, <2>2, MapSegment
  <2>4. PICK new : new = PG!paging_map_to(x, s.virtual, s.start, s.end, s.flags)
    OBVIOUS
  <2>5. new \in S
    BY <2>3, <2>4 DEF DirOK
  <2> HIDE DEF S, seg
  <2> QED
    BY <2>1, <2>4, <2>5
<1>3. dir \in S
  BY DEF DirOK
<1>4. process_map_elf(dir, prog, file.phdrs) = turn[n]
  BY DEF process_map_elf
<1> HIDE DEF next, S, n
<1>5. turn = loop(turn)
  <2>1. PICK step : step = [k \in 1 .. n |-> [x \in S |-> next(k, x)]]
    OBVIOUS
  <2>2. step \in Steps(n, S)
    BY <1>2, <2>1 DEF Steps
  <2>4. PICK g : Loop(n, S, dir, step, g)
    BY <1>1, <1>3, <2>2, LoopRuns
  <2>5. /\ g \in [0 .. n -> S] /\ g[0] = dir
        /\ \A k \in 1 .. n : g[k] = step[k][g[k - 1]]
    BY <2>4 DEF Loop
  <2>6. \A k \in 1 .. n : g[k] = next(k, g[k - 1])
    <3> SUFFICES ASSUME NEW k \in 1 .. n
                 PROVE  g[k] = next(k, g[k - 1])
      OBVIOUS
    <3>1. g[k - 1] \in S
      BY <1>1, <2>5
    <3> QED
      BY <2>1, <2>5, <3>1
  <2>7. \A k \in 0 .. n : k # 0 => k \in 1 .. n
    BY <1>1
  <2>8. g = loop(g)
    BY <2>5, <2>6, <2>7
  <2> QED
    BY <2>8
<1> HIDE DEF turn
<1>6. \A k \in 0 .. n : turn[k] \in S
  <2> DEFINE Out == {k \in 0 .. n : turn[k] \notin S}
  <2> SUFFICES ASSUME Out # {}
               PROVE  FALSE
    OBVIOUS
  <2>1. Out \subseteq Nat
    BY <1>1
  <2>2. PICK k \in Out : \A j \in Out : k <= j
    BY <2>1, LeastNumber
  <2>3. k \in 0 .. n /\ turn[k] \notin S
    BY <2>2
  <2>4. k # 0
    BY <1>3, <1>5, <2>3
  <2>5. PICK l \in 0 .. n : l = k - 1
    BY <1>1, <2>3, <2>4
  <2>6. l \notin Out
    <3> HIDE DEF Out
    <3> QED
      BY <1>1, <2>2, <2>3, <2>5
  <2>7. turn[l] \in S /\ turn[k] = next(k, turn[l]) /\ k \in 1 .. n
    BY <1>1, <1>5, <2>3, <2>4, <2>5, <2>6
  <2> QED
    BY <1>2, <2>3, <2>7
<1>7. n \in 0 .. n
  BY <1>1
<1> QED
  BY <1>4, <1>6, <1>7 DEF S, n

LEMMA NewDirectory == PG!paging_new_4gb("read") \in [PG!Pages -> PG!PageEntry]
BY DEF PG!paging_new_4gb, PG!PageEntry, PG!Flags

\* process_map_memory: the file and the stack, and nothing else, is writable.
LEMMA MapMemory ==
  ASSUME SegmentsInFile, NEW file \in Images, H!TotalBlocks(file.size) # 0,
         NEW prog, prog.at # 0 => ELF!elf_validate_loaded(file.header),
         prog.elf_memory \in Addresses,
         H!heap_address_to_block(prog.elf_memory) \in H!Blocks,
         NEW stk \in Addresses, H!heap_address_to_block(stk) \in H!Blocks,
         NEW p, NEW F, F = Fixed(p, prog, file, stk)
  PROVE  DirOK(process_map_memory(prog, stk, file), F, {})
<1>1. PICK c, d : /\ c = Claim(p, "file", 0, prog.elf_memory, file.size)
                  /\ d = Claim(p, "stack", 0, stk, BlockSize)
  OBVIOUS
<1>2. PICK memory \in Addresses, size \in 0 .. (Word - 1) :
        memory = prog.elf_memory /\ size = file.size
  BY UserMemoryAssumption
<1>3. /\ c \in F /\ c.s \in H!Blocks /\ memory = H!heap_block_to_address(c.s)
      /\ c.n = H!TotalBlocks(size)
  BY <1>1, <1>2, ClaimAddress DEF Fixed, Claim
<1>4. /\ d \in F /\ d.s \in H!Blocks /\ stk = H!heap_block_to_address(d.s)
      /\ d.n = H!TotalBlocks(BlockSize)
  BY <1>1, ClaimAddress DEF Fixed, Claim
<1>5. PICK one \in 0 .. (Word - 1) : one = BlockSize /\ H!TotalBlocks(one) # 0
  BY OneBlock
<1>6. PICK dir : dir = PG!paging_new_4gb("read")
  OBVIOUS
<1>7. DirOK(dir, F, {})
  <2>1. \A v \in PG!Pages : dir[v] \in PG!PageEntry /\ dir[v].flags # "write"
    BY <1>6 DEF PG!paging_new_4gb, PG!PageEntry, PG!Flags
  <2>2. dir \in [PG!Pages -> PG!PageEntry]
    BY <1>6, <2>1 DEF PG!paging_new_4gb
  <2> QED
    BY <2>1, <2>2 DEF DirOK
<1>8. PICK loaded_dir : loaded_dir = IF prog.at = 0
                          THEN process_map_binary(dir, prog, file.size)
                          ELSE process_map_elf(dir, prog, file.phdrs)
  OBVIOUS
<1>9. DirOK(loaded_dir, F, {})
  <2>1. CASE prog.at = 0
    <3>1. PICK virtual \in Int : virtual = ProgramAddress
      BY UserMemoryAssumption
    <3>2. c.n # 0
      BY <1>2, <1>3
    <3>3. DirOK(PG!paging_map_to(dir, virtual, memory, End(memory, size), "write"),
                F, {})
      BY <1>3, <1>7, <3>2, MapClaim
    <3> QED
      BY <1>2, <1>8, <2>1, <3>1, <3>3 DEF process_map_binary
  <2>2. CASE prog.at # 0
    <3>1. /\ ELF!elf_validate_loaded(file.header)
          /\ prog.elf_memory = H!heap_block_to_address(c.s)
          /\ c.n = H!TotalBlocks(file.size)
      BY <1>2, <1>3, <2>2
    <3>2. c.n \in Nat
      BY <1>3, TotalBlocksNat
    <3>3. DirOK(process_map_elf(dir, prog, file.phdrs), F, {})
      BY <1>3, <1>7, <3>1, <3>2, MapElf
    <3> QED
      BY <1>8, <2>2, <3>3
  <2> QED
    BY <2>1, <2>2
<1>10. DirOK(PG!paging_map_to(loaded_dir, StackAddress, stk, End(stk, BlockSize),
                              "write"), F, {})
  <2>1. PICK virtual \in Int : virtual = StackAddress
    BY UserMemoryAssumption
  <2>2. d.n = H!TotalBlocks(one) /\ d.n # 0
    BY <1>4, <1>5
  <2>3. DirOK(PG!paging_map_to(loaded_dir, virtual, stk, End(stk, one), "write"),
              F, {})
    BY <1>4, <1>9, <2>2, MapClaim
  <2> QED
    BY <1>5, <2>1, <2>3
<1> QED
  BY <1>6, <1>8, <1>10 DEF process_map_memory, process_map_stack

-----------------------------------------------------------------------------
\* The addresses that kzalloc gives.
LEMMA KzallocAddress ==
  ASSUME NEW h \in [H!Blocks -> H!Entry], NEW size \in 0 .. (Word - 1)
  PROVE  /\ kzalloc(h, size).ptr \in Addresses
         /\ kzalloc(h, size).heap \in [H!Blocks -> H!Entry]
<1>1. Holds(h, {})
  BY DEF Holds
<1>2. Holds(kzalloc(h, size).heap, {})
  BY <1>1, KzallocKeeps
<1>3. \/ kzalloc(h, size).ptr = 0
      \/ \E s \in H!Blocks : kzalloc(h, size).ptr = H!heap_block_to_address(s)
  BY KzallocMarks
<1> QED
  BY <1>2, <1>3 DEF Holds, Addresses

\* process_load_data, whatever it gets.
LEMMA LoadDataKeeps ==
  ASSUME NEW h, NEW R, Holds(h, R), NEW file \in Images
  PROVE  /\ Holds(process_load_data(h, file).heap, R)
         /\ Holds(process_load_data(h, file).unread, R)
<1>1. PICK one \in 0 .. (Word - 1) : one = BlockSize - 1
  BY OneBlock
<1>2. PICK size \in 0 .. (Word - 1) : size = file.size
  BY UserMemoryAssumption
<1>3. PICK e, f, b : e = kzalloc(h, one) /\ f = kzalloc(e.heap, size)
                     /\ b = kzalloc(f.heap, size)
  OBVIOUS
<1>4. Holds(e.heap, R)
  BY <1>3, KzallocKeeps
<1>5. Holds(f.heap, R)
  BY <1>3, <1>4, KzallocKeeps
<1>6. Holds(b.heap, R)
  BY <1>3, <1>5, KzallocKeeps
<1>7. /\ process_load_data(h, file).heap \in {f.heap, b.heap}
      /\ process_load_data(h, file).unread = f.heap
  BY <1>1, <1>2, <1>3 DEF process_load_data
<1> QED
  BY <1>5, <1>6, <1>7

\* What process_load_data got, when it got what it asked for.
LEMMA LoadDataHolds ==
  ASSUME SizesTaken, NEW h, NEW R, Holds(h, R), NEW file \in Images, NEW p,
         NEW x, x = process_load_data(h, file), x.sound, x.ok
  PROVE  /\ x.program.at # 0 => ELF!elf_validate_loaded(file.header)
         /\ x.program \in [at : Addresses, elf_memory : Addresses,
                           virtual_base : Nat, virtual_end : Nat,
                           physical_base : Nat, physical_end : Nat]
         /\ H!heap_address_to_block(x.program.elf_memory) \in H!Blocks
         /\ H!TotalBlocks(file.size) # 0
         /\ Holds(x.heap, (R \cup {Claim(p, "file", 0, x.program.elf_memory,
                                         file.size)})
                    \cup (IF x.program.at = 0 THEN {}
                          ELSE {Claim(p, "at", 0, x.program.at, BlockSize - 1)}))
<1>1. PICK one \in 0 .. (Word - 1) : one = BlockSize - 1 /\ H!TotalBlocks(one) # 0
  BY OneBlock
<1>2. PICK size \in 0 .. (Word - 1) : size = file.size /\ H!TotalBlocks(size) # 0
  BY UserMemoryAssumption DEF SizesTaken
<1>3. PICK e, f, b : e = kzalloc(h, one) /\ f = kzalloc(e.heap, size)
                     /\ b = kzalloc(f.heap, size)
  OBVIOUS
<1>4. file.phdrs \in Seq(ELF!ProgramHeader)
  BY UserMemoryAssumption
<1>5. CASE ELF!elf_validate_loaded(file.header)
  <2>1. /\ x.heap = f.heap /\ e.ptr # 0 /\ f.ptr # 0
        /\ x.program = ELF!elf_load(e.ptr, f.ptr, file.phdrs)
    BY <1>1, <1>2, <1>3, <1>5 DEF process_load_data
  <2>2. PICK c, d : /\ c = Claim(p, "at", 0, e.ptr, one)
                    /\ d = Claim(p, "file", 0, f.ptr, size)
    OBVIOUS
  <2>3. Holds(e.heap, R \cup {c}) /\ e.ptr \in Addresses
    BY <1>1, <1>3, <2>1, <2>2, KzallocHolds
  <2>4. /\ Holds(f.heap, (R \cup {c}) \cup {d}) /\ f.ptr \in Addresses
        /\ H!heap_address_to_block(f.ptr) \in H!Blocks
    <3>1. PICK Q : Q = R \cup {c}
      OBVIOUS
    <3>2. Holds(e.heap, Q)
      BY <2>3, <3>1
    <3>3. /\ Holds(f.heap, Q \cup {d}) /\ f.ptr \in Addresses
          /\ H!heap_address_to_block(f.ptr) \in H!Blocks
      BY <1>2, <1>3, <2>1, <2>2, <3>2, KzallocHolds
    <3> QED
      BY <3>1, <3>3
  <2>5. /\ x.program.at = e.ptr /\ x.program.elf_memory = f.ptr
        /\ x.program \in [at : Addresses, elf_memory : Addresses,
                          virtual_base : Nat, virtual_end : Nat,
                          physical_base : Nat, physical_end : Nat]
    <3>1. \A a \in Addresses : a \in Int
      BY BlockAddress, Layout DEF Addresses
    <3>2. PICK at \in Int, memory \in Int : at = e.ptr /\ memory = f.ptr
      BY <2>3, <2>4, <3>1
    <3>3. ELF!elf_load(at, memory, file.phdrs) \in ElfFile(at, memory)
      BY <1>4, ElfLoads
    <3> QED
      BY <2>1, <2>3, <2>4, <3>2, <3>3 DEF ElfFile
  <2>6. (R \cup {c}) \cup {d} = (R \cup {d}) \cup {c}
    OBVIOUS
  <2> QED
    BY <1>1, <1>2, <1>5, <2>1, <2>2, <2>3, <2>4, <2>5, <2>6
<1>6. CASE ~ ELF!elf_validate_loaded(file.header)
  <2>1. /\ x.heap = b.heap /\ b.ptr # 0
        /\ x.program = [NoProgram EXCEPT !.elf_memory = b.ptr]
    BY <1>1, <1>2, <1>3, <1>6 DEF process_load_data
  <2>2. x.program.at = 0 /\ x.program.elf_memory = b.ptr
    BY <2>1, NoProgramFields DEF ElfFile
  <2>3. Holds(e.heap, R)
    BY <1>3, KzallocKeeps
  <2>4. Holds(f.heap, R)
    BY <1>3, <2>3, KzallocKeeps
  <2>5. PICK d : d = Claim(p, "file", 0, b.ptr, size)
    OBVIOUS
  <2>6. /\ Holds(b.heap, R \cup {d}) /\ b.ptr \in Addresses
        /\ H!heap_address_to_block(b.ptr) \in H!Blocks
    BY <1>2, <1>3, <2>1, <2>4, <2>5, KzallocHolds
  <2>7. (R \cup {d}) \cup {} = R \cup {d}
    OBVIOUS
  <2>8. x.program \in [at : Addresses, elf_memory : Addresses,
                       virtual_base : Nat, virtual_end : Nat,
                       physical_base : Nat, physical_end : Nat]
    BY <2>1, <2>6, NoProgramFields, SlotsNat DEF ElfFile
  <2> QED
    BY <1>2, <1>6, <2>1, <2>2, <2>5, <2>6, <2>7, <2>8
<1> QED
  BY <1>5, <1>6

-----------------------------------------------------------------------------
\* The claims of the programs that are loaded, without p.
Others(p) == UNION {Claims(q) : q \in loaded \ {p}}

\* All claims but those of the malloc calls of p.
Rest(p) == Others(p) \cup FixedOf(p) \cup KernelOf(p)

LEMMA ClaimBy ==
  ASSUME NEW q, NEW r \in Claims(q)
  PROVE  r.by = q
BY DEF Claims, FixedOf, KernelOf, Fixed, Kernel, Alloc, Claim

LEMMA NotFromMalloc ==
  ASSUME NEW q, NEW r \in FixedOf(q) \cup KernelOf(q)
  PROVE  r.use # "malloc" /\ r.by = q
BY DEF FixedOf, KernelOf, Fixed, Kernel, Claim

LEMMA RestForeign ==
  ASSUME NEW p
  PROVE  Foreign(p, Rest(p))
<1> SUFFICES ASSUME NEW r \in Rest(p), r.by = p
             PROVE  r.use # "malloc"
  BY DEF Foreign
<1>1. CASE r \in Others(p)
  <2>1. PICK q \in loaded \ {p} : r \in Claims(q)
    BY <1>1 DEF Others
  <2> QED
    BY <2>1, ClaimBy
<1>2. CASE r \in FixedOf(p) \cup KernelOf(p)
  BY <1>2, NotFromMalloc
<1> QED
  BY <1>1, <1>2 DEF Rest

LEMMA AllClaims ==
  ASSUME NEW p \in loaded
  PROVE  UNION {Claims(q) : q \in loaded} =
           Rest(p) \cup Alloc(p, allocations[p])
BY DEF Rest, Others, Claims

\* The memory of a program, at a system call.
LEMMA MemoryAtCall ==
  ASSUME UInv, NEW p \in loaded
  PROVE  MemoryOK(p, MemoryOf(p), Rest(p), FixedOf(p))
<1>1. /\ MemoryOf(p).heap = table /\ MemoryOf(p).allocations = allocations[p]
      /\ MemoryOf(p).directory = directory[p]
  BY DEF MemoryOf
<1>2. /\ p \in Procs /\ table \in [H!Blocks -> H!Entry]
      /\ allocations \in
           [Procs -> [Slots -> [ptr : Addresses, size : 0 .. (Word - 1)]]]
      /\ directory \in [Procs -> [PG!Pages -> PG!PageEntry]]
  BY DEF UInv, TypeOK
<1>3. MemoryOf(p) \in
        [heap        : [H!Blocks -> H!Entry],
         allocations : [Slots -> [ptr : Addresses, size : 0 .. (Word - 1)]],
         directory   : [PG!Pages -> PG!PageEntry],
         ptr         : Addresses]
  BY <1>2, SlotsNat DEF MemoryOf
<1>4. Holds(table, Rest(p) \cup Alloc(p, allocations[p]))
  BY AllClaims DEF UInv
<1>5. /\ AllocOK(allocations[p])
      /\ DirOK(directory[p], FixedOf(p), Alloc(p, allocations[p]))
  BY DEF UInv
<1> QED
  BY <1>1, <1>3, <1>4, <1>5 DEF MemoryOK

\* The same with another heap that keeps the claims.
LEMMA MemoryWithHeap ==
  ASSUME UInv, NEW p \in loaded, NEW heap,
         Holds(heap, UNION {Claims(q) : q \in loaded}),
         NEW mem, mem = [MemoryOf(p) EXCEPT !.heap = heap]
  PROVE  /\ MemoryOK(p, mem, Rest(p), FixedOf(p))
         /\ mem.allocations = allocations[p]
<1>1. mem.heap = heap /\ mem.allocations = allocations[p]
      /\ mem.directory = directory[p]
  BY DEF MemoryOf
<1>2. /\ p \in Procs /\ heap \in [H!Blocks -> H!Entry]
      /\ allocations \in
           [Procs -> [Slots -> [ptr : Addresses, size : 0 .. (Word - 1)]]]
      /\ directory \in [Procs -> [PG!Pages -> PG!PageEntry]]
  BY DEF UInv, TypeOK, Holds
<1>3. mem \in
        [heap        : [H!Blocks -> H!Entry],
         allocations : [Slots -> [ptr : Addresses, size : 0 .. (Word - 1)]],
         directory   : [PG!Pages -> PG!PageEntry],
         ptr         : Addresses]
  BY <1>2, SlotsNat DEF MemoryOf
<1>4. Holds(heap, Rest(p) \cup Alloc(p, allocations[p]))
  BY AllClaims
<1>5. /\ AllocOK(allocations[p])
      /\ DirOK(directory[p], FixedOf(p), Alloc(p, allocations[p]))
  BY DEF UInv
<1> QED
  BY <1>1, <1>3, <1>4, <1>5 DEF MemoryOK

\* A system call after which the memory is in order.
LEMMA CallKeeps ==
  ASSUME UInv, NEW p \in loaded, NEW m, Becomes(p, m),
         MemoryOK(p, m, Rest(p), FixedOf(p))
  PROVE  UInv'
<1>1. /\ table' = m.heap /\ loaded' = loaded /\ record' = record
      /\ image' = image /\ program' = program /\ stack' = stack
      /\ task' = task
      /\ allocations' = [allocations EXCEPT ![p] = m.allocations]
      /\ directory' = [directory EXCEPT ![p] = m.directory]
  BY DEF Becomes
<1>2. TypeOK /\ p \in Procs
  BY DEF UInv, TypeOK
<1>3. /\ m.heap \in [H!Blocks -> H!Entry]
      /\ m.allocations \in [Slots -> [ptr : Addresses, size : 0 .. (Word - 1)]]
      /\ m.directory \in [PG!Pages -> PG!PageEntry]
      /\ AllocOK(m.allocations)
      /\ Holds(m.heap, Rest(p) \cup Alloc(p, m.allocations))
      /\ DirOK(m.directory, FixedOf(p), Alloc(p, m.allocations))
  BY DEF MemoryOK
<1>4. /\ allocations'[p] = m.allocations /\ directory'[p] = m.directory
      /\ \A q \in Procs : q # p => /\ allocations'[q] = allocations[q]
                                   /\ directory'[q] = directory[q]
  BY <1>1, <1>2 DEF TypeOK
<1>5. TypeOK'
  BY <1>1, <1>2, <1>3 DEF TypeOK
<1>6. /\ \A q \in Procs : FixedOf(q)' = FixedOf(q) /\ KernelOf(q)' = KernelOf(q)
      /\ Alloc(p, allocations[p])' = Alloc(p, m.allocations)
      /\ \A q \in Procs : q # p =>
           Alloc(q, allocations[q])' = Alloc(q, allocations[q])
  BY <1>1, <1>4 DEF FixedOf, KernelOf
<1>7. \A q \in loaded \ {p} : Claims(q)' = Claims(q)
  BY <1>2, <1>6 DEF Claims, TypeOK
<1>8. Claims(p)' = FixedOf(p) \cup KernelOf(p) \cup Alloc(p, m.allocations)
  BY <1>2, <1>6 DEF Claims
<1>9. (UNION {Claims(q) : q \in loaded})' = Rest(p) \cup Alloc(p, m.allocations)
  <2>1. (UNION {Claims(q) : q \in loaded})'
          = UNION {Claims(q)' : q \in loaded}
    BY <1>1
  <2>2. UNION {Claims(q)' : q \in loaded} = Others(p) \cup Claims(p)'
    BY <1>7 DEF Others
  <2> QED
    BY <1>8, <2>1, <2>2 DEF Rest
<1>10. Holds(table, UNION {Claims(q) : q \in loaded})'
  BY <1>1, <1>3, <1>9
<1>11. ASSUME NEW q \in loaded
       PROVE  /\ image'[q] # NoImage
              /\ AllocOK(allocations'[q])
              /\ DirOK(directory'[q], FixedOf(q)', Alloc(q, allocations'[q]))
  <2>1. q \in Procs
    BY <1>2 DEF TypeOK
  <2>2. CASE q = p
    BY <1>1, <1>3, <1>4, <1>6, <2>1, <2>2 DEF UInv
  <2>3. CASE q # p
    BY <1>1, <1>4, <1>6, <2>1, <2>3 DEF UInv
  <2> QED
    BY <2>2, <2>3
<1> QED
  BY <1>1, <1>5, <1>10, <1>11 DEF UInv

\* A step that keeps the claims and all but the heap.
LEMMA HeapOnly ==
  ASSUME UInv, UNCHANGED <<loaded, record, image, program, stack, task,
                           allocations, directory>>,
         Holds(table', UNION {Claims(q) : q \in loaded})
  PROVE  UInv'
<1>1. table' \in [H!Blocks -> H!Entry]
  BY DEF Holds
<1>2. TypeOK'
  BY <1>1 DEF UInv, TypeOK
<1>3. \A q : /\ Claims(q)' = Claims(q) /\ FixedOf(q)' = FixedOf(q)
             /\ Alloc(q, allocations[q])' = Alloc(q, allocations[q])
  BY DEF Claims, FixedOf, KernelOf
<1>4. (UNION {Claims(q) : q \in loaded})' = UNION {Claims(q) : q \in loaded}
  BY <1>3
<1> QED
  BY <1>2, <1>3, <1>4 DEF UInv

LEMMA LoadNotFoundKeeps ==
  ASSUME UInv, LoadNotFound
  PROVE  UInv'
<1>1. PICK R : R = UNION {Claims(q) : q \in loaded}
  OBVIOUS
<1>2. PICK one \in 0 .. (Word - 1), two \in 0 .. (Word - 1) :
        one = BlockSize /\ two = BlockSize - 1
  BY OneBlock
<1>3. PICK a, h : a = kzalloc(table, one) /\ h = a.heap
  OBVIOUS
<1>4. Holds(h, R)
  BY <1>1, <1>3, KzallocKeeps DEF UInv
<1>5. Holds(kzalloc(h, two).heap, R)
  BY <1>4, KzallocKeeps
<1> QED
  BY <1>1, <1>2, <1>3, <1>5, HeapOnly DEF LoadNotFound

LEMMA LoadFailsKeeps ==
  ASSUME UInv, NEW file \in Images, LoadFails(file)
  PROVE  UInv'
<1>1. PICK R : R = UNION {Claims(q) : q \in loaded}
  OBVIOUS
<1>2. PICK one \in 0 .. (Word - 1) : one = BlockSize /\ H!TotalBlocks(one) # 0
  BY OneBlock
<1>3. PICK a, b, c, d :
        /\ a = kzalloc(table, one) /\ b = process_load_data(a.heap, file)
        /\ c = kzalloc(b.heap, one) /\ d = kzalloc(c.heap, one)
  OBVIOUS
<1>4. \/ UNCHANGED table
      \/ table' = b.heap
      \/ table' = b.unread
      \/ d.ptr # 0 /\ table' = kfree(d.heap, d.ptr)
  BY <1>2, <1>3 DEF LoadFails
<1>5. Holds(table, R)
  BY <1>1 DEF UInv
<1>6. Holds(a.heap, R)
  BY <1>3, <1>5, KzallocKeeps
<1>7. Holds(b.heap, R) /\ Holds(b.unread, R)
  BY <1>3, <1>6, LoadDataKeeps
<1>8. Holds(c.heap, R)
  BY <1>3, <1>7, KzallocKeeps
<1>9. d.ptr # 0 => Holds(kfree(d.heap, d.ptr), R)
  BY <1>2, <1>3, <1>8, GotAndGiven
<1>10. Holds(table', R)
  BY <1>4, <1>5, <1>7, <1>9
<1> QED
  BY <1>1, <1>10, HeapOnly DEF LoadFails

LEMMA LoadKeeps ==
  ASSUME SizesTaken, SegmentsInFile, UInv, NEW p \in Procs,
         NEW file \in Images, NEW argc \in {0, 1}, Load(p, file, argc)
  PROVE  UInv'
<1>1. PICK R : R = UNION {Claims(q) : q \in loaded}
  OBVIOUS
<1>2. PICK one \in 0 .. (Word - 1) : one = BlockSize /\ H!TotalBlocks(one) # 0
  BY OneBlock
<1>3. PICK a, b, c, d, m0, m :
        /\ a = kzalloc(table, BlockSize) /\ b = process_load_data(a.heap, file)
        /\ c = kzalloc(b.heap, BlockSize) /\ d = kzalloc(c.heap, BlockSize)
        /\ m0 = Memory(d.heap, NoAllocations,
                       process_map_memory(b.program, c.ptr, file))
        /\ m = process_inject_arguments(m0, argc)
        /\ p \notin loaded /\ b.sound /\ b.ok
        /\ \A x \in {a, c, d} : x.ptr # 0
        /\ table' = m.heap
        /\ allocations' = [allocations EXCEPT ![p] = m.allocations]
        /\ directory' = [directory EXCEPT ![p] = m.directory]
        /\ loaded' = loaded \cup {p}
        /\ record' = [record EXCEPT ![p] = a.ptr]
        /\ image' = [image EXCEPT ![p] = file]
        /\ program' = [program EXCEPT ![p] = b.program]
        /\ stack' = [stack EXCEPT ![p] = c.ptr]
        /\ task' = [task EXCEPT ![p] = d.ptr]
  <2>1. PICK a, b, c, d, m0, m :
          /\ a = kzalloc(table, BlockSize)
          /\ b = process_load_data(a.heap, file)
          /\ c = kzalloc(b.heap, BlockSize) /\ d = kzalloc(c.heap, BlockSize)
          /\ m0 = Memory(d.heap, NoAllocations,
                         process_map_memory(b.program, c.ptr, file))
          /\ m = process_inject_arguments(m0, argc)
          /\ p \notin loaded /\ b.sound /\ b.ok
          /\ \A x \in {a, c, d} : x.ptr # 0
          /\ Begins(p, file, a.ptr, b.program, c.ptr, d.ptr, m)
    BY DEF Load
  <2> QED
    BY <2>1, Zenon DEF Begins
<1>5. a.ptr # 0 /\ c.ptr # 0 /\ d.ptr # 0
  BY <1>3
<1>6. TypeOK /\ Holds(table, R)
  BY <1>1 DEF UInv
<1> DEFINE rec == Claim(p, "record", 0, a.ptr, one)
           at  == IF b.program.at = 0 THEN {}
                  ELSE {Claim(p, "at", 0, b.program.at, BlockSize - 1)}
           fil == Claim(p, "file", 0, b.program.elf_memory, file.size)
           stk == Claim(p, "stack", 0, c.ptr, one)
           tsk == Claim(p, "task", 0, d.ptr, one)
           R1 == R \cup {rec}
           R2 == (R1 \cup {fil}) \cup at
           R3 == R2 \cup {stk}
           R4 == R3 \cup {tsk}
           F == Fixed(p, b.program, file, c.ptr)
           K == Kernel(p, a.ptr, b.program, d.ptr)
<1>7. Holds(a.heap, R1) /\ a.ptr \in Addresses
  <2> HIDE DEF rec
  <2>1. PICK r : r = rec
    OBVIOUS
  <2>2. Holds(a.heap, R \cup {r}) /\ a.ptr \in Addresses
    BY <1>2, <1>3, <1>5, <1>6, <2>1, KzallocHolds DEF rec
  <2> QED
    BY <2>1, <2>2
<1> HIDE DEF R1
<1>8. /\ b.program.at # 0 => ELF!elf_validate_loaded(file.header)
      /\ b.program \in [at : Addresses, elf_memory : Addresses,
                        virtual_base : Nat, virtual_end : Nat,
                        physical_base : Nat, physical_end : Nat]
      /\ H!heap_address_to_block(b.program.elf_memory) \in H!Blocks
      /\ H!TotalBlocks(file.size) # 0
      /\ Holds(b.heap, R2)
  <2>1. PICK h, Q : h = a.heap /\ Q = R1
    OBVIOUS
  <2>2. Holds(h, Q) /\ b = process_load_data(h, file) /\ b.sound /\ b.ok
    BY <1>3, <1>7, <2>1
  <2>3. /\ b.program.at # 0 => ELF!elf_validate_loaded(file.header)
        /\ b.program \in [at : Addresses, elf_memory : Addresses,
                          virtual_base : Nat, virtual_end : Nat,
                          physical_base : Nat, physical_end : Nat]
        /\ H!heap_address_to_block(b.program.elf_memory) \in H!Blocks
        /\ H!TotalBlocks(file.size) # 0
        /\ Holds(b.heap, (Q \cup {Claim(p, "file", 0, b.program.elf_memory,
                                        file.size)})
                   \cup (IF b.program.at = 0 THEN {}
                         ELSE {Claim(p, "at", 0, b.program.at, BlockSize - 1)}))
    BY <2>2, LoadDataHolds
  <2> QED
    BY <2>1, <2>3
<1> HIDE DEF R2
<1>9. /\ Holds(c.heap, R3) /\ c.ptr \in Addresses
      /\ H!heap_address_to_block(c.ptr) \in H!Blocks
  BY <1>2, <1>3, <1>5, <1>8, KzallocHolds
<1> HIDE DEF R3
<1>10. Holds(d.heap, R4) /\ d.ptr \in Addresses
  BY <1>2, <1>3, <1>5, <1>9, KzallocHolds
<1>11. R4 = R \cup F \cup K
  BY <1>2 DEF R1, R2, R3, Fixed, Kernel
<1> HIDE DEF R4
<1>12. Foreign(p, R4)
  <2> SUFFICES ASSUME NEW r \in R4, r.by = p
               PROVE  r.use # "malloc"
    BY DEF Foreign
  <2>1. CASE r \in R
    <3>1. PICK q \in loaded : r \in Claims(q)
      BY <1>1, <2>1
    <3>2. q # p /\ r.by = q
      BY <1>3, <3>1, ClaimBy
    <3> QED
      BY <3>2
  <2>2. CASE r \in F \cup K
    BY <2>2 DEF Fixed, Kernel, Claim
  <2> HIDE DEF F, K
  <2> QED
    BY <1>11, <2>1, <2>2
<1>13. MemoryOK(p, m0, R4, F)
  <2>1. PICK dir : dir = process_map_memory(b.program, c.ptr, file)
    OBVIOUS
  <2>2. DirOK(dir, F, {})
    <3>0. PICK s \in Addresses : s = c.ptr
      BY <1>9
    <3>1. PICK prog, G : prog = b.program /\ G = Fixed(p, prog, file, s)
      OBVIOUS
    <3>2. /\ prog.at # 0 => ELF!elf_validate_loaded(file.header)
          /\ prog.elf_memory \in Addresses
          /\ H!heap_address_to_block(prog.elf_memory) \in H!Blocks
          /\ H!heap_address_to_block(s) \in H!Blocks
      BY <1>8, <1>9, <3>0, <3>1
    <3>3. DirOK(process_map_memory(prog, s, file), G, {})
      BY <1>8, <3>1, <3>2, MapMemory
    <3> QED
      BY <2>1, <3>0, <3>1, <3>3
  <2>3. m0 = [heap |-> d.heap, allocations |-> NoAllocations,
              directory |-> dir, ptr |-> 0]
    BY <1>3, <2>1 DEF Memory, Computed
  <2>4. AllocOK(NoAllocations) /\ Alloc(p, NoAllocations) = {}
    <3>1. NoAllocations \in [Slots -> [ptr : Addresses, size : 0 .. (Word - 1)]]
      BY SlotsNat DEF NoAllocations, NoAllocation
    <3>2. \A i \in Slots : NoAllocations[i].ptr = 0 /\ NoAllocations[i].size = 0
      BY DEF NoAllocations, NoAllocation
    <3> QED
      BY <3>1, <3>2 DEF AllocOK, Alloc
  <2>5. d.heap \in [H!Blocks -> H!Entry] /\ dir \in [PG!Pages -> PG!PageEntry]
    BY <1>10, <2>2 DEF Holds, DirOK
  <2>6. R4 \cup {} = R4
    OBVIOUS
  <2> HIDE DEF F
  <2> QED
    BY <1>10, <2>2, <2>3, <2>4, <2>5, <2>6, SlotsNat DEF MemoryOK, AllocOK
<1>14. MemoryOK(p, m, R4, F)
  <2>1. PICK n \in Nat : n = argc
    OBVIOUS
  <2>2. m = process_inject_arguments(m0, n)
    BY <1>3, <2>1
  <2> HIDE DEF F
  <2> QED
    BY <1>12, <1>13, <2>2, InjectOK
<1>15. /\ m.heap \in [H!Blocks -> H!Entry]
       /\ m.allocations \in [Slots -> [ptr : Addresses, size : 0 .. (Word - 1)]]
       /\ m.directory \in [PG!Pages -> PG!PageEntry]
       /\ AllocOK(m.allocations)
       /\ Holds(m.heap, R4 \cup Alloc(p, m.allocations))
       /\ DirOK(m.directory, F, Alloc(p, m.allocations))
  BY <1>14 DEF MemoryOK
<1>16. TypeOK'
  <2>1. /\ table' \in [H!Blocks -> H!Entry]
        /\ loaded' \subseteq Procs
        /\ record' \in [Procs -> Addresses] /\ stack' \in [Procs -> Addresses]
        /\ task' \in [Procs -> Addresses]
    BY <1>3, <1>6, <1>7, <1>9, <1>10, <1>15 DEF TypeOK
  <2>2. /\ allocations' \in
             [Procs -> [Slots -> [ptr : Addresses, size : 0 .. (Word - 1)]]]
        /\ directory' \in [Procs -> [PG!Pages -> PG!PageEntry]]
    BY <1>3, <1>6, <1>15 DEF TypeOK
  <2>3. /\ image' \in [Procs -> Images \cup {NoImage}]
        /\ program' \in
             [Procs -> [at : Addresses, elf_memory : Addresses,
                        virtual_base : Nat, virtual_end : Nat,
                        physical_base : Nat, physical_end : Nat]]
    BY <1>3, <1>6, <1>8 DEF TypeOK
  <2> QED
    BY <2>1, <2>2, <2>3 DEF TypeOK
<1>17. /\ allocations'[p] = m.allocations /\ directory'[p] = m.directory
       /\ record'[p] = a.ptr /\ image'[p] = file /\ program'[p] = b.program
       /\ stack'[p] = c.ptr /\ task'[p] = d.ptr
       /\ \A q \in Procs : q # p =>
            /\ allocations'[q] = allocations[q]
            /\ directory'[q] = directory[q]
            /\ record'[q] = record[q] /\ image'[q] = image[q]
            /\ program'[q] = program[q] /\ stack'[q] = stack[q]
            /\ task'[q] = task[q]
  BY <1>3, <1>6 DEF TypeOK
<1>18. \A q \in loaded : q \in Procs /\ q # p
  BY <1>3, <1>6 DEF TypeOK
<1>19. /\ \A q \in loaded : /\ FixedOf(q)' = FixedOf(q)
                            /\ Alloc(q, allocations[q])' = Alloc(q, allocations[q])
                            /\ KernelOf(q)' = KernelOf(q)
       /\ Alloc(p, allocations[p])' = Alloc(p, m.allocations)
       /\ FixedOf(p)' = F /\ KernelOf(p)' = K
  BY <1>17, <1>18 DEF FixedOf, KernelOf
<1> HIDE DEF F, K
<1>20. (UNION {Claims(q) : q \in loaded})' = R4 \cup Alloc(p, m.allocations)
  <2>1. \A q \in loaded : Claims(q)' = Claims(q)
    BY <1>19 DEF Claims
  <2>2. Claims(p)' = F \cup K \cup Alloc(p, m.allocations)
    BY <1>19 DEF Claims
  <2>3. (UNION {Claims(q) : q \in loaded})'
          = UNION {Claims(q)' : q \in loaded \cup {p}}
    BY <1>3
  <2>4. UNION {Claims(q)' : q \in loaded \cup {p}} = R \cup Claims(p)'
    BY <1>1, <2>1
  <2> QED
    BY <1>11, <2>2, <2>3, <2>4
<1>21. Holds(table, UNION {Claims(q) : q \in loaded})'
  BY <1>3, <1>15, <1>20
<1>22. ASSUME NEW q \in loaded'
       PROVE  /\ image'[q] # NoImage
              /\ AllocOK(allocations'[q])
              /\ DirOK(directory'[q], FixedOf(q)', Alloc(q, allocations'[q]))
  <2>1. CASE q = p
    <3>1. file # NoImage
      BY UserMemoryAssumption
    <3> QED
      BY <1>15, <1>17, <1>19, <2>1, <3>1
  <2>2. CASE q \in loaded
    BY <1>17, <1>18, <1>19, <2>2 DEF UInv
  <2> QED
    BY <1>3, <2>1, <2>2
<1> QED
  BY <1>16, <1>21, <1>22 DEF UInv

-----------------------------------------------------------------------------
\* kfree of the pointer of a claim.
LEMMA GiveOne ==
  ASSUME NEW h, NEW R, Holds(h, R), NEW p, NEW use, NEW ptr \in Addresses,
         NEW size, NEW r, r = Claim(p, use, 0, ptr, size), r \in R,
         NEW g, g = kfree(h, ptr)
  PROVE  /\ Holds(g, R \ {r})
         /\ Freed(g, r)
         /\ Shrinks(h, g)
<1>1. r.s = H!heap_address_to_block(ptr) /\ r.s \in H!Blocks
  BY DEF Holds, Claim
<1>2. ptr = H!heap_block_to_address(r.s)
  BY <1>1, ClaimAddress
<1> QED
  <2>1. Holds(g, R \ {r}) /\ Freed(g, r)
    BY <1>2, KfreeHolds
  <2> QED
    BY <2>1, KfreeShrinks DEF Shrinks

\* A program ends, with the heap as it is or after a buffer was allocated.
Ending(p) ==
  \E heap : /\ Holds(heap, UNION {Claims(q) : q \in loaded})
            /\ process_terminate(p, heap)

LEMMA ExitEnds ==
  ASSUME UInv, NEW p, Exit(p) \/ PassTextFaults(p)
  PROVE  p \in loaded /\ Ending(p)
<1>1. Holds(table, UNION {Claims(q) : q \in loaded})
  BY DEF UInv
<1>2. CASE Exit(p)
  BY <1>1, <1>2 DEF Exit, Ending
<1>3. CASE PassTextFaults(p)
  <2>1. PICK one \in 0 .. (Word - 1) : one = BlockSize - 1
    BY OneBlock
  <2>2. p \in loaded /\ process_terminate(p, kzalloc(table, one).heap)
    BY <1>3, <2>1 DEF PassTextFaults
  <2>3. Holds(kzalloc(table, one).heap, UNION {Claims(q) : q \in loaded})
    BY <1>1, KzallocKeeps
  <2> QED
    BY <2>2, <2>3 DEF Ending
<1> QED
  BY <1>2, <1>3

\* The heap when a program is gone: all it could write is given back, and
\* the claims of the others are kept.
LEMMA ExitHeap ==
  ASSUME UInv, NEW p \in loaded, Ending(p)
  PROVE  /\ Holds(table', Others(p))
         /\ \A r \in FixedOf(p) \cup Alloc(p, allocations[p]) :
              Freed(table', r)
<1>0. PICK heap : /\ Holds(heap, UNION {Claims(q) : q \in loaded})
                  /\ process_terminate(p, heap)
  BY DEF Ending
<1>3. PICK mem, R, F : /\ mem = [MemoryOf(p) EXCEPT !.heap = heap]
                       /\ R = Rest(p) /\ F = FixedOf(p)
  OBVIOUS
<1>1. PICK m, h0, h1, h2, h3, h4 :
        /\ m = process_terminate_allocations(mem) /\ h0 = m.heap
        /\ h1 = kfree(h0, program[p].elf_memory)
        /\ h2 = (IF program[p].at = 0 THEN h1 ELSE kfree(h1, program[p].at))
        /\ h3 = kfree(h2, stack[p]) /\ h4 = kfree(h3, task[p])
  OBVIOUS
<1>2. table' = h4
  BY <1>0, <1>1, <1>3 DEF process_terminate, process_free_program_data
<1>4. /\ MemoryOK(p, mem, R, F) /\ Foreign(p, R)
      /\ mem.allocations = allocations[p]
  BY <1>0, <1>3, MemoryWithHeap, RestForeign
<1>5. MemoryOK(p, m, R, F) /\ GivenBack(p, mem, m, MaxAllocations)
  BY <1>1, <1>3, <1>4, TerminateOK
<1>6. Holds(h0, R)
  <2>1. Holds(h0, R \cup Alloc(p, m.allocations))
    BY <1>1, <1>5 DEF MemoryOK
  <2> QED
    BY <2>1, HoldsSome
<1>7. PICK file \in Addresses, at \in Addresses, stk \in Addresses,
           tsk \in Addresses :
        /\ file = program[p].elf_memory /\ at = program[p].at
        /\ stk = stack[p] /\ tsk = task[p]
  BY DEF UInv, TypeOK
<1>8. PICK cf, ca, cs, ct :
        /\ cf = Claim(p, "file", 0, file, image[p].size)
        /\ ca = Claim(p, "at", 0, at, BlockSize - 1)
        /\ cs = Claim(p, "stack", 0, stk, BlockSize)
        /\ ct = Claim(p, "task", 0, tsk, BlockSize)
  OBVIOUS
<1>9. /\ cf \in R /\ cs \in R /\ ct \in R /\ (at # 0 => ca \in R)
      /\ FixedOf(p) = {cs, cf} /\ Others(p) \subseteq R
  BY <1>3, <1>7, <1>8 DEF Rest, FixedOf, KernelOf, Fixed, Kernel
<1>10. /\ cf.use = "file" /\ ca.use = "at" /\ cs.use = "stack"
       /\ ct.use = "task" /\ \A c \in {cf, ca, cs, ct} : c.by = p
  BY <1>8 DEF Claim
<1>11. \A c \in Others(p) : c.by # p
  BY ClaimBy DEF Others
<1>12. PICK R1, R2, R3, R4 :
         /\ R1 = R \ {cf} /\ R2 = (IF at = 0 THEN R1 ELSE R1 \ {ca})
         /\ R3 = R2 \ {cs} /\ R4 = R3 \ {ct}
  OBVIOUS
<1>13. /\ Holds(h1, R1)
       /\ Freed(h1, cf)
       /\ Shrinks(h0, h1)
  <2>1. PICK size : size = image[p].size
    OBVIOUS
  <2>2. /\ h1 = kfree(h0, file) /\ R1 = R \ {cf}
        /\ cf = Claim(p, "file", 0, file, size)
    BY <1>1, <1>7, <1>8, <1>12, <2>1
  <2> QED
    BY <1>6, <1>9, <2>2, GiveOne
<1>14. Holds(h2, R2) /\ Shrinks(h1, h2)
  <2>1. CASE at = 0
    BY <1>1, <1>7, <1>12, <1>13, <2>1 DEF Shrinks
  <2>2. CASE at # 0
    <3>1. ca \in R1 /\ h2 = kfree(h1, at) /\ R2 = R1 \ {ca}
      BY <1>1, <1>7, <1>9, <1>10, <1>12, <2>2
    <3> QED
      BY <1>8, <1>13, <3>1, GiveOne
  <2> QED
    BY <2>1, <2>2
<1>15. /\ Holds(h3, R3)
       /\ Freed(h3, cs)
       /\ Shrinks(h2, h3)
  <2>1. cs \in R2
    BY <1>9, <1>10, <1>12
  <2>2. h3 = kfree(h2, stk) /\ R3 = R2 \ {cs}
    BY <1>1, <1>7, <1>12
  <2> QED
    BY <1>8, <1>14, <2>1, <2>2, GiveOne
<1>16. /\ Holds(h4, R4)
       /\ Shrinks(h3, h4)
  <2>1. ct \in R3
    BY <1>9, <1>10, <1>12
  <2>2. PICK use, size : use = "task" /\ size = BlockSize
    OBVIOUS
  <2>3. /\ h4 = kfree(h3, tsk) /\ R4 = R3 \ {ct} /\ Holds(h3, R3)
        /\ ct = Claim(p, use, 0, tsk, size)
    BY <1>1, <1>7, <1>8, <1>12, <1>15, <2>2
  <2>4. /\ Holds(h4, R3 \ {ct})
        /\ Shrinks(h3, h4)
    BY <2>1, <2>3, GiveOne
  <2> QED
    BY <2>3, <2>4
<1>17. Others(p) \subseteq R4
  BY <1>9, <1>10, <1>11, <1>12
<1>18. Holds(h4, Others(p))
  BY <1>16, <1>17, HoldsSome
<1>19. ASSUME NEW r \in FixedOf(p), NEW b \in Extent(r), b \in H!Blocks
       PROVE  ~h4[b].taken
  BY <1>9, <1>13, <1>14, <1>15, <1>16, <1>19 DEF Freed, Shrinks
<1>20. ASSUME NEW r \in Alloc(p, allocations[p]), NEW b \in Extent(r),
              b \in H!Blocks
       PROVE  ~h4[b].taken
  <2>1. mem.allocations = allocations[p]
    BY <1>4
  <2>2. PICK i \in Slots :
          /\ allocations[p][i].ptr # 0
          /\ r = Claim(p, "malloc", i, allocations[p][i].ptr,
                       allocations[p][i].size)
    BY DEF Alloc
  <2>3. m.allocations[i].ptr = 0
    BY <1>5, SlotsNat, UserMemoryAssumption DEF GivenBack, Slots
  <2>4. \/ m.allocations[i] = mem.allocations[i]
        \/ Freed(m.heap, r)
    BY <1>5, <2>1, <2>2 DEF GivenBack
  <2>5. ~h0[b].taken
    BY <1>1, <1>20, <2>1, <2>2, <2>3, <2>4 DEF Freed
  <2> QED
    BY <1>13, <1>14, <1>15, <1>16, <1>20, <2>5 DEF Shrinks
<1> QED
  BY <1>2, <1>18, <1>19, <1>20 DEF Freed

LEMMA ExitKeeps ==
  ASSUME UInv, NEW p \in loaded, Ending(p)
  PROVE  UInv'
<1>1. /\ loaded' = loaded \ {p}
      /\ record' = [record EXCEPT ![p] = 0]
      /\ image' = [image EXCEPT ![p] = NoImage]
      /\ program' = [program EXCEPT ![p] = NoProgram]
      /\ stack' = [stack EXCEPT ![p] = 0]
      /\ task' = [task EXCEPT ![p] = 0]
      /\ allocations' = [allocations EXCEPT ![p] = NoAllocations]
      /\ directory' = [directory EXCEPT ![p] = PG!paging_new_4gb("read")]
  BY DEF Ending, process_terminate
<1>2. TypeOK /\ p \in Procs
  BY DEF UInv, TypeOK
<1>3. Holds(table', Others(p))
  BY ExitHeap
<1>4. TypeOK'
  <2>1. table' \in [H!Blocks -> H!Entry]
    BY <1>3 DEF Holds
  <2>2. /\ loaded' \subseteq Procs
        /\ record' \in [Procs -> Addresses] /\ stack' \in [Procs -> Addresses]
        /\ task' \in [Procs -> Addresses]
        /\ image' \in [Procs -> Images \cup {NoImage}]
    BY <1>1, <1>2, SlotsNat DEF TypeOK
  <2>3. program' \in
          [Procs -> [at : Addresses, elf_memory : Addresses,
                     virtual_base : Nat, virtual_end : Nat,
                     physical_base : Nat, physical_end : Nat]]
    <3>1. NoProgram \in [at : Addresses, elf_memory : Addresses,
                         virtual_base : Nat, virtual_end : Nat,
                         physical_base : Nat, physical_end : Nat]
      BY NoProgramFields, SlotsNat DEF ElfFile
    <3> QED
      BY <1>1, <1>2, <3>1 DEF TypeOK
  <2>4. allocations' \in
          [Procs -> [Slots -> [ptr : Addresses, size : 0 .. (Word - 1)]]]
    <3>1. NoAllocations \in [Slots -> [ptr : Addresses, size : 0 .. (Word - 1)]]
      BY SlotsNat DEF NoAllocations, NoAllocation
    <3> QED
      BY <1>1, <1>2, <3>1 DEF TypeOK
  <2>5. directory' \in [Procs -> [PG!Pages -> PG!PageEntry]]
    BY <1>1, <1>2, NewDirectory DEF TypeOK
  <2> QED
    BY <2>1, <2>2, <2>3, <2>4, <2>5 DEF TypeOK
<1>5. \A q \in loaded \ {p} :
        /\ q \in Procs
        /\ allocations'[q] = allocations[q] /\ directory'[q] = directory[q]
        /\ record'[q] = record[q] /\ image'[q] = image[q]
        /\ program'[q] = program[q] /\ stack'[q] = stack[q]
        /\ task'[q] = task[q]
  BY <1>1, <1>2 DEF TypeOK
<1>6. \A q \in loaded \ {p} :
        /\ FixedOf(q)' = FixedOf(q) /\ KernelOf(q)' = KernelOf(q)
        /\ Alloc(q, allocations[q])' = Alloc(q, allocations[q])
  BY <1>5 DEF FixedOf, KernelOf
<1>7. \A q \in loaded \ {p} : Claims(q)' = Claims(q)
  BY <1>6 DEF Claims
<1>8. (UNION {Claims(q) : q \in loaded})' = Others(p)
  <2>1. (UNION {Claims(q) : q \in loaded})'
          = UNION {Claims(q)' : q \in loaded \ {p}}
    BY <1>1
  <2> QED
    BY <1>7, <2>1 DEF Others
<1>9. Holds(table, UNION {Claims(q) : q \in loaded})'
  BY <1>3, <1>8
<1>10. ASSUME NEW q \in loaded \ {p}
       PROVE  /\ image'[q] # NoImage
              /\ AllocOK(allocations'[q])
              /\ DirOK(directory'[q], FixedOf(q)', Alloc(q, allocations'[q]))
  BY <1>5, <1>6 DEF UInv
<1> QED
  BY <1>1, <1>4, <1>9, <1>10 DEF UInv

LEMMA InitOK == Init => UInv
<1> SUFFICES ASSUME Init
             PROVE  UInv
  OBVIOUS
<1>1. loaded = {}
  BY DEF Init
<1>2. table \in [H!Blocks -> H!Entry]
  BY DEF Init, H!Entry, H!EntryFree
<1>3. TypeOK
  <2>1. NoProgram \in [at : Addresses, elf_memory : Addresses,
                       virtual_base : Nat, virtual_end : Nat,
                       physical_base : Nat, physical_end : Nat]
    BY NoProgramFields, SlotsNat DEF ElfFile
  <2>2. NoAllocations \in [Slots -> [ptr : Addresses, size : 0 .. (Word - 1)]]
    BY SlotsNat DEF NoAllocations, NoAllocation
  <2>3. /\ record \in [Procs -> Addresses] /\ stack \in [Procs -> Addresses]
        /\ task \in [Procs -> Addresses]
        /\ image \in [Procs -> Images \cup {NoImage}]
    BY SlotsNat DEF Init
  <2>4. /\ program \in
             [Procs -> [at : Addresses, elf_memory : Addresses,
                        virtual_base : Nat, virtual_end : Nat,
                        physical_base : Nat, physical_end : Nat]]
        /\ allocations \in
             [Procs -> [Slots -> [ptr : Addresses, size : 0 .. (Word - 1)]]]
        /\ directory \in [Procs -> [PG!Pages -> PG!PageEntry]]
    BY <2>1, <2>2, NewDirectory DEF Init
  <2> QED
    BY <1>1, <1>2, <2>3, <2>4 DEF TypeOK
<1>4. UNION {Claims(q) : q \in loaded} = {}
  BY <1>1
<1>5. Holds(table, {})
  BY <1>2 DEF Holds
<1> QED
  BY <1>1, <1>3, <1>4, <1>5 DEF UInv

LEMMA NextKeeps ==
  ASSUME SizesTaken, SegmentsInFile, UInv, [Next]_vars
  PROVE  UInv'
<1>1. ASSUME NEW p \in Procs, NEW file \in Images, NEW argc \in {0, 1},
             Load(p, file, argc)
      PROVE  UInv'
  BY <1>1, LoadKeeps
<1>2. CASE LoadNotFound
  BY <1>2, LoadNotFoundKeeps
<1>3. ASSUME NEW file \in Images, LoadFails(file)
      PROVE  UInv'
  BY <1>3, LoadFailsKeeps
<1>4. ASSUME NEW p \in loaded
      PROVE  \E mem, R, F : /\ mem = MemoryOf(p) /\ R = Rest(p)
                            /\ F = FixedOf(p)
                            /\ MemoryOK(p, mem, R, F) /\ Foreign(p, R)
  BY MemoryAtCall, RestForeign
<1>5. ASSUME NEW p \in Procs, NEW size \in Sizes, Malloc(p, size)
      PROVE  UInv'
  <2>1. /\ size \in 0 .. (Word - 1) /\ H!TotalBlocks(size) # 0
        /\ p \in loaded
    BY <1>5, UserMemoryAssumption DEF SizesTaken, Malloc
  <2>2. PICK mem, R, F : /\ mem = MemoryOf(p) /\ R = Rest(p)
                         /\ F = FixedOf(p)
                         /\ MemoryOK(p, mem, R, F) /\ Foreign(p, R)
    BY <1>4, <2>1
  <2>3. MemoryOK(p, process_malloc(mem, size), R, F)
    BY <2>1, <2>2, MallocOK
  <2>4. PICK m : m = process_malloc(mem, size) /\ Becomes(p, m)
    BY <1>5, <2>2 DEF Malloc
  <2> QED
    BY <2>1, <2>2, <2>3, <2>4, CallKeeps
<1>6. ASSUME NEW p \in Procs, NEW ptr \in Addresses, Free(p, ptr)
      PROVE  UInv'
  <2>1. p \in loaded
    BY <1>6 DEF Free
  <2>2. PICK mem, R, F : /\ mem = MemoryOf(p) /\ R = Rest(p)
                         /\ F = FixedOf(p)
                         /\ MemoryOK(p, mem, R, F) /\ Foreign(p, R)
    BY <1>4, <2>1
  <2>3. MemoryOK(p, process_free(mem, ptr), R, F)
    BY <2>1, <2>2, FreeOK
  <2>4. PICK m : m = process_free(mem, ptr) /\ Becomes(p, m)
    BY <1>6, <2>2 DEF Free
  <2> QED
    BY <2>1, <2>2, <2>3, <2>4, CallKeeps
<1>7. ASSUME NEW p \in Procs, PassText(p)
      PROVE  UInv'
  <2>1. p \in loaded
    BY <1>7 DEF PassText
  <2>2. PICK mem, R, F : /\ mem = MemoryOf(p) /\ R = Rest(p)
                         /\ F = FixedOf(p)
                         /\ MemoryOK(p, mem, R, F) /\ Foreign(p, R)
    BY <1>4, <2>1
  <2>3. MemoryOK(p, copy_string_from_task(mem, BlockSize - 1), R, F)
    BY <2>1, <2>2, TextOK
  <2>4. PICK m : /\ m = copy_string_from_task(mem, BlockSize - 1)
                 /\ Becomes(p, m)
    BY <1>7, <2>2 DEF PassText
  <2> QED
    BY <2>1, <2>2, <2>3, <2>4, CallKeeps
<1>8. ASSUME NEW p \in Procs, Exit(p) \/ PassTextFaults(p)
      PROVE  UInv'
  <2>1. p \in loaded /\ Ending(p)
    BY <1>8, ExitEnds
  <2> QED
    BY <2>1, ExitKeeps
<1>9. CASE UNCHANGED vars
  <2>1. UNCHANGED <<loaded, record, image, program, stack, task,
                    allocations, directory>> /\ UNCHANGED table
    BY <1>9 DEF vars
  <2>2. Holds(table', UNION {Claims(q) : q \in loaded})
    BY <2>1 DEF UInv
  <2> QED
    BY <2>1, <2>2, HeapOnly
<1> QED
  BY <1>1, <1>2, <1>3, <1>5, <1>6, <1>7, <1>8, <1>9 DEF Next

-----------------------------------------------------------------------------
\* The pages of size bytes at the address of a block are those of the run of
\* blocks that a request of this size takes.
LEMMA BytesInRun ==
  ASSUME NEW b \in H!Blocks, NEW ptr, ptr = H!heap_block_to_address(b),
         NEW size \in 0 .. (Word - 1), H!TotalBlocks(size) # 0
  PROVE  PageOf(ptr) .. PageOf(ptr + size - 1) =
           RunPages(b, H!TotalBlocks(size))
<1>1. BlockSize \in Nat \ {0} /\ Base \in Nat /\ b \in Nat
  BY Layout, BlockFacts
<1>2. ptr = BlockSize * (Base + b) /\ PageOf(ptr) = Base + b
  BY BlockAddress
<1>3. PICK c \in Int, r \in 0 .. (BlockSize - 1) : size = BlockSize * c + r
  <2>1. size \in Int
    BY Layout
  <2> QED
    BY <1>1, <2>1, QuotientRemainder
<1>4. H!TotalBlocks(size) = IF r = 0 THEN c ELSE c + 1
  BY <1>3, TotalBlocksOf
<1>5. PICK q \in Int, z \in 0 .. (BlockSize - 1) :
        /\ q = Base + b + H!TotalBlocks(size) - 1
        /\ z = IF r = 0 THEN BlockSize - 1 ELSE r - 1
  BY <1>1, <1>4
<1>6. ptr + size - 1 = BlockSize * q + z
  <2>1. CASE r = 0
    <3>1. q = Base + b + c - 1 /\ z = BlockSize - 1
      BY <1>4, <1>5, <2>1
    <3>2. BlockSize * q = BlockSize * (Base + b) + BlockSize * c - BlockSize
      BY <1>1, <3>1
    <3> QED
      BY <1>1, <1>2, <1>3, <2>1, <3>1, <3>2
  <2>2. CASE r # 0
    <3>1. q = Base + b + c /\ z = r - 1
      BY <1>1, <1>4, <1>5, <2>2
    <3>2. BlockSize * q = BlockSize * (Base + b) + BlockSize * c
      BY <1>1, <3>1
    <3> QED
      BY <1>1, <1>2, <1>3, <3>1, <3>2
  <2> QED
    BY <2>1, <2>2
<1>7. PICK last \in Int : last = ptr + size - 1 /\ last = BlockSize * q + z
  BY <1>1, <1>6
<1>8. last \div BlockSize = q
  BY <1>1, <1>7, RemainderUnique
<1> QED
  BY <1>1, <1>2, <1>5, <1>7, <1>8 DEF PageOf, RunPages

\* The pages of a claim of the kernel or of a program.
LEMMA ClaimPages ==
  ASSUME NEW h, NEW R, Holds(h, R), NEW r \in R, NEW b \in H!Blocks
  PROVE  PageOf(H!heap_block_to_address(b)) \in PagesOf(r) <=> b \in Extent(r)
<1>1. PageOf(H!heap_block_to_address(b)) = Base + b
  BY BlockAddress
<1>2. Base \in Int /\ b \in Int /\ r.s \in Int /\ r.n \in Int
  BY Layout, BlockFacts DEF Holds
<1> QED
  BY <1>1, <1>2 DEF PagesOf, RunPages, Extent

\* What a program may write is in its own claims.
LEMMA WritableClaimed ==
  ASSUME UInv, NEW p \in loaded, NEW v \in Writable(p)
  PROVE  \E r \in FixedOf(p) \cup Alloc(p, allocations[p]) : v \in PagesOf(r)
<1>1. PICK u \in PG!Pages :
        directory[p][u].flags = "write" /\ v = directory[p][u].frame
  BY DEF Writable
<1>2. PICK dir, F, A : /\ dir = directory[p] /\ F = FixedOf(p)
                       /\ A = Alloc(p, allocations[p])
  OBVIOUS
<1>3. DirOK(dir, F, A)
  BY <1>2 DEF UInv
<1>4. CASE \E r \in F : dir[u].frame \in PagesOf(r)
  BY <1>1, <1>2, <1>4
<1>5. CASE \E r \in A : u \in PagesOf(r)
  <2>1. PICK r \in A : u \in PagesOf(r)
    BY <1>5
  <2>2. dir[u] = [frame |-> u, flags |-> "write"]
    BY <1>3, <2>1 DEF DirOK
  <2> QED
    BY <1>1, <1>2, <2>1, <2>2
<1> QED
  BY <1>1, <1>2, <1>3, <1>4, <1>5 DEF DirOK

\* The kernel's pages are those of its claims.
LEMMA KernelClaimed ==
  ASSUME UInv, NEW p \in loaded, NEW v \in KernelPages(p)
  PROVE  \E r \in KernelOf(p) : v \in PagesOf(r)
<1>1. PICK ptr \in Addresses, r \in KernelOf(p) :
        v = PageOf(ptr) /\ r.s = H!heap_address_to_block(ptr)
  <2>1. /\ record[p] \in Addresses /\ task[p] \in Addresses
        /\ program[p].at \in Addresses
    BY DEF UInv, TypeOK
  <2>2. ASSUME NEW ptr \in Addresses, NEW use, NEW size, v = PageOf(ptr),
               Claim(p, use, 0, ptr, size) \in KernelOf(p)
        PROVE  \E r \in KernelOf(p) : r.s = H!heap_address_to_block(ptr)
    <3>1. Claim(p, use, 0, ptr, size).s = H!heap_address_to_block(ptr)
      BY DEF Claim
    <3> QED
      BY <2>2, <3>1
  <2>3. CASE v = PageOf(record[p])
    <3>1. Claim(p, "record", 0, record[p], BlockSize) \in KernelOf(p)
      BY DEF KernelOf, Kernel
    <3> QED
      BY <2>1, <2>2, <2>3, <3>1
  <2>4. CASE v = PageOf(task[p])
    <3>1. Claim(p, "task", 0, task[p], BlockSize) \in KernelOf(p)
      BY DEF KernelOf, Kernel
    <3> QED
      BY <2>1, <2>2, <2>4, <3>1
  <2>5. CASE program[p].at # 0 /\ v = PageOf(program[p].at)
    <3>1. Claim(p, "at", 0, program[p].at, BlockSize - 1) \in KernelOf(p)
      BY <2>5 DEF KernelOf, Kernel
    <3> QED
      BY <2>1, <2>2, <2>5, <3>1
  <2> QED
    BY <2>3, <2>4, <2>5 DEF KernelPages
<1>2. r.s \in H!Blocks /\ r.n \in Nat \ {0}
  <2>1. r \in UNION {Claims(q) : q \in loaded}
    BY <1>1 DEF Claims
  <2> QED
    BY <2>1 DEF UInv, Holds
<1>3. ptr = H!heap_block_to_address(r.s)
  BY <1>1, <1>2, ClaimAddress
<1>4. v = Base + r.s
  BY <1>1, <1>2, <1>3, BlockAddress
<1>5. Base \in Int /\ r.s \in Int /\ r.n \in Int /\ r.n > 0
  BY <1>2, Layout, BlockFacts
<1> QED
  BY <1>1, <1>4, <1>5 DEF PagesOf, RunPages

-----------------------------------------------------------------------------
(***************************************************************************)
(* All claims are kept apart by the heap, and directories make only the    *)
(* claims of their own program writable.  This is what the other theorems  *)
(* follow from.                                                            *)
(***************************************************************************)
THEOREM UserMemoryInductive ==
  ASSUME SizesTaken, SegmentsInFile
  PROVE  Spec => []UInv
<1>1. UInv /\ [Next]_vars => UInv'
  BY NextKeeps
<1> QED
  BY <1>1, InitOK, PTL DEF Spec

\* Every variable keeps its type; pointers are null or the address of a block.
THEOREM UserMemoryTypeOK ==
  ASSUME SizesTaken, SegmentsInFile
  PROVE  Spec => []TypeOK
<1>1. UInv => TypeOK
  BY DEF UInv
<1> QED
  BY <1>1, UserMemoryInductive, PTL

LEMMA IsolationHolds ==
  ASSUME UInv
  PROVE  Isolation
<1>1. PICK R : R = UNION {Claims(q) : q \in loaded}
  OBVIOUS
<1>2. Holds(table, R)
  BY <1>1 DEF UInv
<1>3. ASSUME NEW p \in loaded, NEW q \in loaded, NEW v \in Writable(p),
             v \in KernelPages(q)
      PROVE  FALSE
  <2>1. PICK r \in FixedOf(p) \cup Alloc(p, allocations[p]) : v \in PagesOf(r)
    BY WritableClaimed
  <2>2. PICK c \in KernelOf(q) : v \in PagesOf(c)
    BY <1>3, KernelClaimed
  <2>3. r \in R /\ c \in R
    BY <1>1 DEF Claims
  <2>4. r.use \in {"file", "stack", "malloc"} /\ c.use \in {"record", "task", "at"}
    BY DEF FixedOf, Fixed, Alloc, KernelOf, Kernel, Claim
  <2>5. r # c
    BY <2>4
  <2> QED
    BY <1>2, <2>1, <2>2, <2>3, <2>5, Apart
<1>4. ASSUME NEW p \in loaded, NEW q \in loaded, p # q, NEW v \in Writable(p),
             v \in Writable(q)
      PROVE  FALSE
  <2>1. PICK r \in FixedOf(p) \cup Alloc(p, allocations[p]) : v \in PagesOf(r)
    BY WritableClaimed
  <2>2. PICK c \in FixedOf(q) \cup Alloc(q, allocations[q]) : v \in PagesOf(c)
    BY <1>4, WritableClaimed
  <2>3. r \in Claims(p) /\ c \in Claims(q)
    BY DEF Claims
  <2>4. r \in R /\ c \in R
    BY <1>1, <2>3
  <2>5. r # c
    BY <1>4, <2>3, ClaimBy
  <2> QED
    BY <1>2, <2>1, <2>2, <2>4, <2>5, Apart
<1> QED
  BY <1>3, <1>4 DEF Isolation

(***************************************************************************)
(* What a program may write is never written by another program that is    *)
(* loaded, and never holds a struct of the kernel, whatever the programs   *)
(* allocate, free and print, and whichever of them end.                    *)
(***************************************************************************)
THEOREM ProgramsIsolated ==
  ASSUME SizesTaken, SegmentsInFile
  PROVE  Spec => []Isolation
<1>1. UInv => Isolation
  BY IsolationHolds
<1> QED
  BY <1>1, UserMemoryInductive, PTL

LEMMA UsableHolds ==
  ASSUME UInv
  PROVE  AllocationsUsable
<1> SUFFICES ASSUME NEW p \in loaded, NEW i \in Slots,
                    allocations[p][i].ptr # 0
             PROVE  LET a == allocations[p][i] IN
                    /\ \A v \in PageOf(a.ptr) .. PageOf(a.ptr + a.size - 1) :
                         directory[p][v] = [frame |-> v, flags |-> "write"]
                    /\ table[H!heap_address_to_block(a.ptr)].taken
                    /\ table[H!heap_address_to_block(a.ptr)].first
  BY DEF AllocationsUsable
<1>1. /\ AllocOK(allocations[p])
      /\ DirOK(directory[p], FixedOf(p), Alloc(p, allocations[p]))
  BY DEF UInv
<1>2. PICK ptr \in Addresses, size \in 0 .. (Word - 1) :
        /\ ptr = allocations[p][i].ptr /\ size = allocations[p][i].size
        /\ H!TotalBlocks(size) # 0
  BY <1>1 DEF AllocOK
<1>3. PICK c : c = Claim(p, "malloc", i, ptr, size)
  OBVIOUS
<1>4. c \in Alloc(p, allocations[p])
  BY <1>2, <1>3 DEF Alloc
<1>5. /\ c.s \in H!Blocks /\ c.n \in Nat \ {0}
      /\ \A b \in Extent(c) : b \in H!Blocks =>
           table[b] = [taken |-> TRUE, first |-> b = c.s,
                       next  |-> b # c.s + c.n - 1]
  <2>1. c \in UNION {Claims(q) : q \in loaded}
    BY <1>4 DEF Claims
  <2> QED
    BY <2>1 DEF UInv, Holds
<1>6. c.s = H!heap_address_to_block(ptr) /\ c.n = H!TotalBlocks(size)
  BY <1>3 DEF Claim
<1>7. table[c.s].taken /\ table[c.s].first
  <2>1. c.s \in Extent(c)
    BY <1>5, BlockFacts DEF Extent
  <2>2. PICK b \in H!Blocks : b = c.s
    BY <1>5
  <2>3. table[b] = [taken |-> TRUE, first |-> b = c.s,
                    next  |-> b # c.s + c.n - 1]
    BY <1>5, <2>1, <2>2
  <2>4. table[b].taken = TRUE /\ table[b].first = (b = c.s)
    BY <2>3
  <2> QED
    BY <2>2, <2>4
<1>8. ptr = H!heap_block_to_address(c.s)
  BY <1>5, <1>6, ClaimAddress
<1>9. PageOf(ptr) .. PageOf(ptr + size - 1) = PagesOf(c)
  <2>1. PICK b \in H!Blocks : b = c.s
    BY <1>5
  <2>2. PageOf(ptr) .. PageOf(ptr + size - 1) = RunPages(b, H!TotalBlocks(size))
    BY <1>2, <1>8, <2>1, BytesInRun
  <2> QED
    BY <1>6, <2>1, <2>2 DEF PagesOf
<1>10. \A v \in PagesOf(c) :
         directory[p][v] = [frame |-> v, flags |-> "write"]
  BY <1>1, <1>4 DEF DirOK
<1> QED
  BY <1>2, <1>6, <1>7, <1>9, <1>10

(***************************************************************************)
(* What malloc gave a program stays writable for it and taken in the heap  *)
(* until it frees it.                                                      *)
(***************************************************************************)
THEOREM AllocationsStayUsable ==
  ASSUME SizesTaken, SegmentsInFile
  PROVE  Spec => []AllocationsUsable
<1>1. UInv => AllocationsUsable
  BY UsableHolds
<1> QED
  BY <1>1, UserMemoryInductive, PTL

\* What a step that ends programs gives back.
GivesBack ==
  \A p \in loaded \ loaded' : \A b \in H!Blocks :
    LET page == PageOf(H!heap_block_to_address(b)) IN
    (\/ page \in Writable(p)
     \/ page \in PageOf(program[p].elf_memory) ..
                  PageOf(program[p].elf_memory + image[p].size - 1)) =>
      ~table'[b].taken

LEMMA OnlyExitUnloads ==
  ASSUME [Next]_vars, NEW p \in loaded \ loaded'
  PROVE  Exit(p) \/ PassTextFaults(p)
<1>1. ASSUME NEW q, NEW m, Becomes(q, m)
      PROVE  FALSE
  BY <1>1 DEF Becomes
<1>2. ASSUME NEW q \in Procs, NEW file \in Images, NEW argc \in {0, 1},
             Load(q, file, argc)
      PROVE  FALSE
  <2>1. \E a, b, c, d, m : Begins(q, file, a.ptr, b.program, c.ptr, d.ptr, m)
    BY <1>2 DEF Load
  <2>2. loaded' = loaded \cup {q}
    BY <2>1, Zenon DEF Begins
  <2> QED
    BY <2>2
<1>3. ~LoadNotFound
  BY DEF LoadNotFound
<1>4. ASSUME NEW file \in Images, LoadFails(file)
      PROVE  FALSE
  <2>1. loaded' = loaded
    BY <1>4 DEF LoadFails
  <2> QED
    BY <2>1
<1>5. ASSUME NEW q \in Procs, NEW size \in Sizes, Malloc(q, size)
      PROVE  FALSE
  BY <1>1, <1>5 DEF Malloc
<1>6. ASSUME NEW q \in Procs, NEW ptr \in Addresses, Free(q, ptr)
      PROVE  FALSE
  BY <1>1, <1>6 DEF Free
<1>7. ASSUME NEW q \in Procs, PassText(q)
      PROVE  FALSE
  BY <1>1, <1>7 DEF PassText
<1>8. ASSUME NEW q \in Procs, Exit(q) \/ PassTextFaults(q)
      PROVE  q = p
  <2>1. loaded' = loaded \ {q}
    BY <1>8 DEF Exit, PassTextFaults, process_terminate
  <2> QED
    BY <2>1
<1>9. ~UNCHANGED vars
  BY DEF vars
<1> QED
  BY <1>2, <1>3, <1>4, <1>5, <1>6, <1>7, <1>8, <1>9 DEF Next

LEMMA StepGivesBack ==
  ASSUME SizesTaken, UInv, [Next]_vars
  PROVE  GivesBack
<1> SUFFICES ASSUME NEW p \in loaded \ loaded', NEW b \in H!Blocks, NEW page,
                    page = PageOf(H!heap_block_to_address(b)),
                    \/ page \in Writable(p)
                    \/ page \in PageOf(program[p].elf_memory) ..
                                 PageOf(program[p].elf_memory + image[p].size - 1)
             PROVE  ~table'[b].taken
  BY DEF GivesBack
<1>1. Ending(p)
  BY OnlyExitUnloads, ExitEnds
<1>2. PICK R : R = UNION {Claims(q) : q \in loaded}
  OBVIOUS
<1>3. Holds(table, R) /\ Claims(p) \subseteq R
  BY <1>2 DEF UInv
<1>4. PICK r \in FixedOf(p) \cup Alloc(p, allocations[p]) : page \in PagesOf(r)
  <2>1. CASE page \in Writable(p)
    BY <2>1, WritableClaimed
  <2>2. CASE page \in PageOf(program[p].elf_memory) ..
                       PageOf(program[p].elf_memory + image[p].size - 1)
    <3>1. image[p] \in Images
      BY DEF UInv, TypeOK
    <3>2. PICK ptr \in Addresses, size \in 0 .. (Word - 1) :
            /\ ptr = program[p].elf_memory /\ size = image[p].size
            /\ H!TotalBlocks(size) # 0
      <4>1. program[p].elf_memory \in Addresses
        BY DEF UInv, TypeOK
      <4>2. image[p].size \in 0 .. (Word - 1)
        <5>1. Word \in Nat /\ image[p].size \in 1 .. (Word - 1)
          BY <3>1, UserMemoryAssumption
        <5> QED
          BY <5>1
      <4>3. H!TotalBlocks(image[p].size) # 0
        BY <3>1, Zenon DEF SizesTaken
      <4> QED
        BY <4>1, <4>2, <4>3
    <3>3. PICK c : c = Claim(p, "file", 0, ptr, size)
      OBVIOUS
    <3>4. c \in FixedOf(p)
      BY <3>2, <3>3 DEF FixedOf, Fixed
    <3>5. c.s = H!heap_address_to_block(ptr) /\ c.n = H!TotalBlocks(size)
      BY <3>3 DEF Claim
    <3>6. PICK s \in H!Blocks : s = c.s
      BY <1>3, <3>4 DEF Holds, Claims
    <3>7. ptr = H!heap_block_to_address(s)
      BY <3>5, <3>6, ClaimAddress
    <3>8. PageOf(ptr) .. PageOf(ptr + size - 1) = RunPages(s, H!TotalBlocks(size))
      BY <3>2, <3>7, BytesInRun
    <3>9. page \in PagesOf(c)
      BY <2>2, <3>2, <3>5, <3>6, <3>8 DEF PagesOf
    <3> QED
      BY <3>4, <3>9
  <2> QED
    BY <2>1, <2>2
<1>5. r \in R
  BY <1>3, <1>4 DEF Claims
<1>6. b \in Extent(r)
  BY <1>3, <1>4, <1>5, ClaimPages
<1> QED
  BY <1>1, <1>4, <1>6, ExitHeap DEF Freed

(***************************************************************************)
(* process_terminate frees every block that the program could write, and   *)
(* its file, in whatever order it allocated and freed.                     *)
(***************************************************************************)
THEOREM TerminateGivesBack ==
  ASSUME SizesTaken, SegmentsInFile
  PROVE  Spec => ExitGivesBack
<1>1. UInv /\ [Next]_vars => [GivesBack]_vars
  BY StepGivesBack
<1>2. ExitGivesBack <=> [][GivesBack]_vars
  BY DEF ExitGivesBack, GivesBack
<1> QED
  BY <1>1, <1>2, UserMemoryInductive, PTL DEF Spec

-----------------------------------------------------------------------------
(***************************************************************************)
(* Where the file of a program is seen.  Nothing of what follows looks at  *)
(* other programs: it is about one directory, as loading made it, and then *)
(* about the pages below the heap, which no system call changes.           *)
(***************************************************************************)

\* The parts of an address.
LEMMA AddressParts ==
  ASSUME NEW q \in Int, NEW r \in 0 .. (BlockSize - 1),
         NEW a \in Int, a = BlockSize * q + r
  PROVE  /\ PageOf(a) = q /\ a % BlockSize = r
         /\ PG!paging_align_to_lower_page(a) = BlockSize * q
<1>1. BlockSize \in Nat \ {0} /\ BlockSize * q \in Int
  BY Layout
<1>2. a % BlockSize = r /\ a \div BlockSize = q
  BY <1>1, RemainderUnique
<1>3. a - r = BlockSize * q
  BY <1>1
<1> QED
  BY <1>2, <1>3 DEF PageOf, PG!paging_align_to_lower_page

\* Every address has them.
LEMMA AddressHasParts ==
  ASSUME NEW a \in Nat
  PROVE  \E q \in Nat, r \in 0 .. (BlockSize - 1) : a = BlockSize * q + r
<1>1. BlockSize \in Nat \ {0}
  BY Layout
<1>2. PICK q \in Int, r \in 0 .. (BlockSize - 1) : a = BlockSize * q + r
  <2>1. /\ a \div BlockSize \in Int /\ a % BlockSize \in 0 .. (BlockSize - 1)
        /\ a = BlockSize * (a \div BlockSize) + (a % BlockSize)
    BY <1>1, QuotientRemainder
  <2> QED
    BY <2>1
<1>3. q >= 0
  <2>1. PICK zero \in Int : zero = 0 /\ BlockSize * zero = 0
    BY <1>1
  <2>2. ~ (q < zero)
    <3> SUFFICES ASSUME q < zero
                 PROVE  FALSE
      OBVIOUS
    <3>1. BlockSize * q + BlockSize <= BlockSize * zero
      BY <1>1, ProductGrows
    <3>2. BlockSize * q \in Int /\ r < BlockSize /\ r \in Int
      BY <1>1
    <3> QED
      BY <1>1, <1>2, <2>1, <3>1, <3>2
  <2> QED
    BY <2>1, <2>2
<1> QED
  BY <1>2, <1>3

\* What a directory shows at an address.
LEMMA SeenAt ==
  ASSUME NEW dir, NEW q \in Int, NEW r \in 0 .. (BlockSize - 1),
         NEW a \in Int, a = BlockSize * q + r
  PROVE  /\ PG!paging_get_physical_address(dir, a)
              = dir[q].frame * BlockSize + r
         /\ PG!paging_get(dir, PG!paging_align_to_lower_page(a)) = dir[q]
<1>1. BlockSize \in Nat \ {0} /\ BlockSize * q \in Int
  BY Layout
<1>2. PICK low \in Int : low = BlockSize * q
  BY <1>1
<1>3. PG!paging_align_to_lower_page(a) = low /\ low \div BlockSize = q
  BY <1>2, AddressParts, Multiple
<1>4. a - low = r
  BY <1>1, <1>2
<1>5. PG!paging_get(dir, low) = dir[q]
  BY <1>3 DEF PG!paging_get, PG!paging_get_indexes
<1> QED
  BY <1>3, <1>4, <1>5 DEF PG!paging_get_physical_address

(***************************************************************************)
(* A mapping, page by page: the pages from qv on get the frames from qp    *)
(* on, up to e, and the others are left alone.                             *)
(***************************************************************************)
PagesMapped(new, dir, qv, qp, e, flags) ==
  /\ \A t \in 0 .. (e - qp - 1) :
       qv + t \in PG!Pages =>
         new[qv + t] = [frame |-> qp + t, flags |-> flags]
  /\ (e = qp \/ qv + (e - qp) <= PG!TotalPages) =>
       \A v \in PG!Pages :
         v \notin qv .. (qv + (e - qp) - 1) => new[v] = dir[v]

\* paging_map_to of whole pages.
LEMMA MapPages ==
  ASSUME NEW dir \in [PG!Pages -> PG!PageEntry], NEW flags \in PG!Flags,
         NEW qv \in Nat, NEW qp \in Nat, NEW e \in 0 .. (PG!TotalPages - 1),
         qp <= e, NEW new,
         new = PG!paging_map_to(dir, BlockSize * qv, BlockSize * qp,
                                BlockSize * e, flags)
  PROVE  PagesMapped(new, dir, qv, qp, e, flags)
<1>1. /\ BlockSize \in Nat \ {0} /\ PG!TotalPages \in Nat \ {0}
      /\ qp \in Int /\ e \in Int /\ qv \in Int
  BY Layout
<1>2. PICK n \in Nat : n = e - qp
  BY <1>1
<1>3. PICK virtual \in Int, physical \in Int, end \in Int :
        /\ virtual = BlockSize * qv /\ physical = BlockSize * qp
        /\ end = BlockSize * e
  BY <1>1
<1>4. /\ virtual \div BlockSize = qv /\ physical \div BlockSize = qp
      /\ virtual % BlockSize = 0 /\ physical % BlockSize = 0
      /\ end % BlockSize = 0
  BY <1>1, <1>3, Multiple
<1>5. (end - physical) \div BlockSize = n
  <2>1. BlockSize * n = BlockSize * e - BlockSize * qp
    BY <1>1, <1>2
  <2>2. end - physical = BlockSize * n
    BY <1>3, <2>1
  <2> QED
    BY <1>2, <2>2, Multiple
<1>6. PG!Mappable(virtual, physical, end)
  <2>1. end >= physical
    BY <1>1, <1>3, ProductGrows
  <2> QED
    BY <1>4, <2>1 DEF PG!Mappable, PG!paging_is_aligned
<1> DEFINE turn(v) == (v - qv) % PG!TotalPages
           frame(v) == (qp + turn(v)) % PG!TotalPages
<1>7. new = [v \in PG!Pages |->
               IF turn(v) < n THEN [frame |-> frame(v), flags |-> flags]
                              ELSE dir[v]]
  BY <1>3, <1>4, <1>5, <1>6
  DEF PG!paging_map_to, PG!paging_map_range, PG!paging_get_indexes
<1>8. ASSUME NEW t \in 0 .. (n - 1), qv + t \in PG!Pages
      PROVE  new[qv + t] = [frame |-> qp + t, flags |-> flags]
  <2>1. t \in 0 .. (PG!TotalPages - 1) /\ qp + t \in 0 .. (PG!TotalPages - 1)
    <3>1. t \in Int /\ 0 <= t /\ t < n /\ n <= e /\ e < PG!TotalPages
          /\ 0 <= qp /\ qp + n = e
      BY <1>1, <1>2
    <3> QED
      BY <1>1, <1>2, <3>1
  <2>2. PICK f \in 0 .. (PG!TotalPages - 1) : f = qp + t
    BY <2>1
  <2>3. f % PG!TotalPages = f
    BY <1>1, RemainderSmall
  <2>4. t % PG!TotalPages = t
    BY <1>1, <2>1, RemainderSmall
  <2>5. (qv + t) - qv = t
    BY <1>1
  <2>6. turn(qv + t) = t /\ frame(qv + t) = qp + t
    BY <2>2, <2>3, <2>4, <2>5
  <2>7. turn(qv + t) < n
    BY <1>2, <2>6
  <2> HIDE DEF turn, frame
  <2> QED
    BY <1>7, <1>8, <2>6, <2>7
<1>9. ASSUME n = 0 \/ qv + n <= PG!TotalPages, NEW v \in PG!Pages,
             v \notin qv .. (qv + n - 1)
      PROVE  new[v] = dir[v]
  <2>1. v \in Int /\ 0 <= v /\ v < PG!TotalPages
    BY <1>1 DEF PG!Pages
  <2>2. PICK a \in Int : a = v - qv
    BY <1>1, <2>1
  <2>3. ~ (turn(v) < n)
    <3>1. CASE n = 0
      <4>1. a % PG!TotalPages \in 0 .. (PG!TotalPages - 1)
        BY <1>1, QuotientRemainder
      <4> QED
        BY <2>2, <3>1, <4>1
    <3>2. CASE n # 0 /\ v >= qv
      <4>1. a \in 0 .. (PG!TotalPages - 1)
        BY <1>1, <2>1, <2>2, <3>2
      <4>2. a % PG!TotalPages = a
        BY <1>1, <4>1, RemainderSmall
      <4>3. a >= n
        BY <1>1, <1>2, <1>9, <2>1, <2>2, <3>2
      <4> QED
        BY <1>2, <2>2, <4>2, <4>3
    <3>3. CASE n # 0 /\ v < qv
      <4>1. PICK r \in 0 .. (PG!TotalPages - 1), minus \in Int :
              r = a + PG!TotalPages /\ minus = -1
        BY <1>1, <1>2, <1>9, <2>1, <2>2, <3>3
      <4>2. a = PG!TotalPages * minus + r
        BY <1>1, <4>1
      <4>3. a % PG!TotalPages = r
        BY <1>1, <4>2, RemainderUnique
      <4>4. ~ (r < n)
        BY <1>1, <1>2, <1>9, <2>1, <2>2, <3>3, <4>1
      <4> QED
        BY <2>2, <4>3, <4>4
    <3> QED
      BY <1>1, <2>1, <3>1, <3>2, <3>3
  <2> HIDE DEF turn, frame
  <2> QED
    BY <1>7, <2>3
<1> HIDE DEF turn, frame
<1>10. e - qp - 1 = n - 1 /\ (e = qp <=> n = 0) /\ qv + (e - qp) = qv + n
  BY <1>1, <1>2
<1> QED
  BY <1>2, <1>8, <1>9, <1>10 DEF PagesMapped

-----------------------------------------------------------------------------
\* Pages for programs are pages below the heap.
LEMMA ProgramPage ==
  ASSUME NEW v \in ProgramPages
  PROVE  /\ v \in Int /\ 0 <= v /\ v < Base /\ v # PageOf(StackAddress)
         /\ v \in PG!Pages
BY Layout DEF ProgramPages, PageOf, Base, PG!Pages

(***************************************************************************)
(* A byte j bytes after the start of a part of a file is j bytes after the *)
(* start of the part in virtual memory, when both start equally far into   *)
(* their pages: it is in the page with the same number.                    *)
(***************************************************************************)
SamePage(qv, qp, e, r, j) ==
  \E t \in 0 .. (e - qp - 1), z \in 0 .. (BlockSize - 1) :
    /\ BlockSize * qv + r + j = BlockSize * (qv + t) + z
    /\ BlockSize * qp + r + j = BlockSize * (qp + t) + z

LEMMA BytePage ==
  ASSUME NEW qv \in Nat, NEW qp \in Nat, NEW e \in Nat,
         NEW r \in 0 .. (BlockSize - 1), NEW j \in Nat,
         BlockSize * qp + r + j < BlockSize * e
  PROVE  SamePage(qv, qp, e, r, j)
<1>1. BlockSize \in Nat \ {0} /\ qv \in Int /\ qp \in Int /\ e \in Int
  BY Layout
<1>2. PICK t \in Nat, z \in 0 .. (BlockSize - 1) : r + j = BlockSize * t + z
  <2>1. PICK a \in Nat : a = r + j
    BY <1>1
  <2> QED
    BY <2>1, AddressHasParts
<1>3. /\ BlockSize * (qv + t) = BlockSize * qv + BlockSize * t
      /\ BlockSize * (qp + t) = BlockSize * qp + BlockSize * t
      /\ BlockSize * qv \in Int /\ BlockSize * qp \in Int
      /\ BlockSize * t \in Int /\ BlockSize * e \in Int
  BY <1>1
<1>4. t < e - qp
  <2>1. PICK s \in Int : s = qp + t
    BY <1>1
  <2>2. ~ (e <= s)
    <3> SUFFICES ASSUME e <= s
                 PROVE  FALSE
      OBVIOUS
    <3>1. BlockSize * e <= BlockSize * s
      BY <1>1, ProductGrows
    <3>2. BlockSize * s = BlockSize * qp + BlockSize * t
      BY <1>3, <2>1
    <3> QED
      BY <1>1, <1>2, <1>3, <3>1, <3>2
  <2> QED
    BY <1>1, <2>1, <2>2
<1>5. /\ BlockSize * qv + r + j = BlockSize * (qv + t) + z
      /\ BlockSize * qp + r + j = BlockSize * (qp + t) + z
  BY <1>1, <1>2, <1>3
<1>6. t \in 0 .. (e - qp - 1)
  BY <1>1, <1>4
<1> QED
  BY <1>2, <1>5, <1>6 DEF SamePage

\* What FilesFit says of a file at a block: it ends where its blocks end.
LEMMA FileEnds ==
  ASSUME SizesTaken, FilesFit, NEW file \in Images, NEW b \in H!Blocks,
         NEW memory, memory = H!heap_block_to_address(b)
  PROVE  \E n \in Nat \ {0}, q \in Nat, size \in Nat \ {0} :
           /\ size = file.size /\ q = Base + b
           /\ memory = BlockSize * q
           /\ End(memory, size) = BlockSize * (q + n)
           /\ q + n < PG!TotalPages
           /\ memory + size <= BlockSize * (q + n)
<1>1. /\ BlockSize \in Nat \ {0} /\ Word \in Nat \ {0} /\ Base \in Nat
      /\ b \in Nat
  BY Layout, BlockFacts
<1>2. PICK size \in 0 .. (Word - 1) :
        size = file.size /\ size # 0 /\ H!TotalBlocks(size) # 0
  BY <1>1, UserMemoryAssumption DEF SizesTaken
<1>3. PG!Mappable(memory, memory, End(memory, size))
  BY <1>2 DEF FilesFit
<1>4. PICK n \in Nat \ {0} :
        /\ n = H!TotalBlocks(size)
        /\ End(memory, size) = BlockSize * (Base + b + n)
        /\ Base + b + n < PG!TotalPages
  BY <1>2, <1>3, EndOfRun
<1>5. PICK q \in Nat : q = Base + b
  BY <1>1
<1>6. memory = BlockSize * q
  BY <1>5, BlockAddress
<1>7. size <= BlockSize * n
  <2>1. PICK c \in Nat, r \in 0 .. (BlockSize - 1) : size = BlockSize * c + r
    <3>1. size \in Nat
      BY <1>1
    <3> QED
      BY <3>1, AddressHasParts
  <2>2. n = IF r = 0 THEN c ELSE c + 1
    BY <1>2, <1>4, <2>1, TotalBlocksOf
  <2>3. BlockSize * (c + 1) = BlockSize * c + BlockSize
    BY <1>1
  <2> QED
    BY <1>1, <2>1, <2>2, <2>3
<1>8. memory + size <= BlockSize * (q + n)
  <2>1. BlockSize * (q + n) = BlockSize * q + BlockSize * n
    BY <1>1
  <2>2. BlockSize * q \in Int /\ BlockSize * n \in Int /\ size \in Int
    BY <1>1
  <2> QED
    BY <1>6, <1>7, <2>1, <2>2
<1>9. size \in Nat \ {0} /\ Base + b + n = q + n
  BY <1>1, <1>2, <1>5
<1> QED
  BY <1>2, <1>4, <1>5, <1>6, <1>8, <1>9

\* The segment that a page directory is given, in pages: from qv on in virtual
\* memory, and from qp up to e in the heap.
SegmentLies(s, phdr, memory, qv, qp, e, r) ==
  /\ qv \in Nat /\ qp \in Nat /\ e \in 0 .. (PG!TotalPages - 1)
  /\ r \in 0 .. (BlockSize - 1) /\ qp <= e
  /\ phdr.p_vaddr = BlockSize * qv + r
  /\ memory + phdr.p_offset = BlockSize * qp + r
  /\ memory + phdr.p_offset + phdr.p_memsz <= BlockSize * e
  /\ ELF!elf_phdr_phys_address(memory, phdr) = memory + phdr.p_offset
  /\ s.virtual = BlockSize * qv /\ s.start = BlockSize * qp
  /\ s.end = BlockSize * e
  /\ MappedPages(s) = {qv + i : i \in 0 .. (e - qp - 1)}
  /\ e = qp \/ qv + (e - qp) <= PG!TotalPages

LEMMA SegmentParts ==
  ASSUME SizesTaken, FilesFit, NEW file \in Images,
         NEW phdr \in ELF!ProgramHeader, NEW b \in H!Blocks,
         NEW memory, memory = H!heap_block_to_address(b),
         LinkedSegment(file, phdr, memory),
         NEW s, s = Segment([elf_memory |-> memory], phdr),
         PG!Mappable(s.virtual, s.start, s.end)
  PROVE  \E qv, qp, e, r : SegmentLies(s, phdr, memory, qv, qp, e, r)
<1>1. /\ BlockSize \in Nat \ {0} /\ Word \in Nat \ {0} /\ Base \in Nat
      /\ PG!TotalPages \in Nat \ {0} /\ Word = BlockSize * PG!TotalPages
  BY Layout
<1>2. PICK vaddr \in Nat, offset \in Nat, filesz \in Nat, memsz \in Nat :
        /\ vaddr = phdr.p_vaddr /\ offset = phdr.p_offset
        /\ filesz = phdr.p_filesz /\ memsz = phdr.p_memsz
  BY DEF ELF!ProgramHeader
<1>3. PICK n \in Nat \ {0}, q \in Nat, size \in Nat \ {0} :
        /\ size = file.size /\ memory = BlockSize * q
        /\ q + n < PG!TotalPages /\ memory + size <= BlockSize * (q + n)
  BY FileEnds
<1>4. PICK mem \in Nat : mem = memory
  BY <1>1, <1>3
<1>5. PICK physical \in 0 .. (Word - 1) : physical = mem + offset
  <2>1. offset <= size
    BY <1>2, <1>3 DEF LinkedSegment
  <2>2. PICK last \in Int : last = q + n
    BY <1>3
  <2>3. BlockSize * last + BlockSize <= BlockSize * PG!TotalPages
    BY <1>1, <1>3, <2>2, ProductGrows
  <2>4. BlockSize * last \in Int
    BY <1>1
  <2>5. mem + offset < Word
    BY <1>1, <1>3, <1>4, <2>1, <2>2, <2>3, <2>4
  <2> QED
    BY <1>1, <2>5
<1>6. ELF!elf_phdr_phys_address(memory, phdr) = physical
  <2>1. physical % Word = physical
    BY <1>1, RemainderSmall
  <2> QED
    BY <1>2, <1>4, <1>5, <2>1 DEF ELF!elf_phdr_phys_address
<1>7. PICK qv \in Nat, r \in 0 .. (BlockSize - 1) : vaddr = BlockSize * qv + r
  BY AddressHasParts
<1>8. PICK qo \in Nat, ro \in 0 .. (BlockSize - 1) :
        offset = BlockSize * qo + ro
  BY AddressHasParts
<1>9. ro = r
  <2>1. vaddr % BlockSize = r /\ offset % BlockSize = ro
    BY <1>7, <1>8, AddressParts
  <2> QED
    BY <1>2, <2>1 DEF LinkedSegment
<1>10. PICK qp \in Nat : qp = q + qo
  BY <1>3, <1>8
<1>11. physical = BlockSize * qp + r
  <2>1. BlockSize * qp = BlockSize * q + BlockSize * qo
    BY <1>1, <1>10
  <2> QED
    BY <1>1, <1>3, <1>4, <1>5, <1>8, <1>9, <2>1
<1>12. s.virtual = BlockSize * qv /\ s.start = BlockSize * qp
  <2>1. PG!paging_align_to_lower_page(vaddr) = BlockSize * qv
    BY <1>7, AddressParts
  <2>2. PG!paging_align_to_lower_page(physical) = BlockSize * qp
    <3>1. physical \in Int
      BY <1>1
    <3> QED
      BY <1>11, <3>1, AddressParts
  <2> QED
    BY <1>2, <1>6, <2>1, <2>2 DEF Segment
<1>13. PICK end \in 0 .. (Word - 1) :
         end = s.end /\ end % BlockSize = 0 /\ end >= BlockSize * qp
                     /\ physical + memsz <= end
  <2>1. PICK a \in Int, z \in Int : a = physical /\ z = memsz
    BY <1>1
  <2>2. End(a, z) \in 0 .. (Word - 1)
    BY EndTyped
  <2>3. s.end = End(a, z)
    BY <1>2, <1>6, <2>1 DEF Segment
  <2>4. s.end % BlockSize = 0 /\ s.end >= s.start
    BY DEF PG!Mappable, PG!paging_is_aligned
  <2>5. physical + memsz <= s.end
    BY <1>2, <1>6 DEF LinkedSegment
  <2> QED
    BY <1>12, <2>2, <2>3, <2>4, <2>5
<1>14. PICK e \in Int : e = end \div BlockSize /\ end = BlockSize * e
  <2>1. end \in Int
    BY <1>1
  <2> QED
    BY <1>13, <2>1, AlignedIsMultiple
<1>15. qp <= e /\ e \in 0 .. (PG!TotalPages - 1)
  <2>1. qp <= e
    BY <1>1, <1>13, <1>14, ProductGrows
  <2>2. ~ (PG!TotalPages <= e)
    <3> SUFFICES ASSUME PG!TotalPages <= e
                 PROVE  FALSE
      OBVIOUS
    <3>1. BlockSize * PG!TotalPages <= BlockSize * e
      BY <1>1, ProductGrows
    <3> QED
      BY <1>1, <1>13, <1>14, <3>1
  <2> QED
    BY <1>1, <2>1, <2>2
<1>16. PageOf(s.virtual) = qv /\ PageOf(s.start) = qp /\ PageOf(s.end) = e
  BY <1>12, <1>13, <1>14, Multiple DEF PageOf
<1>17. MappedPages(s) = {qv + i : i \in 0 .. (e - qp - 1)}
  BY <1>16 DEF MappedPages
<1>18. e = qp \/ qv + (e - qp) <= PG!TotalPages
  <2> SUFFICES ASSUME e # qp
               PROVE  qv + (e - qp) <= PG!TotalPages
    OBVIOUS
  <2>1. e - qp - 1 \in 0 .. (e - qp - 1)
    BY <1>15
  <2>2. qv + (e - qp - 1) \in ProgramPages
    BY <1>17, <2>1 DEF LinkedSegment
  <2>3. PICK last \in ProgramPages : last = qv + (e - qp - 1)
    BY <2>2
  <2>4. last < Base /\ Base < PG!TotalPages
    BY Layout, ProgramPage
  <2> QED
    BY <1>1, <1>15, <2>3, <2>4
<1>19. memory + phdr.p_offset = physical /\ phdr.p_vaddr = vaddr
       /\ physical + phdr.p_memsz <= BlockSize * e
  BY <1>2, <1>4, <1>5, <1>13, <1>14
<1>20. /\ s.virtual = BlockSize * qv /\ s.start = BlockSize * qp
       /\ s.end = BlockSize * e /\ vaddr = BlockSize * qv + r
       /\ qv \in Nat /\ qp \in Nat /\ r \in 0 .. (BlockSize - 1)
  BY <1>7, <1>12, <1>13, <1>14
<1>21. SegmentLies(s, phdr, memory, qv, qp, e, r)
  BY <1>6, <1>11, <1>15, <1>17, <1>18, <1>19, <1>20 DEF SegmentLies
<1> QED
  BY <1>21

\* A directory shows the segment: its pages have the frames of the segment,
\* in order, and the flags of the segment.
Shows(dir, s) ==
  \A i \in 0 .. (PageOf(s.end) - PageOf(s.start) - 1) :
    dir[PageOf(s.virtual) + i] = [frame |-> PageOf(s.start) + i,
                                  flags |-> s.flags]

\* One call of paging_map_to in process_map_elf.
LEMMA SegmentShown ==
  ASSUME NEW s, NEW phdr, NEW memory, NEW qv, NEW qp, NEW e, NEW r,
         SegmentLies(s, phdr, memory, qv, qp, e, r), s.flags \in PG!Flags,
         NEW dir \in [PG!Pages -> PG!PageEntry], NEW new,
         new = PG!paging_map_to(dir, s.virtual, s.start, s.end, s.flags)
  PROVE  /\ new \in [PG!Pages -> PG!PageEntry]
         /\ Shows(new, s)
         /\ \A v \in PG!Pages : v \notin MappedPages(s) => new[v] = dir[v]
         /\ MappedPages(s) \subseteq PG!Pages
         /\ \A i \in 0 .. (PageOf(s.end) - PageOf(s.start) - 1) :
              PageOf(s.virtual) + i \in MappedPages(s)
<1>1. /\ qv \in Nat /\ qp \in Nat /\ e \in 0 .. (PG!TotalPages - 1) /\ qp <= e
      /\ s.virtual = BlockSize * qv /\ s.start = BlockSize * qp
      /\ s.end = BlockSize * e
      /\ MappedPages(s) = {qv + i : i \in 0 .. (e - qp - 1)}
      /\ e = qp \/ qv + (e - qp) <= PG!TotalPages
  BY DEF SegmentLies
<1>2. /\ BlockSize \in Nat \ {0} /\ PG!TotalPages \in Nat \ {0}
      /\ qv \in Int /\ qp \in Int /\ e \in Int
  BY <1>1, Layout
<1>3. PICK flags \in PG!Flags : flags = s.flags
  OBVIOUS
<1>4. new = PG!paging_map_to(dir, BlockSize * qv, BlockSize * qp,
                             BlockSize * e, flags)
  BY <1>1, <1>3
<1>5. new \in [PG!Pages -> PG!PageEntry]
  <2>1. PICK virtual \in Int, physical \in Int, end \in 0 .. (Word - 1) :
          /\ virtual = s.virtual /\ physical = s.start /\ end = s.end
          /\ physical >= 0
    <3>1. BlockSize * e + BlockSize <= BlockSize * PG!TotalPages
      BY <1>1, <1>2, ProductGrows
    <3>2. Word = BlockSize * PG!TotalPages /\ Word \in Int
      BY Layout
    <3>3. /\ BlockSize * e \in Nat /\ BlockSize * qp \in Nat
          /\ BlockSize * qv \in Nat
      BY <1>1, <1>2
    <3>4. BlockSize * e \in 0 .. (Word - 1)
      BY <1>2, <3>1, <3>2, <3>3
    <3> QED
      BY <1>1, <3>3, <3>4
  <2> QED
    BY <1>3, <2>1, MapFrames
<1>6. /\ \A i \in 0 .. (e - qp - 1) :
           qv + i \in PG!Pages =>
             new[qv + i] = [frame |-> qp + i, flags |-> flags]
      /\ \A v \in PG!Pages :
           v \notin qv .. (qv + (e - qp) - 1) => new[v] = dir[v]
  <2>1. PICK v0 \in Nat, p0 \in Nat, e0 \in 0 .. (PG!TotalPages - 1) :
          v0 = qv /\ p0 = qp /\ e0 = e
    BY <1>1
  <2>2. /\ p0 <= e0 /\ (e0 = p0 \/ v0 + (e0 - p0) <= PG!TotalPages)
        /\ new = PG!paging_map_to(dir, BlockSize * v0, BlockSize * p0,
                                  BlockSize * e0, flags)
    BY <1>1, <1>4, <2>1
  <2>3. PagesMapped(new, dir, v0, p0, e0, flags)
    BY <2>2, MapPages
  <2> QED
    BY <2>1, <2>2, <2>3, Zenon DEF PagesMapped
<1>7. PageOf(s.virtual) = qv /\ PageOf(s.start) = qp /\ PageOf(s.end) = e
  BY <1>1, <1>2, Multiple DEF PageOf
<1>8. \A i \in 0 .. (e - qp - 1) : qv + i \in PG!Pages
  <2> SUFFICES ASSUME NEW i \in 0 .. (e - qp - 1)
               PROVE  qv + i \in PG!Pages
    OBVIOUS
  <2>1. i \in Int /\ 0 <= i /\ i < e - qp /\ 0 <= qv
    BY <1>1, <1>2
  <2>2. qv + (e - qp) <= PG!TotalPages
    BY <1>1, <1>2, <2>1
  <2> QED
    BY <1>2, <2>1, <2>2 DEF PG!Pages
<1>9. \A v \in PG!Pages :
        v \in qv .. (qv + (e - qp) - 1) => v \in MappedPages(s)
  <2> SUFFICES ASSUME NEW v \in PG!Pages, v \in qv .. (qv + (e - qp) - 1)
               PROVE  v \in MappedPages(s)
    OBVIOUS
  <2>1. PICK i \in 0 .. (e - qp - 1) : v = qv + i
    <3>1. v - qv \in 0 .. (e - qp - 1) /\ v = qv + (v - qv)
      BY <1>2
    <3> QED
      BY <3>1
  <2> QED
    BY <1>1, <2>1
<1>10. MappedPages(s) \subseteq PG!Pages
  BY <1>1, <1>8
<1>11. Shows(new, s)
  BY <1>3, <1>6, <1>7, <1>8 DEF Shows
<1>12. \A v \in PG!Pages : v \notin MappedPages(s) => new[v] = dir[v]
  BY <1>6, <1>9
<1>13. \A i \in 0 .. (PageOf(s.end) - PageOf(s.start) - 1) :
         PageOf(s.virtual) + i \in MappedPages(s)
  BY <1>1, <1>7
<1> QED
  BY <1>5, <1>10, <1>11, <1>12, <1>13

\* What a segment shows is not changed by the mapping of another one.
LEMMA ShownStays ==
  ASSUME NEW s, NEW z, NEW dir, NEW new, Shows(dir, s),
         MappedPages(s) \subseteq PG!Pages,
         \A i \in 0 .. (PageOf(s.end) - PageOf(s.start) - 1) :
           PageOf(s.virtual) + i \in MappedPages(s),
         MappedPages(s) \cap MappedPages(z) = {},
         \A v \in PG!Pages : v \notin MappedPages(z) => new[v] = dir[v]
  PROVE  Shows(new, s)
BY DEF Shows

(***************************************************************************)
(* process_map_elf: when the segments have no page in common, the          *)
(* directory shows all of them after the last one, whatever their order.   *)
(***************************************************************************)
LEMMA ElfShown ==
  ASSUME SizesTaken, FilesFit, NEW file \in Images, NEW b \in H!Blocks,
         NEW memory, memory = H!heap_block_to_address(b),
         LinkedElf(file, memory), NEW prog, prog.elf_memory = memory,
         \A k \in DOMAIN file.phdrs :
           LET s == Segment(prog, file.phdrs[k]) IN
           PG!Mappable(s.virtual, s.start, s.end),
         NEW dir \in [PG!Pages -> PG!PageEntry], NEW new,
         new = process_map_elf(dir, prog, file.phdrs)
  PROVE  /\ new \in [PG!Pages -> PG!PageEntry]
         /\ \A k \in DOMAIN file.phdrs : Shows(new, Segment(prog, file.phdrs[k]))
<1> DEFINE phdrs == file.phdrs
           n == Len(phdrs)
           S == [PG!Pages -> PG!PageEntry]
           seg(k) == Segment(prog, phdrs[k])
           next(k, x) == PG!paging_map_to(x, seg(k).virtual, seg(k).start,
                                          seg(k).end, seg(k).flags)
           loop(t) == [k \in 0 .. n |-> IF k = 0 THEN dir ELSE next(k, t[k - 1])]
           turn == CHOOSE t : t = loop(t)
<1>1. /\ n \in Nat /\ DOMAIN file.phdrs = 1 .. n
      /\ \A k \in 1 .. n : phdrs[k] \in ELF!ProgramHeader
  <2>1. file.phdrs \in Seq(ELF!ProgramHeader)
    BY UserMemoryAssumption
  <2> QED
    BY <2>1
<1>2. \A k \in 1 .. n : seg(k) = Segment([elf_memory |-> memory], phdrs[k])
  BY DEF Segment
<1>3. \A k, l \in 1 .. n :
        k # l => MappedPages(seg(k)) \cap MappedPages(seg(l)) = {}
  BY <1>1, <1>2 DEF LinkedElf
<1>4. new = turn[n]
  BY DEF process_map_elf
<1>5. ASSUME NEW k \in 1 .. n, NEW x \in S
      PROVE  /\ next(k, x) \in S /\ Shows(next(k, x), seg(k))
             /\ \A v \in PG!Pages :
                  v \notin MappedPages(seg(k)) => next(k, x)[v] = x[v]
             /\ MappedPages(seg(k)) \subseteq PG!Pages
             /\ \A i \in 0 .. (PageOf(seg(k).end) - PageOf(seg(k).start) - 1) :
                  PageOf(seg(k).virtual) + i \in MappedPages(seg(k))
  <2>1. PICK phdr \in ELF!ProgramHeader : phdr = phdrs[k]
    BY <1>1
  <2>2. PICK s, y : s = seg(k) /\ y = next(k, x)
    OBVIOUS
  <2>3. /\ s = Segment([elf_memory |-> memory], phdr)
        /\ PG!Mappable(s.virtual, s.start, s.end)
        /\ LinkedSegment(file, phdr, memory)
        /\ y = PG!paging_map_to(x, s.virtual, s.start, s.end, s.flags)
    BY <1>1, <1>2, <2>1, <2>2 DEF LinkedElf
  <2>4. s.flags \in PG!Flags
    BY <2>3 DEF Segment, PG!Flags
  <2>5. PICK qv, qp, e, r : SegmentLies(s, phdr, memory, qv, qp, e, r)
    BY <2>3, SegmentParts
  <2> HIDE DEF seg, next, phdrs, n
  <2>6. /\ y \in [PG!Pages -> PG!PageEntry]
        /\ Shows(y, s)
        /\ \A v \in PG!Pages : v \notin MappedPages(s) => y[v] = x[v]
        /\ MappedPages(s) \subseteq PG!Pages
        /\ \A i \in 0 .. (PageOf(s.end) - PageOf(s.start) - 1) :
             PageOf(s.virtual) + i \in MappedPages(s)
    BY <2>3, <2>4, <2>5, SegmentShown
  <2> QED
    BY <2>2, <2>6, Zenon
<1> HIDE DEF next, seg, phdrs, n, S
<1>6. \A k \in 0 .. n : turn[k] = IF k = 0 THEN dir ELSE next(k, turn[k - 1])
  <2>1. PICK step : step = [k \in 1 .. n |-> [x \in S |-> next(k, x)]]
    OBVIOUS
  <2>2. step \in Steps(n, S) /\ dir \in S
    BY <1>5, <2>1 DEF Steps, S
  <2>3. PICK g : Loop(n, S, dir, step, g)
    BY <1>1, <2>2, LoopRuns
  <2>4. /\ g \in [0 .. n -> S] /\ g[0] = dir
        /\ \A k \in 1 .. n : g[k] = step[k][g[k - 1]]
    BY <2>3 DEF Loop
  <2>5. \A k \in 1 .. n : g[k] = next(k, g[k - 1])
    <3> SUFFICES ASSUME NEW k \in 1 .. n
                 PROVE  g[k] = next(k, g[k - 1])
      OBVIOUS
    <3>1. g[k - 1] \in S
      BY <1>1, <2>4
    <3> QED
      BY <2>1, <2>4, <3>1
  <2>6. \A k \in 0 .. n : k # 0 => k \in 1 .. n
    BY <1>1
  <2>7. g = loop(g)
    BY <2>4, <2>5, <2>6
  <2>8. turn = loop(turn)
    BY <2>7
  <2> HIDE DEF turn
  <2> QED
    BY <2>8
<1> HIDE DEF turn, loop
<1> DEFINE Done == {k \in 0 .. n :
                      turn[k] \in S /\ \A l \in 1 .. k : Shows(turn[k], seg(l))}
<1>7. 0 \in Done
  <2>1. turn[0] = dir /\ 0 \in 0 .. n
    BY <1>1, <1>6
  <2> QED
    BY <2>1 DEF S
<1>8. ASSUME NEW k \in 1 .. n, k - 1 \in Done
      PROVE  k \in Done
  <2>1. PICK x \in S : /\ x = turn[k - 1]
                       /\ \A l \in 1 .. (k - 1) : Shows(x, seg(l))
    BY <1>8
  <2>2. k \in 0 .. n /\ turn[k] = next(k, x)
    BY <1>1, <1>6, <2>1
  <2>3. /\ next(k, x) \in S /\ Shows(next(k, x), seg(k))
        /\ \A v \in PG!Pages :
             v \notin MappedPages(seg(k)) => next(k, x)[v] = x[v]
    BY <1>5
  <2>4. ASSUME NEW l \in 1 .. (k - 1)
        PROVE  Shows(next(k, x), seg(l))
    <3>1. l \in 1 .. n /\ l # k
      BY <1>1
    <3>2. PICK s, z, y : s = seg(l) /\ z = seg(k) /\ y = next(k, x)
      OBVIOUS
    <3>3. /\ MappedPages(s) \subseteq PG!Pages
          /\ \A i \in 0 .. (PageOf(s.end) - PageOf(s.start) - 1) :
               PageOf(s.virtual) + i \in MappedPages(s)
      BY <1>5, <3>1, <3>2
    <3>4. MappedPages(s) \cap MappedPages(z) = {} /\ Shows(x, s)
      BY <1>3, <2>1, <3>1, <3>2
    <3>5. \A v \in PG!Pages : v \notin MappedPages(z) => y[v] = x[v]
      BY <2>3, <3>2
    <3>6. Shows(y, s)
      BY <3>3, <3>4, <3>5, ShownStays
    <3> QED
      BY <3>2, <3>6
  <2>5. \A l \in 1 .. k : l = k \/ l \in 1 .. (k - 1)
    BY <1>1
  <2> QED
    BY <2>2, <2>3, <2>4, <2>5
<1>9. n \in Done
  <2>1. \A k \in 1 .. n : k - 1 \in Done => k \in Done
    BY <1>8
  <2> HIDE DEF Done
  <2>2. \A k \in 0 .. n : k \in Done
    BY <1>1, <1>7, <2>1, TurnByTurn
  <2> QED
    BY <1>1, <2>2
<1>10. new \in S /\ \A l \in 1 .. n : Shows(new, seg(l))
  BY <1>4, <1>9
<1> QED
  BY <1>1, <1>10 DEF S, seg, phdrs

\* process_map_stack changes one page only.
LEMMA StackElsewhere ==
  ASSUME NEW dir \in [PG!Pages -> PG!PageEntry], NEW b \in H!Blocks,
         NEW stk, stk = H!heap_block_to_address(b), NEW new,
         new = process_map_stack(dir, stk)
  PROVE  \A v \in PG!Pages : v # PageOf(StackAddress) => new[v] = dir[v]
<1>1. /\ BlockSize \in Nat \ {0} /\ Word \in Nat \ {0} /\ Base \in Nat
      /\ PG!TotalPages \in Nat \ {0} /\ Word = BlockSize * PG!TotalPages
      /\ b \in Nat
  BY Layout, BlockFacts
<1>2. PICK one \in 0 .. (Word - 1) : one = BlockSize /\ H!TotalBlocks(one) = 1
  BY OneBlock
<1>3. new = PG!paging_map_to(dir, StackAddress, stk, End(stk, one), "write")
  BY <1>2 DEF process_map_stack
<1>4. CASE ~ PG!Mappable(StackAddress, stk, End(stk, one))
  BY <1>3, <1>4 DEF PG!paging_map_to
<1>5. CASE PG!Mappable(StackAddress, stk, End(stk, one))
  <2>1. PG!Mappable(stk, stk, End(stk, one))
    BY <1>5 DEF PG!Mappable
  <2>2. /\ End(stk, one) = BlockSize * (Base + b + 1)
        /\ Base + b + 1 < PG!TotalPages
    <3>1. H!TotalBlocks(one) # 0
      BY <1>2
    <3>2. /\ End(stk, one) = BlockSize * (Base + b + H!TotalBlocks(one))
          /\ Base + b + H!TotalBlocks(one) < PG!TotalPages
      BY <2>1, <3>1, EndOfRun
    <3> QED
      BY <1>2, <3>2
  <2>3. PICK a \in 0 .. (Word - 1) : a = StackAddress /\ a % BlockSize = 0
    BY UserMemoryAssumption
  <2>4. PICK qv \in Int : qv = a \div BlockSize /\ a = BlockSize * qv
    <3>1. a \in Int
      BY <1>1
    <3> QED
      BY <2>3, <3>1, AlignedIsMultiple
  <2>5. 0 <= qv /\ qv < PG!TotalPages
    <3>1. PICK zero \in Int : zero = 0 /\ BlockSize * zero = 0
      BY <1>1
    <3>2. zero <= qv
      BY <1>1, <2>3, <2>4, <3>1, ProductGrows
    <3>3. ~ (PG!TotalPages <= qv)
      <4> SUFFICES ASSUME PG!TotalPages <= qv
                   PROVE  FALSE
        OBVIOUS
      <4>1. BlockSize * PG!TotalPages <= BlockSize * qv
        BY <1>1, ProductGrows
      <4> QED
        BY <1>1, <2>3, <2>4, <4>1
    <3> QED
      BY <1>1, <3>1, <3>2, <3>3
  <2>6. PICK q0 \in Nat, qp \in Nat, e \in 0 .. (PG!TotalPages - 1) :
          q0 = qv /\ qp = Base + b /\ e = qp + 1 /\ qp <= e
    BY <1>1, <2>2, <2>4, <2>5
  <2>7. stk = BlockSize * qp /\ StackAddress = BlockSize * q0
    BY <2>3, <2>4, <2>6, BlockAddress
  <2>8. End(stk, one) = BlockSize * e
    BY <1>1, <2>2, <2>6
  <2>9. PICK flags \in PG!Flags : flags = "write"
    BY DEF PG!Flags
  <2>10. new = PG!paging_map_to(dir, BlockSize * q0, BlockSize * qp,
                                BlockSize * e, flags)
    BY <1>3, <2>7, <2>8, <2>9
  <2>11. PagesMapped(new, dir, q0, qp, e, flags)
    BY <2>6, <2>10, MapPages
  <2>12. q0 + (e - qp) <= PG!TotalPages /\ q0 + (e - qp) - 1 = q0
    BY <1>1, <2>5, <2>6
  <2>13. \A v \in PG!Pages : v \notin q0 .. q0 => new[v] = dir[v]
    BY <2>11, <2>12, Zenon DEF PagesMapped
  <2>14. PageOf(StackAddress) = q0
    BY <2>3, <2>4, <2>6 DEF PageOf
  <2>15. \A v \in PG!Pages : v # q0 => v \notin q0 .. q0
    BY <1>1, <2>6 DEF PG!Pages
  <2> QED
    BY <2>13, <2>14, <2>15
<1> QED
  BY <1>4, <1>5

\* process_map_binary, where the pages are for programs.
LEMMA BinaryShown ==
  ASSUME SizesTaken, FilesFit, NEW file \in Images, LinkedBinary(file),
         NEW b \in H!Blocks, NEW memory, memory = H!heap_block_to_address(b),
         NEW prog, prog.elf_memory = memory,
         NEW dir \in [PG!Pages -> PG!PageEntry], NEW new,
         new = process_map_binary(dir, prog, file.size)
  PROVE  \A j \in 0 .. (file.size - 1) :
           \E t \in Int, z \in 0 .. (BlockSize - 1) :
             /\ ProgramAddress + j = BlockSize * t + z
             /\ t \in ProgramPages
             /\ new[t].flags = "write"
             /\ new[t].frame * BlockSize + z = memory + j
<1>1. /\ BlockSize \in Nat \ {0} /\ Word \in Nat \ {0} /\ Base \in Nat
      /\ PG!TotalPages \in Nat \ {0}
  BY Layout
<1>2. PICK n \in Nat \ {0}, qp \in Nat, size \in Nat \ {0} :
        /\ size = file.size /\ qp = Base + b
        /\ memory = BlockSize * qp
        /\ End(memory, size) = BlockSize * (qp + n)
        /\ qp + n < PG!TotalPages /\ memory + size <= BlockSize * (qp + n)
  BY FileEnds
<1>3. PICK a \in 0 .. (Word - 1) : a = ProgramAddress /\ a % BlockSize = 0
  BY UserMemoryAssumption
<1>4. PICK qv \in Nat : ProgramAddress = BlockSize * qv
  <2>1. PICK q \in Nat, r \in 0 .. (BlockSize - 1) : a = BlockSize * q + r
    <3>1. a \in Nat
      BY <1>1
    <3> QED
      BY <3>1, AddressHasParts
  <2>2. a \in Int /\ q \in Int
    BY <1>1
  <2>3. r = 0
    BY <1>3, <2>1, <2>2, AddressParts
  <2> QED
    BY <1>1, <1>3, <2>1, <2>3
<1>5. PICK e \in 0 .. (PG!TotalPages - 1) : e = qp + n /\ qp <= e
  BY <1>1, <1>2
<1>6. PICK flags \in PG!Flags : flags = "write"
  BY DEF PG!Flags
<1>7. new = PG!paging_map_to(dir, BlockSize * qv, BlockSize * qp,
                             BlockSize * e, flags)
  BY <1>2, <1>4, <1>5, <1>6 DEF process_map_binary
<1>8. PagesMapped(new, dir, qv, qp, e, flags)
  BY <1>5, <1>7, MapPages
<1> SUFFICES ASSUME NEW j \in 0 .. (file.size - 1)
             PROVE  \E t \in Int, z \in 0 .. (BlockSize - 1) :
                      /\ ProgramAddress + j = BlockSize * t + z
                      /\ t \in ProgramPages
                      /\ new[t].flags = "write"
                      /\ new[t].frame * BlockSize + z = memory + j
  OBVIOUS
<1>9. PICK i \in 0 .. (e - qp - 1), z \in 0 .. (BlockSize - 1) :
        /\ BlockSize * qv + 0 + j = BlockSize * (qv + i) + z
        /\ BlockSize * qp + 0 + j = BlockSize * (qp + i) + z
  <2>1. PICK l \in Nat, x \in Nat, r \in 0 .. (BlockSize - 1) :
          l = j /\ x = e /\ r = 0
    BY <1>1, <1>2
  <2>2. BlockSize * qp + r + l < BlockSize * x
    <3>1. /\ BlockSize * qp \in Int /\ BlockSize * e \in Int
          /\ BlockSize * e = BlockSize * (qp + n)
      BY <1>1, <1>5
    <3> QED
      BY <1>2, <2>1, <3>1
  <2>3. SamePage(qv, qp, x, r, l)
    BY <2>2, BytePage
  <2> QED
    BY <2>1, <2>3 DEF SamePage
<1>10. PICK t \in Int, f \in Int : t = qv + i /\ f = qp + i
  BY <1>5
<1>11. ProgramAddress + j = BlockSize * t + z /\ memory + j = BlockSize * f + z
  <2>1. j \in Int /\ BlockSize * qv \in Int /\ BlockSize * qp \in Int
    BY <1>1, <1>2
  <2> QED
    BY <1>2, <1>4, <1>9, <1>10, <2>1
<1>12. t \in ProgramPages
  <2>1. PICK adr \in Int : adr = ProgramAddress + j
    BY <1>1, <1>2, <1>4
  <2>2. PageOf(adr) = t
    BY <1>11, <2>1, AddressParts
  <2> QED
    BY <2>1, <2>2 DEF LinkedBinary
<1>13. new[t] = [frame |-> f, flags |-> flags]
  <2>1. qv + i \in PG!Pages
    BY <1>10, <1>12, ProgramPage
  <2> QED
    BY <1>8, <1>10, <2>1 DEF PagesMapped
<1>14. new[t].frame = f /\ new[t].flags = "write"
  BY <1>6, <1>13
<1>15. f * BlockSize + z = memory + j
  BY <1>1, <1>11
<1> QED
  BY <1>11, <1>12, <1>14, <1>15

-----------------------------------------------------------------------------
\* Two directories that agree on the pages for programs.
SameForPrograms(d, e) == \A v \in ProgramPages : d[v] = e[v]

\* A program sees physical memory at an address, and may write it or not.
Sees(dir, a, physical, writable) ==
  /\ PG!paging_get_physical_address(dir, a) = physical
  /\ (PG!paging_get(dir, PG!paging_align_to_lower_page(a)).flags = "write")
       <=> writable

\* The bytes of a segment that are in the file.
LEMMA SegmentSeen ==
  ASSUME SizesTaken, FilesFit, NEW file \in Images,
         NEW phdr \in ELF!ProgramHeader, NEW b \in H!Blocks,
         NEW memory, memory = H!heap_block_to_address(b),
         LinkedSegment(file, phdr, memory),
         NEW s, s = Segment([elf_memory |-> memory], phdr),
         PG!Mappable(s.virtual, s.start, s.end),
         NEW new, Shows(new, s), NEW dir, SameForPrograms(dir, new),
         NEW j \in 0 .. (phdr.p_filesz - 1)
  PROVE  /\ Sees(dir, phdr.p_vaddr + j, memory + phdr.p_offset + j,
                 phdr.writable)
         /\ phdr.p_vaddr + j < StartAddress
<1>1. /\ BlockSize \in Nat \ {0} /\ Base \in Nat /\ StartAddress = BlockSize * Base
  BY Layout
<1>2. PICK qv, qp, e, r : SegmentLies(s, phdr, memory, qv, qp, e, r)
  BY SegmentParts
<1>3. /\ qv \in Nat /\ qp \in Nat /\ e \in Nat /\ r \in 0 .. (BlockSize - 1)
      /\ e \in Int
      /\ phdr.p_vaddr = BlockSize * qv + r
      /\ memory + phdr.p_offset = BlockSize * qp + r
      /\ memory + phdr.p_offset + phdr.p_memsz <= BlockSize * e
      /\ s.virtual = BlockSize * qv /\ s.start = BlockSize * qp
      /\ s.end = BlockSize * e
      /\ MappedPages(s) = {qv + i : i \in 0 .. (e - qp - 1)}
  BY <1>2 DEF SegmentLies
<1>4. PageOf(s.virtual) = qv /\ PageOf(s.start) = qp /\ PageOf(s.end) = e
  <2>1. qv \in Int /\ qp \in Int
    BY <1>3
  <2> QED
    BY <1>3, <2>1, Multiple DEF PageOf
<1>5. PICK filesz \in Nat, memsz \in Nat, l \in Nat :
        /\ filesz = phdr.p_filesz /\ memsz = phdr.p_memsz /\ filesz <= memsz
        /\ l = j /\ l < filesz
  BY DEF ELF!ProgramHeader, LinkedSegment
<1>6. BlockSize * qp + r + l < BlockSize * e
  <2>1. BlockSize * qp \in Int /\ BlockSize * e \in Int /\ r \in Int
    BY <1>1, <1>3
  <2>2. BlockSize * qp + r + memsz <= BlockSize * e
    BY <1>3, <1>5
  <2> QED
    BY <1>5, <2>1, <2>2
<1>7. SamePage(qv, qp, e, r, l)
  BY <1>3, <1>6, BytePage
<1>8. PICK t \in 0 .. (e - qp - 1), z \in 0 .. (BlockSize - 1) :
        /\ BlockSize * qv + r + l = BlockSize * (qv + t) + z
        /\ BlockSize * qp + r + l = BlockSize * (qp + t) + z
  BY <1>7 DEF SamePage
<1>9. PICK v \in Int, f \in Int : v = qv + t /\ f = qp + t
  BY <1>3
<1>10. PICK a \in Int : a = phdr.p_vaddr + j /\ a = BlockSize * v + z
  <2>1. BlockSize * qv + r + l \in Int
    BY <1>1, <1>3
  <2> QED
    BY <1>3, <1>5, <1>8, <1>9, <2>1
<1>11. f * BlockSize + z = memory + phdr.p_offset + j
  BY <1>1, <1>3, <1>5, <1>8, <1>9
<1>12. v \in ProgramPages
  BY <1>3, <1>9 DEF LinkedSegment
<1>13. dir[v] = [frame |-> f, flags |-> s.flags]
  <2>1. new[v] = [frame |-> f, flags |-> s.flags]
    BY <1>4, <1>9 DEF Shows
  <2> QED
    BY <1>12, <2>1 DEF SameForPrograms
<1>14. /\ PG!paging_get_physical_address(dir, a) = f * BlockSize + z
       /\ PG!paging_get(dir, PG!paging_align_to_lower_page(a)).flags = s.flags
  BY <1>10, <1>13, SeenAt
<1>15. (s.flags = "write") <=> phdr.writable
  BY DEF Segment, ELF!ProgramHeader
<1>16. a < StartAddress
  <2>1. v < Base
    BY <1>12, ProgramPage
  <2>2. BlockSize * v + BlockSize <= BlockSize * Base
    BY <1>1, <2>1, ProductGrows
  <2>3. BlockSize * v \in Int
    BY <1>1
  <2> QED
    BY <1>1, <1>10, <2>2, <2>3
<1> QED
  BY <1>10, <1>11, <1>14, <1>15, <1>16 DEF Sees

\* The parts of a program that process_map_memory shows, in a directory that
\* has not changed since where programs are.
FileShown(dir, prog, file) ==
  IF prog.at = 0
    THEN \A j \in 0 .. (file.size - 1) :
           Sees(dir, ProgramAddress + j, prog.elf_memory + j, TRUE)
    ELSE /\ LinkedElf(file, prog.elf_memory)
         /\ \A k \in DOMAIN file.phdrs :
              LET phdr == file.phdrs[k] IN
              \A j \in 0 .. (phdr.p_filesz - 1) :
                /\ Sees(dir, phdr.p_vaddr + j,
                        prog.elf_memory + phdr.p_offset + j, phdr.writable)
                /\ phdr.p_vaddr + j < StartAddress

LEMMA MemoryShown ==
  ASSUME SizesTaken, FilesFit, FilesLinked, NEW file \in Images,
         NEW prog, prog.at = 0 <=> ~ELF!elf_validate_loaded(file.header),
         FileMappable(prog, file),
         NEW b \in H!Blocks, prog.elf_memory = H!heap_block_to_address(b),
         NEW d \in H!Blocks, NEW stk, stk = H!heap_block_to_address(d),
         NEW dir, SameForPrograms(dir, process_map_memory(prog, stk, file))
  PROVE  FileShown(dir, prog, file)
<1>1. PICK memory, zero : /\ memory = prog.elf_memory
                          /\ zero = PG!paging_new_4gb("read")
  OBVIOUS
<1>2. zero \in [PG!Pages -> PG!PageEntry]
  BY <1>1, NewDirectory
<1>3. PICK new : new = IF prog.at = 0
                         THEN process_map_binary(zero, prog, file.size)
                         ELSE process_map_elf(zero, prog, file.phdrs)
  OBVIOUS
<1>4. ASSUME new \in [PG!Pages -> PG!PageEntry]
      PROVE  SameForPrograms(dir, new)
  <2>1. PICK all : all = process_map_stack(new, stk)
    OBVIOUS
  <2>2. all = process_map_memory(prog, stk, file)
    BY <1>1, <1>3, <2>1 DEF process_map_memory
  <2>3. \A v \in PG!Pages : v # PageOf(StackAddress) => all[v] = new[v]
    BY <1>4, <2>1, StackElsewhere
  <2>4. \A v \in ProgramPages : all[v] = new[v]
    BY <2>3, ProgramPage
  <2> QED
    BY <2>2, <2>4 DEF SameForPrograms
<1>5. CASE prog.at = 0
  <2>1. LinkedBinary(file) /\ new = process_map_binary(zero, prog, file.size)
    BY <1>3, <1>5 DEF FilesLinked
  <2>2. new \in [PG!Pages -> PG!PageEntry]
    <3>1. PICK n \in Nat \ {0}, q \in Nat, size \in Nat \ {0} :
            /\ size = file.size /\ q = Base + b /\ memory = BlockSize * q
            /\ End(memory, size) = BlockSize * (q + n)
            /\ q + n < PG!TotalPages /\ memory + size <= BlockSize * (q + n)
      BY <1>1, FileEnds
    <3>2. PICK virtual \in Int, physical \in Int :
            virtual = ProgramAddress /\ physical = memory /\ physical >= 0
      <4>1. BlockSize * q \in Nat
        BY Layout
      <4> QED
        BY <3>1, <4>1, Layout, UserMemoryAssumption
    <3>3. End(physical, size) \in 0 .. (Word - 1)
      <4>1. PICK z \in Int : z = size
        BY <3>1
      <4> QED
        BY <4>1, EndTyped
    <3>4. PICK end \in 0 .. (Word - 1), flags \in PG!Flags :
            end = End(physical, size) /\ flags = "write"
      BY <3>3 DEF PG!Flags
    <3>5. new = PG!paging_map_to(zero, virtual, physical, end, flags)
      BY <1>1, <2>1, <3>1, <3>2, <3>4 DEF process_map_binary
    <3> QED
      BY <1>2, <3>2, <3>5, MapFrames
  <2>3. SameForPrograms(dir, new)
    BY <1>4, <2>2
  <2>4. ASSUME NEW j \in 0 .. (file.size - 1)
        PROVE  Sees(dir, ProgramAddress + j, prog.elf_memory + j, TRUE)
    <3>1. PICK t \in Int, z \in 0 .. (BlockSize - 1) :
            /\ ProgramAddress + j = BlockSize * t + z
            /\ t \in ProgramPages
            /\ new[t].flags = "write"
            /\ new[t].frame * BlockSize + z = memory + j
      BY <1>1, <1>2, <2>1, BinaryShown
    <3>2. dir[t] = new[t]
      BY <2>3, <3>1 DEF SameForPrograms
    <3>3. PICK a \in Int : a = ProgramAddress + j
      <4>1. BlockSize * t + z \in Int
        BY Layout
      <4> QED
        BY <3>1, <4>1
    <3>4. /\ PG!paging_get_physical_address(dir, a) = dir[t].frame * BlockSize + z
          /\ PG!paging_get(dir, PG!paging_align_to_lower_page(a)) = dir[t]
      BY <3>1, <3>3, SeenAt
    <3> QED
      BY <1>1, <3>1, <3>2, <3>3, <3>4 DEF Sees
  <2> QED
    BY <1>5, <2>4 DEF FileShown
<1>6. CASE prog.at # 0
  <2>1. /\ ELF!elf_validate_loaded(file.header)
        /\ new = process_map_elf(zero, prog, file.phdrs)
    BY <1>3, <1>6
  <2>2. \A k \in DOMAIN file.phdrs :
          LET s == Segment(prog, file.phdrs[k]) IN
          PG!Mappable(s.virtual, s.start, s.end)
    BY <1>6 DEF FileMappable
  <2>3. LinkedElf(file, memory)
    <3>1. FileMappable([at |-> 1, elf_memory |-> memory], file)
      BY <1>1, <2>2 DEF FileMappable, Segment
    <3> QED
      BY <1>1, <2>1, <3>1 DEF FilesLinked
  <2>4. /\ new \in [PG!Pages -> PG!PageEntry]
        /\ \A k \in DOMAIN file.phdrs : Shows(new, Segment(prog, file.phdrs[k]))
    BY <1>1, <1>2, <2>1, <2>2, <2>3, ElfShown
  <2>5. SameForPrograms(dir, new)
    BY <1>4, <2>4
  <2>6. ASSUME NEW k \in DOMAIN file.phdrs,
               NEW j \in 0 .. (file.phdrs[k].p_filesz - 1)
        PROVE  /\ Sees(dir, file.phdrs[k].p_vaddr + j,
                       prog.elf_memory + file.phdrs[k].p_offset + j,
                       file.phdrs[k].writable)
               /\ file.phdrs[k].p_vaddr + j < StartAddress
    <3>1. PICK phdr \in ELF!ProgramHeader : phdr = file.phdrs[k]
      <4>1. file.phdrs \in Seq(ELF!ProgramHeader)
        BY UserMemoryAssumption
      <4> QED
        BY <4>1
    <3>2. PICK s : s = Segment([elf_memory |-> memory], phdr)
      OBVIOUS
    <3>3. s = Segment(prog, phdr)
      BY <1>1, <3>2 DEF Segment
    <3>4. /\ PG!Mappable(s.virtual, s.start, s.end) /\ Shows(new, s)
          /\ LinkedSegment(file, phdr, memory)
      BY <2>2, <2>3, <2>4, <3>1, <3>3 DEF LinkedElf
    <3>5. j \in 0 .. (phdr.p_filesz - 1)
      BY <3>1
    <3>6. /\ Sees(dir, phdr.p_vaddr + j, memory + phdr.p_offset + j,
                  phdr.writable)
          /\ phdr.p_vaddr + j < StartAddress
      BY <1>1, <2>5, <3>2, <3>4, <3>5, SegmentSeen
    <3> QED
      BY <1>1, <3>1, <3>6
  <2> QED
    BY <1>1, <1>6, <2>3, <2>6 DEF FileShown
<1> QED
  BY <1>5, <1>6

-----------------------------------------------------------------------------
\* A segment to load that can be told from none, and whose ends do not wrap.
LoadsWell(phdr, memory) ==
  /\ phdr.p_vaddr # 0 /\ phdr.p_filesz # 0
  /\ phdr.p_vaddr + phdr.p_filesz < Word
  /\ memory + phdr.p_offset + phdr.p_filesz < Word

\* elf_process_phdr_pt_load, field by field.
Noted(y, x, phdr, memory) ==
  LET first == x.virtual_base >= phdr.p_vaddr \/ x.virtual_base = 0
      end   == phdr.p_vaddr + phdr.p_filesz
      last  == x.virtual_end <= end \/ x.virtual_end = 0
  IN  /\ y.virtual_base = IF first THEN phdr.p_vaddr ELSE x.virtual_base
      /\ y.physical_base = IF first THEN memory + phdr.p_offset
                                    ELSE x.physical_base
      /\ y.virtual_end = IF last THEN end ELSE x.virtual_end
      /\ y.physical_end = IF last THEN memory + phdr.p_offset + phdr.p_filesz
                                  ELSE x.physical_end

LEMMA SegmentNoted ==
  ASSUME NEW at, NEW memory \in Nat, NEW x \in ElfFile(at, memory),
         NEW phdr \in ELF!ProgramHeader, LoadsWell(phdr, memory),
         NEW y, y = ELF!elf_process_phdr_pt_load(x, phdr)
  PROVE  Noted(y, x, phdr, memory)
<1>1. Word \in Nat \ {0}
  BY Layout
<1>2. PICK vaddr \in Nat, offset \in Nat, filesz \in Nat :
        vaddr = phdr.p_vaddr /\ offset = phdr.p_offset /\ filesz = phdr.p_filesz
  BY DEF ELF!ProgramHeader
<1>3. PICK end \in 0 .. (Word - 1), physical \in 0 .. (Word - 1),
           last \in 0 .. (Word - 1) :
        /\ end = vaddr + filesz /\ physical = memory + offset
        /\ last = physical + filesz
  BY <1>1, <1>2 DEF LoadsWell
<1>4. end % Word = end /\ physical % Word = physical /\ last % Word = last
  BY <1>1, RemainderSmall
<1>5. x.elf_memory = memory
  BY DEF ElfFile
<1>6. /\ (phdr.p_vaddr + phdr.p_filesz) % Word = end
      /\ ELF!elf_phdr_phys_address(x.elf_memory, phdr) = physical
      /\ (physical + phdr.p_filesz) % Word = last
  BY <1>2, <1>3, <1>4, <1>5 DEF ELF!elf_phdr_phys_address
<1> DEFINE g == IF x.virtual_base >= phdr.p_vaddr \/ x.virtual_base = 0
                  THEN [x EXCEPT !.virtual_base = phdr.p_vaddr,
                                 !.physical_base = physical]
                  ELSE x
           z == IF g.virtual_end <= end \/ g.virtual_end = 0
                  THEN [g EXCEPT !.virtual_end = end, !.physical_end = last]
                  ELSE g
<1>7. y = z
  BY <1>6 DEF ELF!elf_process_phdr_pt_load
<1> DEFINE first == x.virtual_base >= phdr.p_vaddr \/ x.virtual_base = 0
<1>8. /\ g \in [at : {at}, elf_memory : {memory}, virtual_base : Nat,
                virtual_end : Nat, physical_base : Nat, physical_end : Nat]
      /\ g.virtual_end = x.virtual_end /\ g.physical_end = x.physical_end
      /\ g.virtual_base = IF first THEN phdr.p_vaddr ELSE x.virtual_base
      /\ g.physical_base = IF first THEN physical ELSE x.physical_base
  <2>1. CASE first
    <3>1. g = [x EXCEPT !.virtual_base = phdr.p_vaddr,
                        !.physical_base = physical]
      BY <2>1
    <3> HIDE DEF g
    <3>2. /\ physical \in Nat /\ phdr.p_vaddr \in Nat
          /\ x.virtual_end \in Nat /\ x.physical_end \in Nat
      BY <1>1, <1>2 DEF ElfFile
    <3> HIDE DEF first
    <3> QED
      BY <2>1, <3>1, <3>2 DEF ElfFile
  <2>2. CASE ~first
    <3>1. g = x
      BY <2>2
    <3> HIDE DEF g, first
    <3> QED
      BY <2>2, <3>1 DEF ElfFile
  <2> QED
    BY <2>1, <2>2
<1> HIDE DEF g
<1>9. /\ z.virtual_base = g.virtual_base /\ z.physical_base = g.physical_base
      /\ z.virtual_end = IF g.virtual_end <= end \/ g.virtual_end = 0
                           THEN end ELSE g.virtual_end
      /\ z.physical_end = IF g.virtual_end <= end \/ g.virtual_end = 0
                            THEN last ELSE g.physical_end
  BY <1>8
<1> HIDE DEF z
<1>10. /\ physical = memory + phdr.p_offset
       /\ last = memory + phdr.p_offset + phdr.p_filesz
       /\ end = phdr.p_vaddr + phdr.p_filesz
  BY <1>1, <1>2, <1>3
<1> QED
  BY <1>7, <1>8, <1>9, <1>10 DEF Noted

\* The segments to load among the first n.
Loads(phdrs, n) == {k \in 1 .. n : phdrs[k].p_type = ELF!PT_LOAD}

\* What the loader noted of them: the start of one and the end of one, in
\* both views, and no other one starts before or ends after.
ViewsNoted(x, memory, phdrs, n) ==
  IF Loads(phdrs, n) = {}
    THEN x.virtual_base = 0 /\ x.virtual_end = 0
    ELSE /\ \E k \in Loads(phdrs, n) :
              /\ x.virtual_base = phdrs[k].p_vaddr
              /\ x.physical_base = memory + phdrs[k].p_offset
         /\ \E k \in Loads(phdrs, n) :
              /\ x.virtual_end = phdrs[k].p_vaddr + phdrs[k].p_filesz
              /\ x.physical_end
                   = memory + phdrs[k].p_offset + phdrs[k].p_filesz
         /\ \A k \in Loads(phdrs, n) :
              /\ x.virtual_base <= phdrs[k].p_vaddr
              /\ phdrs[k].p_vaddr + phdrs[k].p_filesz <= x.virtual_end

\* One more turn of elf_process_pheaders.
LEMMA ViewsStep ==
  ASSUME NEW at, NEW memory \in Nat, NEW phdrs \in Seq(ELF!ProgramHeader),
         NEW k \in 1 .. Len(phdrs), NEW x \in ElfFile(at, memory), NEW y,
         \A l \in Loads(phdrs, k) : LoadsWell(phdrs[l], memory),
         y = IF phdrs[k].p_type = ELF!PT_LOAD
               THEN ELF!elf_process_phdr_pt_load(x, phdrs[k]) ELSE x,
         ViewsNoted(x, memory, phdrs, k - 1)
  PROVE  ViewsNoted(y, memory, phdrs, k)
<1>1. /\ \A l \in 1 .. k : l = k \/ l \in 1 .. (k - 1)
      /\ \A l \in 1 .. (k - 1) : l \in 1 .. k
      /\ k \in 1 .. k
  OBVIOUS
<1>2. CASE phdrs[k].p_type # ELF!PT_LOAD
  <2>1. Loads(phdrs, k) = Loads(phdrs, k - 1)
    BY <1>1, <1>2 DEF Loads
  <2>2. y = x
    BY <1>2
  <2> QED
    BY <2>1, <2>2, Zenon DEF ViewsNoted
<1>3. CASE phdrs[k].p_type = ELF!PT_LOAD
  <2>1. Loads(phdrs, k) = Loads(phdrs, k - 1) \cup {k}
    BY <1>1, <1>3 DEF Loads
  <2>2. PICK phdr \in ELF!ProgramHeader : phdr = phdrs[k]
    OBVIOUS
  <2>3. LoadsWell(phdr, memory)
    BY <2>1, <2>2
  <2>4. y = ELF!elf_process_phdr_pt_load(x, phdr)
    BY <1>3, <2>2
  <2>5. PICK vaddr \in Nat, offset \in Nat, filesz \in Nat :
          vaddr = phdr.p_vaddr /\ offset = phdr.p_offset /\ filesz = phdr.p_filesz
    BY DEF ELF!ProgramHeader
  <2>6. PICK end \in Nat, physical \in Nat, last \in Nat :
          /\ end = vaddr + filesz /\ physical = memory + offset
          /\ last = memory + offset + filesz
    OBVIOUS
  <2>7. PICK base \in Nat, pbase \in Nat, top \in Nat, ptop \in Nat :
          /\ base = x.virtual_base /\ pbase = x.physical_base
          /\ top = x.virtual_end /\ ptop = x.physical_end
    BY DEF ElfFile
  <2>8. /\ y.virtual_base = IF base >= vaddr \/ base = 0 THEN vaddr ELSE base
        /\ y.physical_base = IF base >= vaddr \/ base = 0
                               THEN physical ELSE pbase
        /\ y.virtual_end = IF top <= end \/ top = 0 THEN end ELSE top
        /\ y.physical_end = IF top <= end \/ top = 0 THEN last ELSE ptop
    <3>1. Noted(y, x, phdr, memory)
      BY <2>3, <2>4, SegmentNoted
    <3> QED
      BY <2>5, <2>6, <2>7, <3>1 DEF Noted
  <2>9. \A l \in Loads(phdrs, k) : l = k \/ l \in Loads(phdrs, k - 1)
    BY <2>1
  <2>10. ASSUME NEW l \in Loads(phdrs, k)
         PROVE  \E a \in Nat, z \in Nat :
                  /\ a = phdrs[l].p_vaddr
                  /\ z = phdrs[l].p_vaddr + phdrs[l].p_filesz
    <3>1. PICK other \in ELF!ProgramHeader : other = phdrs[l]
      <4>1. l \in 1 .. Len(phdrs)
        BY DEF Loads
      <4> QED
        BY <4>1
    <3>2. PICK a \in Nat, size \in Nat, z \in Nat :
            a = other.p_vaddr /\ size = other.p_filesz /\ z = a + size
      BY DEF ELF!ProgramHeader
    <3>3. a = phdrs[l].p_vaddr /\ z = phdrs[l].p_vaddr + phdrs[l].p_filesz
      BY <3>1, <3>2, Zenon
    <3> QED
      BY <3>3, Zenon
  <2>11. /\ vaddr = phdrs[k].p_vaddr /\ end = phdrs[k].p_vaddr + phdrs[k].p_filesz
         /\ physical = memory + phdrs[k].p_offset
         /\ last = memory + phdrs[k].p_offset + phdrs[k].p_filesz
    BY <2>2, <2>5, <2>6
  <2>12. CASE Loads(phdrs, k - 1) = {}
    <3>1. base = 0 /\ top = 0 /\ Loads(phdrs, k) = {k}
      BY <2>1, <2>7, <2>12 DEF ViewsNoted
    <3>2. /\ y.virtual_base = vaddr /\ y.physical_base = physical
          /\ y.virtual_end = end /\ y.physical_end = last
      BY <2>8, <3>1
    <3>3. vaddr <= vaddr /\ end <= end
      OBVIOUS
    <3>4. /\ y.virtual_base <= phdrs[k].p_vaddr
          /\ phdrs[k].p_vaddr + phdrs[k].p_filesz <= y.virtual_end
      BY <2>11, <3>2, <3>3, Zenon
    <3> QED
      BY <2>11, <3>1, <3>2, <3>4, Zenon DEF ViewsNoted
  <2>13. CASE Loads(phdrs, k - 1) # {}
    <3>1. PICK i \in Loads(phdrs, k - 1) :
            /\ base = phdrs[i].p_vaddr
            /\ pbase = memory + phdrs[i].p_offset
      BY <2>7, <2>13 DEF ViewsNoted
    <3>2. PICK j \in Loads(phdrs, k - 1) :
            /\ top = phdrs[j].p_vaddr + phdrs[j].p_filesz
            /\ ptop = memory + phdrs[j].p_offset + phdrs[j].p_filesz
      BY <2>7, <2>13 DEF ViewsNoted
    <3>3. \A l \in Loads(phdrs, k - 1) :
            /\ base <= phdrs[l].p_vaddr
            /\ phdrs[l].p_vaddr + phdrs[l].p_filesz <= top
      BY <2>7, <2>13 DEF ViewsNoted
    <3>4. \E l \in Loads(phdrs, k) :
            /\ y.virtual_base = phdrs[l].p_vaddr
            /\ y.physical_base = memory + phdrs[l].p_offset
      <4>1. CASE base >= vaddr \/ base = 0
        <5>1. y.virtual_base = vaddr /\ y.physical_base = physical
          BY <2>8, <4>1
        <5> QED
          BY <2>1, <2>11, <5>1, Zenon
      <4>2. CASE ~(base >= vaddr \/ base = 0)
        <5>1. y.virtual_base = base /\ y.physical_base = pbase
          BY <2>8, <4>2
        <5> QED
          BY <2>1, <3>1, <5>1, Zenon
      <4> QED
        BY <4>1, <4>2
    <3>5. \E l \in Loads(phdrs, k) :
            /\ y.virtual_end = phdrs[l].p_vaddr + phdrs[l].p_filesz
            /\ y.physical_end = memory + phdrs[l].p_offset + phdrs[l].p_filesz
      <4>1. CASE top <= end \/ top = 0
        <5>1. y.virtual_end = end /\ y.physical_end = last
          BY <2>8, <4>1
        <5> QED
          BY <2>1, <2>11, <5>1, Zenon
      <4>2. CASE ~(top <= end \/ top = 0)
        <5>1. y.virtual_end = top /\ y.physical_end = ptop
          BY <2>8, <4>2
        <5> QED
          BY <2>1, <3>2, <5>1, Zenon
      <4> QED
        BY <4>1, <4>2
    <3>6. ASSUME NEW l \in Loads(phdrs, k)
          PROVE  /\ y.virtual_base <= phdrs[l].p_vaddr
                 /\ phdrs[l].p_vaddr + phdrs[l].p_filesz <= y.virtual_end
      <4>1. PICK a \in Nat, z \in Nat :
              /\ a = phdrs[l].p_vaddr
              /\ z = phdrs[l].p_vaddr + phdrs[l].p_filesz
        BY <2>10
      <4>2. l = k => a = vaddr /\ z = end
        BY <2>11, <4>1, Zenon
      <4>3. l # k => base <= a /\ z <= top
        BY <2>9, <3>3, <4>1, Zenon
      <4>4. y.virtual_base <= a /\ z <= y.virtual_end
        <5>1. PICK b \in Nat, t \in Nat : b = y.virtual_base /\ t = y.virtual_end
          BY <2>8
        <5>2. b <= vaddr /\ (b <= base \/ base = 0)
          BY <2>8, <5>1
        <5>3. end <= t /\ top <= t
          BY <2>8, <5>1
        <5>4. base # 0
          <6>1. i \in Loads(phdrs, k)
            BY <2>1
          <6> QED
            BY <3>1, <6>1 DEF LoadsWell
        <5>5. b <= a /\ z <= t
          BY <4>2, <4>3, <5>2, <5>3, <5>4
        <5> QED
          BY <5>1, <5>5, Zenon
      <4> QED
        BY <4>1, <4>4, Zenon
    <3>7. Loads(phdrs, k) # {}
      BY <2>1
    <3> QED
      BY <3>4, <3>5, <3>6, <3>7, Zenon DEF ViewsNoted
  <2> QED
    BY <2>12, <2>13
<1> QED
  BY <1>2, <1>3

(***************************************************************************)
(* elf_load: the addresses that the loader notes are the start and the end *)
(* of segments, in both views, and all segments lie between them.          *)
(***************************************************************************)
LEMMA ElfViews ==
  ASSUME NEW at \in Int, NEW memory \in Nat,
         NEW phdrs \in Seq(ELF!ProgramHeader),
         \A k \in Loads(phdrs, Len(phdrs)) : LoadsWell(phdrs[k], memory)
  PROVE  ViewsNoted(ELF!elf_load(at, memory, phdrs), memory, phdrs, Len(phdrs))
<1>1. PICK t : ElfTurns(t, at, memory, phdrs)
  BY ElfLoadRuns
<1> DEFINE n == Len(phdrs)
           T == {k \in 0 .. n : ViewsNoted(t[k], memory, phdrs, k)}
<1>2. n \in Nat /\ 0 \in 0 .. n
  OBVIOUS
<1>3. 0 \in T
  <2>1. Loads(phdrs, 0) = {}
    BY DEF Loads
  <2>2. t[0].virtual_base = 0 /\ t[0].virtual_end = 0
    BY <1>1 DEF ElfTurns
  <2> QED
    BY <1>2, <2>1, <2>2 DEF ViewsNoted
<1>4. ASSUME NEW k \in 1 .. n, k - 1 \in T
      PROVE  k \in T
  <2>1. PICK x, y : x = t[k - 1] /\ y = t[k]
    OBVIOUS
  <2>2. /\ x \in ElfFile(at, memory) /\ ViewsNoted(x, memory, phdrs, k - 1)
        /\ y = IF phdrs[k].p_type = ELF!PT_LOAD
                 THEN ELF!elf_process_phdr_pt_load(x, phdrs[k]) ELSE x
    BY <1>1, <1>4, <2>1 DEF ElfTurns
  <2>3. \A l \in Loads(phdrs, k) : LoadsWell(phdrs[l], memory)
    BY DEF Loads
  <2>4. ViewsNoted(y, memory, phdrs, k)
    BY <2>2, <2>3, ViewsStep
  <2>5. k \in 0 .. n
    OBVIOUS
  <2> QED
    BY <2>1, <2>4, <2>5
<1>5. n \in T
  <2>1. \A k \in 1 .. n : k - 1 \in T => k \in T
    BY <1>4
  <2> HIDE DEF T, n
  <2>2. \A k \in 0 .. n : k \in T
    BY <1>2, <1>3, <2>1, TurnByTurn
  <2>3. n \in 0 .. n
    BY <1>2
  <2> QED
    BY <2>2, <2>3
<1> QED
  BY <1>1, <1>5 DEF ElfTurns

(***************************************************************************)
(* What a program sees of its file: the bytes of its parts, and for an ELF *)
(* file both views of the addresses that the loader noted.                 *)
(***************************************************************************)
InPlace(dir, prog, file) ==
  IF prog.at = 0
    THEN \A j \in 0 .. (file.size - 1) :
           Sees(dir, ProgramAddress + j, prog.elf_memory + j, TRUE)
    ELSE /\ \A k \in DOMAIN file.phdrs :
              LET phdr == file.phdrs[k] IN
              \A j \in 0 .. (phdr.p_filesz - 1) :
                Sees(dir, phdr.p_vaddr + j,
                     prog.elf_memory + phdr.p_offset + j, phdr.writable)
         /\ PG!paging_get_physical_address(dir, prog.virtual_base)
              = prog.physical_base
         /\ PG!paging_get_physical_address(dir, prog.virtual_end - 1)
              = prog.physical_end - 1
         /\ \A k \in DOMAIN file.phdrs :
              file.phdrs[k].p_type = ELF!PT_LOAD =>
                /\ prog.virtual_base <= file.phdrs[k].p_vaddr
                /\ file.phdrs[k].p_vaddr + file.phdrs[k].p_filesz
                     <= prog.virtual_end

\* A segment whose bytes are seen below the heap can be noted.
LEMMA ShownLoadsWell ==
  ASSUME SizesTaken, FilesFit, NEW file \in Images, NEW b \in H!Blocks,
         NEW memory, memory = H!heap_block_to_address(b),
         NEW phdr \in ELF!ProgramHeader, LinkedSegment(file, phdr, memory),
         phdr.p_type = ELF!PT_LOAD,
         \A j \in 0 .. (phdr.p_filesz - 1) : phdr.p_vaddr + j < StartAddress
  PROVE  memory \in Nat /\ LoadsWell(phdr, memory)
<1>1. /\ BlockSize \in Nat \ {0} /\ Word \in Nat \ {0} /\ Base \in Nat \ {0}
      /\ PG!TotalPages \in Nat \ {0} /\ Word = BlockSize * PG!TotalPages
      /\ StartAddress = BlockSize * Base /\ TotalEntries \in Nat \ {0}
      /\ Base + TotalEntries <= PG!TotalPages
  BY Layout
<1>2. PICK vaddr \in Nat, offset \in Nat, filesz \in Nat :
        vaddr = phdr.p_vaddr /\ offset = phdr.p_offset /\ filesz = phdr.p_filesz
  BY DEF ELF!ProgramHeader
<1>3. PICK n \in Nat \ {0}, q \in Nat, size \in Nat \ {0} :
        /\ size = file.size /\ memory = BlockSize * q
        /\ q + n < PG!TotalPages /\ memory + size <= BlockSize * (q + n)
  BY FileEnds
<1>4. PICK mem \in Nat : mem = memory
  BY <1>1, <1>3
<1>5. vaddr # 0 /\ filesz # 0 /\ offset + filesz <= size
  BY <1>2, <1>3 DEF LinkedSegment
<1>6. mem + offset + filesz < Word
  <2>1. PICK last \in Int : last = q + n
    BY <1>3
  <2>2. BlockSize * last + BlockSize <= BlockSize * PG!TotalPages
    BY <1>1, <1>3, <2>1, ProductGrows
  <2>3. PICK end \in Int : end = BlockSize * last
    BY <1>1
  <2>4. mem + size <= end /\ end < Word
    BY <1>1, <1>3, <1>4, <2>1, <2>2, <2>3
  <2> QED
    BY <1>1, <1>5, <2>3, <2>4
<1>7. vaddr + filesz < Word
  <2>1. PICK j \in 0 .. (filesz - 1) : j = filesz - 1
    BY <1>5
  <2>2. vaddr + j < StartAddress
    BY <1>2, <2>1
  <2>3. BlockSize * Base + BlockSize <= BlockSize * PG!TotalPages
    BY <1>1, ProductGrows
  <2>4. PICK start \in Int : start = BlockSize * Base
    BY <1>1
  <2>5. vaddr + j < start /\ start < Word
    BY <1>1, <2>2, <2>3, <2>4
  <2> QED
    BY <1>1, <2>1, <2>4, <2>5
<1> QED
  BY <1>2, <1>4, <1>5, <1>6, <1>7 DEF LoadsWell

(***************************************************************************)
(* With what elf_load noted, the views agree: its addresses are those of   *)
(* bytes that are seen.                                                    *)
(***************************************************************************)
LEMMA ViewsShown ==
  ASSUME SizesTaken, FilesFit, NEW file \in Images, NEW b \in H!Blocks,
         NEW prog, prog.at \in Int, prog.at # 0,
         prog.elf_memory = H!heap_block_to_address(b),
         prog = ELF!elf_load(prog.at, prog.elf_memory, file.phdrs),
         NEW dir, FileShown(dir, prog, file)
  PROVE  InPlace(dir, prog, file)
<1>1. PICK memory, phdrs, n : /\ memory = prog.elf_memory /\ phdrs = file.phdrs
                              /\ n = Len(phdrs)
  OBVIOUS
<1>2. /\ phdrs \in Seq(ELF!ProgramHeader) /\ n \in Nat /\ DOMAIN phdrs = 1 .. n
      /\ \A k \in 1 .. n : phdrs[k] \in ELF!ProgramHeader
  <2>1. file.phdrs \in Seq(ELF!ProgramHeader)
    BY UserMemoryAssumption
  <2> QED
    BY <1>1, <2>1
<1>3. /\ LinkedElf(file, memory)
      /\ \A k \in 1 .. n : \A j \in 0 .. (phdrs[k].p_filesz - 1) :
           /\ Sees(dir, phdrs[k].p_vaddr + j, memory + phdrs[k].p_offset + j,
                   phdrs[k].writable)
           /\ phdrs[k].p_vaddr + j < StartAddress
  BY <1>1, <1>2 DEF FileShown
<1>4. \A k \in 1 .. n : LinkedSegment(file, phdrs[k], memory)
  BY <1>1, <1>2, <1>3 DEF LinkedElf
<1>5. Loads(phdrs, n) # {}
  BY <1>1, <1>2, <1>3 DEF LinkedElf, Loads
<1>6. ASSUME NEW k \in Loads(phdrs, n)
      PROVE  /\ memory \in Nat /\ LoadsWell(phdrs[k], memory)
             /\ phdrs[k] \in ELF!ProgramHeader /\ k \in 1 .. n
  <2>1. k \in 1 .. n /\ phdrs[k].p_type = ELF!PT_LOAD
    BY DEF Loads
  <2>2. PICK phdr \in ELF!ProgramHeader : phdr = phdrs[k]
    BY <1>2, <2>1
  <2>3. /\ LinkedSegment(file, phdr, memory) /\ phdr.p_type = ELF!PT_LOAD
        /\ \A j \in 0 .. (phdr.p_filesz - 1) : phdr.p_vaddr + j < StartAddress
    BY <1>3, <1>4, <2>1, <2>2
  <2>4. memory \in Nat /\ LoadsWell(phdr, memory)
    BY <1>1, <2>3, ShownLoadsWell
  <2> QED
    BY <2>1, <2>2, <2>4
<1>7. ViewsNoted(prog, memory, phdrs, n)
  <2>1. PICK at \in Int, mem \in Nat : at = prog.at /\ mem = memory
    BY <1>5, <1>6
  <2>2. \A k \in Loads(phdrs, Len(phdrs)) : LoadsWell(phdrs[k], mem)
    BY <1>1, <1>6, <2>1
  <2>3. ViewsNoted(ELF!elf_load(at, mem, phdrs), mem, phdrs, Len(phdrs))
    BY <1>2, <2>2, ElfViews
  <2>4. prog = ELF!elf_load(at, mem, phdrs)
    BY <1>1, <2>1
  <2> QED
    BY <1>1, <2>1, <2>3, <2>4
<1>8. PG!paging_get_physical_address(dir, prog.virtual_base) = prog.physical_base
  <2>1. PICK k \in Loads(phdrs, n) :
          /\ prog.virtual_base = phdrs[k].p_vaddr
          /\ prog.physical_base = memory + phdrs[k].p_offset
    BY <1>5, <1>7 DEF ViewsNoted
  <2>2. PICK vaddr \in Nat, offset \in Nat, filesz \in Nat, mem \in Nat :
          /\ vaddr = phdrs[k].p_vaddr /\ offset = phdrs[k].p_offset
          /\ filesz = phdrs[k].p_filesz /\ filesz # 0 /\ mem = memory
    BY <1>6 DEF ELF!ProgramHeader, LoadsWell
  <2>3. PICK j \in 0 .. (filesz - 1) : j = 0
    BY <2>2
  <2>4. PG!paging_get_physical_address(dir, vaddr + j) = mem + offset + j
    BY <1>3, <1>6, <2>2 DEF Sees
  <2>5. vaddr + j = vaddr /\ mem + offset + j = mem + offset
    BY <2>3
  <2>6. PG!paging_get_physical_address(dir, vaddr) = mem + offset
    BY <2>4, <2>5, Zenon
  <2> QED
    BY <2>1, <2>2, <2>6, Zenon
<1>9. PG!paging_get_physical_address(dir, prog.virtual_end - 1)
        = prog.physical_end - 1
  <2>1. PICK k \in Loads(phdrs, n) :
          /\ prog.virtual_end = phdrs[k].p_vaddr + phdrs[k].p_filesz
          /\ prog.physical_end
               = memory + phdrs[k].p_offset + phdrs[k].p_filesz
    BY <1>5, <1>7 DEF ViewsNoted
  <2>2. PICK vaddr \in Nat, offset \in Nat, filesz \in Nat, mem \in Nat :
          /\ vaddr = phdrs[k].p_vaddr /\ offset = phdrs[k].p_offset
          /\ filesz = phdrs[k].p_filesz /\ filesz # 0 /\ mem = memory
    BY <1>6 DEF ELF!ProgramHeader, LoadsWell
  <2>3. PICK j \in 0 .. (filesz - 1) : j = filesz - 1
    <3>1. filesz # 0
      BY <2>2
    <3> QED
      BY <3>1
  <2>4. PG!paging_get_physical_address(dir, vaddr + j) = mem + offset + j
    BY <1>3, <1>6, <2>2 DEF Sees
  <2>5. PICK end \in Nat, last \in Nat :
          end = vaddr + filesz /\ last = mem + offset + filesz
    OBVIOUS
  <2>6. vaddr + j = end - 1 /\ mem + offset + j = last - 1
    BY <2>3, <2>5
  <2>7. PG!paging_get_physical_address(dir, end - 1) = last - 1
    BY <2>4, <2>6, Zenon
  <2>8. prog.virtual_end = end /\ prog.physical_end = last
    BY <2>1, <2>2, <2>5, Zenon
  <2> QED
    BY <2>7, <2>8, Zenon
<1>10. ASSUME NEW k \in 1 .. n, phdrs[k].p_type = ELF!PT_LOAD
       PROVE  /\ prog.virtual_base <= phdrs[k].p_vaddr
              /\ phdrs[k].p_vaddr + phdrs[k].p_filesz <= prog.virtual_end
  <2>1. k \in Loads(phdrs, n)
    BY <1>10 DEF Loads
  <2> QED
    BY <1>5, <1>7, <2>1 DEF ViewsNoted
<1>11. \A k \in 1 .. n : \A j \in 0 .. (phdrs[k].p_filesz - 1) :
         Sees(dir, phdrs[k].p_vaddr + j, memory + phdrs[k].p_offset + j,
              phdrs[k].writable)
  BY <1>3
<1> QED
  BY <1>1, <1>2, <1>8, <1>9, <1>10, <1>11 DEF InPlace

-----------------------------------------------------------------------------
\* What process_load_data made of a file.
LoadedAs(prog, file) ==
  IF ELF!elf_validate_loaded(file.header)
    THEN prog.at # 0 /\ prog = ELF!elf_load(prog.at, prog.elf_memory, file.phdrs)
    ELSE prog.at = 0

\* A directory shows programs what process_map_memory made it show.
Loaded(dir, prog, stk, file) ==
  /\ FileMappable(prog, file)
  /\ LoadedAs(prog, file)
  /\ SameForPrograms(dir, process_map_memory(prog, stk, file))

LEMMA LoadedInPlace ==
  ASSUME SizesTaken, FilesFit, FilesLinked, NEW file \in Images,
         NEW prog, prog.at \in Int, NEW stk, NEW dir,
         Loaded(dir, prog, stk, file),
         NEW b \in H!Blocks, prog.elf_memory = H!heap_block_to_address(b),
         NEW d \in H!Blocks, stk = H!heap_block_to_address(d)
  PROVE  InPlace(dir, prog, file)
<1>1. /\ FileMappable(prog, file)
      /\ SameForPrograms(dir, process_map_memory(prog, stk, file))
      /\ prog.at = 0 <=> ~ELF!elf_validate_loaded(file.header)
      /\ prog.at # 0 => prog = ELF!elf_load(prog.at, prog.elf_memory, file.phdrs)
  BY DEF Loaded, LoadedAs
<1>2. FileShown(dir, prog, file)
  BY <1>1, MemoryShown
<1>3. CASE prog.at = 0
  BY <1>2, <1>3 DEF FileShown, InPlace
<1>4. CASE prog.at # 0
  BY <1>1, <1>2, <1>4, ViewsShown
<1> QED
  BY <1>3, <1>4

-----------------------------------------------------------------------------
(***************************************************************************)
(* No system call changes a page below the heap.                           *)
(***************************************************************************)
LEMMA OwnPagesElsewhere ==
  ASSUME NEW dir \in [PG!Pages -> PG!PageEntry], NEW flags \in PG!Flags,
         NEW b \in H!Blocks, NEW size \in 0 .. (Word - 1),
         NEW ptr, ptr = H!heap_block_to_address(b),
         H!TotalBlocks(size) # 0,
         PG!Mappable(ptr, ptr, End(ptr, size)),
         NEW e, SameForPrograms(dir, e)
  PROVE  SameForPrograms(MapAllocation(dir, ptr, size, flags), e)
<1>1. MapAllocation(dir, ptr, size, flags) =
        [v \in PG!Pages |->
           IF v \in RunPages(b, H!TotalBlocks(size))
             THEN [frame |-> v, flags |-> flags] ELSE dir[v]]
  BY MapOwnPages
<1>2. ASSUME NEW v \in ProgramPages
      PROVE  v \in PG!Pages /\ v \notin RunPages(b, H!TotalBlocks(size))
  <2>1. v \in Int /\ v < Base /\ v \in PG!Pages
    BY ProgramPage
  <2>2. b \in Nat /\ Base \in Nat
    BY BlockFacts, Layout
  <2> QED
    BY <2>1, <2>2 DEF RunPages
<1>3. ASSUME NEW v \in ProgramPages
      PROVE  MapAllocation(dir, ptr, size, flags)[v] = e[v]
  BY <1>1, <1>2 DEF SameForPrograms
<1> QED
  BY <1>3 DEF SameForPrograms

\* The memories with a directory that is like e where programs are.
ProgramMemories(e) ==
  {m \in [heap        : [H!Blocks -> H!Entry],
          allocations : [Slots -> [ptr : Addresses, size : 0 .. (Word - 1)]],
          directory   : [PG!Pages -> PG!PageEntry],
          ptr         : Addresses] : SameForPrograms(m.directory, e)}

LEMMA MallocSame ==
  ASSUME NEW e, NEW m \in ProgramMemories(e), NEW size \in 0 .. (Word - 1),
         H!TotalBlocks(size) # 0
  PROVE  process_malloc(m, size) \in ProgramMemories(e)
<1> DEFINE free == {i \in Slots : m.allocations[i].ptr = 0}
           M == [heap        : [H!Blocks -> H!Entry],
                 allocations : [Slots -> [ptr : Addresses,
                                          size : 0 .. (Word - 1)]],
                 directory   : [PG!Pages -> PG!PageEntry],
                 ptr         : Addresses]
<1>1. PICK got, new : /\ got = kzalloc(m.heap, size)
                      /\ new = process_malloc(m, size)
  OBVIOUS
<1>2. m \in M /\ SameForPrograms(m.directory, e)
  BY DEF ProgramMemories
<1>3. got.ptr \in Addresses /\ got.heap \in [H!Blocks -> H!Entry]
  BY <1>1, <1>2, KzallocAddress
<1>4. CASE got.ptr = 0
  <2>1. new = [m EXCEPT !.ptr = 0]
    BY <1>1, <1>4 DEF process_malloc
  <2>2. new \in M /\ new.directory = m.directory
    BY <1>2, <2>1, SlotsNat
  <2> QED
    BY <1>1, <1>2, <2>2 DEF ProgramMemories
<1>5. CASE got.ptr # 0 /\ (free = {} \/ ~PG!Mappable(got.ptr, got.ptr, End(got.ptr, size)))
  <2>1. new = [m EXCEPT !.ptr = 0, !.heap = kfree(got.heap, got.ptr)]
    BY <1>1, <1>5 DEF process_malloc
  <2>2. Holds(m.heap, {})
    BY <1>2 DEF Holds
  <2>3. Holds(kfree(got.heap, got.ptr), {})
    BY <1>1, <1>5, <2>2, GotAndGiven
  <2>4. kfree(got.heap, got.ptr) \in [H!Blocks -> H!Entry]
    BY <2>3 DEF Holds
  <2>5. new \in M /\ new.directory = m.directory
    BY <1>2, <2>1, <2>4, SlotsNat
  <2> QED
    BY <1>1, <1>2, <2>5 DEF ProgramMemories
<1>6. CASE /\ got.ptr # 0 /\ free # {}
           /\ PG!Mappable(got.ptr, got.ptr, End(got.ptr, size))
  <2>1. PICK i \in Slots : i = Lowest(free)
    <3>1. free \subseteq Nat
      BY SlotsNat
    <3> QED
      BY <1>6, <3>1, LowestIn
  <2>2. PICK dir : dir = MapAllocation(m.directory, got.ptr, size, "write")
    OBVIOUS
  <2>3. new = [heap |-> got.heap,
               allocations |-> [m.allocations EXCEPT ![i] =
                                  [ptr |-> got.ptr, size |-> size]],
               directory |-> dir, ptr |-> got.ptr]
    BY <1>1, <1>6, <2>1, <2>2 DEF process_malloc
  <2>4. PICK b \in H!Blocks : got.ptr = H!heap_block_to_address(b)
    BY <1>3, <1>6 DEF Addresses
  <2>5. "write" \in PG!Flags
    BY DEF PG!Flags
  <2>6. SameForPrograms(dir, e)
    BY <1>2, <1>6, <2>2, <2>4, <2>5, OwnPagesElsewhere
  <2>7. dir \in [PG!Pages -> PG!PageEntry]
    <3>1. dir = [v \in PG!Pages |->
                   IF v \in RunPages(b, H!TotalBlocks(size))
                     THEN [frame |-> v, flags |-> "write"]
                     ELSE m.directory[v]]
      BY <1>2, <1>6, <2>2, <2>4, <2>5, MapOwnPages
    <3>2. \A v \in PG!Pages : dir[v] \in PG!PageEntry
      BY <1>2, <2>5, <3>1 DEF PG!PageEntry
    <3> QED
      BY <3>1, <3>2
  <2>8. new \in M
    BY <1>2, <1>3, <2>3, <2>7
  <2> QED
    BY <1>1, <2>3, <2>6, <2>8 DEF ProgramMemories
<1> QED
  BY <1>4, <1>5, <1>6

LEMMA InjectSame ==
  ASSUME NEW e, NEW m \in ProgramMemories(e), NEW argc \in Nat
  PROVE  process_inject_arguments(m, argc) \in ProgramMemories(e)
<1>1. BlockSize \in 0 .. (Word - 1) /\ H!TotalBlocks(BlockSize) # 0
  BY OneBlock
<1>2. \A x \in ProgramMemories(e) :
        process_malloc(x, BlockSize) \in ProgramMemories(e)
  BY <1>1, MallocSame
<1> QED
  BY <1>2, InjectIn

LEMMA FreeSame ==
  ASSUME NEW p, NEW m, NEW R, NEW F, MemoryOK(p, m, R, F),
         NEW ptr \in Addresses, NEW e, SameForPrograms(m.directory, e)
  PROVE  SameForPrograms(process_free(m, ptr).directory, e)
<1>1. CASE ptr = 0 \/ \A j \in Slots : m.allocations[j].ptr # ptr
  <2>1. process_free(m, ptr).directory = m.directory
    BY <1>1, FreeNothing
  <2> QED
    BY <2>1
<1>2. CASE ptr # 0 /\ \E j \in Slots : m.allocations[j].ptr = ptr
  <2>1. PICK j \in Slots : m.allocations[j].ptr = ptr
    BY <1>2
  <2>2. /\ AllocOK(m.allocations) /\ m.directory \in [PG!Pages -> PG!PageEntry]
    BY DEF MemoryOK
  <2>3. PICK size \in 0 .. (Word - 1) : size = m.allocations[j].size
    BY <2>2 DEF AllocOK
  <2>4. process_free(m, ptr).directory
          = MapAllocation(m.directory, ptr, size, "absent")
    BY <1>2, <2>1, <2>3, FreeFound
  <2>5. H!TotalBlocks(size) # 0 /\ PG!Mappable(ptr, ptr, End(ptr, size))
    BY <1>2, <2>1, <2>2, <2>3 DEF AllocOK
  <2>6. PICK b \in H!Blocks : ptr = H!heap_block_to_address(b)
    BY <1>2 DEF Addresses
  <2>7. "absent" \in PG!Flags
    BY DEF PG!Flags
  <2> QED
    BY <2>2, <2>4, <2>5, <2>6, <2>7, OwnPagesElsewhere
<1> QED
  BY <1>1, <1>2

LEMMA TextSame ==
  ASSUME NEW p, NEW m, NEW R, NEW F, MemoryOK(p, m, R, F)
  PROVE  copy_string_from_task(m, BlockSize - 1).directory = m.directory
<1> DEFINE max    == BlockSize - 1
           tmp    == kzalloc(m.heap, max)
           old    == PG!paging_get(m.directory, tmp.ptr)
           mapped == PG!paging_map(m.directory, tmp.ptr, tmp.ptr, "write")
<1>1. /\ m.heap \in [H!Blocks -> H!Entry]
      /\ m.directory \in [PG!Pages -> PG!PageEntry]
      /\ max \in 0 .. (Word - 1)
  BY OneBlock DEF MemoryOK
<1>2. CASE max >= BlockSize \/ tmp.ptr = 0
  BY <1>2 DEF copy_string_from_task
<1>3. CASE ~ (max >= BlockSize \/ tmp.ptr = 0)
  <2>1. copy_string_from_task(m, max)
          = Memory(kfree(tmp.heap, tmp.ptr), m.allocations,
                   PG!paging_set(mapped, tmp.ptr, old))
    BY <1>3, Zenon DEF copy_string_from_task
  <2>2. tmp.ptr \in Addresses
    <3> HIDE DEF max
    <3> QED
      BY <1>1, KzallocAddress
  <2>3. PICK ptr : ptr = tmp.ptr
    OBVIOUS
  <2>4. PICK b \in H!Blocks : ptr = H!heap_block_to_address(b)
    BY <1>3, <2>2, <2>3 DEF Addresses
  <2>5. ptr % BlockSize = 0 /\ ptr \div BlockSize \in PG!Pages
    BY <2>4, BlockAddress DEF PageOf
  <2>6. PG!paging_set(mapped, ptr, old) = m.directory
    <3> HIDE DEF tmp
    <3> QED
      BY <1>1, <2>3, <2>5
      DEF PG!paging_set, PG!paging_map, PG!paging_get, PG!paging_is_aligned,
          PG!paging_get_indexes
  <2> HIDE DEF mapped, old, tmp, max
  <2>7. copy_string_from_task(m, max).directory = m.directory
    BY <2>1, <2>3, <2>6 DEF Memory, Computed
  <2> QED
    BY <2>7 DEF max
<1> QED
  BY <1>2, <1>3

-----------------------------------------------------------------------------
\* Every program is where loading put it.
FilesInv ==
  \A p \in loaded : Loaded(directory[p], program[p], stack[p], image[p])

\* The program of a process that was just loaded.
LEMMA LoadedProgram ==
  ASSUME NEW h \in [H!Blocks -> H!Entry], NEW file \in Images,
         NEW x, x = process_load_data(h, file), x.sound, x.ok
  PROVE  /\ LoadedAs(x.program, file)
         /\ x.heap \in [H!Blocks -> H!Entry]
<1>1. PICK one \in 0 .. (Word - 1), size \in 0 .. (Word - 1) :
        one = BlockSize - 1 /\ size = file.size
  <2>1. file.size \in 0 .. (Word - 1)
    <3>1. Word \in Nat /\ file.size \in 1 .. (Word - 1)
      BY UserMemoryAssumption
    <3> QED
      BY <3>1
  <2> QED
    BY <2>1, OneBlock
<1>2. PICK e, f, b : e = kzalloc(h, one) /\ f = kzalloc(e.heap, size)
                     /\ b = kzalloc(f.heap, size)
  OBVIOUS
<1>3. e.ptr \in Addresses /\ e.heap \in [H!Blocks -> H!Entry]
  BY <1>2, KzallocAddress
<1>4. f.ptr \in Addresses /\ f.heap \in [H!Blocks -> H!Entry]
  BY <1>2, <1>3, KzallocAddress
<1>5. b.ptr \in Addresses /\ b.heap \in [H!Blocks -> H!Entry]
  BY <1>2, <1>4, KzallocAddress
<1>6. CASE ELF!elf_validate_loaded(file.header)
  <2>1. /\ x.heap = f.heap /\ e.ptr # 0
        /\ x.program = ELF!elf_load(e.ptr, f.ptr, file.phdrs)
    BY <1>1, <1>2, <1>6 DEF process_load_data
  <2>2. PICK at \in Int, memory \in Int : at = e.ptr /\ memory = f.ptr
    <3>1. \A a \in Addresses : a \in Int
      BY BlockAddress, Layout DEF Addresses
    <3> QED
      BY <1>3, <1>4, <3>1
  <2>3. ELF!elf_load(at, memory, file.phdrs) \in ElfFile(at, memory)
    <3>1. file.phdrs \in Seq(ELF!ProgramHeader)
      BY UserMemoryAssumption
    <3> QED
      BY <3>1, ElfLoads
  <2>4. x.program.at = e.ptr /\ x.program.elf_memory = f.ptr
    BY <2>1, <2>2, <2>3 DEF ElfFile
  <2> QED
    BY <1>4, <1>6, <2>1, <2>4 DEF LoadedAs
<1>7. CASE ~ELF!elf_validate_loaded(file.header)
  <2>1. /\ x.heap = b.heap
        /\ x.program = [NoProgram EXCEPT !.elf_memory = b.ptr]
    BY <1>1, <1>2, <1>7 DEF process_load_data
  <2>2. x.program.at = 0
    BY <2>1, NoProgramFields DEF ElfFile
  <2> QED
    BY <1>5, <1>7, <2>1, <2>2 DEF LoadedAs
<1> QED
  BY <1>6, <1>7

LEMMA LoadInPlace ==
  ASSUME SizesTaken, SegmentsInFile, UInv, FilesInv, NEW p \in Procs,
         NEW file \in Images, NEW argc \in {0, 1}, Load(p, file, argc)
  PROVE  FilesInv'
<1>0. PICK a, b, c, d, m0, m :
        /\ a = kzalloc(table, BlockSize)
        /\ b = process_load_data(a.heap, file)
        /\ c = kzalloc(b.heap, BlockSize) /\ d = kzalloc(c.heap, BlockSize)
        /\ m0 = Memory(d.heap, NoAllocations,
                       process_map_memory(b.program, c.ptr, file))
        /\ m = process_inject_arguments(m0, argc)
        /\ p \notin loaded /\ b.sound /\ b.ok
        /\ \A x \in {a, c, d} : x.ptr # 0
        /\ FileMappable(b.program, file)
        /\ Begins(p, file, a.ptr, b.program, c.ptr, d.ptr, m)
  BY DEF Load
<1>1. /\ a = kzalloc(table, BlockSize) /\ b = process_load_data(a.heap, file)
      /\ c = kzalloc(b.heap, BlockSize) /\ d = kzalloc(c.heap, BlockSize)
      /\ m0 = Memory(d.heap, NoAllocations,
                     process_map_memory(b.program, c.ptr, file))
      /\ m = process_inject_arguments(m0, argc)
      /\ p \notin loaded /\ b.sound /\ b.ok
      /\ \A x \in {a, c, d} : x.ptr # 0
      /\ FileMappable(b.program, file)
      /\ directory' = [directory EXCEPT ![p] = m.directory]
      /\ loaded' = loaded \cup {p}
      /\ image' = [image EXCEPT ![p] = file]
      /\ program' = [program EXCEPT ![p] = b.program]
      /\ stack' = [stack EXCEPT ![p] = c.ptr]
  BY <1>0 DEF Begins
<1>2. BlockSize \in 0 .. (Word - 1) /\ H!TotalBlocks(BlockSize) # 0
  BY OneBlock
<1>3. /\ TypeOK /\ table \in [H!Blocks -> H!Entry]
      /\ \A q \in loaded : q \in Procs /\ q # p
  BY <1>1 DEF UInv, TypeOK
<1>4. a.ptr \in Addresses /\ a.heap \in [H!Blocks -> H!Entry]
  BY <1>1, <1>2, <1>3, KzallocAddress
<1>5. LoadedAs(b.program, file) /\ b.heap \in [H!Blocks -> H!Entry]
  <2>1. PICK h \in [H!Blocks -> H!Entry] : h = a.heap
    BY <1>4
  <2>2. b = process_load_data(h, file) /\ b.sound /\ b.ok
    BY <1>1, <2>1
  <2> QED
    BY <2>2, LoadedProgram
<1>6. c.ptr \in Addresses /\ c.heap \in [H!Blocks -> H!Entry]
  BY <1>1, <1>2, <1>5, KzallocAddress
<1>7. d.heap \in [H!Blocks -> H!Entry]
  BY <1>1, <1>2, <1>6, KzallocAddress
<1>8. PICK e : e = process_map_memory(b.program, c.ptr, file)
  OBVIOUS
<1>9. e \in [PG!Pages -> PG!PageEntry]
  <2>1. PICK h, R : h \in [H!Blocks -> H!Entry] /\ h = a.heap /\ R = {}
    BY <1>4
  <2>2. Holds(h, R) /\ b = process_load_data(h, file) /\ b.sound /\ b.ok
    BY <1>1, <2>1 DEF Holds
  <2>3. /\ b.program.at # 0 => ELF!elf_validate_loaded(file.header)
        /\ b.program.elf_memory \in Addresses
        /\ H!heap_address_to_block(b.program.elf_memory) \in H!Blocks
        /\ H!TotalBlocks(file.size) # 0
    BY <2>2, LoadDataHolds
  <2>4. H!heap_address_to_block(c.ptr) \in H!Blocks
    <3>1. PICK s \in H!Blocks : c.ptr = H!heap_block_to_address(s)
      BY <1>1, <1>6 DEF Addresses
    <3> QED
      BY <3>1, BlockAddress
  <2>5. PICK prog, stk, F :
          /\ stk \in Addresses
          /\ prog = b.program /\ stk = c.ptr /\ F = Fixed(p, prog, file, stk)
    BY <1>6
  <2>6. DirOK(process_map_memory(prog, stk, file), F, {})
    BY <2>3, <2>4, <2>5, MapMemory
  <2> QED
    BY <1>8, <2>5, <2>6 DEF DirOK
<1>10. m0 \in ProgramMemories(e)
  <2>1. m0 = [heap |-> d.heap, allocations |-> NoAllocations,
              directory |-> e, ptr |-> 0]
    BY <1>1, <1>8 DEF Memory, Computed
  <2>2. NoAllocations \in [Slots -> [ptr : Addresses, size : 0 .. (Word - 1)]]
    BY SlotsNat DEF NoAllocations, NoAllocation
  <2>3. SameForPrograms(e, e)
    BY DEF SameForPrograms
  <2> QED
    BY <1>7, <1>9, <2>1, <2>2, <2>3, SlotsNat DEF ProgramMemories
<1>11. SameForPrograms(m.directory, e)
  <2>1. PICK n \in Nat : n = argc
    OBVIOUS
  <2>2. process_inject_arguments(m0, n) \in ProgramMemories(e)
    BY <1>10, InjectSame
  <2> QED
    BY <1>1, <2>1, <2>2 DEF ProgramMemories
<1>12. Loaded(m.directory, b.program, c.ptr, file)
  BY <1>1, <1>5, <1>8, <1>11 DEF Loaded
<1>13. /\ directory'[p] = m.directory /\ program'[p] = b.program
       /\ stack'[p] = c.ptr /\ image'[p] = file
       /\ \A q \in Procs : q # p =>
            /\ directory'[q] = directory[q] /\ program'[q] = program[q]
            /\ stack'[q] = stack[q] /\ image'[q] = image[q]
  BY <1>1, <1>3 DEF TypeOK
<1>14. ASSUME NEW q \in loaded'
       PROVE  Loaded(directory'[q], program'[q], stack'[q], image'[q])
  <2>1. CASE q = p
    BY <1>12, <1>13, <2>1
  <2>2. CASE q \in loaded
    <3>1. Loaded(directory[q], program[q], stack[q], image[q])
      BY <2>2 DEF FilesInv
    <3>2. /\ directory'[q] = directory[q] /\ program'[q] = program[q]
          /\ stack'[q] = stack[q] /\ image'[q] = image[q]
      BY <1>3, <1>13, <2>2
    <3> QED
      BY <3>1, <3>2
  <2> QED
    BY <1>1, <2>1, <2>2
<1> QED
  BY <1>14 DEF FilesInv

\* A system call that leaves the pages for programs alone.
LEMMA CallInPlace ==
  ASSUME UInv, FilesInv, NEW p \in loaded, NEW m, Becomes(p, m),
         SameForPrograms(m.directory, directory[p])
  PROVE  FilesInv'
<1>1. /\ loaded' = loaded /\ image' = image /\ program' = program
      /\ stack' = stack
      /\ directory' = [directory EXCEPT ![p] = m.directory]
  BY DEF Becomes
<1>2. /\ p \in Procs /\ \A q \in loaded : q \in Procs
      /\ directory'[p] = m.directory
      /\ \A q \in Procs : q # p => directory'[q] = directory[q]
  BY <1>1 DEF UInv, TypeOK
<1>3. ASSUME NEW q \in loaded
      PROVE  Loaded(directory'[q], program[q], stack[q], image[q])
  <2>1. Loaded(directory[q], program[q], stack[q], image[q])
    BY DEF FilesInv
  <2>2. SameForPrograms(directory'[q], directory[q])
    <3>1. CASE q = p
      BY <1>2, <3>1
    <3>2. CASE q # p
      BY <1>2, <3>2 DEF SameForPrograms
    <3> QED
      BY <3>1, <3>2
  <2> QED
    BY <2>1, <2>2 DEF Loaded, SameForPrograms
<1> QED
  BY <1>1, <1>3 DEF FilesInv

LEMMA NextInPlace ==
  ASSUME SizesTaken, SegmentsInFile, UInv, FilesInv, [Next]_vars
  PROVE  FilesInv'
<1>1. ASSUME NEW p \in Procs, NEW file \in Images, NEW argc \in {0, 1},
             Load(p, file, argc)
      PROVE  FilesInv'
  BY <1>1, LoadInPlace
<1>2. ASSUME UNCHANGED <<loaded, image, program, stack, directory>>
      PROVE  FilesInv'
  BY <1>2 DEF FilesInv
<1>3. CASE LoadNotFound
  BY <1>2, <1>3 DEF LoadNotFound
<1>4. ASSUME NEW file \in Images, LoadFails(file)
      PROVE  FilesInv'
  <2>1. UNCHANGED <<loaded, image, program, stack, directory>>
    BY <1>4 DEF LoadFails
  <2> QED
    BY <1>2, <2>1
<1>5. ASSUME NEW p \in loaded
      PROVE  \E mem, R, F : /\ mem = MemoryOf(p) /\ R = Rest(p)
                            /\ F = FixedOf(p)
                            /\ MemoryOK(p, mem, R, F)
                            /\ mem.directory = directory[p]
                            /\ SameForPrograms(mem.directory, directory[p])
  <2>1. PICK mem, R, F : mem = MemoryOf(p) /\ R = Rest(p) /\ F = FixedOf(p)
    OBVIOUS
  <2>2. MemoryOK(p, mem, R, F)
    BY <2>1, MemoryAtCall
  <2>3. mem.directory = directory[p]
    BY <2>1 DEF MemoryOf
  <2>4. SameForPrograms(mem.directory, directory[p])
    BY <2>3 DEF SameForPrograms
  <2> QED
    BY <2>1, <2>2, <2>3, <2>4
<1>6. ASSUME NEW p \in Procs, NEW size \in Sizes, Malloc(p, size)
      PROVE  FilesInv'
  <2>1. /\ size \in 0 .. (Word - 1) /\ H!TotalBlocks(size) # 0
        /\ p \in loaded
    BY <1>6, UserMemoryAssumption DEF SizesTaken, Malloc
  <2>2. PICK mem, R, F : /\ mem = MemoryOf(p) /\ MemoryOK(p, mem, R, F)
                         /\ SameForPrograms(mem.directory, directory[p])
    BY <1>5, <2>1
  <2>3. mem \in ProgramMemories(directory[p])
    BY <2>2 DEF MemoryOK, ProgramMemories
  <2>4. process_malloc(mem, size) \in ProgramMemories(directory[p])
    BY <2>1, <2>3, MallocSame
  <2>5. PICK m : m = process_malloc(mem, size) /\ Becomes(p, m)
    BY <1>6, <2>2 DEF Malloc
  <2>6. SameForPrograms(m.directory, directory[p])
    BY <2>4, <2>5 DEF ProgramMemories
  <2> QED
    BY <2>1, <2>5, <2>6, CallInPlace
<1>7. ASSUME NEW p \in Procs, NEW ptr \in Addresses, Free(p, ptr)
      PROVE  FilesInv'
  <2>1. p \in loaded
    BY <1>7 DEF Free
  <2>2. PICK mem, R, F : /\ mem = MemoryOf(p) /\ MemoryOK(p, mem, R, F)
                         /\ SameForPrograms(mem.directory, directory[p])
    BY <1>5, <2>1
  <2>3. SameForPrograms(process_free(mem, ptr).directory, directory[p])
    BY <2>2, FreeSame
  <2>4. PICK m : m = process_free(mem, ptr) /\ Becomes(p, m)
    BY <1>7, <2>2 DEF Free
  <2> QED
    BY <2>1, <2>3, <2>4, CallInPlace
<1>8. ASSUME NEW p \in Procs, PassText(p)
      PROVE  FilesInv'
  <2>1. p \in loaded
    BY <1>8 DEF PassText
  <2>2. PICK mem, R, F : /\ mem = MemoryOf(p) /\ MemoryOK(p, mem, R, F)
                         /\ SameForPrograms(mem.directory, directory[p])
    BY <1>5, <2>1
  <2>3. PICK m : /\ m = copy_string_from_task(mem, BlockSize - 1)
                 /\ Becomes(p, m)
    BY <1>8, <2>2 DEF PassText
  <2>4. m.directory = mem.directory
    BY <2>2, <2>3, TextSame
  <2> QED
    BY <2>1, <2>2, <2>3, <2>4, CallInPlace
<1>9. ASSUME NEW p \in Procs, Exit(p) \/ PassTextFaults(p)
      PROVE  FilesInv'
  <2>1. /\ loaded' = loaded \ {p}
        /\ image' = [image EXCEPT ![p] = NoImage]
        /\ program' = [program EXCEPT ![p] = NoProgram]
        /\ stack' = [stack EXCEPT ![p] = 0]
        /\ directory' = [directory EXCEPT ![p] = PG!paging_new_4gb("read")]
    BY <1>9 DEF Exit, PassTextFaults, process_terminate
  <2>2. \A q \in loaded \ {p} :
          /\ directory'[q] = directory[q] /\ program'[q] = program[q]
          /\ stack'[q] = stack[q] /\ image'[q] = image[q]
    BY <2>1 DEF UInv, TypeOK
  <2>3. ASSUME NEW q \in loaded'
        PROVE  Loaded(directory'[q], program'[q], stack'[q], image'[q])
    BY <2>1, <2>2 DEF FilesInv
  <2> QED
    BY <2>3 DEF FilesInv
<1>10. CASE UNCHANGED vars
  BY <1>2, <1>10 DEF vars
<1> QED
  BY <1>1, <1>3, <1>4, <1>6, <1>7, <1>8, <1>9, <1>10 DEF Next

\* The state property.
LEMMA InPlaceHolds ==
  ASSUME SizesTaken, FilesFit, FilesLinked, UInv, FilesInv
  PROVE  FileInPlace
<1>1. ASSUME NEW p \in loaded
      PROVE  InPlace(directory[p], program[p], image[p])
  <2>1. /\ p \in Procs /\ image[p] \in Images
        /\ program[p].at \in Addresses /\ program[p].elf_memory \in Addresses
        /\ stack[p] \in Addresses
    BY DEF UInv, TypeOK
  <2>2. program[p].at \in Int
    <3>1. \A a \in Addresses : a \in Int
      BY BlockAddress, Layout DEF Addresses
    <3> QED
      BY <2>1, <3>1
  <2>3. PICK R : R = UNION {Claims(q) : q \in loaded}
    OBVIOUS
  <2>4. Holds(table, R) /\ FixedOf(p) \subseteq R
    BY <2>3 DEF UInv, Claims
  <2>5. /\ H!heap_address_to_block(program[p].elf_memory) \in H!Blocks
        /\ H!heap_address_to_block(stack[p]) \in H!Blocks
    <3>1. PICK c, d :
            /\ c = Claim(p, "file", 0, program[p].elf_memory, image[p].size)
            /\ d = Claim(p, "stack", 0, stack[p], BlockSize)
      OBVIOUS
    <3>2. c \in R /\ d \in R
      BY <2>4, <3>1 DEF FixedOf, Fixed
    <3>3. c.s \in H!Blocks /\ d.s \in H!Blocks
      BY <2>4, <3>2 DEF Holds
    <3> QED
      BY <3>1, <3>3 DEF Claim
  <2>6. PICK b \in H!Blocks, d \in H!Blocks :
          /\ program[p].elf_memory = H!heap_block_to_address(b)
          /\ stack[p] = H!heap_block_to_address(d)
    BY <2>1, <2>5, ClaimAddress
  <2>7. PICK dir, prog, stk, file :
          /\ dir = directory[p] /\ prog = program[p] /\ stk = stack[p]
          /\ file = image[p] /\ file \in Images
    BY <2>1
  <2>8. Loaded(dir, prog, stk, file)
    BY <2>7 DEF FilesInv
  <2>9. InPlace(dir, prog, file)
    BY <2>2, <2>6, <2>7, <2>8, LoadedInPlace
  <2> QED
    BY <2>7, <2>9
<1> QED
  BY <1>1 DEF FileInPlace, InPlace, Sees

(***************************************************************************)
(* Every program sees its file where its headers say, writable where they  *)
(* say so and only there, as long as it runs, for any files that a linker  *)
(* made for the addresses below the heap.                                  *)
(***************************************************************************)
THEOREM FileStaysInPlace ==
  ASSUME SizesTaken, SegmentsInFile, FilesFit, FilesLinked
  PROVE  Spec => []FileInPlace
<1>1. Init => FilesInv
  BY DEF Init, FilesInv
<1>2. FilesInv /\ UInv /\ [Next]_vars => FilesInv'
  BY NextInPlace
<1>3. UInv /\ FilesInv => FileInPlace
  BY InPlaceHolds
<1> QED
  BY <1>1, <1>2, <1>3, UserMemoryInductive, PTL DEF Spec

=============================================================================
