----------------------------- MODULE UserMemory -----------------------------
(***************************************************************************)
(* The memory of user programs: what process.c takes from the kernel heap  *)
(* (module Heap) for a program, its stack and its malloc calls, how the    *)
(* file of the program is loaded (module ElfLoader), and what its page     *)
(* directory (module Paging) lets it see and write.  A directory maps all  *)
(* memory to itself, read only.  The program and the stack are mapped at   *)
(* virtual addresses below the heap, an allocation at its own address.  A  *)
(* heap block is a page.                                                   *)
(*                                                                         *)
(* A program of module Process is started and ended here with its memory;  *)
(* the order in which programs run does not matter, so any of them may     *)
(* make the next system call.                                              *)
(***************************************************************************)
EXTENDS Integers, Sequences

CONSTANTS
  TotalEntries, BlockSize, StartAddress, Word,   \* as in Heap
  Sizes,            \* the sizes that programs give to malloc
  Procs,            \* the structs process of the programs
  MaxAllocations,   \* BOIOS_MAX_PROGRAM_ALLOCATIONS
  ProgramAddress,   \* BOIOS_PROGRAM_VIRTUAL_ADDRESS
  StackAddress,     \* BOIOS_PROGRAM_VIRTUAL_STACK_ADDRESS_END
  Images,           \* the files of programs
  NoImage

VARIABLES
  table,         \* the table of the kernel heap
  loaded,        \* the processes in the process table
  record,        \* the address of the struct of each process that is loaded
  image,         \* history: the file that was loaded
  program,       \* process->elf_file; for a binary, only process->ptr
  stack,         \* process->stack
  task,          \* process->task, with its page directory and its tables
  allocations,   \* process->allocations
  directory      \* process->task->page_directory

vars == <<table, loaded, record, image, program, stack, task, allocations,
          directory>>

H   == INSTANCE Heap WITH entries <- table, owned <- {}
PG  == INSTANCE Paging WITH PageSize <- BlockSize
ELF == INSTANCE ElfLoader

ASSUME UserMemoryAssumption ==
  /\ TotalEntries \in Nat \ {0} /\ MaxAllocations \in Nat \ {0}
  /\ BlockSize \in Nat /\ BlockSize > 1
  /\ StartAddress \in Nat \ {0} /\ StartAddress % BlockSize = 0
  /\ Word \in Nat /\ Word % BlockSize = 0
  /\ Sizes \subseteq 0 .. (Word - 1)
  /\ StartAddress + TotalEntries * BlockSize <= Word
  /\ ProgramAddress \in 0 .. (Word - 1) /\ ProgramAddress % BlockSize = 0
  /\ StackAddress \in 0 .. (Word - 1) /\ StackAddress % BlockSize = 0
  /\ NoImage \notin Images
  /\ \A f \in Images : /\ f.size \in 1 .. (Word - 1)
                       /\ f.header \in ELF!Header
                       /\ f.phdrs \in Seq(ELF!ProgramHeader)

-----------------------------------------------------------------------------
Slots == 0 .. (MaxAllocations - 1)

NoAllocation == [ptr |-> 0, size |-> 0]

\* The function itself: the comparison makes TLC compute it once.
Computed(f) == CHOOSE g \in {f} : g = g

Lowest(S) == CHOOSE i \in S : \A j \in S : i <= j

\* The blocks at which the scan of heap_get_start_block for n blocks could
\* stop: it takes the lowest.
Starts(heap, n) ==
  LET runs == {s \in H!Blocks : n > 0 /\ H!FreeRun(heap, s, n)} IN
  IF runs # {} THEN runs ELSE {s \in H!Blocks : H!FreeTail(heap, s)}

\* The heap after an allocation at one of the starts, and its address.
Taken(heap, starts, n) ==
  [heap |-> Computed(H!heap_mark_blocks_taken(heap, Lowest(starts), n)),
   ptr  |-> H!heap_block_to_address(Lowest(starts))]

\* Mutant of kzalloc: an error code, where the callers look for 0.
kzalloc_error_code(heap, size) ==
  LET n      == H!TotalBlocks(size)
      starts == Starts(heap, n)
  IN  IF starts = {} THEN [heap |-> heap, ptr |-> -1] ELSE Taken(heap, starts, n)

\* The address is 0 when there is no memory.
kzalloc(heap, size) ==
  LET n      == H!TotalBlocks(size)
      starts == Starts(heap, n)
  IN  IF starts = {} THEN [heap |-> heap, ptr |-> 0] ELSE Taken(heap, starts, n)

kfree(heap, ptr) == Computed(H!heap_free(heap, ptr))

PageOf(ptr) == ptr \div BlockSize

-----------------------------------------------------------------------------
(***************************************************************************)
(* The part of the state that malloc and free change, for one process: the *)
(* heap, its allocations, its page directory and the pointer returned.     *)
(***************************************************************************)
Memory(heap, allocs, dir) ==
  [heap |-> heap, allocations |-> allocs, directory |-> Computed(dir),
   ptr |-> 0]

\* Where the mapping of size bytes from ptr ends.
End(ptr, size) == PG!paging_align_address((ptr + size) % Word)

\* Mutant of MapAllocation: the end is rounded down.
MapAllocation_short(dir, ptr, size, flags) ==
  Computed(PG!paging_map_to(dir, ptr, ptr,
             PG!paging_align_to_lower_page((ptr + size) % Word), flags))

\* The mapping of an allocation, at its own address.
MapAllocation(dir, ptr, size, flags) ==
  Computed(PG!paging_map_to(dir, ptr, ptr, End(ptr, size), flags))

\* out_err: what was allocated is freed, and the program gets 0.
process_malloc(m, size) ==
  LET got  == kzalloc(m.heap, size)
      free == {i \in Slots : m.allocations[i].ptr = 0}
  IN  CASE got.ptr = 0 -> [m EXCEPT !.ptr = 0]
        [] /\ got.ptr # 0
           /\ free = {} \/ ~PG!Mappable(got.ptr, got.ptr, End(got.ptr, size)) ->
             [m EXCEPT !.ptr = 0, !.heap = kfree(got.heap, got.ptr)]
        [] OTHER ->
             [heap        |-> got.heap,
              allocations |-> [m.allocations EXCEPT ![Lowest(free)] =
                                 [ptr |-> got.ptr, size |-> size]],
              directory   |-> MapAllocation(m.directory, got.ptr, size, "write"),
              ptr         |-> got.ptr]

\* Mutant of process_free: the pages stay mapped.
process_free_without_unmap(m, ptr) ==
  LET found == {i \in Slots : m.allocations[i].ptr = ptr}
      rest  == [i \in Slots |-> IF i \in found THEN NoAllocation
                                               ELSE m.allocations[i]]
  IN  IF found = {} THEN m ELSE Memory(kfree(m.heap, ptr), rest, m.directory)

(***************************************************************************)
(* The pages of the first allocation with this address are made absent,    *)
(* every allocation with this address is forgotten and the block is freed. *)
(* A pointer that is not the process's own is ignored.  0 is its own while *)
(* some allocation is unused: nothing is mapped there, and the heap        *)
(* ignores it.                                                             *)
(***************************************************************************)
process_free(m, ptr) ==
  LET found == {i \in Slots : m.allocations[i].ptr = ptr}
      size  == m.allocations[Lowest(found)].size
      rest  == [i \in Slots |-> IF i \in found THEN NoAllocation
                                               ELSE m.allocations[i]]
  IN  IF found = {} \/ ~PG!Mappable(ptr, ptr, End(ptr, size))
        THEN m
        ELSE Memory(kfree(m.heap, ptr), rest,
                    MapAllocation(m.directory, ptr, size, "absent"))

\* Mutant of process_terminate_allocations: the last slot is left out.
process_terminate_allocations_short(m) ==
  LET turn[k \in 0 .. MaxAllocations] ==
        IF k = 0 THEN m
                 ELSE process_free(turn[k - 1],
                                   turn[k - 1].allocations[k - 1].ptr)
  IN  turn[MaxAllocations - 1]

\* process_free of the pointer in each slot, in order.
process_terminate_allocations(m) ==
  LET turn[k \in 0 .. MaxAllocations] ==
        IF k = 0 THEN m
                 ELSE process_free(turn[k - 1],
                                   turn[k - 1].allocations[k - 1].ptr)
  IN  turn[MaxAllocations]

\* argv, then a string for each argument, until one does not fit.
process_inject_arguments(m, argc) ==
  LET turn[k \in 0 .. argc] ==
        IF k = 0
          THEN process_malloc(m, BlockSize)
          ELSE IF turn[k - 1].ptr = 0
                 THEN turn[k - 1] ELSE process_malloc(turn[k - 1], BlockSize)
  IN  IF argc = 0 THEN m ELSE turn[argc]

\* Mutant of copy_string_from_task: the entry of the page is not set back.
copy_string_from_task_keeps_entry(m, max) ==
  LET tmp    == kzalloc(m.heap, max)
      mapped == PG!paging_map(m.directory, tmp.ptr, tmp.ptr, "write")
  IN  IF max >= BlockSize \/ tmp.ptr = 0
        THEN m
        ELSE Memory(kfree(tmp.heap, tmp.ptr), m.allocations, mapped)

(***************************************************************************)
(* copy_string_from_task, for the calls that are given a text: a buffer of *)
(* the kernel is made writable in the directory of the task, which is then *)
(* switched to for the copy.  The entry is set back and the buffer freed.  *)
(***************************************************************************)
copy_string_from_task(m, max) ==
  LET tmp    == kzalloc(m.heap, max)
      old    == PG!paging_get(m.directory, tmp.ptr)
      mapped == PG!paging_map(m.directory, tmp.ptr, tmp.ptr, "write")
  IN  IF max >= BlockSize \/ tmp.ptr = 0
        THEN m
        ELSE Memory(kfree(tmp.heap, tmp.ptr), m.allocations,
                    PG!paging_set(mapped, tmp.ptr, old))

-----------------------------------------------------------------------------
NoProgram == ELF!elf_load(0, 0, <<>>)

(***************************************************************************)
(* process_load_data: the struct elf_file and the file in memory; a file   *)
(* that is not ELF for the loader is then read again as a binary, and the  *)
(* first copy is never freed.  The code does not look whether it got the   *)
(* first two (sound), only whether it got the memory for a binary (ok).    *)
(* When the file cannot be read, in elf_load or again as a binary, the     *)
(* struct and the first copy stay (unread).                                *)
(***************************************************************************)
process_load_data(heap, file) ==
  LET e == kzalloc(heap, BlockSize - 1)
      f == kzalloc(e.heap, file.size)
      b == kzalloc(f.heap, file.size)
  IN  IF ELF!elf_validate_loaded(file.header)
        THEN [heap    |-> f.heap,
              unread  |-> f.heap,
              sound   |-> e.ptr # 0 /\ f.ptr # 0,
              ok      |-> TRUE,
              program |-> ELF!elf_load(e.ptr, f.ptr, file.phdrs)]
        ELSE [heap    |-> b.heap,
              unread  |-> f.heap,
              sound   |-> e.ptr # 0 /\ f.ptr # 0,
              ok      |-> b.ptr # 0,
              program |-> [NoProgram EXCEPT !.elf_memory = b.ptr]]

\* elf_close, or process_free_binary_data.
process_free_program_data(heap, prog) ==
  IF prog.at = 0 THEN kfree(heap, prog.elf_memory)
                 ELSE kfree(kfree(heap, prog.elf_memory), prog.at)

\* The addresses that process_map_elf gives to paging_map_to.
Segment(prog, phdr) ==
  LET physical == ELF!elf_phdr_phys_address(prog.elf_memory, phdr) IN
  [virtual |-> PG!paging_align_to_lower_page(phdr.p_vaddr),
   start   |-> PG!paging_align_to_lower_page(physical),
   end     |-> End(physical, phdr.p_memsz),
   flags   |-> IF phdr.writable THEN "write" ELSE "read"]

\* Mutant of process_map_elf: all segments are writable.
process_map_elf_writable(dir, prog, phdrs) ==
  LET turn[k \in 0 .. Len(phdrs)] ==
        IF k = 0 THEN dir
        ELSE LET s == Segment(prog, phdrs[k]) IN
             PG!paging_map_to(turn[k - 1], s.virtual, s.start, s.end, "write")
  IN  turn[Len(phdrs)]

\* Every program header, of whatever type.
process_map_elf(dir, prog, phdrs) ==
  LET turn[k \in 0 .. Len(phdrs)] ==
        IF k = 0 THEN dir
        ELSE LET s == Segment(prog, phdrs[k]) IN
             PG!paging_map_to(turn[k - 1], s.virtual, s.start, s.end, s.flags)
  IN  turn[Len(phdrs)]

process_map_binary(dir, prog, size) ==
  PG!paging_map_to(dir, ProgramAddress, prog.elf_memory,
                   End(prog.elf_memory, size), "write")

process_map_stack(dir, stack_ptr) ==
  PG!paging_map_to(dir, StackAddress, stack_ptr, End(stack_ptr, BlockSize),
                   "write")

\* The directory that task_init made, with the program and the stack.
process_map_memory(prog, stack_ptr, file) ==
  LET dir == PG!paging_new_4gb("read") IN
  process_map_stack(IF prog.at = 0
                      THEN process_map_binary(dir, prog, file.size)
                      ELSE process_map_elf(dir, prog, file.phdrs),
                    stack_ptr)

\* Whether paging_map_to accepts all parts of the file.  The stack is one
\* block, which it always accepts.
FileMappable(prog, file) ==
  IF prog.at = 0
    THEN PG!Mappable(ProgramAddress, prog.elf_memory,
                     End(prog.elf_memory, file.size))
    ELSE \A k \in DOMAIN file.phdrs :
           LET s == Segment(prog, file.phdrs[k]) IN
           PG!Mappable(s.virtual, s.start, s.end)

NoAllocations == [i \in Slots |-> NoAllocation]

-----------------------------------------------------------------------------
Init ==
  /\ table = [i \in H!Blocks |-> H!EntryFree]
  /\ loaded = {}
  /\ record = [p \in Procs |-> 0]
  /\ image = [p \in Procs |-> NoImage]
  /\ program = [p \in Procs |-> NoProgram]
  /\ stack = [p \in Procs |-> 0]
  /\ task = [p \in Procs |-> 0]
  /\ allocations = [p \in Procs |-> NoAllocations]
  /\ directory = [p \in Procs |-> PG!paging_new_4gb("read")]

\* The new process gets what was allocated for it, and its memory m.
Begins(p, file, process_ptr, prog, stack_ptr, task_ptr, m) ==
  /\ table' = m.heap
  /\ allocations' = [allocations EXCEPT ![p] = m.allocations]
  /\ directory' = [directory EXCEPT ![p] = m.directory]
  /\ loaded' = loaded \cup {p}
  /\ record' = [record EXCEPT ![p] = process_ptr]
  /\ image' = [image EXCEPT ![p] = file]
  /\ program' = [program EXCEPT ![p] = prog]
  /\ stack' = [stack EXCEPT ![p] = stack_ptr]
  /\ task' = [task EXCEPT ![p] = task_ptr]

(***************************************************************************)
(* process_load_for_slot, then process_inject_arguments.  Each struct and  *)
(* the stack take one block here.  There is memory for the struct, the     *)
(* file and the task: the code does not notice when the last two fail.     *)
(***************************************************************************)
Load(p, file, argc) ==
  /\ p \notin loaded
  /\ \E a \in {kzalloc(table, BlockSize)} :
     \E b \in {process_load_data(a.heap, file)} :
     \E c \in {kzalloc(b.heap, BlockSize)} :
     \E d \in {kzalloc(c.heap, BlockSize)} :
       /\ b.sound /\ b.ok
       /\ \A x \in {a, c, d} : x.ptr # 0
       /\ FileMappable(b.program, file)
       /\ \E m \in {process_inject_arguments(
                       Memory(d.heap, NoAllocations,
                              process_map_memory(b.program, c.ptr, file)), argc)} :
            Begins(p, file, a.ptr, b.program, c.ptr, d.ptr, m)

(***************************************************************************)
(* "TODO: free process data".  A load that fails keeps what it got: there  *)
(* is no such file, or no descriptor that fstat knows; it cannot be read;  *)
(* there is no memory for a binary or for the stack; or a part of the file *)
(* cannot be mapped, and then the task is freed.                           *)
(***************************************************************************)
LoadNotFound ==
  /\ table' = kzalloc(kzalloc(table, BlockSize).heap, BlockSize - 1).heap
  /\ UNCHANGED <<loaded, record, image, program, stack, task, allocations,
                 directory>>

LoadFails(file) ==
  /\ \E a \in {kzalloc(table, BlockSize)} :
     \E b \in {process_load_data(a.heap, file)} :
     \E c \in {kzalloc(b.heap, BlockSize)} :
     \E d \in {kzalloc(c.heap, BlockSize)} :
       /\ a.ptr # 0 => b.sound
       /\ \/ a.ptr = 0 /\ UNCHANGED table
          \/ a.ptr # 0 /\ table' = b.unread
          \/ a.ptr # 0 /\ ~b.ok /\ table' = b.heap
          \/ a.ptr # 0 /\ b.ok /\ c.ptr = 0 /\ table' = b.heap
          \/ /\ a.ptr # 0 /\ b.ok /\ c.ptr # 0 /\ d.ptr # 0
             /\ ~FileMappable(b.program, file)
             /\ table' = kfree(d.heap, d.ptr)
  /\ UNCHANGED <<loaded, record, image, program, stack, task, allocations,
                 directory>>

\* A system call of p that leaves its memory like m.
Becomes(p, m) ==
  /\ table' = m.heap
  /\ allocations' = [allocations EXCEPT ![p] = m.allocations]
  /\ directory' = [directory EXCEPT ![p] = m.directory]
  /\ UNCHANGED <<loaded, record, image, program, stack, task>>

MemoryOf(p) ==
  [heap |-> table, allocations |-> allocations[p], directory |-> directory[p],
   ptr |-> 0]

\* isr80h_command4_malloc.
Malloc(p, size) ==
  /\ p \in loaded
  /\ \E m \in {process_malloc(MemoryOf(p), size)} : Becomes(p, m)

\* isr80h_command5_free, of any address.
Free(p, ptr) ==
  /\ p \in loaded
  /\ \E m \in {process_free(MemoryOf(p), ptr)} : Becomes(p, m)

\* The calls with a text: print, open and load.
PassText(p) ==
  /\ p \in loaded
  /\ \E m \in {copy_string_from_task(MemoryOf(p), BlockSize - 1)} : Becomes(p, m)

(***************************************************************************)
(* The allocations, the program, the stack, and then the task with its     *)
(* page directory.  The struct process is not freed, but nothing points to *)
(* it any more.                                                            *)
(***************************************************************************)
process_terminate(p, heap) ==
  /\ \E m \in {process_terminate_allocations([MemoryOf(p) EXCEPT !.heap = heap])} :
       table' = kfree(kfree(process_free_program_data(m.heap, program[p]),
                            stack[p]), task[p])
  /\ loaded' = loaded \ {p}
  /\ record' = [record EXCEPT ![p] = 0]
  /\ image' = [image EXCEPT ![p] = NoImage]
  /\ program' = [program EXCEPT ![p] = NoProgram]
  /\ stack' = [stack EXCEPT ![p] = 0]
  /\ task' = [task EXCEPT ![p] = 0]
  /\ allocations' = [allocations EXCEPT ![p] = NoAllocations]
  /\ directory' = [directory EXCEPT ![p] = PG!paging_new_4gb("read")]

\* The exit call, and any fault of the program.
Exit(p) == p \in loaded /\ process_terminate(p, table)

(***************************************************************************)
(* A fault in the copy of a text, when a page that the text is said to be  *)
(* in is absent, as that of an allocation that was freed: the program is   *)
(* ended, and the buffer is never given back.                              *)
(***************************************************************************)
PassTextFaults(p) ==
  /\ p \in loaded
  /\ \E tmp \in {kzalloc(table, BlockSize - 1)} :
       /\ tmp.ptr # 0
       /\ \E v \in PG!Pages \ {PageOf(tmp.ptr)} :
            directory[p][v].flags = "absent"
       /\ process_terminate(p, tmp.heap)

Addresses == {0} \cup {H!heap_block_to_address(b) : b \in H!Blocks}

Next ==
  \/ \E p \in Procs, file \in Images, argc \in {0, 1} : Load(p, file, argc)
  \/ LoadNotFound
  \/ \E file \in Images : LoadFails(file)
  \/ \E p \in Procs :
       \/ \E size \in Sizes : Malloc(p, size)
       \/ \E ptr \in Addresses : Free(p, ptr)
       \/ PassText(p) \/ PassTextFaults(p)
       \/ Exit(p)

Spec == Init /\ [][Next]_vars

-----------------------------------------------------------------------------
\* Pointers are null or the address of a block.
TypeOK ==
  /\ table \in [H!Blocks -> H!Entry]
  /\ loaded \subseteq Procs
  /\ \A f \in {record, stack, task} : f \in [Procs -> Addresses]
  /\ image \in [Procs -> Images \cup {NoImage}]
  /\ program \in
       [Procs -> [at : Addresses, elf_memory : Addresses,
                  virtual_base : Nat, virtual_end : Nat,
                  physical_base : Nat, physical_end : Nat]]
  /\ allocations \in
       [Procs -> [Slots -> [ptr : Addresses, size : 0 .. (Word - 1)]]]
  /\ directory \in [Procs -> [PG!Pages -> PG!PageEntry]]

\* The frames that user code of p may write.
Writable(p) ==
  {directory[p][v].frame : v \in {u \in PG!Pages : directory[p][u].flags = "write"}}

KernelPages(p) ==
  {PageOf(record[p]), PageOf(task[p])}
    \cup (IF program[p].at = 0 THEN {} ELSE {PageOf(program[p].at)})

(***************************************************************************)
(* "read only address space" (task.c:45), but for its own memory: what a   *)
(* program may write is not written by another program that is loaded, and *)
(* holds no process, task or elf_file of the kernel.  So after             *)
(* process_free, after the copy of a text, and after the heap gave the     *)
(* block to somebody else, the page is not mapped writable any more.       *)
(***************************************************************************)
Isolation ==
  \A p, q \in loaded :
    /\ Writable(p) \cap KernelPages(q) = {}
    /\ p # q => Writable(p) \cap Writable(q) = {}

(***************************************************************************)
(* A program can write all that malloc gave it, until it frees it: no free *)
(* of another pointer, and no system call of another program, unmaps it or *)
(* frees its first block.                                                  *)
(***************************************************************************)
AllocationsUsable ==
  \A p \in loaded : \A i \in Slots :
    LET a == allocations[p][i] IN
    a.ptr # 0 =>
      /\ \A v \in PageOf(a.ptr) .. PageOf(a.ptr + a.size - 1) :
           directory[p][v] = [frame |-> v, flags |-> "write"]
      /\ table[H!heap_address_to_block(a.ptr)].taken
      /\ table[H!heap_address_to_block(a.ptr)].first

(***************************************************************************)
(* A program sees its file: every byte of a segment that is in the file is *)
(* at its virtual address, as long as the program runs, whatever is        *)
(* mapped and unmapped besides, and it can write it if the segment says    *)
(* so ("flags relevant to the segment", elf.h), and only then.  The        *)
(* addresses that the loader noted are two views of the same bytes.        *)
(***************************************************************************)
FileInPlace ==
  \A p \in loaded :
    LET prog     == program[p]
        seen(a)  == PG!paging_get_physical_address(directory[p], a)
        flags(a) == PG!paging_get(directory[p],
                                  PG!paging_align_to_lower_page(a)).flags
        phdrs    == image[p].phdrs
    IN  IF prog.at = 0
          THEN \A j \in 0 .. (image[p].size - 1) :
                 /\ seen(ProgramAddress + j) = prog.elf_memory + j
                 /\ flags(ProgramAddress + j) = "write"
          ELSE /\ \A k \in DOMAIN phdrs : \A j \in 0 .. (phdrs[k].p_filesz - 1) :
                    /\ seen(phdrs[k].p_vaddr + j)
                         = prog.elf_memory + phdrs[k].p_offset + j
                    /\ (flags(phdrs[k].p_vaddr + j) = "write")
                         <=> phdrs[k].writable
               /\ seen(prog.virtual_base) = prog.physical_base
               /\ seen(prog.virtual_end - 1) = prog.physical_end - 1
               /\ \A k \in DOMAIN phdrs :
                    phdrs[k].p_type = ELF!PT_LOAD =>
                      /\ prog.virtual_base <= phdrs[k].p_vaddr
                      /\ phdrs[k].p_vaddr + phdrs[k].p_filesz <= prog.virtual_end

(***************************************************************************)
(* process_terminate gives back all that the program could write, and its  *)
(* file, also when its allocations were made and freed in any order: when  *)
(* it is gone, these blocks are free.                                      *)
(***************************************************************************)
ExitGivesBack ==
  [][\A p \in loaded \ loaded' : \A b \in H!Blocks :
       LET page == PageOf(H!heap_block_to_address(b)) IN
       (\/ page \in Writable(p)
        \/ page \in PageOf(program[p].elf_memory) ..
                     PageOf(program[p].elf_memory + image[p].size - 1)) =>
         ~table'[b].taken]_vars

-----------------------------------------------------------------------------
(***************************************************************************)
(* What the theorems ask of the sizes and of the files, and the code does  *)
(* not test.  A request is not zero, and does not wrap to zero when it is  *)
(* rounded up (heap_align_value_to_upper).                                 *)
(***************************************************************************)
SizesTaken ==
  \A size \in Sizes \cup {f.size : f \in Images} : H!TotalBlocks(size) # 0

(***************************************************************************)
(* The pages of a writable segment that can be mapped are pages of the     *)
(* file: process_map_elf maps p_memsz bytes, wherever the file ends.       *)
(***************************************************************************)
SegmentInFile(f, phdr, b) ==
  LET memory == H!heap_block_to_address(b)
      s      == Segment([elf_memory |-> memory], phdr)
  IN  PG!Mappable(s.virtual, s.start, s.end) =>
        /\ PageOf(memory) <= PageOf(s.start)
        /\ PageOf(s.end) <= PageOf(memory) + H!TotalBlocks(f.size)

SegmentsInFile ==
  \A f \in Images : ELF!elf_validate_loaded(f.header) =>
    \A k \in DOMAIN f.phdrs, b \in H!Blocks :
      f.phdrs[k].writable => SegmentInFile(f, f.phdrs[k], b)

(***************************************************************************)
(* The sizes of files leave room: a file fits before the end of the        *)
(* addresses, wherever the heap puts it.                                   *)
(***************************************************************************)
FilesFit ==
  \A f \in Images, b \in H!Blocks :
    LET memory == H!heap_block_to_address(b) IN
    PG!Mappable(memory, memory, End(memory, f.size))

\* The virtual pages that process_map_elf gives a segment.
MappedPages(s) ==
  {PageOf(s.virtual) + i : i \in 0 .. (PageOf(s.end) - PageOf(s.start) - 1)}

\* The pages for programs: below the heap, and not those of the stack.
ProgramPages == (0 .. (PageOf(StartAddress) - 1)) \ {PageOf(StackAddress)}

(***************************************************************************)
(* A segment as the linker script of a program makes it: the bytes that    *)
(* are in the file lie as far into their page as in memory, the end does   *)
(* not wrap, and the pages are for programs.                               *)
(***************************************************************************)
LinkedSegment(f, phdr, memory) ==
  LET s == Segment([elf_memory |-> memory], phdr) IN
  /\ phdr.p_vaddr % BlockSize = phdr.p_offset % BlockSize
  /\ phdr.p_filesz <= phdr.p_memsz
  /\ phdr.p_offset + phdr.p_filesz <= f.size
  /\ ELF!elf_phdr_phys_address(memory, phdr) + phdr.p_memsz <= s.end
  /\ MappedPages(s) \subseteq ProgramPages
  /\ phdr.p_type = ELF!PT_LOAD => phdr.p_vaddr # 0 /\ phdr.p_filesz # 0

\* The segments have no page in common, and there is one to load.
LinkedElf(f, memory) ==
  /\ \A k \in DOMAIN f.phdrs : LinkedSegment(f, f.phdrs[k], memory)
  /\ \E k \in DOMAIN f.phdrs : f.phdrs[k].p_type = ELF!PT_LOAD
  /\ \A k, l \in DOMAIN f.phdrs :
       LET prog == [elf_memory |-> memory] IN
       k # l => MappedPages(Segment(prog, f.phdrs[k]))
                  \cap MappedPages(Segment(prog, f.phdrs[l])) = {}

LinkedBinary(f) ==
  \A j \in 0 .. (f.size - 1) : PageOf(ProgramAddress + j) \in ProgramPages

\* Every file of a program, wherever the heap puts it, if it can be mapped.
FilesLinked ==
  \A f \in Images :
    IF ELF!elf_validate_loaded(f.header)
      THEN \A b \in H!Blocks :
             LET memory == H!heap_block_to_address(b) IN
             FileMappable([at |-> 1, elf_memory |-> memory], f) =>
               LinkedElf(f, memory)
      ELSE LinkedBinary(f)

=============================================================================
