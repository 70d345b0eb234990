# boiOS: models, checks and proofs

TLA+ modules of boiOS, a small 32-bit operating system (`src/`): its kernel, its
user library and its shell, with the TLC configurations that check them and TLAPS
proofs about every state machine among them.
`PROJECT.json` maps every definition to the lines it models and lists the runs,
the mutants, the findings, the hazards and the theorems.

## 1. The system

| part | state | operations | talks to |
|---|---|---|---|
| kernel heap, `memory/heap` | table of block entries (taken, first, has next) | `kmalloc`, `kzalloc`, `kfree` | used by all below |
| processes and tasks, `task/`, `isr80h/process.c` | process table, focused process, doubly linked task list, current task | boot of the shell, launch (calls 6 and 7), exit (call 9), fault | heap, paging, files; the focus is read by the keyboard |
| interrupts and context switch, `idt/`, `task.asm`, `task.c` | processor registers, saved registers per task, page directory in use | timer, keyboard and other interrupts, exceptions, `int 0x80` | calls every handler |
| timer, `timer/pit.c`, `isr80h/timer.c` | `ticks` | `pit_callback`, `sleep` (call 11) | interrupts nest in `sleep` |
| keyboard, `keyboard/` | a ring buffer per process, caps lock | key interrupt, `getkey` (call 2) | focus (write), running task (read) |
| user memory, `process.c`, `isr80h/heap.c`, `task.c` | program, stack and allocations of each process | load, `malloc` (call 4), `free` (call 5), texts of calls 1, 6, 10, exit | heap, paging, ELF loader |
| paging, `memory/paging` | a page directory per task | map, map range, translate | user memory |
| files, `fs/file.c` | descriptor table | `fopen`, `fread`, `fseek`, `fstat`, `fclose` | FAT16 |
| FAT16 and disk, `fs/fat`, `fs/pparser.c`, `disk/` | none that changes after the mount | path walk, cluster chain, reads | the drive |
| ELF loader, `loader/` | the file in memory, its base and end | load, close | files, heap |
| terminal, `terminal/` | video memory, row and column | print, putchar, backspace, clear | called by system calls 1, 3, 12 |
| user library, `programs/stdlib` | the static pointer of `strtok` | `readline`, command parser, `itoa`, `printf` | system calls |
| shell, `programs/shell` | the line, the arguments | prompt, read, run | user library, terminal, processes |
| boot, GDT, TSS, ports | set up once | | |

What is hard here. There is one processor and no preemption, and every gate
turns interrupts off, so a system call is atomic, with one exception: `sleep`
turns interrupts on inside the kernel, and the handlers that then run behave as
if they had interrupted a user program. Everything else that is hard is a long
sequence of legal calls: programs that end in another order than they were
started, allocations freed in any order, counters that wrap, tables at their
last slot, and loads that fail half way. `PROJECT.json` lists these places as
hazards, each at its line.

Correct means, for each part: the heap gives a block to one client at a time
and loses none; the scheduler runs only live tasks and returns to the program
that launched the one that ended; a user program is resumed exactly where it was
stopped, in user mode and on its own pages; a sleep is as long as asked, and
ends; the process that reads gets its keys in order; a program writes only its
own memory, and finds its file at the addresses its headers say; a path opens the
file that has this name on the disk, a file number names the file that was opened,
and a read returns what the file holds; the line the user sees is the line the shell
has, and the command it runs has the words of that line.

## 2. The modules

Definitions have the names of the functions they model. Every variable marked
*history* in a module is not state of the program: it records what clients were
given or did, for the properties.

**Heap** (`heap.c`, `kheap.c`). `entries` is the table. The scan of
`heap_get_start_block` is stated by what it returns: the first run of *n* free
blocks, or the free run at the end of the table. `heap_mark_blocks_taken` and
`heap_mark_blocks_free` are functions on the table. **HeapLoops** writes these three
loops out turn by turn, as the code has them, and the invariants `ScanAgrees` and
`MarksAgree` compare them with the operators in every reachable table. Sizes
are unsigned and wrap. `owned` is history. **BlockPool** is the abstract
specification: a pool of blocks in which each block has at most one holder.

**Process** (`process.c`, `task.c`, `isr80h/process.c`). The task list keeps
`next` and `prev` per address; a freed task keeps what its memory held. `Launch`
is calls 6 and 7, `LaunchWithoutArguments` call 7 when the arguments do not fit,
`MapFails` a load undone after `task_new`, `Exit` both the exit call and an
exception, from `process_terminate` to the `task_next` that enters another task.

**Interrupts** (`idt.asm`, `idt.c`, `task.asm`, `task.c`, `pit.c`). A user
context (ip, stack, registers) is a number that each user step changes; kernel
registers are nobody's context. An interrupt is one step made of the steps of
the code: trap, `kernel_page`, save of the frame, `task_page`, iret. `sleep` is
`SleepBegins`, any interrupts, and `SleepEnds`. `DivideError` is the gate
that has no wrapper; it is only in `SpecDivide`.

**Keyboard** (`classic.c`, `keyboard.c`). The ring of each process, with `tail`
and `head` as wrapping ints; the focus and the running process change at any
time. **KeyQueue** is the abstract specification: one queue for each process; a key
goes into that of the process with the focus, a read takes from that of the running one.

**UserMemory** (`process.c`, `task.c`, `isr80h/heap.c`). It uses the operators of
Heap, Paging and ElfLoader by INSTANCE. The state is the heap table, and for each
program its structs, its file, its stack, its allocations and its page directory.
`Load` is the entire load of a program with its arguments; `LoadNotFound` and
`LoadFails` are its failures, with what they leak; `PassText` is a call with a text,
which `copy_string_from_task` fetches through a page it maps for that time, and
`PassTextFaults` one whose text is at an absent page, so that the program is ended inside
the copy. That and `Exit` are `process_terminate`. A block is a page. `Computed(f)` is `f`; it only makes TLC evaluate a function once.
**Paging** has operators only: a directory with its tables is a function from pages
to entries (frame and flags). **ElfLoader** has operators only: what the loader
accepts, and the base and end addresses from its walk of the program headers.

**Fat16** has operators only: the streamer, paths, the directory walk, the
cluster chain and the reads. Paths and names are sequences of bytes, of which
`pathparser_parse` refuses those longer than `BOIOS_MAX_PATH`; a directory is followed by
what comes after it on the disk, where the count of its items goes on if it is full; a
directory entry has the padded name and extension, the attributes, the first cluster and the
size, and the code's own tests decide which entries are counted and which match.
**KernelString** has the functions of `string.c` that these tests use. **Files** has
the mount and the descriptor table over it. Its reference `There` says what a path
names without the code's decoding: it pads the path's parts and compares bytes with
live entries. `MCFiles` lays out a disk by the definition of FAT16, with files of
one cluster, and with a file of two.

**Terminal** (`terminal.c`). A terminal is a record of cells, row and column; each
operation gives the terminal after it. The rows behind the screen are cells too.
**UserLibrary** (`programs/stdlib`): `strtok` with its static pointer, `strncpy`,
`itoa` and `printf`, on buffers of bytes. **Shell** (`shell.c`, `boios.c`) composes
them: the prompt, the loop of `boios_terminal_readline` with one action for each
kind of key, the parser with an action for each `malloc`, and the program that runs,
which prints a number and may clear the screen. What is printed by call 1 is the text,
or, when there was no memory to copy it, one of `Leftovers`, for what its uninitialised
buffer held. **LineEditor** is the abstract
specification of the command line: type at the end, erase the last, enter.

The hypotheses of the theorems are named at the ends of the modules: `SizesTaken`,
`SegmentsInFile`, `FilesFit` and `FilesLinked` in UserMemory, `FormattedDisk`,
`PlainPaths` and `SmallFiles` in Files, `PrintsBytes` and `InMemory` in Shell. `AtMostThree` and
`AtMostTwo` are in ProcessProofs.

The modules compose as the code does: UserMemory and Process are two views of
`process.c`. The one keeps memory, the other the order of programs; the first
lets any loaded program act next, so it covers every order the second allows.
Likewise Keyboard lets the focus move at any time, Interrupts lets any live task
be the next, and Shell takes any key that Keyboard's queue could hold next and lets
any `malloc` fail, as UserMemory does when the heap is empty.

## 3. The runs

| run | states | result |
|---|---|---|
| heap | 1 057 | all invariants hold, Heap implements BlockPool |
| heap_spill | | violated: an allocation reaches past the pool |
| process_three | 10 235 | the task list is intact with up to 3 programs, and only its tail leaves it; the launcher resumes |
| process_inject | 7 374 | a launch that fails at its arguments leaves live things running |
| process_runs_freed_task | | violated with 4 programs: a freed task runs |
| interrupts | 20 544 | contexts, user land, sleep; every sleep ends |
| interrupts_divide | | violated: user code in ring 0 after a division by zero |
| keyboard | 115 008 | a queue for each process while no ring is overrun |
| user_memory | 33 757 | isolation, usable allocations, files in place, exit gives back |
| files | 17 425 | paths open what is there, numbers name files; reads in one cluster are right |
| files_chain | | violated: the second cluster of a file is not found |
| shell | 1 921 076 | a line editor; line and prompt on the screen; arguments are the words; numbers |

Each violation is a finding in `PROJECT.json`, with the comment of the source
that it contradicts.

**Bounds.** The heap has 7 blocks of 4 bytes and a word of 64: sizes of zero, less
than a block, exactly one, two, three blocks, and one that wraps to zero. Three
neighbours and gaps between them are enough for every case of the scan and of the
chain. Processes: process_three has the largest number of programs for which
its properties hold, and the violation run has one more. The code allows 12,
so what the passing runs show is true of sessions that never have more than
three programs at a time. process_inject has two slots. Tasks and processes are
symmetric, and there is one address more of each than slots so that memory is
reused in every order. Interrupts: three tasks, two contexts (enough to tell a
stale context from the current one), a counter of 8 values so that it wraps, sleeps
of zero, less than a tick, one tick, three ticks and a negative time. Keyboard: two
slots and counts modulo 4; `TypeAhead`, the number of keys that may wait, is the
size of the ring. User memory: 11 blocks of four bytes and 2 slots of allocations for
each of 2 programs; requests of one block and of two; an ELF file with two segments of
different flags in one page of the file and a header that is not loaded, a flat
binary of two pages, and a file whose segment cannot be mapped. Slots and heap run
out, a file may be unreadable, and a copy may fault. Files: three slots, sectors of 4 bytes and clusters of 8; the directories hold
deleted entries, a label, names of full length and padded ones, a
subdirectory and a blank entry each; the paths include small letters, parts that are
missing, a drive that does not exist, the longest path that is accepted (18 bytes here)
and one that is longer only by a slash. Shell: a screen of two rows of five columns and a prompt of three,
so that of a line of up to three characters (a letter, a blank, a tab) two are in the row
of the prompt and the third is in the next, and lines go over the end of the screen; two
lines, two allocations, numbers of no and of two digits and a negative one. `MaxTabs` is one
tab in a line, `MaxMisprints` one text in a session that call 1 could not copy, `MaxRows`
what two lines can reach. Two lines are enough to carry `strtok`'s pointer from a line into
the next, but not to come back to the words of a line after a `malloc` that failed in the
middle of one, which takes three: the theorem `CommandsHaveTheWords` is about any number.
(With three lines, five allocations, no tabs and no output, TLC finds the same.)

**Outside these bounds.** Reading the code for the models showed places where a
property stops to hold as soon as an input leaves the set that its run has. They
are listed as hazards; where a constant is named, TLC finds the violation when it
is changed:

- a heap client that frees the address of an empty request frees the block of
  whoever got it since; `malloc(0)` followed by `malloc(4)` and `free` leaves
  the page writable after the block is given away (`0` in `Sizes` of user_memory
  violates `Isolation`);
- an image whose memory ends in a later page than its file (a larger `p_memsz` of the
  data in `MCElf`) violates `Isolation`: the program writes the next block. The memory
  of a segment beyond its file is not zeroed either;
- a page of the file that two segments share is shown at both their addresses, each with
  the flags of its own segment, so that what one may not write can be written through the
  other. `FileInPlace` is about each view by itself;
- `Isolation` is about what user code may write, and not about call 8, in which the kernel
  writes at an address that the program gives;
- a fault in the copy of a text ends the program inside the kernel, and the buffer for
  the text is never given back;
- one key more than the ring holds (`TypeAhead` above `BufferSize`) violates
  `RingHoldsTyped`: the oldest key is overwritten, and later getkey finds an empty
  slot although keys wait;
- `elf_is_executable` is never called: a file that is not executable is started, and
  a file of another class or encoding is loaded as a flat binary;
- with three programs `process_switch_to_any` may give the focus to another
  program than the one that runs on, which then polls an empty buffer;
- the holder of the last file number cannot read, seek or close;
- a name with the byte 0xE5 at index 5 (an entry of a long name can have one) counts
  as deleted, so that the last entry of its directory is not found; a deleted entry
  or a label can be opened under its raw name;
- of a full directory what follows on the disk is counted as its items too, up to a
  first byte that is 0; for the root the search then goes on behind the memory of its
  items. `MCFiles` ASSUMEs an example of such a count, and `HasRoom` rules it out for
  the theorems;
- a path longer than `BOIOS_MAX_PATH` is refused, also when its file is there, as
  `OpensWhatIsThere` says;
- the entry `..` of a directory in the root has the cluster 0, which the code does not
  take for the root;
- a directory of more than one cluster, a path with a missing part in the middle,
  and a read of an opened directory use pointers that are freed, null or of
  another kind;
- SEEK_CUR moves a position past the end of the file;
- past the end of the image the modelled drive reads zeros; on a real one the loop of
  `disc_read_sector` that waits for the drive may never end;
- a read from the middle of a cluster that crosses its end goes on in the cluster
  that follows on the disk, which is wrong for a file in clusters apart;
- the terminal does not scroll. `LineShown` and `PromptKept` count the cells behind the
  screen as shown; far below it, at row 1843, the cells are the memory of the kernel;
- a tab moves the cursor by up to four columns and a backspace moves it by one, so that
  index and screen differ in a line with tabs; each pair of a tab and a backspace
  drives the cursor on, never back over the prompt, and in the end off the screen;
- a line that is full is run without Enter; Enter leaves the cursor character on
  the screen; characters above 127 have all bits of the colour set;
- the shell never frees its arguments: after 1024 words no command runs. After a
  `malloc` that fails in the middle of a line `strtok` goes on at the old position when the
  next one is parsed, which then lacks its beginning or is not run at all. From the first
  call that comes to the end of a text, lines have their words again;
- `itoa` of zero is empty (`NumberShown` does not say what should be shown for it), a number that fills the text gets a zero in front, and a
  negative one of that length is written before the text; a format that
  ends in a percent sign is read past its end;
- calls 1 and 10 go on after a copy that failed, with what their buffer on the stack
  held. In Shell that is what is printed, and what was to be printed is not; call 7 copies a name of up to the
  size of the entire path behind its drive.

**Deadlock** is checked in every run. In the run shell `SessionEnds` stands for the
user who types no more lines.

**Fairness** is assumed in the run interrupts only: weak fairness of the timer
interrupt, because `pit_init` programs a periodic timer and nothing masks it while
interrupts are on, and strong fairness of the end of the sleep loop: the loop
reads `ticks` many times between two ticks, so of the values the counter takes
again and again it does not miss every one that is large enough.

## 4. The proofs

TLAPS proves these for every value of the constants that the ASSUMEs allow: any
size of heap, ring, table, line and screen, any number of programs and tasks. Where
a theorem needs more than the code tests, the hypothesis is a named formula at the
end of the component's module, or one of its constants, and is stated in the theorem; the MC module ASSUMEs it,
the cfg sets it, or the run's invariants imply it, so that TLC shows that it can be
true.

**NumberFacts.** Facts about remainders by a modulus that is not a numeral, which
the solver does not find (`RemainderUnique`, `RemainderAdd`, `RemainderNested`), and
`LeastNumber`: a set of numbers that is not empty has a least one. The last
replaces induction, which the provers cannot instantiate: the set of turns at which
a loop goes wrong has a least one, and the turn before it is right. `TurnByTurn`
packs this for the set of turns after which something holds, and `LoopRuns` for loops
that are written as recursive functions.

**HeapProofs.** The invariant is the conjunction of `TypeOK`, `OwnedDisjoint`,
`ChainIntact` and `NoBlockLost`. None of the last three is inductive without
the others: disjointness of a new allocation needs that a block which is not
taken has no holder (ChainIntact), freeing needs that the chain ends where the
allocation does (ChainIntact and OwnedDisjoint), and NoBlockLost needs that
free clears the entire run. Blocks past the table are included: an allocation
that spills starts in the last free run, and so is the only one past the end.
From the invariant, `HeapImplementsPool`: every step of Heap is a step of the pool
or leaves it unchanged. These theorems are about `Spec`, in which the address
of an empty request is not freed; section 3 says what happens otherwise.
`HeapScanAgrees` and `HeapMarksAgree` say that the loops of the code, turn by turn, do
what the operators say, for any number of blocks. After *k* turns of the scan the
free run that is being counted begins at `block_start`, and no run of *n* free blocks
lies before it; the marking loop has written the first *k* blocks, and the loop of
`heap_mark_blocks_free` has cleared the chain up to the first flag without a next.

**InterruptsProofs.** The invariant adds two facts. `SleeperOnStack`: while a
sleep is on, the context under it on the kernel stack is that of the current task;
this, and not the saved registers, is what the return from sleep uses, and so
interrupts inside sleep may overwrite them. `TicksBehindClock`: in a sleep,
`ticks` is never ahead of the ticks that really passed. It also carries
`TypeOK`, `ResumesExactly`, `WaitingRegistersAreUser` and `UserLand`. There is one
lemma for each action. The theorems are `ContextsPreserved`, `UserLandAlways`,
`InterruptsTypeOK`, `WaitingRegisters` and `SleepNotEarly`.

**KeyboardProofs.** The invariant `KInv` is `TypeOK`, the bound on the keys that wait,
and `RingHoldsTyped`, for a ring of any size that divides the modulus of the counts,
so that a count that wraps still indexes the next slot. A push must find its slot
empty, and a pop must find zero exactly when no key waits; both need that at most
`BufferSize` keys wait, which is the hypothesis `TypeAhead <= BufferSize`. The code
does not ensure it (section 3). From it `RingsHoldTyped` and `RingsImplementQueue`, the
latter with the focus and the running process as they are (`QueueStep`): a key that went
to the queue of the running process instead would be no step of KeyQueue;
and the action property `CaseIsThatOfCapsLock` for any table.

**ProcessProofs.** While at most three programs run at a time (`AtMostThree`, a
hypothesis on the behaviour) and no launch fails at its arguments (`~InjectMayFail`),
the programs are a stack: for some *n* the first *n* slots are used, each task
points to the next and to the previous one, each was launched by the one before it,
and the last runs. `NoTaskLost`, `RunningLive`, `FocusLive` and `ResumesLauncher` follow
from this, and `TailLeaves`: it is always the tail that leaves the list. `task_list_remove`
never updates the `prev` of the task after the one it removes; as there is none,
`PrevIsPrevious` holds, and so the next removal unlinks what it should. The number three is the code's: the removal
of the last task moves `current_task` to the head of the list and `task_next` moves
it to the task after, which is the launcher only if at most two tasks are left. The run
process_runs_freed_task shows what a fourth program does. The slots may be any number.

A launch that fails at its arguments leaves the caller running in front of the new
program, so that the programs are a stack no more. With at most two at a time
(`AtMostTwo`), `RunningIsLiveAfterFailure` and `FocusIsLiveAfterFailure` hold all the
same, without the hypothesis on `InjectMayFail`. Here the head may leave before the
tail, and the stale `prev` is met. The invariant `JInv` lets either of two
tasks run and says nothing of `prev` of the first, which may point to a freed task, and
lets the `next` of a task that is alone point to itself. Two is all that there is: with three slots and
`InjectMayFail`, TLC finds a state that violates `RunningLive`.

**UserMemoryProofs.** The invariant `UInv` says that the heap table has the
claims of the loaded programs (file, stack, structs, allocations) as runs of
blocks that start apart and have intact chains, so that no two share a block, and that
each directory makes a page writable only if it
is in the program's own file, stack or allocations, the allocations mapped to
themselves. It has lemmas on what `paging_map_to` does to a directory,
on the heap's operators, and on each step of a load, so that a load that fails in the
middle, with what it leaks, keeps it too. The end of a program is one lemma (`Ending`),
for any heap that keeps the claims, so that it covers the exit as well as the fault in a
copy, which leaves a block taken. The hypotheses are `SizesTaken` (no request
of zero bytes or one that wraps to zero) and `SegmentsInFile`: writable segments lie in
the pages of the file. A program whose `.bss` reaches past the last page of its file
does not satisfy the second, and section 3 says what it can then write. The theorems are
`ProgramsIsolated`, `AllocationsStayUsable`, `TerminateGivesBack` and
`UserMemoryTypeOK`.

`FileStaysInPlace` has two hypotheses more: `FilesFit` (a file ends before the
addresses do) and `FilesLinked`, what the linker scripts (`programs/*/linker.ld`) give and
the loader does not test: segments in pages of their own, below the heap and off the stack,
their bytes as far into a page as in the file. `MCUserMemory` ASSUMEs both, and its run
has such files. The argument has three parts. `elf_load` notes addresses that are two
views of one segment (`ElfViews`, over its headers by `TurnByTurn`).
`process_map_elf` shows each segment, and keeps those it has shown because no two have a
page in common (again `TurnByTurn`). After the load, no call of any program changes a
directory below the heap, except for the page that `copy_string_from_task` maps and
puts back: an allocation is mapped to its own address, which is in the heap.

**FilesProofs.** `StreamerReads`: the loop of `diskstreamer_read` over sectors gives
the bytes that were asked for, for any size of sector, by `LoopRuns`. The invariant
`FInv` ties each open slot to a number that somebody holds and its item to the path it
was opened by. `FilesTypeOK` needs nothing more. `PathsOpenWhatIsThere` and
`NumbersNameFiles` suppose `FormattedDisk` (no directory is full, no 0xE5 in byte 5 of a
name, names in capitals, filled with spaces and different within a directory, directories
where their entries say) and `PlainPaths` (no spaces and no 0xE5 in a path, no part `..`,
and nobody asks for a label, which the code would open). The limit on the length of a path
is no hypothesis but part of what `PathsOpenWhatIsThere` says. Section 3 says what happens otherwise. `MCFiles` ASSUMEs both of its
disks. The argument: an entry shows as the bytes before the spaces (`EntryShows`), and
that is compared as equal with just the texts of which FAT16 makes the padded name
(`NamesAgree`); what is used of a directory is a prefix, all of it is counted
(`DirectoryLoads`), and of the entries that are searched only the one that is named
is found (`FindsNamed`); then, part by part, the walk is at the only item that the parts
so far name (`WalkEnds`, by `TurnByTurn`). That the parser ends with parts of the same
bytes is `PartsAre`. `SmallFilesRead` supposes `SmallFiles`: the root directory fills whole
sectors, files have one cluster and lie where FAT16 puts it, and no read has items of
no bytes. A file of two clusters is not read correctly (run files_chain).

**ShellProofs.** There are four invariants. `TInv` keeps the types, the room for the NUL
at the end of the line and the NUL that ends `strtok`'s buffer; it needs only that the
banner and the prompt are bytes (`PrintsBytes`). `RInv` says that in the loop of
`readline` the cursor is at `start + i` or, after a tab, further on, never before it,
and that without tabs the cells from `start` hold the line. From `TInv`,
`ReadlineImplementsEditor`; from both, `LineIsShown` and `PromptIsKept`. `WInv` is about
the words: while the parser runs, the arguments are the first `r` words of the line,
what `strtok` has still to cut is the rest of it, and the static pointer of `strtok` is
null again when the line is used up, so that the next line is not taken for a
continuation. Words are numbered by how many of them start before a place, so that no
sorting is needed. From it and from `PrintsBytes` alone, `CommandsHaveTheWords`. It says
nothing where a `malloc` has failed in the middle of a line and the pointer stays in the
old text, as the code has it. It holds again from the call of `strtok` that finds no token
(`token` is null then, and so is the pointer, by `TInv`). `NInv` says that only a command that printed has a number to
show, and `NumbersAreShown` is that it stands in decimal before the cursor. For that,
the loop of `itoa` leaves digits of the right value, without a zero before them and no
more than are needed (`Spells`, by a least counterexample over what the number is
divided to, `DigitsSpell`), a number below `10^(TextSize - 3)` therefore never meets the
test for location 1 (`ItoaPrints`), `printf("%i")` gives that text (`PrintfNumber`), and
`print` puts characters that are no control characters into the cells from the cursor on
(`PrintShows`). Zero and longer numbers are left out, because for them it is false.
`ShellTypeOK` and the three theorems about the screen suppose that the cursor stays in
the rows that are modelled (`[]InMemory`), as a terminal that does not scroll leaves
them in the end; in the run `TypeOK` includes it. `MaxRows` may be any number. A range
such as `0 .. 65535` is expanded by the prover; `UINT16_MAX` is a name for its end so
that it is not.

Only checked by TLC: the liveness of sleep (fairness is out of the prover's reach), and
the runs that expect a violation. What loops compute is proved here without the
library's induction theorems, which take an operator as a parameter: `LoopRuns` of
NumberFacts gives the states of a loop, and `TurnByTurn` or a least counterexample
(`LeastNumber`) leads from turn to turn.

## 5. What is left out, and the plan

Not modelled: boot, GDT, TSS and ports (straight-line code and encodings); the ATA
protocol; the pictures that `shell_init` draws; the sample programs, which are
arbitrary programs in the models; the bytes of user memory; the memory of path parts
and directory items, which `fopen` never frees. Two undefined behaviours are assumed
away and listed as hazards: a failed `task_new`, whose error code is used as a
pointer, and a failed allocation for an ELF file, which is then read to address 0.
A `kfree` of the null pointer walks a table entry in front of the table; the boot
signature that lies there ends the walk.

Every invariant, step property and refinement of the passing runs is a theorem. What
could follow:

1. `fopen` with the memory of path parts and directory items as allocations of the
   kernel heap, to say how many opens the heap lasts for.
2. The ATA protocol, with the status register as an environment.
