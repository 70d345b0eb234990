---------------------------- MODULE MCUserMemory ----------------------------
(***************************************************************************)
(* User memory with a heap of a few pages of four bytes.                   *)
(***************************************************************************)
EXTENDS UserMemory, TLC

Symmetry == Permutations(Procs)

MCHeader(valid) ==
  [signature |-> valid, class |-> 1, data |-> 1, e_phoff |-> 1]

Phdr(type, offset, vaddr, filesz, memsz, writable) ==
  [p_type |-> type, p_offset |-> offset, p_vaddr |-> vaddr,
   p_filesz |-> filesz, p_memsz |-> memsz, writable |-> writable]

\* Data before text in the table, and a header that is not loaded.  Both are
\* in one page of the file, and in two pages of the program; the memory of the
\* data is longer than its file.
MCElf == [size   |-> 4,
          header |-> MCHeader(TRUE),
          phdrs  |-> <<Phdr(1, 2, ProgramAddress + BlockSize + 2, 1, 2, TRUE),
                       Phdr(1, 0, ProgramAddress, 2, 2, FALSE),
                       Phdr(7, 0, 0, 0, 0, TRUE)>>]

\* Two pages.
MCBinary == [size |-> 5, header |-> MCHeader(FALSE), phdrs |-> <<>>]

\* A segment whose size in memory takes it past the end of the addresses.
MCTooLarge == [size   |-> 3,
               header |-> MCHeader(TRUE),
               phdrs  |-> <<Phdr(1, 0, ProgramAddress, 3, Word - 4, TRUE)>>]

MCImages == {MCElf, MCBinary, MCTooLarge}

ASSUME MCAssumption ==
  SizesTaken /\ SegmentsInFile /\ FilesFit /\ FilesLinked

=============================================================================
