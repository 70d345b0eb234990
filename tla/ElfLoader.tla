----------------------------- MODULE ElfLoader -----------------------------
(***************************************************************************)
(* The ELF loader: what elfloader.c accepts, and what it computes from the *)
(* program headers of a file that is in memory.  A file has a size, the    *)
(* fields of its header that are looked at, and its program headers.       *)
(***************************************************************************)
EXTENDS Integers, Sequences

CONSTANT Word

ELFCLASSNONE == 0
ELFCLASS32   == 1
ELFDATANONE  == 0
ELFDATA2LSB  == 1
PT_LOAD      == 1

ProgramHeader == [p_type : Nat, p_offset : Nat, p_vaddr : Nat,
                  p_filesz : Nat, p_memsz : Nat, writable : BOOLEAN]

\* signature: whether the first four bytes are those of an ELF file.
Header == [signature : BOOLEAN, class : Nat, data : Nat, e_phoff : Nat]

elf_valid_class(header) == header.class \in {ELFCLASSNONE, ELFCLASS32}

elf_valid_encoding(header) == header.data \in {ELFDATANONE, ELFDATA2LSB}

elf_has_program_header(header) == header.e_phoff # 0

\* elf_is_executable is not among the tests: nothing calls it.
elf_validate_loaded(header) ==
  /\ header.signature
  /\ elf_valid_class(header)
  /\ elf_valid_encoding(header)
  /\ elf_has_program_header(header)

elf_phdr_phys_address(memory, phdr) == (memory + phdr.p_offset) % Word

\* The lowest start and the highest end so far.  0 means that there is none.
elf_process_phdr_pt_load(f, phdr) ==
  LET end      == (phdr.p_vaddr + phdr.p_filesz) % Word
      physical == elf_phdr_phys_address(f.elf_memory, phdr)
      g        == IF f.virtual_base >= phdr.p_vaddr \/ f.virtual_base = 0
                    THEN [f EXCEPT !.virtual_base = phdr.p_vaddr,
                                   !.physical_base = physical]
                    ELSE f
  IN  IF g.virtual_end <= end \/ g.virtual_end = 0
        THEN [g EXCEPT !.virtual_end = end,
                       !.physical_end = (physical + phdr.p_filesz) % Word]
        ELSE g

elf_process_pheaders(f, phdrs) ==
  LET turn[k \in 0 .. Len(phdrs)] ==
        CASE k = 0 -> f
          [] k > 0 /\ phdrs[k].p_type = PT_LOAD ->
               elf_process_phdr_pt_load(turn[k - 1], phdrs[k])
          [] OTHER -> turn[k - 1]
  IN  turn[Len(phdrs)]

\* struct elf_file after elf_load: at an address, with the file in memory.
elf_load(at, memory, phdrs) ==
  elf_process_pheaders([at |-> at, elf_memory |-> memory,
                        virtual_base |-> 0, virtual_end |-> 0,
                        physical_base |-> 0, physical_end |-> 0], phdrs)

=============================================================================
