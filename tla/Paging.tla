------------------------------- MODULE Paging -------------------------------
(***************************************************************************)
(* Page directories, as paging.c makes and changes them.  A directory and  *)
(* its tables are one function from the pages of the virtual address space *)
(* to their entries: paging_get_indexes splits the number of a page into   *)
(* the index of a table and the index in it.  An entry has a frame and the *)
(* flags; every mapping of boiOS is open to user code, so that it is       *)
(* absent, read only, or writable.                                         *)
(***************************************************************************)
EXTENDS Integers

CONSTANTS
  PageSize,   \* PAGING_PAGE_SIZE
  Word        \* 2^32, a multiple of it

TotalPages == Word \div PageSize

Pages == 0 .. (TotalPages - 1)

Flags == {"absent", "read", "write"}

PageEntry == [frame : Pages, flags : Flags]

paging_is_aligned(address) == address % PageSize = 0

paging_get_indexes(address) == address \div PageSize

\* "gives a linear memory space": every page is mapped to itself.
paging_new_4gb(flags) == [v \in Pages |-> [frame |-> v, flags |-> flags]]

paging_align_address(ptr) ==
  IF paging_is_aligned(ptr) THEN ptr
                            ELSE (ptr + PageSize - (ptr % PageSize)) % Word

paging_align_to_lower_page(addr) == addr - (addr % PageSize)

paging_get(directory, address) == directory[paging_get_indexes(address)]

paging_set(directory, address, entry) ==
  IF paging_is_aligned(address)
    THEN [directory EXCEPT ![paging_get_indexes(address)] = entry]
    ELSE directory

paging_map(directory, virtual, physical, flags) ==
  IF paging_is_aligned(physical)
    THEN paging_set(directory, virtual,
                    [frame |-> paging_get_indexes(physical), flags |-> flags])
    ELSE directory

\* Both addresses go up by a page in every turn, and wrap.
paging_map_range(directory, virtual, physical, total_pages, flags) ==
  LET turn(v)  == (v - paging_get_indexes(virtual)) % TotalPages
      frame(v) == (paging_get_indexes(physical) + turn(v)) % TotalPages
  IN  [v \in Pages |-> IF turn(v) < total_pages
                         THEN [frame |-> frame(v), flags |-> flags]
                         ELSE directory[v]]

\* Whether paging_map_to gets past its tests.
Mappable(virtual, physical, physical_end) ==
  /\ \A a \in {virtual, physical, physical_end} : paging_is_aligned(a)
  /\ physical_end >= physical

paging_map_to(directory, virtual, physical, physical_end, flags) ==
  IF Mappable(virtual, physical, physical_end)
    THEN paging_map_range(directory, virtual, physical,
                          (physical_end - physical) \div PageSize, flags)
    ELSE directory

paging_get_physical_address(directory, address) ==
  LET page == paging_align_to_lower_page(address) IN
  paging_get(directory, page).frame * PageSize + (address - page)

=============================================================================
