------------------------------- MODULE MCFiles -------------------------------
(***************************************************************************)
(* A disk with sectors of 4 bytes and clusters of 2 sectors, formatted the *)
(* way FAT16 is defined: reserved sectors, two copies of the table, the    *)
(* root directory and the clusters, numbered from 2.  There are two files, *)
(* one of them in a directory.  They come in two layouts.                  *)
(***************************************************************************)
EXTENDS Files

CONSTANT Chains   \* the clusters of each file and directory, in order

OneCluster == {<<2>>, <<4>>, <<6>>}

TwoClusters == {<<2, 3>>, <<4>>, <<6>>}

-----------------------------------------------------------------------------
\* Where FAT16 has the first table, the clusters, and each cluster.
TableStart == ReservedSectors * 4

DataStart == (ReservedSectors + 2 * SectorsPerFat) * 4 + RootEntries * EntrySize

ClusterStart(c) == DataStart + (c - 2) * 8

\* The entry of a cluster: the next one of its chain, or the end mark.
FatEntry(c) ==
  IF \E s \in Chains : \E i \in 1 .. (Len(s) - 1) : s[i] = c
    THEN CHOOSE n \in 2 .. 5 :
           \E s \in Chains : \E i \in 1 .. (Len(s) - 1) : s[i] = c /\ s[i + 1] = n
    ELSE IF \E s \in Chains : s[Len(s)] = c THEN 65535 ELSE 0

\* Bytes of the data differ from their neighbours.
MCDisk ==
  [position \in 0 .. (DataStart + 39) |->
     CASE position >= DataStart -> 10 + (position % 89)
       [] position \in TableStart .. (TableStart + 15) ->
            LET e == FatEntry((position - TableStart) \div 2)
            IN  IF (position - TableStart) % 2 = 0 THEN e % 256 ELSE e \div 256
       [] OTHER -> 0]

\* What the clusters of a file hold, one after the other.
MCContents ==
  [first \in {s[1] : s \in Chains} |->
     LET s == CHOOSE s \in Chains : s[1] = first
     IN  [k \in 1 .. (8 * Len(s)) |->
            MCDisk[ClusterStart(s[((k - 1) \div 8) + 1]) + ((k - 1) % 8)]]]

SizeOf(first) == 8 * Len(CHOOSE s \in Chains : s[1] = first)

\* Letters a, b and so on, and the rest of a name.
Letters(n) == [i \in 1 .. n |-> 64 + i]
Blank(n)   == [i \in 1 .. n |-> Space]

Entry(name, ext, attributes, first, size) ==
  [file_name |-> name \o Blank(8 - Len(name)), ext |-> ext \o Blank(3 - Len(ext)),
   attributes |-> attributes, cluster |-> first, file_size |-> size]

BlankEntry == [Entry(<< >>, << >>, {}, 0, 0) EXCEPT !.file_name[1] = 0]

(***************************************************************************)
(* The root has a label, the directory AB, an entry that was deleted (its  *)
(* name was AC), the file A and, after a blank entry, an old one.  In AB,  *)
(* besides itself and the directory above, is the file ABCDEFGH.ABC, which *)
(* does not fill its cluster.  AB has room for one more entry.             *)
(***************************************************************************)
MCDirectories ==
  [d \in {Root, 6} |->
     IF d = Root
       THEN <<Entry(Letters(4), << >>, {FAT_FILE_VOLUME_LABEL}, 0, 0),
              Entry(Letters(2), << >>, {FAT_FILE_SUBDIRECTORY}, 6, 0),
              Entry(<<Deleted, 67>>, << >>, {}, 4, 5),
              Entry(Letters(1), << >>, {}, 2, SizeOf(2)),
              BlankEntry,
              Entry(Letters(3), << >>, {}, 2, 1)>>
       ELSE <<Entry(<<Dot>>, << >>, {FAT_FILE_SUBDIRECTORY}, 6, 0),
              Entry(<<Dot, Dot>>, << >>, {FAT_FILE_SUBDIRECTORY}, 0, 0),
              Entry(Letters(8), Letters(3), {}, 4, 5),
              BlankEntry>>]

\* The root with a second file in the place of its blank entry, and after it
\* what is next on the disk, which begins with a file's bytes.
MCFullRoot ==
  [MCDirectories[Root] EXCEPT ![5] = Entry(Letters(2), Letters(1), {}, 4, 5)]
    \o <<Entry(Letters(5), Letters(2), {}, 7, 9),
         Entry(Letters(6), Letters(1), {}, 8, 3), BlankEntry>>

MCDirectorySize == [d \in {Root, 6} |-> IF d = Root THEN 6 ELSE 4]

Path(text) == [mode |-> "r", text |-> <<48, 58, Slash>> \o text]

Small(text) == [i \in DOMAIN text |-> text[i] + 32]

\* AB/ABCDEFGH.ABC
Long == Letters(2) \o <<Slash>> \o Letters(8) \o <<Dot>> \o Letters(3)

\* Both files and the directory, and paths that the code must refuse: one is a
\* slash longer than the longest that it takes.
MCPaths ==
  {Path(Small(Letters(1))), Path(Long), Path(Long \o <<Slash>>),
   Path(Letters(2) \o <<Slash, Dot, Slash, Slash, 65>>),
   Path(Letters(1) \o <<Slash, 65>>), Path(Small(Letters(3))),
   Path(<<65, 67>>), Path(SubSeq(Long, 1, 11)), Path(<< >>),
   [Path(Letters(1)) EXCEPT !.text[1] = 49],
   [Path(Letters(1)) EXCEPT !.text[2] = 65],
   [Path(Letters(1)) EXCEPT !.mode = "w"]}

MCReads == [size : 1 .. 5, nmemb : {1, 2}] \cup [size : {8, 12}, nmemb : {1}]

MCOffsets == {-1, 0, 3, 7}

\* The disks meet what the theorems ask of them, one of them with files of one
\* cluster.
ASSUME MCAssumption ==
  FormattedDisk /\ PlainPaths /\ (Chains = OneCluster => SmallFiles)

\* Of a full root the code counts more items than there is room for: the theorems
\* ask for one that is not full.
ASSUME FullAssumption ==
  fat16_get_total_items_for_directory(MCFullRoot) > MCDirectorySize[Root]

=============================================================================
