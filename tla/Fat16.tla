-------------------------------- MODULE Fat16 --------------------------------
(***************************************************************************)
(* How boiOS reads a FAT16 disk: the streamer of streamer.c, which reads   *)
(* bytes sector by sector, and the walk of fat16.c from a path to the      *)
(* first cluster of a file and along its clusters.  The disk does not      *)
(* change, so this module has no state.                                    *)
(***************************************************************************)
EXTENDS FiniteSets, KernelString

CONSTANTS
  SectorSize,          \* BOIOS_SECTOR_SIZE
  SectorsPerCluster,   \* these five are fields of the header on the disk
  ReservedSectors,
  FatCopies,
  SectorsPerFat,
  RootEntries,
  EntrySize,           \* sizeof(struct fat_directory_item)
  Disk,                \* the bytes of the disk, from position 0
  Directories,         \* by the first cluster of each directory: the entries
                       \* from its first on, past its last too
  DirectorySize,       \* how many of them are the directory's own
  Root,                \* what stands for the cluster of the root directory
  MaxPath              \* BOIOS_MAX_PATH

ASSUME Fat16Assumption ==
  /\ {SectorSize, SectorsPerCluster} \subseteq Nat \ {0}
  /\ {ReservedSectors, FatCopies, SectorsPerFat, RootEntries, EntrySize}
       \subseteq Nat
  /\ Root \in DOMAIN Directories
  /\ DirectorySize \in [DOMAIN Directories -> Nat]
  /\ DirectorySize[Root] = RootEntries
  /\ MaxPath \in Nat

-----------------------------------------------------------------------------
\* The drive is always ready in the end, and reads zeros past the image.
Byte(position) == IF position \in DOMAIN Disk THEN Disk[position] ELSE 0

(***************************************************************************)
(* One sector at a time, and recursively for what is left.  A read that    *)
(* ends at the end of a sector reads the sector after it for nothing.      *)
(***************************************************************************)
diskstreamer_read(position, total) ==
  LET read[left \in 0 .. total] ==
        LET from     == position + (total - left)
            offset   == from % SectorSize
            overflow == offset + left >= SectorSize
            n        == IF overflow THEN SectorSize - offset ELSE left
            bytes    == [i \in 1 .. n |-> Byte(from + i - 1)]
        IN  IF overflow THEN bytes \o read[left - n] ELSE bytes
  IN  read[total]

\* The sector after the root directory, as fat16_get_root_directory has it.
EndingSectorPosition ==
  FatCopies * SectorsPerFat + ReservedSectors
    + (RootEntries * EntrySize) \div SectorSize

ClusterBytes == SectorsPerCluster * SectorSize

\* Mutant of fat16_cluster_to_sector: clusters counted from 1.
fat16_cluster_to_sector_from_one(cluster) ==
  EndingSectorPosition + (cluster - 1) * SectorsPerCluster

fat16_cluster_to_sector(cluster) ==
  EndingSectorPosition + (cluster - 2) * SectorsPerCluster

(***************************************************************************)
(* The position of the table is multiplied with that of the entry in it.   *)
(***************************************************************************)
fat16_get_fat_entry(cluster) ==
  LET bytes == diskstreamer_read(
                 (ReservedSectors * SectorSize) * (cluster * 2), 2)
  IN  bytes[1] + 256 * bytes[2]

EIO == -1

\* Last, bad and reserved clusters, and a corrupt table, as the code has them.
StopEntries == {4088, 4095, 4087, 4080, 4086, 0}

\* One entry of the table for each cluster before the offset.
fat16_get_cluster_for_offset(starting_cluster, offset) ==
  LET hop[i \in 0 .. (offset \div ClusterBytes)] ==
        IF i = 0
          THEN starting_cluster
          ELSE LET was == hop[i - 1] IN
               CASE was < 0 -> was
                 [] was >= 0 /\ fat16_get_fat_entry(was) \in StopEntries -> EIO
                 [] OTHER -> fat16_get_fat_entry(was)
  IN  hop[offset \div ClusterBytes]

\* What a read gives: the bytes, unless it fails.
Failed == [ok |-> FALSE, bytes |-> << >>]

(***************************************************************************)
(* One cluster's size at a time, from wherever in the cluster it begins.   *)
(***************************************************************************)
fat16_read_internal(cluster, offset, total) ==
  LET read[left \in 0 .. total] ==
        LET from  == offset + (total - left)
            use   == fat16_get_cluster_for_offset(cluster, from)
            pos   == fat16_cluster_to_sector(use) * SectorSize
                       + (from % ClusterBytes)
            n     == IF left > ClusterBytes THEN ClusterBytes ELSE left
            bytes == diskstreamer_read(pos, n)
        IN  IF use < 0 THEN Failed
            ELSE IF left = n THEN [ok |-> TRUE, bytes |-> bytes]
            ELSE [ok    |-> read[left - n].ok,
                  bytes |-> bytes \o read[left - n].bytes]
  IN  read[total]

-----------------------------------------------------------------------------
Slash == 47

\* A drive, a colon and a slash: 0:/
pathparser_path_valid_format(text) ==
  /\ Len(text) >= 3
  /\ isdigit(text[1])
  /\ text[2] = 58 /\ text[3] = Slash

pathparser_get_drive_by_path(text) == tonumericdigit(text[1])

\* What follows the drive, part by part.  An empty part ends it.
PathParts(text) ==
  LET end(from) == CHOOSE i \in from .. (Len(text) + 1) :
                     /\ i \in DOMAIN text => text[i] = Slash
                     /\ \A j \in from .. (i - 1) : text[j] # Slash
      parts[from \in 4 .. (Len(text) + 4)] ==
        IF from > Len(text) \/ end(from) = from
          THEN << >>
          ELSE <<SubSeq(text, from, end(from) - 1)>> \o parts[end(from) + 1]
  IN  parts[4]

\* A path that is too long has no root, and so no parts.
pathparser_parse(text) ==
  IF Len(text) > MaxPath THEN << >> ELSE PathParts(text)

-----------------------------------------------------------------------------
(***************************************************************************)
(* Directories.  An entry has 8 bytes of name and 3 of extension, filled   *)
(* with spaces, a set of attributes, the first cluster and the size.  The  *)
(* high half of the cluster is 0 on FAT16.                                 *)
(***************************************************************************)
FAT_FILE_VOLUME_LABEL == 8
FAT_FILE_SUBDIRECTORY == 16

DirectoryItem == [file_name : [1 .. 8 -> 0 .. 255], ext : [1 .. 3 -> 0 .. 255],
                  attributes : SUBSET {1, 2, 4, 8, 16, 32}, cluster : Nat,
                  file_size : Nat]

\* Somewhere there is a blank entry: in the directory, or after it.
ASSUME DirectoriesAssumption ==
  \A d \in DOMAIN Directories :
    /\ Directories[d] \in Seq(DirectoryItem)
    /\ \E i \in DOMAIN Directories[d] : Directories[d][i].file_name[1] = 0

Deleted == 229   \* 0xE5
Space   == 32
Dot     == 46

\* The entries before the first blank one.  The loop does not know where the
\* directory ends: of a full one, it takes what follows on the disk as well.
Used(entries) ==
  LET blank == {i \in DOMAIN entries : entries[i].file_name[1] = 0}
  IN  {i \in DOMAIN entries : \A j \in blank : i < j}

\* Mutant of fat16_get_total_items_for_directory: byte 0, where the mark is.
fat16_get_total_items_by_mark(entries) ==
  Cardinality({i \in Used(entries) : entries[i].file_name[1] # Deleted})

\* Byte 5 is compared with the mark of a deleted entry.
fat16_get_total_items_for_directory(entries) ==
  Cardinality({i \in Used(entries) : entries[i].file_name[6] # Deleted})

(***************************************************************************)
(* As many entries as were counted, from the first.  These are on the disk *)
(* while the count is not more than the directory holds.  With more, the   *)
(* code has memory behind the root directory's items, or a second cluster  *)
(* that it cannot find; this is not modelled further.                      *)
(***************************************************************************)
fat16_load_fat_directory(cluster) ==
  SubSeq(Directories[cluster], 1,
         fat16_get_total_items_for_directory(Directories[cluster]))

\* The bytes before a space or 0, or all of them.
fat16_to_proper_string(in) ==
  SubSeq(in, 1, CHOOSE n \in 0 .. Len(in) :
                  /\ \A i \in 1 .. n : in[i] \notin {0, Space}
                  /\ n < Len(in) => in[n + 1] \in {0, Space})

fat16_get_full_relative_filename(item) ==
  fat16_to_proper_string(item.file_name)
    \o (IF item.ext[1] \in {0, Space}
          THEN << >> ELSE <<Dot>> \o fat16_to_proper_string(item.ext))

NotFound == [type |-> "none", cluster |-> 0, size |-> 0]

fat16_new_fat_item_or_directory_item(item) ==
  [type    |-> IF FAT_FILE_SUBDIRECTORY \in item.attributes
                 THEN "directory" ELSE "file",
   cluster |-> item.cluster,
   size    |-> item.file_size]

\* The loop does not stop at a match: the last one counts.
fat16_find_item_in_directory(cluster, name) ==
  LET items == fat16_load_fat_directory(cluster)
      found == {i \in DOMAIN items :
                  istrncmp(fat16_get_full_relative_filename(items[i]), name)}
  IN  IF found = {}
        THEN NotFound
        ELSE fat16_new_fat_item_or_directory_item(
               items[CHOOSE i \in found : \A j \in found : i >= j])

(***************************************************************************)
(* Part by part.  An item that is not a directory has no parts.  When a    *)
(* part is missing and others follow, the code looks at the null pointer;  *)
(* the word it reads there is not the number of a directory.               *)
(***************************************************************************)
fat16_get_directory_entry(parts) ==
  LET walk[i \in 1 .. Len(parts)] ==
        IF i = 1
          THEN fat16_find_item_in_directory(Root, parts[1])
          ELSE IF walk[i - 1].type # "directory"
                 THEN NotFound
                 ELSE fat16_find_item_in_directory(walk[i - 1].cluster,
                                                   parts[i])
  IN  walk[Len(parts)]

=============================================================================
