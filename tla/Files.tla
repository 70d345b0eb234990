-------------------------------- MODULE Files --------------------------------
(***************************************************************************)
(* The files of boiOS: the descriptor table of file.c over the open, read, *)
(* seek, stat and close of fat16.c.  The callers are in the kernel.  They  *)
(* hold a number, which is the index of a slot plus one, and 0 means that  *)
(* nothing was opened.                                                     *)
(***************************************************************************)
EXTENDS Fat16

CONSTANTS
  MaxDescriptors,   \* BOIOS_MAX_FILE_DESCRIPTORS
  Signatures,       \* what the header of the disk may have as signature
  Paths,            \* what fopen is given: a text and a mode
  Contents,         \* what was written to the file that starts at a cluster
  Offsets,          \* what fseek is given
  Reads,            \* what fread is given: size and nmemb
  Word,             \* 2^32: a position is a uint32_t
  NULL              \* the null pointer

ASSUME FilesAssumption ==
  /\ MaxDescriptors \in Nat \ {0}
  /\ Offsets \subseteq Int
  /\ Reads \subseteq [size : Nat, nmemb : Nat]
  /\ Word \in Nat \ {0}

VARIABLES
  filesystem,         \* disk->filesystem: whether there is one
  file_descriptors,   \* the descriptors that are open, with their fat16 data
  held                \* history: for each number in use, what was opened

vars == <<filesystem, file_descriptors, held>>

-----------------------------------------------------------------------------
Slots == 0 .. (MaxDescriptors - 1)

FreeSlots == {i \in Slots : file_descriptors[i] = NULL}

\* Mutant of file_get_descriptor: the number is taken for the index.
file_get_descriptor_by_index(fd) ==
  IF fd <= 0 \/ fd >= MaxDescriptors THEN NULL ELSE file_descriptors[fd]

\* The last slot has a number that is refused here.
file_get_descriptor(fd) ==
  IF fd <= 0 \/ fd >= MaxDescriptors THEN NULL ELSE file_descriptors[fd - 1]

\* Mutant of Unsigned: the offset keeps its sign.
UnsignedSigned(offset) == offset

\* fseek takes an int, fat16_seek a uint32_t.  A negative offset is large.
Unsigned(offset) == offset % Word

\* The items of size bytes, one after the other; the position stays.
fat16_read(desc, size, nmemb) ==
  LET items == [i \in 1 .. nmemb |->
                  fat16_read_internal(desc.item.cluster,
                                      desc.position + (i - 1) * size, size)]
      upto[i \in 0 .. nmemb] ==
        IF i = 0 THEN << >> ELSE upto[i - 1] \o items[i].bytes
  IN  IF \A i \in 1 .. nmemb : items[i].ok
        THEN [ok |-> TRUE, bytes |-> upto[nmemb]]
        ELSE Failed

-----------------------------------------------------------------------------
\* fs_resolve: the only file system is asked whether the disk is its own.
fat16_resolve(signature) == signature = 41

\* fs_init clears the table, and then the disk is looked at.
Init ==
  /\ filesystem \in {fat16_resolve(signature) : signature \in Signatures}
  /\ file_descriptors = [i \in Slots |-> NULL]
  /\ held = {}

\* The tests of fopen and of fat16_open, in order.
CanOpen(path) ==
  /\ pathparser_path_valid_format(path.text)
  /\ Len(pathparser_parse(path.text)) > 0
  /\ pathparser_get_drive_by_path(path.text) = 0
  /\ filesystem
  /\ path.mode = "r"
  /\ fat16_get_directory_entry(pathparser_parse(path.text)) # NotFound

\* A new descriptor in the first free slot, at the first byte.
Fopen(path) ==
  /\ CanOpen(path)
  /\ FreeSlots # {}
  /\ LET i    == CHOOSE i \in FreeSlots : \A j \in FreeSlots : i <= j
         item == fat16_get_directory_entry(pathparser_parse(path.text))
     IN  /\ file_descriptors' = [file_descriptors EXCEPT ![i] =
                [index |-> i + 1, item |-> item, position |-> 0]]
         /\ held' = held \cup {[fd |-> i + 1, path |-> path]}
  /\ UNCHANGED filesystem

\* A path that is refused, or no slot: the caller gets 0.
FopenFails(path) ==
  /\ ~CanOpen(path) \/ FreeSlots = {}
  /\ UNCHANGED vars

\* fat16_seek: the offset is compared with the size, whatever the mode.
Fseek(fd, offset, whence) ==
  LET desc == file_get_descriptor(fd)
      to   == IF whence = "SEEK_SET"
                THEN Unsigned(offset)
                ELSE (desc.position + Unsigned(offset)) % Word
  IN
  /\ desc # NULL
  /\ whence # "SEEK_END"
  /\ desc.item.type = "file"
  /\ Unsigned(offset) < desc.item.size
  /\ file_descriptors' =
       [file_descriptors EXCEPT ![desc.index - 1].position = to]
  /\ UNCHANGED <<filesystem, held>>

\* No such descriptor, a directory, past the size, or a mode that the code
\* does not implement.
FseekFails(fd, offset, whence) ==
  LET desc == file_get_descriptor(fd) IN
  /\ desc # NULL /\ whence # "SEEK_END" =>
       desc.item.type # "file" \/ Unsigned(offset) >= desc.item.size
  /\ UNCHANGED vars

\* fstat, and fread, which leaves the position where it is.
Fread(fd) == UNCHANGED vars

Fclose(fd) ==
  LET desc == file_get_descriptor(fd) IN
  /\ desc # NULL
  /\ file_descriptors' = [file_descriptors EXCEPT ![desc.index - 1] = NULL]
  /\ held' = {h \in held : h.fd # fd}
  /\ UNCHANGED filesystem

FcloseFails(fd) ==
  /\ file_get_descriptor(fd) = NULL
  /\ UNCHANGED vars

Numbers == 0 .. (MaxDescriptors + 1)

Next ==
  \/ \E path \in Paths : Fopen(path) \/ FopenFails(path)
  \/ \E fd \in Numbers :
       \/ \E offset \in Offsets, whence \in {"SEEK_SET", "SEEK_CUR", "SEEK_END"} :
            Fseek(fd, offset, whence) \/ FseekFails(fd, offset, whence)
       \/ Fread(fd)
       \/ Fclose(fd) \/ FcloseFails(fd)

Spec == Init /\ [][Next]_vars

-----------------------------------------------------------------------------
\* A descriptor knows its slot, and has a position from 0.
TypeOK ==
  \A i \in Slots :
    LET desc == file_descriptors[i] IN
    desc # NULL => /\ desc.index = i + 1
                   /\ desc.position \in 0 .. (Word - 1)

\* The slots of files; a directory can be opened too.
OpenFiles == {i \in Slots : /\ file_descriptors[i] # NULL
                            /\ file_descriptors[i].item.type = "file"}

-----------------------------------------------------------------------------
(***************************************************************************)
(* What a path names, by the definition of FAT16: an entry in use whose 8  *)
(* and 3 bytes are the name and the extension in capitals, filled with     *)
(* spaces.                                                                 *)
(***************************************************************************)
Capital(c) == IF c \in 97 .. 122 THEN c - 32 ELSE c

Padded(text, n) ==
  [i \in 1 .. n |-> IF i \in DOMAIN text THEN Capital(text[i]) ELSE Space]

HasName(entry, name) ==
  \E k \in 0 .. Len(name) :
    LET ext == SubSeq(name, k + 2, Len(name)) IN
    /\ k <= 8 /\ Len(ext) <= 3
    /\ k < Len(name) => name[k + 1] = Dot /\ ext # << >>
    /\ entry.file_name = Padded(SubSeq(name, 1, k), 8)
    /\ entry.ext = Padded(ext, 3)

\* The entries of a directory end with it, or at the first blank one.
OwnEntries(cluster) ==
  {i \in Used(Directories[cluster]) : i <= DirectorySize[cluster]}

Named(cluster, name) ==
  {entry \in {Directories[cluster][i] : i \in OwnEntries(cluster)} :
     /\ entry.file_name[1] # Deleted
     /\ FAT_FILE_VOLUME_LABEL \notin entry.attributes
     /\ HasName(entry, name)}

There(parts) ==
  LET upto[i \in 0 .. Len(parts)] ==
        IF i = 0
          THEN {[type |-> "directory", cluster |-> Root, size |-> 0]}
          ELSE UNION {{fat16_new_fat_item_or_directory_item(entry) :
                         entry \in Named(d.cluster, parts[i])} :
                        d \in {x \in upto[i - 1] : x.type = "directory"}}
  IN  upto[Len(parts)]

(***************************************************************************)
(* "get the fat16 item from path" (fat16.c:508): a path on drive 0 can be  *)
(* opened for reading exactly when it is not too long and its file or      *)
(* directory is there, also when entries before it were deleted or hold a  *)
(* label, when names are as long as they can be, and in small letters.     *)
(***************************************************************************)
OpensWhatIsThere ==
  filesystem =>
    \A path \in Paths :
      path.mode = "r" /\ SubSeq(path.text, 1, 3) = <<48, 58, Slash>> =>
        LET parts == PathParts(path.text) IN
        parts # << >> =>
          (CanOpen(path) <=> Len(path.text) <= MaxPath /\ There(parts) # {})

(***************************************************************************)
(* A number that fopen returned stands for what its path names, until it   *)
(* is closed, whatever else is opened and closed meanwhile; and a slot is  *)
(* in use only while somebody holds its number.  The number of the last    *)
(* slot is left out: file_get_descriptor refuses it.                       *)
(***************************************************************************)
NumberNamesFile ==
  /\ \A h \in held :
       h.fd < MaxDescriptors =>
         /\ file_get_descriptor(h.fd) # NULL
         /\ file_get_descriptor(h.fd).item \in There(pathparser_parse(h.path.text))
  /\ {i \in Slots : file_descriptors[i] # NULL} = {h.fd - 1 : h \in held}

(***************************************************************************)
(* "get the correct cluster based on the starting cluster and offset"      *)
(* (fat16.c:320): fread of bytes that are in the file returns what was     *)
(* written there, over the borders of sectors and clusters and from every  *)
(* position that fseek can reach.                                          *)
(***************************************************************************)
ReadsContents ==
  \A i \in OpenFiles : \A r \in Reads :
    LET desc  == file_descriptors[i]
        total == r.size * r.nmemb
    IN
    desc.position + total <= desc.item.size =>
      fat16_read(desc, r.size, r.nmemb) =
        [ok    |-> TRUE,
         bytes |-> SubSeq(Contents[desc.item.cluster], desc.position + 1,
                          desc.position + total)]

-----------------------------------------------------------------------------
\* The paths that are more than a drive, and what fat16_open gets for one.
Walked == {path \in Paths : Len(pathparser_parse(path.text)) > 0}

ItemOf(path) == fat16_get_directory_entry(pathparser_parse(path.text))

\* A descriptor that is open.
Descriptor == [index : Nat, item : {ItemOf(path) : path \in Walked},
               position : 0 .. (Word - 1)]

ASSUME NullAssumption == NULL \notin Descriptor

-----------------------------------------------------------------------------
(***************************************************************************)
(* What the theorems ask of the disk.  No directory is full: a blank entry *)
(* is among its own.  No entry has the mark of deleted ones in byte 5,     *)
(* which the count leaves out.  The names of files and directories are in  *)
(* capitals and filled with spaces, no two of a directory are the same,    *)
(* and directories are where their entries say.                            *)
(***************************************************************************)
InUse(entries) ==
  {i \in Used(entries) : /\ entries[i].file_name[1] # Deleted
                         /\ FAT_FILE_VOLUME_LABEL \notin entries[i].attributes}

Filled(bytes) ==
  \A i \in DOMAIN bytes :
    /\ bytes[i] # 0 /\ Capital(bytes[i]) = bytes[i]
    /\ bytes[i] = Space => \A j \in DOMAIN bytes : j >= i => bytes[j] = Space

Formatted(entries) ==
  /\ \A i \in Used(entries) : entries[i].file_name[6] # Deleted
  /\ \A i \in InUse(entries) :
       /\ Filled(entries[i].file_name) /\ Filled(entries[i].ext)
       /\ FAT_FILE_SUBDIRECTORY \in entries[i].attributes =>
            entries[i].cluster \in DOMAIN Directories
       /\ \A j \in InUse(entries) :
            fat16_get_full_relative_filename(entries[i])
              = fat16_get_full_relative_filename(entries[j]) => i = j

HasRoom(d) ==
  \E i \in DOMAIN Directories[d] :
    i <= DirectorySize[d] /\ Directories[d][i].file_name[1] = 0

FormattedDisk ==
  \A d \in DOMAIN Directories : HasRoom(d) /\ Formatted(Directories[d])

(***************************************************************************)
(* And of the paths: no spaces and no mark of deleted entries in them, and *)
(* nobody asks for a label, which the code would take for a file, or goes  *)
(* up with two dots: for them a directory of the root has the cluster 0,   *)
(* which the code does not know for the root.                              *)
(***************************************************************************)
PlainPaths ==
  \A path \in Paths :
    /\ path.text \in Seq((1 .. 255) \ {Space, Deleted})
    /\ \A k \in DOMAIN PathParts(path.text) :
         /\ PathParts(path.text)[k] # <<Dot, Dot>>
         /\ \A d \in DOMAIN Directories : \A i \in Used(Directories[d]) :
              FAT_FILE_VOLUME_LABEL \in Directories[d][i].attributes =>
                ~istrncmp(fat16_get_full_relative_filename(Directories[d][i]),
                          PathParts(path.text)[k])

\* Where FAT16 has a cluster: behind the tables and the root directory.
ClusterAt(cluster) ==
  (ReservedSectors + FatCopies * SectorsPerFat) * SectorSize
    + RootEntries * EntrySize + (cluster - 2) * ClusterBytes

(***************************************************************************)
(* The root directory fills whole sectors, files fit in one cluster, which *)
(* is where FAT16 has it, and nobody reads items of no bytes.              *)
(***************************************************************************)
SmallFiles ==
  /\ (RootEntries * EntrySize) % SectorSize = 0
  /\ \A r \in Reads : r.size # 0
  /\ \A path \in Walked :
       LET item == ItemOf(path) IN
       item.type = "file" =>
         /\ item.cluster \in Nat /\ item.cluster >= 2
         /\ item.size \in 0 .. ClusterBytes
         /\ \A k \in 1 .. item.size :
              Contents[item.cluster][k] = Byte(ClusterAt(item.cluster) + k - 1)

=============================================================================
