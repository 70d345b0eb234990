CONSTANTS
  SectorSize = 4
  SectorsPerCluster = 2
  ReservedSectors = 2
  FatCopies = 2
  SectorsPerFat = 4
  RootEntries = 6
  EntrySize = 4
  Chains <- OneCluster
  Disk <- MCDisk
  Directories <- MCDirectories
  DirectorySize <- MCDirectorySize
  Root = 0
  MaxPath = 18
  MaxDescriptors = 3
  Signatures = {0, 41}
  Paths <- MCPaths
  Contents <- MCContents
  Offsets <- MCOffsets
  Reads <- MCReads
  Word = 32
  NULL = NULL
SPECIFICATION Spec
INVARIANTS TypeOK OpensWhatIsThere NumberNamesFile ReadsContents
