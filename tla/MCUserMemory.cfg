CONSTANTS
  TotalEntries = 11
  BlockSize = 4
  StartAddress = 20
  Word = 72
  Sizes = {1, 6}
  Procs = {p1, p2}
  MaxAllocations = 2
  ProgramAddress = 8
  StackAddress = 4
  Images <- MCImages
  NoImage = NoImage
SPECIFICATION Spec
SYMMETRY Symmetry
INVARIANTS TypeOK Isolation AllocationsUsable FileInPlace
PROPERTY ExitGivesBack
