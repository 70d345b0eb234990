CONSTANTS
  TotalEntries = 5
  BlockSize = 4
  StartAddress = 8
  Word = 64
  Sizes = {0, 1, 4, 7, 12, 62}
SPECIFICATION Spec
INVARIANT AllocationFits
