CONSTANTS
  VGA_WIDTH = 5
  VGA_HEIGHT = 2
  MaxRows = 23
  Keys = {97, 32, 9}
  Banner <- MCBanner
  cwd <- MCCwd
  PromptFormat <- MCPromptFormat
  LineSize = 4
  ArgumentSize = 3
  MaxAllocations = 2
  Numbers <- MCNumbers
  TextSize = 5
  MaxTurns = 2
  MaxTabs = 1
  Leftovers <- MCLeftovers
  MaxMisprints = 1
  NoNumber = NoNumber
SPECIFICATION Spec
INVARIANTS TypeOK LineShown ArgumentsAreWords NumberShown
PROPERTIES PromptKept ImplementsEditor
