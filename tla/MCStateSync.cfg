SPECIFICATION FairSpec
CONSTANTS
  p1 = p1  p2 = p2  main = main  slice = slice  none = none
  Process <- MCProcess
  Branch <- MCBranch
  Parent <- MCParent
  Gives <- MCGives
  NoBranch <- none
  Keep = 1
  MaxWork = 1
  MaxCommands = 3
  MaxCrashes = 1
  MaxMoves = 1
INVARIANTS
  HeldInSection
PROPERTIES
  LockIsMutex
  KeepsLastCopy
  CommandsReturn
CHECK_DEADLOCK FALSE
