SPECIFICATION Spec
CONSTANTS
  c1 = c1
  c2 = c2
  u1 = u1
  u2 = u2
  Copies <- MCCopies
  Finishers <- MCFinishers
  Installed = 1
  Offers = {2, 3}
  MaxFolders = 3
  MaxStarts = 2
  MaxInstalls = 2
  MaxKills = 1
  MaxEvents = 4
SYMMETRY Symmetry
INVARIANT TypeOK
PROPERTY FoldersAreKept CurrentMovesForward
CHECK_DEADLOCK FALSE
