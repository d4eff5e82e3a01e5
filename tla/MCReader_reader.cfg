SPECIFICATION Spec
CONSTANTS
  Context = 1
  Step = 2
  Path <- TwoPaths
  FileLen <- TwoLengths
  Hunks <- FourHunks
  Groups <- ThreeGroups
  Notes <- TwoNotes
  Threads <- OneThread
  MostRevealed = 3
  MaxGrown = 3
  Sought = {2, 6, 8}
VIEW WithoutCursor
INVARIANTS RowsAreTrue HiddenIsOffered SelectionIsSeen
PROPERTIES JumpsLand BackReturns
