SPECIFICATION Spec
CONSTANTS
  Context = 0
  Step = 1
  MostRevealed = 0
  Path <- TwoPaths
  FileLen <- TwoLengths
  Hunks <- TwoHunks
  Groups <- OneGroup
  Uses <- OneUse
  Threads <- OneThread
  MostPlaces = 1
  MaxNotes = 1
PROPERTIES OnlyWhatWasAsked NotesAreFiledWhereAsked NotesGoByHand
CONSTRAINT Apart
