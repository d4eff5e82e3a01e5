SPECIFICATION Spec
CONSTANTS
  n1 = n1  n2 = n2  b1 = b1  b2 = b2  p1 = p1
  Kind = {"github", "gitlab"}
  Worlds <- Faults
  Opened <- Untouched
  MaxByHand = 0  MaxGone = 0
  OutsideDiff = {}
  NoteId = {n1, n2}
  PlaceOf <- SamePlace
  Body = {b1, b2}
  Place = {p1}
  Absent = Absent  NoNote = NoNote
INVARIANTS AtMostOnce AddressIsItsOwn
SYMMETRY Wordings
