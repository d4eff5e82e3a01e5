SPECIFICATION Spec
CONSTANTS
  n1 = n1  n2 = n2  b1 = b1  b2 = b2  p1 = p1
  Kind = {"github", "gitlab"}
  Worlds <- Alone
  Opened <- OneThread
  MaxByHand = 1  MaxGone = 1
  OutsideDiff = {}
  NoteId = {n1, n2}
  PlaceOf <- SamePlace
  Body = {b1, b2}
  Place = {p1}
  Absent = Absent  NoNote = NoNote
INVARIANT LastWord
PROPERTY CallsEnd
