SPECIFICATION Spec
CONSTANTS
  written = written
  pulled_up = pulled_up
  rewritten = rewritten
  twin = twin
  reverted = reverted
  Plan <- FewPlans
  HunksOf <- MCHunksOf
  File <- MCFile
  Text <- MCText
  Lossy <- MCLossy
  NoText = ""
  Pointed <- HeaderOnly
  Session = {tui, cli}
  NoteId = {i}
  Body = {b1}
  Absent = Absent
  NoPlan = NoPlan
  Markable <- SomeDigest
  Cursor = {c1}
  NoCursor = NoCursor
  Layout = {}
  NoLayout = NoLayout
SYMMETRY Alike
INVARIANTS
  NotesExplained
  NothingLost
