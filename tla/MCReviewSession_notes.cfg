SPECIFICATION Spec
CONSTANTS
  written = written
  pulled_up = pulled_up
  rewritten = rewritten
  twin = twin
  reverted = reverted
  Plan <- MCPlan
  HunksOf <- MCHunksOf
  File <- MCFile
  Text <- MCText
  Lossy <- MCLossy
  NoText = ""
  Pointed <- MCPointed
  Session = {tui}
  NoteId = {i}
  Body = {b1, b2}
  Absent = Absent
  NoPlan = NoPlan
  Markable <- NoDigest
  Cursor = {}
  NoCursor = NoCursor
  Layout = {unified}
  NoLayout = NoLayout
PROPERTIES
  IsANoteBook
INVARIANTS
  TypeOK
  LiveNotesOnScreen
