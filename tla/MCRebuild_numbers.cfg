CONSTANTS
    Blank = Blank
    Absent = Absent
    Nul = Nul
    A = A
    B = B
    p = p
    q = q
    Path <- MCPath
    Entry <- MCEntry
    Edits <- MCEdits
    RequestContext = 1
SPECIFICATION Spec
INVARIANT BothNumbersAreOneLine
CHECK_DEADLOCK FALSE
