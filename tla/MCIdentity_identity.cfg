SPECIFICATION Spec
CONSTANTS
  Commit = {"r", "x", "a", "b", "m"}
  Parents <- Diamond
  Branch = {"topic"}
  Source <- Sources
  Process = {p, q}
  MaxReviews = 3
  Gone = Gone
  None = None
INVARIANTS SameReviewAgain ReachedByItsName JoinsTheNearest
SYMMETRY TwoProcesses
CONSTRAINT Apart
