SPECIFICATION Spec
CONSTANTS
  Room = 1
  Input = 2
  MaxOutput <- Words
  Pick = TRUE
  Commits = 3
  Burst = 2
  Sizes = {1, 2}
  MaxQueue = 2
CHECK_DEADLOCK FALSE
INVARIANTS WholeAnswer NothingLeft ToldTrue InStep
PROPERTY CallsEnd
