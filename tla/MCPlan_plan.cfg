SPECIFICATION Spec
CONSTANTS
  Changes <- AllChanges
  Answers <- AllAnswers
  Elsewhere <- Others
  Follows <- SameKey
  Garbage = garbage
  NoAnswer = noanswer
INVARIANTS
  TypeOK
  EveryHunkHasAStep
  RightTier
  FoundationFirst
  NothingBrokenNeedlessly
PROPERTIES
  IsAWalk
