SPECIFICATION Spec
CONSTANTS
  a1 = a1  a2 = a2  a3 = a3
  f1 = f1  f2 = f2  elsewhere = elsewhere
  Teams <- SmallTeams
  Files <- TwoFiles
  Order <- DiffOrder
  CleoAnswers <- SomeAnswers
  ParallelLimits = {1, 2}
INVARIANTS
  TypeOK
  OneResultEach
  IncompleteIsRed
  VerdictCountsAnswers
  CascadeBounded
  NothingSkipped
PROPERTY RunsEnd
