SPECIFICATION Spec
CONSTANTS
  u1 = u1
  u2 = u2
  c1 = c1
  c2 = c2
  e1 = e1
  User <- MCUser
  ChoreId <- TwoChores
  EventId <- MCEventId
  Form <- AllKinds
  Nobody = Nobody
  HalfI64 = 4
  MaxDelta = 3
  MaxInstant = 2
  MaxTime = 1
  MaxCompletions = 2
SYMMETRY TwoSymmetry
INVARIANTS
  TypeOK
  NoCircularWait
  DependenciesCameFirst
  HistoryMostRecentLast
PROPERTIES
  OnlyDeletionReblocks
  DeletedDependencyFreezes
  CompletionResetsTimer
  OnlyCompletionBreaksList
  OneOffLeavesForGood
  SecondCompletionHarmless
