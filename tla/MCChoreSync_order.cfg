SPECIFICATION Spec
CONSTANTS
  u1 = u1
  u2 = u2
  c1 = c1
  c2 = c2
  e1 = e1
  s1 = s1
  s2 = s2
  User <- TwoUsers
  ChoreId <- OneChore
  EventId <- NoEvent
  Form <- SharedAndPrivate
  Nobody = Nobody
  HalfI64 = 4
  MaxDelta = 3
  MaxInstant = 2
  MaxTime = 0
  MaxCompletions = 2
  Session <- TwoSessions
  UserOf <- OwnTab
  Capacity = 3
  Gone = Gone
  Database <- FirstStart
  MaxOps = 3
INVARIANT
  ReplicaAlwaysMirrors
