SPECIFICATION Spec
CONSTANTS
  u1 = u1
  u2 = u2
  c1 = c1
  c2 = c2
  e1 = e1
  s1 = s1
  s2 = s2
  User <- TwoUsers
  ChoreId <- TwoChores
  EventId <- NoEvent
  Form <- SharedAndPrivate
  Nobody = Nobody
  HalfI64 = 4
  MaxDelta = 3
  MaxInstant = 2
  MaxTime = 0
  MaxCompletions = 2
  Session <- TwoSessions
  UserOf <- OwnTab
  Capacity = 1
  Gone = Gone
  Database <- WithChores
  MaxOps = 3
INVARIANTS
  TypeOK
  ReplicaMirrorsStore
  EveryChangePublished
  DisorderNeedsOverlap
  BadgeErrsOnlyOnHidden
