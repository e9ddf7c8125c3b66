\* Two messages in three ticks, for almost four seconds.
SPECIFICATION Spec
CONSTANTS
  MAX_MSG_PER_SEC = 2
  Second = 3
  MaxTime = 10
INVARIANTS
  TypeOK
  AtMostTwice
PROPERTY
  PatientClientKept
CHECK_DEADLOCK FALSE
