\* Two requests, one admin command, three flushes, one failure.
SPECIFICATION FairSpec
CONSTANTS
  Change = {c1, c2}
  AdminChange = {a1}
  Absent = Absent
  Torn = Torn
  MaxFailures = 1
  MaxCommits = 3
INVARIANTS
  TypeOK
  FlushedSurvives
  HistoryGrows
PROPERTIES
  ChangeReachesDisk
  VaultSpec
