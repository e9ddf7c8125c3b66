\* The tool is used beside a running server; nothing fails.
SPECIFICATION Spec
CONSTANTS
  Change = {c1, c2}
  AdminChange = {a1, a2}
  Absent = Absent
  Torn = Torn
  MaxFailures = 0
  MaxCommits = 2
SYMMETRY Interchangeable
INVARIANTS
  AdminChangeKept
