SPECIFICATION DocsSpec
CONSTANTS
  Clones = {a, b}
  Minors = {9, 10}
  MaxPatch = 0
  MaxFailedJobs = 1
INVARIANTS
  NewerVersionStays
