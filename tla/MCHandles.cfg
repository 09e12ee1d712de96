\* Two child processes, two file watchers; one of the kinds whose structs
\* never meet another of their kind.
CONSTANTS
  Processes = {p1, p2}
  Dgrams = {d1}
  MaxSends = 3
  Ptys = {t1}
  FsEvents = {f1, f2}
  Signals = {s1}
  StdioEntries = {"stream", "null"}
  MaxFd = 3
  CloseLimit = 4
SPECIFICATION Spec
INVARIANTS
  StructsOutliveOwners
  ReportsAreTrue
  SpawnSyncInv
  SetsidInv
PROPERTIES
  ForgottenIsFreed
  EndsAreReported
CHECK_DEADLOCK FALSE
