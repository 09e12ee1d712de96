SPECIFICATION PollSpec
CONSTANTS
  Fds = {f1, f2}
  Polls = {p1, p2, p3, p4}
INVARIANTS
  EntriesInv
PROPERTIES
  ClearedIsNotCalled
SYMMETRY Perms
