\* Two streams, so that one can be a server and the other its connection.
SPECIFICATION StreamSpec
CONSTANTS
  Threads = {main}
  Streams = {s1, s2}
INVARIANTS
  LifetimeInv
  ReleasedOnceWhileRunning
PROPERTIES
  ClosedIsFreed
