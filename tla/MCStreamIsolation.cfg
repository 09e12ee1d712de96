SPECIFICATION StreamSpec
CONSTANTS
  Threads = {main, worker}
  Streams = {s1, s2}
PROPERTY FullIsolation
