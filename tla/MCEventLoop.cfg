\* EventLoop with two timers, two operations, one promise and two jobs.
SPECIFICATION Spec
CONSTANTS
  Timers = {t1, t2}
  Ops = {o1, o2}
  Promises = {p1}
  MaxJobs = 2
INVARIANTS
  NeverSleepsOnJob
  CleanExit
PROPERTIES
  JobsServed
