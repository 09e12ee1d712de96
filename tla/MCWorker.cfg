\* Up to MaxMsgs messages in flight in each direction.
SPECIFICATION Spec
CONSTANTS
  MaxMsgs = 2
INVARIANTS
  PipeInv
PROPERTIES
  NoReadAfterTerminate
  WorkerEndReleasesParent
  TerminateEndsIdleWorker
