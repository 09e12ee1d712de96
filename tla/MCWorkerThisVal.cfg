SPECIFICATION Spec
CONSTANTS
  MaxMsgs = 2
INVARIANT ThisValReleasedOnce
