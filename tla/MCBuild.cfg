SPECIFICATION Spec
CONSTANTS
  Programs <- MCPrograms
  CModules <- MCCModules
  CIdent <- MCCIdent
  Source <- MCSource
  Targets <- MCTargets
  InputNames <- MCInputNames
  Qncs = {q1, q2, q3}
  FileNames <- MCFileNames
  Contents <- MCContents
  Overlap = FALSE
INVARIANTS
  UnitsInv
  BinaryReplays
  ResolversAgree
  RunsWhatWasPacked
PROPERTIES
  StartedRunExecs
CHECK_DEADLOCK FALSE
