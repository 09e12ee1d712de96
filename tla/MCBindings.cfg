\* Two files, requests, connections and statements: the least with which a
\* number or a row of one can be mistaken for that of another.
CONSTANTS
  Files = {f1, f2}
  Requests = {r1}
  MaxOpens = 2
  RsChunks = 2
  MaxRuns = 2
  MaxSandboxPosts = 2
  ZUnits = 3
  HeaderLen = 2
  HeaderLimit = 4
  MaxName = 2
  TrailerLen = 3
  MaxRoom = 2
  MaxConns = 2
  MaxStmts = 2
  Values = {"null", "true", "int", "wide", "huge", "real", "whole", "text", "nul", "buffer", "bytes", "object"}
  MaxRows = 1
SPECIFICATION Spec
INVARIANTS
  FsInv
  ReadStreamInv
  SandboxInv
  ZlibInv
  SqliteInv
PROPERTIES
  CallsAreAnswered
  NativeIsReleased
CHECK_DEADLOCK FALSE
