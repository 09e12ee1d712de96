CONSTANTS
  FConns = {c1, c2}
  FReqs = {r1, r2}
  MaxPool = 1
  MaxHops = 1
  TlsData = 2
  MaxSends = 3
  MaxCopies = 2
  PemFiles <- MCPemFiles
  Block = 3
  AnchorCap = 2
  MaxLoads = 2
  CrUnits = 4
  BlockUnits = 2
  MaxKeys = 3
SPECIFICATION Spec
INVARIANTS
  FetchInv
  TlsInv
  CredentialsInv
  CryptoInv
PROPERTIES
  NetworkCallsEnd
CHECK_DEADLOCK FALSE
