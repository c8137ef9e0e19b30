SPECIFICATION Spec
CONSTANTS
  None = None
  Names = {"absent"}
  Dirs <- MCDirs
  Path <- MCPath
  VHosts = 2
  Directives <- MCDirectives
  MaxLines = 3
  UserDirs = {"u"}
  MaxEdits = 1
  MaxChildren = 1
  MaxRestarts = 1
  MaxRequests = 2
  Threaded = FALSE
  Bridges = {"prefork", "worker"}
  EnvBridge = None
INVARIANTS TypeOK ClosestWins InspectTruth VHostsIndexed InitScriptsOnce
CHECK_DEADLOCK FALSE
