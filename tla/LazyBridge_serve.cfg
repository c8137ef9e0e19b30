SPECIFICATION Spec
CONSTANTS
  Handler = {h1, h2}
  Worker = {w1, w2}
  Main = Main
  None = None
  VHostCount = 2
  MaxTries = 2
  SingleThreadExit = FALSE
  ScriptsExit = TRUE
  GracefulStop = FALSE
  CreateMayFail = TRUE
SYMMETRY Symmetry
INVARIANTS TypeOK VHostsIsolated NoWorkerLost
PROPERTY ServiceSpec
