SPECIFICATION Spec
CONSTANTS
  Handler = {h1, h2}
  Worker = {w1, w2}
  Main = Main
  None = None
  VHostCount = 1
  MaxTries = 3
  SingleThreadExit = TRUE
  ScriptsExit = TRUE
  GracefulStop = TRUE
  CreateMayFail = FALSE
INVARIANT IdleAvailable
