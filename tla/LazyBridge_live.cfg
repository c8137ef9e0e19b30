SPECIFICATION FairSpec
CONSTANTS
  Handler = {h1, h2}
  Worker = {w1, w2}
  Main = Main
  None = None
  VHostCount = 1
  MaxTries = 2
  SingleThreadExit = TRUE
  ScriptsExit = TRUE
  GracefulStop = FALSE
  CreateMayFail = FALSE
PROPERTIES PostedIsAnswered ShutdownEnds
