SPECIFICATION FairSpec
CONSTANTS
  Handler = {h1, h2}
  Main = Main
  None = None
  Thread = {t1, t2}
  MaxThreads = 1
  QueueSize = 1
  MaxWaits = 2
  SingleThreadExit = TRUE
  GracefulStop = TRUE
  CreateMayFail = FALSE
PROPERTIES PostedIsAnswered PoolKeepsServing
INVARIANT TypeOK
