SPECIFICATION FairSpec
CONSTANTS
  Handler = {h1, h2}
  Main = Main
  None = None
  Thread = {t1, t2}
  MaxThreads = 2
  QueueSize = 2
  MaxWaits = 1
  SingleThreadExit = FALSE
  GracefulStop = FALSE
  CreateMayFail = TRUE
INVARIANTS ExclusiveOwner ServesItsHandler AnswerIsOwn
PROPERTIES ServiceSpec ShutdownEnds
