\* Clients that behave as sandc does.
CONSTANTS
  f1 = f1  f2 = f2  f3 = f3
  c1 = c1  c2 = c2  c3 = c3
  t1 = t1  t2 = t2
  NoFd = NoFd  NoId = NoId  NoTopic = NoTopic
  Fds = {f1, f2, f3}
  Ids = {c1, c2, c3}
  Topics = {t1, t2}
  Connects <- WellBehaved
  Batches <- WellBehavedBatches
  SelfWriteFails = FALSE
SPECIFICATION Spec
INVARIANTS RegistryExact IdLive TimerArmed NoCrash DepthBound
PROPERTIES PublishReaches CallbackEnds
