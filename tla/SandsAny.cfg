\* Every input, valid or not, and every failing write.
CONSTANTS
  f1 = f1  f2 = f2  f3 = f3
  c1 = c1  c2 = c2  c3 = c3
  t1 = t1  t2 = t2
  NoFd = NoFd  NoId = NoId  NoTopic = NoTopic
  Fds = {f1, f2, f3}
  Ids = {c1, c2, c3}
  Topics = {t1, t2}
  Connects <- AnyConnects
  Batches <- AnyBatches
  SelfWriteFails = TRUE
SPECIFICATION Spec
CHECK_DEADLOCK FALSE
INVARIANTS TypeOK SubscriberKept TimerArmed DepthBound
PROPERTIES PublishReaches
