\* Two queries at a time; the peer may answer each twice, late or never.
CONSTANTS
  q1 = q1  q2 = q2
  Queries = {q1, q2}
  Recv = Recv  Timer = Timer  None = None
  MaxAnswers = 2
SPECIFICATION Spec
CHECK_DEADLOCK FALSE
INVARIANTS RegisteredWhileWaiting NoWakeupLost
PROPERTIES QueryReturns ReceiverReturns
