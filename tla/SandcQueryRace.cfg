\* One query, one answer that comes as the time runs out.
CONSTANTS
  q1 = q1  q2 = q2
  Queries = {q1}
  Recv = Recv  Timer = Timer  None = None
  MaxAnswers = 1
SPECIFICATION Spec
CHECK_DEADLOCK FALSE
INVARIANT NoCrash
