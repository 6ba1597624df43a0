SPECIFICATION Spec
CONSTANTS
  Order <- TwoPrograms
  StreamOrder <- TwoPrograms
  Size = 1
  RingSize = 1
  MaxEvents = 2
  Requests = {q1, q2}
SYMMETRY Threads
INVARIANTS TypeOK RunningMeansServed AnswersAgree
PROPERTIES ImplementsFeed
CHECK_DEADLOCK FALSE
