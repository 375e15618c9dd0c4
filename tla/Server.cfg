CONSTANTS
  p1 = p1
  p2 = p2
  h1 = h1
  h2 = h2
  w1 = w1
  w2 = w2
  b = b
  Workers = {w1, w2}
  Blocker = b
  Patient = {p1, p2}
  Hasty = {h1, h2}
  NoConn = NoConn
  Scenarios <- SomeScenarios
SPECIFICATION FairSpec
INVARIANT NoLeak
INVARIANT OwnAnswers
INVARIANT MessagesInOrder
PROPERTY AllAnswered
PROPERTY MessagesSent
CHECK_DEADLOCK FALSE
