CONSTANTS
  Request <- MCRequest
  Question <- MCQuestion
  Pbuf = {p1, p2, p3}
  NoPbuf = NoPbuf
  QMax = 2
  NameSize = 6
  W <- MCW
SPECIFICATION FairSpec
INVARIANTS TypeOK Ownership AnswersOwn WakeupKept 
PROPERTIES AcceptedEnds
