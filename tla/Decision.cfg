SPECIFICATION FairSpec
CONSTANTS
  d1 = d1  q1 = q1  q2 = q2  c1 = c1  c2 = c2  A = A  B = B
  Button = Button  None = None
  Dec = {d1}
  Request = {q1, q2}
  Comment = {c1, c2}
  Deps <- MCDeps
  On <- MCOn
  Question = {c2}
  Listed <- MCListed
  Kinds <- MCKinds
  Words = {}
  Poller = {p1}
  MaxEdits <- MCEdits
  MaxFaults = 1
INVARIANT LedgerNamesTheChoice
PROPERTIES LateReplyBlocksNothing AnswersArrive
CHECK_DEADLOCK FALSE
