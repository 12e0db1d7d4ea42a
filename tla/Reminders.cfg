SPECIFICATION RemindersFairSpec
CONSTANTS
  d1 = d1  q1 = q1  c1 = c1  A = A  B = B
  Button = Button  None = None
  Dec = {d1}
  Request = {q1}
  Comment = {c1}
  Deps <- MCDeps
  On <- MCOn
  Question = {}
  Listed <- MCListed
  Kinds <- MCKinds
  Words = {}
  Poller = {p1}
  MaxEdits <- MCEdits
  MaxFaults = 0
  Loop = {l1}
  Other = {o1}
  About <- MCAbout
  Cadence = 2
  MaxMishaps = 1
INVARIANTS SpacedReminders AnsweredIsNotAsked
PROPERTIES AnswerIsFinal AskedAgain
CHECK_DEADLOCK FALSE
