SPECIFICATION RecSpec
CONSTANTS
  c1 = c1  c2 = c2  h1 = h1  h2 = h2  h3 = h3
  Caller = {c1, c2}
  Event = {"e1", "e2", "e3", "e4"}
  Control = {}
  Requested = {"e1", "e2"}
  Quiet = {"e2"}
  Head = {h1, h2, h3}
  NoHead = NoHead
  HeadOf <- MCHeadOf
  Descends <- MCDescends
  Cited <- MCCited
  SameEventTogether = FALSE
  MaxSeq = 5
  MaxFaults = 1
INVARIANTS OpenGateIsProven OneEscalationPerEpoch EscalatedIsAnnounced OwedIsNotLost
SYMMETRY MCSymmetry
CHECK_DEADLOCK FALSE
