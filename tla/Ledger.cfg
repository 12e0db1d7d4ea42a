SPECIFICATION LedgerSpec
CONSTANTS
  r1 = r1  r2 = r2  h1 = h1  h2 = h2  i1 = i1
  Req = {r1, r2}
  Head = {h1, h2}
  Crit = {c1}
  Dec = {d1}
  Issue = {i1}
  InitialState = {"pending", "live verification"}
  InitialStatus = {"verified"}
  OtherState = {"pending", "done"}
  Worked = {r1}
  MaxEdits = 2
  NoHead = NoHead  NoReq = NoReq  NoIssue = NoIssue
SYMMETRY MCSymmetry
INVARIANTS StageEvidenceCurrent HealthyIsVerified
PROPERTIES DoneOnReviewedHead ParentStaysClosed
CHECK_DEADLOCK FALSE
