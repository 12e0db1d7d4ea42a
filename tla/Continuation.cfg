SPECIFICATION Spec
CONSTANTS
  r1 = r1  d1 = d1  d2 = d2  a1 = a1  a2 = a2  None = None
  Req = {r1}
  Driver = {d1, d2}
  Handle = {a1, a2}
  Backend = {"native", "cli"}
  MaxCommit = 1
  MaxRuns = 2
  MaxEdits = 1
  MaxUnparks = 1
  MaxCrashes = 1
SYMMETRY MCSymmetry
INVARIANTS TestedHead FailureCountedOnce
PROPERTIES OutcomeSettled StageNotRepeated
CHECK_DEADLOCK FALSE
