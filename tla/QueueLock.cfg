SPECIFICATION FairSpec
CONSTANTS
  Proc = {p1, p2}
  MaxCalls = 4
  Env = {}
  NoProc = {p1, p2}
INVARIANT OneInside
PROPERTIES ActsAtomically WaiterGetsIn
CHECK_DEADLOCK FALSE
