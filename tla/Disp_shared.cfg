SPECIFICATION Spec
CONSTANTS
  d1 = d1  d2 = d2  h1 = h1  h2 = h2  bot1 = bot1  bot2 = bot2
  Dispatcher = {d1, d2}
  Host = {h1}
  Login = {bot1}
  Card = {c1}
  Pid = {p1, p2, p3}
  HostOf <- OneHost
  LoginOf <- SameLogin
  Status = {"Ready", "QA"}
  Variant = "full"
  MaxWorkers = 2
  Env = {}
  NoPid = NoPid  NoCard = NoCard  NoDispatcher = NoDispatcher
SYMMETRY MCSymmetry
INVARIANTS OneWorkerPerCard LiveWorkerTracked
