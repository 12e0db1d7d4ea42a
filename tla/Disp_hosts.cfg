SPECIFICATION Spec
CONSTANTS
  d1 = d1  d2 = d2  h1 = h1  h2 = h2  bot1 = bot1  bot2 = bot2
  Dispatcher = {d1, d2}
  Host = {h1, h2}
  Login = {bot1, bot2}
  Card = {c1}
  Pid = {p1, p2}
  HostOf <- HostEach
  LoginOf <- LoginEach
  Status = {"Ready", "QA"}
  Variant = "full"
  MaxWorkers = 2
  Env = {"crash", "slow-claim", "blind-unlink", "gh-failure"}
  NoPid = NoPid  NoCard = NoCard  NoDispatcher = NoDispatcher
SYMMETRY MCSymmetry
INVARIANTS ClaimExcludes ClaimIsHeld OneWorkerPerHost
