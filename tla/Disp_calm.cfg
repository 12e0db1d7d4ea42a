SPECIFICATION FairSpec
CONSTANTS
  d1 = d1  d2 = d2  h1 = h1  h2 = h2  bot1 = bot1  bot2 = bot2
  Dispatcher = {d1}
  Host = {h1}
  Login = {bot1}
  Card = {c1}
  Pid = {p1, p2}
  HostOf <- OneHost
  LoginOf <- SameLogin
  Status = {"Ready", "Building", "QA"}
  Variant = "full"
  MaxWorkers = 2
  Env = {"slow-claim", "blind-unlink"}
  NoPid = NoPid  NoCard = NoCard  NoDispatcher = NoDispatcher
INVARIANT NoStrandedClaim
PROPERTY ZombiesAreFreed
