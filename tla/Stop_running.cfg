SPECIFICATION StopSpec
CONSTANTS
  d1 = d1  h1 = h1  bot1 = bot1
  Dispatcher = {d1}
  Host = {h1}
  Login = {bot1}
  Card = {c1}
  Pid = {p1, p2}
  HostOf <- OneHost
  LoginOf <- SameLogin
  Status = {"Ready"}
  Variant = "full"
  MaxWorkers = 1
  Env = {"crash", "gh-failure"}
  NoPid = NoPid  NoCard = NoCard  NoDispatcher = NoDispatcher
  StopHost = h1
  StopLogin = bot1
PROPERTIES StopStopsWorkers StopLeavesHostAtRest
