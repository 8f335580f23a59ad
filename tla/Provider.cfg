CONSTANTS
  h1 = h1
  h2 = h2
  h3 = h3
  put = put
  post = post
  get = get
  poll = poll
  log = log
  Handlers = {h1, h2, h3}
  Plans <- SmallPlans
  Nobody = Nobody
  Calls = {put, post, get, poll, log}
  Writes <- TwoWriters
  NoCall = NoCall
SPECIFICATION ProviderFairSpec
INVARIANTS
  HandlersTypeOK
  CreatedOnce
  ToldIsTrue
  NoDeadlock
PROPERTIES
  WritesInTurn
  ImplementsHandlers
  HandlersReturn
