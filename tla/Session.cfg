CONSTANTS
  c1 = c1
  c2 = c2
  c3 = c3
  Calls = {c1, c2, c3}
  Writes <- TwoWriters
  NoCall = NoCall
SPECIFICATION FairSpec
INVARIANTS
  TypeOK
  NoMixedCredentials
  AtMostOneEffect
  AnswersAreTrue
PROPERTIES
  NeverDropsLiveTicket
  NeverStartsOver
  CallsReturn
  ImplementsCallOnce
