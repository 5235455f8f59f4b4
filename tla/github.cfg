SPECIFICATION FairSpec
CONSTANTS
  c1 = c1
  c2 = c2
  Callers = {c1, c2}
  NoCaller = NoCaller
  MaxRetries = 2
  Leeway = 1
  Life = 3
  MaxNow = 4
INVARIANT TypeOK
INVARIANT LiveTokens
PROPERTY NoFreshTokenReplaced
PROPERTY FailsOnlyWithoutToken
PROPERTY ImplementsSingleFlight
PROPERTY EveryRequestEnds
