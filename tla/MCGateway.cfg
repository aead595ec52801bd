CONSTANTS
  s1 = s1
  s2 = s2
  Caller = {s1, s2}
  TTL = 4
  RenewMargin = 3
  MaxLife = 5
  MaxDelay = 1
  MaxTokens = 4
  MaxNow = 5
  MaxLost = 1
  MaxSecrets = 2
  Mixes <- MCMixes
  MaxRequests = 2
  MaxRestarts = 1
  MaxRedeliveries = 1
SPECIFICATION FairGatewaySpec
INVARIANTS
  GatewayTypeOK
  BeliefBounded
  ReadsUseLiveToken
  KeyIsCurrent
PROPERTIES
  AnswersAgree
  ImplementsRemoteCall
  EveryHttpRequestAnswered
CHECK_DEADLOCK FALSE
