SPECIFICATION FairSpec
CONSTANTS
  Null = Null
  Requests = {1, 2, 3}
  Ttl <- MCTtl
  ErrorTtl <- MCErrorTtl
  MAX_FORECAST_CACHE_TTL = 3
  MaxFetch = 2
  MaxAge = 8
  ResetMidFetch = FALSE
INVARIANTS AnswersFresh DevicesCurrent
PROPERTIES NotHammered EveryoneAnswered
