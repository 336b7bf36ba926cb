\* 8/5 tokens per "second" of two ticks, rounded by a fifth of a token
CONSTANTS
  Capacity = 2
  U = 5
  R = 4
  Eps = 1
  Slack = 2
  MaxTime = 6
SPECIFICATION MCSpec
INVARIANTS TypeOK LeakyTypeOK ExpiryIsUnobservable RateBound AnswersKept
PROPERTIES ImplementsBucket LeakyIsTokenBucket
