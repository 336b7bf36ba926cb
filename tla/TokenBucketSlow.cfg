\* refill_rate 1/3 token per "second" of two ticks
CONSTANTS
  Capacity = 1
  U = 6
  R = 1
  Eps = 0
  Slack = 2
  MaxTime = 8
SPECIFICATION Spec
INVARIANT ExpiryIsUnobservable
