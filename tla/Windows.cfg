CONSTANTS
  WindowSize = 4
  MaxRequests = 2
  MaxTime = 10
  Sizes = {1, 2, 4}
  Limits = {1, 2}
  MaxPatches = 3
  LogTime = 10
  CounterTime = 17
SPECIFICATION MCSpec
INVARIANTS
  KeyEndsWithWindow BurstBound RetryAfterSuffices
  WindowBound LogIsComplete LogIsBounded RetryAfterExact
  CountsAreTrue WeightedBound RetryAfterReset
PROPERTY ImplementsSlidingWindow
