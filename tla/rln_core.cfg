SPECIFICATION Spec
CONSTANTS
  h = h
  f = f
  Node = {h, f}
  Careless = {f}
  Ahead <- HIsAhead
  EpochSize = 2
  MaxTimestampGap = 2
  NonceLimit = 2
  MaxAge <- NoneAndOne
  Start = 6
  MaxTime = 9
  MaxMessages = 3
CHECK_DEADLOCK FALSE
INVARIANTS TypeOK DoubleUseIsCaught RateLimitHolds HonestIsNotSpam NonceAtMostTwice LogIsBounded
