CONSTANTS
  w1 = w1
  w2 = w2
  ka = ka
  kb = kb
  kc = kc
  kd = kd
  Worker = {w1, w2}
  Key = {ka, kc}
  DbNum = 2
  Home <- HomeAC
  Bucket <- BucketAC
  Buckets = 2
  Ops <- Draw
  MaxArgs = 1
  MaxNow = 2
  LLONG_MAX = 7
  Second = 3
  Times <- ShortTime
  MaxMemory = 0
  Policy = "noeviction"
  KeysLimit = 0
SPECIFICATION FairSpec
PROPERTIES
  ExpiredCollected
  RandomKeyReturns
CHECK_DEADLOCK FALSE
