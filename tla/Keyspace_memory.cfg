CONSTANTS
  w1 = w1
  w2 = w2
  ka = ka
  kb = kb
  kc = kc
  kd = kd
  Worker = {w1, w2}
  Key = {ka, kb, kc, kd}
  DbNum = 2
  Home <- HomeABCD
  Bucket <- BucketABCD
  Buckets = 2
  Ops <- Fill
  MaxArgs = 1
  MaxNow = 1
  LLONG_MAX = 7
  Second = 3
  Times <- ShortTime
  MaxMemory = 1
  Policy = "volatile"
  KeysLimit = 2
SPECIFICATION Spec
INVARIANTS
  GivesUpRightly
  MemoryBounded
CHECK_DEADLOCK FALSE
