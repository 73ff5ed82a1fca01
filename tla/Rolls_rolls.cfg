SPECIFICATION FairSpec
CONSTANTS
  r1 = r1
  r2 = r2
  Requests = {r1, r2}
  Rollers = {r1, r2}
  MaxRequestsPer10Secs = 0
  MaxBucket = 1
  MaxCount = 2
  Bytes = {4, 251, 252}
  Pools = {2}
  RollBufferSize = 1
  MaxSixes = 2
INVARIANTS TypeOK OvershootIsBounded DiceAreFair PoolsAreComplete BlanksOnlyAtTheEnd
PROPERTIES RollersAreServed
CHECK_DEADLOCK FALSE
