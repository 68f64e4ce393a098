CONSTANTS
  Requests = {r1, r2, r3}
  MaxAttempts = 3
  BlockSeconds = 2
  MaxCrashes = 1
SPECIFICATION FairSpec
INVARIANTS TypeOK LimitIsEnforced CounterExpires
PROPERTIES BlocksAreBounded BlockEnds CounterEnds
